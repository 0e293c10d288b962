--------------------------- MODULE RregexecProofs ---------------------------
(***************************************************************************)
(* What a program of the regular expression machine accepts: the machine   *)
(* finds the leftmost and longest of it, and the parts that regcomp.c puts *)
(* a program together from stand for what their operators mean.            *)
(***************************************************************************)
EXTENDS Rregexec, SequencesExt, SequenceTheorems,
        FiniteSetTheorems, WellFoundedInduction, TLAPS

-----------------------------------------------------------------------------
(* Facts about numbers *)

(* A set of natural numbers has a least element. *)
LEMMA LeastNumber ==
  ASSUME NEW S \in SUBSET Nat, S # {}
  PROVE  \E m \in S : \A k \in S : m <= k
<1> DEFINE Segments == {S \cap (0 .. m) : m \in S}
<1>1. IsWellFoundedOn(StrictSubsetOrdering(Nat), FiniteSubsetsOf(Nat))
  BY FS_StrictSubsetOrderingWellFounded
<1>2. Segments \subseteq FiniteSubsetsOf(Nat)
  <2>1. \A m \in S : IsFiniteSet(S \cap (0 .. m))
    <3> TAKE m \in S
    <3>1. IsFiniteSet(0 .. m)
      BY FS_Interval
    <3> QED BY <3>1, FS_Subset
  <2> QED BY <2>1 DEF FiniteSubsetsOf
<1>3. Segments # {}
  OBVIOUS
<1> HIDE DEF Segments
<1>4. PICK x \in Segments : \A y \in Segments : ~ (<<y, x>> \in StrictSubsetOrdering(Nat))
  BY <1>1, <1>2, <1>3, WFMin
<1> USE DEF Segments
<1>5. PICK m \in S : x = S \cap (0 .. m)
  BY <1>4
<1>6. \A k \in S : m <= k
  <2> SUFFICES ASSUME NEW k \in S, k < m PROVE FALSE
    OBVIOUS
  <2> DEFINE y == S \cap (0 .. k)
  <2>1. y \in Segments /\ y \subseteq x /\ m \in x /\ m \notin y /\ x \subseteq Nat
    BY <1>5
  <2>2. <<y, x>> \in StrictSubsetOrdering(Nat)
    BY <2>1 DEF StrictSubsetOrdering
  <2> QED BY <1>4, <2>1, <2>2
<1> QED BY <1>6

(* What holds at 0, and at i if it holds at i - 1, holds up to n.          *)
LEMMA UpTo ==
  ASSUME NEW n \in Nat, NEW P \in SUBSET (0 .. n), 0 \in P,
         \A i \in 1 .. n : i - 1 \in P => i \in P
  PROVE  P = 0 .. n
<1> DEFINE Left == (0 .. n) \ P
<1> SUFFICES ASSUME Left # {} PROVE FALSE
  OBVIOUS
<1>1. Left \in SUBSET Nat
  OBVIOUS
<1>2. \A i \in 0 .. n : i \in P <=> i \notin Left
  OBVIOUS
<1>3. \A i \in Left : i \in 0 .. n
  OBVIOUS
<1> HIDE DEF Left
<1>4. PICK m \in Left : \A k \in Left : m <= k
  BY <1>1, LeastNumber
<1>5. m # 0
  BY <1>2, <1>3
<1>6. m - 1 \in 0 .. n /\ m \in 1 .. n /\ ~(m <= m - 1)
  BY <1>3, <1>5
<1> QED BY <1>2, <1>4, <1>6

(* Functions by primitive recursion: F[i] makes the value at i from the    *)
(* one before.  (A set of values is needed for the existence, nothing      *)
(* else; the counterexample with the smallest length has none.)            *)
ByRecursion(g, F, a, n) == g[0] = a /\ \A i \in 1 .. n : g[i] = F[i][g[i - 1]]

LEMMA RecursionExists ==
  ASSUME NEW V, NEW a \in V, NEW n \in Nat, NEW F, \A i \in 1 .. n : F[i] \in [V -> V]
  PROVE  \E g \in [0 .. n -> V] : ByRecursion(g, F, a, n)
<1> DEFINE Failing == {m \in 0 .. n : ~ \E g \in [0 .. m -> V] : ByRecursion(g, F, a, m)}
<1>1. Failing = {}
  <2> SUFFICES ASSUME Failing # {} PROVE FALSE
    OBVIOUS
  <2>1. Failing \in SUBSET Nat
    OBVIOUS
  <2>2. \A m \in Failing : m \in 0 .. n /\ ~ \E g \in [0 .. m -> V] : ByRecursion(g, F, a, m)
    OBVIOUS
  <2>3. \A m \in 0 .. n : m \notin Failing => \E g \in [0 .. m -> V] : ByRecursion(g, F, a, m)
    OBVIOUS
  <2> HIDE DEF Failing
  <2>4. PICK m \in Failing : \A k \in Failing : m <= k
    BY <2>1, LeastNumber
  <2>5. m # 0
    <3> DEFINE g == [i \in 0 .. 0 |-> a]
    <3>1. g \in [0 .. 0 -> V] /\ g[0] = a
      OBVIOUS
    <3>2. ByRecursion(g, F, a, 0)
      BY <3>1 DEF ByRecursion
    <3> QED BY <2>2, <3>1, <3>2
  <2> DEFINE l == m - 1
  <2>6. l \in 0 .. n /\ l < m /\ m \in 1 .. n /\ l + 1 = m
    BY <2>2, <2>4, <2>5
  <2> HIDE DEF l
  <2>7. l \notin Failing
    BY <2>4, <2>6
  <2>8. PICK g \in [0 .. l -> V] : ByRecursion(g, F, a, l)
    BY <2>3, <2>6, <2>7
  <2> DEFINE h == [i \in 0 .. m |-> IF i = m THEN F[m][g[l]] ELSE g[i]]
  <2>9. F[m][g[l]] \in V
    BY <2>6, <2>8
  <2>10. h \in [0 .. m -> V]
    BY <2>6, <2>9
  <2>11. ByRecursion(h, F, a, m)
    <3>1. h[0] = a
      BY <2>6, <2>8 DEF ByRecursion
    <3>2. ASSUME NEW i \in 1 .. m PROVE h[i] = F[i][h[i - 1]]
      <4>1. CASE i = m
        <5>1. h[i] = F[m][g[l]] /\ h[i - 1] = g[l]
          BY <4>1, <2>6
        <5> QED BY <5>1, <4>1
      <4>2. CASE i # m
        <5>1. i \in 1 .. l /\ h[i] = g[i] /\ h[i - 1] = g[i - 1]
          BY <4>2, <2>6
        <5>2. g[i] = F[i][g[i - 1]]
          BY <5>1, <2>8 DEF ByRecursion
        <5> QED BY <5>1, <5>2
      <4> QED BY <4>1, <4>2
    <3> QED BY <3>1, <3>2 DEF ByRecursion
  <2> HIDE DEF h
  <2> QED BY <2>2, <2>4, <2>10, <2>11
<1>2. n \in 0 .. n
  OBVIOUS
<1> QED BY <1>1, <1>2

-----------------------------------------------------------------------------
(* A node is an instruction and the data of a thread that has reached it.   *)
(* y is reached from x if it is in every set of nodes that has x and that  *)
(* no edge leaves.                                                         *)
Nodes(D) == Nat \X D
Kept(E, S) == \A e \in E : e[1] \in S => e[2] \in S
Leads(E, D, x, y) == \A S \in SUBSET Nodes(D) : x \in S /\ Kept(E, S) => y \in S

LEMMA LeadsNowhereElse ==
  ASSUME NEW D, NEW E \in SUBSET (Nodes(D) \X Nodes(D)), NEW x \in Nodes(D), NEW y,
         Leads(E, D, x, y)
  PROVE  y \in Nodes(D)
<1>1. Kept(E, Nodes(D))
  BY DEF Kept
<1> QED BY <1>1 DEF Leads

LEMMA LeadsToItself ==
  ASSUME NEW D, NEW E, NEW x \in Nodes(D)
  PROVE  Leads(E, D, x, x)
BY DEF Leads

LEMMA LeadsOn ==
  ASSUME NEW D, NEW E, NEW x, NEW y, NEW z, Leads(E, D, x, y), <<y, z>> \in E
  PROVE  Leads(E, D, x, z)
<1> SUFFICES ASSUME NEW S \in SUBSET Nodes(D), x \in S, Kept(E, S) PROVE z \in S
  BY DEF Leads
<1>1. y \in S
  BY DEF Leads
<1>2. <<y, z>>[1] \in S => <<y, z>>[2] \in S
  BY DEF Kept
<1> QED BY <1>1, <1>2

LEMMA LeadsFurther ==
  ASSUME NEW D, NEW E, NEW x, NEW y, NEW z, Leads(E, D, x, y), Leads(E, D, y, z)
  PROVE  Leads(E, D, x, z)
BY DEF Leads

(* What is reached is x itself or has an edge to it from what is reached. *)
LEMMA LeadsFirst ==
  ASSUME NEW D, NEW E \in SUBSET (Nodes(D) \X Nodes(D)), NEW x \in Nodes(D), NEW y,
         Leads(E, D, x, y), y # x
  PROVE  \E z : <<x, z>> \in E /\ Leads(E, D, z, y)
<1> DEFINE S == {x} \cup {v \in Nodes(D) : \E z : <<x, z>> \in E /\ Leads(E, D, z, v)}
<1>1. Kept(E, S)
  <2> SUFFICES ASSUME NEW e \in E, e[1] \in S PROVE e[2] \in S
    BY DEF Kept
  <2>1. e = <<e[1], e[2]>> /\ e[1] \in Nodes(D) /\ e[2] \in Nodes(D)
    OBVIOUS
  <2>2. CASE e[1] = x
    BY <2>1, <2>2, LeadsToItself
  <2>3. CASE e[1] # x
    <3>1. PICK z : <<x, z>> \in E /\ Leads(E, D, z, e[1])
      BY <2>3
    <3>2. Leads(E, D, z, e[2])
      BY <2>1, <3>1, LeadsOn
    <3> QED BY <2>1, <3>1, <3>2
  <2> QED BY <2>2, <2>3
<1>2. S \in SUBSET Nodes(D) /\ x \in S
  OBVIOUS
<1>3. y \in S
  BY <1>1, <1>2 DEF Leads
<1> QED BY <1>3

(* To show where y is, it is enough that no edge leaves a set of nodes.    *)
LEMMA LeadsIn ==
  ASSUME NEW D, NEW E \in SUBSET (Nodes(D) \X Nodes(D)), NEW S \in SUBSET Nodes(D),
         NEW x \in S, NEW y, Leads(E, D, x, y),
         \A p, q \in Nat, d, e \in D :
            /\ <<<<p, d>>, <<q, e>>>> \in E
            /\ <<p, d>> \in S
            /\ Leads(E, D, x, <<p, d>>)
            => <<q, e>> \in S
  PROVE  y \in S
<1> DEFINE T == {v \in S : Leads(E, D, x, v)}
<1>1. T \in SUBSET Nodes(D) /\ x \in T
  BY LeadsToItself
<1>2. Kept(E, T)
  <2> SUFFICES ASSUME NEW g \in E, g[1] \in T PROVE g[2] \in T
    BY DEF Kept
  <2>1. PICK p \in Nat, d \in D, q \in Nat, e \in D : g = <<<<p, d>>, <<q, e>>>>
    BY DEF Nodes
  <2>2. <<q, e>> \in S
    BY <2>1
  <2>3. Leads(E, D, x, <<q, e>>)
    BY <2>1, LeadsOn
  <2> QED BY <2>1, <2>2, <2>3
<1> HIDE DEF T
<1>3. y \in T
  BY <1>1, <1>2 DEF Leads
<1> QED BY <1>3 DEF T

-----------------------------------------------------------------------------
(* What a program accepts *)

(* Whether an instruction lets a thread go on from the place i to j.        *)
Moves(in, t, i, j) ==
    CASE in.type \in {"(", ")", "or", "nop"} -> j = i
      [] in.type = "bol" -> j = i /\ (i = 0 \/ t[i] = Newline)
      [] in.type = "eol" -> j = i /\ (i = Len(t) \/ t[i + 1] = Newline)
      [] in.type = "end" -> FALSE
      [] OTHER -> j = i + 1 /\ j <= Len(t) /\ Consumes(in, t[j])

Edge(prog, t, p, i, q, j) ==
    /\ p \in DOMAIN prog
    /\ Moves(prog[p], t, i, j)
    /\ q = prog[p].next \/ (prog[p].type = "or" /\ q = prog[p].right)

Edges(prog, t) ==
    {e \in Nodes(Places(t)) \X Nodes(Places(t)) :
       Edge(prog, t, e[1][1], e[1][2], e[2][1], e[2][2])}

(* A thread that started at the place c may come to p at the place i.       *)
Reaches(r, t, c, p, i) == Leads(Edges(r.prog, t), Places(t), <<r.start, c>>, <<p, i>>)

Accepts(r, t, c, j) ==
    \E p \in DOMAIN r.prog : r.prog[p].type = "end" /\ Reaches(r, t, c, p, j)
Accepted(r, t) == {s \in Places(t) \X Places(t) : Accepts(r, t, s[1], s[2])}

LEMMA EdgesAre ==
  ASSUME NEW prog, NEW t, NEW p \in Nat, NEW q \in Nat, NEW i \in Places(t), NEW j \in Places(t)
  PROVE  <<<<p, i>>, <<q, j>>>> \in Edges(prog, t) <=> Edge(prog, t, p, i, q, j)
<1> DEFINE e == <<<<p, i>>, <<q, j>>>>
<1>1. e \in Nodes(Places(t)) \X Nodes(Places(t))
  BY DEF Nodes
<1>2. e[1][1] = p /\ e[1][2] = i /\ e[2][1] = q /\ e[2][2] = j
  OBVIOUS
<1> QED BY <1>1, <1>2 DEF Edges

LEMMA EdgesAreEdges ==
  ASSUME NEW prog, NEW t
  PROVE  Edges(prog, t) \in SUBSET (Nodes(Places(t)) \X Nodes(Places(t)))
BY DEF Edges

LEMMA ReachesStart ==
  ASSUME NEW r, NEW t, r.start \in Nat, NEW c \in Places(t)
  PROVE  Reaches(r, t, c, r.start, c)
<1>1. <<r.start, c>> \in Nodes(Places(t))
  BY DEF Nodes
<1> QED BY <1>1, LeadsToItself DEF Reaches

LEMMA ReachesPlaces ==
  ASSUME NEW r, NEW t, r.start \in Nat, NEW c \in Places(t), NEW p, NEW i,
         Reaches(r, t, c, p, i)
  PROVE  p \in Nat /\ i \in Places(t)
<1>1. <<r.start, c>> \in Nodes(Places(t))
  BY DEF Nodes
<1>2. <<p, i>> \in Nodes(Places(t))
  BY <1>1, LeadsNowhereElse, EdgesAreEdges DEF Reaches
<1> QED BY <1>2 DEF Nodes

LEMMA ReachesOn ==
  ASSUME NEW r, NEW t, NEW c, NEW p \in Nat, NEW q \in Nat,
         NEW i \in Places(t), NEW j \in Places(t),
         Reaches(r, t, c, p, i), Edge(r.prog, t, p, i, q, j)
  PROVE  Reaches(r, t, c, q, j)
BY LeadsOn, EdgesAre DEF Reaches

LEMMA ReachesIn ==
  ASSUME NEW r, NEW t, r.start \in Nat, NEW c \in Places(t), NEW p, NEW i,
         NEW S \in SUBSET Nodes(Places(t)), <<r.start, c>> \in S,
         Reaches(r, t, c, p, i),
         \A p1, q1 \in Nat, i1, j1 \in Places(t) :
            /\ Edge(r.prog, t, p1, i1, q1, j1)
            /\ <<p1, i1>> \in S
            /\ Reaches(r, t, c, p1, i1)
            => <<q1, j1>> \in S
  PROVE  <<p, i>> \in S
<1> DEFINE E == Edges(r.prog, t)
           D == Places(t)
<1>1. E \in SUBSET (Nodes(D) \X Nodes(D))
  BY EdgesAreEdges
<1>2. \A p1, q1 \in Nat, i1, j1 \in D :
            /\ <<<<p1, i1>>, <<q1, j1>>>> \in E
            /\ <<p1, i1>> \in S
            /\ Leads(E, D, <<r.start, c>>, <<p1, i1>>)
            => <<q1, j1>> \in S
  BY EdgesAre DEF Reaches
<1>3. Leads(E, D, <<r.start, c>>, <<p, i>>)
  BY DEF Reaches
<1> HIDE DEF E, D
<1>4. S \in SUBSET Nodes(D)
  BY DEF D
<1> QED BY <1>1, <1>2, <1>3, <1>4, LeadsIn

-----------------------------------------------------------------------------
(* Lists of threads *)

Types == {"(", ")", "or", "nop", "end", "rune", "any", "bol", "eol", "class", "nclass"}
Instructions == [type : Types, spans : Seq(Int \X Int), subid : Nat, right : Nat, next : Nat]

Submatch == [csp : Int, cep : Int]
Captures == {se \in [0 .. NSubexp - 1 -> Submatch] : se[0].csp \in Nat}
Entries == [inst : Nat, se : Captures]

(* The entries of a list from k on: where they wait and where they began.   *)
Waits(list, k) == {<<list[n].inst, list[n].se[0].csp>> : n \in k .. Len(list)}

(* A pair is covered by one that began no later.                            *)
Covered(A, p, c) == \E b \in Nat : b <= c /\ <<p, b>> \in A

LEMMA CoveredMore ==
  ASSUME NEW A, NEW B, NEW p, NEW c, Covered(A, p, c), A \subseteq B
  PROVE  Covered(B, p, c)
BY DEF Covered

LEMMA CoveredEarlier ==
  ASSUME NEW A, NEW p, NEW c \in Nat, NEW b \in Nat, b <= c, Covered(A, p, b)
  PROVE  Covered(A, p, c)
BY DEF Covered

LEMMA CoveredItself ==
  ASSUME NEW A, NEW p, NEW c \in Nat, <<p, c>> \in A
  PROVE  Covered(A, p, c)
BY DEF Covered

LEMMA CapturesAre ==
  ASSUME NEW se \in Captures
  PROVE  se[0].csp \in Nat
BY DEF Captures

LEMMA EntriesAre ==
  ASSUME NEW e \in Entries
  PROVE  /\ e.inst \in Nat /\ e.se \in Captures /\ e.se[0].csp \in Nat
         /\ e = [inst |-> e.inst, se |-> e.se]
<1>1. e.inst \in Nat /\ e.se \in Captures /\ e = [inst |-> e.inst, se |-> e.se]
  BY DEF Entries
<1> QED BY <1>1, CapturesAre

LEMMA EntriesMade ==
  ASSUME NEW ip \in Nat, NEW se \in Captures
  PROVE  [inst |-> ip, se |-> se] \in Entries
BY DEF Entries

LEMMA EntryChanged ==
  ASSUME NEW e \in Entries, NEW se
  PROVE  [e EXCEPT !.se = se] = [inst |-> e.inst, se |-> se]
BY DEF Entries

LEMMA WaitsAt ==
  ASSUME NEW list \in Seq(Entries), NEW k \in Nat \ {0}, NEW n \in k .. Len(list)
  PROVE  /\ list[n] \in Entries /\ list[n].inst \in Nat /\ list[n].se[0].csp \in Nat
         /\ <<list[n].inst, list[n].se[0].csp>> \in Waits(list, k)
<1>1. n \in 1 .. Len(list)
  OBVIOUS
<1>2. list[n] \in Entries
  BY <1>1
<1> QED BY <1>2, EntriesAre DEF Waits

(* What joins a list: every entry stays where it is, and began no later     *)
(* than before; there is one that covers the newcomer.                      *)
Renewal(list, k, ip, se, new) ==
    /\ new \in Seq(Entries) /\ Len(list) <= Len(new)
    /\ \A n \in 1 .. Len(list) :
         /\ new[n].inst = list[n].inst /\ new[n].se[0].csp <= list[n].se[0].csp
         /\ \/ new[n] = list[n]
            \/ /\ k <= n /\ list[n].inst = ip /\ new[n].se = se
               /\ se[0].csp < list[n].se[0].csp
    /\ \A n \in 1 .. Len(new) :
         \/ n <= Len(list) /\ new[n] = list[n]
         \/ new[n].inst = ip /\ new[n].se = se
    /\ \E n \in k .. Len(new) : new[n].inst = ip /\ new[n].se[0].csp <= se[0].csp

LEMMA Renewed ==
  ASSUME NSubexp \in Nat \ {0}, NEW list \in Seq(Entries), NEW k \in 1 .. Len(list) + 1,
         NEW ip \in Nat, NEW se \in Captures,
         NEW new, new = Renewthread(list, k, ip, se)
  PROVE  Renewal(list, k, ip, se, new)
<1> DEFINE same == {n \in k .. Len(list) : list[n].inst = ip}
<1>0. /\ se[0].csp \in Nat /\ [inst |-> ip, se |-> se] \in Entries
      /\ \A n \in 1 .. Len(list) : /\ list[n] \in Entries
                                   /\ list[n].se[0].csp \in Nat
                                   /\ list[n] = [inst |-> list[n].inst, se |-> list[n].se]
  <2>1. \A n \in 1 .. Len(list) : list[n] \in Entries
    OBVIOUS
  <2> QED BY <2>1, EntriesAre, EntriesMade, CapturesAre
<1>1. CASE same = {}
  <2>1. new = Append(list, [inst |-> ip, se |-> se])
    BY <1>1 DEF Renewthread
  <2>2. /\ Len(new) = Len(list) + 1 /\ new \in Seq(Entries)
        /\ \A n \in 1 .. Len(list) : new[n] = list[n]
        /\ new[Len(list) + 1] = [inst |-> ip, se |-> se]
    BY <2>1, <1>0
  <2> HIDE DEF same
  <2>3. \A n \in 1 .. Len(list) : new[n].se[0].csp <= list[n].se[0].csp
    <3> TAKE n \in 1 .. Len(list)
    <3>1. new[n] = list[n] /\ list[n].se[0].csp \in Nat
      BY <1>0, <2>2
    <3>2. new[n].se[0].csp = list[n].se[0].csp
      BY <3>1
    <3> QED BY <3>1, <3>2
  <2>4. Len(list) + 1 \in k .. Len(new) /\ new[Len(list) + 1].inst = ip
        /\ new[Len(list) + 1].se[0].csp <= se[0].csp
    BY <1>0, <2>2
  <2>5. \A n \in 1 .. Len(new) : n <= Len(list) \/ n = Len(list) + 1
    BY <2>2
  <2> QED BY <2>2, <2>3, <2>4, <2>5 DEF Renewal
<1>2. CASE same # {}
  <2> DEFINE n == CHOOSE n \in same : \A m \in same : n <= m
  <2>1. n \in same
    <3>1. same \in SUBSET Nat
      OBVIOUS
    <3>2. \E i \in same : \A m \in same : i <= m
      <4> HIDE DEF same
      <4> QED BY <1>2, <3>1, LeastNumber
    <3> HIDE DEF same
    <3> QED BY <3>2
  <2>2. new = IF se[0].csp < list[n].se[0].csp THEN [list EXCEPT ![n].se = se] ELSE list
    BY <1>2 DEF Renewthread
  <2> HIDE DEF n
  <2>3. n \in k .. Len(list) /\ n \in 1 .. Len(list) /\ list[n].inst = ip
    BY <2>1
  <2> HIDE DEF same
  <2>4. CASE se[0].csp < list[n].se[0].csp
    <3>1. /\ Len(new) = Len(list) /\ new \in Seq(Entries)
          /\ \A m \in 1 .. Len(list) : m # n => new[m] = list[m]
          /\ new[n] = [inst |-> ip, se |-> se]
      <4>1. new = [list EXCEPT ![n].se = se]
        BY <2>2, <2>4
      <4>2. [list[n] EXCEPT !.se = se] = [inst |-> ip, se |-> se]
        <5>1. list[n] \in Entries
          BY <1>0, <2>3
        <5> QED BY <2>3, <5>1, EntryChanged
      <4>3. new = [list EXCEPT ![n] = [inst |-> ip, se |-> se]]
        BY <4>1, <4>2
      <4> QED BY <1>0, <4>3, <2>3
    <3>2. new[n].inst = ip /\ new[n].se = se
      BY <3>1
    <3>3. \A m \in 1 .. Len(list) : new[m].se[0].csp <= list[m].se[0].csp /\ new[m].inst = list[m].inst
      <4> TAKE m \in 1 .. Len(list)
      <4>1. list[m].se[0].csp \in Nat /\ list[n].se[0].csp \in Nat
        BY <1>0, <2>3
      <4>2. CASE m = n
        BY <1>0, <2>3, <2>4, <3>2, <4>1, <4>2
      <4>3. CASE m # n
        <5>1. new[m] = list[m]
          BY <3>1, <4>3
        <5> QED BY <4>1, <5>1
      <4> QED BY <4>2, <4>3
    <3>4. n \in k .. Len(new) /\ new[n].se[0].csp <= se[0].csp
      BY <1>0, <2>3, <3>1, <3>2
    <3>5. \A m \in 1 .. Len(list) :
                  /\ new[m].inst = list[m].inst /\ new[m].se[0].csp <= list[m].se[0].csp
                  /\ \/ new[m] = list[m]
                     \/ /\ k <= m /\ list[m].inst = ip /\ new[m].se = se
                        /\ se[0].csp < list[m].se[0].csp
      BY <2>3, <2>4, <3>1, <3>2, <3>3
    <3> QED BY <2>3, <3>1, <3>2, <3>4, <3>5 DEF Renewal
  <2>5. CASE ~ (se[0].csp < list[n].se[0].csp)
    <3>1. new = list
      BY <2>2, <2>5
    <3>2. list[n].se[0].csp <= se[0].csp
      <4>1. list[n].se[0].csp \in Nat
        BY <1>0, <2>3
      <4> QED BY <1>0, <4>1, <2>5
    <3>3. \A m \in 1 .. Len(list) : new[m].se[0].csp <= list[m].se[0].csp
      <4> TAKE m \in 1 .. Len(list)
      <4>1. new[m] = list[m] /\ list[m].se[0].csp \in Nat
        BY <1>0, <3>1
      <4>2. new[m].se[0].csp = list[m].se[0].csp
        BY <4>1
      <4> QED BY <4>1, <4>2
    <3>4. n \in k .. Len(new) /\ new[n].inst = ip /\ new[n].se[0].csp <= se[0].csp
      BY <2>3, <3>1, <3>2
    <3>5. /\ new \in Seq(Entries) /\ Len(list) <= Len(new)
          /\ \A m \in 1 .. Len(list) : new[m] = list[m]
          /\ \A m \in 1 .. Len(new) : m <= Len(list) /\ new[m] = list[m]
      BY <3>1
    <3> QED BY <3>3, <3>4, <3>5 DEF Renewal
  <2> QED BY <2>4, <2>5
<1> QED BY <1>1, <1>2

-----------------------------------------------------------------------------
(* A character, turn by turn *)

(* A thread of the place before has consumed the character and is at p.     *)
Arrives(r, t, c, p, i) ==
    \E q \in Nat, h \in Places(t) :
        /\ h + 1 = i
        /\ Reaches(r, t, c, q, h)
        /\ Edge(r.prog, t, q, h, p, i)

(* A match at least as good as the one that began at c and ends at j.       *)
Beats(m, c, j) ==
    /\ m.csp # -1
    /\ m.csp < c \/ (m.csp = c /\ j <= m.cep)

BeatenBefore(r, t, m, i) ==
    \A s \in Accepted(r, t) : s[2] < i => Beats(m, s[1], s[2])

(* At the place i, the threads V have had their turn, W still wait for it, N *)
(* wait for the next place, and m is the best match.  Nothing is lost: what  *)
(* a thread of V leads to is covered by what has run or will.               *)
Complete(r, t, V, W, N, m, i) ==
    /\ \A p \in Nat, c \in Nat, q \in Nat :
          <<p, c>> \in V =>
             /\ Edge(r.prog, t, p, i, q, i) => Covered(V \cup W, q, c)
             /\ Edge(r.prog, t, p, i, q, i + 1) => Covered(N, q, c)
    /\ \A p \in DOMAIN r.prog, c \in Nat :
          <<p, c>> \in V /\ r.prog[p].type = "end" => Beats(m, c, i)
    /\ Covered(V \cup W, r.start, i)
    /\ \A c \in Places(t), p \in Nat : Arrives(r, t, c, p, i) => Covered(V \cup W, p, c)
    /\ BeatenBefore(r, t, m, i)

Improves(m2, m) == \A c \in Nat, j \in Nat : Beats(m, c, j) => Beats(m2, c, j)

LEMMA CoveredThrough ==
  ASSUME NEW A, NEW B, NEW p, NEW c \in Nat, Covered(A, p, c),
         \A b \in Nat : <<p, b>> \in A => Covered(B, p, b)
  PROVE  Covered(B, p, c)
<1>1. PICK b \in Nat : b <= c /\ <<p, b>> \in A
  BY DEF Covered
<1>2. PICK a \in Nat : a <= b /\ <<p, a>> \in B
  BY <1>1 DEF Covered
<1>3. a <= c
  BY <1>1, <1>2
<1> QED BY <1>2, <1>3 DEF Covered

(* One thread has its turn. *)
LEMMA Turn ==
  ASSUME NEW r, NEW t, DOMAIN r.prog \subseteq Nat, r.start \in Nat, NEW V, NEW W, NEW N, NEW m,
         NEW i \in Places(t), Places(t) \subseteq Nat, Complete(r, t, V, W, N, m, i),
         NEW p \in Nat, NEW c \in Nat, NEW W2, NEW N2, NEW m2,
         \A q, b \in Nat : <<q, b>> \in W => Covered(V \cup {<<p, c>>} \cup W2, q, b),
         \A q, b \in Nat : <<q, b>> \in N => Covered(N2, q, b),
         \A q \in Nat : Edge(r.prog, t, p, i, q, i) => Covered(V \cup {<<p, c>>} \cup W2, q, c),
         \A q \in Nat : Edge(r.prog, t, p, i, q, i + 1) => Covered(N2, q, c),
         Improves(m2, m),
         p \in DOMAIN r.prog /\ r.prog[p].type = "end" => Beats(m2, c, i)
  PROVE  /\ Complete(r, t, V \cup {<<p, c>>}, W2, N2, m2, i)
         /\ \A q, b \in Nat : Covered(V \cup W, q, b) => Covered(V \cup {<<p, c>>} \cup W2, q, b)
<1> DEFINE V2 == V \cup {<<p, c>>}
<1>1. \A q, b \in Nat : Covered(V \cup W, q, b) => Covered(V2 \cup W2, q, b)
  <2> TAKE q \in Nat, b \in Nat
  <2> HAVE Covered(V \cup W, q, b)
  <2>1. \A a \in Nat : <<q, a>> \in V \cup W => Covered(V2 \cup W2, q, a)
    <3> TAKE a \in Nat
    <3>1. CASE <<q, a>> \in V
      BY <3>1, CoveredItself
    <3>2. CASE <<q, a>> \in W
      BY <3>2
    <3> QED BY <3>1, <3>2
  <2> HIDE DEF V2
  <2> QED BY <2>1, CoveredThrough
<1>2. \A q, b \in Nat : Covered(N, q, b) => Covered(N2, q, b)
  BY CoveredThrough
<1>3. ASSUME NEW a \in Nat, NEW b \in Nat, NEW q \in Nat, <<a, b>> \in V2
      PROVE  /\ Edge(r.prog, t, a, i, q, i) => Covered(V2 \cup W2, q, b)
             /\ Edge(r.prog, t, a, i, q, i + 1) => Covered(N2, q, b)
  <2>1. CASE <<a, b>> \in V
    BY <1>1, <1>2, <2>1 DEF Complete
  <2>2. CASE <<a, b>> = <<p, c>>
    BY <2>2
  <2> QED BY <1>3, <2>1, <2>2
<1>4. ASSUME NEW a \in DOMAIN r.prog, NEW b \in Nat, <<a, b>> \in V2, r.prog[a].type = "end"
      PROVE  Beats(m2, b, i)
  <2>1. CASE <<a, b>> \in V
    <3>1. Beats(m, b, i)
      BY <1>4, <2>1 DEF Complete
    <3> QED BY <3>1 DEF Improves
  <2>2. CASE <<a, b>> = <<p, c>>
    BY <1>4, <2>2
  <2> QED BY <1>4, <2>1, <2>2
<1>5. BeatenBefore(r, t, m2, i)
  <2> SUFFICES ASSUME NEW s \in Accepted(r, t), s[2] < i PROVE Beats(m2, s[1], s[2])
    BY DEF BeatenBefore
  <2>1. s[1] \in Nat /\ s[2] \in Nat
    BY DEF Accepted
  <2> QED BY <2>1 DEF Complete, BeatenBefore, Improves
<1>6. Covered(V2 \cup W2, r.start, i)
  BY <1>1 DEF Complete
<1>7. \A b \in Places(t), q \in Nat : Arrives(r, t, b, q, i) => Covered(V2 \cup W2, q, b)
  BY <1>1 DEF Complete
<1> HIDE DEF V2
<1>8. Complete(r, t, V2, W2, N2, m2, i)
  BY <1>3, <1>4, <1>5, <1>6, <1>7 DEF Complete
<1> QED BY <1>1, <1>8 DEF V2

(* When all have had their turn, whatever is reached has been covered.      *)
LEMMA AllCovered ==
  ASSUME NEW r, NEW t, r.start \in Nat, Len(t) \in Nat, NEW V, NEW N, NEW m,
         NEW i \in Places(t), Complete(r, t, V, {}, N, m, i),
         NEW c \in Places(t), NEW p, Reaches(r, t, c, p, i)
  PROVE  Covered(V, p, c)
<1> DEFINE S == {v \in Nodes(Places(t)) : v[2] = i => Covered(V, v[1], c)}
<1>1. <<r.start, c>> \in S
  <2>1. <<r.start, c>> \in Nodes(Places(t))
    BY DEF Nodes
  <2>2. Covered(V, r.start, i)
    BY DEF Complete
  <2> QED BY <2>1, <2>2
<1>2. ASSUME NEW q \in Nat, NEW q2 \in Nat, NEW h \in Places(t), NEW j \in Places(t),
             Edge(r.prog, t, q, h, q2, j), <<q, h>> \in S, Reaches(r, t, c, q, h)
      PROVE  <<q2, j>> \in S
  <2>1. <<q2, j>> \in Nodes(Places(t))
    BY DEF Nodes
  <2> SUFFICES ASSUME j = i PROVE Covered(V, q2, c)
    BY <2>1
  <2>2. c \in Nat /\ h \in Nat /\ i \in Nat
    BY DEF Places
  <2>3. h = i \/ h + 1 = i
    BY <1>2 DEF Edge, Moves
  <2>4. CASE h = i
    <3>1. Covered(V, q, c)
      BY <1>2, <2>4
    <3>2. PICK b \in Nat : b <= c /\ <<q, b>> \in V
      BY <3>1 DEF Covered
    <3>3. V \cup {} = V
      OBVIOUS
    <3>4. Covered(V, q2, b)
      BY <1>2, <2>4, <3>2, <3>3 DEF Complete
    <3> QED BY <2>2, <3>2, <3>4, CoveredEarlier
  <2>5. CASE h + 1 = i
    <3>1. Arrives(r, t, c, q2, i)
      BY <1>2, <2>5 DEF Arrives
    <3>3. V \cup {} = V
      OBVIOUS
    <3> QED BY <3>1, <3>3 DEF Complete
  <2> QED BY <2>3, <2>4, <2>5
<1>3. S \in SUBSET Nodes(Places(t))
  OBVIOUS
<1> HIDE DEF S
<1>4. <<p, i>> \in S
  BY <1>1, <1>2, <1>3, ReachesIn
<1> QED BY <1>4 DEF S

(* All have had their turn: the threads that wait for the next place cover  *)
(* what arrives there.                                                      *)
LEMMA NextPlace ==
  ASSUME NEW r, NEW t, r.start \in Nat, Len(t) \in Nat, NEW V, NEW N, NEW m, m.csp \in Int,
         NEW i \in Places(t), Complete(r, t, V, {}, N, m, i)
  PROVE  /\ \A c \in Places(t), p \in Nat : Arrives(r, t, c, p, i + 1) => Covered(N, p, c)
         /\ BeatenBefore(r, t, m, i + 1)
<1>0. i \in Nat /\ Places(t) \subseteq Nat /\ V \cup {} = V
  BY DEF Places
<1>1. ASSUME NEW c \in Places(t), NEW p \in Nat, Arrives(r, t, c, p, i + 1)
      PROVE  Covered(N, p, c)
  <2>1. PICK q \in Nat, h \in Places(t) :
           h + 1 = i + 1 /\ Reaches(r, t, c, q, h) /\ Edge(r.prog, t, q, h, p, i + 1)
    BY <1>1 DEF Arrives
  <2>2. h = i
    BY <1>0, <2>1
  <2>3. Covered(V, q, c)
    BY <2>1, <2>2, AllCovered
  <2>4. PICK b \in Nat : b <= c /\ <<q, b>> \in V
    BY <2>3 DEF Covered
  <2>5. Covered(N, p, b)
    BY <2>1, <2>2, <2>4 DEF Complete
  <2> QED BY <1>0, <2>4, <2>5, CoveredEarlier
<1>2. ASSUME NEW s \in Accepted(r, t), s[2] < i + 1 PROVE Beats(m, s[1], s[2])
  <2>1. s[1] \in Places(t) /\ s[2] \in Places(t) /\ Accepts(r, t, s[1], s[2])
    BY DEF Accepted
  <2>2. CASE s[2] < i
    BY <2>2 DEF Complete, BeatenBefore
  <2>3. CASE s[2] = i
    <3>1. PICK p \in DOMAIN r.prog : r.prog[p].type = "end" /\ Reaches(r, t, s[1], p, i)
      BY <2>1, <2>3 DEF Accepts
    <3>2. Covered(V, p, s[1])
      BY <2>1, <3>1, AllCovered
    <3>3. PICK b \in Nat : b <= s[1] /\ <<p, b>> \in V
      BY <3>2 DEF Covered
    <3>4. Beats(m, b, i)
      BY <3>1, <3>3 DEF Complete
    <3>5. s[1] \in Nat
      BY <1>0, <2>1
    <3> QED BY <2>3, <3>3, <3>4, <3>5 DEF Beats
  <2> QED BY <1>0, <1>2, <2>1, <2>2, <2>3
<1> QED BY <1>1, <1>2 DEF BeatenBefore

(* Nothing arrives at i and the start rune is not ahead: nothing arrives up  *)
(* to k, and no match ends on the way.                                      *)
LEMMA Skips ==
  ASSUME NEW r, NEW t, DOMAIN r.prog \subseteq Nat, r.start \in DOMAIN r.prog, Len(t) \in Nat,
         NEW x, r.prog[r.start].type = "rune",
         \A rune \in Range(t) : Consumes(r.prog[r.start], rune) => rune = x,
         NEW i \in Places(t), NEW k \in Places(t), i <= k, DOMAIN t = 1 .. Len(t),
         \A h \in i .. k - 1 : t[h + 1] # x,
         \A c \in Places(t), p \in Nat : ~ Arrives(r, t, c, p, i),
         NEW m, BeatenBefore(r, t, m, i)
  PROVE  /\ \A c \in Places(t), p \in Nat : ~ Arrives(r, t, c, p, k)
         /\ BeatenBefore(r, t, m, k) /\ BeatenBefore(r, t, m, k + 1)
<1>0. i \in Nat /\ k \in Nat /\ Places(t) \subseteq Nat /\ r.start \in Nat
  BY DEF Places
<1>1. ASSUME NEW h \in i .. k - 1, NEW q, NEW j \in Places(t), Edge(r.prog, t, r.start, h, q, j)
      PROVE  FALSE
  <2>1. j = h + 1 /\ j <= Len(t) /\ Consumes(r.prog[r.start], t[j])
    BY <1>1 DEF Edge, Moves
  <2>2. j \in DOMAIN t
    BY <1>0, <2>1
  <2>3. t[j] \in Range(t)
    BY <2>2 DEF Range
  <2> QED BY <1>1, <2>1, <2>3
<1>2. ASSUME NEW c \in Places(t), NEW p, NEW h, Reaches(r, t, c, p, h), h \in i .. k
      PROVE  p = r.start
  <2> DEFINE S == {v \in Nodes(Places(t)) : v[2] \in i .. k => v[1] = r.start}
  <2>1. <<r.start, c>> \in S
    BY <1>0 DEF Nodes
  <2>2. ASSUME NEW q \in Nat, NEW q2 \in Nat, NEW g \in Places(t), NEW j \in Places(t),
               Edge(r.prog, t, q, g, q2, j), <<q, g>> \in S, Reaches(r, t, c, q, g)
        PROVE  <<q2, j>> \in S
    <3>1. <<q2, j>> \in Nodes(Places(t))
      BY DEF Nodes
    <3> SUFFICES ASSUME j \in i .. k PROVE FALSE
      BY <3>1
    <3>2. g \in Nat /\ j \in Nat
      BY <1>0
    <3>3. j = g \/ j = g + 1
      BY <2>2 DEF Edge, Moves
    <3>4. CASE j = g
      <4>1. q = r.start
        BY <2>2, <3>4
      <4> QED BY <2>2, <3>2, <3>4, <4>1 DEF Edge, Moves
    <3>5. CASE j = g + 1 /\ j = i
      <4>1. Arrives(r, t, c, q2, i)
        BY <2>2, <3>5 DEF Arrives
      <4> QED BY <4>1
    <3>6. CASE j = g + 1 /\ j # i
      <4>1. g \in i .. k - 1
        BY <1>0, <3>2, <3>6
      <4>2. q = r.start
        BY <1>0, <2>2, <4>1
      <4> QED BY <1>1, <2>2, <4>1, <4>2
    <3> QED BY <3>3, <3>4, <3>5, <3>6
  <2>3. S \in SUBSET Nodes(Places(t))
    OBVIOUS
  <2> HIDE DEF S
  <2>4. <<p, h>> \in S
    BY <1>0, <1>2, <2>1, <2>2, <2>3, ReachesIn
  <2> QED BY <1>2, <2>4 DEF S
<1>3. ASSUME NEW c \in Places(t), NEW p \in Nat, Arrives(r, t, c, p, k)
      PROVE  FALSE
  <2>1. PICK q \in Nat, h \in Places(t) :
           h + 1 = k /\ Reaches(r, t, c, q, h) /\ Edge(r.prog, t, q, h, p, k)
    BY <1>3 DEF Arrives
  <2>2. CASE k = i
    BY <1>3, <2>2
  <2>3. CASE k # i
    <3>1. h \in i .. k - 1 /\ h \in i .. k
      BY <1>0, <2>1, <2>3
    <3>2. q = r.start
      BY <1>2, <2>1, <3>1
    <3> QED BY <1>1, <2>1, <3>1, <3>2
  <2> QED BY <2>2, <2>3
<1>4. ASSUME NEW s \in Accepted(r, t), s[2] < k + 1 PROVE Beats(m, s[1], s[2])
  <2>1. s[1] \in Places(t) /\ s[2] \in Places(t) /\ s[2] \in Nat /\ Accepts(r, t, s[1], s[2])
    BY <1>0 DEF Accepted
  <2>2. CASE s[2] < i
    BY <2>2 DEF BeatenBefore
  <2>3. CASE ~ s[2] < i
    <3>1. s[2] \in i .. k
      BY <1>0, <1>4, <2>1, <2>3
    <3>2. PICK p \in DOMAIN r.prog : r.prog[p].type = "end" /\ Reaches(r, t, s[1], p, s[2])
      BY <2>1 DEF Accepts
    <3>3. p = r.start
      BY <1>2, <2>1, <3>1, <3>2
    <3> QED BY <3>2, <3>3
  <2> QED BY <2>2, <2>3
<1>5. \A s \in Accepted(r, t) : s[2] < k => s[2] < k + 1
  <2>1. \A s \in Accepted(r, t) : s[2] \in Nat
    BY <1>0 DEF Accepted
  <2> QED BY <1>0, <2>1
<1> QED BY <1>3, <1>4, <1>5 DEF BeatenBefore

-----------------------------------------------------------------------------
(* The list that is at a character, its k-th thread having come to ip        *)

Live(r) == {p \in DOMAIN r.prog : r.prog[p].type # "nop"}

Sound(r, t, e, i) ==
    /\ e.inst \in Live(r) /\ e.se[0].csp \in Places(t)
    /\ Reaches(r, t, e.se[0].csp, e.inst, i)

Turning(r, t, i, list, k, ip) ==
    /\ list \in Seq(Entries) /\ k \in 1 .. Len(list) + 1
    /\ \A n \in k .. Len(list) : Sound(r, t, list[n], i)
    /\ k = Len(list) + 1 => ip = 0
    /\ k <= Len(list) => ip \in Live(r) /\ Reaches(r, t, list[k].se[0].csp, ip, i)

Pending(list, k, ip) ==
    (IF k > Len(list) THEN {} ELSE {<<ip, list[k].se[0].csp>>}) \cup Waits(list, k + 1)

LEMMA WaitsFirst ==
  ASSUME NEW list \in Seq(Entries), NEW k \in 1 .. Len(list) + 1
  PROVE  Waits(list, k) = (IF k > Len(list) THEN {} ELSE {<<list[k].inst, list[k].se[0].csp>>})
                             \cup Waits(list, k + 1)
<1>1. CASE k > Len(list)
  <2>1. k .. Len(list) = {} /\ (k + 1) .. Len(list) = {}
    BY <1>1
  <2> QED BY <1>1, <2>1 DEF Waits
<1>2. CASE k <= Len(list)
  <2>1. k .. Len(list) = {k} \cup ((k + 1) .. Len(list))
    BY <1>2
  <2>2. ~ k > Len(list)
    BY <1>2
  <2> QED BY <2>1, <2>2 DEF Waits
<1> QED BY <1>1, <1>2

(* The next thread of the list runs. *)
LEMMA Leaves ==
  ASSUME NEW r, NEW t, NEW i, NEW list, NEW k, NEW ip, Turning(r, t, i, list, k, ip),
         k <= Len(list), NEW list2 \in Seq(Entries), Len(list2) = Len(list),
         \A n \in k + 1 .. Len(list) : list2[n] = list[n],
         NEW ip2, ip2 = IF k < Len(list) THEN list[k + 1].inst ELSE 0
  PROVE  /\ Turning(r, t, i, list2, k + 1, ip2)
         /\ Pending(list2, k + 1, ip2) = Waits(list, k + 1)
         /\ k + 1 <= Len(list2) =>
              <<list2[k + 1].inst, list2[k + 1].se[0].csp>> \in Pending(list2, k + 1, ip2)
<1>0. list \in Seq(Entries) /\ k \in 1 .. Len(list) /\ k + 1 \in 1 .. Len(list) + 1
  BY DEF Turning
<1>1. \A n \in k + 1 .. Len(list2) : n \in k .. Len(list) /\ list2[n] = list[n]
  BY <1>0
<1>2. \A n \in k + 1 .. Len(list2) : Sound(r, t, list2[n], i)
  BY <1>1 DEF Turning
<1>3. CASE k < Len(list)
  <2>1. k + 1 \in k + 1 .. Len(list2) /\ list2[k + 1] = list[k + 1] /\ ip2 = list2[k + 1].inst
    BY <1>0, <1>1, <1>3
  <2>2. Sound(r, t, list2[k + 1], i)
    BY <1>2, <2>1
  <2>3. Turning(r, t, i, list2, k + 1, ip2)
    BY <1>0, <1>2, <1>3, <2>1, <2>2 DEF Turning, Sound
  <2>4. Waits(list2, k + 2) = Waits(list, k + 2)
    <3>1. \A n \in k + 2 .. Len(list) : list2[n] = list[n]
      BY <1>0
    <3> QED BY <3>1 DEF Waits
  <2>5. Waits(list, k + 1) = {<<ip2, list2[k + 1].se[0].csp>>} \cup Waits(list2, k + 2)
    <3>1. ~ (k + 1 > Len(list)) /\ (k + 1) + 1 = k + 2
      BY <1>0, <1>3
    <3> QED BY <1>0, <2>1, <2>4, <3>1, WaitsFirst
  <2>6. ~ (k + 1 > Len(list2)) /\ (k + 1) + 1 = k + 2
    BY <1>0, <1>3
  <2> QED BY <2>1, <2>3, <2>5, <2>6 DEF Pending
<1>4. CASE k = Len(list)
  <2>1. Turning(r, t, i, list2, k + 1, ip2)
    BY <1>0, <1>2, <1>4 DEF Turning
  <2>2. (k + 1) .. Len(list) = {} /\ ((k + 1) + 1) .. Len(list2) = {} /\ k + 1 > Len(list2)
    BY <1>0, <1>4
  <2> QED BY <1>0, <2>1, <2>2 DEF Pending, Waits
<1> QED BY <1>0, <1>3, <1>4

(* The thread goes on to ip2; entries after it may have been renewed, and   *)
(* one may have joined.                                                     *)
LEMMA Goes ==
  ASSUME NEW r, NEW t, NEW i \in Places(t), NEW list, NEW k, NEW ip,
         DOMAIN r.prog \subseteq Nat, Turning(r, t, i, list, k, ip), k <= Len(list),
         NEW list2 \in Seq(Entries), Len(list) <= Len(list2),
         \A n \in 1 .. Len(list) : /\ list2[n].inst = list[n].inst
                                   /\ list2[n].se[0].csp <= list[n].se[0].csp,
         list2[k].se[0].csp = list[k].se[0].csp,
         \A n \in k .. Len(list2) : Sound(r, t, list2[n], i),
         NEW ip2 \in Live(r), Edge(r.prog, t, ip, i, ip2, i)
  PROVE  /\ Turning(r, t, i, list2, k, ip2)
         /\ <<ip2, list[k].se[0].csp>> \in Pending(list2, k, ip2)
         /\ Waits(list2, k + 1) \subseteq Pending(list2, k, ip2)
         /\ \A q, b \in Nat : <<q, b>> \in Waits(list, k + 1) => Covered(Waits(list2, k + 1), q, b)
<1>0. /\ list \in Seq(Entries) /\ k \in 1 .. Len(list) /\ k \in 1 .. Len(list2)
      /\ k \in 1 .. Len(list2) + 1 /\ ~ k > Len(list2) /\ k # Len(list2) + 1
  BY DEF Turning
<1>1. Turning(r, t, i, list2, k, ip2)
  <2>1. ip \in Live(r) /\ Reaches(r, t, list[k].se[0].csp, ip, i)
    BY DEF Turning
  <2>2. ip \in Nat /\ ip2 \in Nat
    BY <2>1 DEF Live
  <2>3. Reaches(r, t, list2[k].se[0].csp, ip2, i)
    BY <2>1, <2>2, ReachesOn
  <2> QED BY <1>0, <2>3 DEF Turning
<1>2. /\ <<ip2, list[k].se[0].csp>> \in Pending(list2, k, ip2)
      /\ Waits(list2, k + 1) \subseteq Pending(list2, k, ip2)
  BY <1>0 DEF Pending
<1>3. ASSUME NEW q \in Nat, NEW b \in Nat, <<q, b>> \in Waits(list, k + 1)
      PROVE  Covered(Waits(list2, k + 1), q, b)
  <2>1. PICK n \in k + 1 .. Len(list) : <<q, b>> = <<list[n].inst, list[n].se[0].csp>>
    BY <1>3 DEF Waits
  <2>2. n \in k + 1 .. Len(list2) /\ n \in 1 .. Len(list) /\ n \in 1 .. Len(list2) /\ k + 1 \in Nat \ {0}
    BY <1>0
  <2>3. list2[n].inst = q /\ list2[n].se[0].csp <= b
    BY <2>1, <2>2
  <2>4. list2[n].se[0].csp \in Nat /\ <<list2[n].inst, list2[n].se[0].csp>> \in Waits(list2, k + 1)
    BY <2>2, WaitsAt
  <2> QED BY <2>3, <2>4 DEF Covered
<1> QED BY <1>1, <1>2, <1>3

(* What is needed of a program: every instruction that runs leads to others *)
(* that do.                                                                 *)
Runnable(r) ==
    /\ r.prog \in Seq(Instructions)
    /\ r.start \in Live(r)
    /\ \A p \in Live(r) :
         /\ r.prog[p].type # "end" => r.prog[p].next \in Live(r)
         /\ r.prog[p].type = "or" => r.prog[p].right \in Live(r)
         /\ r.prog[p].type \in {"(", ")"} => r.prog[p].subid \in 1 .. NSubexp - 1
         /\ r.prog[p].type = "rune" => \E x \in Nat : r.prog[p].spans = <<<<x, x>>>>

LEMMA RunnablePrograms ==
  ASSUME NEW r, Runnable(r)
  PROVE  /\ DOMAIN r.prog \subseteq Nat \ {0} /\ Live(r) \subseteq Nat \ {0}
         /\ Live(r) \subseteq DOMAIN r.prog /\ r.start \in Nat /\ r.start \in DOMAIN r.prog
         /\ \A p \in Live(r) : r.prog[p] \in Instructions /\ r.prog[p].type \in Types \ {"nop"}
<1>1. DOMAIN r.prog \subseteq Nat \ {0} /\ \A p \in DOMAIN r.prog : r.prog[p] \in Instructions
  BY DEF Runnable
<1>2. \A in \in Instructions : in.type \in Types
  BY DEF Instructions
<1> QED BY <1>1, <1>2 DEF Runnable, Live

-----------------------------------------------------------------------------
(* The machine *)

Phases == {"compile", "error", "compiled", "match", "run", "done", "overrun"}

(* The best match is one the program accepts, and the first one found begins *)
(* at matchstart.                                                           *)
BestIsAccepted ==
    /\ mp \in [0 .. Ms - 1 -> Submatch]
    /\ matchstart \in Int
    /\ IF mp[0].csp = -1 THEN mp = NoSubs(Ms) /\ matchstart = -1
       ELSE /\ <<mp[0].csp, mp[0].cep>> \in Accepted(re, text)
            /\ \E s \in Accepted(re, text) : s[1] = matchstart

Awaited(r, t, list, i) == \A n \in 1 .. Len(list) : Sound(r, t, list[n], i)

Matching ==
    /\ ptr \in Places(text)
    /\ nl \in Seq(Entries) /\ Awaited(re, text, nl, ptr)
    /\ \A c \in Places(text), p \in Nat :
          Arrives(re, text, c, p, ptr) => Covered(Waits(nl, 1), p, c)
    /\ BeatenBefore(re, text, mp[0], ptr)

NothingLost(r, t, i, V, list, k, ip, next, m) ==
    /\ Complete(r, t, V, Pending(list, k, ip), Waits(next, 1), m, i)
    /\ k <= Len(list) => Covered(V \cup Pending(list, k, ip), list[k].inst, list[k].se[0].csp)

Running ==
    /\ ptr \in Places(text)
    /\ Turning(re, text, ptr, tl, tlp, inst)
    /\ nl \in Seq(Entries) /\ (ptr < Len(text) => Awaited(re, text, nl, ptr + 1))
    /\ \E V : NothingLost(re, text, ptr, V, tl, tlp, inst, nl, mp[0])

Finished == BeatenBefore(re, text, mp[0], Len(text) + 1)

MachineInv ==
    /\ phase \in Phases
    /\ phase \in {"compile", "compiled"} =>
          ptr = 0 /\ nl = <<>> /\ mp = NoSubs(Ms) /\ matchstart = -1
    /\ phase \in {"match", "run", "done"} =>
          text \in Seq(Nat) /\ BestIsAccepted
    /\ phase = "match" => Matching
    /\ phase = "run" => Running
    /\ phase = "done" => Finished

LEMMA NewCaptures ==
  ASSUME NSubexp \in Nat \ {0}, NEW c \in Nat
  PROVE  /\ [NoSubs(NSubexp) EXCEPT ![0].csp = c] \in Captures
         /\ [NoSubs(NSubexp) EXCEPT ![0].csp = c][0].csp = c
<1>1. NoSubs(NSubexp) \in [0 .. NSubexp - 1 -> Submatch] /\ 0 \in 0 .. NSubexp - 1
  BY DEF NoSubs, Unset, Submatch
<1>2. [NoSubs(NSubexp)[0] EXCEPT !.csp = c] \in Submatch /\ [NoSubs(NSubexp)[0] EXCEPT !.csp = c].csp = c
  BY <1>1 DEF Submatch
<1> DEFINE se == [NoSubs(NSubexp) EXCEPT ![0].csp = c]
<1>3. se \in [0 .. NSubexp - 1 -> Submatch] /\ se[0].csp = c
  BY <1>1, <1>2
<1> QED BY <1>3 DEF Captures

(* The list of a character: those that wait, and one that begins there.     *)
LEMMA Begins ==
  ASSUME NSubexp \in Nat \ {0}, NEW r, NEW t, Runnable(r), Len(t) \in Nat,
         NEW i \in Places(t), NEW list \in Seq(Entries),
         \A n \in 1 .. Len(list) : Sound(r, t, list[n], i),
         \A c \in Places(t), p \in Nat : Arrives(r, t, c, p, i) => Covered(Waits(list, 1), p, c),
         NEW m, BeatenBefore(r, t, m, i),
         NEW list2, list2 = Emptythread(list, r.start, i)
  PROVE  /\ Turning(r, t, i, list2, 1, list2[1].inst)
         /\ Complete(r, t, {}, Pending(list2, 1, list2[1].inst), {}, m, i)
         /\ Covered({} \cup Pending(list2, 1, list2[1].inst), list2[1].inst, list2[1].se[0].csp)
<1>0. i \in Nat /\ r.start \in Nat /\ r.start \in Live(r) /\ Places(t) \subseteq Nat
  BY RunnablePrograms DEF Places, Runnable
<1> DEFINE se == [NoSubs(NSubexp) EXCEPT ![0].csp = i]
<1>1. se \in Captures /\ se[0].csp = i
  BY <1>0, NewCaptures
<1> HIDE DEF se
<1>2. list2 = Renewthread(list, 1, r.start, se)
  BY DEF Emptythread, se
<1>3. 1 \in 1 .. Len(list) + 1
  OBVIOUS
<1>4. /\ list2 \in Seq(Entries) /\ Len(list) <= Len(list2)
      /\ \A n \in 1 .. Len(list) : /\ list2[n].inst = list[n].inst
                                   /\ list2[n].se[0].csp <= list[n].se[0].csp
      /\ \A n \in 1 .. Len(list2) : \/ n <= Len(list) /\ list2[n] = list[n]
                                    \/ list2[n].inst = r.start /\ list2[n].se = se
      /\ \E n \in 1 .. Len(list2) : list2[n].inst = r.start /\ list2[n].se[0].csp <= i
  <2>1. Renewal(list, 1, r.start, se, list2)
    BY <1>0, <1>1, <1>2, <1>3, Renewed
  <2>2. \E n \in 1 .. Len(list2) : list2[n].inst = r.start /\ list2[n].se[0].csp <= i
    BY <1>1, <2>1 DEF Renewal
  <2> QED BY <2>1, <2>2 DEF Renewal
<1>5. Sound(r, t, [inst |-> r.start, se |-> se], i)
  BY <1>0, <1>1, ReachesStart DEF Sound
<1>6. \A n \in 1 .. Len(list2) : Sound(r, t, list2[n], i)
  <2> TAKE n \in 1 .. Len(list2)
  <2>1. CASE n <= Len(list) /\ list2[n] = list[n]
    BY <2>1
  <2>2. CASE list2[n].inst = r.start /\ list2[n].se = se
    BY <1>5, <2>2 DEF Sound
  <2> QED BY <1>4, <2>1, <2>2
<1>7. PICK n \in 1 .. Len(list2) : list2[n].inst = r.start /\ list2[n].se[0].csp <= i
  BY <1>4
<1>8. Covered(Waits(list2, 1), r.start, i)
  <2>1. list2[n].se[0].csp \in Nat /\ <<list2[n].inst, list2[n].se[0].csp>> \in Waits(list2, 1)
    BY <1>4, WaitsAt
  <2> QED BY <1>7, <2>1 DEF Covered
<1>9. \A p, b \in Nat : <<p, b>> \in Waits(list, 1) => Covered(Waits(list2, 1), p, b)
  <2> TAKE p \in Nat, b \in Nat
  <2> HAVE <<p, b>> \in Waits(list, 1)
  <2>1. PICK k \in 1 .. Len(list) : <<p, b>> = <<list[k].inst, list[k].se[0].csp>>
    BY DEF Waits
  <2>2. k \in 1 .. Len(list2) /\ list2[k].inst = p /\ list2[k].se[0].csp <= b
    BY <1>4, <2>1
  <2>3. list2[k].se[0].csp \in Nat /\ <<list2[k].inst, list2[k].se[0].csp>> \in Waits(list2, 1)
    BY <1>4, <2>2, WaitsAt
  <2> QED BY <2>2, <2>3 DEF Covered
<1>10. Len(list2) \in Nat /\ 1 <= Len(list2) /\ 1 \in 1 .. Len(list2) + 1 /\ 1 \in 1 .. Len(list2)
  BY <1>4, <1>7
<1>11. Turning(r, t, i, list2, 1, list2[1].inst)
  BY <1>4, <1>6, <1>10 DEF Turning, Sound
<1>12. /\ Pending(list2, 1, list2[1].inst) = Waits(list2, 1)
       /\ <<list2[1].inst, list2[1].se[0].csp>> \in Waits(list2, 1)
       /\ list2[1].se[0].csp \in Nat
  BY <1>4, <1>10, WaitsFirst, WaitsAt DEF Pending
<1>13. {} \cup Pending(list2, 1, list2[1].inst) = Waits(list2, 1)
  BY <1>12
<1>14. \A c \in Places(t), p \in Nat : Arrives(r, t, c, p, i) => Covered(Waits(list2, 1), p, c)
  BY <1>0, <1>9, CoveredThrough
<1>15. Complete(r, t, {}, Pending(list2, 1, list2[1].inst), {}, m, i)
  BY <1>8, <1>13, <1>14 DEF Complete
<1> QED BY <1>11, <1>12, <1>13, <1>15, CoveredItself

LEMMA MachineStarts ==
  ASSUME MachineInv, Apply, RegexpAssumption
  PROVE  MachineInv'
<1>1. phase = "compiled" /\ text' \in Seq(Nat) /\ phase' = "match"
  BY DEF Apply, RegexpAssumption
<1>2. ptr' = 0 /\ nl' = <<>> /\ mp' = NoSubs(Ms) /\ matchstart' = -1
  BY <1>1 DEF Apply, MachineInv
<1>3. mp' \in [0 .. Ms - 1 -> Submatch] /\ mp'[0].csp = -1
  BY <1>2 DEF RegexpAssumption, NoSubs, Unset, Submatch
<1>4. BestIsAccepted'
  BY <1>2, <1>3 DEF BestIsAccepted
<1>5. ptr' \in Places(text') /\ Len(text') \in Nat /\ Places(text') \subseteq Nat
  BY <1>1, <1>2 DEF Places
<1>6. nl' \in Seq(Entries) /\ Awaited(re', text', nl', ptr')
  BY <1>2 DEF Awaited
<1>7. \A c \in Places(text'), p \in Nat : ~ Arrives(re', text', c, p, ptr')
  BY <1>2, <1>5 DEF Arrives
<1>8. BeatenBefore(re', text', mp'[0], ptr')
  BY <1>2, <1>5 DEF BeatenBefore, Accepted
<1>9. Matching'
  BY <1>5, <1>6, <1>7, <1>8 DEF Matching, Awaited
<1> QED BY <1>1, <1>4, <1>9 DEF MachineInv, Phases

(* Where the start rune is not ahead nothing is lost by looking no further. *)
LEMMA MachineSkips ==
  ASSUME MachineInv, Runnable(re), phase = "match", StartRune # 0, nl = <<>>,
         NEW k \in Places(text), ptr <= k,
         \A h \in ptr .. k - 1 : text[h + 1] # StartRune
  PROVE  /\ \A c \in Places(text), p \in Nat : ~ Arrives(re, text, c, p, k)
         /\ BeatenBefore(re, text, mp[0], k) /\ BeatenBefore(re, text, mp[0], k + 1)
<1> DEFINE first == re.prog[re.start]
<1>1. first.type = "rune" /\ StartRune = first.spans[1][1]
  BY DEF StartRune
<1>2. PICK x \in Nat : first.spans = <<<<x, x>>>>
  BY <1>1 DEF Runnable
<1>3. StartRune = x
  BY <1>1, <1>2
<1>4. text \in Seq(Nat) /\ DOMAIN text = 1 .. Len(text) /\ Len(text) \in Nat
  BY DEF MachineInv
<1>5. \A rune \in Range(text) : Consumes(first, rune) => rune = x
  <2> TAKE rune \in Range(text)
  <2> HAVE Consumes(first, rune)
  <2>1. rune \in Nat
    BY <1>4 DEF Range
  <2>2. \E n \in DOMAIN first.spans : first.spans[n][1] <= rune /\ rune <= first.spans[n][2]
    BY <1>1 DEF Consumes, Within
  <2>3. x <= rune /\ rune <= x
    BY <1>2, <2>2
  <2> QED BY <2>1, <2>3
<1>6. Waits(nl, 1) = {}
  BY DEF Waits
<1>7. \A c \in Places(text), p \in Nat : ~ Arrives(re, text, c, p, ptr)
  BY <1>6 DEF MachineInv, Matching, Covered
<1>8. /\ DOMAIN re.prog \subseteq Nat /\ re.start \in DOMAIN re.prog
      /\ ptr \in Places(text) /\ BeatenBefore(re, text, mp[0], ptr)
  BY RunnablePrograms DEF MachineInv, Matching
<1> HIDE DEF first
<1>9. first = re.prog[re.start]
  BY DEF first
<1>10. re.prog[re.start].type = "rune" /\ \A rune \in Range(text) : Consumes(re.prog[re.start], rune) => rune = x
  BY <1>1, <1>5, <1>9
<1>11. \A h \in ptr .. k - 1 : text[h + 1] # x
  BY <1>3
<1> QED BY <1>4, <1>7, <1>8, <1>10, <1>11, Skips

LEMMA MachineGivesUp ==
  ASSUME MachineInv, Runnable(re), GiveUp
  PROVE  MachineInv'
<1>1. phase = "match" /\ phase' = "done" /\ StartRune # 0 /\ nl = <<>> /\ text \in Seq(Nat)
  BY DEF GiveUp, MachineInv
<1>2. ptr \in 0 .. Len(text) /\ Len(text) \in Places(text)
  BY <1>1 DEF MachineInv, Matching, Places
<1>3. \A h \in ptr .. Len(text) - 1 : text[h + 1] # StartRune
  <2> TAKE h \in ptr .. Len(text) - 1
  <2>1. h + 1 \in (ptr + 1) .. Len(text)
    BY <1>2
  <2> QED BY <2>1 DEF GiveUp
<1>4. BeatenBefore(re, text, mp[0], Len(text) + 1)
  BY <1>1, <1>2, <1>3, MachineSkips
<1>5. Finished' /\ BestIsAccepted'
  BY <1>1, <1>4 DEF GiveUp, Finished, MachineInv, BestIsAccepted
<1> QED BY <1>1, <1>5 DEF MachineInv, Phases, GiveUp

LEMMA MachineTakesACharacter ==
  ASSUME MachineInv, Runnable(re), Character, RegexpAssumption
  PROVE  MachineInv'
<1> DEFINE skip  == StartRune # 0 /\ nl = <<>>
           ahead == {k \in ptr .. (Len(text) - 1) : text[k + 1] = StartRune}
           at    == IF skip THEN CHOOSE k \in ahead : \A j \in ahead : k <= j ELSE ptr
<1>1. /\ phase = "match" /\ text \in Seq(Nat) /\ Matching /\ BestIsAccepted
      /\ phase' \in {"overrun", "run"} /\ nl' = <<>> /\ tlp' = 1 /\ inst' = tl'[1].inst
      /\ UNCHANGED <<re, text, mp, matchstart>>
  BY DEF Character, MachineInv
<1>2. (skip => ahead # {}) /\ tl' = Emptythread(nl, re.start, at) /\ ptr' = at
  BY DEF Character
<1>3. ptr \in 0 .. Len(text) /\ Len(text) \in Nat
  BY <1>1 DEF Matching, Places
<1>4. /\ at \in Places(text) /\ nl \in Seq(Entries) /\ Awaited(re, text, nl, at)
      /\ \A c \in Places(text), p \in Nat :
            Arrives(re, text, c, p, at) => Covered(Waits(nl, 1), p, c)
      /\ BeatenBefore(re, text, mp[0], at)
  <2>1. CASE ~ skip
    BY <1>1, <2>1 DEF Matching
  <2>2. CASE skip
    <3>1. \E k \in ahead : \A j \in ahead : k <= j
      <4>1. ahead \in SUBSET Nat
        BY <1>3
      <4> HIDE DEF ahead
      <4> QED BY <1>2, <2>2, <4>1, LeastNumber
    <3>2. at \in ahead /\ \A j \in ahead : at <= j
      BY <2>2, <3>1
    <3>3. at \in ptr .. (Len(text) - 1)
      BY <3>2
    <3>4. \A h \in ptr .. at - 1 : text[h + 1] # StartRune
      <4> HIDE DEF at
      <4> SUFFICES ASSUME NEW h \in ptr .. at - 1, text[h + 1] = StartRune PROVE FALSE
        OBVIOUS
      <4>1. h \in ahead
        BY <1>3, <3>3
      <4>2. at <= h
        BY <3>2, <4>1
      <4> QED BY <1>3, <3>3, <4>2
    <3> HIDE DEF at, ahead
    <3>5. at \in Places(text) /\ ptr <= at
      BY <1>3, <3>3 DEF Places
    <3>6. /\ \A c \in Places(text), p \in Nat : ~ Arrives(re, text, c, p, at)
          /\ BeatenBefore(re, text, mp[0], at)
      BY <1>1, <2>2, <3>4, <3>5, MachineSkips
    <3>7. nl \in Seq(Entries) /\ Awaited(re, text, nl, at)
      BY <1>1, <2>2 DEF Matching, Awaited
    <3> QED BY <3>5, <3>6, <3>7
  <2> QED BY <2>1, <2>2
<1> HIDE DEF skip, ahead, at
<1>5. /\ Turning(re, text, at, tl', 1, tl'[1].inst)
      /\ Complete(re, text, {}, Pending(tl', 1, tl'[1].inst), {}, mp[0], at)
      /\ Covered({} \cup Pending(tl', 1, tl'[1].inst), tl'[1].inst, tl'[1].se[0].csp)
  BY <1>2, <1>3, <1>4, Begins DEF Awaited, RegexpAssumption
<1>6. Waits(nl', 1) = {}
  BY <1>1 DEF Waits
<1>7. Running'
  <2>1. ptr' \in Places(text') /\ Turning(re', text', ptr', tl', tlp', inst')
    BY <1>1, <1>2, <1>4, <1>5
  <2>2. nl' \in Seq(Entries) /\ (ptr' < Len(text') => Awaited(re', text', nl', ptr' + 1))
    BY <1>1 DEF Awaited
  <2>3. NothingLost(re', text', ptr', {}, tl', tlp', inst', nl', mp'[0])
    BY <1>1, <1>2, <1>5, <1>6 DEF NothingLost
  <2> QED BY <2>1, <2>2, <2>3 DEF Running
<1>8. BestIsAccepted'
  BY <1>1 DEF BestIsAccepted
<1> QED BY <1>1, <1>7, <1>8 DEF MachineInv, Phases

(* The turn of a thread, when it goes on and when it leaves. *)
LEMMA TurnCovers ==
  ASSUME NEW V, NEW W, NEW p \in Nat, NEW c \in Nat, NEW W2,
         \A q, b \in Nat : <<q, b>> \in W => Covered(V \cup {<<p, c>>} \cup W2, q, b)
  PROVE  \A q, b \in Nat : Covered(V \cup W, q, b) => Covered(V \cup {<<p, c>>} \cup W2, q, b)
<1> TAKE q \in Nat, b \in Nat
<1> HAVE Covered(V \cup W, q, b)
<1> DEFINE B == V \cup {<<p, c>>} \cup W2
<1>1. \A a \in Nat : <<q, a>> \in V \cup W => Covered(B, q, a)
  <2> TAKE a \in Nat
  <2>1. CASE <<q, a>> \in V
    BY <2>1, CoveredItself
  <2>2. CASE <<q, a>> \in W
    BY <2>2
  <2> QED BY <2>1, <2>2
<1> HIDE DEF B
<1>2. Covered(B, q, b)
  BY <1>1, CoveredThrough
<1> QED BY <1>2 DEF B

LEMMA TurnGoes ==
  ASSUME NEW r, NEW t, Runnable(r), Len(t) \in Nat, NEW i \in Places(t),
         NEW list, NEW k, NEW ip \in Live(r), Turning(r, t, i, list, k, ip), k <= Len(list),
         NEW V, NEW next, NEW m, NothingLost(r, t, i, V, list, k, ip, next, m),
         NEW list2 \in Seq(Entries), Len(list) <= Len(list2),
         \A n \in 1 .. Len(list) : /\ list2[n].inst = list[n].inst
                                   /\ list2[n].se[0].csp <= list[n].se[0].csp,
         list2[k].se[0].csp = list[k].se[0].csp,
         \A n \in k .. Len(list2) : Sound(r, t, list2[n], i),
         NEW ip2 \in Live(r), Edge(r.prog, t, ip, i, ip2, i), r.prog[ip].type # "end",
         \A q \in Nat : Edge(r.prog, t, ip, i, q, i) =>
            q = ip2 \/ \E n \in k .. Len(list2) : /\ list2[n].inst = q
                                                   /\ list2[n].se[0].csp <= list[k].se[0].csp,
         \A q \in Nat : ~ Edge(r.prog, t, ip, i, q, i + 1)
  PROVE  /\ Turning(r, t, i, list2, k, ip2)
         /\ \E U : NothingLost(r, t, i, U, list2, k, ip2, next, m)
<1> DEFINE c  == list[k].se[0].csp
           W  == Pending(list, k, ip)
           W2 == Pending(list2, k, ip2)
           V2 == V \cup {<<ip, c>>}
<1>0. /\ list \in Seq(Entries) /\ k \in 1 .. Len(list) /\ k \in 1 .. Len(list2)
      /\ k \in Nat \ {0} /\ k + 1 \in Nat \ {0} /\ ~ k > Len(list)
  BY DEF Turning
<1>1. /\ list[k].inst \in Nat /\ c \in Nat /\ ip \in Nat /\ ip2 \in Nat
      /\ DOMAIN r.prog \subseteq Nat /\ r.start \in Nat /\ ip \in DOMAIN r.prog
      /\ Places(t) \subseteq Nat
  <2>1. k \in k .. Len(list) /\ k \in Nat \ {0} /\ list \in Seq(Entries)
    BY <1>0
  <2>2. list[k].inst \in Nat /\ list[k].se[0].csp \in Nat
    BY <2>1, WaitsAt
  <2>3. \A a \in Live(r) : a \in Nat /\ a \in DOMAIN r.prog
    BY RunnablePrograms
  <2>4. DOMAIN r.prog \subseteq Nat /\ r.start \in Nat
    BY RunnablePrograms
  <2> QED BY <2>2, <2>3, <2>4 DEF Places
<1>2. /\ Turning(r, t, i, list2, k, ip2)
      /\ <<ip2, c>> \in W2 /\ Waits(list2, k + 1) \subseteq W2
      /\ \A q, b \in Nat : <<q, b>> \in Waits(list, k + 1) => Covered(Waits(list2, k + 1), q, b)
  BY <1>1, Goes
<1>3. W = {<<ip, c>>} \cup Waits(list, k + 1)
  BY <1>0 DEF Pending
<1> HIDE DEF W, W2, c
<1>4. \A q, b \in Nat : <<q, b>> \in W => Covered(V2 \cup W2, q, b)
  <2> TAKE q \in Nat, b \in Nat
  <2>1. CASE <<q, b>> = <<ip, c>>
    BY <1>1, <2>1, CoveredItself
  <2>2. CASE <<q, b>> \in Waits(list, k + 1)
    <3>1. Covered(Waits(list2, k + 1), q, b) /\ Waits(list2, k + 1) \subseteq V2 \cup W2
      BY <1>2, <2>2
    <3> QED BY <3>1, CoveredMore
  <2> QED BY <1>3, <2>1, <2>2
<1>5. \A q, b \in Nat : Covered(V \cup W, q, b) => Covered(V2 \cup W2, q, b)
  BY <1>1, <1>4, TurnCovers
<1>6. Complete(r, t, V, W, Waits(next, 1), m, i) /\ Covered(V \cup W, list[k].inst, c)
  BY <1>0 DEF NothingLost, W, c
<1>7. \A q \in Nat : Edge(r.prog, t, ip, i, q, i) => Covered(V2 \cup W2, q, c)
  <2> TAKE q \in Nat
  <2> HAVE Edge(r.prog, t, ip, i, q, i)
  <2>1. CASE q = ip2
    <3>1. <<q, c>> \in V2 \cup W2
      BY <1>2, <2>1
    <3> QED BY <1>1, <3>1, CoveredItself
  <2>2. ASSUME NEW n \in k .. Len(list2), list2[n].inst = q, list2[n].se[0].csp <= c
        PROVE  Covered(V2 \cup W2, q, c)
    <3>1. CASE n = k
      <4>1. q = list[k].inst
        BY <1>0, <2>2, <3>1
      <4> QED BY <1>1, <1>5, <1>6, <4>1
    <3>2. CASE n # k
      <4>1. n \in k + 1 .. Len(list2)
        BY <1>0, <3>2
      <4>2. list2[n].se[0].csp \in Nat /\ <<q, list2[n].se[0].csp>> \in Waits(list2, k + 1)
        BY <1>0, <2>2, <4>1, WaitsAt
      <4>3. <<q, list2[n].se[0].csp>> \in V2 \cup W2
        BY <1>2, <4>2
      <4> QED BY <2>2, <4>2, <4>3 DEF Covered
    <3> QED BY <3>1, <3>2
  <2> QED BY <2>1, <2>2 DEF c
<1>8. \A q, b \in Nat : <<q, b>> \in Waits(next, 1) => Covered(Waits(next, 1), q, b)
  BY CoveredItself
<1>9. Improves(m, m)
  BY DEF Improves
<1>10. Complete(r, t, V2, W2, Waits(next, 1), m, i)
  BY <1>1, <1>4, <1>6, <1>7, <1>8, <1>9, Turn
<1>11. Covered(V2 \cup W2, list2[k].inst, list2[k].se[0].csp)
  BY <1>0, <1>1, <1>5, <1>6 DEF c
<1> HIDE DEF V2
<1>12. NothingLost(r, t, i, V2, list2, k, ip2, next, m)
  BY <1>10, <1>11 DEF NothingLost, W2
<1> QED BY <1>2, <1>12

LEMMA TurnLeaves ==
  ASSUME NEW r, NEW t, Runnable(r), Len(t) \in Nat, NEW i \in Places(t),
         NEW list, NEW k, NEW ip \in Live(r), Turning(r, t, i, list, k, ip), k <= Len(list),
         NEW V, NEW next, NEW m, NothingLost(r, t, i, V, list, k, ip, next, m),
         NEW list2 \in Seq(Entries), Len(list2) = Len(list),
         \A n \in k + 1 .. Len(list) : list2[n] = list[n],
         NEW ip2, ip2 = IF k < Len(list) THEN list[k + 1].inst ELSE 0,
         NEW next2, NEW m2,
         \A q, b \in Nat : <<q, b>> \in Waits(next, 1) => Covered(Waits(next2, 1), q, b),
         \A q \in Nat : ~ Edge(r.prog, t, ip, i, q, i),
         \A q \in Nat : Edge(r.prog, t, ip, i, q, i + 1) => Covered(Waits(next2, 1), q, list[k].se[0].csp),
         Improves(m2, m),
         r.prog[ip].type = "end" => Beats(m2, list[k].se[0].csp, i)
  PROVE  /\ Turning(r, t, i, list2, k + 1, ip2)
         /\ \E U : NothingLost(r, t, i, U, list2, k + 1, ip2, next2, m2)
<1> DEFINE c  == list[k].se[0].csp
           W  == Pending(list, k, ip)
           W2 == Pending(list2, k + 1, ip2)
           V2 == V \cup {<<ip, c>>}
<1>0. /\ list \in Seq(Entries) /\ k \in 1 .. Len(list)
      /\ k \in Nat \ {0} /\ k + 1 \in Nat \ {0} /\ ~ k > Len(list)
  BY DEF Turning
<1>1. /\ c \in Nat /\ ip \in Nat /\ ip \in DOMAIN r.prog
      /\ DOMAIN r.prog \subseteq Nat /\ r.start \in Nat
      /\ Places(t) \subseteq Nat
  <2>1. k \in k .. Len(list) /\ k \in Nat \ {0} /\ list \in Seq(Entries)
    BY <1>0
  <2>2. list[k].inst \in Nat /\ list[k].se[0].csp \in Nat
    BY <2>1, WaitsAt
  <2>3. \A a \in Live(r) : a \in Nat /\ a \in DOMAIN r.prog
    BY RunnablePrograms
  <2>4. DOMAIN r.prog \subseteq Nat /\ r.start \in Nat
    BY RunnablePrograms
  <2> QED BY <2>2, <2>3, <2>4 DEF Places
<1>2. /\ Turning(r, t, i, list2, k + 1, ip2) /\ W2 = Waits(list, k + 1)
      /\ k + 1 <= Len(list2) => <<list2[k + 1].inst, list2[k + 1].se[0].csp>> \in W2
  BY Leaves
<1>3. W = {<<ip, c>>} \cup Waits(list, k + 1)
  BY <1>0 DEF Pending
<1> HIDE DEF W, W2, c
<1>4. \A q, b \in Nat : <<q, b>> \in W => Covered(V2 \cup W2, q, b)
  BY <1>2, <1>3, CoveredItself
<1>6. Complete(r, t, V, W, Waits(next, 1), m, i)
  BY DEF NothingLost, W
<1>7. \A q \in Nat : Edge(r.prog, t, ip, i, q, i + 1) => Covered(Waits(next2, 1), q, c)
  BY DEF c
<1>8. r.prog[ip].type = "end" => Beats(m2, c, i)
  BY DEF c
<1>10. Complete(r, t, V2, W2, Waits(next2, 1), m2, i)
  BY <1>1, <1>4, <1>6, <1>7, <1>8, Turn
<1>11. k + 1 <= Len(list2) => Covered(V2 \cup W2, list2[k + 1].inst, list2[k + 1].se[0].csp)
  <2> SUFFICES ASSUME k + 1 <= Len(list2)
               PROVE  Covered(V2 \cup W2, list2[k + 1].inst, list2[k + 1].se[0].csp)
    OBVIOUS
  <2>1. k + 1 \in k + 1 .. Len(list2)
    BY <1>0
  <2>2. list2[k + 1].se[0].csp \in Nat
    BY <1>0, <2>1, WaitsAt
  <2>3. <<list2[k + 1].inst, list2[k + 1].se[0].csp>> \in V2 \cup W2
    BY <1>2
  <2> QED BY <2>2, <2>3, CoveredItself
<1> HIDE DEF V2
<1>12. NothingLost(r, t, i, V2, list2, k + 1, ip2, next2, m2)
  BY <1>10, <1>11 DEF NothingLost, W2
<1> QED BY <1>2, <1>12

-----------------------------------------------------------------------------
(* The instructions *)

(* What is known of the thread that runs. *)
LEMMA Runs ==
  ASSUME MachineInv, Runnable(re), phase = "run", inst # 0
  PROVE  /\ text \in Seq(Nat) /\ Len(text) \in Nat /\ ptr \in Places(text) /\ ptr \in 0 .. Len(text)
         /\ Turning(re, text, ptr, tl, tlp, inst)
         /\ tl \in Seq(Entries) /\ tlp \in 1 .. Len(tl) /\ tlp <= Len(tl) /\ tl[tlp] \in Entries
         /\ \A n \in tlp .. Len(tl) : Sound(re, text, tl[n], ptr)
         /\ inst \in Live(re) /\ inst \in Nat /\ inst \in DOMAIN re.prog
         /\ current \in Instructions /\ current.type \in Types \ {"nop"}
         /\ tl[tlp].se \in Captures /\ tl[tlp].se[0].csp \in Nat /\ tl[tlp].se[0].csp \in Places(text)
         /\ Reaches(re, text, tl[tlp].se[0].csp, inst, ptr)
         /\ nl \in Seq(Entries) /\ (ptr < Len(text) => Awaited(re, text, nl, ptr + 1))
         /\ \E V : NothingLost(re, text, ptr, V, tl, tlp, inst, nl, mp[0])
         /\ BestIsAccepted
<1>1. Running /\ BestIsAccepted /\ text \in Seq(Nat)
  BY DEF MachineInv
<1>2. /\ ptr \in Places(text) /\ Turning(re, text, ptr, tl, tlp, inst)
      /\ nl \in Seq(Entries) /\ (ptr < Len(text) => Awaited(re, text, nl, ptr + 1))
      /\ \E V : NothingLost(re, text, ptr, V, tl, tlp, inst, nl, mp[0])
  BY <1>1 DEF Running
<1>3. tl \in Seq(Entries) /\ tlp \in 1 .. Len(tl) + 1 /\ tlp # Len(tl) + 1
  BY <1>2 DEF Turning
<1>4. tlp \in 1 .. Len(tl) /\ tlp <= Len(tl) /\ tlp \in tlp .. Len(tl)
  BY <1>3
<1>5. /\ inst \in Live(re) /\ Reaches(re, text, tl[tlp].se[0].csp, inst, ptr)
      /\ \A n \in tlp .. Len(tl) : Sound(re, text, tl[n], ptr)
  BY <1>2, <1>4 DEF Turning
<1>6. inst \in Nat /\ inst \in DOMAIN re.prog /\ current \in Instructions /\ current.type \in Types \ {"nop"}
  BY <1>5, RunnablePrograms DEF current
<1>7. tl[tlp] \in Entries
  BY <1>3, <1>4
<1>8. tl[tlp].se \in Captures /\ tl[tlp].se[0].csp \in Nat
  BY <1>7, EntriesAre
<1>9. tl[tlp].se[0].csp \in Places(text)
  BY <1>4, <1>5 DEF Sound
<1>10. Len(text) \in Nat /\ ptr \in 0 .. Len(text)
  BY <1>1, <1>2 DEF Places
<1> QED BY <1>1, <1>2, <1>3, <1>4, <1>5, <1>6, <1>7, <1>8, <1>9, <1>10

LEMMA Replaced ==
  ASSUME NEW S, NEW list \in Seq(S), NEW k \in 1 .. Len(list), NEW e \in S,
         NEW list2, list2 = [list EXCEPT ![k] = e]
  PROVE  /\ list2 \in Seq(S) /\ Len(list2) = Len(list) /\ list2[k] = e
         /\ \A m \in 1 .. Len(list) : m # k => list2[m] = list[m]
OBVIOUS

(* A submatch is changed in its entry. *)
Change(list, k, n, f, v) == [list EXCEPT ![k].se[n][f] = v]
Changed(list, k, list2) ==
    /\ list2 \in Seq(Entries) /\ Len(list2) = Len(list)
    /\ \A m \in 1 .. Len(list) : m # k => list2[m] = list[m]
    /\ list2[k].inst = list[k].inst /\ list2[k].se[0].csp = list[k].se[0].csp
    /\ list2[k].se \in Captures

Changing(list, k, n, f, v) ==
    /\ NSubexp \in Nat \ {0} /\ list \in Seq(Entries) /\ k \in 1 .. Len(list)
    /\ n \in 0 .. NSubexp - 1
    /\ f \in {"csp", "cep"} /\ v \in Int /\ (n = 0 => f = "cep")

LEMMA Changes ==
  ASSUME NEW list, NEW k, NEW n, NEW f, NEW v, Changing(list, k, n, f, v),
         NEW list2, list2 = Change(list, k, n, f, v)
  PROVE  Changed(list, k, list2) /\ list2[k].se[n][f] = v
<1> /\ NSubexp \in Nat \ {0} /\ list \in Seq(Entries) /\ k \in 1 .. Len(list)
    /\ n \in 0 .. NSubexp - 1
    /\ f \in {"csp", "cep"} /\ v \in Int /\ (n = 0 => f = "cep")
  BY DEF Changing
<1> DEFINE e  == list[k]
           sm == [e.se[n] EXCEPT ![f] = v]
           se == [e.se EXCEPT ![n] = sm]
<1>1. e \in Entries /\ e.inst \in Nat /\ e.se \in Captures /\ e.se[0].csp \in Nat
  BY EntriesAre
<1>2. e.se \in [0 .. NSubexp - 1 -> Submatch] /\ e.se[n] \in Submatch
  BY <1>1 DEF Captures
<1>3. sm \in Submatch /\ sm[f] = v /\ (f = "cep" => sm.csp = e.se[n].csp)
  BY <1>2 DEF Submatch
<1> HIDE DEF sm
<1>4. se \in [0 .. NSubexp - 1 -> Submatch] /\ se[n] = sm /\ (n # 0 => se[0] = e.se[0])
  <2> DEFINE s == e.se
  <2>1. s \in [0 .. NSubexp - 1 -> Submatch] /\ 0 \in 0 .. NSubexp - 1
    BY <1>2
  <2> HIDE DEF s
  <2>2. [s EXCEPT ![n] = sm] \in [0 .. NSubexp - 1 -> Submatch] /\ [s EXCEPT ![n] = sm][n] = sm
        /\ (n # 0 => [s EXCEPT ![n] = sm][0] = s[0])
    BY <1>3, <2>1
  <2> QED BY <2>2 DEF s
<1>5. se[0].csp = e.se[0].csp
  BY <1>3, <1>4
<1> HIDE DEF se
<1>6. se \in Captures
  BY <1>1, <1>4, <1>5 DEF Captures
<1>7. list2 = [list EXCEPT ![k] = [e EXCEPT !.se = se]]
  BY DEF se, sm, Change
<1>8. [e EXCEPT !.se = se] = [inst |-> e.inst, se |-> se]
  BY <1>1, EntryChanged
<1>9. [inst |-> e.inst, se |-> se] \in Entries
  BY <1>1, <1>6, EntriesMade
<1> DEFINE e2 == [inst |-> e.inst, se |-> se]
<1>10. e2.inst = e.inst /\ e2.se = se
  OBVIOUS
<1> HIDE DEF e2
<1>11. list2 = [list EXCEPT ![k] = e2] /\ e2 \in Entries
  BY <1>7, <1>8, <1>9 DEF e2
<1>12. list2 \in Seq(Entries) /\ Len(list2) = Len(list) /\ list2[k] = e2
       /\ \A m \in 1 .. Len(list) : m # k => list2[m] = list[m]
  BY <1>11, Replaced
<1> QED BY <1>3, <1>4, <1>5, <1>6, <1>10, <1>12 DEF Changed

(* An instruction that does not end a match and moves no thread elsewhere.  *)
LEMMA StaysAccepted ==
  ASSUME BestIsAccepted, UNCHANGED <<re, text, mp, matchstart>>
  PROVE  BestIsAccepted'
BY DEF BestIsAccepted

LEMMA MachineBrackets ==
  ASSUME MachineInv, Runnable(re), Bracketed, RegexpAssumption
  PROVE  MachineInv'
<1>1. /\ phase = "run" /\ inst # 0 /\ current.type \in {"(", ")"}
      /\ inst' = current.next /\ tlp' = tlp
      /\ UNCHANGED <<phase, re, text, ptr, nl, mp, matchstart>>
  BY DEF Bracketed, At, Go
<1> DEFINE f == IF current.type = "(" THEN "csp" ELSE "cep"
<1>2. tl' = [tl EXCEPT ![tlp].se[current.subid][f] = ptr]
  BY DEF Bracketed
<1>3. /\ text \in Seq(Nat) /\ Len(text) \in Nat /\ ptr \in Places(text) /\ ptr \in 0 .. Len(text)
      /\ Turning(re, text, ptr, tl, tlp, inst)
      /\ tl \in Seq(Entries) /\ tlp \in 1 .. Len(tl) /\ tlp <= Len(tl)
      /\ \A n \in tlp .. Len(tl) : Sound(re, text, tl[n], ptr)
      /\ inst \in Live(re) /\ inst \in Nat /\ inst \in DOMAIN re.prog
      /\ nl \in Seq(Entries) /\ (ptr < Len(text) => Awaited(re, text, nl, ptr + 1))
      /\ \E V : NothingLost(re, text, ptr, V, tl, tlp, inst, nl, mp[0])
      /\ BestIsAccepted
  BY <1>1, Runs
<1>4. current.subid \in 1 .. NSubexp - 1 /\ current.next \in Live(re)
  BY <1>1, <1>3 DEF Runnable, current
<1>5. /\ tl' \in Seq(Entries) /\ Len(tl') = Len(tl)
      /\ \A m \in 1 .. Len(tl) : m # tlp => tl'[m] = tl[m]
      /\ tl'[tlp].inst = tl[tlp].inst /\ tl'[tlp].se[0].csp = tl[tlp].se[0].csp
  <2>1. f \in {"csp", "cep"} /\ current.subid \in 0 .. NSubexp - 1 /\ current.subid # 0 /\ ptr \in Int
    BY <1>3, <1>4
  <2> DEFINE n == current.subid
  <2>2. tl' = Change(tl, tlp, n, f, ptr) /\ n \in 0 .. NSubexp - 1 /\ (n = 0 => f = "cep")
    BY <1>2, <2>1 DEF Change
  <2> HIDE DEF f, n
  <2>3. Changing(tl, tlp, n, f, ptr)
    BY <1>3, <2>1, <2>2 DEF RegexpAssumption, Changing
  <2>4. Changed(tl, tlp, tl')
    BY <2>2, <2>3, Changes
  <2> QED BY <2>4 DEF Changed
<1>6. \A n \in 1 .. Len(tl) : /\ tl'[n].inst = tl[n].inst
                              /\ tl'[n].se[0].csp = tl[n].se[0].csp
                              /\ tl'[n].se[0].csp <= tl[n].se[0].csp
  <2> TAKE n \in 1 .. Len(tl)
  <2>1. tl'[n].inst = tl[n].inst /\ tl'[n].se[0].csp = tl[n].se[0].csp
    BY <1>5
  <2>2. tl[n].se[0].csp \in Nat
    BY <1>3, EntriesAre
  <2> QED BY <2>1, <2>2
<1>7. \A n \in tlp .. Len(tl') : Sound(re, text, tl'[n], ptr)
  <2> TAKE n \in tlp .. Len(tl')
  <2>1. n \in 1 .. Len(tl) /\ n \in tlp .. Len(tl)
    BY <1>3, <1>5
  <2> QED BY <1>3, <1>6, <2>1 DEF Sound
<1>8. \A q \in Nat, j \in Nat : Edge(re.prog, text, inst, ptr, q, j) <=> j = ptr /\ q = current.next
  BY <1>1, <1>3 DEF Edge, Moves, current
<1>9. ptr \in Nat /\ current.next \in Nat /\ ptr + 1 # ptr /\ ptr + 1 \in Nat
  BY <1>3, <1>4, RunnablePrograms
<1>10. PICK V : NothingLost(re, text, ptr, V, tl, tlp, inst, nl, mp[0])
  BY <1>3
<1>11. /\ Turning(re, text, ptr, tl', tlp, current.next)
       /\ \E U : NothingLost(re, text, ptr, U, tl', tlp, current.next, nl, mp[0])
  <2>1. Edge(re.prog, text, inst, ptr, current.next, ptr) /\ re.prog[inst].type # "end" /\ Len(tl) <= Len(tl')
    BY <1>1, <1>5, <1>8, <1>9 DEF current
  <2>2. /\ \A q \in Nat : Edge(re.prog, text, inst, ptr, q, ptr) => q = current.next
        /\ \A q \in Nat : ~ Edge(re.prog, text, inst, ptr, q, ptr + 1)
    BY <1>8, <1>9
  <2> QED BY <1>3, <1>4, <1>5, <1>6, <1>7, <1>10, <2>1, <2>2, TurnGoes
<1>12. Running'
  BY <1>1, <1>3, <1>11 DEF Running
<1> QED BY <1>1, <1>3, <1>12, StaysAccepted DEF MachineInv, Phases

(* A thread that leaves without a trace: nothing follows its instruction.   *)
LEMMA MachineLeaves ==
  ASSUME MachineInv, Runnable(re), phase = "run", inst # 0, Leave,
         UNCHANGED <<phase, re, text, ptr, tl, nl, mp, matchstart>>,
         current.type # "end",
         \A q \in Nat, j \in Nat : ~ Edge(re.prog, text, inst, ptr, q, j)
  PROVE  MachineInv'
<1>1. /\ text \in Seq(Nat) /\ Len(text) \in Nat /\ ptr \in Places(text) /\ ptr \in 0 .. Len(text)
      /\ Turning(re, text, ptr, tl, tlp, inst)
      /\ tl \in Seq(Entries) /\ tlp \in 1 .. Len(tl) /\ tlp <= Len(tl)
      /\ inst \in Live(re) /\ inst \in Nat
      /\ nl \in Seq(Entries) /\ (ptr < Len(text) => Awaited(re, text, nl, ptr + 1))
      /\ \E V : NothingLost(re, text, ptr, V, tl, tlp, inst, nl, mp[0])
      /\ BestIsAccepted
  BY Runs
<1>2. tlp' = tlp + 1 /\ inst' = IF tlp < Len(tl) THEN tl[tlp + 1].inst ELSE 0
  BY DEF Leave
<1>3. PICK V : NothingLost(re, text, ptr, V, tl, tlp, inst, nl, mp[0])
  BY <1>1
<1>4. ptr \in Nat /\ ptr + 1 \in Nat
  BY <1>1
<1>5. /\ Turning(re, text, ptr, tl, tlp + 1, inst')
      /\ \E U : NothingLost(re, text, ptr, U, tl, tlp + 1, inst', nl, mp[0])
  <2>1. \A q, b \in Nat : <<q, b>> \in Waits(nl, 1) => Covered(Waits(nl, 1), q, b)
    BY CoveredItself
  <2>2. Improves(mp[0], mp[0])
    BY DEF Improves
  <2>3. re.prog[inst].type # "end"
    BY DEF current
  <2>4. /\ \A q \in Nat : ~ Edge(re.prog, text, inst, ptr, q, ptr)
        /\ \A q \in Nat : Edge(re.prog, text, inst, ptr, q, ptr + 1) =>
               Covered(Waits(nl, 1), q, tl[tlp].se[0].csp)
    BY <1>4
  <2> QED BY <1>1, <1>2, <1>3, <2>1, <2>2, <2>3, <2>4, TurnLeaves
<1>6. Running'
  BY <1>1, <1>2, <1>5 DEF Running
<1> QED BY <1>1, <1>6, StaysAccepted DEF MachineInv, Phases

LEMMA MachineLines ==
  ASSUME MachineInv, Runnable(re), Line, RegexpAssumption
  PROVE  MachineInv'
<1> DEFINE passes == IF current.type = "bol" THEN ptr = 0 \/ text[ptr] = Newline
                     ELSE ptr = Len(text) \/ char = Newline
<1>1. /\ phase = "run" /\ inst # 0 /\ current.type \in {"bol", "eol"}
      /\ UNCHANGED <<phase, re, text, ptr, tl, nl, mp, matchstart>>
      /\ passes => Go
      /\ ~ passes => Leave
  BY DEF Line, At
<1>2. /\ text \in Seq(Nat) /\ Len(text) \in Nat /\ ptr \in Places(text) /\ ptr \in 0 .. Len(text)
      /\ Turning(re, text, ptr, tl, tlp, inst)
      /\ tl \in Seq(Entries) /\ tlp \in 1 .. Len(tl) /\ tlp <= Len(tl)
      /\ \A n \in tlp .. Len(tl) : Sound(re, text, tl[n], ptr)
      /\ inst \in Live(re) /\ inst \in Nat /\ inst \in DOMAIN re.prog
      /\ nl \in Seq(Entries) /\ (ptr < Len(text) => Awaited(re, text, nl, ptr + 1))
      /\ \E V : NothingLost(re, text, ptr, V, tl, tlp, inst, nl, mp[0])
      /\ BestIsAccepted
  BY <1>1, Runs
<1>3. passes <=> \/ current.type = "bol" /\ (ptr = 0 \/ text[ptr] = Newline)
                 \/ current.type = "eol" /\ (ptr = Len(text) \/ text[ptr + 1] = Newline)
  <2>1. ptr # Len(text) => char = text[ptr + 1]
    BY <1>2 DEF char
  <2> QED BY <1>1, <2>1
<1> HIDE DEF passes
<1>4. \A q \in Nat, j \in Nat :
         Edge(re.prog, text, inst, ptr, q, j) <=> j = ptr /\ q = current.next /\ passes
  BY <1>1, <1>2, <1>3 DEF Edge, Moves, current
<1>5. CASE passes
  <2>1. inst' = current.next /\ tlp' = tlp /\ current.next \in Live(re)
    BY <1>1, <1>2, <1>5 DEF Go, Runnable, current
  <2>2. ptr \in Nat /\ current.next \in Nat /\ ptr + 1 # ptr /\ ptr + 1 \in Nat
    BY <1>2, <2>1, RunnablePrograms
  <2>3. PICK V : NothingLost(re, text, ptr, V, tl, tlp, inst, nl, mp[0])
    BY <1>2
  <2>4. /\ Turning(re, text, ptr, tl, tlp, current.next)
        /\ \E U : NothingLost(re, text, ptr, U, tl, tlp, current.next, nl, mp[0])
    <3>1. Edge(re.prog, text, inst, ptr, current.next, ptr) /\ re.prog[inst].type # "end"
      BY <1>1, <1>4, <1>5, <2>2 DEF current
    <3>2. /\ \A q \in Nat : Edge(re.prog, text, inst, ptr, q, ptr) => q = current.next
          /\ \A q \in Nat : ~ Edge(re.prog, text, inst, ptr, q, ptr + 1)
      BY <1>4, <2>2
    <3>3. \A n \in 1 .. Len(tl) : tl[n].se[0].csp <= tl[n].se[0].csp
      <4> TAKE n \in 1 .. Len(tl)
      <4>1. tl[n].se[0].csp \in Nat
        BY <1>2, EntriesAre
      <4> QED BY <4>1
    <3>4. Len(tl) <= Len(tl)
      BY <1>2
    <3> QED BY <1>2, <2>1, <2>3, <3>1, <3>2, <3>3, <3>4, TurnGoes
  <2>5. Running'
    BY <1>1, <1>2, <2>1, <2>4 DEF Running
  <2> QED BY <1>1, <1>2, <2>5, StaysAccepted DEF MachineInv, Phases
<1>6. CASE ~ passes
  BY <1>1, <1>4, <1>6, MachineLeaves
<1> QED BY <1>5, <1>6

LEMMA MachineChooses ==
  ASSUME MachineInv, Runnable(re), Choice, RegexpAssumption
  PROVE  MachineInv'
<1>1. /\ phase = "run" /\ inst # 0 /\ current.type = "or"
      /\ tl' = Renewthread(tl, tlp, current.right, tl[tlp].se)
      /\ inst' = current.next /\ tlp' = tlp
      /\ phase' \in {"overrun", "run"} /\ UNCHANGED <<re, text, ptr, nl, mp, matchstart>>
  BY DEF Choice, At, Go
<1>2. /\ text \in Seq(Nat) /\ Len(text) \in Nat /\ ptr \in Places(text) /\ ptr \in 0 .. Len(text)
      /\ Turning(re, text, ptr, tl, tlp, inst)
      /\ tl \in Seq(Entries) /\ tlp \in 1 .. Len(tl) /\ tlp <= Len(tl)
      /\ \A n \in tlp .. Len(tl) : Sound(re, text, tl[n], ptr)
      /\ inst \in Live(re) /\ inst \in Nat /\ inst \in DOMAIN re.prog
      /\ tl[tlp].se \in Captures /\ tl[tlp].se[0].csp \in Nat /\ tl[tlp].se[0].csp \in Places(text)
      /\ Reaches(re, text, tl[tlp].se[0].csp, inst, ptr)
      /\ nl \in Seq(Entries) /\ (ptr < Len(text) => Awaited(re, text, nl, ptr + 1))
      /\ \E V : NothingLost(re, text, ptr, V, tl, tlp, inst, nl, mp[0])
      /\ BestIsAccepted
  BY <1>1, Runs
<1>3. current.next \in Live(re) /\ current.right \in Live(re)
  BY <1>1, <1>2 DEF Runnable, current
<1>4. ptr \in Nat /\ current.next \in Nat /\ current.right \in Nat /\ ptr + 1 # ptr /\ ptr + 1 \in Nat
  BY <1>2, <1>3, RunnablePrograms
<1>5. \A q \in Nat, j \in Nat :
         Edge(re.prog, text, inst, ptr, q, j) <=> j = ptr /\ (q = current.next \/ q = current.right)
  BY <1>1, <1>2 DEF Edge, Moves, current
<1>6. Renewal(tl, tlp, current.right, tl[tlp].se, tl')
  <2>1. tlp \in 1 .. Len(tl) + 1
    BY <1>2
  <2> QED BY <1>1, <1>2, <1>4, <2>1, Renewed DEF RegexpAssumption
<1>7. tl' \in Seq(Entries) /\ Len(tl) <= Len(tl')
      /\ \A n \in 1 .. Len(tl) : /\ tl'[n].inst = tl[n].inst
                                 /\ tl'[n].se[0].csp <= tl[n].se[0].csp
  BY <1>6 DEF Renewal
<1>8. tl'[tlp].se[0].csp = tl[tlp].se[0].csp
  <2>1. tl'[tlp] = tl[tlp] \/ tl'[tlp].se = tl[tlp].se
    BY <1>2, <1>6 DEF Renewal
  <2> QED BY <2>1
<1>9. Reaches(re, text, tl[tlp].se[0].csp, current.right, ptr)
  <2>1. Edge(re.prog, text, inst, ptr, current.right, ptr)
    BY <1>4, <1>5
  <2> QED BY <1>2, <1>4, <2>1, ReachesOn
<1>10. \A n \in tlp .. Len(tl') : Sound(re, text, tl'[n], ptr)
  <2> TAKE n \in tlp .. Len(tl')
  <2>0. n \in 1 .. Len(tl')
    BY <1>2, <1>7
  <2>1. CASE n <= Len(tl) /\ tl'[n] = tl[n]
    <3>1. n \in tlp .. Len(tl)
      BY <1>2, <2>1
    <3> QED BY <1>2, <2>1, <3>1
  <2>2. CASE tl'[n].inst = current.right /\ tl'[n].se = tl[tlp].se
    BY <1>2, <1>3, <1>9, <2>2 DEF Sound
  <2> QED BY <1>6, <2>0, <2>1, <2>2 DEF Renewal
<1>11. PICK V : NothingLost(re, text, ptr, V, tl, tlp, inst, nl, mp[0])
  BY <1>2
<1>12. /\ Turning(re, text, ptr, tl', tlp, current.next)
       /\ \E U : NothingLost(re, text, ptr, U, tl', tlp, current.next, nl, mp[0])
  <2>1. Edge(re.prog, text, inst, ptr, current.next, ptr) /\ re.prog[inst].type # "end"
    BY <1>1, <1>4, <1>5 DEF current
  <2>2. \E n \in tlp .. Len(tl') : /\ tl'[n].inst = current.right
                                   /\ tl'[n].se[0].csp <= tl[tlp].se[0].csp
    BY <1>6 DEF Renewal
  <2>3. /\ \A q \in Nat : Edge(re.prog, text, inst, ptr, q, ptr) =>
              q = current.next \/ \E n \in tlp .. Len(tl') : /\ tl'[n].inst = q
                                                            /\ tl'[n].se[0].csp <= tl[tlp].se[0].csp
        /\ \A q \in Nat : ~ Edge(re.prog, text, inst, ptr, q, ptr + 1)
    BY <1>4, <1>5, <2>2
  <2> QED BY <1>2, <1>3, <1>7, <1>8, <1>10, <1>11, <2>1, <2>3, TurnGoes
<1>13. Running'
  BY <1>1, <1>2, <1>12 DEF Running
<1> QED BY <1>1, <1>2, <1>13, StaysAccepted DEF MachineInv, Phases

LEMMA MachineConsumes ==
  ASSUME MachineInv, Runnable(re), Consume, RegexpAssumption
  PROVE  MachineInv'
<1>1. /\ phase = "run" /\ inst # 0 /\ current.type \in {"rune", "any", "class", "nclass"}
      /\ nl' = IF Consumes(current, char) THEN Renewthread(nl, 1, current.next, tl[tlp].se) ELSE nl
      /\ tlp' = tlp + 1 /\ inst' = (IF tlp < Len(tl) THEN tl[tlp + 1].inst ELSE 0)
      /\ phase' \in {"overrun", "run"} /\ UNCHANGED <<re, text, ptr, tl, mp, matchstart>>
  BY DEF Consume, At, Leave
<1>2. /\ text \in Seq(Nat) /\ Len(text) \in Nat /\ ptr \in Places(text) /\ ptr \in 0 .. Len(text)
      /\ Turning(re, text, ptr, tl, tlp, inst)
      /\ tl \in Seq(Entries) /\ tlp \in 1 .. Len(tl) /\ tlp <= Len(tl)
      /\ inst \in Live(re) /\ inst \in Nat /\ inst \in DOMAIN re.prog
      /\ tl[tlp].se \in Captures /\ tl[tlp].se[0].csp \in Nat /\ tl[tlp].se[0].csp \in Places(text)
      /\ Reaches(re, text, tl[tlp].se[0].csp, inst, ptr)
      /\ nl \in Seq(Entries) /\ (ptr < Len(text) => Awaited(re, text, nl, ptr + 1))
      /\ \E V : NothingLost(re, text, ptr, V, tl, tlp, inst, nl, mp[0])
      /\ BestIsAccepted
  BY <1>1, Runs
<1> DEFINE c == tl[tlp].se[0].csp
<1>3. current.next \in Live(re) /\ current.next \in Nat
  <2>1. current.next \in Live(re)
    BY <1>1, <1>2 DEF Runnable, current
  <2> QED BY <2>1, RunnablePrograms
<1>4. ptr \in Nat /\ ptr + 1 # ptr /\ ptr + 1 \in Nat
  BY <1>2
<1>5. \A q \in Nat, j \in Nat :
         Edge(re.prog, text, inst, ptr, q, j) <=>
            j = ptr + 1 /\ j <= Len(text) /\ Consumes(current, text[j]) /\ q = current.next
  BY <1>1, <1>2 DEF Edge, Moves, current
<1>6. ptr < Len(text) => char = text[ptr + 1]
  BY DEF char
<1>7. ASSUME /\ nl' \in Seq(Entries) /\ (ptr < Len(text) => Awaited(re, text, nl', ptr + 1))
             /\ \A q, b \in Nat : <<q, b>> \in Waits(nl, 1) => Covered(Waits(nl', 1), q, b)
             /\ \A q \in Nat : Edge(re.prog, text, inst, ptr, q, ptr + 1) => Covered(Waits(nl', 1), q, c)
      PROVE  MachineInv'
  <2>1. PICK V : NothingLost(re, text, ptr, V, tl, tlp, inst, nl, mp[0])
    BY <1>2
  <2>2. Improves(mp[0], mp[0])
    BY DEF Improves
  <2>3. re.prog[inst].type # "end" /\ \A q \in Nat : ~ Edge(re.prog, text, inst, ptr, q, ptr)
    BY <1>1, <1>4, <1>5 DEF current
  <2>4. /\ Turning(re, text, ptr, tl, tlp + 1, inst')
        /\ \E U : NothingLost(re, text, ptr, U, tl, tlp + 1, inst', nl', mp[0])
    BY <1>1, <1>2, <1>7, <2>1, <2>2, <2>3, TurnLeaves
  <2>5. Running'
    BY <1>1, <1>2, <1>7, <2>4 DEF Running
  <2> QED BY <1>1, <1>2, <2>5, StaysAccepted DEF MachineInv, Phases
<1>8. CASE Consumes(current, char)
  <2>1. Renewal(nl, 1, current.next, tl[tlp].se, nl')
    <3>1. 1 \in 1 .. Len(nl) + 1 /\ nl' = Renewthread(nl, 1, current.next, tl[tlp].se)
      BY <1>1, <1>2, <1>8
    <3> QED BY <1>2, <1>3, <3>1, Renewed DEF RegexpAssumption
  <2>2. nl' \in Seq(Entries)
    BY <2>1 DEF Renewal
  <2>3. ptr < Len(text) => Awaited(re, text, nl', ptr + 1)
    <3> SUFFICES ASSUME ptr < Len(text), NEW n \in 1 .. Len(nl')
                 PROVE  Sound(re, text, nl'[n], ptr + 1)
      BY DEF Awaited
    <3>1. CASE n <= Len(nl) /\ nl'[n] = nl[n]
      <4>1. n \in 1 .. Len(nl)
        BY <1>2, <3>1
      <4> QED BY <1>2, <3>1, <4>1 DEF Awaited
    <3>2. CASE nl'[n].inst = current.next /\ nl'[n].se = tl[tlp].se
      <4>1. ptr + 1 \in Places(text) /\ Edge(re.prog, text, inst, ptr, current.next, ptr + 1)
        BY <1>2, <1>3, <1>4, <1>5, <1>6, <1>8 DEF Places
      <4>2. Reaches(re, text, c, current.next, ptr + 1)
        BY <1>2, <1>3, <4>1, ReachesOn
      <4> QED BY <1>2, <1>3, <3>2, <4>2 DEF Sound
    <3> QED BY <2>1, <3>1, <3>2 DEF Renewal
  <2>4. \A q, b \in Nat : <<q, b>> \in Waits(nl, 1) => Covered(Waits(nl', 1), q, b)
    <3> TAKE q \in Nat, b \in Nat
    <3> HAVE <<q, b>> \in Waits(nl, 1)
    <3>1. PICK n \in 1 .. Len(nl) : <<q, b>> = <<nl[n].inst, nl[n].se[0].csp>>
      BY DEF Waits
    <3>2. n \in 1 .. Len(nl') /\ nl'[n].inst = q /\ nl'[n].se[0].csp <= b
      BY <1>2, <2>1, <2>2, <3>1 DEF Renewal
    <3>3. nl'[n].se[0].csp \in Nat /\ <<nl'[n].inst, nl'[n].se[0].csp>> \in Waits(nl', 1)
      BY <2>2, <3>2, WaitsAt
    <3> QED BY <3>2, <3>3 DEF Covered
  <2>5. Covered(Waits(nl', 1), current.next, c)
    <3>1. PICK n \in 1 .. Len(nl') : nl'[n].inst = current.next /\ nl'[n].se[0].csp <= c
      BY <2>1 DEF Renewal
    <3>2. nl'[n].se[0].csp \in Nat /\ <<nl'[n].inst, nl'[n].se[0].csp>> \in Waits(nl', 1)
      BY <2>2, WaitsAt
    <3> QED BY <3>1, <3>2 DEF Covered
  <2>6. \A q \in Nat : Edge(re.prog, text, inst, ptr, q, ptr + 1) => Covered(Waits(nl', 1), q, c)
    BY <1>4, <1>5, <2>5
  <2> QED BY <1>7, <2>2, <2>3, <2>4, <2>6
<1>9. CASE ~ Consumes(current, char)
  <2>1. nl' = nl
    BY <1>1, <1>9
  <2>2. \A q \in Nat : ~ Edge(re.prog, text, inst, ptr, q, ptr + 1)
    BY <1>2, <1>4, <1>5, <1>6, <1>9
  <2>3. \A q, b \in Nat : <<q, b>> \in Waits(nl, 1) => Covered(Waits(nl', 1), q, b)
    BY <2>1, CoveredItself
  <2> QED BY <1>2, <1>7, <2>1, <2>2, <2>3
<1> QED BY <1>8, <1>9

LEMMA MachineMatches ==
  ASSUME MachineInv, Runnable(re), Match, RegexpAssumption
  PROVE  MachineInv'
<1>1. /\ phase = "run" /\ inst # 0 /\ current.type = "end"
      /\ matchstart' = (IF matchstart < 0 THEN tl[tlp].se[0].csp ELSE matchstart)
      /\ mp' = Renewmatch(mp, tl'[tlp].se)
      /\ tlp' = tlp + 1 /\ inst' = (IF tlp < Len(tl) THEN tl[tlp + 1].inst ELSE 0)
      /\ UNCHANGED <<phase, re, text, ptr, nl>>
  BY DEF Match, At, Leave
<1>2. /\ text \in Seq(Nat) /\ Len(text) \in Nat /\ ptr \in Places(text) /\ ptr \in 0 .. Len(text)
      /\ Turning(re, text, ptr, tl, tlp, inst)
      /\ tl \in Seq(Entries) /\ tlp \in 1 .. Len(tl) /\ tlp <= Len(tl)
      /\ inst \in Live(re) /\ inst \in Nat /\ inst \in DOMAIN re.prog
      /\ tl[tlp].se[0].csp \in Nat /\ tl[tlp].se[0].csp \in Places(text)
      /\ Reaches(re, text, tl[tlp].se[0].csp, inst, ptr)
      /\ nl \in Seq(Entries) /\ (ptr < Len(text) => Awaited(re, text, nl, ptr + 1))
      /\ \E V : NothingLost(re, text, ptr, V, tl, tlp, inst, nl, mp[0])
      /\ BestIsAccepted
  BY <1>1, Runs
<1> DEFINE c  == tl[tlp].se[0].csp
           se == tl'[tlp].se
<1>3. ptr \in Int /\ ptr \in Nat /\ 0 \in 0 .. NSubexp - 1 /\ 0 \in 0 .. Ms - 1 /\ 0 < NSubexp
  BY <1>2 DEF RegexpAssumption
<1>4. Changed(tl, tlp, tl') /\ tl'[tlp].se[0]["cep"] = ptr
  <2>1. tl' = Change(tl, tlp, 0, "cep", ptr)
    BY DEF Match, Change
  <2>2. "cep" \in {"csp", "cep"}
    OBVIOUS
  <2>3. /\ NSubexp \in Nat \ {0} /\ tl \in Seq(Entries) /\ tlp \in 1 .. Len(tl)
        /\ ptr \in Int /\ 0 \in 0 .. NSubexp - 1
    BY <1>2, <1>3 DEF RegexpAssumption
  <2>4. Changing(tl, tlp, 0, "cep", ptr)
    BY <2>2, <2>3 DEF Changing
  <2> HIDE DEF c, se
  <2> QED BY <2>1, <2>4, Changes
<1>5. /\ tl' \in Seq(Entries) /\ Len(tl') = Len(tl)
      /\ \A n \in tlp + 1 .. Len(tl) : tl'[n] = tl[n]
  BY <1>2, <1>4 DEF Changed
<1>6. se \in [0 .. NSubexp - 1 -> Submatch] /\ se[0].csp = c /\ se[0].cep = ptr
  BY <1>4 DEF Changed, Captures
<1> HIDE DEF se
<1>7. mp \in [0 .. Ms - 1 -> Submatch] /\ mp[0].csp \in Int /\ mp[0].cep \in Int /\ matchstart \in Int
  BY <1>2, <1>3 DEF BestIsAccepted, Submatch
<1> DEFINE better == \/ mp[0].csp = -1
                     \/ se[0].csp < mp[0].csp
                     \/ se[0].csp = mp[0].csp /\ se[0].cep > mp[0].cep
<1>8. mp' = IF better THEN [n \in 0 .. Ms - 1 |-> IF n < NSubexp THEN se[n] ELSE Unset] ELSE mp
  BY <1>1 DEF Renewmatch, se
<1>9. better => mp'[0].csp = c /\ mp'[0].cep = ptr
  <2>1. better => mp'[0] = se[0]
    BY <1>3, <1>8
  <2> QED BY <1>6, <2>1
<1>10. mp' \in [0 .. Ms - 1 -> Submatch]
  <2>1. \A n \in 0 .. Ms - 1 : (IF n < NSubexp THEN se[n] ELSE Unset) \in Submatch
    <3> TAKE n \in 0 .. Ms - 1
    <3>1. n < NSubexp => n \in 0 .. NSubexp - 1
      BY DEF RegexpAssumption
    <3>2. Unset \in Submatch
      BY DEF Unset, Submatch
    <3> QED BY <1>6, <3>1, <3>2
  <2> QED BY <1>7, <1>8, <2>1
<1>11. ~ better => mp' = mp
  BY <1>8
<1>12. better <=> \/ mp[0].csp = -1
                  \/ c < mp[0].csp
                  \/ c = mp[0].csp /\ ptr > mp[0].cep
  BY <1>6
<1> HIDE DEF better
<1>13. Beats(mp'[0], c, ptr)
  <2>1. CASE better
    BY <1>2, <1>3, <1>9, <2>1 DEF Beats
  <2>2. CASE ~ better
    BY <1>2, <1>3, <1>7, <1>11, <1>12, <2>2 DEF Beats
  <2> QED BY <2>1, <2>2
<1>14. Improves(mp'[0], mp[0])
  <2> SUFFICES ASSUME NEW d \in Nat, NEW j \in Nat, Beats(mp[0], d, j) PROVE Beats(mp'[0], d, j)
    BY DEF Improves
  <2>1. CASE better
    <3>1. c < mp[0].csp \/ (c = mp[0].csp /\ ptr > mp[0].cep)
      BY <1>12, <2>1 DEF Beats
    <3>2. mp[0].csp < d \/ (mp[0].csp = d /\ j <= mp[0].cep)
      BY DEF Beats
    <3>3. c < d \/ (c = d /\ j <= ptr)
      BY <1>2, <1>3, <1>7, <3>1, <3>2
    <3> QED BY <1>2, <1>9, <2>1, <3>3 DEF Beats
  <2>2. CASE ~ better
    BY <1>11, <2>2
  <2> QED BY <2>1, <2>2
<1>15. <<c, ptr>> \in Accepted(re, text)
  <2>1. Accepts(re, text, c, ptr)
    BY <1>1, <1>2 DEF Accepts, current
  <2> QED BY <1>2, <2>1 DEF Accepted
<1>16. BestIsAccepted'
  <2>1. mp'[0].csp # -1
    BY <1>13 DEF Beats
  <2>2. <<mp'[0].csp, mp'[0].cep>> \in Accepted(re, text)
    <3>1. CASE better
      BY <1>9, <1>15, <3>1
    <3>2. CASE ~ better
      BY <1>2, <1>11, <1>12, <3>2 DEF BestIsAccepted
    <3> QED BY <3>1, <3>2
  <2>3. matchstart' \in Int /\ \E s \in Accepted(re, text) : s[1] = matchstart'
    <3>1. CASE matchstart < 0
      <4>1. matchstart' = c /\ <<c, ptr>>[1] = c
        BY <1>1, <3>1
      <4> QED BY <1>2, <1>15, <4>1
    <3>2. CASE ~ matchstart < 0
      BY <1>1, <1>2, <1>7, <3>2 DEF BestIsAccepted
    <3> QED BY <3>1, <3>2
  <2> QED BY <1>1, <1>10, <2>1, <2>2, <2>3 DEF BestIsAccepted
<1>17. \A q \in Nat, j \in Nat : ~ Edge(re.prog, text, inst, ptr, q, j)
  BY <1>1 DEF Edge, Moves, current
<1>18. PICK V : NothingLost(re, text, ptr, V, tl, tlp, inst, nl, mp[0])
  BY <1>2
<1>19. /\ Turning(re, text, ptr, tl', tlp + 1, inst')
       /\ \E U : NothingLost(re, text, ptr, U, tl', tlp + 1, inst', nl, mp'[0])
  <2>1. \A q, b \in Nat : <<q, b>> \in Waits(nl, 1) => Covered(Waits(nl, 1), q, b)
    BY CoveredItself
  <2>2. /\ \A q \in Nat : ~ Edge(re.prog, text, inst, ptr, q, ptr)
        /\ \A q \in Nat : Edge(re.prog, text, inst, ptr, q, ptr + 1) => Covered(Waits(nl, 1), q, c)
    BY <1>3, <1>17
  <2> QED BY <1>1, <1>2, <1>5, <1>13, <1>14, <1>18, <2>1, <2>2, TurnLeaves
<1>20. Running'
  BY <1>1, <1>2, <1>19 DEF Running
<1> QED BY <1>1, <1>2, <1>16, <1>20 DEF MachineInv, Phases

LEMMA MachineAdvances ==
  ASSUME MachineInv, Runnable(re), Advance, RegexpAssumption
  PROVE  MachineInv'
<1>1. /\ phase = "run" /\ inst = 0 /\ ptr' = ptr + 1
      /\ phase' = (IF ptr = Len(text) THEN "done" ELSE "match")
      /\ UNCHANGED <<re, text, tl, tlp, nl, mp, matchstart>>
  BY DEF Advance
<1>2. Running /\ BestIsAccepted /\ text \in Seq(Nat)
  BY <1>1 DEF MachineInv
<1>3. /\ Len(text) \in Nat /\ ptr \in Places(text) /\ ptr \in 0 .. Len(text)
      /\ Turning(re, text, ptr, tl, tlp, 0) /\ nl \in Seq(Entries)
      /\ (ptr < Len(text) => Awaited(re, text, nl, ptr + 1))
  BY <1>1, <1>2 DEF Running, Places
<1>4. tl \in Seq(Entries) /\ tlp = Len(tl) + 1
  <2>1. 0 \notin Live(re)
    BY RunnablePrograms
  <2> QED BY <1>3, <2>1 DEF Turning
<1>5. Pending(tl, tlp, 0) = {}
  <2>1. (tlp + 1) .. Len(tl) = {} /\ tlp > Len(tl)
    BY <1>4
  <2> QED BY <2>1 DEF Pending, Waits
<1>6. PICK V : NothingLost(re, text, ptr, V, tl, tlp, 0, nl, mp[0])
  BY <1>1, <1>2 DEF Running
<1>7. Complete(re, text, V, {}, Waits(nl, 1), mp[0], ptr)
  BY <1>5, <1>6 DEF NothingLost
<1>8. mp[0].csp \in Int /\ re.start \in Nat
  BY <1>2, RunnablePrograms DEF BestIsAccepted, Submatch, RegexpAssumption
<1>9. /\ \A c \in Places(text), p \in Nat :
            Arrives(re, text, c, p, ptr + 1) => Covered(Waits(nl, 1), p, c)
      /\ BeatenBefore(re, text, mp[0], ptr + 1)
  BY <1>3, <1>7, <1>8, NextPlace
<1>10. BestIsAccepted'
  BY <1>1, <1>2, StaysAccepted
<1>11. CASE ptr = Len(text)
  BY <1>1, <1>2, <1>9, <1>10, <1>11 DEF MachineInv, Phases, Finished
<1>12. CASE ptr # Len(text)
  <2>1. ptr + 1 \in Places(text) /\ ptr < Len(text)
    BY <1>3, <1>12 DEF Places
  <2>2. Matching'
    BY <1>1, <1>3, <1>9, <2>1 DEF Matching
  <2> QED BY <1>1, <1>2, <1>10, <1>12, <2>2 DEF MachineInv, Phases
<1> QED BY <1>11, <1>12

(* What is left when the machine is done. *)
LEMMA BestIsLeftmost ==
  ASSUME NEW S \in SUBSET (Nat \X Nat), NEW m, m.csp \in Int, m.cep \in Int,
         <<m.csp, m.cep>> \in S, \A s \in S : Beats(m, s[1], s[2])
  PROVE  <<m.csp, m.cep>> = Leftmost(S)
<1> DEFINE best == <<m.csp, m.cep>>
           First(s) == \A z \in S : s[1] < z[1] \/ (s[1] = z[1] /\ s[2] >= z[2])
<1>1. best \in S /\ First(best)
  <2> SUFFICES ASSUME NEW z \in S PROVE best[1] < z[1] \/ (best[1] = z[1] /\ best[2] >= z[2])
    OBVIOUS
  <2>1. Beats(m, z[1], z[2]) /\ z[1] \in Nat /\ z[2] \in Nat
    OBVIOUS
  <2> QED BY <2>1 DEF Beats
<1>2. ASSUME NEW s \in S, First(s) PROVE s = best
  <2>1. s = <<s[1], s[2]>> /\ s[1] \in Nat /\ s[2] \in Nat /\ best[1] \in Int /\ best[2] \in Int
    OBVIOUS
  <2>2. best[1] < s[1] \/ (best[1] = s[1] /\ best[2] >= s[2])
    BY <1>1
  <2>3. s[1] < best[1] \/ (s[1] = best[1] /\ s[2] >= best[2])
    BY <1>1, <1>2
  <2>4. s[1] = best[1] /\ s[2] = best[2]
    BY <2>1, <2>2, <2>3
  <2> QED BY <2>1, <2>4
<1> HIDE DEF best
<1>3. (CHOOSE s \in S : First(s)) = best
  BY <1>1, <1>2
<1> QED BY <1>3 DEF Leftmost, best

LEMMA MachineIsRight ==
  ASSUME MachineInv, phase = "done", RegexpAssumption
  PROVE  IF Accepted(re, text) = {} THEN mp = NoSubs(Ms) /\ matchstart = -1
         ELSE /\ <<mp[0].csp, mp[0].cep>> = Leftmost(Accepted(re, text))
              /\ \E s \in Accepted(re, text) : s[1] = matchstart
<1>1. Finished /\ BestIsAccepted /\ text \in Seq(Nat)
  BY DEF MachineInv
<1> DEFINE S == Accepted(re, text)
<1>2. S \in SUBSET (Nat \X Nat) /\ \A s \in S : s[2] < Len(text) + 1
  BY <1>1 DEF Accepted, Places
<1>3. \A s \in S : Beats(mp[0], s[1], s[2])
  BY <1>1, <1>2 DEF Finished, BeatenBefore
<1>4. mp[0].csp \in Int /\ mp[0].cep \in Int
  BY <1>1 DEF BestIsAccepted, Submatch, RegexpAssumption
<1>5. CASE S = {}
  BY <1>1, <1>5 DEF BestIsAccepted
<1>6. CASE S # {}
  <2>1. mp[0].csp # -1
    BY <1>3, <1>6 DEF Beats
  <2>2. <<mp[0].csp, mp[0].cep>> \in S /\ \E s \in S : s[1] = matchstart
    BY <1>1, <2>1 DEF BestIsAccepted
  <2> HIDE DEF S
  <2>3. <<mp[0].csp, mp[0].cep>> = Leftmost(S)
    BY <1>2, <1>3, <1>4, <2>2, BestIsLeftmost
  <2> QED BY <1>6, <2>2, <2>3 DEF S
<1> QED BY <1>5, <1>6

(* The steps of the machine. *)
LEMMA MachineSteps ==
  ASSUME MachineInv, RegexpAssumption, phase \notin {"compile", "error"} => Runnable(re), Next
  PROVE  Compile \/ (MachineInv' /\ UNCHANGED re /\ phase \notin {"compile", "error"})
<1>1. CASE Compile
  BY <1>1
<1>2. CASE Apply
  BY <1>2, MachineStarts DEF Apply
<1>3. CASE GiveUp
  BY <1>3, MachineGivesUp DEF GiveUp
<1>4. CASE Character
  BY <1>4, MachineTakesACharacter DEF Character
<1>5. CASE Bracketed
  BY <1>5, MachineBrackets DEF Bracketed, At
<1>6. CASE Line
  BY <1>6, MachineLines DEF Line, At
<1>7. CASE Choice
  BY <1>7, MachineChooses DEF Choice, At
<1>8. CASE Consume
  BY <1>8, MachineConsumes DEF Consume, At
<1>9. CASE Match
  BY <1>9, MachineMatches DEF Match, At
<1>10. CASE Advance
  BY <1>10, MachineAdvances DEF Advance
<1> QED BY <1>1, <1>2, <1>3, <1>4, <1>5, <1>6, <1>7, <1>8, <1>9, <1>10 DEF Next

-----------------------------------------------------------------------------
(* Linking                                                                 *)
(* The instructions K of a program, which lead nowhere else but to 0, are   *)
(* linked to what begins at n: E2 has their edges with n in the place of 0. *)

Linked(E, E2, D, K, n) ==
    \A p \in K, d \in D, q \in Nat, e \in D :
        <<<<p, d>>, <<q, e>>>> \in E2 <=>
            \/ q \in K /\ <<<<p, d>>, <<q, e>>>> \in E
            \/ q = n /\ <<<<p, d>>, <<0, e>>>> \in E
Enclosed(E, D, K) ==
    \A p \in K, d \in D, q \in Nat, e \in D :
        <<<<p, d>>, <<q, e>>>> \in E => q \in K \cup {0}
Stops(E, D) == \A d \in D, y \in Nodes(D) : <<<<0, d>>, y>> \notin E

LEMMA LeadsInside ==
  ASSUME NEW D, NEW E \in SUBSET (Nodes(D) \X Nodes(D)), NEW K \in SUBSET (Nat \ {0}),
         Enclosed(E, D, K), Stops(E, D),
         NEW p \in K, NEW d \in D, NEW q, NEW e, Leads(E, D, <<p, d>>, <<q, e>>)
  PROVE  q \in K \cup {0} /\ e \in D
<1> DEFINE S == {v \in Nodes(D) : v[1] \in K \cup {0}}
<1>0. \A a \in Nat, b \in D : <<a, b>> \in S <=> a \in K \cup {0}
  BY DEF Nodes
<1>1. S \in SUBSET Nodes(D) /\ <<p, d>> \in S
  BY <1>0
<1>2. ASSUME NEW a \in Nat, NEW b \in Nat, NEW f \in D, NEW g \in D,
             <<<<a, f>>, <<b, g>>>> \in E, <<a, f>> \in S
      PROVE  <<b, g>> \in S
  <2>1. <<b, g>> \in Nodes(D) /\ a \in K \cup {0}
    BY <1>0, <1>2 DEF Nodes
  <2>2. a \in K
    BY <1>2, <2>1 DEF Stops
  <2>3. b \in K \cup {0}
    BY <1>2, <2>2 DEF Enclosed
  <2> QED BY <1>0, <2>3
<1>3. S \in SUBSET Nodes(D)
  OBVIOUS
<1>4. \A v \in S : v = <<v[1], v[2]>> /\ v[1] \in K \cup {0} /\ v[2] \in D
  BY DEF Nodes
<1> HIDE DEF S
<1>5. <<q, e>> \in S
  BY <1>1, <1>2, <1>3, LeadsIn
<1>6. <<q, e>>[1] = q /\ <<q, e>>[2] = e
  OBVIOUS
<1> QED BY <1>4, <1>5, <1>6

LEMMA LeadsStops ==
  ASSUME NEW D, NEW E \in SUBSET (Nodes(D) \X Nodes(D)), Stops(E, D),
         NEW d \in D, NEW y, Leads(E, D, <<0, d>>, y)
  PROVE  y = <<0, d>>
<1>1. <<0, d>> \in Nodes(D)
  BY DEF Nodes
<1>2. ASSUME NEW z, <<<<0, d>>, z>> \in E PROVE FALSE
  <2>1. z \in Nodes(D)
    BY <1>2
  <2> QED BY <1>2, <2>1 DEF Stops
<1> QED BY <1>1, <1>2, LeadsFirst

LEMMA LinkedOut ==
  ASSUME NEW D, NEW E \in SUBSET (Nodes(D) \X Nodes(D)), NEW E2 \in SUBSET (Nodes(D) \X Nodes(D)),
         NEW K \in SUBSET (Nat \ {0}), NEW n \in Nat \ K,
         Enclosed(E, D, K), Stops(E, D), Linked(E, E2, D, K, n),
         NEW p \in K, NEW d \in D, NEW q \in Nat, NEW e \in D,
         Leads(E2, D, <<p, d>>, <<q, e>>)
  PROVE  \/ q \in K /\ Leads(E, D, <<p, d>>, <<q, e>>)
         \/ \E f \in D : Leads(E, D, <<p, d>>, <<0, f>>) /\ Leads(E2, D, <<n, f>>, <<q, e>>)
<1> DEFINE x == <<p, d>>
<1>1. x \in Nodes(D) /\ K \subseteq Nat /\ 0 \notin K
  BY DEF Nodes
<1> DEFINE T(a, b) == \/ a \in K /\ Leads(E, D, x, <<a, b>>)
                      \/ \E f \in D : Leads(E, D, x, <<0, f>>) /\ Leads(E2, D, <<n, f>>, <<a, b>>)
           S == {v \in Nodes(D) : T(v[1], v[2])}
<1>2. \A a \in Nat, b \in D : <<a, b>> \in S <=> T(a, b)
  BY DEF Nodes
<1>3. x \in S
  <2>1. T(p, d)
    BY <1>1, LeadsToItself
  <2> QED BY <1>1, <1>2, <2>1
<1>4. ASSUME NEW a \in Nat, NEW b \in D, NEW a2 \in Nat, NEW b2 \in D,
             <<<<a, b>>, <<a2, b2>>>> \in E2, <<a, b>> \in S
      PROVE  <<a2, b2>> \in S
  <2>1. CASE a \in K /\ Leads(E, D, x, <<a, b>>)
    <3>1. CASE a2 \in K /\ <<<<a, b>>, <<a2, b2>>>> \in E
      <4>1. Leads(E, D, x, <<a2, b2>>)
        BY <2>1, <3>1, LeadsOn
      <4> QED BY <1>2, <3>1, <4>1
    <3>2. CASE a2 = n /\ <<<<a, b>>, <<0, b2>>>> \in E
      <4>1. Leads(E, D, x, <<0, b2>>)
        BY <2>1, <3>2, LeadsOn
      <4>2. <<a2, b2>> \in Nodes(D)
        BY DEF Nodes
      <4>3. Leads(E2, D, <<n, b2>>, <<a2, b2>>)
        BY <3>2, <4>2, LeadsToItself
      <4>4. T(a2, b2)
        BY <4>1, <4>3
      <4> HIDE DEF T, S
      <4> QED BY <1>2, <4>4
    <3>3. \/ a2 \in K /\ <<<<a, b>>, <<a2, b2>>>> \in E
          \/ a2 = n /\ <<<<a, b>>, <<0, b2>>>> \in E
      <4> HIDE DEF S, T
      <4> QED BY <1>4, <2>1 DEF Linked
    <3> HIDE DEF S, T
    <3> QED BY <3>1, <3>2, <3>3
  <2>2. CASE \E f \in D : Leads(E, D, x, <<0, f>>) /\ Leads(E2, D, <<n, f>>, <<a, b>>)
    <3>1. PICK f \in D : Leads(E, D, x, <<0, f>>) /\ Leads(E2, D, <<n, f>>, <<a, b>>)
      BY <2>2
    <3>2. Leads(E2, D, <<n, f>>, <<a2, b2>>)
      BY <1>4, <3>1, LeadsOn
    <3>3. T(a2, b2)
      BY <3>1, <3>2
    <3> HIDE DEF T, S
    <3> QED BY <1>2, <3>3
  <2>3. T(a, b)
    BY <1>2, <1>4
  <2> QED BY <2>1, <2>2, <2>3
<1>5. S \in SUBSET Nodes(D)
  OBVIOUS
<1> HIDE DEF S
<1>6. <<q, e>> \in S
  BY <1>3, <1>4, <1>5, LeadsIn
<1> QED BY <1>2, <1>6

LEMMA LinkedInto ==
  ASSUME NEW D, NEW E \in SUBSET (Nodes(D) \X Nodes(D)), NEW E2 \in SUBSET (Nodes(D) \X Nodes(D)),
         NEW K \in SUBSET (Nat \ {0}), NEW n \in Nat \ K,
         Enclosed(E, D, K), Stops(E, D), Linked(E, E2, D, K, n),
         NEW p \in K, NEW d \in D, NEW q \in Nat, NEW e \in D,
         Leads(E, D, <<p, d>>, <<q, e>>)
  PROVE  \/ q \in K /\ Leads(E2, D, <<p, d>>, <<q, e>>)
         \/ q = 0 /\ Leads(E2, D, <<p, d>>, <<n, e>>)
<1> DEFINE x == <<p, d>>
<1>1. x \in Nodes(D) /\ K \subseteq Nat /\ 0 \notin K
  BY DEF Nodes
<1> DEFINE T(a, b) == \/ a \in K /\ Leads(E2, D, x, <<a, b>>)
                      \/ a = 0 /\ Leads(E2, D, x, <<n, b>>)
           S == {v \in Nodes(D) : T(v[1], v[2])}
<1>2. \A a \in Nat, b \in D : <<a, b>> \in S <=> T(a, b)
  BY DEF Nodes
<1>3. x \in S
  <2>1. T(p, d)
    BY <1>1, LeadsToItself
  <2> QED BY <1>1, <1>2, <2>1
<1>4. ASSUME NEW a \in Nat, NEW b \in D, NEW a2 \in Nat, NEW b2 \in D,
             <<<<a, b>>, <<a2, b2>>>> \in E, <<a, b>> \in S
      PROVE  <<a2, b2>> \in S
  <2>1. <<a2, b2>> \in Nodes(D) /\ T(a, b)
    BY <1>2, <1>4 DEF Nodes
  <2>2. a # 0
    BY <1>4, <2>1 DEF Stops
  <2>3. a \in K /\ Leads(E2, D, x, <<a, b>>)
    BY <2>1, <2>2
  <2>4. CASE a2 \in K
    <3>1. <<<<a, b>>, <<a2, b2>>>> \in E2
      BY <1>4, <2>3, <2>4 DEF Linked
    <3>2. Leads(E2, D, x, <<a2, b2>>)
      BY <2>3, <3>1, LeadsOn
    <3> QED BY <1>2, <2>4, <3>2
  <2>5. CASE a2 = 0
    <3>1. <<<<a, b>>, <<n, b2>>>> \in E2
      BY <1>4, <2>3, <2>5 DEF Linked
    <3>2. Leads(E2, D, x, <<n, b2>>)
      BY <2>3, <3>1, LeadsOn
    <3> QED BY <1>2, <2>5, <3>2
  <2> QED BY <1>4, <2>3, <2>4, <2>5 DEF Enclosed
<1>5. S \in SUBSET Nodes(D)
  OBVIOUS
<1> HIDE DEF S
<1>6. <<q, e>> \in S
  BY <1>3, <1>4, <1>5, LeadsIn
<1> QED BY <1>2, <1>6

Turns(E, D, n, p) == \A d \in D : \A z : <<<<n, d>>, z>> \in E => z = <<0, d>> \/ z = <<p, d>>
LeadsThrough(E, D, p, R) ==
    \A c \in D, f \in D : <<c, f>> \in R <=> Leads(E, D, <<p, c>>, <<0, f>>)
ClosedFrom(R, D, d, S) ==
    \A c \in D, f \in D : <<c, f>> \in R /\ (c = d \/ c \in S) => f \in S

LEMMA LinkedLoop ==
  ASSUME NEW D, NEW E \in SUBSET (Nodes(D) \X Nodes(D)), NEW E2 \in SUBSET (Nodes(D) \X Nodes(D)),
         NEW K \in SUBSET (Nat \ {0}), NEW n \in Nat \ K,
         Enclosed(E, D, K), Stops(E2, D), Linked(E, E2, D, K, n),
         NEW p \in K, Turns(E2, D, n, p), NEW R, LeadsThrough(E, D, p, R),
         NEW S \in SUBSET D, NEW d \in D, NEW e \in D, ClosedFrom(R, D, d, S),
         Leads(E2, D, <<p, d>>, <<0, e>>)
  PROVE  e \in S
<1> DEFINE T(a, b) == \/ a \in {0, n} /\ b \in S
                      \/ a \in K /\ \E c \in D : (c = d \/ c \in S) /\ Leads(E, D, <<p, c>>, <<a, b>>)
           V == {v \in Nodes(D) : T(v[1], v[2])}
<1>0. \A a \in Nat, b \in D : <<a, b>> \in V <=> T(a, b)
  BY DEF Nodes
<1>1. p \in Nat /\ 0 \notin K /\ n \notin K /\ n \in Nat /\ \A c \in D : <<p, c>> \in Nodes(D)
  BY DEF Nodes
<1>2. <<p, d>> \in V
  <2>1. Leads(E, D, <<p, d>>, <<p, d>>)
    BY <1>1, LeadsToItself
  <2>2. T(p, d)
    BY <2>1
  <2> HIDE DEF V, T
  <2> QED BY <1>0, <1>1, <2>2
<1>3. ASSUME NEW a \in Nat, NEW b \in D, NEW a2 \in Nat, NEW b2 \in D,
             <<<<a, b>>, <<a2, b2>>>> \in E2, <<a, b>> \in V
      PROVE  <<a2, b2>> \in V
  <2>1. T(a, b)
    BY <1>0, <1>3
  <2>2. a # 0
    <3>1. <<a2, b2>> \in Nodes(D)
      BY DEF Nodes
    <3> HIDE DEF V, T
    <3> QED BY <1>3, <3>1 DEF Stops
  <2>3. CASE a = n
    <3>1. b \in S
      BY <1>1, <2>1, <2>2, <2>3
    <3>2. <<a2, b2>> = <<0, b>> \/ <<a2, b2>> = <<p, b>>
      <4> HIDE DEF V, T
      <4> QED BY <1>3, <2>3 DEF Turns
    <3>3. Leads(E, D, <<p, b>>, <<p, b>>)
      BY <1>1, LeadsToItself
    <3>4. T(a2, b2)
      BY <1>1, <3>1, <3>2, <3>3
    <3> HIDE DEF V, T
    <3> QED BY <1>0, <3>4
  <2>4. CASE a \in K
    <3>1. PICK c \in D : (c = d \/ c \in S) /\ Leads(E, D, <<p, c>>, <<a, b>>)
      BY <1>1, <2>1, <2>2, <2>4
    <3>2. \/ a2 \in K /\ <<<<a, b>>, <<a2, b2>>>> \in E
          \/ a2 = n /\ <<<<a, b>>, <<0, b2>>>> \in E
      <4> HIDE DEF V, T
      <4> QED BY <1>3, <2>4 DEF Linked
    <3>3. CASE a2 \in K /\ <<<<a, b>>, <<a2, b2>>>> \in E
      <4>1. Leads(E, D, <<p, c>>, <<a2, b2>>)
        BY <3>1, <3>3, LeadsOn
      <4>2. T(a2, b2)
        BY <3>1, <3>3, <4>1
      <4> HIDE DEF V, T
      <4> QED BY <1>0, <4>2
    <3>4. CASE a2 = n /\ <<<<a, b>>, <<0, b2>>>> \in E
      <4>1. Leads(E, D, <<p, c>>, <<0, b2>>)
        BY <3>1, <3>4, LeadsOn
      <4>2. b2 \in S
        <5> HIDE DEF V, T
        <5> QED BY <3>1, <4>1 DEF LeadsThrough, ClosedFrom
      <4>3. T(a2, b2)
        BY <3>4, <4>2
      <4> HIDE DEF V, T
      <4> QED BY <1>0, <4>3
    <3> QED BY <3>2, <3>3, <3>4
  <2> QED BY <2>1, <2>2, <2>3, <2>4
<1>4. V \in SUBSET Nodes(D)
  OBVIOUS
<1> HIDE DEF V
<1>5. <<0, e>> \in V
  BY <1>2, <1>3, <1>4, LeadsIn
<1>6. T(0, e)
  BY <1>0, <1>5
<1> QED BY <1>1, <1>6

LEMMA LinkedExit ==
  ASSUME NEW D, NEW E \in SUBSET (Nodes(D) \X Nodes(D)), NEW E2 \in SUBSET (Nodes(D) \X Nodes(D)),
         NEW K \in SUBSET (Nat \ {0}), NEW n \in Nat \ K,
         Enclosed(E, D, K), Stops(E, D), Linked(E, E2, D, K, n),
         NEW p \in K, NEW d \in D, NEW e \in D,
         Leads(E2, D, <<p, d>>, <<0, e>>)
  PROVE  \E f \in D : Leads(E, D, <<p, d>>, <<0, f>>) /\ Leads(E2, D, <<n, f>>, <<0, e>>)
<1>1. 0 \in Nat /\ 0 \notin K
  OBVIOUS
<1> QED BY <1>1, LinkedOut

LEMMA LinkedEntry ==
  ASSUME NEW D, NEW E \in SUBSET (Nodes(D) \X Nodes(D)), NEW E2 \in SUBSET (Nodes(D) \X Nodes(D)),
         NEW K \in SUBSET (Nat \ {0}), NEW n \in Nat \ K,
         Enclosed(E, D, K), Stops(E, D), Linked(E, E2, D, K, n),
         NEW p \in K, NEW d \in D, NEW f \in D,
         Leads(E, D, <<p, d>>, <<0, f>>)
  PROVE  Leads(E2, D, <<p, d>>, <<n, f>>)
<1>1. 0 \in Nat /\ 0 \notin K
  OBVIOUS
<1> QED BY <1>1, LinkedInto

(* What an instruction does not change is how its successor is chosen.      *)
LEMMA MovesAlike ==
  ASSUME NEW a, NEW b, a.type = b.type, a.spans = b.spans, NEW t, NEW i, NEW j
  PROVE  Moves(a, t, i, j) <=> Moves(b, t, i, j)
BY DEF Moves, Consumes

Grows(prog, prog2, K, n) ==
    \A p \in K : prog2[p] = IF prog[p].next = 0 THEN [prog[p] EXCEPT !.next = n] ELSE prog[p]

LEMMA GrownInstruction ==
  ASSUME NEW prog \in Seq(Instructions), NEW prog2, NEW K \in SUBSET (DOMAIN prog),
         NEW n \in Nat, Grows(prog, prog2, K, n), NEW p \in K
  PROVE  /\ prog2[p].type = prog[p].type /\ prog2[p].spans = prog[p].spans
         /\ prog2[p].right = prog[p].right /\ prog2[p].subid = prog[p].subid
         /\ prog2[p].next = IF prog[p].next = 0 THEN n ELSE prog[p].next
<1>1. prog[p] \in Instructions
  OBVIOUS
<1> QED BY <1>1 DEF Grows, Instructions

LEMMA LinkedEdges ==
  ASSUME NEW prog \in Seq(Instructions), NEW prog2 \in Seq(Instructions), NEW t \in Seq(Nat),
         NEW K \in SUBSET (DOMAIN prog), K \subseteq DOMAIN prog2, NEW n \in Nat,
         Grows(prog, prog2, K, n),
         \A p \in K : /\ prog[p].next \in K \cup {0}
                      /\ prog[p].type = "or" => prog[p].right \in K
  PROVE  /\ Linked(Edges(prog, t), Edges(prog2, t), Places(t), K, n)
         /\ Enclosed(Edges(prog, t), Places(t), K)
<1>0. K \subseteq Nat /\ 0 \notin K
  OBVIOUS
<1>1. ASSUME NEW p \in K, NEW d \in Places(t), NEW q \in Nat, NEW e \in Places(t),
             <<<<p, d>>, <<q, e>>>> \in Edges(prog, t)
      PROVE  q \in K \cup {0}
  <2>1. Edge(prog, t, p, d, q, e)
    BY <1>0, <1>1, EdgesAre
  <2> QED BY <2>1 DEF Edge
<1>2. ASSUME NEW p \in K, NEW d \in Places(t), NEW q \in Nat, NEW e \in Places(t)
      PROVE  <<<<p, d>>, <<q, e>>>> \in Edges(prog2, t) <=>
                \/ q \in K /\ <<<<p, d>>, <<q, e>>>> \in Edges(prog, t)
                \/ q = n /\ <<<<p, d>>, <<0, e>>>> \in Edges(prog, t)
  <2>1. /\ prog2[p].type = prog[p].type /\ prog2[p].spans = prog[p].spans
        /\ prog2[p].right = prog[p].right
        /\ prog2[p].next = IF prog[p].next = 0 THEN n ELSE prog[p].next
    BY GrownInstruction
  <2>2. Moves(prog2[p], t, d, e) <=> Moves(prog[p], t, d, e)
    BY <2>1, MovesAlike
  <2>3. p \in DOMAIN prog /\ p \in DOMAIN prog2 /\ p \in Nat
    BY <1>0
  <2>4. Edge(prog2, t, p, d, q, e) <=>
          (q \in K /\ Edge(prog, t, p, d, q, e)) \/ (q = n /\ Edge(prog, t, p, d, 0, e))
    BY <1>0, <2>1, <2>2, <2>3 DEF Edge
  <2> QED BY <2>3, <2>4, EdgesAre
<1> QED BY <1>1, <1>2 DEF Linked, Enclosed

LEMMA NoInstructionZero ==
  ASSUME NEW prog \in Seq(Instructions), NEW t
  PROVE  Stops(Edges(prog, t), Places(t))
<1> SUFFICES ASSUME NEW d \in Places(t), NEW y \in Nodes(Places(t)), <<<<0, d>>, y>> \in Edges(prog, t)
             PROVE FALSE
  BY DEF Stops
<1>1. PICK q \in Nat, e \in Places(t) : y = <<q, e>>
  BY DEF Nodes
<1>2. Edge(prog, t, 0, d, q, e)
  BY <1>1, EdgesAre
<1> QED BY <1>2 DEF Edge

(* Instructions that consume nothing lead on at the same place.             *)
Silent == {"(", ")", "or", "nop"}
LEMMA SilentEdges ==
  ASSUME NEW prog \in Seq(Instructions), NEW t, NEW p \in DOMAIN prog, prog[p].type \in Silent,
         NEW a \in Places(t), NEW z
  PROVE  <<<<p, a>>, z>> \in Edges(prog, t) <=>
            \/ z = <<prog[p].next, a>>
            \/ prog[p].type = "or" /\ z = <<prog[p].right, a>>
<1>1. prog[p].next \in Nat /\ prog[p].right \in Nat /\ p \in Nat
  <2>1. prog[p] \in Instructions
    OBVIOUS
  <2> QED BY <2>1 DEF Instructions
<1>2. \A q \in Nat, j \in Places(t) :
         Edge(prog, t, p, a, q, j) <=>
            j = a /\ (q = prog[p].next \/ (prog[p].type = "or" /\ q = prog[p].right))
  BY DEF Edge, Moves, Silent
<1>3. \A q \in Nat, j \in Places(t) :
         <<<<p, a>>, <<q, j>>>> \in Edges(prog, t) <=> Edge(prog, t, p, a, q, j)
  BY <1>1, EdgesAre
<1>4. ASSUME <<<<p, a>>, z>> \in Edges(prog, t) PROVE \E q \in Nat, j \in Places(t) : z = <<q, j>>
  BY <1>4 DEF Edges, Nodes
<1> QED BY <1>1, <1>2, <1>3, <1>4

LEMMA Onward ==
  ASSUME NEW prog \in Seq(Instructions), NEW t, NEW p \in DOMAIN prog,
         prog[p].type \in Silent \ {"or"}, NEW a \in Places(t), NEW y, y # <<p, a>>
  PROVE  Leads(Edges(prog, t), Places(t), <<p, a>>, y) <=>
         Leads(Edges(prog, t), Places(t), <<prog[p].next, a>>, y)
<1> DEFINE E == Edges(prog, t)
           D == Places(t)
           z == <<prog[p].next, a>>
<1>0. E \in SUBSET (Nodes(D) \X Nodes(D)) /\ p \in Nat /\ <<p, a>> \in Nodes(D)
  BY EdgesAreEdges DEF Nodes
<1>1. \A v : <<<<p, a>>, v>> \in E <=> v = z
  BY SilentEdges
<1> HIDE DEF E, D, z
<1>2. Leads(E, D, <<p, a>>, z)
  BY <1>0, <1>1, LeadsToItself, LeadsOn
<1>3. ASSUME Leads(E, D, <<p, a>>, y) PROVE Leads(E, D, z, y)
  <2>1. \E u : <<<<p, a>>, u>> \in E /\ Leads(E, D, u, y)
    BY <1>0, <1>3, LeadsFirst
  <2> QED BY <1>1, <2>1
<1>4. Leads(E, D, z, y) => Leads(E, D, <<p, a>>, y)
  BY <1>2, LeadsFurther
<1> QED BY <1>3, <1>4 DEF E, D, z

LEMMA OnwardByChoice ==
  ASSUME NEW prog \in Seq(Instructions), NEW t, NEW p \in DOMAIN prog,
         prog[p].type = "or", NEW a \in Places(t), NEW y, y # <<p, a>>
  PROVE  Leads(Edges(prog, t), Places(t), <<p, a>>, y) <=>
         \/ Leads(Edges(prog, t), Places(t), <<prog[p].next, a>>, y)
         \/ Leads(Edges(prog, t), Places(t), <<prog[p].right, a>>, y)
<1> DEFINE E == Edges(prog, t)
           D == Places(t)
           z == <<prog[p].next, a>>
           v == <<prog[p].right, a>>
<1>0. E \in SUBSET (Nodes(D) \X Nodes(D)) /\ p \in Nat /\ <<p, a>> \in Nodes(D)
  BY EdgesAreEdges DEF Nodes
<1>1. \A u : <<<<p, a>>, u>> \in E <=> u = z \/ u = v
  BY SilentEdges DEF Silent
<1> HIDE DEF E, D, z, v
<1>2. Leads(E, D, <<p, a>>, z) /\ Leads(E, D, <<p, a>>, v)
  BY <1>0, <1>1, LeadsToItself, LeadsOn
<1>3. ASSUME Leads(E, D, <<p, a>>, y) PROVE Leads(E, D, z, y) \/ Leads(E, D, v, y)
  <2>1. \E u : <<<<p, a>>, u>> \in E /\ Leads(E, D, u, y)
    BY <1>0, <1>3, LeadsFirst
  <2> QED BY <1>1, <2>1
<1>4. Leads(E, D, z, y) \/ Leads(E, D, v, y) => Leads(E, D, <<p, a>>, y)
  BY <1>2, LeadsFurther
<1> QED BY <1>3, <1>4 DEF E, D, z, v

-----------------------------------------------------------------------------
(* Fragments                                                               *)
(* The instructions from lo to hi that an operand was compiled to: they     *)
(* lead to each other, and its last one is yet to be linked.  A choice      *)
(* begins with an instruction that does something, and a NOP leads on to a  *)
(* later one.                                                              *)

Good == {in \in Instructions :
           /\ in.type \in {"(", ")"} => in.subid \in 1 .. NSubexp - 1
           /\ in.type = "rune" => \E x \in Nat : in.spans = <<<<x, x>>>>}

Inner(prog, lo, hi, last) ==
    \A p \in lo .. hi :
       /\ prog[p].next \in (lo .. hi) \cup {0} /\ (prog[p].next = 0 <=> p = last)
       /\ prog[p].type = "or" => prog[p].right \in lo .. hi /\ prog[prog[p].right].type # "nop"
       /\ prog[p].type = "nop" => prog[p].next = 0 \/ p < prog[p].next
       /\ prog[p].type # "end"

Fragment(prog, lo, hi, x) ==
    /\ x.first \in lo .. hi /\ x.last \in lo .. hi /\ prog[x.first].type # "nop"
    /\ Inner(prog, lo, hi, x.last)

(* The spans of a text that lead through a fragment.                        *)
Through(prog, t, x) ==
    {y \in Places(t) \X Places(t) :
       Leads(Edges(prog, t), Places(t), <<x.first, y[1]>>, <<0, y[2]>>)}

LEMMA FragmentSize ==
  ASSUME NEW prog, NEW lo \in Nat, NEW hi \in Nat, NEW x, Fragment(prog, lo, hi, x)
  PROVE  /\ lo <= hi /\ x.first \in lo .. hi /\ x.last \in lo .. hi
         /\ x.first \in Nat /\ x.last \in Nat
BY DEF Fragment

LEMMA ThroughIs ==
  ASSUME NEW prog, NEW t, NEW x, NEW a \in Places(t), NEW b \in Places(t)
  PROVE  <<a, b>> \in Through(prog, t, x) <=>
         Leads(Edges(prog, t), Places(t), <<x.first, a>>, <<0, b>>)
<1>1. <<a, b>> \in Places(t) \X Places(t) /\ <<a, b>>[1] = a /\ <<a, b>>[2] = b
  OBVIOUS
<1> QED BY <1>1 DEF Through

(* Two sets of spans are the same if they have the same spans.              *)
Alike(D, R, S) == \A a \in D, b \in D : <<a, b>> \in R <=> <<a, b>> \in S

LEMMA SpansAreEqual ==
  ASSUME NEW D, NEW R \in SUBSET (D \X D), NEW S \in SUBSET (D \X D), Alike(D, R, S)
  PROVE  R = S
BY DEF Alike

Same(prog, prog2, lo, hi) == \A p \in lo .. hi : prog2[p] = prog[p]

LEMMA Untouched ==
  ASSUME NEW prog \in Seq(Instructions), NEW prog2 \in Seq(Instructions), NEW t \in Seq(Nat),
         NEW lo \in Nat \ {0}, NEW hi \in Nat, hi <= Len(prog), hi <= Len(prog2), NEW x,
         Fragment(prog, lo, hi, x), Same(prog, prog2, lo, hi)
  PROVE  Fragment(prog2, lo, hi, x) /\ Through(prog2, t, x) = Through(prog, t, x)
<1> DEFINE K == lo .. hi
           E == Edges(prog, t)
           E2 == Edges(prog2, t)
           D == Places(t)
<1>0. /\ K \in SUBSET (DOMAIN prog) /\ K \subseteq DOMAIN prog2
      /\ K \in SUBSET (Nat \ {0}) /\ 0 \in Nat \ K /\ x.first \in K
  BY DEF Fragment
<1>1. Fragment(prog2, lo, hi, x)
  <2>1. \A p \in K : prog2[p] = prog[p]
    BY DEF Same
  <2>2. \A p \in K : prog[p].type = "or" => prog[p].right \in K
    BY DEF Fragment, Inner
  <2>3. \A p \in K : prog[p].type = "or" => prog2[prog2[p].right] = prog[prog[p].right]
    <3> HIDE DEF K
    <3> QED BY <2>1, <2>2
  <2> QED BY <1>0, <2>1, <2>3 DEF Fragment, Inner
<1>2. Grows(prog, prog2, K, 0)
  <2> SUFFICES ASSUME NEW p \in K, prog[p].next = 0 PROVE prog[p] = [prog[p] EXCEPT !.next = 0]
    BY DEF Grows, Same
  <2>1. prog[p] \in Instructions
    BY <1>0
  <2> QED BY <2>1 DEF Instructions
<1>3. \A p \in K : /\ prog[p].next \in K \cup {0}
                   /\ prog[p].type = "or" => prog[p].right \in K
  BY DEF Fragment, Inner
<1>4. Linked(E, E2, D, K, 0) /\ Enclosed(E, D, K)
  BY <1>0, <1>2, <1>3, LinkedEdges
<1>5. Stops(E, D) /\ Stops(E2, D) /\ E \in SUBSET (Nodes(D) \X Nodes(D))
      /\ E2 \in SUBSET (Nodes(D) \X Nodes(D))
  BY NoInstructionZero, EdgesAreEdges
<1> HIDE DEF K, E, E2, D
<1>6. ASSUME NEW a \in D, NEW b \in D
      PROVE  Leads(E2, D, <<x.first, a>>, <<0, b>>) <=> Leads(E, D, <<x.first, a>>, <<0, b>>)
  <2>1. ASSUME Leads(E2, D, <<x.first, a>>, <<0, b>>)
        PROVE  Leads(E, D, <<x.first, a>>, <<0, b>>)
    <3>1. \E f \in D : Leads(E, D, <<x.first, a>>, <<0, f>>) /\ Leads(E2, D, <<0, f>>, <<0, b>>)
      BY <1>0, <1>4, <1>5, <2>1, LinkedExit
    <3>2. PICK f \in D : Leads(E, D, <<x.first, a>>, <<0, f>>) /\ Leads(E2, D, <<0, f>>, <<0, b>>)
      BY <3>1
    <3>3. <<0, b>> = <<0, f>>
      BY <1>5, <3>2, LeadsStops
    <3> QED BY <3>2, <3>3
  <2>2. ASSUME Leads(E, D, <<x.first, a>>, <<0, b>>)
        PROVE  Leads(E2, D, <<x.first, a>>, <<0, b>>)
    BY <1>0, <1>4, <1>5, <2>2, LinkedEntry
  <2> QED BY <2>1, <2>2
<1>7. Through(prog2, t, x) = Through(prog, t, x)
  <2>1. \A a \in D, b \in D : <<a, b>> \in Through(prog2, t, x) <=> <<a, b>> \in Through(prog, t, x)
    BY <1>6, ThroughIs DEF D, E, E2
  <2>3. Alike(D, Through(prog2, t, x), Through(prog, t, x))
    BY <2>1 DEF Alike
  <2>2. Through(prog2, t, x) \in SUBSET (D \X D) /\ Through(prog, t, x) \in SUBSET (D \X D)
    BY DEF Through, D
  <2> QED BY <2>2, <2>3, SpansAreEqual
<1> QED BY <1>1, <1>7

(* A fragment whose last instruction is linked to n.                        *)
LeadsBy(prog, t, p, n, R) ==
    \A a, b \in Places(t) :
       /\ Leads(Edges(prog, t), Places(t), <<p, a>>, <<0, b>>) <=>
             \E f \in Places(t) : /\ <<a, f>> \in R
                                  /\ Leads(Edges(prog, t), Places(t), <<n, f>>, <<0, b>>)
       /\ <<a, b>> \in R => Leads(Edges(prog, t), Places(t), <<p, a>>, <<n, b>>)

(* If n leads back to the beginning or out, what is reached are the ends of *)
(* spans that follow on each other.                                        *)
LoopsBy(prog, t, p, n, R) ==
    Turns(Edges(prog, t), Places(t), n, p) =>
    \A S \in SUBSET Places(t), d \in Places(t), e \in Places(t) :
       /\ ClosedFrom(R, Places(t), d, S)
       /\ Leads(Edges(prog, t), Places(t), <<p, d>>, <<0, e>>)
       => e \in S

LeadsOut(prog, t, lo, hi, x, n, R) ==
    /\ x.first \in lo .. hi /\ prog[x.first].type # "nop"
    /\ \A p \in lo .. hi :
         /\ prog[p].next \in (lo .. hi) \cup {n} /\ (prog[p].next = n <=> p = x.last)
         /\ prog[p].type = "or" => prog[p].right \in lo .. hi /\ prog[prog[p].right].type # "nop"
         /\ prog[p].type = "nop" => p < prog[p].next
         /\ prog[p].type # "end"
    /\ LeadsBy(prog, t, x.first, n, R)
    /\ LoopsBy(prog, t, x.first, n, R)

LEMMA LinkedFragment ==
  ASSUME NEW prog \in Seq(Instructions), NEW prog2 \in Seq(Instructions), NEW t \in Seq(Nat),
         NEW lo \in Nat \ {0}, NEW hi \in Nat, hi <= Len(prog), hi <= Len(prog2), NEW x,
         Fragment(prog, lo, hi, x), NEW n \in Nat, n > hi, Grows(prog, prog2, lo .. hi, n)
  PROVE  LeadsOut(prog2, t, lo, hi, x, n, Through(prog, t, x))
<1> DEFINE K == lo .. hi
           E == Edges(prog, t)
           E2 == Edges(prog2, t)
           D == Places(t)
<1>0. /\ K \in SUBSET (DOMAIN prog) /\ K \subseteq DOMAIN prog2
      /\ K \in SUBSET (Nat \ {0}) /\ n \in Nat \ K /\ x.first \in K /\ 0 \notin K
  BY DEF Fragment
<1>1. \A p \in K : /\ prog2[p].type = prog[p].type /\ prog2[p].right = prog[p].right
                   /\ prog2[p].next = IF prog[p].next = 0 THEN n ELSE prog[p].next
  <2> TAKE p \in K
  <2>1. Grows(prog, prog2, K, n)
    OBVIOUS
  <2> HIDE DEF K
  <2> QED BY <1>0, <2>1, GrownInstruction
<1>2. /\ x.first \in lo .. hi /\ prog2[x.first].type # "nop"
      /\ \A p \in lo .. hi :
           /\ prog2[p].next \in (lo .. hi) \cup {n} /\ (prog2[p].next = n <=> p = x.last)
           /\ prog2[p].type = "or" => /\ prog2[p].right \in lo .. hi
                                      /\ prog2[prog2[p].right].type # "nop"
           /\ prog2[p].type = "nop" => p < prog2[p].next
           /\ prog2[p].type # "end"
  <2>1. x.first \in lo .. hi /\ prog2[x.first].type # "nop"
    BY <1>1 DEF Fragment
  <2>2. ASSUME NEW p \in K
        PROVE  /\ prog2[p].next \in (lo .. hi) \cup {n} /\ (prog2[p].next = n <=> p = x.last)
               /\ prog2[p].type = "or" => /\ prog2[p].right \in lo .. hi
                                          /\ prog2[prog2[p].right].type # "nop"
               /\ prog2[p].type = "nop" => p < prog2[p].next
               /\ prog2[p].type # "end"
    <3>1. /\ prog[p].next \in K \cup {0} /\ (prog[p].next = 0 <=> p = x.last)
          /\ prog[p].type = "or" => prog[p].right \in K /\ prog[prog[p].right].type # "nop"
          /\ prog[p].type = "nop" => prog[p].next = 0 \/ p < prog[p].next
          /\ prog[p].type # "end"
      BY DEF Fragment, Inner
    <3>2. prog2[p].type = prog[p].type /\ prog2[p].right = prog[p].right
          /\ prog2[p].next = IF prog[p].next = 0 THEN n ELSE prog[p].next
      BY <1>1
    <3>3. prog2[p].next \in K \cup {n} /\ (prog2[p].next = n <=> p = x.last)
      BY <1>0, <3>1, <3>2
    <3>4. prog2[p].type = "or" => prog2[p].right \in K /\ prog2[prog2[p].right].type # "nop"
      <4> HIDE DEF K
      <4> QED BY <1>1, <3>1, <3>2
    <3>5. prog2[p].type = "nop" => p < prog2[p].next
      BY <3>1, <3>2
    <3> QED BY <3>1, <3>2, <3>3, <3>4, <3>5
  <2> QED BY <2>1, <2>2
<1>3. \A p \in K : /\ prog[p].next \in K \cup {0}
                   /\ prog[p].type = "or" => prog[p].right \in K
  BY DEF Fragment, Inner
<1>4. Linked(E, E2, D, K, n) /\ Enclosed(E, D, K)
  BY <1>0, <1>3, LinkedEdges
<1>5. Stops(E, D) /\ E \in SUBSET (Nodes(D) \X Nodes(D)) /\ E2 \in SUBSET (Nodes(D) \X Nodes(D))
  BY NoInstructionZero, EdgesAreEdges
<1>6. \A a, b \in D : <<a, b>> \in Through(prog, t, x) <=> Leads(E, D, <<x.first, a>>, <<0, b>>)
  BY ThroughIs
<1> HIDE DEF K, E, E2, D
<1>7. ASSUME NEW a \in D, NEW b \in D, <<a, b>> \in Through(prog, t, x)
      PROVE  Leads(E2, D, <<x.first, a>>, <<n, b>>)
  <2>1. Leads(E, D, <<x.first, a>>, <<0, b>>)
    BY <1>6, <1>7
  <2> QED BY <1>0, <1>4, <1>5, <2>1, LinkedEntry
<1>8. ASSUME NEW a \in D, NEW b \in D
      PROVE  Leads(E2, D, <<x.first, a>>, <<0, b>>) <=>
                \E f \in D : <<a, f>> \in Through(prog, t, x) /\ Leads(E2, D, <<n, f>>, <<0, b>>)
  <2>1. ASSUME Leads(E2, D, <<x.first, a>>, <<0, b>>)
        PROVE  \E f \in D : <<a, f>> \in Through(prog, t, x) /\ Leads(E2, D, <<n, f>>, <<0, b>>)
    <3>1. \E f \in D : Leads(E, D, <<x.first, a>>, <<0, f>>) /\ Leads(E2, D, <<n, f>>, <<0, b>>)
      BY <1>0, <1>4, <1>5, <2>1, LinkedExit
    <3> QED BY <1>6, <3>1
  <2>2. ASSUME NEW f \in D, <<a, f>> \in Through(prog, t, x), Leads(E2, D, <<n, f>>, <<0, b>>)
        PROVE  Leads(E2, D, <<x.first, a>>, <<0, b>>)
    <3>1. Leads(E2, D, <<x.first, a>>, <<n, f>>)
      BY <1>7, <2>2
    <3> QED BY <2>2, <3>1, LeadsFurther
  <2> QED BY <2>1, <2>2
<1>9. ASSUME Turns(E2, D, n, x.first), NEW S \in SUBSET D, NEW d \in D, NEW e \in D,
             ClosedFrom(Through(prog, t, x), D, d, S), Leads(E2, D, <<x.first, d>>, <<0, e>>)
      PROVE  e \in S
  <2>1. LeadsThrough(E, D, x.first, Through(prog, t, x))
    BY <1>6 DEF LeadsThrough
  <2>2. Stops(E2, D)
    BY NoInstructionZero DEF E2, D
  <2> DEFINE p == x.first
             R == Through(prog, t, x)
  <2>3. /\ E \in SUBSET (Nodes(D) \X Nodes(D)) /\ E2 \in SUBSET (Nodes(D) \X Nodes(D))
        /\ K \in SUBSET (Nat \ {0}) /\ n \in Nat \ K /\ p \in K
        /\ Enclosed(E, D, K) /\ Linked(E, E2, D, K, n) /\ Turns(E2, D, n, p)
        /\ LeadsThrough(E, D, p, R) /\ ClosedFrom(R, D, d, S) /\ Leads(E2, D, <<p, d>>, <<0, e>>)
    BY <1>0, <1>4, <1>5, <1>9, <2>1
  <2> HIDE DEF p, R
  <2> QED BY <2>2, <2>3, LinkedLoop
<1>10. LoopsBy(prog2, t, x.first, n, Through(prog, t, x))
  BY <1>9 DEF LoopsBy, D, E2
<1> QED BY <1>2, <1>7, <1>8, <1>10 DEF D, E2, LeadsOut, LeadsBy

-----------------------------------------------------------------------------
(* Operators                                                               *)

(* From lo on the program has become a fragment that stands for R.          *)
Becomes(prog, new, t, lo, x, R) ==
    /\ new \in Seq(Good) /\ lo <= Len(new)
    /\ \A p \in 1 .. lo - 1 : new[p] = prog[p]
    /\ x \in [first : Nat, last : Nat]
    /\ Fragment(new, lo, Len(new), x)
    /\ Through(new, t, x) = R

LEMMA GoodIsInstruction ==
  /\ Good \subseteq Instructions /\ Seq(Good) \subseteq Seq(Instructions)
BY DEF Good

LEMMA GoodLinked ==
  ASSUME NEW in \in Good, NEW n \in Nat
  PROVE  [in EXCEPT !.next = n] \in Good
<1>1. [in EXCEPT !.next = n] \in Instructions
  BY DEF Good, Instructions
<1>2. /\ [in EXCEPT !.next = n].type = in.type /\ [in EXCEPT !.next = n].subid = in.subid
      /\ [in EXCEPT !.next = n].spans = in.spans
  BY DEF Good, Instructions
<1> QED BY <1>1, <1>2 DEF Good

LEMMA GoodMade ==
  ASSUME NEW l \in Nat, NEW r \in Nat
  PROVE  /\ Or(r, l) \in Good /\ newinst("nop") \in Good
         /\ \A type \in {"(", ")"}, subid \in 1 .. NSubexp - 1 : Bracket(type, subid, l) \in Good
<1>1. <<>> \in Seq(Int \X Int)
  OBVIOUS
<1> QED BY <1>1 DEF Or, newinst, Bracket, Inst, Good, Instructions, Types

LEMMA SpansThrough ==
  ASSUME NEW prog, NEW t, NEW first, NEW last, NEW a \in Places(t), NEW b \in Places(t)
  PROVE  <<a, b>> \in Through(prog, t, [first |-> first, last |-> last]) <=>
         Leads(Edges(prog, t), Places(t), <<first, a>>, <<0, b>>)
<1> DEFINE x == [first |-> first, last |-> last]
<1>1. x.first = first
  OBVIOUS
<1> HIDE DEF x
<1>2. <<a, b>> \in Through(prog, t, x) <=> Leads(Edges(prog, t), Places(t), <<first, a>>, <<0, b>>)
  BY <1>1, ThroughIs
<1> QED BY <1>2 DEF x

LEMMA ZeroLeads ==
  ASSUME NEW prog \in Seq(Instructions), NEW t, NEW a \in Places(t), NEW b \in Places(t)
  PROVE  Leads(Edges(prog, t), Places(t), <<0, a>>, <<0, b>>) <=> a = b
<1>1. <<0, a>> \in Nodes(Places(t))
  BY DEF Nodes
<1>2. ASSUME Leads(Edges(prog, t), Places(t), <<0, a>>, <<0, b>>) PROVE a = b
  <2>1. <<0, b>> = <<0, a>>
    BY <1>2, LeadsStops, NoInstructionZero, EdgesAreEdges
  <2> QED BY <2>1
<1> QED BY <1>1, <1>2, LeadsToItself

LEMMA LeadsOutAtOnce ==
  ASSUME NEW prog \in Seq(Instructions), NEW t, NEW a \in Places(t), NEW b \in Places(t),
         NEW p \in DOMAIN prog, prog[p].type \in Silent \ {"or"}, prog[p].next = 0
  PROVE  Leads(Edges(prog, t), Places(t), <<p, a>>, <<0, b>>) <=> a = b
<1>1. <<0, b>> # <<p, a>>
  OBVIOUS
<1>2. Leads(Edges(prog, t), Places(t), <<p, a>>, <<0, b>>) <=>
      Leads(Edges(prog, t), Places(t), <<0, a>>, <<0, b>>)
  BY <1>1, Onward
<1> QED BY <1>2, ZeroLeads

(* A fragment at the end of a program is linked and a tail added.           *)
Tailed(prog, new, lo, n, tail) ==
    /\ new \in Seq(Good) /\ Len(new) = Len(prog) + Len(tail)
    /\ \A p \in 1 .. lo - 1 : new[p] = prog[p]
    /\ \A p \in 1 .. Len(tail) : new[Len(prog) + p] = tail[p]
    /\ Grows(prog, new, lo .. Len(prog), n)

LEMMA Joining ==
  ASSUME NEW S, NEW a \in Seq(S), NEW b \in Seq(S), NEW c, c = a \o b
  PROVE  /\ Len(c) = Len(a) + Len(b)
         /\ \A p \in 1 .. Len(a) + Len(b) : c[p] = IF p <= Len(a) THEN a[p] ELSE b[p - Len(a)]
         /\ c \in Seq(S)
OBVIOUS

LEMMA LinkedProgram ==
  ASSUME NEW prog \in Seq(Good), NEW lo \in Nat \ {0}, NEW x, Fragment(prog, lo, Len(prog), x),
         NEW n \in Nat, NEW tail \in Seq(Good), NEW new, new = Link(prog, x, n) \o tail
  PROVE  Tailed(prog, new, lo, n, tail)
<1> DEFINE N == Len(prog)
           mid == Link(prog, x, n)
           last == [prog[x.last] EXCEPT !.next = n]
<1>1. x.last \in 1 .. N /\ N \in Nat /\ x.last >= lo /\ prog[x.last].next = 0
  BY DEF Fragment, Inner
<1>2. last \in Good
  BY <1>1, GoodLinked
<1>3. mid = [prog EXCEPT ![x.last] = last]
  BY DEF Link
<1>4. new = mid \o tail
  OBVIOUS
<1> HIDE DEF mid, last
<1>5. mid \in Seq(Good) /\ Len(mid) = N
  BY <1>1, <1>2, <1>3
<1>6. \A p \in 1 .. N : mid[p] = IF p = x.last THEN last ELSE prog[p]
  BY <1>1, <1>3
<1>7. /\ new \in Seq(Good) /\ Len(new) = N + Len(tail)
      /\ \A p \in 1 .. N : new[p] = mid[p]
      /\ \A p \in 1 .. Len(tail) : new[N + p] = tail[p]
  <2>1. /\ Len(new) = Len(mid) + Len(tail)
        /\ \A p \in 1 .. Len(mid) + Len(tail) :
             new[p] = IF p <= Len(mid) THEN mid[p] ELSE tail[p - Len(mid)]
        /\ new \in Seq(Good)
    BY <1>4, <1>5, Joining
  <2>2. N \in Nat /\ Len(tail) \in Nat /\ Len(mid) = N
    BY <1>5
  <2>3. ASSUME NEW p \in 1 .. N PROVE new[p] = mid[p]
    BY <2>1, <2>2
  <2>4. ASSUME NEW p \in 1 .. Len(tail) PROVE new[N + p] = tail[p]
    <3>1. N + p \in 1 .. N + Len(tail) /\ ~ (N + p <= N) /\ (N + p) - N = p
      BY <2>2
    <3> QED BY <2>1, <2>2, <3>1
  <2> QED BY <2>1, <2>2, <2>3, <2>4
<1>8. Grows(prog, new, lo .. N, n)
  <2> SUFFICES ASSUME NEW p \in lo .. N
               PROVE new[p] = IF prog[p].next = 0 THEN [prog[p] EXCEPT !.next = n] ELSE prog[p]
    BY DEF Grows
  <2>1. prog[p].next = 0 <=> p = x.last
    BY DEF Fragment, Inner
  <2>2. p \in 1 .. N
    OBVIOUS
  <2> QED BY <1>6, <1>7, <2>1, <2>2 DEF last
<1>9. \A p \in 1 .. lo - 1 : new[p] = prog[p]
  <2> TAKE p \in 1 .. lo - 1
  <2>1. p \in 1 .. N /\ p # x.last
    BY <1>1
  <2> QED BY <1>6, <1>7, <2>1
<1> QED BY <1>7, <1>8, <1>9 DEF Tailed

(* The new program: the fragment leads to n, and the tail is in its place.  *)
LastOperand(prog, lo, x) ==
    prog \in Seq(Good) /\ lo \in Nat \ {0} /\ Fragment(prog, lo, Len(prog), x)
Follows(prog, new, x, n, tail) ==
    n \in Nat /\ n > Len(prog) /\ new = Link(prog, x, n) \o tail

LEMMA TailAdded ==
  ASSUME NEW prog, NEW t \in Seq(Nat), NEW lo, NEW x, LastOperand(prog, lo, x),
         NEW n, NEW tail \in Seq(Good), NEW new, Follows(prog, new, x, n, tail)
  PROVE  /\ new \in Seq(Good) /\ new \in Seq(Instructions)
         /\ Len(new) = Len(prog) + Len(tail) /\ lo <= Len(prog)
         /\ \A p \in 1 .. lo - 1 : new[p] = prog[p]
         /\ \A p \in 1 .. Len(tail) : new[Len(prog) + p] = tail[p]
         /\ LeadsOut(new, t, lo, Len(prog), x, n, Through(prog, t, x))
<1> prog \in Seq(Good) /\ lo \in Nat \ {0} /\ Fragment(prog, lo, Len(prog), x)
  BY DEF LastOperand
<1> n \in Nat /\ n > Len(prog) /\ new = Link(prog, x, n) \o tail
  BY DEF Follows
<1>1. /\ new \in Seq(Good) /\ Len(new) = Len(prog) + Len(tail)
      /\ \A p \in 1 .. lo - 1 : new[p] = prog[p]
      /\ \A p \in 1 .. Len(tail) : new[Len(prog) + p] = tail[p]
      /\ Grows(prog, new, lo .. Len(prog), n)
  <2>1. Tailed(prog, new, lo, n, tail)
    BY LinkedProgram
  <2> QED BY <2>1 DEF Tailed
<1>2. prog \in Seq(Instructions) /\ new \in Seq(Instructions)
  BY <1>1, GoodIsInstruction
<1>3. Len(prog) <= Len(new) /\ lo <= Len(prog) /\ Len(prog) \in Nat
  BY <1>1 DEF Fragment
<1>4. LeadsOut(new, t, lo, Len(prog), x, n, Through(prog, t, x))
  <2> DEFINE N == Len(prog)
  <2>1. N \in Nat /\ N <= Len(prog) /\ N <= Len(new) /\ n > N
        /\ Fragment(prog, lo, N, x) /\ Grows(prog, new, lo .. N, n)
    BY <1>1, <1>3
  <2> HIDE DEF N
  <2>2. LeadsOut(new, t, lo, N, x, n, Through(prog, t, x))
    BY <1>2, <2>1, LinkedFragment
  <2> QED BY <2>2 DEF N
<1> QED BY <1>1, <1>2, <1>3, <1>4

LEMMA TailedFragment ==
  ASSUME NEW new, NEW t, NEW lo \in Nat \ {0}, NEW N \in Nat, NEW hi \in Nat, lo <= N, N < hi,
         NEW x, NEW n \in N + 1 .. hi, NEW R, LeadsOut(new, t, lo, N, x, n, R),
         NEW first \in lo .. hi, new[first].type # "nop", NEW last \in N + 1 .. hi,
         \A p \in N + 1 .. hi :
            /\ new[p].next \in (lo .. hi) \cup {0} /\ (new[p].next = 0 <=> p = last)
            /\ new[p].type = "or" => new[p].right \in lo .. hi /\ new[new[p].right].type # "nop"
            /\ new[p].type = "nop" => new[p].next = 0 \/ p < new[p].next
            /\ new[p].type # "end"
  PROVE  Fragment(new, lo, hi, [first |-> first, last |-> last])
<1>1. Inner(new, lo, hi, last)
  <2> SUFFICES ASSUME NEW p \in lo .. hi
               PROVE /\ new[p].next \in (lo .. hi) \cup {0} /\ (new[p].next = 0 <=> p = last)
                     /\ new[p].type = "or" => /\ new[p].right \in lo .. hi
                                              /\ new[new[p].right].type # "nop"
                     /\ new[p].type = "nop" => new[p].next = 0 \/ p < new[p].next
                     /\ new[p].type # "end"
    BY DEF Inner
  <2>1. CASE p \in N + 1 .. hi
    BY <2>1
  <2>2. CASE p \in lo .. N
    <3>1. /\ new[p].next \in (lo .. N) \cup {n}
          /\ new[p].type = "or" => new[p].right \in lo .. N /\ new[new[p].right].type # "nop"
          /\ new[p].type = "nop" => p < new[p].next
          /\ new[p].type # "end"
      BY <2>2 DEF LeadsOut
    <3>2. new[p].next # 0 /\ new[p].next \in lo .. hi /\ p # last
      BY <2>2, <3>1
    <3>3. new[p].type = "or" => new[p].right \in lo .. hi
      BY <3>1
    <3> QED BY <3>1, <3>2, <3>3
  <2>3. p \in N + 1 .. hi \/ p \in lo .. N
    OBVIOUS
  <2> QED BY <2>1, <2>2, <2>3
<1> DEFINE y == [first |-> first, last |-> last]
<1>2. y.first = first /\ y.last = last /\ last \in lo .. hi
  OBVIOUS
<1> HIDE DEF y
<1>3. Fragment(new, lo, hi, y)
  BY <1>1, <1>2 DEF Fragment
<1> QED BY <1>3 DEF y

(* Two instructions at the end. *)
LEMMA TwoAdded ==
  ASSUME NEW prog, NEW t \in Seq(Nat), NEW lo, NEW x, LastOperand(prog, lo, x), NEW n,
         NEW a \in Good, NEW b \in Good, NEW new, Follows(prog, new, x, n, <<a, b>>)
  PROVE  /\ new \in Seq(Good) /\ new \in Seq(Instructions)
         /\ Len(new) = Len(prog) + 2 /\ lo <= Len(prog)
         /\ \A p \in 1 .. lo - 1 : new[p] = prog[p]
         /\ new[Len(prog) + 1] = a /\ new[Len(prog) + 2] = b
         /\ LeadsOut(new, t, lo, Len(prog), x, n, Through(prog, t, x))
<1> DEFINE tail == <<a, b>>
<1>1. tail \in Seq(Good) /\ Len(tail) = 2 /\ tail[1] = a /\ tail[2] = b
  OBVIOUS
<1>2. Follows(prog, new, x, n, tail)
  OBVIOUS
<1> HIDE DEF tail
<1>3. /\ new \in Seq(Good) /\ new \in Seq(Instructions)
      /\ Len(new) = Len(prog) + Len(tail) /\ lo <= Len(prog)
      /\ \A p \in 1 .. lo - 1 : new[p] = prog[p]
      /\ \A p \in 1 .. Len(tail) : new[Len(prog) + p] = tail[p]
      /\ LeadsOut(new, t, lo, Len(prog), x, n, Through(prog, t, x))
  BY <1>1, <1>2, TailAdded
<1>4. 1 \in 1 .. Len(tail) /\ 2 \in 1 .. Len(tail)
  BY <1>1
<1> QED BY <1>1, <1>3, <1>4

LEMMA OneAdded ==
  ASSUME NEW prog, NEW t \in Seq(Nat), NEW lo, NEW x, LastOperand(prog, lo, x), NEW n,
         NEW a \in Good, NEW new, Follows(prog, new, x, n, <<a>>)
  PROVE  /\ new \in Seq(Good) /\ new \in Seq(Instructions)
         /\ Len(new) = Len(prog) + 1 /\ lo <= Len(prog)
         /\ \A p \in 1 .. lo - 1 : new[p] = prog[p]
         /\ new[Len(prog) + 1] = a
         /\ LeadsOut(new, t, lo, Len(prog), x, n, Through(prog, t, x))
<1> DEFINE tail == <<a>>
<1>1. tail \in Seq(Good) /\ Len(tail) = 1 /\ tail[1] = a
  OBVIOUS
<1>2. Follows(prog, new, x, n, tail)
  OBVIOUS
<1> HIDE DEF tail
<1>3. /\ new \in Seq(Good) /\ new \in Seq(Instructions)
      /\ Len(new) = Len(prog) + Len(tail) /\ lo <= Len(prog)
      /\ \A p \in 1 .. lo - 1 : new[p] = prog[p]
      /\ \A p \in 1 .. Len(tail) : new[Len(prog) + p] = tail[p]
      /\ LeadsOut(new, t, lo, Len(prog), x, n, Through(prog, t, x))
  BY <1>1, <1>2, TailAdded
<1>4. 1 \in 1 .. Len(tail)
  BY <1>1
<1> QED BY <1>1, <1>3, <1>4

(* A group. *)
GroupLaid(new, lo, N, i, j, x, z) ==
    /\ new \in Seq(Instructions) /\ lo \in Nat \ {0} /\ N \in Nat /\ lo <= N
    /\ i \in Nat /\ j \in Nat /\ i = N + 1 /\ j = i + 1 /\ Len(new) = j
    /\ z = [first |-> j, last |-> i]
    /\ new[i].type = ")" /\ new[i].next = 0 /\ new[j].type = "(" /\ new[j].next = x.first

LEMMA GroupLeads ==
  ASSUME NEW new, NEW t, NEW lo, NEW N, NEW i, NEW j, NEW x, NEW z,
         GroupLaid(new, lo, N, i, j, x, z),
         NEW R \in SUBSET (Places(t) \X Places(t)), LeadsOut(new, t, lo, N, x, i, R)
  PROVE  /\ Fragment(new, lo, j, z)
         /\ Through(new, t, z) = R
<1> DEFINE D == Places(t)
           E == Edges(new, t)
           f == x.first
<1> /\ new \in Seq(Instructions) /\ lo \in Nat \ {0} /\ N \in Nat /\ lo <= N
    /\ i \in Nat /\ j \in Nat /\ i = N + 1 /\ j = i + 1 /\ Len(new) = j
    /\ z = [first |-> j, last |-> i]
    /\ new[i].type = ")" /\ new[i].next = 0 /\ new[j].type = "(" /\ new[j].next = x.first
  BY DEF GroupLaid
<1>1. LeadsBy(new, t, f, i, R) /\ new[f].type # "nop" /\ f \in lo .. N
  BY DEF LeadsOut
<1>2. i \in DOMAIN new /\ j \in DOMAIN new
  OBVIOUS
<1> HIDE DEF f
<1>3. Fragment(new, lo, j, z)
  <2>1. \A p \in N + 1 .. j : p = i \/ p = j
    OBVIOUS
  <2>2. i \in N + 1 .. j /\ j \in lo .. j /\ f \in lo .. j /\ j # i /\ N < j
        /\ f # 0
    BY <1>1
  <2>3. \A p \in N + 1 .. j :
            /\ new[p].next \in (lo .. j) \cup {0} /\ (new[p].next = 0 <=> p = i)
            /\ new[p].type # "or" /\ new[p].type # "nop" /\ new[p].type # "end"
    BY <2>1, <2>2 DEF f
  <2>4. new[j].type # "nop" /\ j \in Nat
    OBVIOUS
  <2> QED BY <2>2, <2>3, <2>4, TailedFragment
<1>4. ASSUME NEW a \in D, NEW b \in D
      PROVE  <<a, b>> \in Through(new, t, z) <=> <<a, b>> \in R
  <2>1. <<a, b>> \in Through(new, t, z) <=>
        Leads(E, D, <<j, a>>, <<0, b>>)
    BY SpansThrough
  <2>2. Leads(E, D, <<j, a>>, <<0, b>>) <=> Leads(E, D, <<f, a>>, <<0, b>>)
    <3>1. <<0, b>> # <<j, a>> /\ new[j].type \in Silent \ {"or"}
      BY DEF Silent
    <3> QED BY <1>2, <3>1, Onward DEF f
  <2>3. \A g \in D : Leads(E, D, <<i, g>>, <<0, b>>) <=> g = b
    <3>1. new[i].type \in Silent \ {"or"}
      BY DEF Silent
    <3> QED BY <1>2, <3>1, LeadsOutAtOnce
  <2>4. Leads(E, D, <<f, a>>, <<0, b>>) <=>
           \E g \in D : <<a, g>> \in R /\ Leads(E, D, <<i, g>>, <<0, b>>)
    BY <1>1 DEF LeadsBy
  <2> QED BY <2>1, <2>2, <2>3, <2>4
<1>5. Through(new, t, z) \in SUBSET (D \X D)
  BY DEF Through
<1>6. Through(new, t, z) = R
  <2>1. Alike(D, Through(new, t, z), R)
    BY <1>4 DEF Alike
  <2> HIDE DEF D
  <2> QED BY <1>5, <2>1, SpansAreEqual DEF D
<1> QED BY <1>3, <1>6

(* An operand that may be left out. *)
OptionLaid(new, lo, N, i, j, x, z) ==
    /\ new \in Seq(Instructions) /\ lo \in Nat \ {0} /\ N \in Nat /\ lo <= N
    /\ i \in Nat /\ j \in Nat /\ i = N + 1 /\ j = i + 1 /\ Len(new) = j
    /\ z = [first |-> i, last |-> j]
    /\ new[i].type = "or" /\ new[i].right = x.first /\ new[i].next = j
    /\ new[j].type = "nop" /\ new[j].next = 0

LEMMA OptionLeads ==
  ASSUME NEW new, NEW t, NEW lo, NEW N, NEW i, NEW j, NEW x, NEW z,
         OptionLaid(new, lo, N, i, j, x, z),
         NEW R \in SUBSET (Places(t) \X Places(t)), LeadsOut(new, t, lo, N, x, j, R)
  PROVE  /\ Fragment(new, lo, j, z)
         /\ Through(new, t, z) = Repeated("?", R, t)
<1> DEFINE D == Places(t)
           E == Edges(new, t)
           f == x.first
<1> /\ new \in Seq(Instructions) /\ lo \in Nat \ {0} /\ N \in Nat /\ lo <= N
    /\ i \in Nat /\ j \in Nat /\ i = N + 1 /\ j = i + 1 /\ Len(new) = j
    /\ z = [first |-> i, last |-> j]
    /\ new[i].type = "or" /\ new[i].right = x.first /\ new[i].next = j
    /\ new[j].type = "nop" /\ new[j].next = 0
  BY DEF OptionLaid
<1>1. LeadsBy(new, t, f, j, R) /\ new[f].type # "nop" /\ f \in lo .. N
  BY DEF LeadsOut
<1>2. i \in DOMAIN new /\ j \in DOMAIN new
  OBVIOUS
<1> HIDE DEF f
<1>3. Fragment(new, lo, j, z)
  <2>1. \A p \in N + 1 .. j : p = i \/ p = j
    OBVIOUS
  <2>2. /\ j \in N + 1 .. j /\ i \in lo .. j /\ j \in lo .. j
        /\ f \in lo .. j /\ j # i /\ j # 0 /\ N < j /\ i < j /\ f # 0
    BY <1>1
  <2>3. \A p \in N + 1 .. j :
            /\ new[p].next \in (lo .. j) \cup {0} /\ (new[p].next = 0 <=> p = j)
            /\ new[p].type = "or" => new[p].right \in lo .. j /\ new[new[p].right].type # "nop"
            /\ new[p].type = "nop" => new[p].next = 0
            /\ new[p].type # "end"
    <3> TAKE p \in N + 1 .. j
    <3>1. CASE p = i
      BY <1>1, <2>2, <3>1 DEF f
    <3>2. CASE p = j
      BY <2>2, <3>2
    <3> QED BY <2>1, <3>1, <3>2
  <2>4. new[i].type # "nop" /\ j \in Nat
    OBVIOUS
  <2> QED BY <2>2, <2>3, <2>4, TailedFragment
<1>4. ASSUME NEW a \in D, NEW b \in D
      PROVE  <<a, b>> \in Through(new, t, z) <=>
             <<a, b>> \in R \/ a = b
  <2>1. <<a, b>> \in Through(new, t, z) <=>
        Leads(E, D, <<i, a>>, <<0, b>>)
    BY SpansThrough
  <2>2. Leads(E, D, <<i, a>>, <<0, b>>) <=>
        Leads(E, D, <<j, a>>, <<0, b>>) \/ Leads(E, D, <<f, a>>, <<0, b>>)
    <3>1. <<0, b>> # <<i, a>>
      OBVIOUS
    <3> QED BY <1>2, <3>1, OnwardByChoice DEF f
  <2>3. \A g \in D : Leads(E, D, <<j, g>>, <<0, b>>) <=> g = b
    <3>1. new[j].type \in Silent \ {"or"}
      BY DEF Silent
    <3> QED BY <1>2, <3>1, LeadsOutAtOnce
  <2>4. Leads(E, D, <<f, a>>, <<0, b>>) <=>
           \E g \in D : <<a, g>> \in R /\ Leads(E, D, <<j, g>>, <<0, b>>)
    BY <1>1 DEF LeadsBy
  <2> QED BY <2>1, <2>2, <2>3, <2>4
<1>5. \A a \in D, b \in D : <<a, b>> \in Repeated("?", R, t) <=> <<a, b>> \in R \/ a = b
  <2>1. \A a \in D, b \in D : <<a, b>> \in Empties(t) <=> a = b
    BY DEF Empties
  <2> QED BY <2>1 DEF Repeated
<1>6. /\ Through(new, t, z) \in SUBSET (D \X D)
      /\ Repeated("?", R, t) \in SUBSET (D \X D)
  BY DEF Through, Repeated, Empties
<1>7. Through(new, t, z) = Repeated("?", R, t)
  <2>1. Alike(D, Through(new, t, z), Repeated("?", R, t))
    BY <1>4, <1>5 DEF Alike
  <2> QED BY <1>6, <2>1, SpansAreEqual
<1> QED BY <1>3, <1>7

(* A loop: what follows the operand is the choice to enter it again.        *)
LEMMA LoopLeads ==
  ASSUME NEW new \in Seq(Instructions), NEW t, NEW lo \in Nat \ {0}, NEW N \in Nat, lo <= N,
         NEW i \in Nat, i = N + 1, Len(new) = i,
         NEW x, NEW R \in SUBSET (Places(t) \X Places(t)), LeadsOut(new, t, lo, N, x, i, R),
         new[i].type = "or", new[i].right = x.first, new[i].next = 0
  PROVE  /\ Fragment(new, lo, i, [first |-> i, last |-> i])
         /\ Fragment(new, lo, i, [first |-> x.first, last |-> i])
         /\ \A a \in Places(t), b \in Places(t) :
              Leads(Edges(new, t), Places(t), <<i, a>>, <<0, b>>) <=>
                 a = b \/ Leads(Edges(new, t), Places(t), <<x.first, a>>, <<0, b>>)
<1> DEFINE D == Places(t)
           E == Edges(new, t)
           f == x.first
<1>1. new[f].type # "nop" /\ f \in lo .. N
  BY DEF LeadsOut
<1>2. i \in DOMAIN new
  OBVIOUS
<1> HIDE DEF f
<1>3. /\ Fragment(new, lo, i, [first |-> i, last |-> i])
      /\ Fragment(new, lo, i, [first |-> f, last |-> i])
  <2>1. \A p \in N + 1 .. i : p = i
    OBVIOUS
  <2>2. i \in N + 1 .. i /\ i \in lo .. i /\ f \in lo .. i /\ N < i /\ f # 0
    BY <1>1
  <2>3. \A p \in N + 1 .. i :
            /\ new[p].next \in (lo .. i) \cup {0} /\ (new[p].next = 0 <=> p = i)
            /\ new[p].type = "or" => new[p].right \in lo .. i /\ new[new[p].right].type # "nop"
            /\ new[p].type = "nop" => new[p].next = 0 \/ p < new[p].next
            /\ new[p].type # "end"
    <3> TAKE p \in N + 1 .. i
    <3>1. p = i
      BY <2>1
    <3> QED BY <1>1, <2>2, <3>1 DEF f
  <2>4. new[i].type # "nop"
    OBVIOUS
  <2> QED BY <1>1, <2>2, <2>3, <2>4, TailedFragment
<1>4. ASSUME NEW a \in D, NEW b \in D
      PROVE  Leads(E, D, <<i, a>>, <<0, b>>) <=> a = b \/ Leads(E, D, <<f, a>>, <<0, b>>)
  <2>1. <<0, b>> # <<i, a>>
    OBVIOUS
  <2>2. Leads(E, D, <<i, a>>, <<0, b>>) <=>
        Leads(E, D, <<0, a>>, <<0, b>>) \/ Leads(E, D, <<f, a>>, <<0, b>>)
    BY <1>2, <2>1, OnwardByChoice DEF f
  <2> QED BY <2>2, ZeroLeads
<1> QED BY <1>3, <1>4 DEF f

LEMMA ClosureIs ==
  ASSUME NEW t, NEW R \in SUBSET (Places(t) \X Places(t)), NEW a \in Places(t), NEW b \in Places(t)
  PROVE  <<a, b>> \in Closure(R, t) <=>
         \A S \in SUBSET Places(t) : ClosedFrom(R, Places(t), a, S) => b \in S
<1> DEFINE D == Places(t)
<1>1. \A S \in SUBSET D : (\A r \in R : r[1] = a \/ r[1] \in S => r[2] \in S) <=>
                          ClosedFrom(R, D, a, S)
  <2> TAKE S \in SUBSET D
  <2>1. ASSUME \A r \in R : r[1] = a \/ r[1] \in S => r[2] \in S PROVE ClosedFrom(R, D, a, S)
    <3> SUFFICES ASSUME NEW c \in D, NEW f \in D, <<c, f>> \in R, c = a \/ c \in S PROVE f \in S
      BY DEF ClosedFrom
    <3>1. <<c, f>>[1] = c /\ <<c, f>>[2] = f
      OBVIOUS
    <3> QED BY <2>1, <3>1
  <2>2. ASSUME ClosedFrom(R, D, a, S), NEW r \in R, r[1] = a \/ r[1] \in S PROVE r[2] \in S
    <3>1. r = <<r[1], r[2]>> /\ r[1] \in D /\ r[2] \in D
      OBVIOUS
    <3> QED BY <2>2, <3>1 DEF ClosedFrom
  <2> QED BY <2>1, <2>2
<1>2. <<a, b>> \in D \X D /\ <<a, b>>[1] = a /\ <<a, b>>[2] = b
  OBVIOUS
<1> QED BY <1>1, <1>2 DEF Closure

LEMMA LoopSpans ==
  ASSUME NEW new \in Seq(Instructions), NEW t, NEW lo \in Nat \ {0}, NEW N \in Nat, lo <= N,
         NEW i \in Nat, i = N + 1, Len(new) = i,
         NEW x, NEW R \in SUBSET (Places(t) \X Places(t)), LeadsOut(new, t, lo, N, x, i, R),
         new[i].type = "or", new[i].right = x.first, new[i].next = 0,
         NEW a \in Places(t), NEW b \in Places(t)
  PROVE  Leads(Edges(new, t), Places(t), <<x.first, a>>, <<0, b>>) <=> <<a, b>> \in Closure(R, t)
<1> DEFINE D == Places(t)
           E == Edges(new, t)
           f == x.first
<1>1. LeadsBy(new, t, f, i, R) /\ LoopsBy(new, t, f, i, R) /\ f \in lo .. N
  BY DEF LeadsOut
<1>2. i \in DOMAIN new
  OBVIOUS
<1>3. \A d \in D : \A z : <<<<i, d>>, z>> \in E <=> z = <<0, d>> \/ z = <<f, d>>
  BY <1>2, SilentEdges DEF Silent
<1>4. Turns(E, D, i, f)
  BY <1>3 DEF Turns
<1>5. \A d \in D : <<i, d>> \in Nodes(D) /\ <<f, d>> \in Nodes(D)
  BY <1>1 DEF Nodes
<1>6. \A d \in D : Leads(E, D, <<i, d>>, <<f, d>>) /\ Leads(E, D, <<i, d>>, <<0, d>>)
  <2> TAKE d \in D
  <2>1. <<<<i, d>>, <<f, d>>>> \in E /\ <<<<i, d>>, <<0, d>>>> \in E
    BY <1>3
  <2>2. Leads(E, D, <<i, d>>, <<i, d>>)
    BY <1>5, LeadsToItself
  <2> HIDE DEF E, D, f
  <2> QED BY <2>1, <2>2, LeadsOn
<1> HIDE DEF f
<1>7. ASSUME Leads(E, D, <<f, a>>, <<0, b>>) PROVE <<a, b>> \in Closure(R, t)
  <2>1. \A S \in SUBSET D : ClosedFrom(R, D, a, S) => b \in S
    BY <1>1, <1>4, <1>7 DEF LoopsBy
  <2> QED BY <2>1, ClosureIs
<1>8. ASSUME <<a, b>> \in Closure(R, t) PROVE Leads(E, D, <<f, a>>, <<0, b>>)
  <2> DEFINE S == {c \in D : Leads(E, D, <<f, a>>, <<i, c>>)}
  <2>1. ASSUME NEW c \in D, NEW g \in D, <<c, g>> \in R, c = a \/ c \in S PROVE g \in S
    <3>1. Leads(E, D, <<f, c>>, <<i, g>>)
      BY <1>1, <2>1 DEF LeadsBy
    <3>2. Leads(E, D, <<f, a>>, <<i, g>>)
      <4>1. CASE c = a
        BY <3>1, <4>1
      <4>2. CASE c \in S
        <5>1. Leads(E, D, <<f, a>>, <<i, c>>) /\ Leads(E, D, <<i, c>>, <<f, c>>)
          BY <1>6, <4>2
        <5> QED BY <3>1, <5>1, LeadsFurther
      <4> QED BY <2>1, <4>1, <4>2
    <3> QED BY <3>2
  <2>2. ClosedFrom(R, D, a, S) /\ S \in SUBSET D
    BY <2>1 DEF ClosedFrom
  <2> HIDE DEF S
  <2>3. b \in S
    BY <1>8, <2>2, ClosureIs
  <2>4. Leads(E, D, <<f, a>>, <<i, b>>) /\ Leads(E, D, <<i, b>>, <<0, b>>)
    BY <1>6, <2>3 DEF S
  <2> QED BY <2>4, LeadsFurther
<1> QED BY <1>7, <1>8 DEF f

LoopLaid(new, lo, N, i, x) ==
    /\ new \in Seq(Instructions) /\ lo \in Nat \ {0} /\ N \in Nat /\ lo <= N
    /\ i \in Nat /\ i = N + 1 /\ Len(new) = i
    /\ new[i].type = "or" /\ new[i].right = x.first /\ new[i].next = 0

LEMMA StarLeads ==
  ASSUME NEW new, NEW t, NEW lo, NEW N, NEW i, NEW x, NEW y, LoopLaid(new, lo, N, i, x),
         y = [first |-> i, last |-> i],
         NEW R \in SUBSET (Places(t) \X Places(t)), LeadsOut(new, t, lo, N, x, i, R)
  PROVE  /\ Fragment(new, lo, i, y)
         /\ Through(new, t, y) = Repeated("*", R, t)
<1> DEFINE D == Places(t)
<1> /\ new \in Seq(Instructions) /\ lo \in Nat \ {0} /\ N \in Nat /\ lo <= N
    /\ i \in Nat /\ i = N + 1 /\ Len(new) = i
    /\ new[i].type = "or" /\ new[i].right = x.first /\ new[i].next = 0
  BY DEF LoopLaid
<1>1. /\ Fragment(new, lo, i, y)
      /\ \A a \in D, b \in D :
           Leads(Edges(new, t), D, <<i, a>>, <<0, b>>) <=>
              a = b \/ Leads(Edges(new, t), D, <<x.first, a>>, <<0, b>>)
  BY LoopLeads
<1>2. ASSUME NEW a \in D, NEW b \in D
      PROVE  <<a, b>> \in Through(new, t, y) <=> <<a, b>> \in Repeated("*", R, t)
  <2>1. <<a, b>> \in Through(new, t, y) <=> Leads(Edges(new, t), D, <<i, a>>, <<0, b>>)
    BY SpansThrough
  <2>2. Leads(Edges(new, t), D, <<x.first, a>>, <<0, b>>) <=> <<a, b>> \in Closure(R, t)
    BY LoopSpans
  <2>3. <<a, b>> \in Empties(t) <=> a = b
    BY DEF Empties
  <2> QED BY <1>1, <2>1, <2>2, <2>3 DEF Repeated
<1>3. Through(new, t, y) \in SUBSET (D \X D) /\ Repeated("*", R, t) \in SUBSET (D \X D)
  BY DEF Through, Repeated, Closure, Empties
<1>4. Through(new, t, y) = Repeated("*", R, t)
  <2>1. Alike(D, Through(new, t, y), Repeated("*", R, t))
    BY <1>2 DEF Alike
  <2> HIDE DEF D
  <2> QED BY <1>3, <2>1, SpansAreEqual
<1> QED BY <1>1, <1>4

LEMMA PlusLeads ==
  ASSUME NEW new, NEW t, NEW lo, NEW N, NEW i, NEW x, NEW y, LoopLaid(new, lo, N, i, x),
         y = [first |-> x.first, last |-> i],
         NEW R \in SUBSET (Places(t) \X Places(t)), LeadsOut(new, t, lo, N, x, i, R)
  PROVE  /\ Fragment(new, lo, i, y)
         /\ Through(new, t, y) = Repeated("+", R, t)
<1> DEFINE D == Places(t)
<1> /\ new \in Seq(Instructions) /\ lo \in Nat \ {0} /\ N \in Nat /\ lo <= N
    /\ i \in Nat /\ i = N + 1 /\ Len(new) = i
    /\ new[i].type = "or" /\ new[i].right = x.first /\ new[i].next = 0
  BY DEF LoopLaid
<1>1. Fragment(new, lo, i, y)
  BY LoopLeads
<1>2. ASSUME NEW a \in D, NEW b \in D
      PROVE  <<a, b>> \in Through(new, t, y) <=> <<a, b>> \in Repeated("+", R, t)
  <2>1. <<a, b>> \in Through(new, t, y) <=> Leads(Edges(new, t), D, <<x.first, a>>, <<0, b>>)
    BY SpansThrough
  <2>2. Leads(Edges(new, t), D, <<x.first, a>>, <<0, b>>) <=> <<a, b>> \in Closure(R, t)
    BY LoopSpans
  <2> QED BY <2>1, <2>2 DEF Repeated
<1>3. Through(new, t, y) \in SUBSET (D \X D) /\ Repeated("+", R, t) \in SUBSET (D \X D)
  BY DEF Through, Repeated, Closure
<1>4. Through(new, t, y) = Repeated("+", R, t)
  <2>1. Alike(D, Through(new, t, y), Repeated("+", R, t))
    BY <1>2 DEF Alike
  <2> HIDE DEF D
  <2> QED BY <1>3, <2>1, SpansAreEqual
<1> QED BY <1>1, <1>4

LEMMA JoinedIs ==
  ASSUME NEW D, NEW R \in SUBSET (D \X D), NEW S \in SUBSET (D \X D), NEW a \in D, NEW b \in D
  PROVE  <<a, b>> \in Joined(R, S) <=> \E f \in D : <<a, f>> \in R /\ <<f, b>> \in S
<1>1. ASSUME <<a, b>> \in Joined(R, S) PROVE \E f \in D : <<a, f>> \in R /\ <<f, b>> \in S
  <2>1. PICK x \in R, y \in S : y[1] = x[2] /\ <<a, b>> = <<x[1], y[2]>>
    BY <1>1 DEF Joined
  <2>2. x = <<x[1], x[2]>> /\ y = <<y[1], y[2]>> /\ x[2] \in D
    OBVIOUS
  <2>3. x[1] = a /\ y[2] = b
    BY <2>1
  <2> QED BY <2>1, <2>2, <2>3
<1>2. ASSUME NEW f \in D, <<a, f>> \in R, <<f, b>> \in S PROVE <<a, b>> \in Joined(R, S)
  <2> DEFINE x == <<a, f>>
             y == <<f, b>>
  <2>1. x \in R /\ y \in {w \in S : w[1] = x[2]} /\ <<x[1], y[2]>> = <<a, b>>
    BY <1>2
  <2> HIDE DEF x, y
  <2> QED BY <2>1 DEF Joined
<1> QED BY <1>1, <1>2

LEMMA JoinedSpans ==
  ASSUME NEW D, NEW R \in SUBSET (D \X D), NEW S \in SUBSET (D \X D)
  PROVE  Joined(R, S) \in SUBSET (D \X D)
<1> SUFFICES ASSUME NEW x \in R, NEW y \in S PROVE <<x[1], y[2]>> \in D \X D
  BY DEF Joined
<1> QED OBVIOUS

(* Two operands, one after the other: the first is linked to the second.    *)
LEMMA BranchIsCompiled ==
  ASSUME NEW prog \in Seq(Good), NEW t \in Seq(Nat), NEW lo \in Nat \ {0}, NEW mid \in Nat,
         mid < Len(prog), NEW x, Fragment(prog, lo, mid, x),
         NEW y, Fragment(prog, mid + 1, Len(prog), y),
         x \in [first : Nat, last : Nat], y \in [first : Nat, last : Nat],
         NEW new, new = Link(prog, x, y.first)
  PROVE  Becomes(prog, new, t, lo, [first |-> x.first, last |-> y.last],
                 Joined(Through(prog, t, x), Through(prog, t, y)))
<1> DEFINE N == Len(prog)
           D == Places(t)
           E == Edges(new, t)
           n == y.first
           z == [first |-> x.first, last |-> y.last]
           R == Through(prog, t, x)
           S == Through(prog, t, y)
<1>1. /\ x.last \in lo .. mid /\ x.first \in lo .. mid /\ lo <= mid /\ N \in Nat
      /\ n \in mid + 1 .. N /\ y.last \in mid + 1 .. N
      /\ \A p \in lo .. mid : prog[p].next = 0 <=> p = x.last
  <2>1. N \in Nat /\ lo \in Nat /\ mid + 1 \in Nat
    OBVIOUS
  <2>2. x.last \in lo .. mid /\ x.first \in lo .. mid /\ lo <= mid
    BY <2>1, FragmentSize
  <2>3. n \in mid + 1 .. N /\ y.last \in mid + 1 .. N
    BY <2>1, FragmentSize
  <2>4. \A p \in lo .. mid : prog[p].next = 0 <=> p = x.last
    BY DEF Fragment, Inner
  <2> QED BY <2>1, <2>2, <2>3, <2>4
<1>2. [prog[x.last] EXCEPT !.next = n] \in Good
  <2>1. prog[x.last] \in Good /\ n \in Nat
    BY <1>1
  <2> HIDE DEF n
  <2> QED BY <2>1, GoodLinked
<1>3. new = [prog EXCEPT ![x.last] = [prog[x.last] EXCEPT !.next = n]]
  BY DEF Link
<1>4. /\ new \in Seq(Good) /\ Len(new) = N
      /\ \A p \in 1 .. N : new[p] = IF p = x.last THEN [prog[p] EXCEPT !.next = n] ELSE prog[p]
  <2> DEFINE v == [prog[x.last] EXCEPT !.next = n]
  <2>1. v \in Good /\ new = [prog EXCEPT ![x.last] = v] /\ x.last \in 1 .. N
    BY <1>1, <1>2, <1>3
  <2> HIDE DEF v, n
  <2>2. new \in Seq(Good) /\ Len(new) = N
    BY <2>1
  <2>3. \A p \in 1 .. N : new[p] = IF p = x.last THEN v ELSE prog[p]
    BY <2>1
  <2> QED BY <2>2, <2>3 DEF v
<1>5. prog \in Seq(Instructions) /\ new \in Seq(Instructions)
  BY <1>4, GoodIsInstruction
<1> HIDE DEF n
<1>6. Grows(prog, new, lo .. mid, n)
  <2> SUFFICES ASSUME NEW p \in lo .. mid
               PROVE new[p] = IF prog[p].next = 0 THEN [prog[p] EXCEPT !.next = n] ELSE prog[p]
    BY DEF Grows
  <2>1. prog[p].next = 0 <=> p = x.last
    BY <1>1
  <2>2. p \in 1 .. N
    OBVIOUS
  <2> QED BY <1>4, <2>1, <2>2
<1>7. LeadsOut(new, t, lo, mid, x, n, R)
  <2>1. mid <= Len(prog) /\ mid <= Len(new) /\ n \in Nat /\ n > mid
    BY <1>1, <1>4
  <2> QED BY <1>5, <1>6, <2>1, LinkedFragment
<1>8. Fragment(new, mid + 1, N, y) /\ Through(new, t, y) = S
  <2>1. \A p \in mid + 1 .. N : p \in 1 .. N /\ p # x.last
    BY <1>1
  <2>2. Same(prog, new, mid + 1, N)
    BY <1>4, <2>1 DEF Same
  <2>3. mid + 1 \in Nat \ {0} /\ N <= Len(prog) /\ N <= Len(new) /\ N \in Nat
    BY <1>1, <1>4
  <2>4. Fragment(prog, mid + 1, N, y)
    OBVIOUS
  <2> HIDE DEF N
  <2> QED BY <1>5, <2>2, <2>3, <2>4, Untouched
<1>9. z.first = x.first /\ z.last = y.last
  OBVIOUS
<1>10. Inner(new, lo, N, y.last)
  <2> SUFFICES ASSUME NEW p \in lo .. N
               PROVE /\ new[p].next \in (lo .. N) \cup {0} /\ (new[p].next = 0 <=> p = y.last)
                     /\ new[p].type = "or" => /\ new[p].right \in lo .. N
                                              /\ new[new[p].right].type # "nop"
                     /\ new[p].type = "nop" => new[p].next = 0 \/ p < new[p].next
                     /\ new[p].type # "end"
    BY DEF Inner
  <2>1. CASE p \in lo .. mid
    <3>1. /\ new[p].next \in (lo .. mid) \cup {n}
          /\ new[p].type = "or" => new[p].right \in lo .. mid /\ new[new[p].right].type # "nop"
          /\ new[p].type = "nop" => p < new[p].next
          /\ new[p].type # "end"
      BY <1>7, <2>1 DEF LeadsOut
    <3>2. new[p].next \in lo .. N /\ new[p].next # 0 /\ p # y.last
      BY <1>1, <2>1, <3>1
    <3>3. new[p].type = "or" => new[p].right \in lo .. N
      BY <3>1
    <3> QED BY <3>1, <3>2, <3>3
  <2>2. CASE p \in mid + 1 .. N
    <3>1. /\ new[p].next \in (mid + 1 .. N) \cup {0} /\ (new[p].next = 0 <=> p = y.last)
          /\ new[p].type = "or" => new[p].right \in mid + 1 .. N /\ new[new[p].right].type # "nop"
          /\ new[p].type = "nop" => new[p].next = 0 \/ p < new[p].next
          /\ new[p].type # "end"
      BY <1>8, <2>2 DEF Fragment, Inner
    <3>2. \A q \in mid + 1 .. N : q \in lo .. N
      BY <1>1
    <3> QED BY <3>1, <3>2
  <2>3. p \in lo .. mid \/ p \in mid + 1 .. N
    BY <1>1
  <2> QED BY <2>1, <2>2, <2>3
<1>11. Fragment(new, lo, Len(new), z)
  <2>1. new[x.first].type # "nop"
    BY <1>7 DEF LeadsOut
  <2>2. x.first \in lo .. N /\ y.last \in lo .. N
    BY <1>1
  <2> HIDE DEF z
  <2> QED BY <1>4, <1>9, <1>10, <2>1, <2>2 DEF Fragment
<1>12. ASSUME NEW a \in D, NEW b \in D
       PROVE  <<a, b>> \in Through(new, t, z) <=> <<a, b>> \in Joined(R, S)
  <2>1. <<a, b>> \in Through(new, t, z) <=> Leads(E, D, <<x.first, a>>, <<0, b>>)
    BY SpansThrough
  <2>2. Leads(E, D, <<x.first, a>>, <<0, b>>) <=>
           \E f \in D : <<a, f>> \in R /\ Leads(E, D, <<n, f>>, <<0, b>>)
    BY <1>7 DEF LeadsOut, LeadsBy
  <2>3. \A f \in D : Leads(E, D, <<n, f>>, <<0, b>>) <=> <<f, b>> \in S
    BY <1>8, ThroughIs DEF n
  <2>4. R \in SUBSET (D \X D) /\ S \in SUBSET (D \X D)
    BY DEF Through
  <2> HIDE DEF R, S, D
  <2>5. <<a, b>> \in Joined(R, S) <=> \E f \in D : <<a, f>> \in R /\ <<f, b>> \in S
    BY <2>4, JoinedIs
  <2> QED BY <2>1, <2>2, <2>3, <2>5
<1>13. Through(new, t, z) \in SUBSET (D \X D) /\ Joined(R, S) \in SUBSET (D \X D)
  <2>1. R \in SUBSET (D \X D) /\ S \in SUBSET (D \X D)
    BY DEF Through
  <2>2. Joined(R, S) \in SUBSET (D \X D)
    <3> HIDE DEF R, S, D
    <3> QED BY <2>1, JoinedSpans
  <2> QED BY <2>2 DEF Through
<1>14. Through(new, t, z) = Joined(R, S)
  <2>1. Alike(D, Through(new, t, z), Joined(R, S))
    BY <1>12 DEF Alike
  <2> HIDE DEF D, z, R, S
  <2> QED BY <1>13, <2>1, SpansAreEqual
<1>15. \A p \in 1 .. lo - 1 : new[p] = prog[p]
  <2> TAKE p \in 1 .. lo - 1
  <2>1. p \in 1 .. N /\ p # x.last
    BY <1>1
  <2> QED BY <1>4, <2>1
<1>16. z \in [first : Nat, last : Nat] /\ lo <= Len(new)
  BY <1>1, <1>4
<1> QED BY <1>4, <1>11, <1>14, <1>15, <1>16 DEF Becomes

(* Two operands to choose from: both are linked to what follows.            *)
EndsAt(prog, lo, hi, m) == \A p \in lo .. hi : prog[p].next = 0 <=> p = m
BothLinked(prog, x, y, i) == Link(Link(prog, y, i), x, i)
Chosen(prog, x, y, i) == BothLinked(prog, x, y, i) \o <<newinst("nop"), Or(x.first, y.first)>>
Relates(R, t) == R \in SUBSET (Places(t) \X Places(t))
AlikeUpTo(prog, new, n) == \A p \in 1 .. n : new[p] = prog[p]

LEMMA TwoLinked ==
  ASSUME NEW prog \in Seq(Good), NEW lo \in Nat \ {0}, NEW mid \in Nat, lo <= mid,
         mid < Len(prog), NEW m \in lo .. mid, NEW n \in mid + 1 .. Len(prog),
         EndsAt(prog, lo, mid, m), EndsAt(prog, mid + 1, Len(prog), n),
         NEW x, x.last = m, NEW y, y.last = n,
         NEW i \in Nat, NEW new, new = BothLinked(prog, x, y, i)
  PROVE  /\ new \in Seq(Good) /\ Len(new) = Len(prog)
         /\ Grows(prog, new, lo .. mid, i) /\ Grows(prog, new, mid + 1 .. Len(prog), i)
         /\ AlikeUpTo(prog, new, lo - 1)
<1> DEFINE N == Len(prog)
           v == [prog[n] EXCEPT !.next = i]
           w == [prog[m] EXCEPT !.next = i]
<1>1. prog[n] \in Good /\ prog[m] \in Good /\ n \in 1 .. N /\ m \in 1 .. N /\ n # m
  OBVIOUS
<1>2. v \in Good /\ w \in Good
  BY <1>1, GoodLinked
<1>3. PICK once : once = [prog EXCEPT ![n] = v]
  OBVIOUS
<1>4. Link(prog, y, i) = once
  BY <1>3 DEF Link
<1>5. once[m] = prog[m]
  BY <1>1, <1>3
<1>6. new = [once EXCEPT ![m] = w]
  BY <1>4, <1>5 DEF Link, BothLinked
<1> HIDE DEF v, w
<1>7. /\ once \in Seq(Good) /\ Len(once) = N
      /\ \A p \in 1 .. N : once[p] = IF p = n THEN v ELSE prog[p]
  BY <1>1, <1>2, <1>3
<1>8. /\ new \in Seq(Good) /\ Len(new) = N
      /\ \A p \in 1 .. N : new[p] = IF p = m THEN w ELSE once[p]
  BY <1>1, <1>2, <1>6, <1>7
<1>9. \A p \in 1 .. N : new[p] = IF p = m THEN w ELSE IF p = n THEN v ELSE prog[p]
  BY <1>7, <1>8
<1>10. ASSUME NEW p \in lo .. mid
       PROVE new[p] = IF prog[p].next = 0 THEN [prog[p] EXCEPT !.next = i] ELSE prog[p]
  <2>1. p \in 1 .. N /\ p # n /\ (prog[p].next = 0 <=> p = m)
    BY DEF EndsAt
  <2> QED BY <1>9, <2>1 DEF w
<1>11. ASSUME NEW p \in mid + 1 .. N
       PROVE new[p] = IF prog[p].next = 0 THEN [prog[p] EXCEPT !.next = i] ELSE prog[p]
  <2>1. p \in 1 .. N /\ p # m /\ (prog[p].next = 0 <=> p = n)
    BY DEF EndsAt
  <2> QED BY <1>9, <2>1 DEF v
<1>12. ASSUME NEW p \in 1 .. lo - 1 PROVE new[p] = prog[p]
  <2>1. p \in 1 .. N /\ p # m /\ p # n
    OBVIOUS
  <2> QED BY <1>9, <2>1
<1> QED BY <1>8, <1>10, <1>11, <1>12 DEF Grows, AlikeUpTo

LEMMA GrowsOn ==
  ASSUME NEW prog, NEW twice \in Seq(Good), NEW tail \in Seq(Good), NEW new,
         new = twice \o tail
  PROVE  AlikeUpTo(twice, new, Len(twice))
<1>1. \A p \in 1 .. Len(twice) : new[p] = twice[p]
  <2>1. \A p \in 1 .. Len(twice) + Len(tail) :
           new[p] = IF p <= Len(twice) THEN twice[p] ELSE tail[p - Len(twice)]
    BY Joining
  <2>2. \A p \in 1 .. Len(twice) : p \in 1 .. Len(twice) + Len(tail) /\ p <= Len(twice)
    OBVIOUS
  <2> QED BY <2>1, <2>2
<1> QED BY <1>1 DEF AlikeUpTo

LEMMA ChoiceLinked ==
  ASSUME NEW prog \in Seq(Good), NEW lo \in Nat \ {0}, NEW mid \in Nat,
         mid < Len(prog), NEW x, Fragment(prog, lo, mid, x),
         NEW y, Fragment(prog, mid + 1, Len(prog), y),
         NEW i, i = Len(prog) + 1,
         NEW new, new = Chosen(prog, x, y, i)
  PROVE  /\ new \in Seq(Good) /\ Len(new) = i + 1
         /\ Grows(prog, new, lo .. mid, i) /\ Grows(prog, new, mid + 1 .. Len(prog), i)
         /\ AlikeUpTo(prog, new, lo - 1)
         /\ new[i] = newinst("nop") /\ new[i + 1] = Or(x.first, y.first)
<1> DEFINE N == Len(prog)
           f == x.first
           g == y.first
           m == x.last
           n == y.last
<1>1. /\ m \in lo .. mid /\ f \in lo .. mid /\ lo <= mid /\ N \in Nat /\ i \in Nat
      /\ g \in mid + 1 .. N /\ n \in mid + 1 .. N
      /\ EndsAt(prog, lo, mid, m) /\ EndsAt(prog, mid + 1, N, n)
  BY DEF Fragment, Inner, EndsAt
<1>2. PICK twice : twice = BothLinked(prog, x, y, i)
  OBVIOUS
<1>3. PICK tail : tail = <<newinst("nop"), Or(f, g)>>
  OBVIOUS
<1>4. new = twice \o tail
  BY <1>2, <1>3 DEF Chosen
<1>5. tail \in Seq(Good) /\ Len(tail) = 2 /\ tail[1] = newinst("nop") /\ tail[2] = Or(f, g)
  <2>1. f \in Nat /\ g \in Nat
    BY <1>1
  <2> HIDE DEF f, g
  <2>2. newinst("nop") \in Good /\ Or(f, g) \in Good
    BY <2>1, GoodMade
  <2> QED BY <1>3, <2>2
<1> HIDE DEF f, g
<1>6. /\ twice \in Seq(Good) /\ Len(twice) = N
      /\ Grows(prog, twice, lo .. mid, i) /\ Grows(prog, twice, mid + 1 .. N, i)
      /\ AlikeUpTo(prog, twice, lo - 1)
  <2>1. x.last = m /\ y.last = n
    OBVIOUS
  <2> HIDE DEF m, n
  <2> QED BY <1>1, <1>2, <2>1, TwoLinked
<1>7. lo .. mid \subseteq 1 .. N /\ mid + 1 .. N \subseteq 1 .. N /\ 1 .. lo - 1 \subseteq 1 .. N
      /\ N + 2 = i + 1 /\ i = N + 1
  BY <1>1
<1> HIDE DEF N
<1>8. /\ Grows(prog, new, lo .. mid, i) /\ Grows(prog, new, mid + 1 .. N, i)
      /\ AlikeUpTo(prog, new, lo - 1)
  <2>1. AlikeUpTo(twice, new, N)
    BY <1>4, <1>5, <1>6, GrowsOn
  <2>2. \A p \in 1 .. N : new[p] = twice[p]
    BY <2>1 DEF AlikeUpTo
  <2> QED BY <1>6, <1>7, <2>2 DEF Grows, AlikeUpTo
<1>9. /\ new \in Seq(Good) /\ Len(new) = N + 2
      /\ new[N + 1] = tail[1] /\ new[N + 2] = tail[2]
  <2>1. /\ Len(new) = N + 2 /\ new \in Seq(Good)
        /\ \A p \in 1 .. N + 2 : new[p] = IF p <= N THEN twice[p] ELSE tail[p - N]
    <3>1. /\ Len(new) = Len(twice) + Len(tail)
          /\ \A p \in 1 .. Len(twice) + Len(tail) :
               new[p] = IF p <= Len(twice) THEN twice[p] ELSE tail[p - Len(twice)]
          /\ new \in Seq(Good)
      BY <1>4, <1>5, <1>6, Joining
    <3> QED BY <1>5, <1>6, <3>1
  <2>2. N + 1 \in 1 .. N + 2 /\ N + 2 \in 1 .. N + 2 /\ (N + 1) - N = 1 /\ (N + 2) - N = 2
        /\ ~ (N + 1 <= N) /\ ~ (N + 2 <= N)
    BY <1>1
  <2> QED BY <2>1, <2>2
<1> QED BY <1>5, <1>7, <1>8, <1>9 DEF N, f, g

Choosing(new, i, j, z, f, g) ==
    /\ new[i].type = "nop" /\ new[i].next = 0
    /\ new[j].type = "or" /\ new[j].next = g /\ new[j].right = f
    /\ z.first = j /\ z.last = i

Laid(lo, mid, m, k, i, j, f, g) ==
    /\ i \in Nat /\ j \in Nat /\ k \in Nat /\ m \in Nat
    /\ i = k + 1 /\ j = i + 1 /\ lo <= mid /\ m = mid + 1 /\ mid < k
    /\ f \in lo .. mid /\ g \in m .. k

LEMMA ChoiceLeads ==
  ASSUME NEW new \in Seq(Instructions), NEW t \in Seq(Nat), NEW lo \in Nat \ {0}, NEW mid \in Nat,
         NEW i, NEW j, NEW k, NEW m, NEW f, NEW g, Laid(lo, mid, m, k, i, j, f, g), Len(new) = j,
         NEW x, NEW y, NEW R, NEW S, Relates(R, t), Relates(S, t),
         x.first = f, y.first = g,
         LeadsOut(new, t, lo, mid, x, i, R), LeadsOut(new, t, m, k, y, i, S),
         NEW z, Choosing(new, i, j, z, f, g)
  PROVE  Fragment(new, lo, Len(new), z) /\ Through(new, t, z) = R \cup S
<1> DEFINE D == Places(t)
           E == Edges(new, t)
<1>0. /\ new[i].type = "nop" /\ new[i].next = 0 /\ new[i + 1].type = "or"
      /\ new[i + 1].next = g /\ new[i + 1].right = f /\ z.first = i + 1 /\ z.last = i
      /\ k = i - 1 /\ m = mid + 1 /\ Len(new) = i + 1
      /\ i \in Nat /\ lo <= mid /\ mid + 1 < i /\ f \in lo .. mid /\ g \in mid + 1 .. i - 1
      /\ LeadsOut(new, t, mid + 1, i - 1, y, i, S)
  BY DEF Choosing, Laid
<1>1. /\ i \in lo .. i + 1 /\ i + 1 \in lo .. i + 1 /\ i + 1 # i /\ i # 0 /\ i + 1 # 0 /\ g # 0
      /\ f \in lo .. i + 1 /\ g \in lo .. i + 1 /\ i \in 1 .. i + 1 /\ i + 1 \in 1 .. i + 1
      /\ lo .. mid \subseteq lo .. i + 1 /\ mid + 1 .. i - 1 \subseteq lo .. i + 1
      /\ 0 \notin lo .. i + 1 /\ i \notin lo .. mid /\ i \notin mid + 1 .. i - 1
      /\ f \in Nat /\ g \in Nat
  BY <1>0
<1>2. DOMAIN new = 1 .. i + 1
  BY <1>0
<1>3. \A p \in lo .. i + 1 : p \in lo .. mid \/ p \in mid + 1 .. i - 1 \/ p = i \/ p = i + 1
  BY <1>0
<1>4. Inner(new, lo, i + 1, i)
  <2> SUFFICES ASSUME NEW p \in lo .. i + 1
               PROVE /\ new[p].next \in (lo .. i + 1) \cup {0} /\ (new[p].next = 0 <=> p = i)
                     /\ new[p].type = "or" => /\ new[p].right \in lo .. i + 1
                                              /\ new[new[p].right].type # "nop"
                     /\ new[p].type = "nop" => new[p].next = 0 \/ p < new[p].next
                     /\ new[p].type # "end"
    BY DEF Inner
  <2>1. CASE p \in lo .. mid
    <3>1. /\ new[p].next \in (lo .. mid) \cup {i}
          /\ new[p].type = "or" => new[p].right \in lo .. mid /\ new[new[p].right].type # "nop"
          /\ new[p].type = "nop" => p < new[p].next
          /\ new[p].type # "end"
      BY <2>1 DEF LeadsOut
    <3> HIDE DEF D, E
    <3> QED BY <1>1, <2>1, <3>1
  <2>2. CASE p \in mid + 1 .. i - 1
    <3>1. /\ new[p].next \in (mid + 1 .. i - 1) \cup {i}
          /\ new[p].type = "or" => new[p].right \in mid + 1 .. i - 1 /\ new[new[p].right].type # "nop"
          /\ new[p].type = "nop" => p < new[p].next
          /\ new[p].type # "end"
      BY <1>0, <2>2 DEF LeadsOut
    <3> QED BY <1>1, <2>2, <3>1
  <2>3. CASE p = i
    BY <1>0, <1>1, <2>3
  <2>4. CASE p = i + 1
    <3>1. new[f].type # "nop"
      BY DEF LeadsOut
    <3> QED BY <1>0, <1>1, <2>4, <3>1
  <2> QED BY <1>3, <2>1, <2>2, <2>3, <2>4
<1>5. Fragment(new, lo, Len(new), z)
  BY <1>0, <1>1, <1>4 DEF Fragment
<1>6. ASSUME NEW a \in D, NEW b \in D
      PROVE  <<a, b>> \in Through(new, t, z) <=> <<a, b>> \in R \cup S
  <2>1. <<a, b>> \in Through(new, t, z) <=> Leads(E, D, <<i + 1, a>>, <<0, b>>)
    BY <1>0, ThroughIs
  <2>2. Leads(E, D, <<i + 1, a>>, <<0, b>>) <=>
        Leads(E, D, <<g, a>>, <<0, b>>) \/ Leads(E, D, <<f, a>>, <<0, b>>)
    <3>1. <<0, b>> # <<i + 1, a>>
      BY <1>1
    <3>2. i + 1 \in DOMAIN new
      BY <1>1, <1>2
    <3> QED BY <1>0, <1>1, <3>1, <3>2, OnwardByChoice
  <2>3. ASSUME NEW h \in D PROVE Leads(E, D, <<i, h>>, <<0, b>>) <=> h = b
    <3>1. new[i].type \in Silent \ {"or"}
      BY <1>0 DEF Silent
    <3>2. i \in DOMAIN new
      BY <1>1, <1>2
    <3>3. new[i].next = 0
      BY <1>0
    <3> HIDE DEF D
    <3> QED BY <3>1, <3>2, <3>3, LeadsOutAtOnce DEF D
  <2>4. Leads(E, D, <<f, a>>, <<0, b>>) <=>
           \E h \in D : <<a, h>> \in R /\ Leads(E, D, <<i, h>>, <<0, b>>)
    BY <1>0 DEF LeadsOut, LeadsBy
  <2>5. Leads(E, D, <<g, a>>, <<0, b>>) <=>
           \E h \in D : <<a, h>> \in S /\ Leads(E, D, <<i, h>>, <<0, b>>)
    BY <1>0 DEF LeadsOut, LeadsBy
  <2> HIDE DEF D, E
  <2> QED BY <2>1, <2>2, <2>3, <2>4, <2>5 DEF Relates, D
<1>7. Through(new, t, z) = R \cup S
  <2>1. Alike(D, Through(new, t, z), R \cup S)
    BY <1>6 DEF Alike
  <2>2. Through(new, t, z) \in SUBSET (D \X D) /\ R \cup S \in SUBSET (D \X D)
    BY DEF Through, Relates
  <2> HIDE DEF D
  <2> QED BY <2>1, <2>2, SpansAreEqual
<1> QED BY <1>5, <1>7

LEMMA ChoiceIsCompiled ==
  ASSUME NEW prog \in Seq(Good), NEW t \in Seq(Nat), NEW lo \in Nat \ {0}, NEW mid \in Nat,
         mid < Len(prog), NEW x, Fragment(prog, lo, mid, x),
         NEW y, Fragment(prog, mid + 1, Len(prog), y),
         NEW i, i = Len(prog) + 1,
         NEW new, new = Chosen(prog, x, y, i)
  PROVE  Becomes(prog, new, t, lo, [first |-> i + 1, last |-> i],
                 Through(prog, t, x) \cup Through(prog, t, y))
<1> DEFINE N == Len(prog)
           f == x.first
           g == y.first
           z == [first |-> i + 1, last |-> i]
           R == Through(prog, t, x)
           S == Through(prog, t, y)
<1>1. f \in lo .. mid /\ lo <= mid /\ N \in Nat /\ g \in mid + 1 .. N /\ i \in Nat
      /\ mid + 1 < i /\ i - 1 = N
  <2>1. N \in Nat /\ lo \in Nat /\ mid + 1 \in Nat /\ i \in Nat /\ mid + 1 < i /\ i - 1 = N
    OBVIOUS
  <2>2. f \in lo .. mid /\ lo <= mid
    BY <2>1, FragmentSize
  <2>3. g \in mid + 1 .. N
    BY <2>1, FragmentSize
  <2> QED BY <2>1, <2>2, <2>3
<1>2. /\ new \in Seq(Good) /\ Len(new) = i + 1
      /\ Grows(prog, new, lo .. mid, i) /\ Grows(prog, new, mid + 1 .. N, i)
      /\ AlikeUpTo(prog, new, lo - 1)
      /\ new[i] = newinst("nop") /\ new[i + 1] = Or(f, g)
  BY ChoiceLinked
<1>3. prog \in Seq(Instructions) /\ new \in Seq(Instructions)
  BY <1>2, GoodIsInstruction
<1>4. Fragment(prog, mid + 1, N, y) /\ i = N + 1 /\ mid < N
  OBVIOUS
<1>5. x.first = f /\ y.first = g
  OBVIOUS
<1>6. Relates(R, t) /\ Relates(S, t)
  BY DEF Through, Relates
<1>7. z \in [first : Nat, last : Nat] /\ z.first = i + 1 /\ z.last = i /\ lo <= Len(new)
  BY <1>1, <1>2
<1>9. /\ mid <= Len(prog) /\ mid <= Len(new) /\ i > mid /\ i > N /\ N <= Len(prog)
      /\ N <= Len(new) /\ mid + 1 \in Nat \ {0}
  BY <1>1, <1>2, <1>4
<1>10. LeadsOut(new, t, lo, mid, x, i, R)
  BY <1>1, <1>2, <1>3, <1>9, LinkedFragment
<1>11. LeadsOut(new, t, mid + 1, N, y, i, S)
  BY <1>1, <1>2, <1>3, <1>4, <1>9, LinkedFragment
<1>12. /\ new[i].type = "nop" /\ new[i].next = 0
       /\ new[i + 1].type = "or" /\ new[i + 1].next = g /\ new[i + 1].right = f
  BY <1>2 DEF newinst, Or, Inst
<1>15. PICK j \in Nat, m \in Nat : j = i + 1 /\ m = mid + 1
  BY <1>1
<1>16. /\ Choosing(new, i, j, z, f, g) /\ LeadsOut(new, t, m, N, y, i, S)
       /\ Laid(lo, mid, m, N, i, j, f, g)
       /\ Len(new) = j
  BY <1>1, <1>2, <1>7, <1>11, <1>12, <1>15 DEF Choosing, Laid
<1> HIDE DEF N, f, g, z, R, S
<1>13. Fragment(new, lo, Len(new), z) /\ Through(new, t, z) = R \cup S
  BY <1>3, <1>5, <1>6, <1>10, <1>16, ChoiceLeads
<1> QED BY <1>2, <1>7, <1>13 DEF Becomes, AlikeUpTo, R, S, z
=============================================================================
