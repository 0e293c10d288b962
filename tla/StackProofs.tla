---------------------------- MODULE StackProofs -----------------------------
(***************************************************************************)
(* Theorems about Stack: nothing on the heap refers to the stack, and the  *)
(* machine that reuses and moves its frames implements Frames, which never *)
(* does, for stacks and programs of any size.                              *)
(***************************************************************************)
EXTENDS Stack, SequencesExt, SequenceTheorems,
        FiniteSetTheorems, WellFoundedInduction, TLAPS

-----------------------------------------------------------------------------
(* Facts about numbers and sequences *)

(* A set of natural numbers has a least element. *)
LEMMA LeastNumber ==
  ASSUME NEW S \in SUBSET Nat, S # {}
  PROVE  \E m \in S : \A k \in S : m <= k
<1> DEFINE Segments == {S \cap (0 .. m) : m \in S}
<1>1. IsWellFoundedOn(StrictSubsetOrdering(Nat), FiniteSubsetsOf(Nat))
  BY FS_StrictSubsetOrderingWellFounded
<1>2. Segments \subseteq FiniteSubsetsOf(Nat)
  <2>1. \A m \in S : IsFiniteSet(S \cap (0 .. m))
    <3> TAKE m \in S
    <3>1. IsFiniteSet(0 .. m)
      BY FS_Interval
    <3> QED BY <3>1, FS_Subset
  <2> QED BY <2>1 DEF FiniteSubsetsOf
<1>3. Segments # {}
  OBVIOUS
<1> HIDE DEF Segments
<1>4. PICK x \in Segments : \A y \in Segments : ~ (<<y, x>> \in StrictSubsetOrdering(Nat))
  BY <1>1, <1>2, <1>3, WFMin
<1> USE DEF Segments
<1>5. PICK m \in S : x = S \cap (0 .. m)
  BY <1>4
<1>6. \A k \in S : m <= k
  <2> SUFFICES ASSUME NEW k \in S, k < m PROVE FALSE
    OBVIOUS
  <2> DEFINE y == S \cap (0 .. k)
  <2>1. y \in Segments /\ y \subseteq x /\ m \in x /\ m \notin y /\ x \subseteq Nat
    BY <1>5
  <2>2. <<y, x>> \in StrictSubsetOrdering(Nat)
    BY <2>1 DEF StrictSubsetOrdering
  <2> QED BY <1>4, <2>1, <2>2
<1> QED BY <1>6

(* What holds at 0, and at i if it holds at i - 1, holds up to n.          *)
LEMMA UpTo ==
  ASSUME NEW n \in Nat, NEW P \in SUBSET (0 .. n), 0 \in P,
         \A i \in 1 .. n : i - 1 \in P => i \in P
  PROVE  P = 0 .. n
<1> DEFINE Left == (0 .. n) \ P
<1> SUFFICES ASSUME Left # {} PROVE FALSE
  OBVIOUS
<1>1. Left \in SUBSET Nat
  OBVIOUS
<1>2. \A i \in 0 .. n : i \in P <=> i \notin Left
  OBVIOUS
<1>3. \A i \in Left : i \in 0 .. n
  OBVIOUS
<1> HIDE DEF Left
<1>4. PICK m \in Left : \A k \in Left : m <= k
  BY <1>1, LeastNumber
<1>5. m # 0
  BY <1>2, <1>3
<1>6. m - 1 \in 0 .. n /\ m \in 1 .. n /\ ~(m <= m - 1)
  BY <1>3, <1>5
<1> QED BY <1>2, <1>4, <1>6

(* Functions by primitive recursion: F[i] makes the value at i from the    *)
(* one before.  (A set of values is needed for the existence, nothing      *)
(* else; the counterexample with the smallest length has none.)            *)
ByRecursion(g, F, a, n) == g[0] = a /\ \A i \in 1 .. n : g[i] = F[i][g[i - 1]]

LEMMA RecursionExists ==
  ASSUME NEW V, NEW a \in V, NEW n \in Nat, NEW F, \A i \in 1 .. n : F[i] \in [V -> V]
  PROVE  \E g \in [0 .. n -> V] : ByRecursion(g, F, a, n)
<1> DEFINE Failing == {m \in 0 .. n : ~ \E g \in [0 .. m -> V] : ByRecursion(g, F, a, m)}
<1>1. Failing = {}
  <2> SUFFICES ASSUME Failing # {} PROVE FALSE
    OBVIOUS
  <2>1. Failing \in SUBSET Nat
    OBVIOUS
  <2>2. \A m \in Failing : m \in 0 .. n /\ ~ \E g \in [0 .. m -> V] : ByRecursion(g, F, a, m)
    OBVIOUS
  <2>3. \A m \in 0 .. n : m \notin Failing => \E g \in [0 .. m -> V] : ByRecursion(g, F, a, m)
    OBVIOUS
  <2> HIDE DEF Failing
  <2>4. PICK m \in Failing : \A k \in Failing : m <= k
    BY <2>1, LeastNumber
  <2>5. m # 0
    <3> DEFINE g == [i \in 0 .. 0 |-> a]
    <3>1. g \in [0 .. 0 -> V] /\ g[0] = a
      OBVIOUS
    <3>2. ByRecursion(g, F, a, 0)
      BY <3>1 DEF ByRecursion
    <3> QED BY <2>2, <3>1, <3>2
  <2> DEFINE l == m - 1
  <2>6. l \in 0 .. n /\ l < m /\ m \in 1 .. n /\ l + 1 = m
    BY <2>2, <2>4, <2>5
  <2> HIDE DEF l
  <2>7. l \notin Failing
    BY <2>4, <2>6
  <2>8. PICK g \in [0 .. l -> V] : ByRecursion(g, F, a, l)
    BY <2>3, <2>6, <2>7
  <2> DEFINE h == [i \in 0 .. m |-> IF i = m THEN F[m][g[l]] ELSE g[i]]
  <2>9. F[m][g[l]] \in V
    BY <2>6, <2>8
  <2>10. h \in [0 .. m -> V]
    BY <2>6, <2>9
  <2>11. ByRecursion(h, F, a, m)
    <3>1. h[0] = a
      BY <2>6, <2>8 DEF ByRecursion
    <3>2. ASSUME NEW i \in 1 .. m PROVE h[i] = F[i][h[i - 1]]
      <4>1. CASE i = m
        <5>1. h[i] = F[m][g[l]] /\ h[i - 1] = g[l]
          BY <4>1, <2>6
        <5> QED BY <5>1, <4>1
      <4>2. CASE i # m
        <5>1. i \in 1 .. l /\ h[i] = g[i] /\ h[i - 1] = g[i - 1]
          BY <4>2, <2>6
        <5>2. g[i] = F[i][g[i - 1]]
          BY <5>1, <2>8 DEF ByRecursion
        <5> QED BY <5>1, <5>2
      <4> QED BY <4>1, <4>2
    <3> QED BY <3>1, <3>2 DEF ByRecursion
  <2> HIDE DEF h
  <2> QED BY <2>2, <2>4, <2>10, <2>11
<1>2. n \in 0 .. n
  OBVIOUS
<1> QED BY <1>1, <1>2

LEMMA FrontProperties ==
  ASSUME NEW S, NEW s \in Seq(S), s # <<>>
  PROVE  /\ Len(s) \in Nat \ {0}
         /\ Front(s) \in Seq(S) /\ Len(Front(s)) = Len(s) - 1
         /\ Last(s) \in S /\ Last(s) = s[Len(s)]
         /\ \A j \in 1 .. Len(s) - 1 : Front(s)[j] = s[j]
<1>1. Len(s) \in Nat \ {0}
  OBVIOUS
<1>2. Last(s) \in S /\ Last(s) = s[Len(s)]
  BY <1>1 DEF Last
<1>3. Front(s) = SubSeq(s, 1, Len(s) - 1) /\ Len(s) - 1 <= Len(s) /\ Len(s) - 1 \in Nat
  BY <1>1 DEF Front
<1>4. \A j \in 1 .. Len(s) - 1 : s[j] \in S
  BY <1>1
<1>5. Front(s) \in Seq(S) /\ Len(Front(s)) = Len(s) - 1
      /\ \A j \in 1 .. Len(s) - 1 : Front(s)[j] = s[j]
  <2> DEFINE m == Len(s) - 1
  <2>1. m \in 0 .. Len(s) /\ \A i \in 1 .. m : s[i] \in S
    BY <1>1
  <2>2. SubSeq(s, 1, m) \in Seq(S) /\ Len(SubSeq(s, 1, m)) = m
        /\ \A j \in 1 .. m : SubSeq(s, 1, m)[j] = s[j]
    <3> HIDE DEF m
    <3> QED BY <2>1
  <2> QED BY <1>3, <2>2
<1> QED BY <1>1, <1>2, <1>5

-----------------------------------------------------------------------------
(* What the machine's memory holds. *)
Val  == Value \cup {Unbound}
Slot == Val \cup ContRecord \cup EnvRecord
HeapEnvRecord  == [vars : Seq(Val), next : HeapRef, id : Nat]
HeapContRecord == [env : HeapRef, stk : Seq(Slot), conr : HeapRef]
Memory == [stk : Seq(Slot), henv : Seq(HeapEnvRecord), hcont : Seq(HeapContRecord)]

EnvRefs(m)  == {Nil} \cup {In(a) : a \in DOMAIN m.henv}
ContRefs(K) == {Nil} \cup {In(k) : k \in 1 .. K}

-----------------------------------------------------------------------------
(* References and slots are told apart. *)
LEMMA Refs ==
  /\ Nil \in HeapRef /\ ~OnStack(Nil) /\ ~InHeap(Nil)
  /\ \A p : At(p) # Nil /\ OnStack(At(p)) /\ ~InHeap(At(p)) /\ At(p)[2] = p
  /\ \A a : In(a) # Nil /\ InHeap(In(a)) /\ ~OnStack(In(a)) /\ In(a)[2] = a
  /\ \A p \in Nat : At(p) \in Ref /\ At(p) \notin HeapRef
  /\ \A a \in Nat : In(a) \in HeapRef
  /\ HeapRef \subseteq Ref
BY DEF Nil, At, In, OnStack, InHeap, HeapRef, Ref

LEMMA RefCases ==
  /\ \A r \in HeapRef : ~OnStack(r) /\ (r = Nil \/ \E a \in Nat : r = In(a))
  /\ \A r \in Ref : r \in HeapRef \/ \E p \in Nat : r = At(p)
BY DEF Nil, At, In, OnStack, InHeap, HeapRef, Ref

LEMMA RefsDiffer ==
  /\ \A a, b : At(a) = At(b) => a = b
  /\ \A a, b : In(a) = In(b) => a = b
  /\ \A a, b : At(a) # In(b)
BY DEF At, In

LEMMA Kinds ==
  /\ \A v \in Val : IsValue(v) /\ v \notin ContRecord /\ v \notin EnvRecord
  /\ \A s \in ContRecord : ~IsValue(s) /\ IsCont(s) /\ s \notin EnvRecord
  /\ \A s \in EnvRecord : ~IsValue(s) /\ ~IsCont(s) /\ IsEnv(s)
<1>1. \A s \in ContRecord : "conr" \in DOMAIN s /\ "count" \notin DOMAIN s
  BY DEF ContRecord
<1>2. \A s \in EnvRecord : "conr" \notin DOMAIN s /\ "count" \in DOMAIN s
  BY DEF EnvRecord
<1> QED BY <1>1, <1>2, ValuesAreNotFrames DEF Val, IsValue, IsCont, IsEnv

LEMMA MemoryFacts ==
  ASSUME NEW m \in Memory
  PROVE  /\ m.stk \in Seq(Slot) /\ m.henv \in Seq(HeapEnvRecord) /\ m.hcont \in Seq(HeapContRecord)
         /\ Len(m.stk) \in Nat /\ DOMAIN m.stk = 1 .. Len(m.stk)
         /\ Len(m.henv) \in Nat /\ DOMAIN m.henv = 1 .. Len(m.henv)
         /\ Len(m.hcont) \in Nat /\ DOMAIN m.hcont = 1 .. Len(m.hcont)
         /\ \A p \in DOMAIN m.stk : m.stk[p] \in Slot
         /\ \A a \in DOMAIN m.henv : m.henv[a] \in HeapEnvRecord
         /\ \A k \in DOMAIN m.hcont : m.hcont[k] \in HeapContRecord
BY DEF Memory

LEMMA RecordFacts ==
  /\ \A s \in ContRecord : s.fn \in Nat /\ s.env \in Ref /\ s.conr \in Ref
  /\ \A s \in EnvRecord : s.count \in Nat /\ s.next \in Ref /\ s.id \in Nat
  /\ \A s \in HeapEnvRecord : s.vars \in Seq(Val) /\ s.next \in HeapRef /\ s.id \in Nat
  /\ \A s \in HeapContRecord : s.env \in HeapRef /\ s.stk \in Seq(Slot) /\ s.conr \in HeapRef
BY DEF ContRecord, EnvRecord, HeapEnvRecord, HeapContRecord

-----------------------------------------------------------------------------
(* The chain of a continuation is the one sequence that begins with it and *)
(* goes on as nextcont does, up to CNIL.                                   *)
IsChain(m, c, s) ==
  /\ c = IF s = <<>> THEN Nil ELSE s[1]
  /\ \A i \in 1 .. Len(s) :
       s[i] # Nil /\ NextCont(m, s[i]) = IF i = Len(s) THEN Nil ELSE s[i + 1]

LEMMA MostIs ==
  ASSUME NEW m, NEW a \in Nat, NEW b \in Nat, a = Len(m.stk), b = Len(m.hcont)
  PROVE  Most(m) = a + b
BY DEF Most

LEMMA ChainIs ==
  ASSUME NEW m \in Memory, NEW c, NEW R, NEW s \in Seq(R), IsChain(m, c, s), Len(s) <= Most(m)
  PROVE  Chain(m, c) = s
<1> DEFINE N == Most(m)
           g == [i \in 0 .. N |-> IF i < Len(s) THEN s[i + 1] ELSE Nil]
           E(f) == [i \in 0 .. N |-> IF i = 0 THEN c ELSE NextCont(m, f[i - 1])]
           nth == CHOOSE f : f = E(f)
           n == CHOOSE k \in 0 .. N : nth[k] = Nil /\ \A i \in 0 .. k - 1 : nth[i] # Nil
<1>0. Most(m) \in Nat
  <2>1. Len(m.stk) \in Nat /\ Len(m.hcont) \in Nat
    BY MemoryFacts
  <2>2. PICK a \in Nat, b \in Nat : a = Len(m.stk) /\ b = Len(m.hcont)
    BY <2>1
  <2>3. Most(m) = a + b
    BY <2>2, MostIs
  <2> QED BY <2>3
<1>1. N \in Nat /\ Len(s) \in Nat /\ Len(s) <= N
  BY <1>0
<1> HIDE DEF N
<1>2. NextCont(m, Nil) = Nil
  BY DEF NextCont
<1>3. g = E(g)
  <2>1. ASSUME NEW i \in 0 .. N PROVE g[i] = IF i = 0 THEN c ELSE NextCont(m, g[i - 1])
    <3>1. CASE i = 0
      BY <3>1, <1>1 DEF IsChain
    <3>2. CASE i # 0 /\ i <= Len(s)
      <4>1. i \in 1 .. Len(s) /\ i - 1 \in 0 .. N /\ g[i - 1] = s[i]
        BY <3>2, <1>1
      <4>2. g[i] = IF i = Len(s) THEN Nil ELSE s[i + 1]
        BY <3>2, <1>1
      <4> QED BY <3>2, <4>1, <4>2 DEF IsChain
    <3>3. CASE i # 0 /\ ~(i <= Len(s))
      <4>1. i - 1 \in 0 .. N /\ g[i - 1] = Nil /\ g[i] = Nil
        BY <3>3, <1>1
      <4> QED BY <3>3, <4>1, <1>2
    <3> QED BY <3>1, <3>2, <3>3
  <2>2. g = [i \in 0 .. N |-> g[i]]
    OBVIOUS
  <2> HIDE DEF g
  <2>3. [i \in 0 .. N |-> g[i]] = E(g)
    BY <2>1
  <2> QED BY <2>2, <2>3
<1>4. nth = E(nth)
  <2> HIDE DEF g, E
  <2> QED BY <1>3
<1> HIDE DEF nth
<1>5. \A i \in 0 .. N : nth[i] = g[i]
  <2> DEFINE S == {i \in 0 .. N : nth[i] = g[i]}
  <2>0. /\ \A i \in 0 .. N : nth[i] = IF i = 0 THEN c ELSE NextCont(m, nth[i - 1])
        /\ \A i \in 0 .. N : g[i] = IF i = 0 THEN c ELSE NextCont(m, g[i - 1])
    <3>1. \A i \in 0 .. N : E(nth)[i] = IF i = 0 THEN c ELSE NextCont(m, nth[i - 1])
      OBVIOUS
    <3>2. \A i \in 0 .. N : E(g)[i] = IF i = 0 THEN c ELSE NextCont(m, g[i - 1])
      OBVIOUS
    <3> HIDE DEF g, E
    <3> QED BY <1>3, <1>4, <3>1, <3>2
  <2> HIDE DEF g
  <2>1. 0 \in S
    BY <2>0, <1>1
  <2>2. \A i \in 1 .. N : i - 1 \in S => i \in S
    BY <2>0, <1>1
  <2>3. S \in SUBSET (0 .. N)
    OBVIOUS
  <2>4. \A i \in S : nth[i] = g[i]
    OBVIOUS
  <2> HIDE DEF S
  <2>5. S = 0 .. N
    BY <1>1, <2>1, <2>2, <2>3, UpTo
  <2> QED BY <2>4, <2>5
<1>6. \A i \in 0 .. N : nth[i] = Nil <=> i >= Len(s)
  <2>1. \A i \in 0 .. N : i < Len(s) => s[i + 1] # Nil
    BY <1>1 DEF IsChain
  <2> QED BY <1>1, <1>5, <2>1
<1>7. n = Len(s)
  <2>1. Len(s) \in 0 .. N /\ nth[Len(s)] = Nil /\ \A i \in 0 .. Len(s) - 1 : nth[i] # Nil
    BY <1>1, <1>6
  <2>2. \A k \in 0 .. N : nth[k] = Nil /\ (\A i \in 0 .. k - 1 : nth[i] # Nil) => k = Len(s)
    <3> SUFFICES ASSUME NEW k \in 0 .. N, nth[k] = Nil, \A i \in 0 .. k - 1 : nth[i] # Nil, k # Len(s)
                 PROVE  FALSE
      OBVIOUS
    <3>1. k > Len(s)
      BY <1>1, <1>6
    <3>2. Len(s) \in 0 .. k - 1
      BY <1>1, <3>1
    <3> QED BY <2>1, <3>2
  <2> QED BY <2>1, <2>2
<1>8. Chain(m, c) = [i \in 1 .. n |-> nth[i - 1]]
  BY DEF Chain, nth, N
<1> HIDE DEF n
<1>9. ASSUME NEW i \in 1 .. Len(s) PROVE nth[i - 1] = s[i]
  BY <1>1, <1>5
<1>10. s = [i \in 1 .. Len(s) |-> s[i]]
  OBVIOUS
<1> QED BY <1>7, <1>8, <1>9, <1>10

-----------------------------------------------------------------------------
(***************************************************************************)
(* The frames of the stack.  P is the positions of the continuations that  *)
(* are still there, from the register on; from the last one, or from the   *)
(* register if there is none, the chain goes on in the first K             *)
(* continuations of the heap.                                              *)
(***************************************************************************)

(* An environment on the stack ends where the frame that runs in it begins. *)
StackEnv(m, f) ==
  /\ f \in 1 .. Len(m.stk) /\ m.stk[f] \in EnvRecord
  /\ m.stk[f].count < f /\ m.stk[f].next \in EnvRefs(m)
  /\ \A i \in f - m.stk[f].count .. f - 1 : m.stk[i] \in Val
FrameEnv(m, f, e) == e \in EnvRefs(m) \/ (e = At(f) /\ StackEnv(m, f))

(* The frame above P[i + 1] begins at f, has the environment e and returns *)
(* to c; the continuations above f are its own.                            *)
Linked(P, i, c, K) == IF i = Len(P) THEN c \in ContRefs(K) ELSE c = At(P[i + 1])
Nested(m, P, i, f) == \A j \in i + 1 .. Len(P) : P[j] > f => m.stk[P[j]].fn = f
Frame(m, P, i, f, e, c, K) == FrameEnv(m, f, e) /\ Linked(P, i, c, K) /\ Nested(m, P, i, f)

Suspended(m, P, K) ==
  /\ P \in Seq(Nat)
  /\ \A i, j \in 1 .. Len(P) : i < j => P[j] < P[i]
  /\ \A i \in 1 .. Len(P) :
       /\ P[i] \in 1 .. Len(m.stk)
       /\ m.stk[P[i]] \in ContRecord /\ m.stk[P[i]].fn < P[i]
       /\ Frame(m, P, i, m.stk[P[i]].fn, m.stk[P[i]].env, m.stk[P[i]].conr, K)

(* What an environment is to the program, and the environments that the    *)
(* machine may still use: e is the register.                               *)
View(m, e) == [vars |-> [i \in 1 .. Count(m, e) |-> EnvVal(m, e, i)], next |-> Id(m, NextEnv(m, e))]
StackEnvs(m, P) == {m.stk[P[i]].env : i \in 1 .. Len(P)}
Live(m, P, e) == ({e} \cup StackEnvs(m, P) \cup EnvRefs(m)) \ {Nil}
Represents(m, R, st) ==
  /\ \A r \in R : Id(m, r) \in DOMAIN st /\ st[Id(m, r)] = View(m, r)
  /\ \A r, s \in R : Id(m, r) = Id(m, s) => r = s

(* The heap: a continuation there goes on with continuations there.        *)
HeapChain(m, k, K) ==
  \E s \in Seq(ContRefs(K)) : IsChain(m, In(k), s) /\ Len(s) <= K
Heap(m, K) ==
  /\ \A a \in 1 .. Len(m.henv) : m.henv[a].next \in EnvRefs(m)
  /\ K \in 0 .. Len(m.hcont)
  /\ \A k \in 1 .. K : m.hcont[k].env \in EnvRefs(m) /\ HeapChain(m, k, K)

Machine(m, P, f, e, c, K, st) ==
  /\ m \in Memory /\ f \in 0 .. Len(m.stk)
  /\ Suspended(m, P, K) /\ Frame(m, P, 0, f, e, c, K)
  /\ Heap(m, K) /\ Represents(m, Live(m, P, e), st)

-----------------------------------------------------------------------------
(* Where the chain leaves the stack, and the part of it before that. *)
Base(m, P, c) == IF P = <<>> THEN c ELSE m.stk[P[Len(P)]].conr
OnStackPart(P) == [i \in 1 .. Len(P) |-> At(P[i])]

LEMMA HeapChains ==
  ASSUME NEW m, NEW K \in Nat, Heap(m, K), NEW c \in ContRefs(K)
  PROVE  \E s \in Seq(ContRefs(K)) : IsChain(m, c, s) /\ Len(s) <= K
<1>1. CASE c = Nil
  <2>1. <<>> \in Seq(ContRefs(K)) /\ IsChain(m, c, <<>>) /\ Len(<<>>) <= K
    BY <1>1 DEF IsChain
  <2> QED BY <2>1
<1>2. CASE c # Nil
  <2>1. PICK k \in 1 .. K : c = In(k)
    BY <1>2 DEF ContRefs
  <2> QED BY <2>1 DEF Heap, HeapChain
<1> QED BY <1>1, <1>2

LEMMA FewFrames ==
  ASSUME NEW m, NEW P, NEW K, Suspended(m, P, K), Len(m.stk) \in Nat
  PROVE  Len(P) \in 0 .. Len(m.stk)
<1>1. P \in Seq(Nat) /\ Len(P) \in Nat
  BY DEF Suspended
<1>2. CASE P = <<>>
  BY <1>2
<1>3. CASE P # <<>>
  <2> DEFINE n == Len(P) - 1
             S == {i \in 0 .. n : P[i + 1] + i <= Len(m.stk)}
  <2>1. n \in Nat /\ n + 1 = Len(P)
    BY <1>1, <1>3
  <2>2. /\ \A i \in 0 .. n : P[i + 1] \in Nat /\ P[i + 1] <= Len(m.stk) /\ P[i + 1] > 0
        /\ \A i \in 1 .. n : P[i + 1] < P[i]
    BY <1>1, <2>1 DEF Suspended
  <2> HIDE DEF n
  <2>3. 0 \in S
    <3>1. 0 \in 0 .. n /\ 0 + 1 = 1
      BY <2>1
    <3>2. P[0 + 1] \in Nat /\ P[0 + 1] <= Len(m.stk)
      BY <2>2, <3>1
    <3> QED BY <3>1, <3>2
  <2>4. ASSUME NEW i \in 1 .. n, i - 1 \in S PROVE i \in S
    <3>1. i - 1 \in 0 .. n /\ P[i - 1 + 1] + (i - 1) <= Len(m.stk) /\ i - 1 + 1 = i
      BY <2>1, <2>4
    <3>2. P[i - 1 + 1] = P[i] /\ P[i] + (i - 1) <= Len(m.stk)
      BY <3>1
    <3>3. P[i] \in Nat
      BY <2>2, <3>1
    <3>4. P[i + 1] \in Nat /\ P[i + 1] < P[i] /\ i \in Nat /\ i \in 0 .. n
      BY <2>1, <2>2
    <3>5. P[i + 1] + i <= Len(m.stk)
      BY <3>2, <3>3, <3>4
    <3> QED BY <3>4, <3>5
  <2>5. S \in SUBSET (0 .. n) /\ \A i \in S : P[i + 1] + i <= Len(m.stk)
    OBVIOUS
  <2> HIDE DEF S
  <2>6. S = 0 .. n
    BY <2>1, <2>3, <2>4, <2>5, UpTo
  <2>7. P[n + 1] + n <= Len(m.stk) /\ P[n + 1] \in Nat /\ P[n + 1] > 0
    BY <2>1, <2>2, <2>5, <2>6
  <2> QED BY <2>1, <2>7
<1> QED BY <1>2, <1>3

(* The chain of the register: the continuations of P, then the base's.     *)
LEMMA RegisterChain ==
  ASSUME NEW m \in Memory, NEW P, NEW c, NEW K \in Nat, Suspended(m, P, K), Linked(P, 0, c, K),
         NEW t \in Seq(ContRefs(K)), IsChain(m, Base(m, P, c), t)
  PROVE  /\ OnStackPart(P) \o t \in Seq(Ref)
         /\ IsChain(m, c, OnStackPart(P) \o t)
         /\ Base(m, P, c) \in ContRefs(K)
<1> DEFINE q == OnStackPart(P)
           s == q \o t
           n == Len(P)
<1>1. n \in Nat /\ P \in Seq(Nat)
  BY DEF Suspended
<1>2. ContRefs(K) \subseteq Ref
  BY Refs DEF ContRefs
<1>3. t \in Seq(Ref) /\ Len(t) \in Nat
  BY <1>2
<1>4. q \in Seq(Ref) /\ Len(q) = n /\ \A i \in 1 .. n : q[i] = At(P[i])
  BY <1>1, Refs DEF OnStackPart
<1> HIDE DEF q
<1>5. s \in Seq(Ref) /\ Len(s) = n + Len(t)
  BY <1>3, <1>4
<1>6. /\ \A i \in 1 .. n : s[i] = At(P[i])
      /\ \A i \in n + 1 .. n + Len(t) : s[i] = t[i - n]
  BY <1>1, <1>3, <1>4
<1> HIDE DEF s
<1>7. Base(m, P, c) \in ContRefs(K)
  BY <1>1 DEF Base, Suspended, Frame, Linked
<1>8. \A i \in 1 .. n : /\ At(P[i]) # Nil
                       /\ NextCont(m, At(P[i])) = m.stk[P[i]].conr
                       /\ m.stk[P[i]].conr = IF i = n THEN Base(m, P, c) ELSE At(P[i + 1])
  <2>1. \A i \in 1 .. n : NextCont(m, At(P[i])) = m.stk[P[i]].conr
    BY <1>1, Refs DEF NextCont
  <2>2. \A i \in 1 .. n : Linked(P, i, m.stk[P[i]].conr, K)
    BY <1>1 DEF Suspended, Frame
  <2>3. n # 0 => Base(m, P, c) = m.stk[P[n]].conr
    BY <1>1 DEF Base
  <2> QED BY <1>1, <2>1, <2>2, <2>3, Refs DEF Linked
<1>9. Base(m, P, c) = IF Len(t) = 0 THEN Nil ELSE t[1]
  BY <1>3 DEF IsChain
<1>10. \A i \in 1 .. Len(t) : t[i] # Nil /\ NextCont(m, t[i]) = IF i = Len(t) THEN Nil ELSE t[i + 1]
  BY DEF IsChain
<1>11. c = IF s = <<>> THEN Nil ELSE s[1]
  <2>1. CASE n = 0
    <3>1. c = Base(m, P, c) /\ (s = <<>> <=> Len(t) = 0)
      BY <2>1, <1>1, <1>5 DEF Base
    <3>2. Len(t) # 0 => s[1] = t[1]
      BY <2>1, <1>3, <1>6
    <3> QED BY <3>1, <3>2, <1>9
  <2>2. CASE n # 0
    <3>1. s # <<>> /\ s[1] = At(P[1])
      BY <2>2, <1>1, <1>3, <1>5, <1>6
    <3> QED BY <3>1, <2>2 DEF Linked
  <2> QED BY <2>1, <2>2
<1>12. ASSUME NEW i \in 1 .. n + Len(t)
       PROVE  s[i] # Nil /\ NextCont(m, s[i]) = IF i = n + Len(t) THEN Nil ELSE s[i + 1]
  <2>1. CASE i < n
    <3>1. i \in 1 .. n /\ i + 1 \in 1 .. n /\ i # n /\ i # n + Len(t)
      BY <2>1, <1>1, <1>3
    <3>2. s[i] = At(P[i]) /\ s[i + 1] = At(P[i + 1])
      BY <3>1, <1>6
    <3> QED BY <3>1, <3>2, <1>8
  <2>2. CASE i = n
    <3>1. s[i] = At(P[i]) /\ NextCont(m, s[i]) = Base(m, P, c) /\ s[i] # Nil
      BY <2>2, <1>1, <1>6, <1>8
    <3>2. Len(t) # 0 => s[i + 1] = t[1]
      BY <2>2, <1>1, <1>3, <1>6
    <3> QED BY <2>2, <3>1, <3>2, <1>1, <1>3, <1>9
  <2>3. CASE i > n
    <3>1. i - n \in 1 .. Len(t) /\ s[i] = t[i - n]
      BY <2>3, <1>1, <1>3, <1>6
    <3>2. ASSUME i # n + Len(t) PROVE s[i + 1] = t[i - n + 1]
      <4>1. i + 1 \in n + 1 .. n + Len(t) /\ i + 1 - n = i - n + 1
        BY <2>3, <3>2, <1>1, <1>3
      <4> QED BY <4>1, <1>6
    <3>3. i = n + Len(t) <=> i - n = Len(t)
      BY <1>1, <1>3
    <3> QED BY <3>1, <3>2, <3>3, <1>10
  <2> QED BY <2>1, <2>2, <2>3, <1>1, <1>3
<1>13. IsChain(m, c, s)
  BY <1>5, <1>11, <1>12 DEF IsChain
<1> QED BY <1>5, <1>7, <1>13 DEF s, q

LEMMA RegisterChainIs ==
  ASSUME NEW m \in Memory, NEW P, NEW c, NEW K \in Nat, Suspended(m, P, K), Linked(P, 0, c, K), Heap(m, K)
  PROVE  /\ Base(m, P, c) \in ContRefs(K)
         /\ \E t \in Seq(ContRefs(K)) :
              /\ IsChain(m, Base(m, P, c), t) /\ Len(t) <= K
              /\ Chain(m, c) = OnStackPart(P) \o t
<1>1. Base(m, P, c) \in ContRefs(K)
  BY DEF Base, Suspended, Frame, Linked
<1>2. PICK t \in Seq(ContRefs(K)) : IsChain(m, Base(m, P, c), t) /\ Len(t) <= K
  BY <1>1, HeapChains
<1>3. OnStackPart(P) \o t \in Seq(Ref) /\ IsChain(m, c, OnStackPart(P) \o t)
  BY <1>2, RegisterChain
<1>4. Len(OnStackPart(P) \o t) <= Most(m)
  <2>1. Len(m.stk) \in Nat /\ Len(m.hcont) \in Nat
    BY MemoryFacts
  <2>2. Len(P) \in 0 .. Len(m.stk) /\ K <= Len(m.hcont)
    BY <2>1, FewFrames DEF Heap
  <2>3. OnStackPart(P) \in Seq({At(P[i]) : i \in 1 .. Len(P)}) /\ Len(OnStackPart(P)) = Len(P)
    BY <2>2 DEF OnStackPart
  <2>4. Len(OnStackPart(P) \o t) = Len(P) + Len(t) /\ Len(t) \in Nat
    BY <2>3
  <2>5. PICK a \in Nat, b \in Nat : a = Len(m.stk) /\ b = Len(m.hcont)
    BY <2>1
  <2>6. Most(m) = a + b
    BY <2>5, MostIs
  <2>7. Len(P) <= a /\ Len(t) <= b /\ Len(P) \in Nat
    BY <1>2, <2>2, <2>4, <2>5
  <2> QED BY <2>4, <2>6, <2>7
<1>5. Chain(m, c) = OnStackPart(P) \o t
  BY <1>3, <1>4, ChainIs
<1> QED BY <1>1, <1>2, <1>5

LEMMA OnStackPartIs ==
  ASSUME NEW P \in Seq(Nat)
  PROVE  /\ OnStackPart(P) \in Seq(Ref) /\ Len(OnStackPart(P)) = Len(P)
         /\ \A i \in 1 .. Len(P) : OnStackPart(P)[i] = At(P[i])
BY Refs DEF OnStackPart

LEMMA Joined ==
  ASSUME NEW S, NEW q \in Seq(S), NEW T, NEW t \in Seq(T)
  PROVE  /\ q \o t \in Seq(S \cup T)
         /\ Len(q \o t) = Len(q) + Len(t) /\ DOMAIN (q \o t) = 1 .. Len(q) + Len(t)
         /\ \A i \in 1 .. Len(q) : (q \o t)[i] = q[i]
         /\ \A i \in Len(q) + 1 .. Len(q) + Len(t) : (q \o t)[i] = t[i - Len(q)]
<1>1. q \in Seq(S \cup T) /\ t \in Seq(S \cup T) /\ Len(q) \in Nat /\ Len(t) \in Nat
  OBVIOUS
<1>2. /\ q \o t \in Seq(S \cup T)
      /\ Len(q \o t) = Len(q) + Len(t)
      /\ \A i \in 1 .. Len(q) + Len(t) : (q \o t)[i] =
                  IF i <= Len(q) THEN q[i] ELSE t[i - Len(q)]
  BY <1>1, ConcatProperties
<1>3. DOMAIN (q \o t) = 1 .. Len(q \o t)
  BY <1>2, LenProperties
<1> QED BY <1>1, <1>2, <1>3

LEMMA Prepended ==
  ASSUME NEW S, NEW h \in S, NEW t \in Seq(S)
  PROVE  /\ <<h>> \o t \in Seq(S) /\ Len(<<h>> \o t) = Len(t) + 1
         /\ (<<h>> \o t)[1] = h /\ \A i \in 1 .. Len(t) : (<<h>> \o t)[i + 1] = t[i]
<1> DEFINE o == <<h>>
<1>1. o \in Seq(S) /\ Len(o) = 1 /\ o[1] = h
  OBVIOUS
<1> HIDE DEF o
<1>2. o \o t \in Seq(S) /\ Len(o \o t) = Len(o) + Len(t)
      /\ \A i \in 1 .. Len(o) + Len(t) : (o \o t)[i] = IF i <= Len(o) THEN o[i] ELSE t[i - Len(o)]
  BY <1>1, ConcatProperties
<1>3. Len(t) \in Nat
  OBVIOUS
<1>4. (o \o t)[1] = h
  BY <1>1, <1>2, <1>3
<1>5. ASSUME NEW i \in 1 .. Len(t) PROVE (o \o t)[i + 1] = t[i]
  <2>1. i + 1 \in 1 .. 1 + Len(t) /\ ~(i + 1 <= 1) /\ i + 1 - 1 = i
    BY <1>3
  <2> QED BY <1>1, <1>2, <2>1
<1> QED BY <1>1, <1>2, <1>3, <1>4, <1>5 DEF o

LEMMA ChainParts ==
  ASSUME NEW m \in Memory, NEW P, NEW c, NEW K \in Nat, Suspended(m, P, K), Linked(P, 0, c, K), Heap(m, K)
  PROVE  \E l \in Nat :
           /\ DOMAIN Chain(m, c) = 1 .. Len(P) + l
           /\ \A i \in 1 .. Len(P) : Chain(m, c)[i] = At(P[i])
           /\ \A i \in Len(P) + 1 .. Len(P) + l : ~OnStack(Chain(m, c)[i])
<1>1. PICK t \in Seq(ContRefs(K)) : Chain(m, c) = OnStackPart(P) \o t
  BY RegisterChainIs
<1> DEFINE s == Chain(m, c)
           q == OnStackPart(P)
           n == Len(P)
<1>2. n \in Nat
  BY DEF Suspended
<1>3. q \in Seq(Ref) /\ Len(q) = n /\ \A i \in 1 .. n : q[i] = At(P[i])
  BY OnStackPartIs DEF Suspended
<1>4. \A i \in 1 .. Len(t) : t[i] \in ContRefs(K) /\ ~OnStack(t[i])
  BY Refs DEF ContRefs
<1>5. s = q \o t
  BY <1>1
<1> HIDE DEF s, q, n
<1>6. /\ DOMAIN s = 1 .. n + Len(t) /\ Len(t) \in Nat
      /\ \A i \in 1 .. n : s[i] = q[i]
      /\ \A i \in n + 1 .. n + Len(t) : s[i] = t[i - n]
  BY <1>3, <1>5, Joined
<1>7. ASSUME NEW i \in n + 1 .. n + Len(t) PROVE ~OnStack(s[i])
  <2>1. i - n \in 1 .. Len(t)
    BY <1>2, <1>6
  <2> QED BY <2>1, <1>4, <1>6
<1> QED BY <1>3, <1>6, <1>7 DEF s, n

(* The frames that env2heap updates, and the continuations that cont2heap  *)
(* moves.                                                                  *)
LEMMA UsersAre ==
  ASSUME NEW m \in Memory, NEW P, NEW K \in Nat, Suspended(m, P, K), Linked(P, 0, conr, K), Heap(m, K)
  PROVE  {r[2] : r \in {s \in ToSet(Chain(m, conr)) : OnStack(s)}} = {P[i] : i \in 1 .. Len(P)}
<1> DEFINE s == Chain(m, conr)
           n == Len(P)
<1>2. n \in Nat
  BY DEF Suspended
<1>3. PICK l \in Nat : /\ DOMAIN s = 1 .. n + l
                       /\ \A i \in 1 .. n : s[i] = At(P[i])
                       /\ \A i \in n + 1 .. n + l : ~OnStack(s[i])
  BY ChainParts
<1> HIDE DEF s
<1>6. \A i \in 1 .. n : OnStack(At(P[i])) /\ At(P[i])[2] = P[i] /\ i \in 1 .. n + l
  BY <1>2, Refs
<1>7. {r \in ToSet(s) : OnStack(r)} = {At(P[i]) : i \in 1 .. n}
  <2>1. ASSUME NEW r \in ToSet(s), OnStack(r) PROVE r \in {At(P[i]) : i \in 1 .. n}
    <3>1. PICK i \in 1 .. n + l : r = s[i]
      BY <1>3 DEF ToSet
    <3>2. i \in 1 .. n
      BY <3>1, <2>1, <1>2, <1>3
    <3> QED BY <3>1, <3>2, <1>3
  <2>2. ASSUME NEW i \in 1 .. n PROVE At(P[i]) \in ToSet(s) /\ OnStack(At(P[i]))
    BY <1>3, <1>6 DEF ToSet
  <2> QED BY <2>1, <2>2
<1>8. {r[2] : r \in {At(P[i]) : i \in 1 .. n}} = {P[i] : i \in 1 .. n}
  BY <1>6
<1> QED BY <1>7, <1>8 DEF s

LEMMA DepthIs ==
  ASSUME NEW P, Now \in Memory, NEW K \in Nat, Suspended(Now, P, K), Linked(P, 0, conr, K), Heap(Now, K)
  PROVE  Depth = Len(P) /\ \A i \in 1 .. Len(P) : Chain(Now, conr)[i] = At(P[i])
<1> DEFINE s == Chain(Now, conr)
           n == Len(P)
<1>2. n \in Nat
  BY DEF Suspended
<1>3. PICK l \in Nat : /\ DOMAIN s = 1 .. n + l
                       /\ \A i \in 1 .. n : s[i] = At(P[i])
                       /\ \A i \in n + 1 .. n + l : ~OnStack(s[i])
  BY ChainParts
<1>d. Depth = Cardinality({i \in DOMAIN s : OnStack(s[i])})
  BY DEF Depth
<1> HIDE DEF s
<1>9. {i \in DOMAIN s : OnStack(s[i])} = 1 .. n
  <2>1. ASSUME NEW i \in DOMAIN s, OnStack(s[i]) PROVE i \in 1 .. n
    BY <2>1, <1>2, <1>3
  <2>2. ASSUME NEW i \in 1 .. n PROVE i \in DOMAIN s /\ OnStack(s[i])
    BY <1>2, <1>3, Refs
  <2> QED BY <2>1, <2>2
<1>10. Cardinality(1 .. n) = n
  <2>1. 1 \in Int /\ n \in Int
    BY <1>2
  <2>2. Cardinality(1 .. n) = IF 1 > n THEN 0 ELSE n - 1 + 1
    BY ONLY <2>1, FS_Interval
  <2> QED BY <1>2, <2>2
<1> QED BY <1>d, <1>3, <1>9, <1>10 DEF s

-----------------------------------------------------------------------------
(***************************************************************************)
(* Environments: what the program sees of one, and what moving or keeping  *)
(* it has to preserve.                                                     *)
(***************************************************************************)
Same(m, r, x, s) == Id(x, s) = Id(m, r) /\ View(x, s) = View(m, r)

IsLive(m, r) == (\E a \in 1 .. Len(m.henv) : r = In(a)) \/ (\E g \in Nat : r = At(g) /\ StackEnv(m, g))

LEMMA EnvRefCases ==
  ASSUME NEW m, NEW r \in EnvRefs(m), DOMAIN m.henv = 1 .. Len(m.henv)
  PROVE  ~OnStack(r) /\ (r # Nil => \E a \in 1 .. Len(m.henv) : r = In(a))
BY Refs DEF EnvRefs

LEMMA LiveIs ==
  ASSUME NEW m \in Memory, NEW P, NEW K, Suspended(m, P, K), NEW f, NEW e, FrameEnv(m, f, e)
  PROVE  \A r \in Live(m, P, e) : IsLive(m, r) /\ r # Nil
<1>1. DOMAIN m.henv = 1 .. Len(m.henv) /\ Len(m.stk) \in Nat
  BY MemoryFacts
<1>2. ASSUME NEW g, NEW r, FrameEnv(m, g, r), r # Nil PROVE IsLive(m, r)
  <2>1. CASE r \in EnvRefs(m)
    BY <2>1, <1>1, <1>2, EnvRefCases DEF IsLive
  <2>2. CASE r = At(g) /\ StackEnv(m, g)
    <3>1. g \in Nat
      BY <2>2, <1>1 DEF StackEnv
    <3> QED BY <2>2, <3>1 DEF IsLive
  <2> QED BY <1>2, <2>1, <2>2 DEF FrameEnv
<1> SUFFICES ASSUME NEW r \in Live(m, P, e) PROVE IsLive(m, r) /\ r # Nil
  OBVIOUS
<1>3. r # Nil
  BY DEF Live
<1>4. CASE r = e
  BY <1>2, <1>3, <1>4
<1>5. CASE r \in EnvRefs(m)
  BY <1>2, <1>3, <1>5 DEF FrameEnv
<1>6. CASE r \in StackEnvs(m, P)
  <2>1. PICK i \in 1 .. Len(P) : r = m.stk[P[i]].env
    BY <1>6 DEF StackEnvs
  <2>2. FrameEnv(m, m.stk[P[i]].fn, r)
    BY <2>1 DEF Suspended, Frame
  <2> QED BY <1>2, <1>3, <2>2
<1> QED BY <1>3, <1>4, <1>5, <1>6 DEF Live

LEMMA HeapEnvIs ==
  ASSUME NEW m, NEW a
  PROVE  /\ Id(m, In(a)) = m.henv[a].id
         /\ NextEnv(m, In(a)) = m.henv[a].next
         /\ Count(m, In(a)) = Len(m.henv[a].vars)
         /\ \A i : EnvVal(m, In(a), i) = m.henv[a].vars[i]
BY Refs DEF Id, NextEnv, Count, EnvVal

LEMMA StackEnvIs ==
  ASSUME NEW m, NEW f
  PROVE  /\ Id(m, At(f)) = m.stk[f].id
         /\ NextEnv(m, At(f)) = m.stk[f].next
         /\ Count(m, At(f)) = m.stk[f].count
         /\ \A i : EnvVal(m, At(f), i) = m.stk[f - m.stk[f].count - 1 + i]
BY Refs DEF Id, NextEnv, Count, EnvVal, SlotOf

(* The same environment on the heap of both memories; one that is moved    *)
(* there; one that stays on the stack.                                     *)
LEMMA SameOnHeap ==
  ASSUME NEW m, NEW x, NEW a, NEW b, x.henv[b] = m.henv[a], Id(x, m.henv[a].next) = Id(m, m.henv[a].next)
  PROVE  Same(m, In(a), x, In(b))
<1>1. NextEnv(m, In(a)) = m.henv[a].next /\ NextEnv(x, In(b)) = m.henv[a].next
  BY HeapEnvIs
<1>2. Count(x, In(b)) = Count(m, In(a)) /\ \A i : EnvVal(x, In(b), i) = EnvVal(m, In(a), i)
  BY HeapEnvIs
<1>3. Id(x, In(b)) = Id(m, In(a))
  BY HeapEnvIs
<1> QED BY <1>1, <1>2, <1>3 DEF Same, View

LEMMA SameOnStack ==
  ASSUME NEW m \in Memory, NEW x, NEW f, StackEnv(m, f), f <= Len(x.stk), Len(x.stk) \in Nat,
         \A p \in f - m.stk[f].count .. f : x.stk[p] = m.stk[p],
         m.stk[f].next \in EnvRefs(x), Id(x, m.stk[f].next) = Id(m, m.stk[f].next)
  PROVE  StackEnv(x, f) /\ Same(m, At(f), x, At(f))
<1>1. f \in Nat /\ f > 0 /\ m.stk[f].count \in Nat /\ m.stk[f].count < f
  BY MemoryFacts, RecordFacts DEF StackEnv
<1>2. f \in f - m.stk[f].count .. f
  BY <1>1
<1>3. x.stk[f] = m.stk[f]
  BY <1>2
<1>4. StackEnv(x, f)
  BY <1>1, <1>3 DEF StackEnv
<1>5. NextEnv(x, At(f)) = m.stk[f].next /\ NextEnv(m, At(f)) = m.stk[f].next
  BY <1>3, StackEnvIs
<1>6. Count(x, At(f)) = m.stk[f].count /\ Count(m, At(f)) = m.stk[f].count /\ Id(x, At(f)) = Id(m, At(f))
  BY <1>3, StackEnvIs
<1>7. ASSUME NEW i \in 1 .. m.stk[f].count PROVE EnvVal(x, At(f), i) = EnvVal(m, At(f), i)
  <2>1. f - m.stk[f].count - 1 + i \in f - m.stk[f].count .. f
    BY <1>1
  <2> QED BY <2>1, <1>3, StackEnvIs
<1> QED BY <1>4, <1>5, <1>6, <1>7 DEF Same, View

(* What is represented stays so when each environment that is still live   *)
(* is one that was live before.                                            *)
LEMMA StillRepresents ==
  ASSUME NEW m, NEW x, NEW R, NEW S, NEW st, Represents(m, R, st),
         NEW was \in [S -> R], \A r \in S : Same(m, was[r], x, r),
         \A r, s \in S : was[r] = was[s] => r = s
  PROVE  Represents(x, S, st)
<1>1. ASSUME NEW r \in S PROVE Id(x, r) \in DOMAIN st /\ st[Id(x, r)] = View(x, r)
  BY DEF Represents, Same
<1>2. ASSUME NEW r \in S, NEW s \in S, Id(x, r) = Id(x, s) PROVE r = s
  <2>1. was[r] \in R /\ was[s] \in R /\ Id(m, was[r]) = Id(m, was[s])
    BY <1>2 DEF Same
  <2>2. was[r] = was[s]
    BY <2>1 DEF Represents
  <2> QED BY <2>2
<1> QED BY <1>1, <1>2 DEF Represents

LEMMA StillRepresentsFewer ==
  ASSUME NEW m, NEW x, NEW R, NEW S, NEW st, Represents(m, R, st),
         S \subseteq R, \A r \in S : Same(m, r, x, r)
  PROVE  Represents(x, S, st)
BY DEF Represents, Same

-----------------------------------------------------------------------------
(***************************************************************************)
(* What a step keeps that leaves the first n slots and the heap alone.     *)
(***************************************************************************)
Agree(m, x, n) ==
  /\ x.henv = m.henv /\ x.hcont = m.hcont
  /\ n \in Nat /\ n <= Len(m.stk) /\ n <= Len(x.stk)
  /\ \A p \in 1 .. n : x.stk[p] = m.stk[p]

LEMMA PartBounds ==
  ASSUME NEW n \in Nat, NEW p \in 1 .. n, NEW g \in Nat
  PROVE  g + 1 \in Nat \ {0} /\ p - 1 \in Nat /\ p - 1 <= n
OBVIOUS

LEMMA PartKept ==
  ASSUME NEW S, NEW s \in Seq(S), NEW t \in Seq(S), NEW a \in Nat \ {0}, NEW b \in Nat,
         b <= Len(s), b <= Len(t), \A i \in a .. b : s[i] = t[i]
  PROVE  SubSeq(s, a, b) = SubSeq(t, a, b)
<1>1. /\ SubSeq(s, a, b) = [i \in 1 .. 1 + b - a |-> s[i + a - 1]]
      /\ SubSeq(t, a, b) = [i \in 1 .. 1 + b - a |-> t[i + a - 1]]
  OBVIOUS
<1>2. \A i \in 1 .. 1 + b - a : i + a - 1 \in a .. b
  OBVIOUS
<1>3. \A i \in 1 .. 1 + b - a : s[i + a - 1] = t[i + a - 1]
  BY <1>2
<1> QED BY <1>1, <1>3

LEMMA SameIds ==
  ASSUME NEW m, NEW x, x.henv = m.henv
  PROVE  EnvRefs(x) = EnvRefs(m) /\ \A r \in EnvRefs(m) : Id(x, r) = Id(m, r)
<1>1. EnvRefs(x) = EnvRefs(m)
  BY DEF EnvRefs
<1>2. ASSUME NEW r \in EnvRefs(m) PROVE Id(x, r) = Id(m, r)
  <2>1. r = Nil \/ InHeap(r)
    BY Refs DEF EnvRefs
  <2> QED BY <2>1 DEF Id
<1> QED BY <1>1, <1>2

LEMMA SameHeapEnvs ==
  ASSUME NEW m, NEW x, x.henv = m.henv, DOMAIN m.henv = 1 .. Len(m.henv),
         \A a \in 1 .. Len(m.henv) : m.henv[a].next \in EnvRefs(m)
  PROVE  \A r \in EnvRefs(m) \ {Nil} : Same(m, r, x, r)
<1> SUFFICES ASSUME NEW r \in EnvRefs(m) \ {Nil} PROVE Same(m, r, x, r)
  OBVIOUS
<1>1. PICK a \in 1 .. Len(m.henv) : r = In(a)
  BY DEF EnvRefs
<1>2. x.henv[a] = m.henv[a] /\ Id(x, m.henv[a].next) = Id(m, m.henv[a].next)
  BY SameIds
<1> QED BY <1>1, <1>2, SameOnHeap

LEMMA FrameEnvKept ==
  ASSUME NEW m \in Memory, NEW x \in Memory, NEW K, Heap(m, K), NEW n, Agree(m, x, n),
         NEW f, NEW e, FrameEnv(m, f, e), f <= n
  PROVE  FrameEnv(x, f, e) /\ (e # Nil => Same(m, e, x, e))
<1>1. /\ DOMAIN m.henv = 1 .. Len(m.henv) /\ x.henv = m.henv
      /\ \A a \in 1 .. Len(m.henv) : m.henv[a].next \in EnvRefs(m)
  BY MemoryFacts DEF Agree, Heap
<1>2. EnvRefs(x) = EnvRefs(m) /\ \A r \in EnvRefs(m) : Id(x, r) = Id(m, r)
  BY <1>1, SameIds
<1>3. CASE e \in EnvRefs(m)
  BY <1>1, <1>2, <1>3, SameHeapEnvs DEF FrameEnv
<1>4. CASE e = At(f) /\ StackEnv(m, f)
  <2>1. Len(x.stk) \in Nat /\ f <= Len(x.stk)
    BY <1>4, MemoryFacts DEF Agree, StackEnv
  <2>2. m.stk[f].count \in Nat /\ f \in Nat /\ m.stk[f].count < f /\ n \in Nat
    BY <1>4, MemoryFacts, RecordFacts DEF StackEnv, Agree
  <2>3. f - m.stk[f].count .. f \subseteq 1 .. n
    BY <2>2
  <2>4. \A p \in f - m.stk[f].count .. f : x.stk[p] = m.stk[p]
    BY <2>3 DEF Agree
  <2>5. m.stk[f].next \in EnvRefs(m)
    BY <1>4 DEF StackEnv
  <2>6. StackEnv(x, f) /\ Same(m, At(f), x, At(f))
    BY <1>2, <1>4, <2>1, <2>4, <2>5, SameOnStack
  <2> QED BY <1>4, <2>6 DEF FrameEnv
<1> QED BY <1>3, <1>4 DEF FrameEnv

LEMMA SuspendedKept ==
  ASSUME NEW m \in Memory, NEW x \in Memory, NEW P, NEW K, Heap(m, K), Suspended(m, P, K),
         NEW n, Agree(m, x, n), \A i \in 1 .. Len(P) : P[i] <= n
  PROVE  /\ Suspended(x, P, K) /\ StackEnvs(x, P) = StackEnvs(m, P)
         /\ \A i \in 1 .. Len(P) : x.stk[P[i]] = m.stk[P[i]] /\ SavedStack(x, P[i]) = SavedStack(m, P[i])
         /\ \A r \in Live(m, P, Nil) : Same(m, r, x, r)
<1>1. ASSUME NEW i \in 1 .. Len(P)
      PROVE  /\ P[i] \in 1 .. n /\ P[i] \in 1 .. Len(x.stk)
             /\ x.stk[P[i]] = m.stk[P[i]]
             /\ m.stk[P[i]].fn \in Nat /\ m.stk[P[i]].fn < P[i]
  <2>1. P[i] \in 1 .. Len(m.stk) /\ m.stk[P[i]] \in ContRecord /\ m.stk[P[i]].fn < P[i]
    BY DEF Suspended
  <2>2. P[i] \in 1 .. n /\ P[i] \in 1 .. Len(x.stk)
    BY <2>1, MemoryFacts DEF Agree
  <2> QED BY <2>1, <2>2, RecordFacts DEF Agree
<1>2. ASSUME NEW i \in 1 .. Len(P)
      PROVE  /\ Frame(x, P, i, m.stk[P[i]].fn, m.stk[P[i]].env, m.stk[P[i]].conr, K)
             /\ m.stk[P[i]].env # Nil => Same(m, m.stk[P[i]].env, x, m.stk[P[i]].env)
  <2>1. Frame(m, P, i, m.stk[P[i]].fn, m.stk[P[i]].env, m.stk[P[i]].conr, K)
    BY DEF Suspended
  <2>2. m.stk[P[i]].fn <= n
    BY <1>1 DEF Agree
  <2>3. FrameEnv(m, m.stk[P[i]].fn, m.stk[P[i]].env)
    BY <2>1 DEF Frame
  <2>4. /\ FrameEnv(x, m.stk[P[i]].fn, m.stk[P[i]].env)
        /\ m.stk[P[i]].env # Nil => Same(m, m.stk[P[i]].env, x, m.stk[P[i]].env)
    BY <2>2, <2>3, FrameEnvKept
  <2>5. \A j \in i + 1 .. Len(P) : x.stk[P[j]] = m.stk[P[j]]
    <3>1. \A j \in i + 1 .. Len(P) : j \in 1 .. Len(P)
      BY DEF Suspended
    <3> QED BY <1>1, <3>1
  <2>6. Nested(x, P, i, m.stk[P[i]].fn)
    BY <2>1, <2>5 DEF Frame, Nested
  <2> QED BY <2>1, <2>4, <2>6 DEF Frame
<1>3. Suspended(x, P, K)
  <2>1. \A i \in 1 .. Len(P) : /\ x.stk[P[i]] \in ContRecord /\ x.stk[P[i]].fn < P[i]
                              /\ Frame(x, P, i, x.stk[P[i]].fn, x.stk[P[i]].env, x.stk[P[i]].conr, K)
    BY <1>1, <1>2 DEF Suspended
  <2> QED BY <1>1, <2>1 DEF Suspended
<1>4. StackEnvs(x, P) = StackEnvs(m, P)
  BY <1>1 DEF StackEnvs
<1>5. ASSUME NEW i \in 1 .. Len(P) PROVE SavedStack(x, P[i]) = SavedStack(m, P[i])
  <2>1. P[i] - 1 \in Nat /\ P[i] - 1 <= Len(x.stk) /\ P[i] - 1 <= Len(m.stk)
    BY <1>1, MemoryFacts DEF Agree
  <2>2. m.stk[P[i]].fn + 1 \in Nat \ {0}
    BY <1>1
  <2>3. ASSUME NEW p \in m.stk[P[i]].fn + 1 .. P[i] - 1 PROVE x.stk[p] = m.stk[p]
    <3>1. p \in 1 .. n
      BY <1>1 DEF Agree
    <3> QED BY <3>1 DEF Agree
  <2>4. x.stk \in Seq(Slot) /\ m.stk \in Seq(Slot)
    BY MemoryFacts
  <2> DEFINE a == m.stk[P[i]].fn + 1
             b == P[i] - 1
  <2>5. SavedStack(x, P[i]) = SubSeq(x.stk, a, b) /\ SavedStack(m, P[i]) = SubSeq(m.stk, a, b)
    BY <1>1 DEF SavedStack
  <2> HIDE DEF a, b
  <2>6. a \in Nat \ {0} /\ b \in Nat /\ b <= Len(x.stk) /\ b <= Len(m.stk)
    BY <2>1, <2>2 DEF a, b
  <2>7. \A p \in a .. b : x.stk[p] = m.stk[p]
    BY <2>3 DEF a, b
  <2>8. SubSeq(x.stk, a, b) = SubSeq(m.stk, a, b)
    BY ONLY <2>4, <2>6, <2>7, PartKept
  <2> QED BY <2>5, <2>8
<1>6. ASSUME NEW r \in Live(m, P, Nil) PROVE Same(m, r, x, r)
  <2>1. CASE r \in StackEnvs(m, P)
    BY <1>2, <2>1 DEF Live, StackEnvs
  <2>2. CASE r \in EnvRefs(m) \ {Nil}
    BY <2>2, MemoryFacts, SameHeapEnvs DEF Heap, Agree
  <2> QED BY <2>1, <2>2 DEF Live
<1> QED BY <1>1, <1>3, <1>4, <1>5, <1>6

(* The chains of the heap only depend on the heap. *)
LEMMA ChainKept ==
  ASSUME NEW m, NEW x, NEW K, NEW c, NEW s \in Seq(ContRefs(K)), IsChain(m, c, s),
         \A k \in 1 .. K : x.hcont[k].conr = m.hcont[k].conr
  PROVE  IsChain(x, c, s)
<1>1. ASSUME NEW i \in 1 .. Len(s) PROVE NextCont(x, s[i]) = NextCont(m, s[i])
  <2>1. s[i] \in ContRefs(K)
    OBVIOUS
  <2>2. s[i] = Nil \/ \E k \in 1 .. K : s[i] = In(k)
    BY <2>1 DEF ContRefs
  <2> QED BY <2>2, Refs DEF NextCont
<1> QED BY <1>1 DEF IsChain

LEMMA HeapKept ==
  ASSUME NEW m, NEW x, NEW K, Heap(m, K), x.henv = m.henv, x.hcont = m.hcont
  PROVE  Heap(x, K)
<1>1. EnvRefs(x) = EnvRefs(m)
  BY DEF EnvRefs
<1>2. ASSUME NEW k \in 1 .. K PROVE HeapChain(x, k, K)
  <2>1. PICK s \in Seq(ContRefs(K)) : IsChain(m, In(k), s) /\ Len(s) <= K
    BY DEF Heap, HeapChain
  <2>2. IsChain(x, In(k), s)
    BY <2>1, ChainKept
  <2> QED BY <2>1, <2>2 DEF HeapChain
<1> QED BY <1>1, <1>2 DEF Heap

-----------------------------------------------------------------------------
(***************************************************************************)
(* __arc_env2heap: what is the environment that ends at f in m is the last *)
(* environment of the heap in x.                                           *)
(***************************************************************************)
EnvMoved(m, x, P, f) ==
  /\ x \in Memory /\ x.hcont = m.hcont
  /\ Len(x.stk) = Len(m.stk) /\ Len(x.henv) = Len(m.henv) + 1
  /\ \A a \in 1 .. Len(m.henv) : x.henv[a] = m.henv[a]
  /\ x.henv[Len(m.henv) + 1] = [vars |-> View(m, At(f)).vars, next |-> m.stk[f].next, id |-> m.stk[f].id]
  /\ \A p \in 1 .. Len(m.stk) : (\A i \in 1 .. Len(P) : P[i] # p) => x.stk[p] = m.stk[p]
  /\ \A i \in 1 .. Len(P) :
       /\ x.stk[P[i]] \in ContRecord
       /\ x.stk[P[i]].fn = m.stk[P[i]].fn /\ x.stk[P[i]].conr = m.stk[P[i]].conr
       /\ x.stk[P[i]].env = IF m.stk[P[i]].env = At(f) THEN In(Len(m.henv) + 1) ELSE m.stk[P[i]].env

LEMMA EnvRefsAreOnHeap ==
  ASSUME NEW m \in Memory
  PROVE  EnvRefs(m) \subseteq HeapRef
<1>1. DOMAIN m.henv \subseteq Nat
  BY MemoryFacts
<1> QED BY <1>1, Refs DEF EnvRefs

LEMMA ViewVars ==
  ASSUME NEW m \in Memory, NEW f, StackEnv(m, f)
  PROVE  /\ View(m, At(f)).vars \in Seq(Val)
         /\ Len(View(m, At(f)).vars) = m.stk[f].count
         /\ \A i \in 1 .. m.stk[f].count : View(m, At(f)).vars[i] = EnvVal(m, At(f), i)
         /\ View(m, At(f)).vars = [i \in 1 .. m.stk[f].count |-> EnvVal(m, At(f), i)]
<1> DEFINE n == m.stk[f].count
           v == [i \in 1 .. n |-> EnvVal(m, At(f), i)]
<1>1. n \in Nat /\ f \in Nat /\ n < f
  BY MemoryFacts, RecordFacts DEF StackEnv
<1>2. Count(m, At(f)) = n
  BY StackEnvIs
<1>3. View(m, At(f)).vars = v
  BY <1>2 DEF View
<1>4. ASSUME NEW i \in 1 .. n PROVE EnvVal(m, At(f), i) \in Val
  <2>1. f - n - 1 + i \in f - n .. f - 1
    BY <1>1
  <2>2. m.stk[f - n - 1 + i] \in Val
    BY <2>1 DEF StackEnv
  <2> QED BY <2>2, StackEnvIs
<1> HIDE DEF n
<1>5. v \in Seq(Val) /\ Len(v) = n /\ \A i \in 1 .. n : v[i] = EnvVal(m, At(f), i)
  BY <1>1, <1>4
<1> QED BY <1>3, <1>5 DEF n

LEMMA Env2HeapMoves ==
  ASSUME NEW m \in Memory, NEW P, NEW K \in Nat, Suspended(m, P, K), Linked(P, 0, conr, K), Heap(m, K),
         NEW f, StackEnv(m, f)
  PROVE  /\ Env2Heap(m, At(f)).env = In(Len(m.henv) + 1)
         /\ EnvMoved(m, Env2Heap(m, At(f)).m, P, f)
<1> DEFINE a == Len(m.henv) + 1
           u == Updated(m, At(f), a)
           h == HeapEnv(m, At(f))
           x == [stk |-> u, henv |-> Append(m.henv, h), hcont |-> m.hcont]
           N == Len(m.stk)
<1>1. Env2Heap(m, At(f)).env = In(a) /\ Env2Heap(m, At(f)).m = x
  <2> HIDE DEF u, h
  <2> QED BY Refs DEF Env2Heap, u, h
<1>2. /\ DOMAIN m.stk = 1 .. N /\ N \in Nat /\ Len(m.henv) \in Nat /\ m.henv \in Seq(HeapEnvRecord)
      /\ m.hcont \in Seq(HeapContRecord) /\ \A p \in 1 .. N : m.stk[p] \in Slot
  BY MemoryFacts
<1>3. h = [vars |-> View(m, At(f)).vars, next |-> m.stk[f].next, id |-> m.stk[f].id]
  <2>1. NextEnv(m, At(f)) = m.stk[f].next /\ At(f)[2] = f
    BY StackEnvIs, Refs
  <2>2. [i \in 1 .. Count(m, At(f)) |-> EnvVal(m, At(f), i)] = View(m, At(f)).vars
    BY DEF View
  <2> QED BY <2>1, <2>2 DEF HeapEnv
<1>4. h \in HeapEnvRecord
  <2>1. m.stk[f].next \in HeapRef
    <3>1. m.stk[f].next \in EnvRefs(m)
      BY DEF StackEnv
    <3> QED BY <3>1, EnvRefsAreOnHeap
  <2>2. m.stk[f].id \in Nat /\ View(m, At(f)).vars \in Seq(Val)
    BY RecordFacts, ViewVars DEF StackEnv
  <2> QED BY <1>3, <2>1, <2>2 DEF HeapEnvRecord
<1>5. u = [p \in 1 .. N |-> IF p \in {P[i] : i \in 1 .. Len(P)} /\ m.stk[p].env = At(f)
                           THEN [m.stk[p] EXCEPT !.env = In(a)] ELSE m.stk[p]]
  <2>1. {r[2] : r \in {s \in ToSet(Chain(m, conr)) : OnStack(s)}} = {P[i] : i \in 1 .. Len(P)}
    BY UsersAre
  <2> DEFINE U == {r[2] : r \in {s \in ToSet(Chain(m, conr)) : OnStack(s)}}
  <2>2. u = [p \in DOMAIN m.stk |-> IF p \in U /\ m.stk[p].env = At(f)
                           THEN [m.stk[p] EXCEPT !.env = In(a)] ELSE m.stk[p]]
    BY DEF Updated
  <2>3. U = {P[i] : i \in 1 .. Len(P)}
    BY <2>1
  <2> HIDE DEF U, u, a
  <2> QED BY <1>2, <2>2, <2>3
<1>6. \A p \in 1 .. N : (\A i \in 1 .. Len(P) : P[i] # p) => u[p] = m.stk[p]
  <2> HIDE DEF u
  <2> QED BY <1>5
<1>7. ASSUME NEW i \in 1 .. Len(P)
      PROVE  /\ P[i] \in 1 .. N
             /\ u[P[i]] \in ContRecord
             /\ u[P[i]].fn = m.stk[P[i]].fn /\ u[P[i]].conr = m.stk[P[i]].conr
             /\ u[P[i]].env = IF m.stk[P[i]].env = At(f) THEN In(a) ELSE m.stk[P[i]].env
  <2> HIDE DEF u
  <2>1. P[i] \in 1 .. N /\ m.stk[P[i]] \in ContRecord
    BY DEF Suspended
  <2>2. In(a) \in Ref
    BY <1>2, Refs
  <2>3. u[P[i]] = IF m.stk[P[i]].env = At(f) THEN [m.stk[P[i]] EXCEPT !.env = In(a)] ELSE m.stk[P[i]]
    BY <1>5, <2>1
  <2> HIDE DEF a, N
  <2>4. [m.stk[P[i]] EXCEPT !.env = In(a)] \in ContRecord
        /\ [m.stk[P[i]] EXCEPT !.env = In(a)].fn = m.stk[P[i]].fn
        /\ [m.stk[P[i]] EXCEPT !.env = In(a)].conr = m.stk[P[i]].conr
        /\ [m.stk[P[i]] EXCEPT !.env = In(a)].env = In(a)
    BY <2>1, <2>2 DEF ContRecord
  <2> QED BY <2>1, <2>3, <2>4
<1>8. u \in Seq(Slot) /\ Len(u) = N
  <2> HIDE DEF u
  <2>1. \A p \in 1 .. N : u[p] \in Slot
    <3>1. \A p \in 1 .. N : (\A i \in 1 .. Len(P) : P[i] # p) => u[p] \in Slot
      BY <1>2, <1>6
    <3>2. \A i \in 1 .. Len(P) : u[P[i]] \in Slot
      BY <1>7 DEF Slot
    <3> QED BY <3>1, <3>2
  <2>2. u = [p \in 1 .. N |-> u[p]]
    BY <1>5
  <2> HIDE DEF N
  <2> QED BY <1>2, <2>1, <2>2
<1> HIDE DEF u, h
<1>9. Append(m.henv, h) \in Seq(HeapEnvRecord) /\ Len(Append(m.henv, h)) = a
      /\ (\A b \in 1 .. Len(m.henv) : Append(m.henv, h)[b] = m.henv[b]) /\ Append(m.henv, h)[a] = h
  BY <1>2, <1>4
<1>10. x \in Memory
  BY <1>2, <1>8, <1>9 DEF Memory
<1>11. EnvMoved(m, x, P, f)
  <2>1. x.hcont = m.hcont /\ x.stk = u /\ x.henv = Append(m.henv, h)
    OBVIOUS
  <2> HIDE DEF x
  <2> QED BY <1>3, <1>6, <1>7, <1>8, <1>9, <1>10, <2>1 DEF EnvMoved
<1> QED BY <1>1, <1>11

(* A mark stays where it is, and what is not a value has the same one. *)
LEMMA MarkKept ==
  ASSUME NEW s \in Seq(Slot), NEW t \in Seq(Slot), NEW a \in Nat \ {0}, NEW b \in Nat,
         b <= Len(s), b <= Len(t),
         \A p \in a .. b : s[p] = t[p] \/ (~IsValue(s[p]) /\ ~IsValue(t[p]))
  PROVE  Mark(SubSeq(s, a, b)) = Mark(SubSeq(t, a, b))
<1> DEFINE u == SubSeq(s, a, b)
           v == SubSeq(t, a, b)
           I == 1 .. 1 + b - a
<1>1. u = [i \in I |-> s[i + a - 1]] /\ v = [i \in I |-> t[i + a - 1]]
  OBVIOUS
<1>2. \A i \in I : i + a - 1 \in a .. b
  OBVIOUS
<1>3. /\ DOMAIN u = I /\ DOMAIN v = I
      /\ \A i \in I : u[i] = v[i] \/ (~IsValue(u[i]) /\ ~IsValue(v[i]))
  <2> HIDE DEF u, v
  <2> QED BY <1>1, <1>2
<1> HIDE DEF u, v, I
<1>4. Mark(u) = Mark(v)
  BY <1>3 DEF Mark
<1> QED BY <1>4 DEF u, v

LEMMA MovedEnvs ==
  ASSUME NEW m \in Memory, NEW P, NEW K, Suspended(m, P, K), Heap(m, K),
         NEW f, StackEnv(m, f), NEW x, EnvMoved(m, x, P, f)
  PROVE  /\ EnvRefs(x) = EnvRefs(m) \cup {In(Len(m.henv) + 1)}
         /\ In(Len(m.henv) + 1) \notin EnvRefs(m)
         /\ \A r \in EnvRefs(m) : Id(x, r) = Id(m, r)
         /\ \A r \in EnvRefs(m) \ {Nil} : Same(m, r, x, r)
         /\ Same(m, At(f), x, In(Len(m.henv) + 1))
         /\ \A g \in Nat : StackEnv(m, g) => StackEnv(x, g) /\ Same(m, At(g), x, At(g))
<1> DEFINE N == Len(m.henv)
           a == N + 1
<1>1. /\ N \in Nat /\ DOMAIN m.henv = 1 .. N /\ DOMAIN x.henv = 1 .. N + 1
      /\ Len(m.stk) \in Nat /\ Len(x.stk) = Len(m.stk)
  BY MemoryFacts DEF EnvMoved
<1>2. \A b \in 1 .. N : x.henv[b] = m.henv[b] /\ m.henv[b].next \in EnvRefs(m)
  BY DEF EnvMoved, Heap
<1>3. x.henv[a] = [vars |-> View(m, At(f)).vars, next |-> m.stk[f].next, id |-> m.stk[f].id]
  BY DEF EnvMoved
<1> HIDE DEF N
<1>4. EnvRefs(x) = EnvRefs(m) \cup {In(a)}
  <2>1. 1 .. N + 1 = (1 .. N) \cup {a}
    BY <1>1
  <2> QED BY <1>1, <2>1 DEF EnvRefs
<1>5. In(a) \notin EnvRefs(m)
  <2>1. In(a) # Nil
    BY Refs
  <2>2. \A b \in 1 .. N : In(b) # In(a)
    BY <1>1, RefsDiffer
  <2> QED BY <1>1, <2>1, <2>2 DEF EnvRefs
<1>6. ASSUME NEW r \in EnvRefs(m) PROVE Id(x, r) = Id(m, r)
  <2>1. CASE r = Nil
    BY <2>1 DEF Id
  <2>2. CASE r # Nil
    <3>1. PICK b \in 1 .. N : r = In(b)
      BY <1>1, <2>2 DEF EnvRefs
    <3> QED BY <3>1, <1>2, HeapEnvIs
  <2> QED BY <2>1, <2>2
<1>7. ASSUME NEW r \in EnvRefs(m) \ {Nil} PROVE Same(m, r, x, r)
  <2>1. PICK b \in 1 .. N : r = In(b)
    BY <1>1 DEF EnvRefs
  <2> QED BY <2>1, <1>2, <1>6, SameOnHeap
<1>8. Same(m, At(f), x, In(a))
  <2>1. m.stk[f].next \in EnvRefs(m)
    BY DEF StackEnv
  <2>2. Id(x, In(a)) = Id(m, At(f)) /\ NextEnv(x, In(a)) = m.stk[f].next
        /\ Count(x, In(a)) = Len(View(m, At(f)).vars)
        /\ \A i : EnvVal(x, In(a), i) = View(m, At(f)).vars[i]
    BY <1>3, HeapEnvIs, StackEnvIs
  <2>3. /\ View(m, At(f)).vars \in Seq(Val)
        /\ View(m, At(f)).next = Id(m, m.stk[f].next)
    BY ViewVars, StackEnvIs DEF View
  <2>4. [i \in 1 .. Count(x, In(a)) |-> EnvVal(x, In(a), i)] = View(m, At(f)).vars
    <3> DEFINE v == View(m, At(f)).vars
    <3>1. [i \in 1 .. Count(x, In(a)) |-> EnvVal(x, In(a), i)] = [i \in 1 .. Len(v) |-> v[i]]
      BY <2>2
    <3> HIDE DEF v
    <3>2. v = [i \in 1 .. Len(v) |-> v[i]]
      BY <2>3 DEF v
    <3> QED BY <3>1, <3>2 DEF v
  <2>5. Id(x, NextEnv(x, In(a))) = View(m, At(f)).next
    BY <1>6, <2>1, <2>2, <2>3
  <2>6. View(x, In(a)) = View(m, At(f))
    <3>1. View(x, In(a)) = [vars |-> View(m, At(f)).vars, next |-> View(m, At(f)).next]
      BY <2>4, <2>5 DEF View
    <3> QED BY <3>1 DEF View
  <2> QED BY <2>2, <2>6 DEF Same
<1>9. ASSUME NEW g \in Nat, StackEnv(m, g) PROVE StackEnv(x, g) /\ Same(m, At(g), x, At(g))
  <2>1. g \in 1 .. Len(m.stk) /\ m.stk[g] \in EnvRecord /\ m.stk[g].count \in Nat /\ m.stk[g].count < g
        /\ m.stk[g].next \in EnvRefs(m)
    BY <1>9, RecordFacts DEF StackEnv
  <2>2. ASSUME NEW p \in g - m.stk[g].count .. g PROVE x.stk[p] = m.stk[p]
    <3>1. p \in 1 .. Len(m.stk)
      BY <1>1, <2>1
    <3>2. m.stk[p] \in Val \/ m.stk[p] \in EnvRecord
      <4>1. CASE p = g
        BY <2>1, <4>1
      <4>2. CASE p # g
        <5>1. p \in g - m.stk[g].count .. g - 1
          BY <2>1, <4>2
        <5> QED BY <1>9, <5>1 DEF StackEnv
      <4> QED BY <4>1, <4>2
    <3>3. m.stk[p] \notin ContRecord
      BY <3>2, Kinds
    <3>4. \A i \in 1 .. Len(P) : P[i] # p
      BY <3>3 DEF Suspended
    <3> QED BY <3>1, <3>4 DEF EnvMoved
  <2>3. g <= Len(x.stk) /\ Len(x.stk) \in Nat /\ m.stk[g].next \in EnvRefs(x)
        /\ Id(x, m.stk[g].next) = Id(m, m.stk[g].next)
    BY <1>1, <1>4, <1>6, <2>1
  <2> QED BY <1>9, <2>2, <2>3, SameOnStack
<1> QED BY <1>4, <1>5, <1>6, <1>7, <1>8, <1>9 DEF N

(* The machine goes on with the copy. *)
Copy(m, f, r) == IF r = At(f) THEN In(Len(m.henv) + 1) ELSE r

LEMMA EnvMovedKeeps ==
  ASSUME NEW m, NEW P, NEW g, NEW e, NEW c, NEW K, NEW st, Machine(m, P, g, e, c, K, st),
         NEW f, StackEnv(m, f), At(f) \in Live(m, P, e), NEW x, EnvMoved(m, x, P, f)
  PROVE  /\ Machine(x, P, g, Copy(m, f, e), c, K, st)
         /\ \A r \in Live(m, P, e) : Same(m, r, x, Copy(m, f, r))
         /\ \A i \in 1 .. Len(P) : FrameOf(x, At(P[i])) = FrameOf(m, At(P[i]))
         /\ \A l \in Nat \ {0}, n \in Nat :
              n <= Len(m.stk) => Mark(SubSeq(x.stk, l, n)) = Mark(SubSeq(m.stk, l, n))
<1> DEFINE a == Len(m.henv) + 1
           e1 == Copy(m, f, e)
<1>1. /\ m \in Memory /\ Suspended(m, P, K) /\ Heap(m, K) /\ Represents(m, Live(m, P, e), st)
      /\ Frame(m, P, 0, g, e, c, K) /\ g \in 0 .. Len(m.stk)
  BY DEF Machine
<1>2. x \in Memory /\ x.hcont = m.hcont /\ Len(x.stk) = Len(m.stk)
  BY DEF EnvMoved
<1>3. /\ EnvRefs(x) = EnvRefs(m) \cup {In(a)} /\ In(a) \notin EnvRefs(m)
      /\ \A r \in EnvRefs(m) : Id(x, r) = Id(m, r)
      /\ \A r \in EnvRefs(m) \ {Nil} : Same(m, r, x, r)
      /\ Same(m, At(f), x, In(a))
      /\ \A h \in Nat : StackEnv(m, h) => StackEnv(x, h) /\ Same(m, At(h), x, At(h))
  BY <1>1, MovedEnvs
<1>4. /\ Len(m.stk) \in Nat /\ DOMAIN m.henv = 1 .. Len(m.henv)
      /\ m.stk \in Seq(Slot) /\ x.stk \in Seq(Slot)
  BY <1>1, <1>2, MemoryFacts
<1>5. \A i \in 1 .. Len(P) :
        /\ P[i] \in 1 .. Len(m.stk) /\ m.stk[P[i]] \in ContRecord
        /\ x.stk[P[i]] \in ContRecord
        /\ x.stk[P[i]].fn = m.stk[P[i]].fn /\ x.stk[P[i]].conr = m.stk[P[i]].conr
        /\ x.stk[P[i]].env = Copy(m, f, m.stk[P[i]].env)
  BY <1>1 DEF EnvMoved, Suspended, Copy
<1> HIDE DEF a
(* The environments. *)
<1>6. ASSUME NEW h \in Nat, NEW r, FrameEnv(m, h, r)
      PROVE  FrameEnv(x, h, Copy(m, f, r)) /\ (r # Nil => Same(m, r, x, Copy(m, f, r)))
  <2>1. CASE r = At(f)
    BY <2>1, <1>3, Refs DEF Copy, FrameEnv, a
  <2>2. CASE r # At(f)
    <3>1. Copy(m, f, r) = r
      BY <2>2 DEF Copy
    <3>2. CASE r \in EnvRefs(m)
      BY <3>1, <3>2, <1>3 DEF FrameEnv
    <3>3. CASE r = At(h) /\ StackEnv(m, h)
      BY <3>1, <3>3, <1>3 DEF FrameEnv
    <3> QED BY <1>6, <3>2, <3>3 DEF FrameEnv
  <2> QED BY <2>1, <2>2
<1>7. \A r \in Live(m, P, e) : Same(m, r, x, Copy(m, f, r))
  <2>1. \A r \in Live(m, P, e) : IsLive(m, r) /\ r # Nil
    BY <1>1, LiveIs DEF Frame
  <2>2. ASSUME NEW r \in Live(m, P, e) PROVE Same(m, r, x, Copy(m, f, r))
    <3>1. CASE r = At(f)
      BY <3>1, <1>3 DEF Copy, a
    <3>2. CASE r # At(f) /\ \E b \in 1 .. Len(m.henv) : r = In(b)
      <4>1. r \in EnvRefs(m) \ {Nil}
        BY <3>2, <2>1, <1>4 DEF EnvRefs
      <4> QED BY <3>2, <4>1, <1>3 DEF Copy
    <3>3. CASE r # At(f) /\ \E h \in Nat : r = At(h) /\ StackEnv(m, h)
      BY <3>3, <1>3 DEF Copy
    <3> QED BY <2>1, <3>1, <3>2, <3>3 DEF IsLive
  <2> QED BY <2>2
(* The frames. *)
<1>8. ASSUME NEW i \in 0 .. Len(P), NEW h \in Nat, NEW r, NEW d, Frame(m, P, i, h, r, d, K)
      PROVE  Frame(x, P, i, h, Copy(m, f, r), d, K)
  <2>1. FrameEnv(x, h, Copy(m, f, r)) /\ Linked(P, i, d, K)
    BY <1>6, <1>8 DEF Frame
  <2>2. \A j \in i + 1 .. Len(P) : x.stk[P[j]].fn = m.stk[P[j]].fn
    <3>1. \A j \in i + 1 .. Len(P) : j \in 1 .. Len(P)
      BY <1>1 DEF Suspended
    <3> QED BY <1>5, <3>1
  <2>3. Nested(x, P, i, h)
    BY <1>8, <2>2 DEF Frame, Nested
  <2> QED BY <2>1, <2>3 DEF Frame
<1>9. ASSUME NEW i \in 1 .. Len(P)
      PROVE  /\ x.stk[P[i]].fn < P[i]
             /\ Frame(x, P, i, x.stk[P[i]].fn, x.stk[P[i]].env, x.stk[P[i]].conr, K)
  <2>1. Frame(m, P, i, m.stk[P[i]].fn, m.stk[P[i]].env, m.stk[P[i]].conr, K) /\ m.stk[P[i]].fn < P[i]
    BY <1>1 DEF Suspended
  <2>2. m.stk[P[i]].fn \in Nat /\ i \in 0 .. Len(P)
    BY <1>5, RecordFacts
  <2>3. Frame(x, P, i, m.stk[P[i]].fn, Copy(m, f, m.stk[P[i]].env), m.stk[P[i]].conr, K)
    BY <1>8, <2>1, <2>2
  <2> QED BY <1>5, <2>1, <2>3
<1>10. Suspended(x, P, K)
  BY <1>1, <1>2, <1>5, <1>9 DEF Suspended
<1>11. Frame(x, P, 0, g, e1, c, K)
  <2>1. g \in Nat /\ Len(P) \in Nat /\ 0 \in 0 .. Len(P)
    BY <1>1, <1>4 DEF Suspended
  <2> QED BY <1>1, <1>8, <2>1
<1>12. Heap(x, K)
  <2>1. ASSUME NEW b \in 1 .. Len(x.henv) PROVE x.henv[b].next \in EnvRefs(x)
    <3>1. CASE b \in 1 .. Len(m.henv)
      BY <1>1, <1>3, <3>1 DEF EnvMoved, Heap
    <3>2. CASE b = a
      <4>1. x.henv[b].next = m.stk[f].next
        BY <3>2 DEF EnvMoved, a
      <4> QED BY <4>1, <1>3 DEF StackEnv
    <3>3. Len(x.henv) = a /\ Len(m.henv) \in Nat
      BY <1>1, MemoryFacts DEF EnvMoved, a
    <3> QED BY <3>1, <3>2, <3>3 DEF a
  <2>2. ASSUME NEW k \in 1 .. K PROVE HeapChain(x, k, K)
    <3>1. PICK s \in Seq(ContRefs(K)) : IsChain(m, In(k), s) /\ Len(s) <= K
      BY <1>1 DEF Heap, HeapChain
    <3>2. IsChain(x, In(k), s)
      BY <1>2, <3>1, ChainKept
    <3> QED BY <3>1, <3>2 DEF HeapChain
  <2> QED BY <1>1, <1>2, <1>3, <2>1, <2>2 DEF Heap
(* What the program sees. *)
<1>13. Represents(x, Live(x, P, e1), st)
  <2> DEFINE R == Live(m, P, e)
             S == Live(x, P, e1)
             was == [r \in S |-> IF r = In(a) THEN At(f) ELSE r]
  <2>1. In(a) # At(f) /\ In(a) \notin R
    <3>1. In(a) # At(f)
      BY RefsDiffer
    <3>2. ASSUME NEW h, NEW r, FrameEnv(m, h, r) PROVE r # In(a)
      BY <3>2, <1>3, RefsDiffer DEF FrameEnv
    <3>3. e # In(a)
      BY <1>1, <3>2 DEF Frame
    <3>4. \A i \in 1 .. Len(P) : m.stk[P[i]].env # In(a)
      BY <1>1, <3>2 DEF Suspended, Frame
    <3> QED BY <3>1, <3>3, <3>4, <1>3 DEF Live, StackEnvs
  <2>2. ASSUME NEW r \in S PROVE r = In(a) \/ (r \in R /\ r # At(f))
    <3>1. r # Nil
      BY DEF Live
    <3>2. CASE r = e1
      BY <3>1, <3>2 DEF Copy, Live, a
    <3>3. CASE r \in StackEnvs(x, P)
      <4>1. PICK i \in 1 .. Len(P) : r = x.stk[P[i]].env
        BY <3>3 DEF StackEnvs
      <4>2. r = Copy(m, f, m.stk[P[i]].env)
        BY <1>5, <4>1
      <4>3. m.stk[P[i]].env \in StackEnvs(m, P)
        BY DEF StackEnvs
      <4> QED BY <3>1, <4>2, <4>3 DEF Copy, Live, a
    <3>4. CASE r \in EnvRefs(x)
      <4>1. CASE r \in EnvRefs(m)
        <5>1. r # At(f)
          BY <4>1, Refs, RefsDiffer DEF EnvRefs
        <5> QED BY <3>1, <4>1, <5>1 DEF Live
      <4> QED BY <3>4, <4>1, <1>3
    <3> QED BY <3>2, <3>3, <3>4 DEF Live
  <2>3. At(f) \in R /\ Copy(m, f, At(f)) = In(a) /\ \A r : r # At(f) => Copy(m, f, r) = r
    BY DEF Copy, a
  <2> HIDE DEF R, S, e1
  <2>4. was \in [S -> R]
    BY <2>2, <2>3
  <2>5. ASSUME NEW r \in S PROVE Same(m, was[r], x, r)
    <3>1. CASE r = In(a)
      BY <3>1, <1>3
    <3>2. CASE r # In(a)
      <4>1. r \in R /\ was[r] = r /\ Copy(m, f, r) = r
        BY <2>2, <2>3, <3>2
      <4>2. Same(m, r, x, Copy(m, f, r))
        BY <1>7, <4>1 DEF R
      <4> QED BY <4>1, <4>2
    <3> QED BY <3>1, <3>2
  <2>6. \A r, s \in S : was[r] = was[s] => r = s
    BY <2>2
  <2>7. Represents(m, R, st)
    BY <1>1 DEF R
  <2> HIDE DEF was
  <2>8. Represents(x, S, st)
    BY <2>4, <2>5, <2>6, <2>7, StillRepresents
  <2> QED BY <2>8 DEF S
<1>14. \A l \in Nat \ {0}, n \in Nat :
         n <= Len(m.stk) => Mark(SubSeq(x.stk, l, n)) = Mark(SubSeq(m.stk, l, n))
  <2>1. ASSUME NEW p \in 1 .. Len(m.stk)
        PROVE  x.stk[p] = m.stk[p] \/ (~IsValue(x.stk[p]) /\ ~IsValue(m.stk[p]))
    <3>1. CASE \A i \in 1 .. Len(P) : P[i] # p
      BY <3>1 DEF EnvMoved
    <3>2. CASE \E i \in 1 .. Len(P) : P[i] = p
      BY <3>2, <1>5, Kinds
    <3> QED BY <3>1, <3>2
  <2>2. ASSUME NEW l \in Nat \ {0}, NEW n \in Nat, n <= Len(m.stk)
        PROVE  Mark(SubSeq(x.stk, l, n)) = Mark(SubSeq(m.stk, l, n))
    <3>1. \A p \in l .. n : p \in 1 .. Len(m.stk)
      BY <1>4, <2>2
    <3> QED BY <1>2, <1>4, <2>1, <2>2, <3>1, MarkKept
  <2> QED BY <2>2
<1>15. ASSUME NEW i \in 1 .. Len(P) PROVE FrameOf(x, At(P[i])) = FrameOf(m, At(P[i]))
  <2>1. /\ m.stk[P[i]].fn + 1 \in Nat \ {0} /\ P[i] - 1 \in Nat /\ P[i] - 1 <= Len(m.stk)
        /\ x.stk[P[i]].fn = m.stk[P[i]].fn
    <3>1. P[i] \in 1 .. Len(m.stk) /\ m.stk[P[i]] \in ContRecord
          /\ x.stk[P[i]].fn = m.stk[P[i]].fn
      BY <1>5
    <3>2. m.stk[P[i]].fn \in Nat
      BY <3>1, RecordFacts
    <3> QED BY <3>1, <3>2, <1>4, PartBounds
  <2>2. Mark(SavedStack(x, P[i])) = Mark(SavedStack(m, P[i]))
    BY <1>14, <2>1 DEF SavedStack
  <2>3. Id(x, x.stk[P[i]].env) = Id(m, m.stk[P[i]].env)
    <3>1. x.stk[P[i]].env = Copy(m, f, m.stk[P[i]].env)
      BY <1>5
    <3>2. CASE m.stk[P[i]].env = Nil
      <4>1. Copy(m, f, Nil) = Nil
        BY Refs DEF Copy
      <4> QED BY <3>1, <3>2, <4>1 DEF Id
    <3>3. CASE m.stk[P[i]].env # Nil
      <4>1. m.stk[P[i]].env \in Live(m, P, e)
        BY <3>3 DEF Live, StackEnvs
      <4> QED BY <3>1, <4>1, <1>7 DEF Same
    <3> QED BY <3>2, <3>3
  <2> QED BY <2>2, <2>3, Refs DEF FrameOf
<1> QED BY <1>1, <1>2, <1>7, <1>10, <1>11, <1>12, <1>13, <1>14, <1>15 DEF Machine

-----------------------------------------------------------------------------
(***************************************************************************)
(* heap_cont: what one continuation leaves behind.                         *)
(***************************************************************************)
LEMMA HcontExtended ==
  ASSUME NEW m, NEW P, NEW f, NEW e, NEW c, NEW K, NEW st, Machine(m, P, f, e, c, K, st),
         NEW x \in Memory, x.stk = m.stk, x.henv = m.henv, Len(m.hcont) <= Len(x.hcont),
         \A k \in 1 .. Len(m.hcont) : x.hcont[k] = m.hcont[k]
  PROVE  /\ Machine(x, P, f, e, c, K, st)
         /\ \A r : Id(x, r) = Id(m, r)
         /\ \A i \in 1 .. Len(P) : FrameOf(x, At(P[i])) = FrameOf(m, At(P[i]))
<1>1. /\ m \in Memory /\ Suspended(m, P, K) /\ Frame(m, P, 0, f, e, c, K) /\ Heap(m, K)
      /\ Represents(m, Live(m, P, e), st) /\ f \in 0 .. Len(m.stk)
  BY DEF Machine
<1>2. EnvRefs(x) = EnvRefs(m)
  BY DEF EnvRefs
<1>3. \A r : /\ Id(x, r) = Id(m, r) /\ Count(x, r) = Count(m, r)
             /\ NextEnv(x, r) = NextEnv(m, r)
             /\ \A i : EnvVal(x, r, i) = EnvVal(m, r, i)
  BY DEF Id, Count, NextEnv, EnvVal, SlotOf
<1>4. ASSUME NEW r PROVE Same(m, r, x, r)
  <2>1. Count(x, r) = Count(m, r) /\ Id(x, NextEnv(x, r)) = Id(m, NextEnv(m, r))
    BY <1>3
  <2>2. [i \in 1 .. Count(x, r) |-> EnvVal(x, r, i)] = [i \in 1 .. Count(m, r) |-> EnvVal(m, r, i)]
    BY <1>3
  <2>3. View(x, r) = View(m, r)
    BY <2>1, <2>2 DEF View
  <2> QED BY <1>3, <2>3 DEF Same
<1>5. \A g, r : FrameEnv(m, g, r) => FrameEnv(x, g, r)
  BY <1>2 DEF FrameEnv, StackEnv
<1>6. \A i, g, r, d : Frame(m, P, i, g, r, d, K) => Frame(x, P, i, g, r, d, K)
  BY <1>5 DEF Frame, Nested
<1>7. Suspended(x, P, K)
  BY <1>1, <1>6 DEF Suspended
<1>8. Heap(x, K)
  <2>1. Len(m.hcont) \in Nat /\ Len(x.hcont) \in Nat
    BY <1>1, MemoryFacts
  <2>2. K \in 0 .. Len(m.hcont) /\ K \in 0 .. Len(x.hcont)
    BY <1>1, <2>1 DEF Heap
  <2>3. \A k \in 1 .. K : x.hcont[k] = m.hcont[k]
    BY <2>1, <2>2
  <2>4. ASSUME NEW k \in 1 .. K PROVE HeapChain(x, k, K)
    <3>1. PICK s \in Seq(ContRefs(K)) : IsChain(m, In(k), s) /\ Len(s) <= K
      BY <1>1 DEF Heap, HeapChain
    <3>2. IsChain(x, In(k), s)
      BY <2>3, <3>1, ChainKept
    <3> QED BY <3>1, <3>2 DEF HeapChain
  <2> QED BY <1>1, <1>2, <2>2, <2>3, <2>4 DEF Heap
<1>9. Live(x, P, e) = Live(m, P, e)
  BY <1>2 DEF Live, StackEnvs
<1>10. Represents(x, Live(x, P, e), st)
  BY <1>1, <1>4, <1>9, StillRepresentsFewer
<1>11. ASSUME NEW i \in 1 .. Len(P) PROVE FrameOf(x, At(P[i])) = FrameOf(m, At(P[i]))
  BY <1>3, Refs DEF FrameOf, SavedStack
<1> QED BY <1>1, <1>3, <1>6, <1>7, <1>8, <1>10, <1>11 DEF Machine

(* The environment goes first, if it is not on the heap yet.               *)
ContEnvKept(m, P, f, e, K, st, i, y) ==
    /\ Machine(y.m, P, f, e, conr, K, st)
    /\ y.env \in EnvRefs(y.m) /\ Id(y.m, y.env) = Id(m, m.stk[P[i]].env) /\ Id(y.m, e) = Id(m, e)
    /\ y.m.hcont = m.hcont /\ Len(y.m.stk) = Len(m.stk)
    /\ \A r \in EnvRefs(m) : r \in EnvRefs(y.m) /\ Id(y.m, r) = Id(m, r)
    /\ \A j \in 1 .. Len(P) : /\ FrameOf(y.m, At(P[j])) = FrameOf(m, At(P[j]))
                             /\ y.m.stk[P[j]].conr = m.stk[P[j]].conr
    /\ \A l \in Nat \ {0}, n \in Nat :
         n <= Len(m.stk) => Mark(SubSeq(y.m.stk, l, n)) = Mark(SubSeq(m.stk, l, n))

LEMMA ContEnvMoved ==
  ASSUME NEW m, NEW P, NEW f, NEW e, NEW K, NEW st, Machine(m, P, f, e, conr, K, st),
         NEW i \in 1 .. Len(P), \A j \in 1 .. Len(P) : P[j] <= f
  PROVE  ContEnvKept(m, P, f, e, K, st, i, Env2Heap(m, m.stk[P[i]].env))
<1> DEFINE r == m.stk[P[i]].env
           y == Env2Heap(m, r)
<1> SUFFICES
      /\ Machine(y.m, P, f, e, conr, K, st)
      /\ y.env \in EnvRefs(y.m) /\ Id(y.m, y.env) = Id(m, r) /\ Id(y.m, e) = Id(m, e)
      /\ y.m.hcont = m.hcont /\ Len(y.m.stk) = Len(m.stk)
      /\ \A q \in EnvRefs(m) : q \in EnvRefs(y.m) /\ Id(y.m, q) = Id(m, q)
      /\ \A j \in 1 .. Len(P) : /\ FrameOf(y.m, At(P[j])) = FrameOf(m, At(P[j]))
                               /\ y.m.stk[P[j]].conr = m.stk[P[j]].conr
      /\ \A l \in Nat \ {0}, n \in Nat :
           n <= Len(m.stk) => Mark(SubSeq(y.m.stk, l, n)) = Mark(SubSeq(m.stk, l, n))
  <2> HIDE DEF y
  <2> QED BY DEF ContEnvKept, y, r
<1>1. /\ m \in Memory /\ Suspended(m, P, K) /\ Heap(m, K) /\ K \in Nat
      /\ FrameEnv(m, f, e) /\ Linked(P, 0, conr, K) /\ f \in 0 .. Len(m.stk)
  BY MemoryFacts DEF Machine, Frame, Heap
<1>2. /\ m.stk[P[i]] \in ContRecord /\ m.stk[P[i]].fn \in Nat
      /\ FrameEnv(m, m.stk[P[i]].fn, r) /\ m.stk[P[i]].fn < P[i] /\ P[i] \in Nat
      /\ P[i] \in 1 .. Len(m.stk)
  BY <1>1, RecordFacts DEF Suspended, Frame
<1>3. CASE ~OnStack(r)
  <2>1. y = [env |-> r, m |-> m]
    BY <1>3 DEF Env2Heap
  <2>2. r \in EnvRefs(m)
    BY <1>2, <1>3, Refs DEF FrameEnv
  <2> HIDE DEF y
  <2> QED BY <2>1, <2>2 DEF y, r
<1>4. CASE OnStack(r)
  <2> DEFINE g == m.stk[P[i]].fn
  <2>1. r = At(g) /\ StackEnv(m, g)
    <3>1. DOMAIN m.henv = 1 .. Len(m.henv)
      BY <1>1, MemoryFacts
    <3>2. r \notin EnvRefs(m)
      BY <1>4, <3>1, EnvRefCases
    <3> QED BY <1>2, <3>2 DEF FrameEnv
  <2>2. At(g) \in Live(m, P, e)
    <3>1. r \in StackEnvs(m, P)
      BY DEF StackEnvs
    <3>2. r # Nil
      BY <2>1, Refs
    <3> QED BY <2>1, <3>1, <3>2 DEF Live
  <2>3. y.env = In(Len(m.henv) + 1) /\ EnvMoved(m, y.m, P, g)
    BY <1>1, <2>1, Env2HeapMoves
  <2>4. e # At(g)
    <3>1. e = At(g) => e \in EnvRefs(m) \/ At(f) = At(g)
      BY <1>1 DEF FrameEnv
    <3>2. f # g
      BY <1>1, <1>2
    <3>3. DOMAIN m.henv = 1 .. Len(m.henv)
      BY <1>1, MemoryFacts
    <3> QED BY <3>1, <3>2, <3>3, Refs, RefsDiffer, EnvRefCases
  <2>5. Copy(m, g, e) = e
    BY <2>4 DEF Copy
  <2> HIDE DEF y, r, g
  <2>6. /\ Machine(y.m, P, f, e, conr, K, st)
        /\ Same(m, At(g), y.m, Copy(m, g, At(g))) /\ (e \in Live(m, P, e) => Same(m, e, y.m, e))
        /\ \A j \in 1 .. Len(P) : FrameOf(y.m, At(P[j])) = FrameOf(m, At(P[j]))
        /\ \A l \in Nat \ {0}, n \in Nat :
             n <= Len(m.stk) => Mark(SubSeq(y.m.stk, l, n)) = Mark(SubSeq(m.stk, l, n))
    BY <2>1, <2>2, <2>3, <2>5, EnvMovedKeeps
  <2>7. /\ EnvRefs(y.m) = EnvRefs(m) \cup {In(Len(m.henv) + 1)}
        /\ \A s \in EnvRefs(m) : Id(y.m, s) = Id(m, s)
    BY <1>1, <2>1, <2>3, MovedEnvs
  <2>8. y.env \in EnvRefs(y.m) /\ Id(y.m, y.env) = Id(m, r)
    BY <2>1, <2>3, <2>6, <2>7 DEF Copy, Same
  <2>9. /\ y.m.hcont = m.hcont /\ Len(y.m.stk) = Len(m.stk)
        /\ \A j \in 1 .. Len(P) : y.m.stk[P[j]].conr = m.stk[P[j]].conr
    BY <2>3 DEF EnvMoved
  <2>10. Id(y.m, e) = Id(m, e)
    <3>1. CASE e = Nil
      BY <3>1 DEF Id
    <3>2. CASE e # Nil
      <4>1. e \in Live(m, P, e)
        BY <3>2 DEF Live
      <4> QED BY <4>1, <2>6 DEF Same
    <3> QED BY <3>1, <3>2
  <2> QED BY <2>6, <2>7, <2>8, <2>9, <2>10 DEF y, r
<1> QED BY <1>3, <1>4

LEMMA HeapContStep ==
  ASSUME NEW m, NEW P, NEW f, NEW e, NEW K, NEW st, Machine(m, P, f, e, conr, K, st),
         NEW i \in 1 .. Len(P), \A j \in 1 .. Len(P) : P[j] <= f
  PROVE  LET x == HeapCont(m, At(P[i]))
             k == Len(m.hcont) + 1
         IN  /\ Machine(x, P, f, e, conr, K, st) /\ Len(x.stk) = Len(m.stk)
             /\ Len(x.hcont) = k /\ \A j \in 1 .. k - 1 : x.hcont[j] = m.hcont[j]
             /\ \A r \in EnvRefs(m) : r \in EnvRefs(x) /\ Id(x, r) = Id(m, r)
             /\ Id(x, e) = Id(m, e)
             /\ \A j \in 1 .. Len(P) : /\ FrameOf(x, At(P[j])) = FrameOf(m, At(P[j]))
                                      /\ x.stk[P[j]].conr = m.stk[P[j]].conr
             /\ x.hcont[k].env \in EnvRefs(x)
             /\ x.hcont[k].conr = IF i = Len(P) THEN m.stk[P[i]].conr ELSE In(k + 1)
             /\ FrameOf(x, In(k)) = FrameOf(m, At(P[i]))
             /\ \A l \in Nat \ {0}, n \in Nat :
                  n <= Len(m.stk) => Mark(SubSeq(x.stk, l, n)) = Mark(SubSeq(m.stk, l, n))
<1> DEFINE p == P[i]
           y == Env2Heap(m, m.stk[p].env)
           h == [env |-> y.env, stk |-> SavedStack(m, p), conr |-> NextKept(m, At(p))]
           x == HeapCont(m, At(p))
           k == Len(m.hcont) + 1
<1>1. /\ m \in Memory /\ Suspended(m, P, K) /\ Heap(m, K)
      /\ Len(m.hcont) \in Nat /\ Len(m.stk) \in Nat /\ m.stk \in Seq(Slot)
  BY MemoryFacts DEF Machine
<1>2. /\ p \in 1 .. Len(m.stk) /\ m.stk[p] \in ContRecord /\ m.stk[p].fn \in Nat /\ m.stk[p].fn < p
      /\ Linked(P, i, m.stk[p].conr, K)
  BY <1>1, RecordFacts DEF Suspended, Frame
<1>3. /\ Machine(y.m, P, f, e, conr, K, st)
      /\ y.env \in EnvRefs(y.m) /\ Id(y.m, y.env) = Id(m, m.stk[p].env) /\ Id(y.m, e) = Id(m, e)
      /\ y.m.hcont = m.hcont /\ Len(y.m.stk) = Len(m.stk)
      /\ \A r \in EnvRefs(m) : r \in EnvRefs(y.m) /\ Id(y.m, r) = Id(m, r)
      /\ \A j \in 1 .. Len(P) : /\ FrameOf(y.m, At(P[j])) = FrameOf(m, At(P[j]))
                               /\ y.m.stk[P[j]].conr = m.stk[P[j]].conr
      /\ \A l \in Nat \ {0}, n \in Nat :
           n <= Len(m.stk) => Mark(SubSeq(y.m.stk, l, n)) = Mark(SubSeq(m.stk, l, n))
  <2>1. ContEnvKept(m, P, f, e, K, st, i, y)
    BY ContEnvMoved
  <2> HIDE DEF y
  <2> QED BY <2>1 DEF ContEnvKept
<1>4. x = [stk |-> y.m.stk, henv |-> y.m.henv, hcont |-> Append(m.hcont, h)]
  BY Refs DEF HeapCont
<1>5. NextKept(m, At(p)) = IF i = Len(P) THEN m.stk[p].conr ELSE In(k + 1)
  <2>1. k + 1 = Len(m.hcont) + 2
    BY <1>1
  <2>2. i = Len(P) => ~OnStack(m.stk[p].conr)
    BY <1>2, Refs DEF Linked, ContRefs
  <2>3. i # Len(P) => OnStack(m.stk[p].conr)
    BY <1>2, Refs DEF Linked
  <2>4. At(p)[2] = p
    BY Refs
  <2> HIDE DEF k
  <2> QED BY <2>1, <2>2, <2>3, <2>4 DEF NextKept
<1>6. NextKept(m, At(p)) \in HeapRef
  <2>1. i = Len(P) => m.stk[p].conr \in ContRefs(K)
    BY <1>2 DEF Linked
  <2>2. ContRefs(K) \subseteq HeapRef
    BY Refs DEF ContRefs
  <2>3. In(k + 1) \in HeapRef
    BY <1>1, Refs
  <2> QED BY <1>5, <2>1, <2>2, <2>3
<1>7. h \in HeapContRecord
  <2>1. y.env \in HeapRef
    BY <1>3, EnvRefsAreOnHeap DEF Machine
  <2>2. SavedStack(m, p) \in Seq(Slot)
    <3>1. SubSeq(m.stk, m.stk[p].fn + 1, p - 1) \in Seq(Slot)
      <4>1. \A j \in m.stk[p].fn + 1 .. p - 1 : j \in 1 .. Len(m.stk)
        BY <1>1, <1>2
      <4> QED BY <1>1, <1>2, <4>1, SubSeqProperties
    <3> QED BY <3>1 DEF SavedStack
  <2> QED BY <1>6, <2>1, <2>2 DEF HeapContRecord
<1> HIDE DEF y, h, x
<1>8. /\ Append(m.hcont, h) \in Seq(HeapContRecord) /\ Len(Append(m.hcont, h)) = k
      /\ \A j \in 1 .. k - 1 : Append(m.hcont, h)[j] = m.hcont[j]
      /\ Append(m.hcont, h)[k] = h
  <2>1. m.hcont \in Seq(HeapContRecord)
    BY <1>1, MemoryFacts
  <2> QED BY <1>1, <1>7, <2>1
<1>9. /\ x.stk = y.m.stk /\ x.henv = y.m.henv /\ x.hcont = Append(m.hcont, h)
  BY <1>4
<1>10. x \in Memory
  <2>1. y.m.stk \in Seq(Slot) /\ y.m.henv \in Seq(HeapEnvRecord)
    BY <1>3, MemoryFacts DEF Machine
  <2> QED BY <1>4, <1>8, <2>1 DEF Memory
<1>11. /\ Len(y.m.hcont) <= Len(x.hcont)
       /\ \A j \in 1 .. Len(y.m.hcont) : x.hcont[j] = y.m.hcont[j]
  BY <1>1, <1>3, <1>8, <1>9
<1>12. /\ Machine(x, P, f, e, conr, K, st)
       /\ \A r : Id(x, r) = Id(y.m, r)
       /\ \A j \in 1 .. Len(P) : FrameOf(x, At(P[j])) = FrameOf(y.m, At(P[j]))
  <2> DEFINE z == y.m
  <2>1. /\ Machine(z, P, f, e, conr, K, st) /\ x.stk = z.stk /\ x.henv = z.henv
        /\ Len(z.hcont) <= Len(x.hcont) /\ \A j \in 1 .. Len(z.hcont) : x.hcont[j] = z.hcont[j]
    BY <1>3, <1>9, <1>11
  <2> HIDE DEF z
  <2>2. /\ Machine(x, P, f, e, conr, K, st)
        /\ \A r : Id(x, r) = Id(z, r)
        /\ \A j \in 1 .. Len(P) : FrameOf(x, At(P[j])) = FrameOf(z, At(P[j]))
    BY ONLY <2>1, <1>10, HcontExtended
  <2> QED BY <2>2 DEF z
<1>13. EnvRefs(x) = EnvRefs(y.m)
  BY <1>9 DEF EnvRefs
<1>14. x.hcont[k] = h /\ h.env = y.env /\ h.conr = NextKept(m, At(p)) /\ h.stk = SavedStack(m, p)
  BY <1>8, <1>9 DEF h
<1>15. FrameOf(x, In(k)) = FrameOf(m, At(p))
  <2>1. FrameOf(x, In(k)) = [env |-> Id(x, y.env), temps |-> Mark(SavedStack(m, p))]
    BY <1>14, Refs DEF FrameOf
  <2>2. FrameOf(m, At(p)) = [env |-> Id(m, m.stk[p].env), temps |-> Mark(SavedStack(m, p))]
    BY Refs DEF FrameOf
  <2> QED BY <1>3, <1>12, <2>1, <2>2
<1> QED BY <1>3, <1>5, <1>8, <1>9, <1>12, <1>13, <1>14, <1>15 DEF x

-----------------------------------------------------------------------------
LEMMA FrameIs ==
  /\ \A m, k : FrameOf(m, In(k)) = [env |-> Id(m, m.hcont[k].env), temps |-> Mark(m.hcont[k].stk)]
  /\ \A m, p : FrameOf(m, At(p)) = [env |-> Id(m, m.stk[p].env), temps |-> Mark(SavedStack(m, p))]
BY Refs DEF FrameOf

(***************************************************************************)
(* __arc_cont2heap: after i steps, the i innermost continuations of m have *)
(* their copies on the heap of x, above the K that were there.             *)
(***************************************************************************)
ContsMoved(m, x, P, f, e, K, st, i) ==
  /\ Machine(x, P, f, e, conr, K, st)
  /\ Len(x.stk) = Len(m.stk) /\ Len(x.hcont) = K + i
  /\ \A j \in 1 .. K : x.hcont[j] = m.hcont[j]
  /\ \A r \in EnvRefs(m) : r \in EnvRefs(x) /\ Id(x, r) = Id(m, r)
  /\ Id(x, e) = Id(m, e)
  /\ \A j \in 1 .. Len(P) : /\ FrameOf(x, At(P[j])) = FrameOf(m, At(P[j]))
                           /\ x.stk[P[j]].conr = m.stk[P[j]].conr
  /\ \A j \in 1 .. i :
       /\ x.hcont[K + j].env \in EnvRefs(x)
       /\ x.hcont[K + j].conr = IF j = Len(P) THEN m.stk[P[j]].conr ELSE In(K + j + 1)
       /\ FrameOf(x, In(K + j)) = FrameOf(m, At(P[j]))
  /\ \A l \in Nat \ {0}, n \in Nat :
       n <= Len(m.stk) => Mark(SubSeq(x.stk, l, n)) = Mark(SubSeq(m.stk, l, n))

LEMMA ContsMovedStep ==
  ASSUME NEW m, NEW x, NEW P, NEW f, NEW e, NEW K, NEW st, NEW i \in 1 .. Len(P),
         ContsMoved(m, x, P, f, e, K, st, i - 1), \A j \in 1 .. Len(P) : P[j] <= f
  PROVE  ContsMoved(m, HeapCont(x, At(P[i])), P, f, e, K, st, i)
<1> DEFINE y == HeapCont(x, At(P[i]))
           k == Len(x.hcont) + 1
<1>1. Machine(x, P, f, e, conr, K, st)
  BY DEF ContsMoved
<1>2. /\ Machine(y, P, f, e, conr, K, st) /\ Len(y.stk) = Len(x.stk)
      /\ Len(y.hcont) = k /\ \A j \in 1 .. k - 1 : y.hcont[j] = x.hcont[j]
      /\ \A r \in EnvRefs(x) : r \in EnvRefs(y) /\ Id(y, r) = Id(x, r)
      /\ Id(y, e) = Id(x, e)
      /\ \A j \in 1 .. Len(P) : /\ FrameOf(y, At(P[j])) = FrameOf(x, At(P[j]))
                               /\ y.stk[P[j]].conr = x.stk[P[j]].conr
      /\ y.hcont[k].env \in EnvRefs(y)
      /\ y.hcont[k].conr = IF i = Len(P) THEN x.stk[P[i]].conr ELSE In(k + 1)
      /\ FrameOf(y, In(k)) = FrameOf(x, At(P[i]))
      /\ \A l \in Nat \ {0}, n \in Nat :
           n <= Len(x.stk) => Mark(SubSeq(y.stk, l, n)) = Mark(SubSeq(x.stk, l, n))
  BY <1>1, HeapContStep
<1> HIDE DEF y
<1>3. K \in Nat /\ Len(P) \in Nat /\ Len(m.stk) = Len(x.stk)
  BY <1>1, MemoryFacts DEF Machine, Heap, Suspended, ContsMoved
<1>4. k = K + i /\ k + 1 = K + i + 1 /\ k \in Nat
  BY <1>3 DEF ContsMoved
<1> HIDE DEF k
<1>5. \A j \in 1 .. K : y.hcont[j] = m.hcont[j]
  <2>1. \A j \in 1 .. K : j \in 1 .. k - 1
    BY <1>3, <1>4
  <2> QED BY <1>2, <2>1 DEF ContsMoved
<1>6. Id(y, e) = Id(m, e) /\ \A r \in EnvRefs(m) : r \in EnvRefs(y) /\ Id(y, r) = Id(m, r)
  BY <1>2 DEF ContsMoved
<1>7. \A j \in 1 .. Len(P) : /\ FrameOf(y, At(P[j])) = FrameOf(m, At(P[j]))
                            /\ y.stk[P[j]].conr = m.stk[P[j]].conr
  BY <1>2 DEF ContsMoved
<1>8. ASSUME NEW j \in 1 .. i
      PROVE  /\ y.hcont[K + j].env \in EnvRefs(y)
             /\ y.hcont[K + j].conr = IF j = Len(P) THEN m.stk[P[j]].conr ELSE In(K + j + 1)
             /\ FrameOf(y, In(K + j)) = FrameOf(m, At(P[j]))
  <2>1. CASE j = i
    <3>1. x.stk[P[i]].conr = m.stk[P[i]].conr /\ FrameOf(x, At(P[i])) = FrameOf(m, At(P[i]))
      BY DEF ContsMoved
    <3> QED BY <2>1, <3>1, <1>2, <1>4
  <2>2. CASE j # i
    <3>1. j \in 1 .. i - 1 /\ K + j \in 1 .. k - 1
      BY <2>2, <1>3, <1>4
    <3>2. y.hcont[K + j] = x.hcont[K + j]
      BY <3>1, <1>2
    <3>3. /\ x.hcont[K + j].env \in EnvRefs(x)
          /\ x.hcont[K + j].conr = IF j = Len(P) THEN m.stk[P[j]].conr ELSE In(K + j + 1)
          /\ FrameOf(x, In(K + j)) = FrameOf(m, At(P[j]))
      BY <3>1 DEF ContsMoved
    <3>4. Id(y, y.hcont[K + j].env) = Id(x, x.hcont[K + j].env)
      BY <3>2, <3>3, <1>2
    <3>5. FrameOf(y, In(K + j)) = FrameOf(x, In(K + j))
      BY <3>2, <3>4, FrameIs
    <3> QED BY <3>2, <3>3, <3>5, <1>2
  <2> QED BY <2>1, <2>2
<1>9. \A l \in Nat \ {0}, n \in Nat :
        n <= Len(m.stk) => Mark(SubSeq(y.stk, l, n)) = Mark(SubSeq(m.stk, l, n))
  BY <1>2, <1>3 DEF ContsMoved
<1>10. ContsMoved(m, y, P, f, e, K, st, i)
  BY <1>2, <1>3, <1>4, <1>5, <1>6, <1>7, <1>8, <1>9 DEF ContsMoved
<1> QED BY <1>10 DEF y

LEMMA Cont2HeapMoves ==
  ASSUME NEW P, Machine(Now, P, fn, envr, conr, Len(hcont), store), \A j \in 1 .. Len(P) : P[j] <= fn
  PROVE  ContsMoved(Now, Cont2Heap, P, fn, envr, Len(hcont), store, Len(P))
<1> DEFINE K == Len(hcont)
           n == Len(P)
           OK(g, i) == ContsMoved(Now, g, P, fn, envr, K, store, i)
           s == Chain(Now, conr)
           E(f) == [i \in 0 .. n |-> IF i = 0 THEN Now ELSE HeapCont(f[i - 1], s[i])]
           moved == CHOOSE f : f = E(f)
           F == [i \in 1 .. n |-> [g \in Memory |->
                   IF HeapCont(g, s[i]) \in Memory THEN HeapCont(g, s[i]) ELSE g]]
<1>1. /\ Now \in Memory /\ Suspended(Now, P, K) /\ Heap(Now, K) /\ Linked(P, 0, conr, K)
      /\ n \in Nat /\ K \in Nat /\ Now.hcont = hcont /\ Now.stk = stk
  BY MemoryFacts DEF Machine, Frame, Suspended, Now, Heap
<1>2. Depth = n /\ \A i \in 1 .. n : s[i] = At(P[i])
  BY <1>1, DepthIs
<1>3. Cont2Heap = moved[n]
  BY <1>2 DEF Cont2Heap
<1> HIDE DEF s, K, n
<1>4. OK(Now, 0)
  BY <1>1 DEF ContsMoved, K
<1>5. ASSUME NEW i \in 1 .. n, NEW g, OK(g, i - 1)
      PROVE  OK(HeapCont(g, s[i]), i) /\ HeapCont(g, s[i]) \in Memory /\ g \in Memory
  <2>1. OK(HeapCont(g, At(P[i])), i)
    BY <1>5, ContsMovedStep DEF n
  <2>2. HeapCont(g, At(P[i])) \in Memory /\ g \in Memory
    BY <1>5, <2>1 DEF ContsMoved, Machine
  <2> QED BY <2>1, <2>2, <1>2
<1>6. \A i \in 1 .. n : F[i] \in [Memory -> Memory]
  OBVIOUS
<1>7. PICK g \in [0 .. n -> Memory] : ByRecursion(g, F, Now, n)
  <2> HIDE DEF F
  <2> QED BY <1>1, <1>6, RecursionExists
<1>8. /\ g[0] = Now
      /\ \A i \in 1 .. n : g[i] = IF HeapCont(g[i - 1], s[i]) \in Memory
                                  THEN HeapCont(g[i - 1], s[i]) ELSE g[i - 1]
  <2>1. g[0] = Now /\ \A i \in 1 .. n : g[i] = F[i][g[i - 1]]
    BY <1>7 DEF ByRecursion
  <2>2. \A i \in 1 .. n : g[i - 1] \in Memory
    BY <1>1, <1>7
  <2> QED BY <2>1, <2>2
<1> HIDE DEF OK, F
<1>9. \A i \in 0 .. n : OK(g[i], i)
  <2> DEFINE S == {i \in 0 .. n : OK(g[i], i)}
  <2>1. 0 \in S
    BY <1>1, <1>4, <1>8
  <2>2. ASSUME NEW i \in 1 .. n, i - 1 \in S PROVE i \in S
    <3>1. OK(g[i - 1], i - 1)
      BY <2>2
    <3> QED BY <3>1, <1>5, <1>8
  <2>3. S \in SUBSET (0 .. n) /\ \A i \in S : OK(g[i], i)
    OBVIOUS
  <2>4. n \in Nat
    BY <1>1
  <2> HIDE DEF S
  <2>5. S = 0 .. n
    BY ONLY <2>1, <2>2, <2>3, <2>4, UpTo
  <2> QED BY ONLY <2>3, <2>5
<1>10. \A i \in 1 .. n : g[i] = HeapCont(g[i - 1], s[i])
  <2> SUFFICES ASSUME NEW i \in 1 .. n PROVE g[i] = HeapCont(g[i - 1], s[i])
    OBVIOUS
  <2>1. i - 1 \in 0 .. n
    BY <1>1
  <2> QED BY <2>1, <1>5, <1>8, <1>9
<1>11. g = E(g)
  <2>1. \A i \in 0 .. n : g[i] = IF i = 0 THEN Now ELSE HeapCont(g[i - 1], s[i])
    BY <1>1, <1>8, <1>10
  <2>2. g = [i \in 0 .. n |-> g[i]]
    BY <1>7
  <2>3. [i \in 0 .. n |-> g[i]] = E(g)
    BY <2>1
  <2> QED BY <2>2, <2>3
<1>12. moved = E(moved)
  <2> HIDE DEF E
  <2> QED BY <1>11
<1> HIDE DEF moved
<1>13. \A i \in 0 .. n : moved[i] = g[i]
  <2> DEFINE S == {i \in 0 .. n : moved[i] = g[i]}
  <2>0. \A i \in 0 .. n : moved[i] = IF i = 0 THEN Now ELSE HeapCont(moved[i - 1], s[i])
    <3>1. \A i \in 0 .. n : E(moved)[i] = IF i = 0 THEN Now ELSE HeapCont(moved[i - 1], s[i])
      OBVIOUS
    <3> HIDE DEF E
    <3> QED BY <1>12, <3>1
  <2>1. 0 \in S
    BY <1>1, <1>8, <2>0
  <2>2. ASSUME NEW i \in 1 .. n, i - 1 \in S PROVE i \in S
    <3>1. moved[i - 1] = g[i - 1] /\ i \in 0 .. n /\ i # 0
      BY <2>2, <1>1
    <3> QED BY <3>1, <2>0, <1>10
  <2>3. S \in SUBSET (0 .. n) /\ \A i \in S : moved[i] = g[i]
    OBVIOUS
  <2>4. n \in Nat
    BY <1>1
  <2> HIDE DEF S, n
  <2>5. S = 0 .. n
    BY ONLY <2>1, <2>2, <2>3, <2>4, UpTo
  <2> QED BY ONLY <2>3, <2>5
<1>14. n \in 0 .. n
  BY <1>1
<1>15. OK(Cont2Heap, n)
  BY <1>3, <1>9, <1>13, <1>14
<1> QED BY <1>15 DEF OK, K, n

-----------------------------------------------------------------------------
(***************************************************************************)
(* Continuations as the program sees them.                                 *)
(***************************************************************************)
Chained(m, c) == \E s \in Seq(Ref) : IsChain(m, c, s) /\ Len(s) <= Most(m)

LEMMA HeapIsChained ==
  ASSUME NEW m \in Memory, NEW K, Heap(m, K), NEW c \in ContRefs(K)
  PROVE  /\ \E s \in Seq(ContRefs(K)) : IsChain(m, c, s) /\ Len(s) <= K /\ Len(s) <= Most(m)
         /\ Chained(m, c)
<1>1. K \in Nat /\ K <= Len(m.hcont) /\ Len(m.hcont) \in Nat /\ Len(m.stk) \in Nat
  BY MemoryFacts DEF Heap
<1>2. PICK s \in Seq(ContRefs(K)) : IsChain(m, c, s) /\ Len(s) <= K
  BY <1>1, HeapChains
<1>3. Len(s) <= Most(m)
  <2>1. PICK a \in Nat, b \in Nat : a = Len(m.stk) /\ b = Len(m.hcont)
    BY <1>1
  <2>2. Most(m) = a + b
    BY <2>1, MostIs
  <2>3. Len(s) \in Nat /\ Len(s) <= b
    BY <1>1, <1>2, <2>1
  <2> QED BY <2>2, <2>3
<1>4. s \in Seq(Ref)
  <2>1. ContRefs(K) \subseteq Ref
    BY <1>1, Refs DEF ContRefs
  <2> QED BY <2>1
<1> QED BY <1>2, <1>3, <1>4 DEF Chained

LEMMA RegisterParts ==
  ASSUME NEW P \in Seq(Nat), NEW S, NEW t \in Seq(S), NEW s, s = OnStackPart(P) \o t
  PROVE  /\ Len(s) = Len(P) + Len(t) /\ Len(P) \in Nat /\ Len(t) \in Nat
         /\ \A i \in 1 .. Len(P) : s[i] = At(P[i])
         /\ \A i \in Len(P) + 1 .. Len(P) + Len(t) : s[i] = t[i - Len(P)]
<1> DEFINE q == OnStackPart(P)
<1>1. q \in Seq(Ref) /\ Len(q) = Len(P) /\ \A i \in 1 .. Len(P) : q[i] = At(P[i])
  BY OnStackPartIs
<1>2. s = q \o t
  OBVIOUS
<1> HIDE DEF q
<1>3. Len(q \o t) = Len(q) + Len(t)
  <2>1. q \in Seq(Ref \cup S) /\ t \in Seq(Ref \cup S)
    BY <1>1
  <2> QED BY <2>1, ConcatProperties
<1>4. \A i \in 1 .. Len(q) : (q \o t)[i] = q[i]
  BY <1>1, Joined
<1>5. \A i \in Len(q) + 1 .. Len(q) + Len(t) : (q \o t)[i] = t[i - Len(q)]
  BY <1>1, Joined
<1> QED BY <1>1, <1>2, <1>3, <1>4, <1>5

LEMMA ShortEnough ==
  ASSUME NEW m \in Memory, NEW P, NEW K, Suspended(m, P, K), Heap(m, K),
         NEW S, NEW t \in Seq(S), Len(t) <= K
  PROVE  Len(OnStackPart(P) \o t) = Len(P) + Len(t) /\ Len(OnStackPart(P) \o t) <= Most(m)
<1>0. K \in Nat /\ Len(m.stk) \in Nat /\ Len(m.hcont) \in Nat
  BY MemoryFacts DEF Heap
<1>1. Len(P) \in 0 .. Len(m.stk) /\ K <= Len(m.hcont)
  BY <1>0, FewFrames DEF Heap
<1> DEFINE q == OnStackPart(P)
<1>2. q \in Seq(Ref) /\ Len(q) = Len(P)
  BY OnStackPartIs DEF Suspended
<1> HIDE DEF q
<1>3. Len(q \o t) = Len(P) + Len(t) /\ Len(t) \in Nat
  <2>1. Len(q \o t) = Len(q) + Len(t)
    <3>1. q \in Seq(Ref \cup S) /\ t \in Seq(Ref \cup S)
      BY <1>2
    <3> QED BY <3>1
  <2> QED BY <1>2, <2>1
<1>4. PICK a \in Nat, b \in Nat : a = Len(m.stk) /\ b = Len(m.hcont)
  BY <1>0
<1>5. Most(m) = a + b
  BY <1>4, MostIs
<1>6. Len(P) <= a /\ Len(t) <= b /\ Len(P) \in Nat
  BY <1>0, <1>1, <1>3, <1>4
<1> QED BY <1>3, <1>5, <1>6 DEF q

LEMMA RegisterIsChained ==
  ASSUME NEW m \in Memory, NEW P, NEW c, NEW K, Suspended(m, P, K), Linked(P, 0, c, K), Heap(m, K)
  PROVE  /\ \E t \in Seq(ContRefs(K)) :
              /\ IsChain(m, Base(m, P, c), t) /\ Len(t) <= K
              /\ OnStackPart(P) \o t \in Seq(Ref) /\ IsChain(m, c, OnStackPart(P) \o t)
              /\ Len(OnStackPart(P) \o t) <= Most(m)
         /\ Base(m, P, c) \in ContRefs(K) /\ Chained(m, c)
<1>0. K \in Nat /\ Len(m.stk) \in Nat /\ Len(m.hcont) \in Nat
  BY MemoryFacts DEF Heap
<1>1. Base(m, P, c) \in ContRefs(K)
  BY DEF Base, Suspended, Frame, Linked
<1>2. PICK t \in Seq(ContRefs(K)) : IsChain(m, Base(m, P, c), t) /\ Len(t) <= K
  BY <1>0, <1>1, HeapChains
<1>3. OnStackPart(P) \o t \in Seq(Ref) /\ IsChain(m, c, OnStackPart(P) \o t)
  BY <1>0, <1>2, RegisterChain
<1>4. Len(OnStackPart(P) \o t) <= Most(m)
  BY <1>2, ShortEnough
<1>5. Chained(m, c)
  BY <1>3, <1>4 DEF Chained
<1> QED BY <1>1, <1>2, <1>3, <1>4, <1>5

LEMMA KontEqual ==
  ASSUME NEW m \in Memory, NEW c, NEW R, NEW s \in Seq(R), IsChain(m, c, s), Len(s) <= Most(m),
         NEW x \in Memory, NEW d, NEW S, NEW u \in Seq(S), IsChain(x, d, u), Len(u) <= Most(x),
         Len(s) = Len(u), \A i \in 1 .. Len(s) : FrameOf(x, u[i]) = FrameOf(m, s[i])
  PROVE  Kont(x, d) = Kont(m, c)
<1>1. Chain(m, c) = s /\ Chain(x, d) = u
  BY ChainIs
<1>2. DOMAIN s = 1 .. Len(s) /\ DOMAIN u = 1 .. Len(s)
  OBVIOUS
<1>3. Kont(m, c) = [i \in 1 .. Len(s) |-> FrameOf(m, s[i])]
  BY <1>1, <1>2 DEF Kont
<1>4. Kont(x, d) = [i \in 1 .. Len(s) |-> FrameOf(x, u[i])]
  BY <1>1, <1>2 DEF Kont
<1> QED BY <1>3, <1>4

(* The first frame, and the others. *)
LEMMA KontCons ==
  ASSUME NEW m \in Memory, NEW c, Chained(m, c), c # Nil
  PROVE  /\ Chained(m, NextCont(m, c))
         /\ Kont(m, c) # <<>>
         /\ Head(Kont(m, c)) = FrameOf(m, c)
         /\ Tail(Kont(m, c)) = Kont(m, NextCont(m, c))
         /\ Kont(m, c) = <<FrameOf(m, c)>> \o Kont(m, NextCont(m, c))
<1>1. PICK s \in Seq(Ref) : IsChain(m, c, s) /\ Len(s) <= Most(m)
  BY DEF Chained
<1>2. s # <<>> /\ s[1] = c /\ Len(s) \in Nat /\ Len(s) > 0
  BY <1>1 DEF IsChain
<1> DEFINE n == Len(s) - 1
           u == [i \in 1 .. n |-> s[i + 1]]
<1>3. n \in Nat /\ n + 1 = Len(s)
  BY <1>2
<1>4. \A i \in 1 .. Len(s) : s[i] # Nil /\ NextCont(m, s[i]) = IF i = Len(s) THEN Nil ELSE s[i + 1]
  BY <1>1 DEF IsChain
<1> HIDE DEF n
<1>5. u \in Seq(Ref) /\ Len(u) = n /\ \A i \in 1 .. n : u[i] = s[i + 1]
  <2>1. \A i \in 1 .. n : s[i + 1] \in Ref
    BY <1>3
  <2> QED BY <1>3, <2>1
<1> HIDE DEF u
<1>6. IsChain(m, NextCont(m, c), u)
  <2>1. NextCont(m, c) = IF u = <<>> THEN Nil ELSE u[1]
    <3>1. NextCont(m, c) = IF 1 = Len(s) THEN Nil ELSE s[2]
      <4>1. 1 \in 1 .. Len(s) /\ 1 + 1 = 2
        BY <1>2
      <4>2. NextCont(m, s[1]) = IF 1 = Len(s) THEN Nil ELSE s[1 + 1]
        BY <1>4, <4>1
      <4> QED BY <1>2, <4>1, <4>2
    <3>2. u = <<>> <=> n = 0
      BY <1>3, <1>5
    <3>3. n # 0 => u[1] = s[2]
      BY <1>3, <1>5
    <3> QED BY <1>3, <3>1, <3>2, <3>3
  <2>2. ASSUME NEW i \in 1 .. n PROVE u[i] # Nil /\ NextCont(m, u[i]) = IF i = n THEN Nil ELSE u[i + 1]
    <3>1. i + 1 \in 1 .. Len(s) /\ u[i] = s[i + 1]
      BY <1>3, <1>5
    <3>2. i # n => u[i + 1] = s[i + 1 + 1]
      BY <1>3, <1>5
    <3>3. i = n <=> i + 1 = Len(s)
      BY <1>3
    <3> QED BY <3>1, <3>2, <3>3, <1>4
  <2> QED BY <1>5, <2>1, <2>2 DEF IsChain
<1>7. Most(m) \in Nat
  <2>1. Len(m.stk) \in Nat /\ Len(m.hcont) \in Nat
    BY MemoryFacts
  <2>2. PICK a \in Nat, b \in Nat : a = Len(m.stk) /\ b = Len(m.hcont)
    BY <2>1
  <2>3. Most(m) = a + b
    BY <2>2, MostIs
  <2> QED BY <2>3
<1>8. Len(u) <= Most(m)
  BY <1>1, <1>3, <1>5, <1>7
<1>9. Chain(m, c) = s /\ Chain(m, NextCont(m, c)) = u
  BY <1>1, <1>5, <1>6, <1>8, ChainIs
<1> DEFINE k == [i \in 1 .. Len(s) |-> FrameOf(m, s[i])]
           l == [i \in 1 .. n |-> FrameOf(m, u[i])]
           F == {FrameOf(m, s[i]) : i \in 1 .. Len(s)}
<1>10. Kont(m, c) = k /\ Kont(m, NextCont(m, c)) = l
  <2>1. DOMAIN s = 1 .. Len(s) /\ DOMAIN u = 1 .. n
    BY <1>5
  <2> QED BY <1>9, <2>1 DEF Kont
<1>11. k \in Seq(F) /\ Len(k) = Len(s) /\ \A i \in 1 .. Len(s) : k[i] = FrameOf(m, s[i])
  BY <1>2
<1>12. \A i \in 1 .. n : l[i] = k[i + 1]
  <2> SUFFICES ASSUME NEW i \in 1 .. n PROVE l[i] = k[i + 1]
    OBVIOUS
  <2>1. i + 1 \in 1 .. Len(s) /\ u[i] = s[i + 1]
    BY <1>3, <1>5
  <2> HIDE DEF k
  <2> QED BY <2>1, <1>11
<1>13. DOMAIN l = 1 .. n /\ l = [i \in 1 .. n |-> l[i]]
  OBVIOUS
<1> HIDE DEF k, l, F
<1>14. k # <<>> /\ Head(k) = FrameOf(m, c)
  <2>1. 1 \in 1 .. Len(s)
    BY <1>2
  <2> QED BY <1>2, <1>11, <2>1
<1>15. ASSUME NEW w, w \in Seq(F), Len(w) = n, \A i \in 1 .. n : w[i] = k[i + 1] PROVE w = l
  <2>1. w = [i \in 1 .. n |-> w[i]]
    BY <1>15
  <2> QED BY <2>1, <1>12, <1>13, <1>15
<1>16. Tail(k) = l
  <2>1. /\ Tail(k) \in Seq(F) /\ Len(Tail(k)) = Len(k) - 1
        /\ \A i \in 1 .. Len(Tail(k)) : Tail(k)[i] = k[i + 1]
    BY <1>11, <1>14, HeadTailProperties
  <2>2. Len(Tail(k)) = n
    BY <1>3, <1>11, <2>1
  <2> QED BY <1>15, <2>1, <2>2
<1>17. k = <<FrameOf(m, c)>> \o l
  <2> DEFINE h == FrameOf(m, c)
             w == <<h>> \o l
  <2>1. h \in F
    BY <1>2 DEF F
  <2>2. l \in Seq(F) /\ Len(l) = n
    <3>1. Tail(k) \in Seq(F) /\ Len(Tail(k)) = Len(k) - 1
      BY <1>11, <1>14, HeadTailProperties
    <3> QED BY <3>1, <1>3, <1>11, <1>16
  <2>3. k[1] = h
    BY <1>2, <1>11
  <2> HIDE DEF h
  <2>4. w \in Seq(F) /\ Len(w) = n + 1 /\ w[1] = h /\ \A i \in 1 .. n : w[i + 1] = l[i]
    BY <2>1, <2>2, Prepended
  <2> HIDE DEF w
  <2>5. ASSUME NEW i \in 1 .. n + 1 PROVE w[i] = k[i]
    <3>1. CASE i = 1
      BY <3>1, <2>3, <2>4
    <3>2. CASE i # 1
      <4>1. i - 1 \in 1 .. n /\ i - 1 + 1 = i
        BY <3>2, <1>3
      <4> QED BY <4>1, <2>4, <1>12
    <3> QED BY <3>1, <3>2
  <2>6. w = [i \in 1 .. n + 1 |-> w[i]] /\ k = [i \in 1 .. n + 1 |-> k[i]]
    BY <2>4, <1>3, <1>11
  <2>7. w = k
    BY <2>5, <2>6
  <2> QED BY <2>7 DEF w, h
<1> QED BY <1>5, <1>6, <1>8, <1>10, <1>14, <1>16, <1>17 DEF Chained

(* A step keeps what the program sees of the heap's continuations, and of  *)
(* the register's if it keeps the frames that are still on the stack.      *)
HeapStays(m, x, K) ==
  /\ \A r \in EnvRefs(m) : r \in EnvRefs(x) /\ Id(x, r) = Id(m, r)
  /\ \A k \in 1 .. K : x.hcont[k] = m.hcont[k]

LEMMA HeapFrameKept ==
  ASSUME NEW m, NEW x, NEW K, Heap(m, K), HeapStays(m, x, K), NEW c \in ContRefs(K), c # Nil
  PROVE  FrameOf(x, c) = FrameOf(m, c)
<1>1. PICK k \in 1 .. K : c = In(k)
  BY DEF ContRefs
<1>2. x.hcont[k] = m.hcont[k] /\ m.hcont[k].env \in EnvRefs(m)
  BY DEF HeapStays, Heap
<1>3. Id(x, m.hcont[k].env) = Id(m, m.hcont[k].env)
  BY <1>2 DEF HeapStays
<1> QED BY <1>1, <1>2, <1>3, FrameIs

LEMMA HeapKontKept ==
  ASSUME NEW m \in Memory, NEW x \in Memory, NEW K, Heap(m, K), Heap(x, K), HeapStays(m, x, K),
         NEW c \in ContRefs(K)
  PROVE  Kont(x, c) = Kont(m, c)
<1>1. PICK s \in Seq(ContRefs(K)) : IsChain(m, c, s) /\ Len(s) <= K /\ Len(s) <= Most(m)
  BY HeapIsChained
<1>2. IsChain(x, c, s)
  BY <1>1, ChainKept DEF HeapStays
<1>3. Len(s) <= Most(x)
  <2>1. K \in Nat /\ K <= Len(x.hcont) /\ Len(x.hcont) \in Nat /\ Len(x.stk) \in Nat
    BY MemoryFacts DEF Heap
  <2>2. PICK a \in Nat, b \in Nat : a = Len(x.stk) /\ b = Len(x.hcont)
    BY <2>1
  <2>3. Most(x) = a + b
    BY <2>2, MostIs
  <2>4. Len(s) \in Nat /\ Len(s) <= b
    BY <1>1, <2>1, <2>2
  <2> QED BY <2>3, <2>4
<1>4. ASSUME NEW i \in 1 .. Len(s) PROVE FrameOf(x, s[i]) = FrameOf(m, s[i])
  <2>1. s[i] \in ContRefs(K)
    BY <1>1
  <2>2. s[i] # Nil
    BY <1>1 DEF IsChain
  <2> QED BY <2>1, <2>2, HeapFrameKept
<1> QED BY <1>1, <1>2, <1>3, <1>4, KontEqual

LEMMA RegisterKontKept ==
  ASSUME NEW m \in Memory, NEW x \in Memory, NEW K, Heap(m, K), Heap(x, K), HeapStays(m, x, K),
         NEW P, NEW c, Linked(P, 0, c, K), Suspended(m, P, K), Suspended(x, P, K),
         \A i \in 1 .. Len(P) : /\ x.stk[P[i]].conr = m.stk[P[i]].conr
                                /\ FrameOf(x, At(P[i])) = FrameOf(m, At(P[i]))
  PROVE  Kont(x, c) = Kont(m, c)
<1>1. PICK t \in Seq(ContRefs(K)) :
        /\ IsChain(m, Base(m, P, c), t) /\ Len(t) <= K
        /\ OnStackPart(P) \o t \in Seq(Ref) /\ IsChain(m, c, OnStackPart(P) \o t)
        /\ Len(OnStackPart(P) \o t) <= Most(m)
  BY RegisterIsChained
<1>2. K \in Nat /\ P \in Seq(Nat) /\ Len(P) \in Nat
  BY DEF Heap, Suspended
<1>3. Base(x, P, c) = Base(m, P, c)
  BY <1>2 DEF Base
<1>4. IsChain(x, Base(x, P, c), t)
  BY <1>1, <1>3, ChainKept DEF HeapStays
<1>5. IsChain(x, c, OnStackPart(P) \o t)
  BY <1>2, <1>4, RegisterChain
<1>6. Len(OnStackPart(P) \o t) <= Most(x)
  BY <1>1, ShortEnough
<1>7. PICK s : s = OnStackPart(P) \o t
  OBVIOUS
<1>8. s \in Seq(Ref) /\ IsChain(m, c, s) /\ Len(s) <= Most(m) /\ IsChain(x, c, s) /\ Len(s) <= Most(x)
  BY <1>1, <1>5, <1>6, <1>7
<1>9. /\ Len(s) = Len(P) + Len(t) /\ Len(P) \in Nat /\ Len(t) \in Nat
      /\ \A i \in 1 .. Len(P) : s[i] = At(P[i])
      /\ \A i \in Len(P) + 1 .. Len(P) + Len(t) : s[i] = t[i - Len(P)]
  BY <1>2, <1>7, RegisterParts
<1>10. ASSUME NEW i \in 1 .. Len(s) PROVE FrameOf(x, s[i]) = FrameOf(m, s[i])
  <2>1. CASE i <= Len(P)
    <3>1. i \in 1 .. Len(P) /\ s[i] = At(P[i])
      BY <2>1, <1>9
    <3> QED BY <3>1
  <2>2. CASE ~(i <= Len(P))
    <3>1. i \in Len(P) + 1 .. Len(P) + Len(t) /\ i - Len(P) \in 1 .. Len(t)
      BY <2>2, <1>9
    <3>2. s[i] = t[i - Len(P)]
      BY <3>1, <1>9
    <3>3. t[i - Len(P)] \in ContRefs(K) /\ t[i - Len(P)] # Nil
      BY <3>1, <1>1 DEF IsChain
    <3> QED BY <3>2, <3>3, HeapFrameKept
  <2> QED BY <2>1, <2>2
<1> QED BY <1>8, <1>10, KontEqual

-----------------------------------------------------------------------------
(* A frame put on top of those that are suspended, or taken from there.    *)
Below(P, Q) == P \in Seq(Nat) /\ Q \in Seq(Nat) /\ Len(P) = Len(Q) + 1
               /\ \A i \in 1 .. Len(Q) : Q[i] = P[i + 1]

LEMMA FrameShift ==
  ASSUME NEW P, NEW Q, Below(P, Q), NEW i \in 0 .. Len(Q), NEW m, NEW f, NEW e, NEW c, NEW K
  PROVE  Frame(m, Q, i, f, e, c, K) <=> Frame(m, P, i + 1, f, e, c, K)
<1>1. Len(Q) \in Nat /\ Len(P) = Len(Q) + 1 /\ \A j \in 1 .. Len(Q) : Q[j] = P[j + 1]
  BY DEF Below
<1>2. Linked(Q, i, c, K) <=> Linked(P, i + 1, c, K)
  <2>1. i = Len(Q) <=> i + 1 = Len(P)
    BY <1>1
  <2>2. i # Len(Q) => Q[i + 1] = P[i + 1 + 1]
    <3>1. i # Len(Q) => i + 1 \in 1 .. Len(Q)
      BY <1>1
    <3> QED BY <3>1, <1>1
  <2> QED BY <2>1, <2>2 DEF Linked
<1>3. ASSUME Nested(m, Q, i, f), NEW j \in i + 1 + 1 .. Len(P), P[j] > f PROVE m.stk[P[j]].fn = f
  <2>1. j - 1 \in i + 1 .. Len(Q) /\ j - 1 \in 1 .. Len(Q) /\ j - 1 + 1 = j
    BY <1>1
  <2>2. Q[j - 1] = P[j]
    BY <2>1, <1>1
  <2> QED BY <1>3, <2>1, <2>2 DEF Nested
<1>4. ASSUME Nested(m, P, i + 1, f), NEW j \in i + 1 .. Len(Q), Q[j] > f PROVE m.stk[Q[j]].fn = f
  <2>1. j + 1 \in i + 1 + 1 .. Len(P) /\ j \in 1 .. Len(Q)
    BY <1>1
  <2>2. Q[j] = P[j + 1]
    BY <2>1, <1>1
  <2> QED BY <1>4, <2>1, <2>2 DEF Nested
<1>5. Nested(m, Q, i, f) <=> Nested(m, P, i + 1, f)
  BY <1>3, <1>4 DEF Nested
<1> QED BY <1>2, <1>5 DEF Frame

LEMMA BelowEnvs ==
  ASSUME NEW P, NEW Q, Below(P, Q), NEW m
  PROVE  StackEnvs(m, P) = {m.stk[P[1]].env} \cup StackEnvs(m, Q)
<1>1. Len(Q) \in Nat /\ Len(P) = Len(Q) + 1 /\ \A j \in 1 .. Len(Q) : Q[j] = P[j + 1]
  BY DEF Below
<1>2. ASSUME NEW i \in 1 .. Len(P) PROVE m.stk[P[i]].env \in {m.stk[P[1]].env} \cup StackEnvs(m, Q)
  <2>1. CASE i = 1
    BY <2>1
  <2>2. CASE i # 1
    <3>1. i - 1 \in 1 .. Len(Q) /\ i - 1 + 1 = i
      BY <2>2, <1>1
    <3>2. Q[i - 1] = P[i]
      BY <3>1, <1>1
    <3> QED BY <3>1, <3>2 DEF StackEnvs
  <2> QED BY <2>1, <2>2
<1>3. ASSUME NEW i \in 1 .. Len(Q) PROVE m.stk[Q[i]].env \in StackEnvs(m, P)
  <2>1. i + 1 \in 1 .. Len(P) /\ Q[i] = P[i + 1]
    BY <1>1
  <2> QED BY <2>1 DEF StackEnvs
<1>4. m.stk[P[1]].env \in StackEnvs(m, P)
  <2>1. 1 \in 1 .. Len(P)
    BY <1>1
  <2> QED BY <2>1 DEF StackEnvs
<1>5. StackEnvs(m, P) \subseteq {m.stk[P[1]].env} \cup StackEnvs(m, Q)
  BY <1>2 DEF StackEnvs
<1>6. StackEnvs(m, Q) \subseteq StackEnvs(m, P)
  BY <1>3 DEF StackEnvs
<1> QED BY <1>4, <1>5, <1>6

LEMMA SuspendedRest ==
  ASSUME NEW m, NEW P, NEW Q, NEW K, Suspended(m, P, K), Below(P, Q)
  PROVE  /\ Suspended(m, Q, K) /\ \A i \in 1 .. Len(Q) : Q[i] < P[1]
         /\ Frame(m, Q, 0, m.stk[P[1]].fn, m.stk[P[1]].env, m.stk[P[1]].conr, K)
<1>1. Len(Q) \in Nat /\ Len(P) = Len(Q) + 1 /\ \A j \in 1 .. Len(Q) : Q[j] = P[j + 1]
  BY DEF Below
<1>2. ASSUME NEW i \in 1 .. Len(Q)
      PROVE  /\ Q[i] \in 1 .. Len(m.stk) /\ m.stk[Q[i]] \in ContRecord /\ m.stk[Q[i]].fn < Q[i]
             /\ Frame(m, Q, i, m.stk[Q[i]].fn, m.stk[Q[i]].env, m.stk[Q[i]].conr, K)
             /\ Q[i] < P[1]
  <2>1. i + 1 \in 1 .. Len(P) /\ Q[i] = P[i + 1] /\ i \in 0 .. Len(Q) /\ 1 \in 1 .. Len(P) /\ 1 < i + 1
    BY <1>1
  <2>2. Frame(m, P, i + 1, m.stk[Q[i]].fn, m.stk[Q[i]].env, m.stk[Q[i]].conr, K)
    BY <2>1 DEF Suspended
  <2>3. P[i + 1] < P[1]
    BY <2>1 DEF Suspended
  <2> QED BY <2>1, <2>2, <2>3, FrameShift DEF Suspended
<1>3. ASSUME NEW i \in 1 .. Len(Q), NEW j \in 1 .. Len(Q), i < j PROVE Q[j] < Q[i]
  <2>1. i + 1 \in 1 .. Len(P) /\ j + 1 \in 1 .. Len(P) /\ i + 1 < j + 1 /\ Q[i] = P[i + 1] /\ Q[j] = P[j + 1]
    BY <1>1, <1>3
  <2> QED BY <2>1 DEF Suspended
<1>4. Frame(m, Q, 0, m.stk[P[1]].fn, m.stk[P[1]].env, m.stk[P[1]].conr, K)
  <2>1. 1 \in 1 .. Len(P) /\ 0 \in 0 .. Len(Q) /\ 0 + 1 = 1
    BY <1>1
  <2>2. Frame(m, P, 1, m.stk[P[1]].fn, m.stk[P[1]].env, m.stk[P[1]].conr, K)
    BY <2>1 DEF Suspended
  <2>3. Frame(m, P, 0 + 1, m.stk[P[1]].fn, m.stk[P[1]].env, m.stk[P[1]].conr, K)
    BY <2>1, <2>2
  <2> QED BY <2>1, <2>3, FrameShift
<1> QED BY <1>2, <1>3, <1>4 DEF Suspended, Below

LEMMA SuspendedMore ==
  ASSUME NEW m, NEW P, NEW Q, NEW K, Suspended(m, Q, K), Below(P, Q),
         P[1] \in 1 .. Len(m.stk), m.stk[P[1]] \in ContRecord, m.stk[P[1]].fn < P[1],
         Frame(m, Q, 0, m.stk[P[1]].fn, m.stk[P[1]].env, m.stk[P[1]].conr, K),
         \A i \in 1 .. Len(Q) : Q[i] < P[1]
  PROVE  Suspended(m, P, K)
<1>1. Len(Q) \in Nat /\ Len(P) = Len(Q) + 1 /\ \A j \in 1 .. Len(Q) : Q[j] = P[j + 1]
  BY DEF Below
<1>2. ASSUME NEW i \in 1 .. Len(P)
      PROVE  /\ P[i] \in 1 .. Len(m.stk) /\ m.stk[P[i]] \in ContRecord /\ m.stk[P[i]].fn < P[i]
             /\ Frame(m, P, i, m.stk[P[i]].fn, m.stk[P[i]].env, m.stk[P[i]].conr, K)
  <2>1. CASE i = 1
    <3>1. 0 \in 0 .. Len(Q) /\ 0 + 1 = 1
      BY <1>1
    <3>2. Frame(m, P, 0 + 1, m.stk[P[1]].fn, m.stk[P[1]].env, m.stk[P[1]].conr, K)
      BY <3>1, FrameShift
    <3> QED BY <2>1, <3>1, <3>2
  <2>2. CASE i # 1
    <3> DEFINE j == i - 1
    <3>1. j \in 1 .. Len(Q) /\ j \in 0 .. Len(Q) /\ j + 1 = i
      BY <2>2, <1>1
    <3> HIDE DEF j
    <3>2. Q[j] = P[i]
      BY <3>1, <1>1
    <3>3. Frame(m, Q, j, m.stk[P[i]].fn, m.stk[P[i]].env, m.stk[P[i]].conr, K)
      BY <3>1, <3>2 DEF Suspended
    <3>4. Frame(m, P, j + 1, m.stk[P[i]].fn, m.stk[P[i]].env, m.stk[P[i]].conr, K)
      BY <3>1, <3>3, FrameShift
    <3> QED BY <3>1, <3>2, <3>4 DEF Suspended
  <2> QED BY <2>1, <2>2
<1>3. ASSUME NEW i \in 1 .. Len(P), NEW j \in 1 .. Len(P), i < j PROVE P[j] < P[i]
  <2>1. j - 1 \in 1 .. Len(Q) /\ j - 1 + 1 = j
    BY <1>1, <1>3
  <2>2. Q[j - 1] = P[j]
    BY <2>1, <1>1
  <2>3. CASE i = 1
    BY <2>1, <2>2, <2>3
  <2>4. CASE i # 1
    <3>1. i - 1 \in 1 .. Len(Q) /\ i - 1 + 1 = i /\ i - 1 < j - 1
      BY <2>4, <1>1, <1>3
    <3>2. Q[i - 1] = P[i]
      BY <3>1, <1>1
    <3> QED BY <2>1, <2>2, <3>1, <3>2 DEF Suspended
  <2> QED BY <2>3, <2>4
<1> QED BY <1>2, <1>3 DEF Suspended, Below

-----------------------------------------------------------------------------
(***************************************************************************)
(* The steps of the machine, one lemma for each change of its memory.      *)
(***************************************************************************)

(* What a step keeps that leaves the suspended frames and the heap alone.  *)
LEMMA FramesStay ==
  ASSUME NEW m, NEW P, NEW f, NEW e, NEW c, NEW K, NEW st, Machine(m, P, f, e, c, K, st),
         NEW x \in Memory, NEW n, Agree(m, x, n), \A i \in 1 .. Len(P) : P[i] <= n
  PROVE  /\ Suspended(x, P, K) /\ Heap(x, K) /\ HeapStays(m, x, K)
         /\ EnvRefs(x) = EnvRefs(m) /\ StackEnvs(x, P) = StackEnvs(m, P)
         /\ \A i \in 1 .. Len(P) : x.stk[P[i]] = m.stk[P[i]] /\ FrameOf(x, At(P[i])) = FrameOf(m, At(P[i]))
         /\ Represents(x, Live(x, P, Nil), st)
         /\ Kont(x, c) = Kont(m, c) /\ \A h \in ContRefs(K) : Kont(x, h) = Kont(m, h)
<1>1. /\ m \in Memory /\ Suspended(m, P, K) /\ Heap(m, K) /\ Linked(P, 0, c, K)
      /\ Represents(m, Live(m, P, e), st) /\ x.henv = m.henv /\ x.hcont = m.hcont
  BY DEF Machine, Frame, Agree
<1>2. /\ Suspended(x, P, K) /\ StackEnvs(x, P) = StackEnvs(m, P)
      /\ \A i \in 1 .. Len(P) : x.stk[P[i]] = m.stk[P[i]] /\ SavedStack(x, P[i]) = SavedStack(m, P[i])
      /\ \A r \in Live(m, P, Nil) : Same(m, r, x, r)
  BY <1>1, SuspendedKept
<1>3. EnvRefs(x) = EnvRefs(m) /\ \A r \in EnvRefs(m) : Id(x, r) = Id(m, r)
  BY <1>1, SameIds
<1>4. Heap(x, K) /\ HeapStays(m, x, K)
  BY <1>1, <1>3, HeapKept DEF HeapStays
<1>5. ASSUME NEW i \in 1 .. Len(P) PROVE FrameOf(x, At(P[i])) = FrameOf(m, At(P[i]))
  <2> DEFINE r == m.stk[P[i]].env
  <2>1. Id(x, r) = Id(m, r)
    <3>1. CASE r = Nil
      BY <3>1 DEF Id
    <3>2. CASE r # Nil
      <4>1. r \in Live(m, P, Nil)
        BY <3>2 DEF Live, StackEnvs
      <4> QED BY <4>1, <1>2 DEF Same
    <3> QED BY <3>1, <3>2
  <2> QED BY <2>1, <1>2, FrameIs
<1>6. Represents(x, Live(x, P, Nil), st)
  <2>1. Live(x, P, Nil) = Live(m, P, Nil) /\ Live(m, P, Nil) \subseteq Live(m, P, e)
    BY <1>2, <1>3 DEF Live
  <2> QED BY <2>1, <1>1, <1>2, StillRepresentsFewer
<1>7. Kont(x, c) = Kont(m, c)
  BY <1>1, <1>2, <1>4, <1>5, RegisterKontKept
<1>8. \A h \in ContRefs(K) : Kont(x, h) = Kont(m, h)
  BY <1>1, <1>4, HeapKontKept
<1> QED BY <1>2, <1>3, <1>4, <1>5, <1>6, <1>7, <1>8

(* One that leaves the running frame's environment alone too. *)
LEMMA MachineStays ==
  ASSUME NEW m, NEW P, NEW f, NEW e, NEW c, NEW K, NEW st, Machine(m, P, f, e, c, K, st),
         NEW x \in Memory, NEW n, Agree(m, x, n), \A i \in 1 .. Len(P) : P[i] <= n, f <= n
  PROVE  Machine(x, P, f, e, c, K, st) /\ Id(x, e) = Id(m, e)
<1>1. /\ m \in Memory /\ Suspended(m, P, K) /\ Heap(m, K) /\ Frame(m, P, 0, f, e, c, K)
      /\ Represents(m, Live(m, P, e), st) /\ f \in Nat
  BY DEF Machine
<1>2. /\ Suspended(x, P, K) /\ Heap(x, K)
      /\ EnvRefs(x) = EnvRefs(m) /\ StackEnvs(x, P) = StackEnvs(m, P)
      /\ \A i \in 1 .. Len(P) : x.stk[P[i]] = m.stk[P[i]]
  BY FramesStay
<1>3. FrameEnv(x, f, e) /\ (e # Nil => Same(m, e, x, e))
  BY <1>1, FrameEnvKept DEF Frame
<1>4. Frame(x, P, 0, f, e, c, K)
  <2>1. Nested(x, P, 0, f)
    BY <1>1, <1>2 DEF Frame, Nested
  <2> QED BY <2>1, <1>1, <1>3 DEF Frame
<1>5. \A r \in Live(m, P, Nil) : Same(m, r, x, r)
  BY <1>1, SuspendedKept
<1>6. Represents(x, Live(x, P, e), st)
  <2>1. Live(x, P, e) = Live(m, P, e)
    BY <1>2 DEF Live
  <2>2. \A r \in Live(m, P, e) : Same(m, r, x, r)
    BY <1>3, <1>5 DEF Live
  <2> QED BY <2>1, <2>2, <1>1, StillRepresentsFewer
<1>7. f \in 0 .. Len(x.stk)
  BY <1>1, MemoryFacts DEF Agree
<1>8. Id(x, e) = Id(m, e)
  <2>1. CASE e = Nil
    BY <2>1 DEF Id
  <2>2. CASE e # Nil
    BY <2>2, <1>3 DEF Same
  <2> QED BY <2>1, <2>2
<1> QED BY <1>2, <1>4, <1>6, <1>7, <1>8 DEF Machine

(* The temporaries of a frame that begins at f. *)
Temps(s, f) == Mark(SubSeq(s, f + 1, Len(s)))
MarkOf(v)   == IF IsValue(v) THEN v ELSE "call"

LEMMA TempsAre ==
  ASSUME NEW s \in Seq(Slot), NEW f \in 0 .. Len(s)
  PROVE  /\ Temps(s, f) = [i \in 1 .. Len(s) - f |-> MarkOf(s[f + i])]
         /\ Temps(s, f) \in Seq({MarkOf(v) : v \in Slot}) /\ Len(Temps(s, f)) = Len(s) - f
<1> DEFINE n == Len(s)
           u == SubSeq(s, f + 1, n)
           t == [i \in 1 .. n - f |-> MarkOf(s[f + i])]
<1>1. n \in Nat /\ f \in Nat /\ f <= n /\ n - f \in Nat
  OBVIOUS
<1>2. u = [i \in 1 .. 1 + n - (f + 1) |-> s[i + (f + 1) - 1]]
  BY <1>1
<1>3. 1 + n - (f + 1) = n - f
  BY <1>1
<1>4. DOMAIN u = 1 .. n - f /\ \A i \in 1 .. n - f : u[i] = s[f + i]
  <2>1. \A i \in 1 .. n - f : i + (f + 1) - 1 = f + i
    BY <1>1
  <2> QED BY <1>2, <1>3, <2>1
<1>5. Mark(u) = t
  <2> HIDE DEF u
  <2> QED BY <1>4 DEF Mark, MarkOf
<1>6. \A i \in 1 .. n - f : MarkOf(s[f + i]) \in {MarkOf(v) : v \in Slot}
  <2> SUFFICES ASSUME NEW i \in 1 .. n - f PROVE s[f + i] \in Slot
    OBVIOUS
  <2>1. f + i \in 1 .. n
    BY <1>1
  <2> QED BY <2>1
<1>7. t \in Seq({MarkOf(v) : v \in Slot}) /\ Len(t) = n - f
  <2> DEFINE M == {MarkOf(v) : v \in Slot}
  <2>1. \A i \in 1 .. n - f : MarkOf(s[f + i]) \in M
    BY <1>6
  <2> HIDE DEF M, n
  <2>2. t \in Seq(M) /\ Len(t) = n - f
    BY <1>1, <2>1
  <2> QED BY <2>2 DEF M, n
<1> QED BY <1>5, <1>7 DEF Temps

LEMMA TempsAppend ==
  ASSUME NEW s \in Seq(Slot), NEW f \in 0 .. Len(s), NEW v \in Slot
  PROVE  Temps(Append(s, v), f) = Append(Temps(s, f), MarkOf(v))
<1> DEFINE n == Len(s)
           t == Temps(s, f)
           S == {MarkOf(w) : w \in Slot}
<1>1. n \in Nat /\ f \in 0 .. n /\ n - f \in Nat
  OBVIOUS
<1>2. t = [i \in 1 .. n - f |-> MarkOf(s[f + i])] /\ t \in Seq(S) /\ Len(t) = n - f
  BY TempsAre
<1>3. Append(s, v) \in Seq(Slot) /\ Len(Append(s, v)) = n + 1
      /\ (\A i \in 1 .. n : Append(s, v)[i] = s[i]) /\ Append(s, v)[n + 1] = v
  OBVIOUS
<1>4. Temps(Append(s, v), f) = [i \in 1 .. n + 1 - f |-> MarkOf(Append(s, v)[f + i])]
  <2> DEFINE w == Append(s, v)
  <2> HIDE DEF w, n, t, S
  <2>1. w \in Seq(Slot) /\ Len(w) = n + 1 /\ f \in 0 .. Len(w)
    BY <1>1, <1>3 DEF w
  <2>2. Temps(w, f) = [i \in 1 .. Len(w) - f |-> MarkOf(w[f + i])]
    BY <2>1, TempsAre
  <2>3. Temps(w, f) = [i \in 1 .. n + 1 - f |-> MarkOf(w[f + i])]
    <3>1. Len(w) - f = n + 1 - f
      BY <1>1, <2>1
    <3> QED BY <2>2, <3>1, Zenon
  <2> QED BY <2>3 DEF w
<1>5. MarkOf(v) \in S
  OBVIOUS
<1> HIDE DEF t, S, n
<1> DEFINE a == Append(t, MarkOf(v))
<1>6. a \in Seq(S) /\ Len(a) = n - f + 1 /\ (\A i \in 1 .. n - f : a[i] = t[i]) /\ a[n - f + 1] = MarkOf(v)
  <2> DEFINE o == MarkOf(v)
  <2>1. o \in S
    BY <1>5
  <2> HIDE DEF o
  <2>2. Append(t, o) \in Seq(S) /\ Len(Append(t, o)) = Len(t) + 1
        /\ (\A i \in 1 .. Len(t) : Append(t, o)[i] = t[i]) /\ Append(t, o)[Len(t) + 1] = o
    <3>1. t \in Seq(S)
      BY <1>2
    <3> QED BY ONLY <2>1, <3>1
  <2> QED BY <1>2, <2>2 DEF o
<1> HIDE DEF a
<1>7. a = [i \in 1 .. n + 1 - f |-> a[i]]
  BY <1>1, <1>6
<1>8. ASSUME NEW i \in 1 .. n + 1 - f PROVE a[i] = MarkOf(Append(s, v)[f + i])
  <2>1. CASE i = n - f + 1
    BY <2>1, <1>1, <1>3, <1>6
  <2>2. CASE i # n - f + 1
    <3>1. i \in 1 .. n - f /\ f + i \in 1 .. n
      BY <2>2, <1>1
    <3> QED BY <3>1, <1>2, <1>3, <1>6
  <2> QED BY <2>1, <2>2
<1> QED BY <1>4, <1>7, <1>8 DEF a, t

LEMMA TempsFront ==
  ASSUME NEW s \in Seq(Slot), NEW f \in 0 .. Len(s), f < Len(s)
  PROVE  /\ Temps(s, f) # <<>>
         /\ Front(s) \in Seq(Slot) /\ Len(Front(s)) = Len(s) - 1
         /\ \A i \in 1 .. Len(s) - 1 : Front(s)[i] = s[i]
         /\ Temps(Front(s), f) = SubSeq(Temps(s, f), 1, Len(Temps(s, f)) - 1)
<1> DEFINE n == Len(s)
           t == Temps(s, f)
           S == {MarkOf(w) : w \in Slot}
<1>1. n \in Nat /\ f \in 0 .. n /\ n - 1 \in Nat /\ f <= n - 1
  OBVIOUS
<1>2. t = [i \in 1 .. n - f |-> MarkOf(s[f + i])] /\ t \in Seq(S) /\ Len(t) = n - f
  BY TempsAre
<1>3. Front(s) \in Seq(Slot) /\ Len(Front(s)) = n - 1 /\ \A i \in 1 .. n - 1 : Front(s)[i] = s[i]
  <2>1. s # <<>>
    BY <1>1
  <2> QED BY <2>1, FrontProperties
<1>4. Temps(Front(s), f) = [i \in 1 .. n - 1 - f |-> MarkOf(Front(s)[f + i])]
  <2>1. f \in 0 .. Len(Front(s))
    BY <1>1, <1>3
  <2> QED BY <1>3, <2>1, TempsAre
<1> HIDE DEF t, S, n
<1>5. SubSeq(t, 1, n - f - 1) = [i \in 1 .. n - f - 1 |-> t[i]]
  <2>1. n - f - 1 \in Nat /\ n - f - 1 <= Len(t)
    BY <1>1, <1>2
  <2>2. SubSeq(t, 1, n - f - 1) = [i \in 1 .. 1 + (n - f - 1) - 1 |-> t[i + 1 - 1]]
    BY <1>2, <2>1
  <2>3. 1 + (n - f - 1) - 1 = n - f - 1
    BY <1>1
  <2>4. \A i \in 1 .. n - f - 1 : i + 1 - 1 = i
    BY <1>1
  <2> QED BY <2>2, <2>3, <2>4
<1>6. ASSUME NEW i \in 1 .. n - f - 1 PROVE t[i] = MarkOf(Front(s)[f + i])
  <2>1. i \in 1 .. n - f /\ f + i \in 1 .. n - 1
    BY <1>1
  <2> QED BY <2>1, <1>2, <1>3
<1>7. n - 1 - f = n - f - 1
  BY <1>1
<1>8. t # <<>>
  BY <1>1, <1>2
<1> QED BY <1>2, <1>3, <1>4, <1>5, <1>6, <1>7, <1>8 DEF t, n

(* What the program sees of the heap is the same after a step. *)
Undisturbed(m, x, K) == HeapStays(m, x, K) /\ \A h \in ContRefs(K) : Kont(x, h) = Kont(m, h)

(* A step that changes only the stack. *)
Restacked(m, s, x) == x = [stk |-> s, henv |-> m.henv, hcont |-> m.hcont]

LEMMA NewStack ==
  ASSUME NEW m \in Memory, NEW s \in Seq(Slot), NEW x, Restacked(m, s, x)
  PROVE  x \in Memory /\ x.stk = s /\ x.henv = m.henv /\ x.hcont = m.hcont
BY MemoryFacts DEF Memory, Restacked

(* ipush, ilde. *)
LEMMA PushStep ==
  ASSUME NEW m, NEW P, NEW f, NEW e, NEW c, NEW K, NEW st, Machine(m, P, f, e, c, K, st), NEW v \in Val,
         NEW x, Restacked(m, Append(m.stk, v), x)
  PROVE  /\ Machine(x, P, f, e, c, K, st) /\ Undisturbed(m, x, K)
         /\ Id(x, e) = Id(m, e) /\ Kont(x, c) = Kont(m, c)
         /\ Temps(x.stk, f) = Append(Temps(m.stk, f), v)
<1>1. m \in Memory /\ f \in 0 .. Len(m.stk) /\ m.stk \in Seq(Slot) /\ Len(m.stk) \in Nat
  BY MemoryFacts DEF Machine
<1>2. v \in Slot /\ MarkOf(v) = v
  BY Kinds DEF Slot, MarkOf
<1> DEFINE s == Append(m.stk, v)
<1>3. s \in Seq(Slot) /\ Len(s) = Len(m.stk) + 1 /\ \A i \in 1 .. Len(m.stk) : s[i] = m.stk[i]
  BY <1>1, <1>2, AppendProperties
<1>4. Restacked(m, s, x)
  OBVIOUS
<1> HIDE DEF s
<1>5. x \in Memory /\ x.stk = s /\ x.henv = m.henv /\ x.hcont = m.hcont
  BY <1>1, <1>3, <1>4, NewStack
<1>6. Agree(m, x, Len(m.stk)) /\ f <= Len(m.stk)
  BY <1>1, <1>3, <1>5 DEF Agree
<1>7. \A i \in 1 .. Len(P) : P[i] <= Len(m.stk)
  BY <1>1 DEF Machine, Suspended
<1>8. Temps(x.stk, f) = Append(Temps(m.stk, f), v)
  <2>1. Temps(Append(m.stk, v), f) = Append(Temps(m.stk, f), MarkOf(v))
    BY <1>1, <1>2, TempsAppend
  <2> QED BY <2>1, <1>2, <1>5 DEF s
<1>9. Machine(x, P, f, e, c, K, st) /\ Id(x, e) = Id(m, e)
  BY <1>5, <1>6, <1>7, MachineStays
<1>10. HeapStays(m, x, K) /\ Kont(x, c) = Kont(m, c) /\ \A h \in ContRefs(K) : Kont(x, h) = Kont(m, h)
  BY <1>5, <1>6, <1>7, FramesStay
<1> QED BY <1>8, <1>9, <1>10 DEF Undisturbed

(* ipop. *)
LEMMA DropStep ==
  ASSUME NEW m, NEW P, NEW f, NEW e, NEW c, NEW K, NEW st, Machine(m, P, f, e, c, K, st),
         f < Len(m.stk), IsValue(Last(m.stk)),
         NEW x, Restacked(m, Front(m.stk), x)
  PROVE  /\ Machine(x, P, f, e, c, K, st) /\ Undisturbed(m, x, K)
         /\ Id(x, e) = Id(m, e) /\ Kont(x, c) = Kont(m, c)
         /\ Temps(m.stk, f) # <<>>
         /\ Temps(x.stk, f) = SubSeq(Temps(m.stk, f), 1, Len(Temps(m.stk, f)) - 1)
         /\ Len(x.stk) <= Len(m.stk)
<1>1. m \in Memory /\ f \in 0 .. Len(m.stk) /\ m.stk \in Seq(Slot) /\ Len(m.stk) \in Nat /\ m.stk # <<>>
  BY MemoryFacts DEF Machine
<1> DEFINE s == Front(m.stk)
<1>2. /\ Temps(m.stk, f) # <<>> /\ s \in Seq(Slot) /\ Len(s) = Len(m.stk) - 1
      /\ \A i \in 1 .. Len(m.stk) - 1 : s[i] = m.stk[i]
      /\ Temps(s, f) = SubSeq(Temps(m.stk, f), 1, Len(Temps(m.stk, f)) - 1)
  BY <1>1, TempsFront
<1>3. Restacked(m, s, x)
  OBVIOUS
<1>l. Last(m.stk) = m.stk[Len(m.stk)]
  BY <1>1, FrontProperties
<1> HIDE DEF s
<1>4. x \in Memory /\ x.stk = s /\ x.henv = m.henv /\ x.hcont = m.hcont
  BY <1>1, <1>2, <1>3, NewStack
<1>5. Agree(m, x, Len(m.stk) - 1) /\ f <= Len(m.stk) - 1
  BY <1>1, <1>2, <1>4 DEF Agree
<1>6. ASSUME NEW i \in 1 .. Len(P) PROVE P[i] <= Len(m.stk) - 1
  <2>1. P[i] \in 1 .. Len(m.stk) /\ m.stk[P[i]] \in ContRecord
    BY DEF Machine, Suspended
  <2>2. P[i] # Len(m.stk)
    BY <2>1, <1>l, Kinds
  <2> QED BY <2>1, <2>2, <1>1
<1>7. Machine(x, P, f, e, c, K, st) /\ Id(x, e) = Id(m, e)
  BY <1>4, <1>5, <1>6, MachineStays
<1>8. HeapStays(m, x, K) /\ Kont(x, c) = Kont(m, c) /\ \A h \in ContRefs(K) : Kont(x, h) = Kont(m, h)
  BY <1>4, <1>5, <1>6, FramesStay
<1>9. Len(x.stk) <= Len(m.stk)
  BY <1>1, <1>2, <1>4
<1> QED BY <1>2, <1>4, <1>7, <1>8, <1>9 DEF Undisturbed

(* icont. *)
Running(m, f, e) == [env |-> Id(m, e), temps |-> Temps(m.stk, f)]
Suspends(k, f, e, c) == k = [fn |-> f, env |-> e, conr |-> c]

LEMMA SuspendStep ==
  ASSUME NEW m, NEW P, NEW f, NEW e, NEW c, NEW K, NEW st, Machine(m, P, f, e, c, K, st),
         NEW k, Suspends(k, f, e, c), NEW x, Restacked(m, Append(m.stk, k), x)
  PROVE  LET p == Len(m.stk) + 1
         IN  /\ Machine(x, Cons(p, P), f, e, At(p), K, st) /\ Undisturbed(m, x, K)
             /\ Id(x, e) = Id(m, e)
             /\ Kont(x, At(p)) = Cons(Running(m, f, e), Kont(m, c))
             /\ Temps(x.stk, f) = Append(Temps(m.stk, f), "call")
<1> DEFINE n == Len(m.stk)
           p == n + 1
           s == Append(m.stk, k)
           Q == <<p>> \o P
<1>1. /\ m \in Memory /\ f \in 0 .. n /\ m.stk \in Seq(Slot) /\ n \in Nat /\ Frame(m, P, 0, f, e, c, K)
      /\ Suspended(m, P, K) /\ P \in Seq(Nat) /\ Len(P) \in Nat /\ \A i \in 1 .. Len(P) : P[i] \in 1 .. n
      /\ K \in Nat
  BY MemoryFacts DEF Machine, Suspended, Heap
<1>2. k \in ContRecord /\ k.fn = f /\ k.env = e /\ k.conr = c
  <2>1. e \in Ref
    BY <1>1, EnvRefsAreOnHeap, Refs DEF Frame, FrameEnv
  <2>2. c \in Ref
    <3>1. CASE Len(P) = 0
      BY <3>1, <1>1, Refs DEF Frame, Linked, ContRefs
    <3>2. CASE Len(P) # 0
      <4>1. c = At(P[0 + 1]) /\ 0 + 1 = 1 /\ P[1] \in Nat
        BY <3>2, <1>1 DEF Frame, Linked
      <4> QED BY <4>1, Refs
    <3> QED BY <3>1, <3>2
  <2>3. k = [fn |-> f, env |-> e, conr |-> c] /\ f \in Nat
    BY <1>1 DEF Suspends
  <2> HIDE DEF n, p
  <2> QED BY <2>1, <2>2, <2>3 DEF ContRecord
<1>3. k \in Slot /\ MarkOf(k) = "call"
  BY <1>2, Kinds DEF Slot, MarkOf
<1>4. s \in Seq(Slot) /\ Len(s) = p /\ s[p] = k /\ \A i \in 1 .. n : s[i] = m.stk[i]
  BY <1>1, <1>3, AppendProperties
<1>5. Restacked(m, s, x)
  OBVIOUS
<1>6. Temps(s, f) = Append(Temps(m.stk, f), "call")
  <2>1. Temps(Append(m.stk, k), f) = Append(Temps(m.stk, f), MarkOf(k))
    BY <1>1, <1>3, TempsAppend
  <2> QED BY <2>1, <1>3
<1> HIDE DEF s
<1>7. x \in Memory /\ x.stk = s /\ x.henv = m.henv /\ x.hcont = m.hcont
  BY <1>1, <1>4, <1>5, NewStack
<1>8. Agree(m, x, n) /\ f <= n /\ \A i \in 1 .. Len(P) : P[i] <= n
  BY <1>1, <1>4, <1>7 DEF Agree
<1>9. Machine(x, P, f, e, c, K, st) /\ Id(x, e) = Id(m, e)
  BY <1>7, <1>8, MachineStays
<1>10. HeapStays(m, x, K) /\ Kont(x, c) = Kont(m, c) /\ \A h \in ContRefs(K) : Kont(x, h) = Kont(m, h)
  BY <1>7, <1>8, FramesStay
<1>11. /\ Suspended(x, P, K) /\ Frame(x, P, 0, f, e, c, K) /\ Heap(x, K)
       /\ Represents(x, Live(x, P, e), st)
  BY <1>9 DEF Machine
<1>12. p \in Nat /\ Q \in Seq(Nat) /\ Len(Q) = Len(P) + 1 /\ Q[1] = p /\ \A i \in 1 .. Len(P) : Q[i + 1] = P[i]
  BY <1>1, Prepended
<1>13. x.stk[p] = k /\ p \in 1 .. Len(x.stk) /\ f < p /\ p > n
  BY <1>1, <1>4, <1>7
<1> HIDE DEF p, Q
<1>14. Below(Q, P)
  BY <1>1, <1>12 DEF Below
<1>15. Suspended(x, Q, K)
  <2>1. ASSUME NEW i \in 1 .. Len(P) PROVE P[i] < Q[1]
    <3>1. P[i] \in 1 .. n
      BY <1>1
    <3>2. Q[1] = p /\ p \in Nat
      BY <1>12
    <3>3. n \in Nat /\ p > n
      BY <1>1, <1>13
    <3> QED BY <3>1, <3>2, <3>3
  <2> QED BY <2>1, <1>2, <1>11, <1>12, <1>13, <1>14, SuspendedMore
<1>16. Frame(x, Q, 0, f, e, At(p), K)
  <2>1. Linked(Q, 0, At(p), K)
    BY <1>1, <1>12 DEF Linked
  <2>2. ASSUME NEW j \in 1 .. Len(Q), Q[j] > f PROVE x.stk[Q[j]].fn = f
    <3>1. CASE j = 1
      BY <3>1, <1>2, <1>12, <1>13
    <3>2. CASE j # 1
      <4>1. j - 1 \in 1 .. Len(P) /\ j - 1 + 1 = j
        BY <3>2, <1>1, <1>12
      <4>2. P[j - 1] = Q[j]
        BY <4>1, <1>12
      <4>3. Nested(x, P, 0, f)
        BY <1>11 DEF Frame
      <4>4. j - 1 \in 0 + 1 .. Len(P)
        BY <4>1
      <4> QED BY <2>2, <4>2, <4>3, <4>4 DEF Nested
    <3> QED BY <3>1, <3>2
  <2>3. Nested(x, Q, 0, f)
    BY <2>2 DEF Nested
  <2> QED BY <2>1, <2>3, <1>11 DEF Frame
<1>17. Live(x, Q, e) = Live(x, P, e)
  <2>1. StackEnvs(x, Q) = {x.stk[Q[1]].env} \cup StackEnvs(x, P)
    BY <1>14, BelowEnvs
  <2>2. StackEnvs(x, Q) = {e} \cup StackEnvs(x, P)
    BY <2>1, <1>2, <1>12, <1>13
  <2> QED BY <2>2 DEF Live
<1>18. Machine(x, Q, f, e, At(p), K, st)
  BY <1>7, <1>9, <1>11, <1>15, <1>16, <1>17 DEF Machine
<1>19. Kont(x, At(p)) = <<FrameOf(x, At(p))>> \o Kont(x, NextCont(x, At(p)))
  <2>1. Chained(x, At(p))
    BY <1>7, <1>11, <1>15, <1>16, RegisterIsChained DEF Frame
  <2> QED BY <2>1, <1>7, Refs, KontCons
<1>20. NextCont(x, At(p)) = c
  BY <1>2, <1>13, Refs DEF NextCont
<1>21. FrameOf(x, At(p)) = [env |-> Id(m, e), temps |-> Temps(m.stk, f)]
  <2>1. SavedStack(x, p) = SubSeq(x.stk, f + 1, n)
    <3>1. p - 1 = n
      BY <1>1 DEF p
    <3> QED BY <3>1, <1>2, <1>13 DEF SavedStack
  <2>2. SubSeq(x.stk, f + 1, n) = SubSeq(m.stk, f + 1, n)
    <3>1. f + 1 \in Nat \ {0} /\ n <= Len(x.stk) /\ \A i \in f + 1 .. n : x.stk[i] = m.stk[i]
      BY <1>1, <1>4, <1>7, <1>13
    <3>2. x.stk \in Seq(Slot)
      BY <1>4, <1>7
    <3> QED BY <3>1, <3>2, <1>1, PartKept
  <2>3. FrameOf(x, At(p)) = [env |-> Id(x, e), temps |-> Mark(SavedStack(x, p))]
    BY <1>2, <1>13, FrameIs
  <2> QED BY <2>1, <2>2, <2>3, <1>9 DEF Temps
<1>22. Kont(x, At(p)) = Cons(Running(m, f, e), Kont(m, c))
  BY <1>10, <1>19, <1>20, <1>21 DEF Cons, Running
<1>23. Q = Cons(p, P)
  BY DEF Q, Cons
<1> QED BY <1>6, <1>7, <1>9, <1>10, <1>18, <1>22, <1>23 DEF Undisturbed, p

(* iret to a continuation that is still on the stack. *)
LEMMA ReturnStep ==
  ASSUME NEW m, NEW P, NEW f, NEW e, NEW c, NEW K, NEW st, Machine(m, P, f, e, c, K, st), OnStack(c),
         NEW x, Restacked(m, SubSeq(m.stk, 1, c[2] - 1), x)
  PROVE  LET k == m.stk[c[2]]
         IN  /\ Machine(x, Tail(P), k.fn, k.env, k.conr, K, st) /\ Undisturbed(m, x, K)
             /\ Kont(m, c) # <<>>
             /\ Id(x, k.env) = Head(Kont(m, c)).env
             /\ Temps(x.stk, k.fn) = Head(Kont(m, c)).temps
             /\ Kont(x, k.conr) = Tail(Kont(m, c))
             /\ Len(x.stk) <= Len(m.stk)
<1> DEFINE n == Len(m.stk)
           Q == Tail(P)
<1>1. /\ m \in Memory /\ f \in 0 .. n /\ m.stk \in Seq(Slot) /\ n \in Nat /\ Frame(m, P, 0, f, e, c, K)
      /\ Suspended(m, P, K) /\ P \in Seq(Nat) /\ Len(P) \in Nat
      /\ K \in Nat /\ Heap(m, K) /\ Represents(m, Live(m, P, e), st)
  BY MemoryFacts DEF Machine, Suspended, Heap
<1>2. Len(P) # 0 /\ c = At(P[1])
  <2>1. \A r \in ContRefs(K) : ~OnStack(r)
    BY Refs DEF ContRefs
  <2>2. Len(P) # 0
    BY <2>1, <1>1 DEF Frame, Linked
  <2>3. c = At(P[0 + 1]) /\ 0 + 1 = 1
    BY <2>2, <1>1 DEF Frame, Linked
  <2> QED BY <2>2, <2>3
<1> DEFINE p == P[1]
           k == m.stk[p]
           s == SubSeq(m.stk, 1, p - 1)
<1>3. c[2] = p /\ p \in 1 .. n /\ k \in ContRecord /\ k.fn < p /\ k.fn \in Nat
  <2>1. 1 \in 1 .. Len(P)
    BY <1>1, <1>2
  <2>2. p \in 1 .. n /\ k \in ContRecord /\ k.fn < p
    BY <2>1, <1>1 DEF Suspended
  <2> QED BY <2>2, <1>2, Refs, RecordFacts
<1>4. Q \in Seq(Nat) /\ Len(P) = Len(Q) + 1 /\ \A i \in 1 .. Len(Q) : Q[i] = P[i + 1]
  <2>1. P # <<>>
    BY <1>2
  <2>2. Tail(P) \in Seq(Nat) /\ Len(Tail(P)) = Len(P) - 1 /\ \A i \in 1 .. Len(Tail(P)) : Tail(P)[i] = P[i + 1]
    BY <2>1, <1>1, HeadTailProperties
  <2> QED BY <2>2, <1>1
<1> HIDE DEF Q
<1>5. Below(P, Q)
  BY <1>1, <1>4 DEF Below
<1>6. Suspended(m, Q, K) /\ (\A i \in 1 .. Len(Q) : Q[i] < p) /\ Frame(m, Q, 0, k.fn, k.env, k.conr, K)
  BY <1>1, <1>5, SuspendedRest
<1>7. Machine(m, Q, k.fn, k.env, k.conr, K, st)
  <2>1. Live(m, Q, k.env) \subseteq Live(m, P, e)
    BY <1>5, BelowEnvs DEF Live
  <2>2. Represents(m, Live(m, Q, k.env), st)
    BY <2>1, <1>1 DEF Represents
  <2>3. k.fn \in 0 .. n
    BY <1>1, <1>3, SMTT(30)
  <2> QED BY <2>2, <2>3, <1>1, <1>6 DEF Machine
<1>8. s \in Seq(Slot) /\ Len(s) = p - 1 /\ \A i \in 1 .. p - 1 : s[i] = m.stk[i]
  <2>1. s \in Seq(Slot)
    BY <1>1, <1>3, SMTT(30)
  <2>2. s = [i \in 1 .. 1 + (p - 1) - 1 |-> m.stk[i + 1 - 1]]
    BY <1>1, <1>3
  <2>3. 1 + (p - 1) - 1 = p - 1 /\ \A i \in 1 .. p - 1 : i + 1 - 1 = i
    BY <1>3
  <2> HIDE DEF s
  <2>4. DOMAIN s = 1 .. p - 1
    BY <2>2, <2>3
  <2>5. p - 1 \in Nat
    BY <1>1, <1>3
  <2>6. Len(s) = p - 1
    BY <2>1, <2>4, <2>5
  <2>7. \A i \in 1 .. p - 1 : s[i] = m.stk[i]
    BY <2>2, <2>3
  <2> QED BY <2>1, <2>6, <2>7
<1>9. Restacked(m, s, x)
  BY <1>3
<1> HIDE DEF s
<1>10. x \in Memory /\ x.stk = s /\ x.henv = m.henv /\ x.hcont = m.hcont
  BY <1>1, <1>8, <1>9, NewStack
<1>11. Agree(m, x, p - 1)
  BY <1>1, <1>3, <1>8, <1>10, SMTT(30) DEF Agree
<1>12. k.fn <= p - 1 /\ \A i \in 1 .. Len(Q) : Q[i] <= p - 1
  <2>1. k.fn <= p - 1
    BY <1>1, <1>3, SMTT(30)
  <2>2. ASSUME NEW i \in 1 .. Len(Q) PROVE Q[i] <= p - 1
    <3>1. Q[i] < p
      BY <1>6
    <3>2. Q[i] \in Nat
      BY <1>4
    <3>3. p \in Nat
      BY <1>1, <1>3
    <3> QED BY <3>1, <3>2, <3>3
  <2> QED BY <2>1, <2>2
<1>13. Machine(x, Q, k.fn, k.env, k.conr, K, st) /\ Id(x, k.env) = Id(m, k.env)
  BY <1>7, <1>10, <1>11, <1>12, MachineStays
<1>14. /\ HeapStays(m, x, K) /\ Kont(x, k.conr) = Kont(m, k.conr)
       /\ \A h \in ContRefs(K) : Kont(x, h) = Kont(m, h)
  BY <1>7, <1>10, <1>11, <1>12, FramesStay
<1>15. /\ Kont(m, c) # <<>> /\ Head(Kont(m, c)) = FrameOf(m, c)
       /\ Tail(Kont(m, c)) = Kont(m, NextCont(m, c))
  <2>1. Chained(m, c)
    BY <1>1, RegisterIsChained DEF Frame
  <2> QED BY <2>1, <1>1, <1>2, Refs, KontCons
<1>16. NextCont(m, c) = k.conr
  BY <1>2, Refs DEF NextCont
<1>17. FrameOf(m, c) = [env |-> Id(m, k.env), temps |-> Temps(x.stk, k.fn)]
  <2>1. SubSeq(m.stk, k.fn + 1, p - 1) = SubSeq(x.stk, k.fn + 1, p - 1)
    <3>1. k.fn + 1 \in Nat \ {0} /\ p - 1 \in Nat /\ p - 1 <= n /\ p - 1 <= Len(x.stk)
      <4>1. n \in Nat /\ p \in 1 .. n /\ k.fn \in Nat
        BY <1>1, <1>3
      <4>2. k.fn + 1 \in Nat \ {0} /\ p - 1 \in Nat /\ p - 1 <= n
        BY ONLY <4>1, PartBounds
      <4>3. Len(x.stk) = p - 1
        BY <1>8, <1>10
      <4> QED BY <4>2, <4>3
    <3>3. ASSUME NEW i \in k.fn + 1 .. p - 1 PROVE m.stk[i] = x.stk[i]
      <4>1. i \in 1 .. p - 1
        <5>1. k.fn \in Nat /\ p \in Nat
          BY <1>1, <1>3
        <5> QED BY ONLY <5>1, i \in k.fn + 1 .. p - 1
      <4>2. s[i] = m.stk[i]
        BY <4>1, <1>8
      <4> QED BY <4>2, <1>10
    <3>2. x.stk \in Seq(Slot)
      BY <1>8, <1>10
    <3>4. m.stk \in Seq(Slot) /\ p - 1 <= Len(m.stk)
      BY <1>1, <3>1
    <3> QED BY ONLY <3>1, <3>2, <3>3, <3>4, PartKept
  <2>2. Temps(x.stk, k.fn) = Mark(SubSeq(x.stk, k.fn + 1, p - 1))
    BY <1>8, <1>10 DEF Temps
  <2>3. FrameOf(m, c) = [env |-> Id(m, k.env), temps |-> Mark(SubSeq(m.stk, k.fn + 1, p - 1))]
    BY <1>2, FrameIs DEF SavedStack
  <2> QED BY <2>1, <2>2, <2>3
<1>18. Len(x.stk) <= n
  BY <1>1, <1>3, <1>8, <1>10, SMTT(30)
<1> QED BY <1>3, <1>13, <1>14, <1>15, <1>16, <1>17, <1>18 DEF Undisturbed, Q

LEMMA HeapNext ==
  ASSUME NEW m, NEW K \in Nat, Heap(m, K), NEW k \in 1 .. K
  PROVE  m.hcont[k].conr \in ContRefs(K)
<1>1. PICK s \in Seq(ContRefs(K)) : IsChain(m, In(k), s)
  BY DEF Heap, HeapChain
<1>2. s # <<>> /\ s[1] = In(k)
  BY <1>1, Refs DEF IsChain
<1>3. 1 \in 1 .. Len(s) /\ Len(s) \in Nat
  BY <1>2
<1>4. NextCont(m, s[1]) = IF 1 = Len(s) THEN Nil ELSE s[1 + 1]
  BY <1>1, <1>3 DEF IsChain
<1>5. NextCont(m, In(k)) = m.hcont[k].conr
  BY Refs DEF NextCont
<1>6. Nil \in ContRefs(K)
  BY DEF ContRefs
<1>7. ASSUME 1 # Len(s) PROVE s[1 + 1] \in ContRefs(K)
  <2>1. 1 + 1 \in 1 .. Len(s)
    <3>1. PICK a \in Nat : a = Len(s)
      BY <1>3
    <3>2. a # 1 /\ a >= 1
      BY <1>3, <1>7, <3>1
    <3>3. 1 + 1 \in 1 .. a
      BY <3>2
    <3> QED BY <3>1, <3>3
  <2>2. \A i \in 1 .. Len(s) : s[i] \in ContRefs(K)
    OBVIOUS
  <2> QED BY <2>1, <2>2
<1> QED BY <1>2, <1>4, <1>5, <1>6, <1>7

(* arc_restorecont of a heap continuation, by iret or by cont_apply. *)
Resumed(m, k, x) == Restacked(m, m.stk \o m.hcont[k].stk, x)

Resumes(x, q, f, e, c) ==
  /\ q # <<>>
  /\ Id(x, e) = Head(q).env
  /\ Temps(x.stk, f) = Head(q).temps
  /\ Kont(x, c) = Tail(q)
Longer(s, t, u) == Len(s) = Len(t) + Len(u)

LEMMA ResumeStep ==
  ASSUME NEW m, NEW P, NEW f, NEW e, NEW c, NEW K, NEW st, Machine(m, P, f, e, c, K, st), NEW k \in 1 .. K,
         NEW x, Resumed(m, k, x), NEW None, None = <<>>
  PROVE  LET h == m.hcont[k]
         IN  /\ Machine(x, None, Len(m.stk), h.env, h.conr, K, st) /\ Undisturbed(m, x, K)
             /\ Resumes(x, Kont(m, In(k)), Len(m.stk), h.env, h.conr)
             /\ Longer(x.stk, m.stk, h.stk)
<1> DEFINE n == Len(m.stk)
           h == m.hcont[k]
           s == m.stk \o h.stk
<1>0. Restacked(m, m.stk \o m.hcont[k].stk, x)
  BY DEF Resumed
<1>0a. k \in 1 .. K
  OBVIOUS
<1>1. /\ m \in Memory /\ m.stk \in Seq(Slot) /\ n \in Nat /\ K \in Nat /\ Heap(m, K)
      /\ Represents(m, Live(m, P, e), st) /\ K <= Len(m.hcont) /\ Len(m.hcont) \in Nat
  BY MemoryFacts DEF Machine, Heap
<1>2. h.stk \in Seq(Slot) /\ Len(h.stk) \in Nat /\ h.env \in EnvRefs(m) /\ h.conr \in ContRefs(K)
  <2>1. h \in HeapContRecord
    BY <1>1, MemoryFacts
  <2> QED BY ONLY <2>1, <1>1, <1>0a, RecordFacts, HeapNext DEF Heap
<1> DEFINE d == h.stk
           l == Len(d)
<1>3. s \in Seq(Slot) /\ Len(s) = n + l
      /\ (\A i \in 1 .. n : s[i] = m.stk[i]) /\ \A i \in n + 1 .. n + l : s[i] = d[i - n]
  <2> HIDE DEF d
  <2>1. d \in Seq(Slot)
    BY <1>2 DEF d
  <2> DEFINE q == m.stk
             w == q \o d
  <2>2. q \in Seq(Slot) /\ Len(q) = n
    BY <1>1
  <2> HIDE DEF q
  <2>3. w \in Seq(Slot) /\ Len(w) = Len(q) + Len(d)
        /\ \A i \in 1 .. Len(q) + Len(d) : w[i] = IF i <= Len(q) THEN q[i] ELSE d[i - Len(q)]
    BY <2>1, <2>2, ConcatProperties
  <2>4. w = s
    BY DEF q, d
  <2> HIDE DEF w, s, n
  <2>5. Len(d) \in Nat /\ n \in Nat
    BY <1>1, <2>1
  <2> QED BY <2>2, <2>3, <2>4, <2>5 DEF q
<1>4. Restacked(m, s, x)
  BY <1>0
<1> HIDE DEF s
<1>5. x \in Memory /\ x.stk = s /\ x.henv = m.henv /\ x.hcont = m.hcont
  BY <1>1, <1>3, <1>4, NewStack
<1>6. EnvRefs(x) = EnvRefs(m) /\ \A r \in EnvRefs(m) : Id(x, r) = Id(m, r)
  BY <1>5, SameIds
<1>7. Heap(x, K) /\ HeapStays(m, x, K)
  BY <1>1, <1>5, <1>6, HeapKept DEF HeapStays
<1>8. \A g \in ContRefs(K) : Kont(x, g) = Kont(m, g)
  BY <1>1, <1>5, <1>7, HeapKontKept
<1>9. Suspended(x, <<>>, K)
  BY DEF Suspended
<1>10. Frame(x, <<>>, 0, n, h.env, h.conr, K)
  BY <1>2, <1>6 DEF Frame, FrameEnv, Linked, Nested
<1>11. Represents(x, Live(x, <<>>, h.env), st)
  <2>1. StackEnvs(x, <<>>) = {}
    BY DEF StackEnvs
  <2>2. Live(x, <<>>, h.env) = EnvRefs(m) \ {Nil}
    BY <2>1, <1>2, <1>6 DEF Live
  <2>3. \A r \in EnvRefs(m) \ {Nil} : Same(m, r, x, r)
    BY <1>1, <1>5, MemoryFacts, SameHeapEnvs DEF Heap
  <2>4. EnvRefs(m) \ {Nil} \subseteq Live(m, P, e)
    BY DEF Live
  <2> QED BY <2>2, <2>3, <2>4, <1>1, StillRepresentsFewer
<1>12. n \in 0 .. Len(x.stk) /\ Len(x.stk) = n + l
  <2>1. Len(x.stk) = n + l
    BY <1>3, <1>5
  <2>2. PICK a \in Nat, b \in Nat : a = n /\ b = l
    BY <1>1, <1>2
  <2>3. a \in 0 .. a + b
    OBVIOUS
  <2> QED BY <2>1, <2>2, <2>3
<1>13. Machine(x, <<>>, n, h.env, h.conr, K, st)
  BY <1>5, <1>7, <1>9, <1>10, <1>11, <1>12 DEF Machine
<1>14. /\ Kont(m, In(k)) # <<>> /\ Head(Kont(m, In(k))) = FrameOf(m, In(k))
       /\ Tail(Kont(m, In(k))) = Kont(m, NextCont(m, In(k)))
  <2>1. In(k) \in ContRefs(K)
    BY DEF ContRefs
  <2>2. Chained(m, In(k))
    BY <2>1, <1>1, HeapIsChained
  <2> QED BY <2>2, <1>1, Refs, KontCons
<1>15. NextCont(m, In(k)) = h.conr
  BY Refs DEF NextCont
<1>16. FrameOf(m, In(k)) = [env |-> Id(m, h.env), temps |-> Mark(d)]
  BY FrameIs
<1>17. SubSeq(s, n + 1, Len(s)) = d
  <2>1. d \in Seq(Slot) /\ l \in Nat
    BY <1>2
  <2> HIDE DEF d, n
  <2>2. n \in Nat /\ Len(s) = n + l
    BY <1>1, <1>3 DEF n
  <2>3. SubSeq(s, n + 1, Len(s)) = [i \in 1 .. 1 + Len(s) - (n + 1) |-> s[i + (n + 1) - 1]]
    BY <2>1, <2>2, <1>3
  <2>4. 1 + Len(s) - (n + 1) = l
    BY <2>1, <2>2
  <2>5. ASSUME NEW i \in 1 .. l PROVE s[i + (n + 1) - 1] = d[i]
    <3>1. PICK a \in Nat : a = l
      BY <2>1
    <3> DEFINE j == i + (n + 1) - 1
    <3>2. j \in n + 1 .. n + l /\ j - n = i
      <4>1. i \in 1 .. a
        BY <3>1
      <4>2. j \in n + 1 .. n + a /\ j - n = i
        BY <4>1, <2>2
      <4> QED BY <4>2, <3>1
    <3> HIDE DEF j
    <3>3. s[j] = d[j - n]
      BY <3>2, <1>3
    <3>4. s[j] = d[i]
      BY <3>2, <3>3
    <3> QED BY <3>4 DEF j
  <2>6. d = [i \in 1 .. l |-> d[i]]
    BY <2>1
  <2> QED BY <2>3, <2>4, <2>5, <2>6
<1>18. Temps(x.stk, n) = Mark(d)
  BY <1>5, <1>17 DEF Temps
<1>19. Id(x, h.env) = Id(m, h.env) /\ Kont(x, h.conr) = Kont(m, h.conr)
  BY <1>2, <1>6, <1>8
<1>20. Undisturbed(m, x, K)
  BY <1>7, <1>8 DEF Undisturbed
<1>21. Resumes(x, Kont(m, In(k)), n, h.env, h.conr)
  <2> DEFINE q == Kont(m, In(k))
  <2>1. q # <<>> /\ Head(q) = [env |-> Id(m, h.env), temps |-> Mark(d)] /\ Tail(q) = Kont(m, h.conr)
    BY <1>14, <1>15, <1>16
  <2> HIDE DEF q, h, d, n
  <2>2. Resumes(x, q, n, h.env, h.conr)
    BY <1>18, <1>19, <2>1 DEF Resumes
  <2> QED BY <2>2 DEF q
<1>22. Longer(x.stk, m.stk, h.stk)
  BY <1>3, <1>5 DEF Longer
<1> QED BY <1>13, <1>20, <1>21, <1>22

(***************************************************************************)
(* iapply and ienv: the last n slots of s are the arguments, what lies     *)
(* below them is the caller's.                                             *)
(***************************************************************************)
EnvSeq == Seq([vars : Seq(Val), next : Nat])
Extra(extra) == [i \in 1 .. extra |-> Unbound]

LEMMA RepresentsMore ==
  ASSUME NEW x, NEW R, NEW S, NEW st \in Seq(S), NEW v \in S, Represents(x, R, st),
         NEW r, Id(x, r) = Len(st) + 1, View(x, r) = v
  PROVE  Represents(x, R \cup {r}, Append(st, v))
<1>1. /\ Len(st) \in Nat /\ DOMAIN st = 1 .. Len(st)
      /\ Append(st, v) \in Seq(S) /\ Len(Append(st, v)) = Len(st) + 1
      /\ (\A i \in 1 .. Len(st) : Append(st, v)[i] = st[i]) /\ Append(st, v)[Len(st) + 1] = v
  BY AppendProperties
<1>2. DOMAIN Append(st, v) = 1 .. Len(st) + 1
  BY <1>1
<1>3. Len(st) + 1 \in DOMAIN Append(st, v) /\ Len(st) + 1 \notin DOMAIN st /\ DOMAIN st \subseteq DOMAIN Append(st, v)
  BY <1>1, <1>2
<1> DEFINE w == Append(st, v)
<1>4. w[Len(st) + 1] = v /\ Len(st) + 1 \in DOMAIN w /\ Len(st) + 1 \notin DOMAIN st
      /\ \A i \in DOMAIN st : i \in DOMAIN w /\ w[i] = st[i]
  BY <1>1, <1>3
<1> HIDE DEF w
<1> SUFFICES Represents(x, R \cup {r}, w)
  BY DEF w
<1>5. \A a \in R : Id(x, a) \in DOMAIN st /\ st[Id(x, a)] = View(x, a)
  BY DEF Represents
<1>6. \A a \in R \cup {r} : Id(x, a) \in DOMAIN w /\ w[Id(x, a)] = View(x, a)
  BY <1>4, <1>5
<1>7. \A a, b \in R \cup {r} : Id(x, a) = Id(x, b) => a = b
  <2>1. \A a \in R : Id(x, a) # Id(x, r)
    BY <1>4, <1>5
  <2>2. \A a, b \in R : Id(x, a) = Id(x, b) => a = b
    BY DEF Represents
  <2> QED BY <2>1, <2>2
<1> QED BY <1>6, <1>7 DEF Represents

(* The stack a function begins with. *)
LEMMA FullStack ==
  ASSUME NEW s \in Seq(Slot), NEW n \in Nat, n <= Len(s), \A i \in Len(s) - n + 1 .. Len(s) : s[i] \in Val,
         NEW extra \in Nat
  PROVE  LET full == s \o Extra(extra)
             b == Len(s) - n
         IN  /\ full \in Seq(Slot) /\ Len(full) = Len(s) + extra /\ b \in Nat
             /\ \A i \in 1 .. Len(s) : full[i] = s[i]
             /\ \A i \in Len(s) + 1 .. Len(s) + extra : full[i] = Unbound
             /\ \A i \in b + 1 .. Len(s) + extra : full[i] \in Val
             /\ SubSeq(full, b + 1, Len(full)) = [i \in 1 .. n + extra |-> full[b + i]]
             /\ SubSeq(full, b + 1, Len(full)) \in Seq(Val)
<1> DEFINE l == Len(s)
           b == l - n
           u == Extra(extra)
           full == s \o u
<1>1. l \in Nat /\ b \in Nat /\ b <= l /\ n = l - b
  OBVIOUS
<1>2. Unbound \in Val /\ Val \subseteq Slot
  BY DEF Val, Slot
<1>3. u \in Seq(Slot) /\ Len(u) = extra /\ \A i \in 1 .. extra : u[i] = Unbound
  BY <1>2 DEF Extra
<1> HIDE DEF u
<1>4. full \in Seq(Slot) /\ Len(full) = l + extra
      /\ \A i \in 1 .. l + extra : full[i] = IF i <= l THEN s[i] ELSE u[i - l]
  BY <1>3, ConcatProperties
<1> HIDE DEF full
<1>5. \A i \in 1 .. l : full[i] = s[i]
  BY <1>1, <1>4
<1>10. ASSUME NEW i \in l + 1 .. l + extra PROVE full[i] = Unbound
  <2>1. i \in 1 .. l + extra /\ ~(i <= l) /\ i - l \in 1 .. extra
    BY <1>1
  <2> QED BY <2>1, <1>3, <1>4
<1>6. ASSUME NEW i \in b + 1 .. l + extra PROVE full[i] \in Val
  <2>1. i \in 1 .. l + extra /\ (i <= l => i \in b + 1 .. l) /\ (~(i <= l) => i - l \in 1 .. extra)
    BY <1>1
  <2>2. CASE i <= l
    BY <2>1, <2>2, <1>4
  <2>3. CASE ~(i <= l)
    BY <2>1, <2>3, <1>2, <1>3, <1>4
  <2> QED BY <2>2, <2>3
<1> DEFINE a == SubSeq(full, b + 1, l + extra)
           v == [i \in 1 .. n + extra |-> full[b + i]]
<1>7. a = v
  <2> HIDE DEF b, l
  <2>1. a = [i \in 1 .. 1 + (l + extra) - (b + 1) |-> full[i + (b + 1) - 1]]
    BY <1>1, <1>4
  <2>2. 1 + (l + extra) - (b + 1) = n + extra
    BY <1>1
  <2>3. \A i \in 1 .. n + extra : i + (b + 1) - 1 = b + i
    BY <1>1
  <2> QED BY <2>1, <2>2, <2>3
<1>8. v \in Seq(Val)
  <2>1. ASSUME NEW i \in 1 .. n + extra PROVE full[b + i] \in Val
    <3>1. b + i \in b + 1 .. l + extra
      BY <1>1
    <3> HIDE DEF b, l
    <3> QED BY <3>1, <1>6
  <2>2. v \in [1 .. n + extra -> Val]
    BY <2>1
  <2>3. PICK k \in Nat : k = n + extra
    OBVIOUS
  <2>4. v \in [1 .. k -> Val]
    BY <2>2, <2>3
  <2> HIDE DEF v
  <2> QED BY <2>4
<1>9. a \in Seq(Val) /\ SubSeq(full, b + 1, Len(full)) = a
  BY <1>4, <1>7, <1>8
<1> QED BY <1>1, <1>4, <1>5, <1>6, <1>7, <1>9, <1>10 DEF full, u

Filled(full, s, extra) == full = s \o Extra(extra)
Entered(m, s, n, extra, parent, st, g, v, x) ==
  LET full == s \o Extra(extra)
  IN  /\ g = Len(s) + extra + 1
      /\ v = [vars |-> SubSeq(full, Len(s) - n + 1, Len(full)), next |-> Id(m, parent)]
      /\ Restacked(m, Append(full, [count |-> n + extra, next |-> parent, id |-> Len(st) + 1]), x)

LEMMA EnterStep ==
  ASSUME NEW m, NEW P, NEW f, NEW e, NEW c, NEW K, NEW st \in EnvSeq, Machine(m, P, f, e, c, K, st),
         NEW s \in Seq(Slot), NEW n \in Nat, n <= Len(s), NEW b, b = Len(s) - n,
         b <= Len(m.stk), \A i \in 1 .. b : s[i] = m.stk[i], \A i \in b + 1 .. Len(s) : s[i] \in Val,
         \A i \in 1 .. Len(P) : P[i] <= b,
         NEW extra \in Nat, NEW parent \in EnvRefs(m), NEW g, NEW v, NEW x,
         Entered(m, s, n, extra, parent, st, g, v, x)
  PROVE  /\ Machine(x, P, g, At(g), c, K, Append(st, v)) /\ Undisturbed(m, x, K)
         /\ Id(x, At(g)) = Len(st) + 1 /\ Kont(x, c) = Kont(m, c)
         /\ Temps(x.stk, g) = <<>> /\ Len(x.stk) = g
         /\ Append(st, v) \in EnvSeq
<1> DEFINE fl == s \o Extra(extra)
           rc == [count |-> n + extra, next |-> parent, id |-> Len(st) + 1]
<1>e. /\ v = [vars |-> SubSeq(fl, b + 1, Len(fl)), next |-> Id(m, parent)]
      /\ Restacked(m, Append(fl, rc), x) /\ g = Len(s) + extra + 1
  <2>1. Len(s) - n + 1 = b + 1
    OBVIOUS
  <2>2. v = [vars |-> SubSeq(fl, Len(s) - n + 1, Len(fl)), next |-> Id(m, parent)]
    BY DEF Entered
  <2> QED BY <2>1, <2>2 DEF Entered
<1>p. PICK full, r : full = fl /\ r = rc
  OBVIOUS
<1> DEFINE q == Append(full, r)
<1>0. /\ r = [count |-> n + extra, next |-> parent, id |-> Len(st) + 1]
      /\ v = [vars |-> SubSeq(full, b + 1, Len(full)), next |-> Id(m, parent)]
      /\ full = s \o Extra(extra) /\ g = Len(s) + extra + 1 /\ Restacked(m, q, x)
  BY <1>e, <1>p
<1> HIDE DEF fl, rc
<1>1. /\ m \in Memory /\ m.stk \in Seq(Slot) /\ Len(m.stk) \in Nat /\ K \in Nat /\ Heap(m, K)
      /\ Represents(m, Live(m, P, e), st) /\ Linked(P, 0, c, K)
  BY MemoryFacts DEF Machine, Heap, Frame
<1>2. Len(s) \in Nat /\ b \in Nat /\ n = Len(s) - b /\ b <= Len(s) /\ g = Len(s) + extra + 1
  BY <1>0
<1>3. /\ full \in Seq(Slot) /\ Len(full) = Len(s) + extra
      /\ \A i \in 1 .. Len(s) : full[i] = s[i]
      /\ \A i \in b + 1 .. Len(s) + extra : full[i] \in Val
      /\ SubSeq(full, b + 1, Len(full)) = [i \in 1 .. n + extra |-> full[b + i]]
      /\ SubSeq(full, b + 1, Len(full)) \in Seq(Val)
  <2>1. \A i \in Len(s) - n + 1 .. Len(s) : s[i] \in Val
    BY <1>2
  <2> DEFINE w == s \o Extra(extra)
             d == Len(s) - n
  <2>2. /\ w \in Seq(Slot) /\ Len(w) = Len(s) + extra
        /\ \A i \in 1 .. Len(s) : w[i] = s[i]
        /\ \A i \in d + 1 .. Len(s) + extra : w[i] \in Val
        /\ SubSeq(w, d + 1, Len(w)) = [i \in 1 .. n + extra |-> w[d + i]]
        /\ SubSeq(w, d + 1, Len(w)) \in Seq(Val)
    BY <2>1, FullStack
  <2>3. full = w /\ b = d
    BY <1>0
  <2> HIDE DEF w, d
  <2> QED BY <2>2, <2>3
<1>4. r \in EnvRecord /\ r.count = n + extra /\ r.next = parent /\ r.id = Len(st) + 1
  <2>1. parent \in Ref
    BY <1>1, EnvRefsAreOnHeap, Refs
  <2>2. Len(st) + 1 \in Nat
    BY DEF EnvSeq
  <2> QED BY <1>0, <2>1, <2>2 DEF EnvRecord
<1>5. q \in Seq(Slot) /\ Len(q) = g /\ q[g] = r /\ \A i \in 1 .. Len(s) + extra : q[i] = full[i]
  <2>1. r \in Slot
    BY <1>4 DEF Slot
  <2>2. full \in Seq(Slot) /\ Len(full) + 1 = g /\ Len(full) = Len(s) + extra
    BY <1>2, <1>3
  <2>3. q \in Seq(Slot) /\ Len(q) = Len(full) + 1 /\ q[Len(full) + 1] = r
        /\ \A i \in 1 .. Len(full) : q[i] = full[i]
    BY ONLY <2>1, <2>2, AppendProperties
  <2> HIDE DEF q
  <2> QED BY <2>2, <2>3
<1>6. Restacked(m, q, x)
  BY <1>0
<1> HIDE DEF q
<1>7. x \in Memory /\ x.stk = q /\ x.henv = m.henv /\ x.hcont = m.hcont
  BY <1>1, <1>5, <1>6, NewStack
<1>8. g \in Nat /\ b < g /\ Len(x.stk) = g
  BY <1>2, <1>5, <1>7
<1>9. Agree(m, x, b)
  <2>1. ASSUME NEW i \in 1 .. b PROVE x.stk[i] = m.stk[i]
    <3>1. i \in 1 .. Len(s) /\ i \in 1 .. Len(s) + extra
      BY <1>2
    <3>2. q[i] = full[i] /\ full[i] = s[i]
      BY <3>1, <1>3, <1>5
    <3> QED BY <3>2, <1>7
  <2> QED BY <2>1, <1>2, <1>7, <1>8 DEF Agree
<1>10. /\ Suspended(x, P, K) /\ Heap(x, K) /\ HeapStays(m, x, K)
       /\ EnvRefs(x) = EnvRefs(m)
       /\ Represents(x, Live(x, P, Nil), st)
       /\ Kont(x, c) = Kont(m, c) /\ \A h \in ContRefs(K) : Kont(x, h) = Kont(m, h)
  <2>1. \A i \in 1 .. Len(P) : P[i] <= b
    OBVIOUS
  <2>2. Machine(m, P, f, e, c, K, st) /\ x \in Memory
    BY <1>7
  <2> QED BY ONLY <2>1, <2>2, <1>9, FramesStay
<1>11. StackEnv(x, g)
  <2>1. g \in 1 .. Len(x.stk)
    BY <1>8, <1>2
  <2>2. x.stk[g] = r
    BY <1>5, <1>7
  <2>3. r.count < g
    BY <1>2, <1>4
  <2>4. ASSUME NEW i \in g - r.count .. g - 1 PROVE x.stk[i] \in Val
    <3>1. i \in b + 1 .. Len(s) + extra /\ i \in 1 .. Len(s) + extra
      BY <1>2, <1>4
    <3>2. q[i] = full[i] /\ full[i] \in Val
      BY <3>1, <1>3, <1>5
    <3> QED BY <3>2, <1>7
  <2> QED BY <2>1, <2>2, <2>3, <2>4, <1>4, <1>10 DEF StackEnv
<1>12. Frame(x, P, 0, g, At(g), c, K)
  <2>1. FrameEnv(x, g, At(g))
    BY <1>11 DEF FrameEnv
  <2>2. ASSUME NEW j \in 1 .. Len(P) PROVE ~(P[j] > g)
    <3>1. P[j] \in Nat /\ P[j] <= b
      BY <1>10 DEF Suspended
    <3> QED BY <3>1, <1>2, <1>8
  <2>3. Nested(x, P, 0, g)
    BY <2>2 DEF Nested
  <2> QED BY <2>1, <2>3, <1>1 DEF Frame
<1>13. Id(x, At(g)) = Len(st) + 1
  BY <1>4, <1>5, <1>7, StackEnvIs
<1>14. View(x, At(g)) = v
  <2>1. Count(x, At(g)) = n + extra /\ NextEnv(x, At(g)) = parent
    BY <1>4, <1>5, <1>7, StackEnvIs
  <2>2. Id(x, parent) = Id(m, parent)
    BY <1>10 DEF HeapStays
  <2>3. ASSUME NEW i \in 1 .. n + extra PROVE EnvVal(x, At(g), i) = full[b + i]
    <3>1. EnvVal(x, At(g), i) = x.stk[g - (n + extra) - 1 + i]
      <4>1. EnvVal(x, At(g), i) = x.stk[g - x.stk[g].count - 1 + i]
        BY StackEnvIs
      <4>2. x.stk[g].count = n + extra
        BY <1>4, <1>5, <1>7
      <4> QED BY <4>1, <4>2, Zenon
    <3>2. g - (n + extra) - 1 + i = b + i /\ b + i \in 1 .. Len(s) + extra
      BY <1>2
    <3>3. q[b + i] = full[b + i]
      BY <3>2, <1>5
    <3> QED BY <3>1, <3>2, <3>3, <1>7
  <2>4. View(x, At(g)) = [vars |-> [i \in 1 .. n + extra |-> EnvVal(x, At(g), i)], next |-> Id(m, parent)]
    BY <2>1, <2>2 DEF View
  <2>5. [i \in 1 .. n + extra |-> EnvVal(x, At(g), i)] = [i \in 1 .. n + extra |-> full[b + i]]
    BY <2>3
  <2> QED BY <2>4, <2>5, <1>0, <1>3
<1>15. v \in [vars : Seq(Val), next : Nat]
  <2>1. Id(m, parent) \in Nat
    <3>1. CASE parent = Nil
      BY <3>1 DEF Id
    <3>2. CASE parent # Nil
      <4>1. PICK a \in DOMAIN m.henv : parent = In(a)
        BY <3>2 DEF EnvRefs
      <4>2. m.henv[a] \in HeapEnvRecord
        BY <1>1, MemoryFacts
      <4> QED BY <4>1, <4>2, RecordFacts, HeapEnvIs
    <3> QED BY <3>1, <3>2
  <2> QED BY <2>1, <1>0, <1>3
<1>16. Represents(x, Live(x, P, Nil) \cup {At(g)}, Append(st, v))
  BY <1>10, <1>13, <1>14, <1>15, RepresentsMore DEF EnvSeq
<1>17. Live(x, P, At(g)) = Live(x, P, Nil) \cup {At(g)}
  BY Refs DEF Live
<1>18. Machine(x, P, g, At(g), c, K, Append(st, v))
  <2>1. g \in 0 .. Len(x.stk)
    BY <1>8
  <2> QED BY <2>1, <1>7, <1>10, <1>12, <1>16, <1>17 DEF Machine
<1>19. Append(st, v) \in EnvSeq
  BY <1>15 DEF EnvSeq
<1>20. Temps(x.stk, g) = <<>>
  <2>1. x.stk \in Seq(Slot) /\ g \in 0 .. Len(x.stk) /\ Len(x.stk) - g = 0
    BY <1>5, <1>7, <1>8
  <2>2. Temps(x.stk, g) \in Seq({MarkOf(w) : w \in Slot}) /\ Len(Temps(x.stk, g)) = 0
    BY <2>1, TempsAre
  <2> QED BY <2>2
<1> QED BY <1>8, <1>10, <1>13, <1>18, <1>19, <1>20 DEF Undisturbed

(* The arguments are the temporaries on top of the caller's. *)
Passed(t, n, extra, args) == args = SubSeq(t, Len(t) - n + 1, Len(t)) \o Extra(extra)

LEMMA ArgsAre ==
  ASSUME NEW o \in Seq(Slot), NEW f \in 0 .. Len(o), NEW n \in Nat, n <= Len(o) - f,
         \A i \in Len(o) - n + 1 .. Len(o) : o[i] \in Val,
         NEW s \in Seq(Slot), NEW b \in Nat, Len(s) = b + n, \A i \in 1 .. n : s[b + i] = o[Len(o) - n + i],
         NEW extra \in Nat, NEW full, Filled(full, s, extra), NEW t, t = Temps(o, f)
  PROVE  /\ n <= Len(t)
         /\ Passed(t, n, extra, SubSeq(full, b + 1, Len(full)))
<1> DEFINE M == {MarkOf(w) : w \in Slot}
           N == Len(o)
           a == SubSeq(t, Len(t) - n + 1, Len(t))
           u == Extra(extra)
<1>1. t = [i \in 1 .. N - f |-> MarkOf(o[f + i])] /\ t \in Seq(M) /\ Len(t) = N - f
  BY TempsAre
<1>2. N \in Nat /\ f \in Nat /\ f <= N /\ N - f \in Nat /\ n <= N - f
  OBVIOUS
<1>3. Val \subseteq M /\ Unbound \in M /\ \A w \in Val : MarkOf(w) = w
  <2>1. \A w \in Val : w \in Slot /\ MarkOf(w) = w
    BY Kinds DEF Slot, MarkOf
  <2>2. Unbound \in Val
    BY DEF Val
  <2> QED BY <2>1, <2>2
<1>f. /\ full \in Seq(Slot) /\ Len(full) = Len(s) + extra
      /\ \A i \in 1 .. Len(s) : full[i] = s[i]
      /\ \A i \in Len(s) + 1 .. Len(s) + extra : full[i] = Unbound
      /\ SubSeq(full, b + 1, Len(full)) = [i \in 1 .. n + extra |-> full[b + i]]
  <2>1. ASSUME NEW i \in Len(s) - n + 1 .. Len(s) PROVE s[i] \in Val
    <3>1. i - b \in 1 .. n /\ b + (i - b) = i
      OBVIOUS
    <3>2. s[b + (i - b)] = o[N - n + (i - b)]
      BY <3>1
    <3>3. N - n + (i - b) \in N - n + 1 .. N
      BY <3>1, <1>2
    <3> QED BY <3>1, <3>2, <3>3
  <2> DEFINE w == s \o u
             d == Len(s) - n
  <2>2. /\ w \in Seq(Slot) /\ Len(w) = Len(s) + extra
        /\ \A i \in 1 .. Len(s) : w[i] = s[i]
        /\ \A i \in Len(s) + 1 .. Len(s) + extra : w[i] = Unbound
        /\ SubSeq(w, d + 1, Len(w)) = [i \in 1 .. n + extra |-> w[d + i]]
    <3>1. n <= Len(s) /\ s \in Seq(Slot) /\ n \in Nat /\ extra \in Nat
      OBVIOUS
    <3> QED BY ONLY <2>1, <3>1, FullStack
  <2>3. full = w /\ b = d
    BY DEF Filled
  <2> HIDE DEF w, d
  <2> QED BY <2>2, <2>3
<1> HIDE DEF M, N
<1>4. a = [i \in 1 .. n |-> t[N - f - n + i]]
  <2>0. PICK l \in Nat : l = Len(t) /\ l = N - f /\ n <= l
    BY <1>1, <1>2
  <2>3. SubSeq(t, l - n + 1, l) = [i \in 1 .. 1 + l - (l - n + 1) |-> t[i + (l - n + 1) - 1]]
    <3> DEFINE k == l - n + 1
    <3>1. k \in Nat \ {0} /\ l \in Nat /\ t \in Seq(M) /\ l <= Len(t)
      BY <2>0, <1>1
    <3> HIDE DEF k
    <3>2. SubSeq(t, k, l) = [i \in 1 .. 1 + l - k |-> t[i + k - 1]]
      BY ONLY <3>1
    <3> QED BY <3>2 DEF k
  <2>1. a = [i \in 1 .. 1 + (N - f) - (N - f - n + 1) |-> t[i + (N - f - n + 1) - 1]]
    <3>1. a = SubSeq(t, l - n + 1, l)
      BY <2>0
    <3> QED BY <2>0, <2>3, <3>1
  <2>2. 1 + (N - f) - (N - f - n + 1) = n /\ \A i \in 1 .. n : i + (N - f - n + 1) - 1 = N - f - n + i
    BY <1>2
  <2> QED BY <2>1, <2>2
<1> HIDE DEF a
<1>5. ASSUME NEW i \in 1 .. n PROVE a[i] = full[b + i] /\ a[i] \in M
  <2>1. N - f - n + i \in 1 .. N - f /\ f + (N - f - n + i) = N - n + i /\ N - n + i \in N - n + 1 .. N
    BY <1>2
  <2>2. t[N - f - n + i] = MarkOf(o[f + (N - f - n + i)])
    BY <2>1, <1>1
  <2>3. o[N - n + i] \in Val /\ s[b + i] = o[N - n + i]
    BY <2>1 DEF N
  <2>4. a[i] = o[N - n + i]
    BY <2>1, <2>2, <2>3, <1>3, <1>4
  <2>5. b + i \in 1 .. Len(s)
    OBVIOUS
  <2>6. full[b + i] = s[b + i]
    BY <2>5, <1>f
  <2> QED BY <2>3, <2>4, <2>6, <1>3
<1>6. a \in Seq(M) /\ Len(a) = n
  <2>1. a = [i \in 1 .. n |-> a[i]]
    BY <1>4
  <2>2. \A i \in 1 .. n : a[i] \in M
    BY <1>5
  <2>3. a \in [1 .. n -> M]
    BY <2>1, <2>2
  <2> QED BY <2>3
<1>7. u \in Seq(M) /\ Len(u) = extra /\ \A i \in 1 .. extra : u[i] = Unbound
  BY <1>3 DEF Extra
<1> HIDE DEF u
<1> DEFINE z == a \o u
<1>8. z \in Seq(M) /\ Len(z) = n + extra
      /\ \A i \in 1 .. n + extra : z[i] = IF i <= n THEN a[i] ELSE u[i - n]
  <2>1. z \in Seq(M) /\ Len(z) = Len(a) + Len(u)
        /\ \A i \in 1 .. Len(a) + Len(u) : z[i] = IF i <= Len(a) THEN a[i] ELSE u[i - Len(a)]
    <3>1. a \in Seq(M) /\ u \in Seq(M)
      BY <1>6, <1>7
    <3> QED BY ONLY <3>1, ConcatProperties
  <2> HIDE DEF z
  <2> QED BY <2>1, <1>6, <1>7
<1> HIDE DEF z
<1>9. ASSUME NEW i \in 1 .. n + extra PROVE z[i] = full[b + i]
  <2>1. CASE i <= n
    <3>1. i \in 1 .. n
      BY <2>1
    <3>2. z[i] = a[i]
      BY <2>1, <1>8
    <3> QED BY <3>1, <3>2, <1>5
  <2>2. CASE ~(i <= n)
    <3>1. i - n \in 1 .. extra /\ b + i \in Len(s) + 1 .. Len(s) + extra
      BY <2>2
    <3> QED BY <2>2, <3>1, <1>7, <1>8, <1>f
  <2> QED BY <2>1, <2>2
<1>10. z = [i \in 1 .. n + extra |-> z[i]]
  BY <1>8
<1>11. SubSeq(full, b + 1, Len(full)) = z
  BY <1>9, <1>10, <1>f
<1>12. Passed(t, n, extra, SubSeq(full, b + 1, Len(full)))
  BY <1>11 DEF Passed, z, u, a
<1> QED BY <1>1, <1>2, <1>12

(***************************************************************************)
(* iste: one variable changes, in the one place where the machine has it.  *)
(***************************************************************************)
Written(st, d, i, v) == [st EXCEPT ![d].vars[i] = v]

LEMMA WrittenRepresents ==
  ASSUME NEW m, NEW x, NEW R, NEW st \in EnvSeq, Represents(m, R, st), NEW r \in R,
         NEW i \in 1 .. Count(m, r), NEW v \in Val,
         \A q \in R : Id(x, q) = Id(m, q), \A q \in R \ {r} : View(x, q) = View(m, q),
         View(x, r) = [vars |-> [View(m, r).vars EXCEPT ![i] = v], next |-> View(m, r).next]
  PROVE  Written(st, Id(m, r), i, v) \in EnvSeq /\ Represents(x, R, Written(st, Id(m, r), i, v))
<1> DEFINE d == Id(m, r)
           w == Written(st, d, i, v)
           E == [vars : Seq(Val), next : Nat]
<1>1. st \in Seq(E) /\ d \in DOMAIN st /\ st[d] = View(m, r) /\ st[d] \in E
  <2>1. st \in Seq(E)
    BY DEF EnvSeq
  <2>2. d \in DOMAIN st /\ st[d] = View(m, r)
    BY DEF Represents
  <2> HIDE DEF E, d
  <2> QED BY <2>1, <2>2
<1> DEFINE o == [st[d] EXCEPT !.vars[i] = v]
<1>2. o = [vars |-> [st[d].vars EXCEPT ![i] = v], next |-> st[d].next] /\ o \in E
  <2>1. PICK y \in E : y = st[d]
    BY <1>1
  <2>2. PICK u \in Seq(Val) : u = y.vars
    OBVIOUS
  <2>3. [u EXCEPT ![i] = v] \in Seq(Val)
    <3>1. PICK l \in Nat : u \in [1 .. l -> Val]
      OBVIOUS
    <3>2. [u EXCEPT ![i] = v] \in [1 .. l -> Val]
      BY <3>1
    <3> QED BY <3>2
  <2>4. [y EXCEPT !.vars[i] = v] = [vars |-> [y.vars EXCEPT ![i] = v], next |-> y.next]
    OBVIOUS
  <2>5. o = [vars |-> [u EXCEPT ![i] = v], next |-> y.next] /\ y.next \in Nat
    BY <2>1, <2>2, <2>4
  <2> QED BY <2>1, <2>2, <2>3, <2>5
<1>3. w = [st EXCEPT ![d] = o]
  BY <1>1 DEF Written
<1> HIDE DEF w, o, E, d
<1>4. w \in Seq(E) /\ DOMAIN w = DOMAIN st /\ w[d] = o /\ \A k \in DOMAIN st : k # d => w[k] = st[k]
  BY <1>1, <1>2, <1>3
<1>5. View(x, r) = o
  BY <1>1, <1>2
<1>6. ASSUME NEW q \in R PROVE Id(x, q) \in DOMAIN w /\ w[Id(x, q)] = View(x, q)
  <2>1. Id(x, q) = Id(m, q) /\ Id(m, q) \in DOMAIN st /\ st[Id(m, q)] = View(m, q)
    BY DEF Represents
  <2>2. CASE q = r
    BY <2>1, <2>2, <1>4, <1>5 DEF d
  <2>3. CASE q # r
    <3>1. Id(m, q) # d
      BY <2>3 DEF Represents, d
    <3> QED BY <2>1, <2>3, <3>1, <1>4
  <2> QED BY <2>2, <2>3
<1>7. \A p, q \in R : Id(x, p) = Id(x, q) => p = q
  BY DEF Represents
<1> QED BY <1>4, <1>6, <1>7 DEF Represents, EnvSeq, w, d, E

(* The machine is the same but for what its environments hold. *)
LEMMA ShapeKept ==
  ASSUME NEW m, NEW P, NEW f, NEW e, NEW c, NEW K, NEW st, Machine(m, P, f, e, c, K, st),
         NEW x \in Memory, Len(x.stk) = Len(m.stk), Len(x.henv) = Len(m.henv), x.hcont = m.hcont,
         \A a \in 1 .. Len(m.henv) : x.henv[a].next = m.henv[a].next /\ x.henv[a].id = m.henv[a].id,
         \A i \in 1 .. Len(P) : /\ x.stk[P[i]] = m.stk[P[i]]
                                /\ Mark(SavedStack(x, P[i])) = Mark(SavedStack(m, P[i])),
         \A g \in Nat : StackEnv(m, g) => StackEnv(x, g) /\ x.stk[g] = m.stk[g]
  PROVE  /\ Suspended(x, P, K) /\ Frame(x, P, 0, f, e, c, K) /\ Heap(x, K)
         /\ f \in 0 .. Len(x.stk) /\ Live(x, P, e) = Live(m, P, e)
         /\ \A r \in Live(m, P, e) : Id(x, r) = Id(m, r) /\ View(x, r).next = View(m, r).next
         /\ Id(x, e) = Id(m, e)
         /\ Undisturbed(m, x, K) /\ Kont(x, c) = Kont(m, c)
<1>1. /\ m \in Memory /\ Suspended(m, P, K) /\ Frame(m, P, 0, f, e, c, K) /\ Heap(m, K)
      /\ f \in 0 .. Len(m.stk) /\ K \in Nat
  BY DEF Machine, Heap
<1>2. DOMAIN m.henv = 1 .. Len(m.henv) /\ DOMAIN x.henv = 1 .. Len(m.henv)
      /\ Len(m.stk) \in Nat
  BY <1>1, MemoryFacts
<1>3. EnvRefs(x) = EnvRefs(m)
  BY <1>2 DEF EnvRefs
<1>4. \A r \in EnvRefs(m) : Id(x, r) = Id(m, r) /\ (r # Nil => NextEnv(x, r) = NextEnv(m, r) /\ NextEnv(m, r) \in EnvRefs(m))
  <2> SUFFICES ASSUME NEW r \in EnvRefs(m)
               PROVE  Id(x, r) = Id(m, r) /\ (r # Nil => NextEnv(x, r) = NextEnv(m, r) /\ NextEnv(m, r) \in EnvRefs(m))
    OBVIOUS
  <2>1. CASE r = Nil
    BY <2>1 DEF Id
  <2>2. CASE r # Nil
    <3>1. PICK a \in 1 .. Len(m.henv) : r = In(a)
      BY <2>2, <1>2 DEF EnvRefs
    <3>2. x.henv[a].next = m.henv[a].next /\ x.henv[a].id = m.henv[a].id /\ m.henv[a].next \in EnvRefs(m)
      BY <1>1 DEF Heap
    <3> QED BY <3>1, <3>2, HeapEnvIs
  <2> QED BY <2>1, <2>2
<1>5. \A g, r : FrameEnv(m, g, r) =>
        /\ FrameEnv(x, g, r) /\ Id(x, r) = Id(m, r)
        /\ r # Nil => NextEnv(x, r) = NextEnv(m, r) /\ NextEnv(m, r) \in EnvRefs(m)
  <2> SUFFICES ASSUME NEW g, NEW r, FrameEnv(m, g, r)
               PROVE  /\ FrameEnv(x, g, r) /\ Id(x, r) = Id(m, r)
                      /\ r # Nil => NextEnv(x, r) = NextEnv(m, r) /\ NextEnv(m, r) \in EnvRefs(m)
    OBVIOUS
  <2>1. CASE r \in EnvRefs(m)
    BY <2>1, <1>3, <1>4 DEF FrameEnv
  <2>2. CASE r = At(g) /\ StackEnv(m, g)
    <3>1. g \in Nat /\ m.stk[g].next \in EnvRefs(m)
      BY <2>2, <1>2 DEF StackEnv
    <3>2. StackEnv(x, g) /\ x.stk[g] = m.stk[g]
      BY <2>2, <3>1
    <3> QED BY <2>2, <3>1, <3>2, StackEnvIs DEF FrameEnv
  <2> QED BY <2>1, <2>2 DEF FrameEnv
<1>6. ASSUME NEW i \in 0 .. Len(P), NEW g, NEW r, NEW k, Frame(m, P, i, g, r, k, K)
      PROVE  Frame(x, P, i, g, r, k, K)
  <2>1. Len(P) \in Nat
    BY <1>1 DEF Suspended
  <2>2. \A j \in i + 1 .. Len(P) : j \in 1 .. Len(P)
    BY <2>1
  <2>3. Nested(x, P, i, g)
    BY <1>6, <2>2 DEF Frame, Nested
  <2> QED BY <1>5, <1>6, <2>3 DEF Frame
<1>7. Suspended(x, P, K) /\ Frame(x, P, 0, f, e, c, K)
  <2>1. Len(P) \in Nat /\ P \in Seq(Nat)
    BY <1>1 DEF Suspended
  <2>2. ASSUME NEW i \in 1 .. Len(P)
        PROVE  /\ P[i] \in 1 .. Len(x.stk)
               /\ x.stk[P[i]] \in ContRecord /\ x.stk[P[i]].fn < P[i]
               /\ Frame(x, P, i, x.stk[P[i]].fn, x.stk[P[i]].env, x.stk[P[i]].conr, K)
    <3>1. i \in 0 .. Len(P) /\ x.stk[P[i]] = m.stk[P[i]]
      BY <2>1
    <3>2. /\ P[i] \in 1 .. Len(m.stk) /\ m.stk[P[i]] \in ContRecord /\ m.stk[P[i]].fn < P[i]
          /\ Frame(m, P, i, m.stk[P[i]].fn, m.stk[P[i]].env, m.stk[P[i]].conr, K)
      BY <1>1 DEF Suspended
    <3> QED BY <3>1, <3>2, <1>6
  <2>3. \A i, j \in 1 .. Len(P) : i < j => P[j] < P[i]
    BY <1>1 DEF Suspended
  <2>4. 0 \in 0 .. Len(P)
    BY <2>1
  <2> QED BY <2>1, <2>2, <2>3, <2>4, <1>1, <1>6 DEF Suspended
<1>8. Heap(x, K)
  <2>1. ASSUME NEW k \in 1 .. K PROVE HeapChain(x, k, K)
    <3>1. PICK s \in Seq(ContRefs(K)) : IsChain(m, In(k), s) /\ Len(s) <= K
      BY <1>1 DEF Heap, HeapChain
    <3>2. IsChain(x, In(k), s)
      BY <3>1, ChainKept
    <3> QED BY <3>1, <3>2 DEF HeapChain
  <2>2. \A a \in 1 .. Len(m.henv) : x.henv[a].next \in EnvRefs(x)
    BY <1>1, <1>3 DEF Heap
  <2>3. \A k \in 1 .. K : x.hcont[k].env \in EnvRefs(x)
    BY <1>1, <1>3 DEF Heap
  <2> QED BY <2>1, <2>2, <2>3, <1>1 DEF Heap
<1>9. StackEnvs(x, P) = StackEnvs(m, P)
  BY DEF StackEnvs
<1>10. Live(x, P, e) = Live(m, P, e)
  BY <1>3, <1>9 DEF Live
<1>11. \A r \in Live(m, P, e) : r # Nil /\ \E g : FrameEnv(m, g, r)
  <2>1. FrameEnv(m, f, e)
    BY <1>1 DEF Frame
  <2>2. \A r \in StackEnvs(m, P) : \E g : FrameEnv(m, g, r)
    BY <1>1 DEF StackEnvs, Suspended, Frame
  <2>3. \A r \in EnvRefs(m) : FrameEnv(m, 0, r)
    BY DEF FrameEnv
  <2> QED BY <2>1, <2>2, <2>3 DEF Live
<1>12. \A r \in Live(m, P, e) : Id(x, r) = Id(m, r) /\ View(x, r).next = View(m, r).next
  BY <1>4, <1>5, <1>11 DEF View
<1>13. Id(x, e) = Id(m, e)
  BY <1>1, <1>5 DEF Frame
<1>14. HeapStays(m, x, K)
  BY <1>3, <1>4 DEF HeapStays
<1>15. \A i \in 1 .. Len(P) : FrameOf(x, At(P[i])) = FrameOf(m, At(P[i]))
  <2> SUFFICES ASSUME NEW i \in 1 .. Len(P) PROVE FrameOf(x, At(P[i])) = FrameOf(m, At(P[i]))
    OBVIOUS
  <2>1. FrameEnv(m, m.stk[P[i]].fn, m.stk[P[i]].env)
    BY <1>1 DEF Suspended, Frame
  <2>2. Id(x, m.stk[P[i]].env) = Id(m, m.stk[P[i]].env)
    BY <2>1, <1>5
  <2> QED BY <2>2, FrameIs
<1>16. Kont(x, c) = Kont(m, c)
  BY <1>1, <1>7, <1>8, <1>14, <1>15, RegisterKontKept DEF Frame
<1>17. Undisturbed(m, x, K)
  BY <1>1, <1>8, <1>14, HeapKontKept DEF Undisturbed
<1> QED BY <1>1, <1>7, <1>8, <1>10, <1>12, <1>13, <1>16, <1>17

HeapWritten(m, a, i, v, x) ==
  x = [stk |-> m.stk, henv |-> [m.henv EXCEPT ![a].vars[i] = v], hcont |-> m.hcont]

LEMMA AssignHeapStep ==
  ASSUME NEW m, NEW P, NEW f, NEW e, NEW c, NEW K, NEW st \in EnvSeq, Machine(m, P, f, e, c, K, st),
         NEW a \in 1 .. Len(m.henv), NEW i \in 1 .. Count(m, In(a)), NEW v \in Val,
         NEW x, HeapWritten(m, a, i, v, x)
  PROVE  LET w == Written(st, Id(m, In(a)), i, v)
         IN  /\ Machine(x, P, f, e, c, K, w) /\ w \in EnvSeq /\ Undisturbed(m, x, K)
             /\ Id(x, e) = Id(m, e) /\ Kont(x, c) = Kont(m, c) /\ x.stk = m.stk
<1>1. /\ m \in Memory /\ Suspended(m, P, K) /\ Frame(m, P, 0, f, e, c, K)
      /\ Represents(m, Live(m, P, e), st) /\ m.henv \in Seq(HeapEnvRecord)
      /\ m.stk \in Seq(Slot) /\ m.hcont \in Seq(HeapContRecord)
  BY MemoryFacts DEF Machine
<1> DEFINE n == Len(m.henv)
           o == [m.henv[a] EXCEPT !.vars[i] = v]
           h == [m.henv EXCEPT ![a].vars[i] = v]
<1>2. n \in Nat /\ m.henv \in [1 .. n -> HeapEnvRecord]
  BY <1>1
<1>3. PICK y \in HeapEnvRecord : y = m.henv[a]
  BY <1>2
<1>4. o = [vars |-> [y.vars EXCEPT ![i] = v], next |-> y.next, id |-> y.id] /\ o \in HeapEnvRecord
      /\ Count(m, In(a)) = Len(y.vars)
  <2>1. PICK u \in Seq(Val) : u = y.vars
    BY RecordFacts
  <2>2. [u EXCEPT ![i] = v] \in Seq(Val)
    <3>1. PICK l \in Nat : u \in [1 .. l -> Val]
      OBVIOUS
    <3>2. [u EXCEPT ![i] = v] \in [1 .. l -> Val]
      BY <3>1
    <3> QED BY <3>2
  <2>0. PICK z \in [vars : Seq(Val), next : HeapRef, id : Nat] : z = y
    BY DEF HeapEnvRecord
  <2>6. [z EXCEPT !.vars[i] = v] = [vars |-> [z.vars EXCEPT ![i] = v], next |-> z.next, id |-> z.id]
    OBVIOUS
  <2>3. [y EXCEPT !.vars[i] = v] = [vars |-> [y.vars EXCEPT ![i] = v], next |-> y.next, id |-> y.id]
    BY <2>0, <2>6
  <2>4. o = [vars |-> [u EXCEPT ![i] = v], next |-> y.next, id |-> y.id]
    BY <1>3, <2>1, <2>3
  <2>5. [vars |-> [u EXCEPT ![i] = v], next |-> y.next, id |-> y.id] \in HeapEnvRecord
    BY <2>2, RecordFacts DEF HeapEnvRecord
  <2> QED BY <1>3, <2>1, <2>4, <2>5, HeapEnvIs
<1>5. h = [m.henv EXCEPT ![a] = o]
  BY <1>2
<1> HIDE DEF o, n
<1>h. x = [stk |-> m.stk, henv |-> h, hcont |-> m.hcont]
  BY DEF HeapWritten
<1> HIDE DEF h
<1>6. h \in Seq(HeapEnvRecord) /\ Len(h) = n /\ h[a] = o /\ \A b \in 1 .. n : b # a => h[b] = m.henv[b]
  <2>1. h \in [1 .. n -> HeapEnvRecord] /\ h[a] = o /\ \A b \in 1 .. n : b # a => h[b] = m.henv[b]
    <3>1. a \in 1 .. n
      BY DEF n
    <3> QED BY <3>1, <1>2, <1>4, <1>5
  <2> QED BY <2>1, <1>2
<1>7. x \in Memory /\ x.stk = m.stk /\ x.henv = h /\ x.hcont = m.hcont
  BY <1>1, <1>6, <1>h DEF Memory
<1>8. \A b \in 1 .. n : x.henv[b].next = m.henv[b].next /\ x.henv[b].id = m.henv[b].id
  BY <1>3, <1>4, <1>6, <1>7
<1>9. Len(x.stk) = Len(m.stk) /\ Len(x.henv) = Len(m.henv)
  BY <1>6, <1>7 DEF n
<1>10. EnvRefs(x) = EnvRefs(m)
  <2>1. DOMAIN x.henv = DOMAIN m.henv
    BY <1>1, <1>6, <1>7, <1>9
  <2> QED BY <2>1 DEF EnvRefs
<1>11. \A g \in Nat : StackEnv(m, g) => StackEnv(x, g) /\ x.stk[g] = m.stk[g]
  BY <1>7, <1>10 DEF StackEnv
<1>12. \A j \in 1 .. Len(P) : x.stk[P[j]] = m.stk[P[j]] /\ Mark(SavedStack(x, P[j])) = Mark(SavedStack(m, P[j]))
  BY <1>7 DEF SavedStack
<1>13. /\ Suspended(x, P, K) /\ Frame(x, P, 0, f, e, c, K) /\ Heap(x, K)
       /\ f \in 0 .. Len(x.stk) /\ Live(x, P, e) = Live(m, P, e)
       /\ \A r \in Live(m, P, e) : Id(x, r) = Id(m, r) /\ View(x, r).next = View(m, r).next
       /\ Id(x, e) = Id(m, e)
       /\ Undisturbed(m, x, K) /\ Kont(x, c) = Kont(m, c)
  <2>1. Machine(m, P, f, e, c, K, st) /\ x \in Memory /\ x.hcont = m.hcont
    BY <1>7
  <2>2. \A b \in 1 .. Len(m.henv) : x.henv[b].next = m.henv[b].next /\ x.henv[b].id = m.henv[b].id
    BY <1>8 DEF n
  <2> QED BY ONLY <2>1, <2>2, <1>9, <1>11, <1>12, ShapeKept, SMTT(30)
<1> DEFINE R == Live(m, P, e)
<1>14. In(a) \in R
  <2>1. In(a) \in EnvRefs(m)
    BY <1>1, <1>2 DEF EnvRefs, n
  <2> QED BY <2>1, Refs DEF Live
<1>15. ASSUME NEW r \in R, r # In(a) PROVE View(x, r) = View(m, r)
  <2>1. IsLive(m, r)
    BY <1>1, LiveIs DEF Frame
  <2>2. CASE \E b \in 1 .. n : r = In(b)
    <3>1. PICK b \in 1 .. n : r = In(b)
      BY <2>2
    <3>2. x.henv[b] = m.henv[b]
      BY <3>1, <1>15, <1>6, <1>7
    <3>3. Count(x, r) = Count(m, r)
      BY <3>1, <3>2, HeapEnvIs
    <3>4. Id(x, NextEnv(x, r)) = Id(m, NextEnv(m, r))
      BY <1>13 DEF View
    <3>5. ASSUME NEW k PROVE EnvVal(x, r, k) = EnvVal(m, r, k)
      BY <3>1, <3>2, HeapEnvIs
    <3> QED BY <3>3, <3>4, <3>5 DEF View
  <2>3. CASE \E g \in Nat : r = At(g) /\ StackEnv(m, g)
    <3>1. PICK g : r = At(g)
      BY <2>3
    <3>2. Count(x, r) = Count(m, r)
      BY <3>1, <1>7, StackEnvIs
    <3>3. Id(x, NextEnv(x, r)) = Id(m, NextEnv(m, r))
      BY <1>13 DEF View
    <3>4. ASSUME NEW k PROVE EnvVal(x, r, k) = EnvVal(m, r, k)
      <4>1. EnvVal(x, r, k) = x.stk[g - x.stk[g].count - 1 + k]
        BY <3>1, StackEnvIs
      <4>2. EnvVal(m, r, k) = m.stk[g - m.stk[g].count - 1 + k]
        BY <3>1, StackEnvIs
      <4> QED BY <4>1, <4>2, <1>7
    <3> QED BY <3>2, <3>3, <3>4 DEF View
  <2> QED BY <2>1, <2>2, <2>3 DEF IsLive, n
<1>16. View(x, In(a)) = [vars |-> [View(m, In(a)).vars EXCEPT ![i] = v], next |-> View(m, In(a)).next]
  <2>1. PICK u \in Seq(Val) : u = y.vars
    BY RecordFacts
  <2>2. PICK l \in Nat : l = Len(u) /\ u \in [1 .. l -> Val] /\ u = [k \in 1 .. l |-> u[k]]
    OBVIOUS
  <2>3. Count(m, In(a)) = l
    BY <2>1, <2>2, <1>4
  <2>12. ASSUME NEW k PROVE EnvVal(m, In(a), k) = u[k]
    <3>1. EnvVal(m, In(a), k) = m.henv[a].vars[k]
      BY HeapEnvIs
    <3> QED BY <3>1, <2>1, <1>3
  <2>4. View(m, In(a)).vars = u
    BY <2>2, <2>3, <2>12 DEF View
  <2> DEFINE z == [u EXCEPT ![i] = v]
  <2>5. z \in [1 .. l -> Val] /\ z = [k \in 1 .. l |-> z[k]]
    BY <2>2
  <2>6. z \in Seq(Val) /\ Len(z) = l
    BY <2>5
  <2>7. x.henv[a].vars = z
    <3>1. x.henv[a] = o
      BY <1>6, <1>7
    <3>2. o.vars = [y.vars EXCEPT ![i] = v]
      BY <1>4
    <3> QED BY <3>1, <3>2, <2>1
  <2> HIDE DEF z
  <2>8. Count(x, In(a)) = l
    BY <2>6, <2>7, HeapEnvIs
  <2>13. ASSUME NEW k PROVE EnvVal(x, In(a), k) = z[k]
    <3>1. EnvVal(x, In(a), k) = x.henv[a].vars[k]
      BY HeapEnvIs
    <3> QED BY <3>1, <2>7
  <2>9. View(x, In(a)).vars = z
    BY <2>5, <2>8, <2>13 DEF View
  <2>10. View(x, In(a)).next = View(m, In(a)).next
    BY <1>13, <1>14
  <2>11. View(x, In(a)) = [vars |-> View(x, In(a)).vars, next |-> View(x, In(a)).next]
    BY DEF View
  <2> QED BY <2>4, <2>9, <2>10, <2>11 DEF z
<1> DEFINE w == Written(st, Id(m, In(a)), i, v)
<1>17. w \in EnvSeq /\ Represents(x, R, w)
  <2> HIDE DEF R
  <2>1. \A q \in R : Id(x, q) = Id(m, q)
    BY <1>13 DEF R
  <2>2. \A q \in R \ {In(a)} : View(x, q) = View(m, q)
    BY <1>15
  <2>3. Represents(m, R, st)
    BY <1>1 DEF R
  <2> QED BY <2>1, <2>2, <2>3, <1>14, <1>16, WrittenRepresents
<1> QED BY <1>7, <1>13, <1>17 DEF Machine

LEMMA AssignStackStep ==
  ASSUME NEW m, NEW P, NEW f, NEW c, NEW K, NEW st \in EnvSeq, Machine(m, P, f, At(f), c, K, st), StackEnv(m, f),
         NEW i \in 1 .. Count(m, At(f)), NEW v \in Val,
         NEW x, Restacked(m, [m.stk EXCEPT ![SlotOf(m, At(f), i)] = v], x)
  PROVE  LET w == Written(st, Id(m, At(f)), i, v)
         IN  /\ Machine(x, P, f, At(f), c, K, w) /\ w \in EnvSeq /\ Undisturbed(m, x, K)
             /\ Id(x, At(f)) = Id(m, At(f)) /\ Kont(x, c) = Kont(m, c)
             /\ Temps(x.stk, f) = Temps(m.stk, f) /\ Len(x.stk) = Len(m.stk)
<1> DEFINE n == Len(m.stk)
           l == m.stk[f].count
           p == SlotOf(m, At(f), i)
           s == [m.stk EXCEPT ![p] = v]
<1>1. /\ m \in Memory /\ Suspended(m, P, K) /\ Frame(m, P, 0, f, At(f), c, K)
      /\ Represents(m, Live(m, P, At(f)), st) /\ m.stk \in Seq(Slot) /\ n \in Nat
      /\ m.stk \in [1 .. n -> Slot]
  BY MemoryFacts DEF Machine
<1>2. f \in 1 .. n /\ m.stk[f] \in EnvRecord /\ l \in Nat /\ l < f /\ i \in 1 .. l
      /\ \A q \in f - l .. f - 1 : m.stk[q] \in Val
  BY RecordFacts, StackEnvIs DEF StackEnv
<1>3. p = f - l - 1 + i
  BY Refs DEF SlotOf
<1>4. p \in f - l .. f - 1 /\ p \in 1 .. n /\ m.stk[p] \in Val
  <2>1. p \in f - l .. f - 1 /\ p \in 1 .. n
    BY <1>1, <1>2, <1>3, SMTT(30)
  <2> QED BY <2>1, <1>2
<1> HIDE DEF p
<1>5. s \in Seq(Slot) /\ Len(s) = n /\ s[p] = v /\ \A q \in 1 .. n : q # p => s[q] = m.stk[q]
  <2>1. v \in Slot
    BY DEF Slot
  <2>2. s \in [1 .. n -> Slot] /\ s[p] = v /\ \A q \in 1 .. n : q # p => s[q] = m.stk[q]
    BY <2>1, <1>1, <1>4
  <2> QED BY <2>2, <1>1
<1>6. Restacked(m, s, x)
  BY DEF p
<1> HIDE DEF s
<1>7. x \in Memory /\ x.stk = s /\ x.henv = m.henv /\ x.hcont = m.hcont
  BY <1>1, <1>5, <1>6, NewStack
<1>8. Len(x.stk) = Len(m.stk) /\ EnvRefs(x) = EnvRefs(m)
  BY <1>5, <1>7, SameIds
<1>9. ASSUME NEW g \in Nat, StackEnv(m, g), g # f PROVE \A q \in g - m.stk[g].count .. g : q # p
  <2> SUFFICES ASSUME p \in g - m.stk[g].count .. g PROVE FALSE
    OBVIOUS
  <2>1. g \in 1 .. n /\ m.stk[g] \in EnvRecord /\ m.stk[g].count \in Nat
        /\ \A q \in g - m.stk[g].count .. g - 1 : m.stk[q] \in Val
    BY <1>9, RecordFacts DEF StackEnv
  <2>2. p # g
    BY <2>1, <1>4, Kinds
  <2>3. CASE g < f
    <3>1. g \in f - l .. f - 1
      BY <2>1, <2>3, <1>1, <1>2, <1>4
    <3> QED BY <2>1, <3>1, <1>2, Kinds
  <2>4. CASE f < g
    <3>1. f \in g - m.stk[g].count .. g - 1
      BY <2>1, <2>4, <1>1, <1>2, <1>4
    <3> QED BY <2>1, <3>1, <1>2, Kinds
  <2> QED BY <2>1, <2>3, <2>4, <1>2, <1>9
<1>10. ASSUME NEW g \in Nat, StackEnv(m, g), g # f PROVE StackEnv(x, g) /\ x.stk[g] = m.stk[g] /\ Same(m, At(g), x, At(g))
  <2>1. g \in 1 .. n /\ m.stk[g] \in EnvRecord /\ m.stk[g].count \in Nat /\ m.stk[g].count < g /\ m.stk[g].next \in EnvRefs(m)
    BY <1>10, RecordFacts DEF StackEnv
  <2>2. ASSUME NEW q \in g - m.stk[g].count .. g PROVE x.stk[q] = m.stk[q]
    <3>1. q # p /\ q \in 1 .. n
      BY <2>1, <1>1, <1>9, <1>10
    <3> QED BY <3>1, <1>5, <1>7
  <2>3. g \in g - m.stk[g].count .. g
    BY <2>1
  <2>4. m.stk[g].next \in EnvRefs(x) /\ Id(x, m.stk[g].next) = Id(m, m.stk[g].next)
    BY <2>1, <1>7, SameIds
  <2>5. g <= Len(x.stk) /\ Len(x.stk) \in Nat
    BY <2>1, <1>1, <1>8
  <2> QED BY <2>2, <2>3, <2>4, <2>5, <1>1, <1>10, SameOnStack
<1>11. StackEnv(x, f) /\ x.stk[f] = m.stk[f]
  <2>1. x.stk[f] = m.stk[f]
    BY <1>1, <1>2, <1>4, <1>5, <1>7
  <2>2. ASSUME NEW q \in f - l .. f - 1 PROVE x.stk[q] \in Val
    <3>1. q \in 1 .. n
      BY <1>1, <1>2
    <3> QED BY <3>1, <1>2, <1>5, <1>7
  <2> QED BY <2>1, <2>2, <1>2, <1>8 DEF StackEnv
<1>12. \A g \in Nat : StackEnv(m, g) => StackEnv(x, g) /\ x.stk[g] = m.stk[g]
  BY <1>10, <1>11
<1>13. ASSUME NEW j \in 1 .. Len(P)
       PROVE  x.stk[P[j]] = m.stk[P[j]] /\ Mark(SavedStack(x, P[j])) = Mark(SavedStack(m, P[j]))
  <2>1. P[j] \in 1 .. n /\ m.stk[P[j]] \in ContRecord /\ m.stk[P[j]].fn < P[j] /\ m.stk[P[j]].fn \in Nat
    BY <1>1, RecordFacts DEF Suspended
  <2>2. P[j] # p /\ P[j] # f /\ P[j] \notin f - l .. f - 1
    BY <2>1, <1>2, <1>4, Kinds
  <2>3. x.stk[P[j]] = m.stk[P[j]]
    BY <2>1, <2>2, <1>5, <1>7
  <2>4. P[j] > f => m.stk[P[j]].fn = f
    <3>1. j \in 0 + 1 .. Len(P)
      OBVIOUS
    <3> QED BY <3>1, <1>1 DEF Frame, Nested
  <2> DEFINE g == m.stk[P[j]].fn
  <2>5. ASSUME NEW q \in g + 1 .. P[j] - 1 PROVE s[q] = m.stk[q]
    <3>1. q \in 1 .. n
      BY <2>1, <1>1
    <3>2. q # p
      <4>1. CASE P[j] > f
        BY <4>1, <2>4, <1>2, <1>4
      <4>2. CASE ~(P[j] > f)
        <5>1. P[j] < p
          <6>1. PICK b \in Nat : b = P[j]
            BY <1>1, <2>1
          <6>2. b # f /\ b \notin f - l .. f - 1 /\ ~(b > f)
            BY <6>1, <2>2, <4>2
          <6> QED BY <6>1, <6>2, <1>1, <1>2, <1>4, SMTT(30)
        <5> QED BY <5>1, <2>1, <1>4
      <4> QED BY <4>1, <4>2
    <3> QED BY <3>1, <3>2, <1>5
  <2>6. SubSeq(s, g + 1, P[j] - 1) = SubSeq(m.stk, g + 1, P[j] - 1)
    <3>1. g + 1 \in Nat \ {0} /\ P[j] - 1 \in Nat /\ P[j] - 1 <= n
      <4>1. n \in Nat /\ P[j] \in 1 .. n /\ g \in Nat
        BY <2>1, <1>1
      <4> QED BY ONLY <4>1, PartBounds
    <3> DEFINE a == g + 1
               b == P[j] - 1
               u == m.stk
    <3>2. u \in Seq(Slot) /\ s \in Seq(Slot) /\ a \in Nat \ {0} /\ b \in Nat /\ b <= Len(u) /\ Len(s) = Len(u)
          /\ \A q \in a .. b : s[q] = u[q]
      BY <2>5, <3>1, <1>1, <1>5
    <3> HIDE DEF g, a, b, u
    <3>3. SubSeq(s, a, b) = SubSeq(u, a, b)
      BY ONLY <3>2, PartKept
    <3> QED BY <3>3 DEF a, b, u
  <2> QED BY <2>3, <2>6, <1>7 DEF SavedStack
<1>14. /\ Suspended(x, P, K) /\ Frame(x, P, 0, f, At(f), c, K) /\ Heap(x, K)
       /\ f \in 0 .. Len(x.stk) /\ Live(x, P, At(f)) = Live(m, P, At(f))
       /\ \A r \in Live(m, P, At(f)) : Id(x, r) = Id(m, r) /\ View(x, r).next = View(m, r).next
       /\ Id(x, At(f)) = Id(m, At(f))
       /\ Undisturbed(m, x, K) /\ Kont(x, c) = Kont(m, c)
  <2>1. /\ Machine(m, P, f, At(f), c, K, st) /\ x \in Memory /\ x.hcont = m.hcont /\ Len(x.henv) = Len(m.henv)
        /\ \A a \in 1 .. Len(m.henv) : x.henv[a].next = m.henv[a].next /\ x.henv[a].id = m.henv[a].id
    BY <1>7
  <2> QED BY ONLY <2>1, <1>8, <1>12, <1>13, ShapeKept
<1> DEFINE R == Live(m, P, At(f))
<1>15. At(f) \in R
  BY Refs DEF Live
<1>16. ASSUME NEW r \in R, r # At(f) PROVE View(x, r) = View(m, r)
  <2>1. IsLive(m, r)
    BY <1>1, LiveIs DEF Frame
  <2>2. CASE \E b \in 1 .. Len(m.henv) : r = In(b)
    <3>1. PICK b \in 1 .. Len(m.henv) : r = In(b)
      BY <2>2
    <3>2. Count(x, r) = Count(m, r)
      BY <3>1, <1>7, HeapEnvIs
    <3>3. ASSUME NEW k PROVE EnvVal(x, r, k) = EnvVal(m, r, k)
      <4>1. EnvVal(x, r, k) = x.henv[b].vars[k]
        BY <3>1, HeapEnvIs
      <4>2. EnvVal(m, r, k) = m.henv[b].vars[k]
        BY <3>1, HeapEnvIs
      <4> QED BY <4>1, <4>2, <1>7
    <3>4. Id(x, NextEnv(x, r)) = Id(m, NextEnv(m, r))
      BY <1>14 DEF View
    <3> QED BY <3>2, <3>3, <3>4 DEF View
  <2>3. CASE \E g \in Nat : r = At(g) /\ StackEnv(m, g)
    <3>1. PICK g \in Nat : r = At(g) /\ StackEnv(m, g)
      BY <2>3
    <3> QED BY <3>1, <1>10, <1>16 DEF Same
  <2> QED BY <2>1, <2>2, <2>3 DEF IsLive
<1>17. View(x, At(f)) = [vars |-> [View(m, At(f)).vars EXCEPT ![i] = v], next |-> View(m, At(f)).next]
  <2>1. View(m, At(f)).vars = [k \in 1 .. l |-> EnvVal(m, At(f), k)]
    BY ViewVars, <1>1
  <2>2. View(x, At(f)).vars = [k \in 1 .. l |-> EnvVal(x, At(f), k)]
    BY <1>7, <1>11, ViewVars
  <2>3. ASSUME NEW k \in 1 .. l
        PROVE  EnvVal(x, At(f), k) = IF k = i THEN v ELSE EnvVal(m, At(f), k)
    <3> DEFINE q == f - l - 1 + k
    <3>1. EnvVal(x, At(f), k) = x.stk[f - x.stk[f].count - 1 + k]
      BY StackEnvIs
    <3>2. EnvVal(m, At(f), k) = m.stk[q]
      BY StackEnvIs
    <3>3. EnvVal(x, At(f), k) = s[q]
      BY <3>1, <1>7, <1>11
    <3>4. q \in 1 .. n /\ (q = p <=> k = i)
      BY <1>1, <1>2, <1>3, SMTT(30)
    <3> HIDE DEF q
    <3> QED BY <3>2, <3>3, <3>4, <1>5
  <2>4. [View(m, At(f)).vars EXCEPT ![i] = v] = [k \in 1 .. l |-> IF k = i THEN v ELSE EnvVal(m, At(f), k)]
    BY <2>1
  <2>5. View(x, At(f)).vars = [View(m, At(f)).vars EXCEPT ![i] = v]
    BY <2>2, <2>3, <2>4
  <2>6. View(x, At(f)).next = View(m, At(f)).next
    BY <1>14, <1>15
  <2>7. View(x, At(f)) = [vars |-> View(x, At(f)).vars, next |-> View(x, At(f)).next]
    BY DEF View
  <2> QED BY <2>5, <2>6, <2>7
<1> DEFINE w == Written(st, Id(m, At(f)), i, v)
<1>18. w \in EnvSeq /\ Represents(x, R, w)
  <2> HIDE DEF R
  <2>1. \A q \in R : Id(x, q) = Id(m, q)
    BY <1>14 DEF R
  <2>2. \A q \in R \ {At(f)} : View(x, q) = View(m, q)
    BY <1>16
  <2>3. Represents(m, R, st)
    BY <1>1 DEF R
  <2> QED BY <2>1, <2>2, <2>3, <1>15, <1>17, WrittenRepresents
<1>19. Temps(x.stk, f) = Temps(m.stk, f)
  <2>1. ASSUME NEW q \in f + 1 .. n PROVE s[q] = m.stk[q]
    <3>1. q \in 1 .. n /\ q # p
      BY <1>1, <1>2, <1>4
    <3> QED BY <3>1, <1>5
  <2>2. f + 1 \in Nat \ {0}
    BY <1>1, <1>2
  <2>3. SubSeq(s, f + 1, n) = SubSeq(m.stk, f + 1, n)
    <3>1. /\ s \in Seq(Slot) /\ m.stk \in Seq(Slot) /\ n \in Nat
          /\ n <= Len(s) /\ n <= Len(m.stk)
      BY <1>1, <1>5
    <3> QED BY ONLY <2>1, <2>2, <3>1, PartKept
  <2> QED BY <2>3, <1>5, <1>7 DEF Temps
<1> QED BY <1>7, <1>8, <1>14, <1>18, <1>19 DEF Machine

(***************************************************************************)
(* icls: the running frame's environment goes to the heap.                 *)
(***************************************************************************)
LEMMA EnvToHeapStep ==
  ASSUME NEW m, NEW P, NEW f, NEW e, NEW K, NEW st, Machine(m, P, f, e, conr, K, st),
         NEW y, y = Env2Heap(m, e)
  PROVE  /\ Machine(y.m, P, f, y.env, conr, K, st) /\ Undisturbed(m, y.m, K)
         /\ y.env \in EnvRefs(y.m) /\ Id(y.m, y.env) = Id(m, e) /\ Kont(y.m, conr) = Kont(m, conr)
         /\ Temps(y.m.stk, f) = Temps(m.stk, f) /\ Len(y.m.stk) = Len(m.stk) /\ y.m.hcont = m.hcont
         /\ \A i \in 1 .. Len(P) : FrameOf(y.m, At(P[i])) = FrameOf(m, At(P[i]))
<1>1. /\ m \in Memory /\ Suspended(m, P, K) /\ Frame(m, P, 0, f, e, conr, K) /\ Heap(m, K)
      /\ m.stk \in Seq(Slot) /\ Len(m.stk) \in Nat /\ f \in 0 .. Len(m.stk) /\ K \in Nat
      /\ DOMAIN m.henv = 1 .. Len(m.henv) /\ Len(m.hcont) \in Nat
  BY MemoryFacts DEF Machine, Heap
<1>2. CASE e \in EnvRefs(m)
  <2>1. ~OnStack(e)
    BY <1>1, <1>2, EnvRefCases
  <2>2. y.m = m /\ y.env = e
    BY <2>1 DEF Env2Heap
  <2> QED BY <2>2, <1>2 DEF Undisturbed, HeapStays
<1>3. CASE e = At(f) /\ StackEnv(m, f)
  <2>1. y.env = In(Len(m.henv) + 1) /\ EnvMoved(m, y.m, P, f)
    BY <1>1, <1>3, Env2HeapMoves DEF Frame
  <2> DEFINE x == y.m
  <2>2. At(f) \in Live(m, P, e)
    BY <1>3, Refs DEF Live
  <2>3. /\ Machine(x, P, f, Copy(m, f, e), conr, K, st)
        /\ \A r \in Live(m, P, e) : Same(m, r, x, Copy(m, f, r))
        /\ \A i \in 1 .. Len(P) : FrameOf(x, At(P[i])) = FrameOf(m, At(P[i]))
        /\ \A l \in Nat \ {0}, n \in Nat :
             n <= Len(m.stk) => Mark(SubSeq(x.stk, l, n)) = Mark(SubSeq(m.stk, l, n))
    BY <1>3, <2>1, <2>2, EnvMovedKeeps
  <2>4. Copy(m, f, e) = y.env
    BY <1>3, <2>1 DEF Copy
  <2>5. /\ EnvRefs(x) = EnvRefs(m) \cup {y.env}
        /\ \A r \in EnvRefs(m) : Id(x, r) = Id(m, r)
    BY <1>1, <1>3, <2>1, MovedEnvs
  <2>6. x \in Memory /\ x.hcont = m.hcont /\ Len(x.stk) = Len(m.stk)
        /\ \A i \in 1 .. Len(P) : x.stk[P[i]].conr = m.stk[P[i]].conr
    BY <2>1 DEF EnvMoved
  <2>7. HeapStays(m, x, K)
    BY <2>5, <2>6 DEF HeapStays
  <2>8. Suspended(x, P, K) /\ Heap(x, K)
    BY <2>3 DEF Machine
  <2>9. Kont(x, conr) = Kont(m, conr)
    BY <1>1, <2>3, <2>6, <2>7, <2>8, RegisterKontKept DEF Frame
  <2>10. \A h \in ContRefs(K) : Kont(x, h) = Kont(m, h)
    BY <1>1, <2>6, <2>7, <2>8, HeapKontKept
  <2>11. Id(x, y.env) = Id(m, e)
    BY <2>2, <2>3, <2>4, <1>3 DEF Same
  <2>12. Temps(x.stk, f) = Temps(m.stk, f)
    <3>1. f + 1 \in Nat \ {0}
      BY <1>1
    <3> QED BY <3>1, <1>1, <2>3, <2>6 DEF Temps
  <2> QED BY <2>3, <2>4, <2>5, <2>6, <2>7, <2>9, <2>10, <2>11, <2>12 DEF Undisturbed
<1> QED BY <1>1, <1>2, <1>3 DEF Frame, FrameEnv

(***************************************************************************)
(* ccc: the frames of P become the continuations K + 1 .. K + n.           *)
(***************************************************************************)
Copies(K, j, n) == [i \in 1 .. n + 1 - j |-> In(K + j + i - 1)]

LEMMA CopiesChain ==
  ASSUME NEW m, NEW K \in Nat, NEW n \in Nat, NEW b, NEW t \in Seq(ContRefs(K)), IsChain(m, b, t),
         \A j \in 1 .. n : m.hcont[K + j].conr = IF j = n THEN b ELSE In(K + j + 1),
         NEW j \in 1 .. n + 1
  PROVE  LET u == Copies(K, j, n) \o t
         IN  /\ u \in Seq(ContRefs(K + n)) /\ IsChain(m, IF j = n + 1 THEN b ELSE In(K + j), u)
             /\ Len(u) = n + 1 - j + Len(t)
             /\ \A i \in 1 .. n + 1 - j : u[i] = In(K + j + i - 1)
             /\ \A i \in n + 2 - j .. n + 1 - j + Len(t) : u[i] = t[i - (n + 1 - j)]
<1> DEFINE C == Copies(K, j, n)
           u == C \o t
           c == IF j = n + 1 THEN b ELSE In(K + j)
<1>1. PICK l \in Nat : l = n + 1 - j
  OBVIOUS
<1>2. PICK k \in Nat : k = Len(t)
  OBVIOUS
<1>3. C = [i \in 1 .. l |-> In(K + j + i - 1)]
  BY <1>1 DEF Copies
<1>4. \A i \in 1 .. l : In(K + j + i - 1) \in ContRefs(K + n)
  <2> SUFFICES ASSUME NEW i \in 1 .. l PROVE In(K + j + i - 1) \in ContRefs(K + n)
    OBVIOUS
  <2> DEFINE q == K + j + i - 1
  <2>1. q \in 1 .. K + n
    BY <1>1
  <2> HIDE DEF q
  <2>2. In(q) \in ContRefs(K + n)
    BY <2>1 DEF ContRefs
  <2> QED BY <2>2 DEF q
<1>5. C \in Seq(ContRefs(K + n)) /\ Len(C) = l
  <2>1. C \in [1 .. l -> ContRefs(K + n)]
    BY <1>3, <1>4
  <2> QED BY <2>1
<1>6. ContRefs(K) \subseteq ContRefs(K + n)
  BY DEF ContRefs
<1>7. t \in Seq(ContRefs(K + n)) /\ DOMAIN t = 1 .. k
  BY <1>2, <1>6
<1> HIDE DEF C
<1>8. /\ u \in Seq(ContRefs(K + n)) /\ Len(u) = l + k
      /\ \A i \in 1 .. l : u[i] = C[i]
      /\ \A i \in l + 1 .. l + k : u[i] = t[i - l]
  <2> DEFINE S == ContRefs(K + n)
  <2>1. C \in Seq(S) /\ t \in Seq(S) /\ S \cup S = S
    BY <1>5, <1>7
  <2> HIDE DEF S
  <2>2. /\ u \in Seq(S) /\ Len(u) = Len(C) + Len(t)
        /\ \A i \in 1 .. Len(C) : u[i] = C[i]
        /\ \A i \in Len(C) + 1 .. Len(C) + Len(t) : u[i] = t[i - Len(C)]
    <3>1. C \o t \in Seq(S \cup S)
      BY <2>1, Joined
    <3>2. /\ Len(C \o t) = Len(C) + Len(t)
          /\ \A i \in 1 .. Len(C) : (C \o t)[i] = C[i]
          /\ \A i \in Len(C) + 1 .. Len(C) + Len(t) : (C \o t)[i] = t[i - Len(C)]
      BY <2>1, Joined
    <3> QED BY <2>1, <3>1, <3>2
  <2> QED BY <2>2, <1>2, <1>5 DEF S
<1> HIDE DEF u
<1>9. \A i \in 1 .. l : u[i] = In(K + j + i - 1)
  BY <1>3, <1>8
<1>10. t # <<>> => t[1] = b
  BY DEF IsChain
<1>11. t = <<>> => b = Nil
  BY DEF IsChain
<1>12. k > 0 => t # <<>> /\ u[l + 1] = b
  <2> SUFFICES ASSUME k > 0 PROVE t # <<>> /\ u[l + 1] = b
    OBVIOUS
  <2>1. t # <<>>
    BY <1>2
  <2>2. l + 1 \in l + 1 .. l + k /\ l + 1 - l = 1
    OBVIOUS
  <2> QED BY <2>1, <2>2, <1>8, <1>10
<1>13. k = 0 => b = Nil
  <2>1. k = 0 => t = <<>>
    BY <1>2, <1>7
  <2> QED BY <2>1, <1>11
<1>14. c = IF u = <<>> THEN Nil ELSE u[1]
  <2>1. u = <<>> <=> l + k = 0
    BY <1>8
  <2>2. CASE l = 0
    <3>1. c = b /\ (u = <<>> <=> k = 0)
      BY <2>1, <2>2, <1>1
    <3>2. CASE k = 0
      BY <3>1, <3>2, <1>13
    <3>3. CASE k > 0
      BY <3>1, <3>3, <2>2, <1>12
    <3> QED BY <3>2, <3>3
  <2>3. CASE l > 0
    <3>1. c = In(K + j) /\ u # <<>> /\ 1 \in 1 .. l
      BY <2>1, <2>3, <1>1
    <3>2. u[1] = In(K + j + 1 - 1) /\ K + j + 1 - 1 = K + j
      BY <3>1, <1>9
    <3> QED BY <3>1, <3>2
  <2> QED BY <2>2, <2>3
<1>15. ASSUME NEW i \in 1 .. l + k
       PROVE  u[i] # Nil /\ NextCont(m, u[i]) = IF i = l + k THEN Nil ELSE u[i + 1]
  <2>1. CASE i \in 1 .. l
    <3> DEFINE q == j + i - 1
    <3>1. q \in 1 .. n /\ K + j + i - 1 = K + q /\ K + q + 1 = K + j + (i + 1) - 1 /\ (q = n <=> i = l)
      BY <2>1, <1>1
    <3> HIDE DEF q
    <3>2. u[i] = In(K + q)
      BY <2>1, <3>1, <1>9
    <3>3. u[i] # Nil /\ NextCont(m, u[i]) = m.hcont[K + q].conr
      BY <3>2, Refs DEF NextCont
    <3>4. CASE i = l
      <4>1. NextCont(m, u[i]) = b
        BY <3>1, <3>3, <3>4
      <4>2. CASE k = 0
        BY <4>1, <4>2, <3>3, <3>4, <1>13
      <4>3. CASE k > 0
        BY <4>1, <4>3, <3>3, <3>4, <1>12
      <4> QED BY <4>2, <4>3
    <3>5. CASE i < l
      <4>1. i + 1 \in 1 .. l /\ i # l + k
        BY <3>5, <2>1
      <4>2. u[i + 1] = In(K + q + 1)
        BY <4>1, <3>1, <1>9
      <4>3. m.hcont[K + q].conr = In(K + q + 1)
        <5>1. q # n
          BY <3>1, <3>5
        <5> QED BY <5>1, <3>1
      <4> QED BY <4>1, <4>2, <4>3, <3>3
    <3> QED BY <3>4, <3>5, <2>1
  <2>2. CASE i \in l + 1 .. l + k
    <3> DEFINE q == i - l
    <3>1. q \in 1 .. k /\ (q = k <=> i = l + k) /\ u[i] = t[q] /\ q = i - l
      BY <2>2, <1>8
    <3>2. i # l + k => u[i + 1] = t[q + 1]
      <4>1. i # l + k => i + 1 \in l + 1 .. l + k /\ i + 1 - l = q + 1
        BY <2>2
      <4> QED BY <4>1, <1>8
    <3> HIDE DEF q
    <3>3. t[q] # Nil /\ NextCont(m, t[q]) = IF q = k THEN Nil ELSE t[q + 1]
      BY <3>1, <1>2 DEF IsChain
    <3> QED BY <3>1, <3>2, <3>3
  <2> QED BY <2>1, <2>2
<1>16. IsChain(m, c, u)
  BY <1>8, <1>14, <1>15 DEF IsChain
<1>17. /\ Len(u) = n + 1 - j + Len(t)
       /\ \A i \in 1 .. n + 1 - j : u[i] = In(K + j + i - 1)
       /\ \A i \in n + 2 - j .. n + 1 - j + Len(t) : u[i] = t[i - (n + 1 - j)]
  <2>1. n + 2 - j = l + 1 /\ n + 1 - j = l
    BY <1>1
  <2> QED BY <2>1, <1>2, <1>8, <1>9
<1> QED BY <1>8, <1>16, <1>17 DEF u, C

LEMMA CaptureStep ==
  ASSUME NEW m, m = Now, NEW P, NEW K, K = Len(hcont), Machine(m, P, fn, envr, conr, K, store),
         \A j \in 1 .. Len(P) : P[j] <= fn,
         NEW y, y = Env2Heap(Cont2Heap, envr), NEW n, n = Len(P), NEW c, c = MovedConr
  PROVE  /\ Machine(y.m, <<>>, fn, y.env, c, K + n, store) /\ Undisturbed(m, y.m, K)
         /\ y.env \in EnvRefs(y.m) /\ Id(y.m, y.env) = Id(m, envr) /\ Kont(y.m, c) = Kont(m, conr)
         /\ c \in ContRefs(K + n) /\ (conr # Nil => c # Nil)
         /\ Temps(y.m.stk, fn) = Temps(m.stk, fn) /\ Len(y.m.stk) = Len(m.stk)
         /\ Len(y.m.hcont) = K + n /\ n \in Nat
<1> DEFINE z == Cont2Heap
           x == y.m
<1>1. /\ m \in Memory /\ Suspended(m, P, K) /\ Frame(m, P, 0, fn, envr, conr, K) /\ Heap(m, K)
      /\ Linked(P, 0, conr, K) /\ P \in Seq(Nat) /\ n \in Nat
      /\ m.stk \in Seq(Slot) /\ Len(m.stk) \in Nat /\ fn \in 0 .. Len(m.stk) /\ K \in Nat
  BY MemoryFacts DEF Machine, Heap, Frame, Suspended
<1>2. ContsMoved(m, z, P, fn, envr, K, store, n)
  BY Cont2HeapMoves
<1>3. /\ Machine(z, P, fn, envr, conr, K, store)
      /\ Len(z.stk) = Len(m.stk) /\ Len(z.hcont) = K + n
      /\ \A j \in 1 .. K : z.hcont[j] = m.hcont[j]
      /\ \A r \in EnvRefs(m) : r \in EnvRefs(z) /\ Id(z, r) = Id(m, r)
      /\ Id(z, envr) = Id(m, envr)
      /\ \A j \in 1 .. n : FrameOf(z, At(P[j])) = FrameOf(m, At(P[j]))
      /\ \A j \in 1 .. n :
           /\ z.hcont[K + j].env \in EnvRefs(z)
           /\ z.hcont[K + j].conr = IF j = n THEN m.stk[P[j]].conr ELSE In(K + j + 1)
           /\ FrameOf(z, In(K + j)) = FrameOf(m, At(P[j]))
      /\ \A l \in Nat \ {0}, k \in Nat :
           k <= Len(m.stk) => Mark(SubSeq(z.stk, l, k)) = Mark(SubSeq(m.stk, l, k))
  BY <1>2 DEF ContsMoved
<1> HIDE DEF z
<1>4. /\ Machine(x, P, fn, y.env, conr, K, store) /\ Undisturbed(z, x, K)
      /\ y.env \in EnvRefs(x) /\ Id(x, y.env) = Id(z, envr)
      /\ Temps(x.stk, fn) = Temps(z.stk, fn) /\ Len(x.stk) = Len(z.stk) /\ x.hcont = z.hcont
  BY <1>3, EnvToHeapStep DEF z
<1> HIDE DEF x
<1>5. x \in Memory /\ Suspended(x, P, K) /\ Frame(x, P, 0, fn, y.env, conr, K) /\ Heap(x, K)
      /\ fn \in 0 .. Len(x.stk) /\ Represents(x, Live(x, P, y.env), store)
  BY <1>4 DEF Machine
<1>6. HeapStays(m, x, K)
  BY <1>3, <1>4 DEF Undisturbed, HeapStays
<1>7. \A h \in ContRefs(K) : Kont(x, h) = Kont(m, h)
  BY <1>1, <1>5, <1>6, HeapKontKept
<1>8. \A r \in EnvRefs(z) : r \in EnvRefs(x) /\ Id(x, r) = Id(z, r)
  BY <1>4 DEF Undisturbed, HeapStays
(* The chain of the register, before and after. *)
<1> DEFINE b == Base(m, P, conr)
<1>9. PICK t \in Seq(ContRefs(K)) :
        /\ IsChain(m, b, t) /\ Len(t) <= K
        /\ OnStackPart(P) \o t \in Seq(Ref) /\ IsChain(m, conr, OnStackPart(P) \o t)
        /\ Len(OnStackPart(P) \o t) <= Most(m)
  BY <1>1, RegisterIsChained
<1>10. IsChain(x, b, t)
  <2>1. \A k \in 1 .. K : x.hcont[k].conr = m.hcont[k].conr
    BY <1>6 DEF HeapStays
  <2> QED BY <2>1, <1>9, ChainKept
<1>11. b \in ContRefs(K)
  BY <1>1, RegisterIsChained
<1>12. \A j \in 1 .. n : x.hcont[K + j].conr = IF j = n THEN b ELSE In(K + j + 1)
  <2> SUFFICES ASSUME NEW j \in 1 .. n PROVE x.hcont[K + j].conr = IF j = n THEN b ELSE In(K + j + 1)
    OBVIOUS
  <2>1. b = m.stk[P[n]].conr
    <3>1. P # <<>>
      BY <1>1
    <3> QED BY <3>1 DEF Base
  <2> QED BY <2>1, <1>3, <1>4
<1> HIDE DEF b
<1>13. ASSUME NEW j \in 1 .. n + 1
       PROVE  LET u == Copies(K, j, n) \o t
              IN  /\ u \in Seq(ContRefs(K + n)) /\ IsChain(x, IF j = n + 1 THEN b ELSE In(K + j), u)
                  /\ Len(u) = n + 1 - j + Len(t)
                  /\ \A i \in 1 .. n + 1 - j : u[i] = In(K + j + i - 1)
                  /\ \A i \in n + 2 - j .. n + 1 - j + Len(t) : u[i] = t[i - (n + 1 - j)]
  <2>1. K \in Nat /\ n \in Nat /\ t \in Seq(ContRefs(K)) /\ IsChain(x, b, t) /\ j \in 1 .. n + 1
    BY <1>1, <1>9, <1>10, <1>13
  <2> QED BY ONLY <2>1, <1>12, CopiesChain
<1>14. PICK k \in Nat : k = Len(t)
  BY <1>9
<1>15. k <= K
  BY <1>9, <1>14
(* The heap. *)
<1>16. Heap(x, K + n)
  <2>1. \A a \in 1 .. Len(x.henv) : x.henv[a].next \in EnvRefs(x)
    BY <1>5 DEF Heap
  <2>2. K + n \in 0 .. Len(x.hcont)
    BY <1>1, <1>3, <1>4
  <2>3. ASSUME NEW h \in 1 .. K PROVE x.hcont[h].env \in EnvRefs(x) /\ HeapChain(x, h, K + n)
    <3>1. x.hcont[h].env \in EnvRefs(x) /\ HeapChain(x, h, K)
      BY <1>5 DEF Heap
    <3>2. PICK s \in Seq(ContRefs(K)) : IsChain(x, In(h), s) /\ Len(s) <= K
      BY <3>1 DEF HeapChain
    <3>3. ContRefs(K) \subseteq ContRefs(K + n)
      BY <1>1 DEF ContRefs
    <3>4. s \in Seq(ContRefs(K + n)) /\ Len(s) <= K + n
      BY <3>2, <3>3, <1>1
    <3> QED BY <3>1, <3>2, <3>4 DEF HeapChain
  <2>4. ASSUME NEW h \in 1 .. K + n, ~(h \in 1 .. K)
        PROVE  x.hcont[h].env \in EnvRefs(x) /\ HeapChain(x, h, K + n)
    <3> DEFINE j == h - K
    <3>1. j \in 1 .. n /\ h = K + j /\ j \in 1 .. n + 1 /\ j # n + 1
      BY <2>4, <1>1
    <3> HIDE DEF j
    <3>2. x.hcont[h].env \in EnvRefs(x)
      BY <3>1, <1>3, <1>4, <1>8
    <3> DEFINE u == Copies(K, j, n) \o t
    <3>3. u \in Seq(ContRefs(K + n)) /\ IsChain(x, In(h), u) /\ Len(u) = n + 1 - j + k
      BY <3>1, <1>13, <1>14
    <3>4. Len(u) <= K + n
      BY <3>1, <3>3, <1>1, <1>14, <1>15
    <3> QED BY <3>2, <3>3, <3>4 DEF HeapChain
  <2> QED BY <2>1, <2>2, <2>3, <2>4 DEF Heap
(* The register. *)
<1>17. c = (IF 1 = n + 1 THEN b ELSE In(K + 1)) /\ c \in ContRefs(K + n) /\ (conr # Nil => c # Nil)
  <2>1. CASE n = 0
    <3>1. P = <<>>
      <4>1. Len(P) = 0
        BY <2>1
      <4>2. P \in Seq(Nat)
        BY <1>1
      <4> QED BY ONLY <4>1, <4>2
    <3>2. b = conr
      BY <3>1 DEF b, Base
    <3>3. ~OnStack(conr)
      BY <3>2, <1>1, <1>11, Refs DEF ContRefs
    <3>4. c = conr
      BY <3>3 DEF MovedConr
    <3> QED BY <2>1, <3>2, <3>4, <1>1, <1>11
  <2>2. CASE n # 0
    <3>1. conr = At(P[1])
      BY <2>2, <1>1 DEF Linked
    <3>2. c = In(K + 1)
      BY <3>1, Refs DEF MovedConr
    <3>3. K + 1 \in 1 .. K + n /\ 1 # n + 1
      BY <2>2, <1>1
    <3> QED BY <3>2, <3>3, Refs DEF ContRefs
  <2> QED BY <2>1, <2>2
<1> DEFINE s == OnStackPart(P) \o t
           u == Copies(K, 1, n) \o t
<1>18. /\ u \in Seq(ContRefs(K + n)) /\ IsChain(x, c, u) /\ Len(u) = n + k
       /\ \A i \in 1 .. n : u[i] = In(K + i)
       /\ \A i \in n + 1 .. n + k : u[i] = t[i - n]
  <2>1. 1 \in 1 .. n + 1
    BY <1>1
  <2>2. /\ u \in Seq(ContRefs(K + n)) /\ IsChain(x, c, u) /\ Len(u) = n + 1 - 1 + k
        /\ \A i \in 1 .. n + 1 - 1 : u[i] = In(K + 1 + i - 1)
        /\ \A i \in n + 2 - 1 .. n + 1 - 1 + k : u[i] = t[i - (n + 1 - 1)]
    BY <2>1, <1>13, <1>14, <1>17
  <2>3. n + 1 - 1 = n /\ n + 2 - 1 = n + 1 /\ \A i \in 1 .. n : K + 1 + i - 1 = K + i
    BY <1>1
  <2>4. \A i \in 1 .. n : u[i] = In(K + i)
    BY <2>2, <2>3
  <2> QED BY <2>2, <2>3, <2>4
<1>19. /\ Len(s) = n + k /\ \A i \in 1 .. n : s[i] = At(P[i])
       /\ \A i \in n + 1 .. n + k : s[i] = t[i - n]
       /\ s \in Seq(Ref) /\ IsChain(m, conr, s) /\ Len(s) <= Most(m)
  <2>1. /\ Len(s) = Len(P) + Len(t)
        /\ \A i \in 1 .. Len(P) : s[i] = At(P[i])
        /\ \A i \in Len(P) + 1 .. Len(P) + Len(t) : s[i] = t[i - Len(P)]
    <3> DEFINE S == ContRefs(K)
    <3>1. P \in Seq(Nat) /\ t \in Seq(S) /\ s = OnStackPart(P) \o t
      BY <1>1, <1>9
    <3> HIDE DEF s, S
    <3> QED BY ONLY <3>1, RegisterParts
  <2> QED BY <2>1, <1>9, <1>14
<1> HIDE DEF s, u
<1>20. Len(u) <= Most(x)
  <2>1. Most(x) = Len(x.stk) + Len(x.hcont)
    BY DEF Most
  <2>2. Len(x.stk) \in Nat /\ Len(x.hcont) = K + n
    BY <1>1, <1>3, <1>4
  <2>3. PICK a \in Nat : a = Len(x.stk)
    BY <2>2
  <2>4. Most(x) = a + (K + n)
    BY <2>1, <2>2, <2>3
  <2>5. Len(u) = n + k
    BY <1>18
  <2> QED BY <2>4, <2>5, <1>1, <1>15
<1>21. ASSUME NEW i \in 1 .. n + k PROVE FrameOf(x, u[i]) = FrameOf(m, s[i])
  <2>1. CASE i \in 1 .. n
    <3>1. z.hcont[K + i].env \in EnvRefs(z)
      BY <2>1, <1>3
    <3>2. FrameOf(x, In(K + i)) = FrameOf(z, In(K + i))
      BY <3>1, <1>4, <1>8, FrameIs
    <3> QED BY <2>1, <3>2, <1>3, <1>18, <1>19
  <2>2. CASE i \in n + 1 .. n + k
    <3> DEFINE r == t[i - n]
    <3>1. i - n \in 1 .. k
      <4>1. n \in Nat /\ k \in Nat
        BY <1>1, <1>14
      <4> QED BY ONLY <4>1, <2>2
    <3>2. r \in ContRefs(K) /\ r # Nil
      <4>1. t \in Seq(ContRefs(K)) /\ Len(t) = k /\ \A j \in 1 .. Len(t) : t[j] # Nil
        BY <1>9, <1>14 DEF IsChain
      <4>2. PICK j \in 1 .. Len(t) : j = i - n
        BY <3>1, <4>1
      <4> QED BY <4>1, <4>2
    <3>3. FrameOf(x, r) = FrameOf(m, r)
      BY <3>2, <1>1, <1>6, HeapFrameKept
    <3> QED BY <2>2, <3>3, <1>18, <1>19
  <2> QED BY <2>1, <2>2, <1>1
<1>22. Kont(x, c) = Kont(m, conr)
  <2> DEFINE R == ContRefs(K + n)
  <2>1. /\ m \in Memory /\ s \in Seq(Ref) /\ IsChain(m, conr, s) /\ Len(s) <= Most(m)
        /\ x \in Memory /\ u \in Seq(R) /\ IsChain(x, c, u) /\ Len(u) <= Most(x)
        /\ Len(s) = Len(u) /\ \A i \in 1 .. Len(s) : FrameOf(x, u[i]) = FrameOf(m, s[i])
    BY <1>1, <1>5, <1>18, <1>19, <1>20, <1>21
  <2> HIDE DEF R
  <2> QED BY ONLY <2>1, KontEqual
(* The rest. *)
<1>23. Suspended(x, <<>>, K + n) /\ Frame(x, <<>>, 0, fn, y.env, c, K + n)
  <2>1. FrameEnv(x, fn, y.env)
    BY <1>5 DEF Frame
  <2>2. Linked(<<>>, 0, c, K + n)
    BY <1>17 DEF Linked
  <2>3. Nested(x, <<>>, 0, fn)
    BY DEF Nested
  <2> QED BY <2>1, <2>2, <2>3 DEF Suspended, Frame
<1>24. Represents(x, Live(x, <<>>, y.env), store)
  <2>1. StackEnvs(x, <<>>) = {}
    BY DEF StackEnvs
  <2>2. Live(x, <<>>, y.env) \subseteq Live(x, P, y.env)
    BY <2>1 DEF Live
  <2> QED BY <2>2, <1>5 DEF Represents
<1>25. Machine(x, <<>>, fn, y.env, c, K + n, store)
  BY <1>5, <1>16, <1>23, <1>24 DEF Machine
<1>26. Id(x, y.env) = Id(m, envr)
  BY <1>3, <1>4
<1>27. Temps(x.stk, fn) = Temps(m.stk, fn)
  <2>1. fn + 1 \in Nat \ {0}
    BY <1>1
  <2>2. Temps(z.stk, fn) = Temps(m.stk, fn)
    BY <2>1, <1>1, <1>3 DEF Temps
  <2> QED BY <2>2, <1>4
<1> QED BY <1>1, <1>3, <1>4, <1>6, <1>7, <1>17, <1>22, <1>25, <1>26, <1>27 DEF Undisturbed, x

-----------------------------------------------------------------------------
(* What the program refers to and what it sees through it.                 *)
Ids(m, C)   == {Id(m, e) : e \in C}
Konts(m, H) == {Kont(m, c) : c \in H}

LEMMA SeenKept ==
  ASSUME NEW m, NEW x, NEW K, Undisturbed(m, x, K),
         NEW C \in SUBSET EnvRefs(m), NEW H \in SUBSET ContRefs(K)
  PROVE  /\ C \in SUBSET EnvRefs(x)
         /\ Ids(x, C) = Ids(m, C)
         /\ Konts(x, H) = Konts(m, H)
<1>1. \A e \in C : e \in EnvRefs(x) /\ Id(x, e) = Id(m, e)
  BY DEF Undisturbed, HeapStays
<1>2. \A c \in H : Kont(x, c) = Kont(m, c)
  BY DEF Undisturbed
<1>3. Ids(x, C) = Ids(m, C)
  BY <1>1 DEF Ids
<1>4. Konts(x, H) = Konts(m, H)
  BY <1>2 DEF Konts
<1> QED BY <1>1, <1>3, <1>4

LEMMA LiveEnvIs ==
  ASSUME NEW m, NEW P, NEW f, NEW e, NEW c, NEW K, NEW st \in EnvSeq, Machine(m, P, f, e, c, K, st),
         NEW r \in Live(m, P, e)
  PROVE  /\ Id(m, r) # 0 /\ st[Id(m, r)].next = Id(m, NextEnv(m, r))
         /\ NextEnv(m, r) \in EnvRefs(m)
         /\ DOMAIN st[Id(m, r)].vars = 1 .. Count(m, r)
         /\ \A i \in 1 .. Count(m, r) :
              st[Id(m, r)].vars[i] = EnvVal(m, r, i) /\ EnvVal(m, r, i) \in Val
<1>1. Id(m, r) \in DOMAIN st /\ st[Id(m, r)] = View(m, r)
  BY DEF Machine, Represents
<1>2. Id(m, r) # 0 /\ st[Id(m, r)] \in [vars : Seq(Val), next : Nat]
  <2> DEFINE S == [vars : Seq(Val), next : Nat]
  <2>1. st \in Seq(S)
    BY DEF EnvSeq
  <2> HIDE DEF S
  <2>2. Id(m, r) # 0 /\ st[Id(m, r)] \in S
    BY <1>1, <2>1
  <2> QED BY <2>2 DEF S
<1>3. /\ st[Id(m, r)].next = Id(m, NextEnv(m, r))
      /\ st[Id(m, r)].vars = [i \in 1 .. Count(m, r) |-> EnvVal(m, r, i)]
  BY <1>1 DEF View
<1>4. NextEnv(m, r) \in EnvRefs(m)
  <2>1. IsLive(m, r)
    BY LiveIs DEF Machine, Frame
  <2>2. CASE \E a \in 1 .. Len(m.henv) : r = In(a)
    <3>1. PICK a \in 1 .. Len(m.henv) : r = In(a)
      BY <2>2
    <3> QED BY <3>1, HeapEnvIs DEF Machine, Heap
  <2>3. CASE \E g \in Nat : r = At(g) /\ StackEnv(m, g)
    <3>1. PICK g \in Nat : r = At(g) /\ StackEnv(m, g)
      BY <2>3
    <3> QED BY <3>1, StackEnvIs DEF StackEnv
  <2> QED BY <2>1, <2>2, <2>3 DEF IsLive
<1>5. DOMAIN st[Id(m, r)].vars = 1 .. Count(m, r)
  BY <1>3
<1>6. \A i \in 1 .. Count(m, r) : st[Id(m, r)].vars[i] = EnvVal(m, r, i)
  BY <1>3
<1>7. \A i \in DOMAIN st[Id(m, r)].vars : st[Id(m, r)].vars[i] \in Val
  <2> DEFINE u == st[Id(m, r)].vars
  <2>1. u \in Seq(Val)
    BY <1>2
  <2> HIDE DEF u
  <2>2. \A i \in DOMAIN u : u[i] \in Val
    BY <2>1
  <2> QED BY <2>2 DEF u
<1> QED BY <1>2, <1>3, <1>4, <1>5, <1>6, <1>7

-----------------------------------------------------------------------------
(***************************************************************************)
(* The inductive invariant: the stack is made of frames, everything else   *)
(* the program holds is on the heap, and each environment is what the      *)
(* program takes it for.                                                   *)
(***************************************************************************)
Sound(m, P, f, e, c, st, C, H) ==
  /\ Machine(m, P, f, e, c, Len(m.hcont), st) /\ st \in EnvSeq
  /\ C \in SUBSET EnvRefs(m)
  /\ H \in SUBSET {In(k) : k \in 1 .. Len(m.hcont)}
  /\ Len(m.stk) <= StackSize
SoundWith(P) == Sound(Now, P, fn, envr, conr, store, clos, caught)
IInv == \E P : SoundWith(P)

LEMMA SoundFacts ==
  ASSUME NEW m, NEW P, NEW f, NEW e, NEW c, NEW st, NEW C, NEW H, Sound(m, P, f, e, c, st, C, H)
  PROVE  /\ m \in Memory /\ m.stk \in Seq(Slot) /\ Len(m.stk) \in Nat /\ f \in 0 .. Len(m.stk) /\ f \in Nat
         /\ Len(m.hcont) \in Nat /\ H \in SUBSET ContRefs(Len(m.hcont))
<1>1. m \in Memory /\ f \in 0 .. Len(m.stk)
  BY DEF Sound, Machine
<1>2. m.stk \in Seq(Slot) /\ Len(m.stk) \in Nat /\ Len(m.hcont) \in Nat
  BY <1>1, MemoryFacts
<1>3. H \in SUBSET ContRefs(Len(m.hcont))
  BY DEF Sound, ContRefs
<1> QED BY <1>1, <1>2, <1>3

(* A step that leaves alone what the program holds but for the running     *)
(* frame.                                                                  *)
LEMMA SoundStep ==
  ASSUME NEW m, NEW P, NEW f, NEW e, NEW c, NEW st, NEW C, NEW H, Sound(m, P, f, e, c, st, C, H),
         NEW x, Undisturbed(m, x, Len(m.hcont)), x.hcont = m.hcont,
         NEW Q, NEW g, NEW d, NEW b, NEW w, Machine(x, Q, g, d, b, Len(m.hcont), w), w \in EnvSeq,
         Len(x.stk) <= StackSize
  PROVE  /\ Sound(x, Q, g, d, b, w, C, H)
         /\ Ids(x, C) = Ids(m, C)
         /\ Konts(x, H) = Konts(m, H)
<1>1. C \in SUBSET EnvRefs(m) /\ H \in SUBSET ContRefs(Len(m.hcont))
  BY SoundFacts DEF Sound
<1>2. /\ C \in SUBSET EnvRefs(x)
      /\ Ids(x, C) = Ids(m, C)
      /\ Konts(x, H) = Konts(m, H)
  <2> DEFINE K == Len(m.hcont)
  <2>1. Undisturbed(m, x, K) /\ C \in SUBSET EnvRefs(m) /\ H \in SUBSET ContRefs(K)
    BY <1>1
  <2> HIDE DEF K
  <2> QED BY ONLY <2>1, SeenKept
<1> QED BY <1>2 DEF Sound

Memories(m, x) == m = Now /\ x = Now'
LEMMA MemoriesAre ==
  ASSUME NEW m, NEW x, Memories(m, x)
  PROVE  /\ m.stk = stk /\ m.henv = henv /\ m.hcont = hcont
         /\ x.stk = stk' /\ x.henv = henv' /\ x.hcont = hcont'
         /\ x = [stk |-> stk', henv |-> henv', hcont |-> hcont']
BY DEF Memories, Now

LEMMA PushKeeps ==
  ASSUME IInv, NEW v \in Val, Push(v)
  PROVE  IInv' /\ Program!Push(v)
<1>1. PICK P : SoundWith(P)
  BY DEF IInv
<1>2. PICK m, x : Memories(m, x)
  BY DEF Memories
<1>3. /\ m.stk = stk /\ m.hcont = hcont /\ x.stk = stk' /\ x.hcont = hcont'
      /\ Restacked(m, Append(m.stk, v), x)
  BY <1>2, MemoriesAre DEF Push, Restacked
<1>4. Sound(m, P, fn, envr, conr, store, clos, caught)
  BY <1>1, <1>2 DEF SoundWith, Memories
<1>5. /\ Machine(x, P, fn, envr, conr, Len(m.hcont), store) /\ Undisturbed(m, x, Len(m.hcont))
      /\ Id(x, envr) = Id(m, envr) /\ Kont(x, conr) = Kont(m, conr)
      /\ Temps(x.stk, fn) = Append(Temps(m.stk, fn), v)
  BY <1>3, <1>4, PushStep DEF Sound
<1>6. Len(x.stk) <= StackSize /\ x.hcont = m.hcont
  BY <1>3, <1>4, SoundFacts DEF Push, Room
<1>7. /\ Sound(x, P, fn, envr, conr, store, clos, caught)
      /\ Ids(x, clos) = Ids(m, clos)
      /\ Konts(x, caught) = Konts(m, caught)
  <2>1. /\ Sound(m, P, fn, envr, conr, store, clos, caught)
        /\ Undisturbed(m, x, Len(m.hcont)) /\ x.hcont = m.hcont
        /\ Machine(x, P, fn, envr, conr, Len(m.hcont), store)
    BY <1>4, <1>5, <1>6
  <2>2. store \in EnvSeq /\ Len(x.stk) <= StackSize
    BY <1>4, <1>6 DEF Sound
  <2> QED BY ONLY <2>1, <2>2, SoundStep
<1>8. IInv'
  <2>1. SoundWith(P)'
    BY <1>2, <1>7 DEF SoundWith, Memories, Push
  <2> QED BY <2>1 DEF IInv
<1>9. Program!Push(v)
  <2>1. Mark(SubSeq(stk, fn + 1, Len(stk)))' = Append(Mark(SubSeq(stk, fn + 1, Len(stk))), v)
    BY <1>3, <1>5 DEF Temps, Push
  <2>2. Id(Now, envr)' = Id(Now, envr) /\ Kont(Now, conr)' = Kont(Now, conr)
    BY <1>2, <1>5 DEF Memories, Push
  <2>3. {Id(Now, e) : e \in clos}' = {Id(Now, e) : e \in clos}
    BY <1>2, <1>7 DEF Memories, Ids, Konts, Push
  <2>4. {Kont(Now, c) : c \in caught}' = {Kont(Now, c) : c \in caught}
    BY <1>2, <1>7 DEF Memories, Ids, Konts, Push
  <2> QED BY <2>1, <2>2, <2>3, <2>4 DEF Program!Push, Push
<1> QED BY <1>8, <1>9

LEMMA DropKeeps ==
  ASSUME IInv, Drop
  PROVE  IInv' /\ Program!Drop
<1>1. PICK P : SoundWith(P)
  BY DEF IInv
<1>2. PICK m, x : Memories(m, x)
  BY DEF Memories
<1>3. /\ m.stk = stk /\ m.hcont = hcont /\ x.stk = stk' /\ x.hcont = hcont'
      /\ Restacked(m, Front(m.stk), x)
  BY <1>2, MemoriesAre DEF Drop, Restacked
<1>4. Sound(m, P, fn, envr, conr, store, clos, caught)
  BY <1>1, <1>2 DEF SoundWith, Memories
<1>5. /\ Machine(x, P, fn, envr, conr, Len(m.hcont), store) /\ Undisturbed(m, x, Len(m.hcont))
      /\ Id(x, envr) = Id(m, envr) /\ Kont(x, conr) = Kont(m, conr)
      /\ Temps(m.stk, fn) # <<>>
      /\ Temps(x.stk, fn) = SubSeq(Temps(m.stk, fn), 1, Len(Temps(m.stk, fn)) - 1)
      /\ Len(x.stk) <= Len(m.stk)
  <2>1. /\ Machine(m, P, fn, envr, conr, Len(m.hcont), store)
        /\ fn < Len(m.stk) /\ IsValue(Last(m.stk))
    BY <1>3, <1>4, SoundFacts DEF Sound, Drop
  <2> QED BY ONLY <2>1, <1>3, DropStep
<1>6. Len(x.stk) <= StackSize /\ x.hcont = m.hcont
  <2>1. Len(m.stk) <= StackSize /\ Len(m.stk) \in Nat
    BY <1>4, SoundFacts DEF Sound
  <2>2. x \in Memory
    BY <1>5 DEF Machine
  <2>3. Len(x.stk) \in Nat
    BY <2>2, MemoryFacts
  <2> QED BY <2>1, <2>3, <1>3, <1>5, StackAssumption DEF Drop
<1>7. /\ Sound(x, P, fn, envr, conr, store, clos, caught)
      /\ Ids(x, clos) = Ids(m, clos)
      /\ Konts(x, caught) = Konts(m, caught)
  <2>1. /\ Sound(m, P, fn, envr, conr, store, clos, caught)
        /\ Undisturbed(m, x, Len(m.hcont)) /\ x.hcont = m.hcont
        /\ Machine(x, P, fn, envr, conr, Len(m.hcont), store)
    BY <1>4, <1>5, <1>6
  <2>2. store \in EnvSeq /\ Len(x.stk) <= StackSize
    BY <1>4, <1>6 DEF Sound
  <2> QED BY ONLY <2>1, <2>2, SoundStep
<1>8. IInv'
  <2>1. SoundWith(P)'
    BY <1>2, <1>7 DEF SoundWith, Memories, Drop
  <2> QED BY <2>1 DEF IInv
<1>9. Program!Drop
  <2> DEFINE t == Mark(SubSeq(stk, fn + 1, Len(stk)))
  <2>1. t # <<>> /\ t' = SubSeq(t, 1, Len(t) - 1)
    BY <1>3, <1>5 DEF Temps, Drop
  <2>2. Id(Now, envr)' = Id(Now, envr) /\ Kont(Now, conr)' = Kont(Now, conr)
    BY <1>2, <1>5 DEF Memories, Drop
  <2>3. {Id(Now, e) : e \in clos}' = {Id(Now, e) : e \in clos}
    BY <1>2, <1>7 DEF Memories, Ids, Konts, Drop
  <2>4. {Kont(Now, c) : c \in caught}' = {Kont(Now, c) : c \in caught}
    BY <1>2, <1>7 DEF Memories, Ids, Konts, Drop
  <2> QED BY <2>1, <2>2, <2>3, <2>4 DEF Program!Drop, Drop
<1> QED BY <1>8, <1>9

(* The environment an instruction names is one the program sees. *)
LEMMA VisibleIs ==
  ASSUME NEW P, NEW m, m = Now, Sound(m, P, fn, envr, conr, store, clos, caught),
         NEW d \in 0 .. 1, NEW i, Visible(d, i)
  PROVE  LET e == Outer(d)
         IN  /\ e \in Live(m, P, envr) /\ (e = envr \/ e \in EnvRefs(m))
             /\ i \in 1 .. Count(m, e)
             /\ Id(m, envr) # 0 /\ Program!Outer(d) = Id(m, e) /\ Id(m, e) # 0
             /\ i \in DOMAIN store[Id(m, e)].vars
             /\ store[Id(m, e)].vars[i] = EnvVal(m, e, i) /\ EnvVal(m, e, i) \in Val
<1> DEFINE e == Outer(d)
<1>1. /\ Machine(m, P, fn, envr, conr, Len(m.hcont), store) /\ store \in EnvSeq
      /\ envr # Nil /\ e # Nil /\ i \in 1 .. Count(m, e)
  BY DEF Sound, Visible
<1>2. envr \in Live(m, P, envr)
  BY <1>1 DEF Live
<1>3. /\ Id(m, envr) # 0 /\ store[Id(m, envr)].next = Id(m, NextEnv(m, envr))
      /\ NextEnv(m, envr) \in EnvRefs(m)
  BY ONLY <1>1, <1>2, LiveEnvIs
<1>4. e = IF d = 0 THEN envr ELSE NextEnv(m, envr)
  BY DEF Outer
<1>5. e = envr \/ e \in EnvRefs(m)
  BY <1>3, <1>4
<1>6. e \in Live(m, P, envr)
  BY <1>1, <1>2, <1>5 DEF Live
<1>7. Program!Outer(d) = Id(m, e)
  BY <1>3, <1>4 DEF Program!Outer
<1> HIDE DEF e
<1>8. /\ Id(m, e) # 0 /\ DOMAIN store[Id(m, e)].vars = 1 .. Count(m, e)
      /\ \A k \in 1 .. Count(m, e) :
           store[Id(m, e)].vars[k] = EnvVal(m, e, k) /\ EnvVal(m, e, k) \in Val
  BY ONLY <1>1, <1>6, LiveEnvIs
<1> QED BY <1>1, <1>3, <1>5, <1>6, <1>7, <1>8 DEF e

LEMMA LoadKeeps ==
  ASSUME IInv, NEW d \in 0 .. 1, NEW i, Load(d, i)
  PROVE  IInv' /\ Program!Load(d, i)
<1>1. PICK P : SoundWith(P)
  BY DEF IInv
<1>2. PICK m : m = Now
  OBVIOUS
<1>3. Sound(m, P, fn, envr, conr, store, clos, caught)
  BY <1>1, <1>2 DEF SoundWith
<1> DEFINE e == Outer(d)
           v == EnvVal(Now, e, i)
<1>4. Visible(d, i) /\ Push(v)
  BY DEF Load
<1>5. /\ Id(m, envr) # 0 /\ Program!Outer(d) = Id(m, e) /\ Id(m, e) # 0
      /\ i \in DOMAIN store[Id(m, e)].vars
      /\ store[Id(m, e)].vars[i] = EnvVal(m, e, i) /\ EnvVal(m, e, i) \in Val
  BY <1>2, <1>3, <1>4, VisibleIs
<1>6. IInv' /\ Program!Push(v)
  BY <1>2, <1>4, <1>5, PushKeeps
<1>7. Id(Now, envr) # 0 /\ Program!Outer(d) # 0 /\ i \in DOMAIN store[Program!Outer(d)].vars
      /\ store[Program!Outer(d)].vars[i] = v
  BY <1>2, <1>5
<1>8. Program!Push(store[Program!Outer(d)].vars[i])
  BY <1>6, <1>7 DEF Program!Push
<1> QED BY <1>6, <1>7, <1>8 DEF Program!Load

LEMMA AssignKeeps ==
  ASSUME IInv, NEW d \in 0 .. 1, NEW i, NEW v \in Value, Assign(d, i, v)
  PROVE  IInv' /\ Program!Assign(d, i, v)
<1>1. PICK P : SoundWith(P)
  BY DEF IInv
<1>2. PICK m, x : Memories(m, x)
  BY DEF Memories
<1>3. /\ m.stk = stk /\ m.henv = henv /\ m.hcont = hcont
      /\ x.stk = stk' /\ x.henv = henv' /\ x.hcont = hcont'
      /\ x = [stk |-> stk', henv |-> henv', hcont |-> hcont']
  BY <1>2, MemoriesAre
<1>4. Sound(m, P, fn, envr, conr, store, clos, caught)
  BY <1>1, <1>2 DEF SoundWith, Memories
<1> DEFINE e == Outer(d)
           K == Len(m.hcont)
           w == Written(store, Id(m, e), i, v)
<1>5. Visible(d, i) /\ hcont' = hcont /\ m = Now /\ v \in Val
  BY <1>2 DEF Assign, Memories, Val
<1>6. /\ e \in Live(m, P, envr) /\ (e = envr \/ e \in EnvRefs(m))
      /\ i \in 1 .. Count(m, e)
      /\ Id(m, envr) # 0 /\ Program!Outer(d) = Id(m, e) /\ Id(m, e) # 0
      /\ i \in DOMAIN store[Id(m, e)].vars
  BY <1>4, <1>5, VisibleIs
<1>7. /\ Machine(m, P, fn, envr, conr, K, store) /\ store \in EnvSeq /\ DOMAIN m.henv = 1 .. Len(m.henv)
      /\ Len(m.stk) <= StackSize /\ Len(m.stk) \in Nat
  BY <1>4, SoundFacts, MemoryFacts DEF Sound
<1>8. /\ Machine(x, P, fn, envr, conr, K, w) /\ w \in EnvSeq /\ Undisturbed(m, x, K)
      /\ Id(x, envr) = Id(m, envr) /\ Kont(x, conr) = Kont(m, conr)
      /\ Temps(x.stk, fn) = Temps(m.stk, fn) /\ Len(x.stk) = Len(m.stk)
  <2>1. CASE e \in EnvRefs(m)
    <3>1. e # Nil /\ ~OnStack(e)
      <4>1. e # Nil
        BY <1>5 DEF Visible
      <4> QED BY <4>1, <2>1, <1>7, EnvRefCases
    <3>2. PICK a \in 1 .. Len(m.henv) : e = In(a)
      BY <2>1, <3>1, <1>7, EnvRefCases
    <3>3. InHeap(e) /\ e[2] = a
      BY <3>2, Refs
    <3>4. stk' = stk /\ henv' = [henv EXCEPT ![a].vars[i] = v]
      BY <3>1, <3>3 DEF Assign
    <3>5. HeapWritten(m, a, i, v, x)
      BY <3>4, <1>3, <1>5 DEF HeapWritten
    <3>6. i \in 1 .. Count(m, In(a)) /\ w = Written(store, Id(m, In(a)), i, v)
      BY <3>2, <1>6
    <3> HIDE DEF w, K, e
    <3>7. /\ Machine(x, P, fn, envr, conr, K, w) /\ w \in EnvSeq /\ Undisturbed(m, x, K)
          /\ Id(x, envr) = Id(m, envr) /\ Kont(x, conr) = Kont(m, conr) /\ x.stk = m.stk
      BY ONLY <1>5, <1>7, <3>5, <3>6, AssignHeapStep
    <3> QED BY <3>7
  <2>2. CASE e \notin EnvRefs(m)
    <3>1. e = envr
      BY <2>2, <1>6
    <3>2. envr = At(fn) /\ StackEnv(m, fn)
      BY <3>1, <2>2, <1>7 DEF Machine, Frame, FrameEnv
    <3>3. OnStack(e) /\ ~InHeap(e)
      BY <3>1, <3>2, Refs
    <3>4. henv' = henv /\ stk' = [stk EXCEPT ![SlotOf(Now, e, i)] = v]
      BY <3>3 DEF Assign
    <3>5. Restacked(m, [m.stk EXCEPT ![SlotOf(m, At(fn), i)] = v], x)
      BY <3>1, <3>2, <3>4, <1>3, <1>5 DEF Restacked
    <3>6. /\ i \in 1 .. Count(m, At(fn)) /\ w = Written(store, Id(m, At(fn)), i, v)
          /\ Machine(m, P, fn, At(fn), conr, K, store)
      BY <3>1, <3>2, <1>6, <1>7
    <3> HIDE DEF w, K, e
    <3>7. /\ Machine(x, P, fn, At(fn), conr, K, w) /\ w \in EnvSeq /\ Undisturbed(m, x, K)
          /\ Id(x, At(fn)) = Id(m, At(fn)) /\ Kont(x, conr) = Kont(m, conr)
          /\ Temps(x.stk, fn) = Temps(m.stk, fn) /\ Len(x.stk) = Len(m.stk)
      BY ONLY <1>5, <1>7, <3>2, <3>5, <3>6, AssignStackStep
    <3> QED BY <3>2, <3>7
  <2> QED BY <2>1, <2>2
<1>9. /\ Sound(x, P, fn, envr, conr, w, clos, caught)
      /\ Ids(x, clos) = Ids(m, clos)
      /\ Konts(x, caught) = Konts(m, caught)
  <2>1. Len(x.stk) <= StackSize /\ x.hcont = m.hcont
    BY <1>3, <1>5, <1>7, <1>8
  <2>2. Machine(x, P, fn, envr, conr, Len(m.hcont), w) /\ w \in EnvSeq /\ Undisturbed(m, x, Len(m.hcont))
    BY <1>8
  <2> HIDE DEF w
  <2> QED BY ONLY <2>1, <2>2, <1>4, SoundStep
<1>10. store' = w
  BY <1>5 DEF Assign, Written
<1>11. IInv'
  <2> HIDE DEF w
  <2>1. SoundWith(P)'
    BY <1>2, <1>9, <1>10 DEF SoundWith, Memories, Assign
  <2> QED BY <2>1 DEF IInv
<1>12. Program!Assign(d, i, v)
  <2>1. Mark(SubSeq(stk, fn + 1, Len(stk)))' = Mark(SubSeq(stk, fn + 1, Len(stk)))
    BY <1>3, <1>8 DEF Temps, Assign
  <2>2. Id(Now, envr)' = Id(Now, envr) /\ Kont(Now, conr)' = Kont(Now, conr)
    BY <1>2, <1>8 DEF Memories, Assign
  <2>3. {Id(Now, q) : q \in clos}' = {Id(Now, q) : q \in clos}
    BY <1>2, <1>9 DEF Memories, Ids, Assign
  <2>4. {Kont(Now, c) : c \in caught}' = {Kont(Now, c) : c \in caught}
    BY <1>2, <1>9 DEF Memories, Konts, Assign
  <2>5. /\ Id(Now, envr) # 0 /\ Program!Outer(d) # 0
        /\ i \in DOMAIN store[Program!Outer(d)].vars
        /\ store' = [store EXCEPT ![Program!Outer(d)].vars[i] = v]
    BY <1>5, <1>6, <1>10 DEF Written
  <2> QED BY <2>1, <2>2, <2>3, <2>4, <2>5 DEF Program!Assign
<1> QED BY <1>11, <1>12

LEMMA SuspendKeeps ==
  ASSUME IInv, Suspend
  PROVE  IInv' /\ Program!Suspend
<1>1. PICK P : SoundWith(P)
  BY DEF IInv
<1>2. PICK m, x : Memories(m, x)
  BY DEF Memories
<1> DEFINE K == Len(m.hcont)
           p == Len(m.stk) + 1
           Q == Cons(p, P)
<1>3. /\ m.stk = stk /\ m.hcont = hcont /\ x.stk = stk' /\ x.hcont = hcont'
      /\ Restacked(m, Append(m.stk, ContSlot), x) /\ ContSlot = [fn |-> fn, env |-> envr, conr |-> conr]
      /\ conr' = At(p)
  BY <1>2, MemoriesAre DEF Suspend, Restacked, ContSlot
<1>4. Sound(m, P, fn, envr, conr, store, clos, caught)
  BY <1>1, <1>2 DEF SoundWith, Memories
<1>5. Machine(m, P, fn, envr, conr, K, store) /\ store \in EnvSeq
  BY <1>4 DEF Sound
<1>6. /\ Machine(x, Q, fn, envr, At(p), K, store) /\ Undisturbed(m, x, K)
      /\ Id(x, envr) = Id(m, envr)
      /\ Kont(x, At(p)) = Cons(Running(m, fn, envr), Kont(m, conr))
      /\ Temps(x.stk, fn) = Append(Temps(m.stk, fn), "call")
  <2>1. PICK k : k = ContSlot
    OBVIOUS
  <2>2. Suspends(k, fn, envr, conr) /\ Restacked(m, Append(m.stk, k), x)
    BY <2>1, <1>3 DEF Suspends
  <2>3. /\ Machine(x, Cons(Len(m.stk) + 1, P), fn, envr, At(Len(m.stk) + 1), Len(m.hcont), store)
        /\ Undisturbed(m, x, Len(m.hcont))
        /\ Id(x, envr) = Id(m, envr)
        /\ Kont(x, At(Len(m.stk) + 1)) = Cons(Running(m, fn, envr), Kont(m, conr))
        /\ Temps(x.stk, fn) = Append(Temps(m.stk, fn), "call")
    BY ONLY <2>2, <1>5, SuspendStep
  <2> QED BY <2>3
<1>7. Len(x.stk) <= StackSize /\ x.hcont = m.hcont
  BY <1>3, <1>4, SoundFacts DEF Suspend, Room
<1> HIDE DEF Q, p
<1>8. /\ Sound(x, Q, fn, envr, At(p), store, clos, caught)
      /\ Ids(x, clos) = Ids(m, clos)
      /\ Konts(x, caught) = Konts(m, caught)
  BY ONLY <1>4, <1>5, <1>6, <1>7, SoundStep
<1>9. IInv'
  <2>1. SoundWith(Q)'
    BY <1>2, <1>3, <1>8 DEF SoundWith, Memories, Suspend
  <2> QED BY <2>1 DEF IInv
<1>10. Program!Suspend
  <2> DEFINE t == Mark(SubSeq(stk, fn + 1, Len(stk)))
  <2>1. t' = Append(t, "call")
    BY <1>3, <1>6 DEF Temps, Suspend
  <2>2. /\ Id(Now, envr)' = Id(Now, envr)
        /\ Kont(Now, conr)' = <<[env |-> Id(Now, envr), temps |-> t]>> \o Kont(Now, conr)
    BY <1>2, <1>3, <1>6 DEF Memories, Temps, Suspend, Running, Cons
  <2>3. {Id(Now, e) : e \in clos}' = {Id(Now, e) : e \in clos}
    BY <1>2, <1>8 DEF Memories, Ids, Suspend
  <2>4. {Kont(Now, c) : c \in caught}' = {Kont(Now, c) : c \in caught}
    BY <1>2, <1>8 DEF Memories, Konts, Suspend
  <2> QED BY <2>1, <2>2, <2>3, <2>4 DEF Program!Suspend, Suspend
<1> QED BY <1>9, <1>10

(* What a return and a throw have in common: q is the continuation that    *)
(* goes on.                                                                *)
GoesOn(q) ==
  /\ q # <<>>
  /\ Id(Now, envr)' = Head(q).env
  /\ Mark(SubSeq(stk, fn + 1, Len(stk)))' = Head(q).temps
  /\ Kont(Now, conr)' = Tail(q)
  /\ {Id(Now, e) : e \in clos}' = {Id(Now, e) : e \in clos}
  /\ {Kont(Now, c) : c \in caught}' = {Kont(Now, c) : c \in caught}

LEMMA RestoreStackKeeps ==
  ASSUME IInv, OnStack(conr), RestoreStack(stk, conr[2]), UNCHANGED <<henv, hcont, clos, caught, store>>
  PROVE  IInv' /\ GoesOn(Kont(Now, conr))
<1>1. PICK P : SoundWith(P)
  BY DEF IInv
<1>2. PICK m, x : Memories(m, x)
  BY DEF Memories
<1> DEFINE K == Len(m.hcont)
           k == m.stk[conr[2]]
           Q == Tail(P)
<1>3. /\ m.stk = stk /\ m.hcont = hcont /\ x.stk = stk' /\ x.hcont = hcont'
      /\ Restacked(m, SubSeq(m.stk, 1, conr[2] - 1), x)
      /\ fn' = k.fn /\ envr' = k.env /\ conr' = k.conr
  BY <1>2, MemoriesAre DEF RestoreStack, Restacked
<1>4. Sound(m, P, fn, envr, conr, store, clos, caught)
  BY <1>1, <1>2 DEF SoundWith, Memories
<1>5. Machine(m, P, fn, envr, conr, K, store) /\ store \in EnvSeq
      /\ Len(m.stk) <= StackSize /\ Len(m.stk) \in Nat
  BY <1>4, SoundFacts DEF Sound
<1>6. /\ Machine(x, Q, k.fn, k.env, k.conr, K, store) /\ Undisturbed(m, x, K)
      /\ Kont(m, conr) # <<>>
      /\ Id(x, k.env) = Head(Kont(m, conr)).env
      /\ Temps(x.stk, k.fn) = Head(Kont(m, conr)).temps
      /\ Kont(x, k.conr) = Tail(Kont(m, conr))
      /\ Len(x.stk) <= Len(m.stk)
  BY <1>3, <1>5, ReturnStep
<1>7. Len(x.stk) <= StackSize /\ x.hcont = m.hcont
  <2>1. x \in Memory
    BY <1>6 DEF Machine
  <2>2. Len(x.stk) \in Nat
    BY <2>1, MemoryFacts
  <2> QED BY <2>2, <1>3, <1>5, <1>6, StackAssumption
<1>8. /\ Sound(x, Q, fn', envr', conr', store, clos, caught)
      /\ Ids(x, clos) = Ids(m, clos)
      /\ Konts(x, caught) = Konts(m, caught)
  <2> HIDE DEF Q, k
  <2>1. /\ Sound(x, Q, k.fn, k.env, k.conr, store, clos, caught)
        /\ Ids(x, clos) = Ids(m, clos)
        /\ Konts(x, caught) = Konts(m, caught)
    BY ONLY <1>4, <1>5, <1>6, <1>7, SoundStep
  <2> QED BY <2>1, <1>3
<1> HIDE DEF Q
<1>9. IInv'
  <2>1. SoundWith(Q)'
    BY <1>2, <1>8 DEF SoundWith, Memories
  <2> QED BY <2>1 DEF IInv
<1>10. GoesOn(Kont(Now, conr))
  <2>1. /\ Kont(Now, conr) # <<>>
        /\ Id(Now, envr)' = Head(Kont(Now, conr)).env
        /\ Kont(Now, conr)' = Tail(Kont(Now, conr))
    BY <1>2, <1>3, <1>6 DEF Memories
  <2>2. Mark(SubSeq(stk, fn + 1, Len(stk)))' = Head(Kont(Now, conr)).temps
    <3>1. Temps(stk', fn') = Head(Kont(Now, conr)).temps
      BY <1>2, <1>3, <1>6 DEF Memories
    <3> QED BY <3>1 DEF Temps
  <2>3. {Id(Now, e) : e \in clos}' = {Id(Now, e) : e \in clos}
    BY <1>2, <1>8 DEF Memories, Ids
  <2>4. {Kont(Now, c) : c \in caught}' = {Kont(Now, c) : c \in caught}
    BY <1>2, <1>8 DEF Memories, Konts
  <2> QED BY <2>1, <2>2, <2>3, <2>4 DEF GoesOn
<1> QED BY <1>9, <1>10

LEMMA RestoreHeapKeeps ==
  ASSUME IInv, NEW k \in 1 .. Len(hcont), RestoreHeap(stk, k), UNCHANGED <<henv, hcont, clos, caught, store>>
  PROVE  IInv' /\ GoesOn(Kont(Now, In(k)))
<1>1. PICK P : SoundWith(P)
  BY DEF IInv
<1>2. PICK m, x : Memories(m, x)
  BY DEF Memories
<1> DEFINE K == Len(m.hcont)
           h == m.hcont[k]
<1>3. /\ m.stk = stk /\ m.hcont = hcont /\ x.stk = stk' /\ x.hcont = hcont'
      /\ Restacked(m, m.stk \o m.hcont[k].stk, x)
      /\ fn' = Len(m.stk) /\ envr' = h.env /\ conr' = h.conr
      /\ Len(m.stk) + Len(h.stk) <= StackSize /\ k \in 1 .. K
  BY <1>2, MemoriesAre DEF RestoreHeap, Restacked
<1>4. Sound(m, P, fn, envr, conr, store, clos, caught)
  BY <1>1, <1>2 DEF SoundWith, Memories
<1>5. Machine(m, P, fn, envr, conr, K, store) /\ store \in EnvSeq
  BY <1>4 DEF Sound
<1>6. /\ Machine(x, <<>>, Len(m.stk), h.env, h.conr, K, store) /\ Undisturbed(m, x, K)
      /\ Kont(m, In(k)) # <<>>
      /\ Id(x, h.env) = Head(Kont(m, In(k))).env
      /\ Temps(x.stk, Len(m.stk)) = Head(Kont(m, In(k))).temps
      /\ Kont(x, h.conr) = Tail(Kont(m, In(k)))
      /\ Len(x.stk) = Len(m.stk) + Len(h.stk)
  <2>1. k \in 1 .. K /\ Resumed(m, k, x) /\ Machine(m, P, fn, envr, conr, K, store)
    BY <1>3, <1>5 DEF Resumed
  <2> DEFINE None == <<>>
  <2>2. None = <<>>
    OBVIOUS
  <2> HIDE DEF K, None
  <2>3. /\ Machine(x, None, Len(m.stk), h.env, h.conr, K, store) /\ Undisturbed(m, x, K)
        /\ Kont(m, In(k)) # <<>>
        /\ Id(x, h.env) = Head(Kont(m, In(k))).env
        /\ Temps(x.stk, Len(m.stk)) = Head(Kont(m, In(k))).temps
        /\ Kont(x, h.conr) = Tail(Kont(m, In(k)))
        /\ Len(x.stk) = Len(m.stk) + Len(h.stk)
    <3>1. /\ Machine(x, None, Len(m.stk), h.env, h.conr, K, store) /\ Undisturbed(m, x, K)
          /\ Resumes(x, Kont(m, In(k)), Len(m.stk), h.env, h.conr)
          /\ Longer(x.stk, m.stk, h.stk)
      BY ONLY <2>1, <2>2, ResumeStep
    <3> QED BY <3>1 DEF Resumes, Longer
  <2> QED BY <2>2, <2>3
<1>7. Len(x.stk) <= StackSize /\ x.hcont = m.hcont
  BY <1>3, <1>6
<1>8. /\ Sound(x, <<>>, fn', envr', conr', store, clos, caught)
      /\ Ids(x, clos) = Ids(m, clos)
      /\ Konts(x, caught) = Konts(m, caught)
  <2> DEFINE Q == <<>>
             g == Len(m.stk)
  <2>1. Machine(x, Q, g, h.env, h.conr, Len(m.hcont), store) /\ Undisturbed(m, x, Len(m.hcont))
    BY <1>6
  <2>2. g = fn' /\ h.env = envr' /\ h.conr = conr'
    BY <1>3
  <2> HIDE DEF Q, h, g
  <2>3. /\ Sound(x, Q, g, h.env, h.conr, store, clos, caught)
        /\ Ids(x, clos) = Ids(m, clos)
        /\ Konts(x, caught) = Konts(m, caught)
    BY ONLY <1>4, <1>5, <1>7, <2>1, SoundStep
  <2> QED BY <2>2, <2>3 DEF Q
<1>9. IInv'
  <2>1. SoundWith(<<>>)'
    BY <1>2, <1>8 DEF SoundWith, Memories
  <2> QED BY <2>1 DEF IInv
<1>10. GoesOn(Kont(Now, In(k)))
  <2> DEFINE q == Kont(Now, In(k))
  <2>1. q # <<>> /\ Id(Now, envr)' = Head(q).env /\ Kont(Now, conr)' = Tail(q)
    BY <1>2, <1>3, <1>6 DEF Memories
  <2>2. Mark(SubSeq(stk, fn + 1, Len(stk)))' = Head(q).temps
    <3>1. Temps(stk', fn') = Head(q).temps
      BY <1>2, <1>3, <1>6 DEF Memories
    <3> QED BY <3>1 DEF Temps
  <2>3. {Id(Now, e) : e \in clos}' = {Id(Now, e) : e \in clos}
    BY <1>2, <1>8 DEF Memories, Ids
  <2>4. {Kont(Now, c) : c \in caught}' = {Kont(Now, c) : c \in caught}
    BY <1>2, <1>8 DEF Memories, Konts
  <2> QED BY <2>1, <2>2, <2>3, <2>4 DEF GoesOn
<1> QED BY <1>9, <1>10

LEMMA ReturnKeeps ==
  ASSUME IInv, Return
  PROVE  IInv' /\ Program!Return
<1>1. IInv' /\ GoesOn(Kont(Now, conr))
  <2>1. CASE OnStack(conr) /\ RestoreStack(stk, conr[2])
    BY <2>1, RestoreStackKeeps DEF Return
  <2>2. CASE InHeap(conr) /\ RestoreHeap(stk, conr[2])
    <3>1. PICK P : SoundWith(P)
      BY DEF IInv
    <3>2. Linked(P, 0, conr, Len(hcont))
      BY <3>1 DEF SoundWith, Sound, Machine, Frame, Now
    <3>3. conr \in ContRefs(Len(hcont)) /\ conr # Nil
      BY <2>2, <3>2, Refs DEF Linked, InHeap
    <3>4. PICK k \in 1 .. Len(hcont) : conr = In(k)
      BY <3>3 DEF ContRefs
    <3>5. RestoreHeap(stk, k)
      <4>1. conr[2] = k
        BY <3>4, Refs
      <4> QED BY <2>2, <4>1 DEF RestoreHeap
    <3>6. IInv' /\ GoesOn(Kont(Now, In(k)))
      BY <3>5, RestoreHeapKeeps DEF Return
    <3> QED BY <3>4, <3>6 DEF GoesOn
  <2> QED BY <2>1, <2>2 DEF Return
<1> QED BY <1>1 DEF GoesOn, Program!Return, Program!Resume, Return

LEMMA ThrowKeeps ==
  ASSUME IInv, Throw
  PROVE  IInv' /\ Program!Throw
<1>1. PICK P : SoundWith(P)
  BY DEF IInv
<1>2. PICK c \in caught : RestoreHeap(stk, c[2])
  BY DEF Throw
<1>3. PICK k \in 1 .. Len(hcont) : c = In(k)
  BY <1>1, <1>2 DEF SoundWith, Sound, Now
<1>4. RestoreHeap(stk, k)
  <2>1. c[2] = k
    BY <1>3, Refs
  <2> QED BY <1>2, <2>1 DEF RestoreHeap
<1>5. IInv' /\ GoesOn(Kont(Now, In(k)))
  BY <1>4, RestoreHeapKeeps DEF Throw
<1>6. Program!Throw
  <2> DEFINE q == Kont(Now, In(k))
  <2>1. q \in {Kont(Now, d) : d \in caught}
    BY <1>2, <1>3
  <2> QED BY <1>5, <2>1 DEF GoesOn, Program!Throw, Program!Resume, Throw
<1> QED BY <1>5, <1>6

LEMMA CloseKeeps ==
  ASSUME IInv, Close
  PROVE  IInv' /\ Program!Close
<1>1. PICK P : SoundWith(P)
  BY DEF IInv
<1>2. PICK m : m = Now
  OBVIOUS
<1>3. PICK y : y = Env2Heap(m, envr)
  OBVIOUS
<1> DEFINE x == y.m
           K == Len(m.hcont)
<1>4. Sound(m, P, fn, envr, conr, store, clos, caught)
  BY <1>1, <1>2 DEF SoundWith
<1>5. Machine(m, P, fn, envr, conr, K, store) /\ store \in EnvSeq
      /\ Len(m.stk) <= StackSize /\ Len(m.stk) \in Nat
  BY <1>4, SoundFacts DEF Sound
<1>6. /\ Machine(x, P, fn, y.env, conr, K, store) /\ Undisturbed(m, x, K)
      /\ y.env \in EnvRefs(x) /\ Id(x, y.env) = Id(m, envr) /\ Kont(x, conr) = Kont(m, conr)
      /\ Temps(x.stk, fn) = Temps(m.stk, fn) /\ Len(x.stk) = Len(m.stk) /\ x.hcont = m.hcont
  BY <1>3, <1>5, EnvToHeapStep
<1>7. stk' = x.stk /\ henv' = x.henv /\ hcont' = x.hcont /\ envr' = y.env /\ clos' = clos \cup {y.env}
  BY <1>2, <1>3 DEF Close, Become
<1>8. x = Now'
  <2>1. x \in Memory
    BY <1>6 DEF Machine
  <2>2. x = [stk |-> x.stk, henv |-> x.henv, hcont |-> x.hcont]
    BY <2>1 DEF Memory
  <2> QED BY <2>2, <1>7 DEF Now
<1> HIDE DEF x
<1>9. /\ Sound(x, P, fn, y.env, conr, store, clos, caught)
      /\ Ids(x, clos) = Ids(m, clos)
      /\ Konts(x, caught) = Konts(m, caught)
  <2>1. Len(x.stk) <= StackSize
    BY <1>5, <1>6
  <2> QED BY ONLY <2>1, <1>4, <1>5, <1>6, SoundStep
<1>10. Sound(x, P, fn, y.env, conr, store, clos', caught)
  <2>1. clos' \in SUBSET EnvRefs(x)
    BY <1>6, <1>7, <1>9 DEF Sound
  <2> QED BY <2>1, <1>9 DEF Sound
<1>11. IInv'
  <2>1. SoundWith(P)'
    BY <1>7, <1>8, <1>10 DEF SoundWith, Close
  <2> QED BY <2>1 DEF IInv
<1>12. Program!Close
  <2>1. Mark(SubSeq(stk, fn + 1, Len(stk)))' = Mark(SubSeq(stk, fn + 1, Len(stk)))
    <3>1. Temps(stk', fn) = Temps(stk, fn)
      BY <1>2, <1>6, <1>7 DEF Now
    <3> QED BY <3>1 DEF Temps, Close
  <2>2. Id(Now, envr)' = Id(Now, envr) /\ Kont(Now, conr)' = Kont(Now, conr)
    BY <1>2, <1>6, <1>7, <1>8 DEF Close
  <2>3. {Id(Now, e) : e \in clos}' = {Id(Now, e) : e \in clos} \cup {Id(Now, envr)}
    <3>1. Ids(x, clos') = Ids(x, clos) \cup {Id(x, y.env)}
      BY <1>7 DEF Ids
    <3>2. Ids(x, clos') = Ids(m, clos) \cup {Id(m, envr)}
      BY <3>1, <1>6, <1>9
    <3> QED BY <3>2, <1>2, <1>8 DEF Ids
  <2>4. {Kont(Now, c) : c \in caught}' = {Kont(Now, c) : c \in caught}
    BY <1>2, <1>8, <1>9 DEF Konts, Close
  <2> QED BY <2>1, <2>2, <2>3, <2>4 DEF Program!Close, Close
<1> QED BY <1>11, <1>12

LEMMA CaptureKeeps ==
  ASSUME IInv, Capture
  PROVE  IInv' /\ Program!Capture
<1>1. PICK P : SoundWith(P)
  BY DEF IInv
<1>2. PICK m : m = Now
  OBVIOUS
<1>3. PICK y : y = Env2Heap(Cont2Heap, envr)
  OBVIOUS
<1>4. PICK n, d : n = Len(P) /\ d = MovedConr
  OBVIOUS
<1>5. PICK K : K = Len(hcont)
  OBVIOUS
<1> DEFINE x == y.m
<1>6. Sound(m, P, fn, envr, conr, store, clos, caught)
  BY <1>1, <1>2 DEF SoundWith
<1>7. K = Len(m.hcont) /\ m.stk = stk
  BY <1>2, <1>5 DEF Now
<1>8. Machine(m, P, fn, envr, conr, K, store) /\ store \in EnvSeq
      /\ Len(m.stk) <= StackSize /\ Len(m.stk) \in Nat /\ K \in Nat
  BY <1>6, <1>7, SoundFacts DEF Sound
<1>9. \A j \in 1 .. Len(P) : P[j] <= fn
  <2>1. \A j \in 1 .. Len(P) : P[j] \in 1 .. Len(m.stk)
    BY <1>8 DEF Machine, Suspended
  <2> QED BY <2>1, <1>7 DEF Capture
<1>10. /\ Machine(x, <<>>, fn, y.env, d, K + n, store) /\ Undisturbed(m, x, K)
       /\ y.env \in EnvRefs(x) /\ Id(x, y.env) = Id(m, envr) /\ Kont(x, d) = Kont(m, conr)
       /\ d \in ContRefs(K + n) /\ (conr # Nil => d # Nil)
       /\ Temps(x.stk, fn) = Temps(m.stk, fn) /\ Len(x.stk) = Len(m.stk)
       /\ Len(x.hcont) = K + n /\ n \in Nat
  BY ONLY <1>2, <1>3, <1>4, <1>5, <1>8, <1>9, CaptureStep
<1>11. stk' = x.stk /\ henv' = x.henv /\ hcont' = x.hcont /\ envr' = y.env
       /\ conr' = d /\ caught' = caught \cup {d} /\ conr # Nil
  BY <1>3, <1>4 DEF Capture, Become
<1>12. x = Now'
  <2>1. x \in Memory
    BY <1>10 DEF Machine
  <2>2. x = [stk |-> x.stk, henv |-> x.henv, hcont |-> x.hcont]
    BY <2>1 DEF Memory
  <2> QED BY <2>2, <1>11 DEF Now
<1> HIDE DEF x
<1>13. /\ clos \in SUBSET EnvRefs(x)
       /\ Ids(x, clos) = Ids(m, clos)
       /\ Konts(x, caught) = Konts(m, caught)
  <2>1. clos \in SUBSET EnvRefs(m) /\ caught \in SUBSET ContRefs(K)
    BY <1>6, <1>7, SoundFacts DEF Sound
  <2>2. Undisturbed(m, x, K)
    BY <1>10
  <2> QED BY ONLY <2>1, <2>2, SeenKept
<1>14. caught' \in SUBSET {In(k) : k \in 1 .. Len(x.hcont)}
  <2>1. d \in {In(k) : k \in 1 .. K + n}
    BY <1>10, <1>11 DEF ContRefs
  <2>2. caught \in SUBSET {In(k) : k \in 1 .. K}
    BY <1>6, <1>7 DEF Sound
  <2>3. 1 .. K \subseteq 1 .. K + n
    BY <1>8, <1>10
  <2>4. {In(k) : k \in 1 .. K} \subseteq {In(k) : k \in 1 .. K + n}
    BY <2>3
  <2> QED BY <2>1, <2>2, <2>4, <1>10, <1>11
<1>15. Sound(x, <<>>, fn, y.env, d, store, clos, caught')
  BY <1>8, <1>10, <1>13, <1>14 DEF Sound
<1>16. IInv'
  <2>1. SoundWith(<<>>)'
    BY <1>11, <1>12, <1>15 DEF SoundWith, Capture
  <2> QED BY <2>1 DEF IInv
<1>17. Program!Capture
  <2>1. Mark(SubSeq(stk, fn + 1, Len(stk)))' = Mark(SubSeq(stk, fn + 1, Len(stk)))
    <3>1. Temps(stk', fn) = Temps(stk, fn)
      BY <1>7, <1>10, <1>11
    <3> QED BY <3>1 DEF Temps, Capture
  <2>2. Id(Now, envr)' = Id(Now, envr) /\ Kont(Now, conr)' = Kont(Now, conr)
    BY <1>2, <1>10, <1>11, <1>12
  <2>3. {Id(Now, e) : e \in clos}' = {Id(Now, e) : e \in clos}
    BY <1>2, <1>12, <1>13 DEF Ids, Capture
  <2>4. {Kont(Now, c) : c \in caught}' = {Kont(Now, c) : c \in caught} \cup {Kont(Now, conr)}
    <3>1. Konts(x, caught') = Konts(x, caught) \cup {Kont(x, d)}
      BY <1>11 DEF Konts
    <3>2. Konts(x, caught') = Konts(m, caught) \cup {Kont(m, conr)}
      BY <3>1, <1>10, <1>13
    <3> QED BY <3>2, <1>2, <1>12 DEF Konts
  <2> QED BY <2>1, <2>2, <2>3, <2>4 DEF Program!Capture, Capture
<1> QED BY <1>16, <1>17

LEMMA EnterKeeps ==
  ASSUME NEW P, SoundWith(P), NEW s \in Seq(Slot), NEW n \in Nat, NEW extra \in Nat, NEW parent \in clos,
         NEW b \in Nat, Len(s) = b + n, b <= Len(stk), n <= Len(stk) - fn,
         \A i \in 1 .. b : s[i] = stk[i], \A i \in 1 .. n : s[b + i] = stk[Len(stk) - n + i],
         \A i \in Len(stk) - n + 1 .. Len(stk) : IsValue(stk[i]), \A i \in 1 .. Len(P) : P[i] <= b,
         Enter(s, n, extra, parent)
  PROVE  IInv' /\ Program!Call(n, extra, Id(Now, parent))
<1>1. PICK m, x : Memories(m, x)
  BY DEF Memories
<1> DEFINE K == Len(m.hcont)
           o == m.stk
           t == Temps(o, fn)
<1>2. PICK full : Filled(full, s, extra)
  BY DEF Filled
<1>3. PICK g : g = Len(s) + extra + 1
  OBVIOUS
<1>4. PICK r : r = [count |-> n + extra, next |-> parent, id |-> Len(store) + 1]
  OBVIOUS
<1>5. PICK v : v = [vars |-> SubSeq(full, b + 1, Len(full)), next |-> Id(m, parent)]
  OBVIOUS
<1>6. Sound(m, P, fn, envr, conr, store, clos, caught)
  BY <1>1 DEF SoundWith, Memories
<1>7. /\ m.stk = stk /\ m.henv = henv /\ m.hcont = hcont
      /\ x.stk = stk' /\ x.henv = henv' /\ x.hcont = hcont'
      /\ x = [stk |-> stk', henv |-> henv', hcont |-> hcont'] /\ m = Now
  BY <1>1, MemoriesAre DEF Memories
<1>8. /\ Machine(m, P, fn, envr, conr, K, store) /\ store \in EnvSeq /\ o \in Seq(Slot)
      /\ Len(o) \in Nat /\ fn \in 0 .. Len(o) /\ fn \in Nat /\ parent \in EnvRefs(m)
  BY <1>6, SoundFacts DEF Sound
<1>9. \A i \in Len(o) - n + 1 .. Len(o) : o[i] \in Val
  BY <1>7 DEF IsValue, Val
<1>10. Len(s) \in Nat /\ b = Len(s) - n /\ n <= Len(s)
  OBVIOUS
<1>11. \A i \in b + 1 .. Len(s) : s[i] \in Val
  <2> SUFFICES ASSUME NEW i \in b + 1 .. Len(s) PROVE s[i] \in Val
    OBVIOUS
  <2> DEFINE k == i - b
             j == Len(o) - n + k
  <2>1. k \in 1 .. n /\ b + k = i /\ n <= Len(o)
    BY <1>7, <1>8
  <2> HIDE DEF k
  <2>2. s[b + k] = o[j]
    BY <2>1, <1>7
  <2>3. j \in Len(o) - n + 1 .. Len(o)
    <3>1. PICK l \in Nat : l = Len(o) /\ n <= l
      BY <2>1, <1>8
    <3>2. k \in 1 .. n /\ n \in Nat
      BY <2>1
    <3>3. l - n + k \in l - n + 1 .. l
      BY ONLY <3>1, <3>2
    <3> QED BY <3>1, <3>3
  <2> HIDE DEF j
  <2> QED BY <2>1, <2>2, <2>3, <1>9
<1>12. full = s \o [i \in 1 .. extra |-> Unbound] /\ Len(s) - n + 1 = b + 1
  BY <1>2, <1>10 DEF Extra, Filled
<1>13. /\ stk' = Append(full, r) /\ store' = Append(store, v)
       /\ henv' = henv /\ hcont' = hcont /\ Len(s) + extra + 1 <= StackSize
  <2>1. r = [count |-> n + extra, next |-> parent, id |-> Len(store) + 1]
    BY <1>4
  <2>2. v = [vars |-> SubSeq(full, b + 1, Len(full)), next |-> Id(Now, parent)]
    BY <1>5, <1>7
  <2>3. stk' = Append(full, [count |-> n + extra, next |-> parent, id |-> Len(store) + 1])
    BY <1>12 DEF Enter
  <2>4. store' = Append(store, [vars |-> SubSeq(full, b + 1, Len(full)), next |-> Id(Now, parent)])
    <3>1. store' = Append(store, [vars |-> SubSeq(full, Len(s) - n + 1, Len(full)), next |-> Id(Now, parent)])
      BY <1>12 DEF Enter
    <3> QED BY <3>1, <1>12
  <2> QED BY <2>1, <2>2, <2>3, <2>4 DEF Enter
<1>14. Entered(m, s, n, extra, parent, store, g, v, x)
  <2> DEFINE fl == s \o Extra(extra)
             rc == [count |-> n + extra, next |-> parent, id |-> Len(store) + 1]
  <2>1. full = fl /\ r = rc
    BY <1>2, <1>4 DEF Filled
  <2>2. v = [vars |-> SubSeq(fl, Len(s) - n + 1, Len(fl)), next |-> Id(m, parent)]
    BY <2>1, <1>5, <1>12
  <2>3. Restacked(m, Append(full, r), x)
    BY <1>7, <1>13 DEF Restacked
  <2>4. Restacked(m, Append(fl, rc), x)
    BY <2>1, <2>3
  <2> HIDE DEF fl, rc
  <2> QED BY <2>2, <2>4, <1>3 DEF Entered, fl, rc
<1>15. /\ Machine(x, P, g, At(g), conr, K, Append(store, v)) /\ Undisturbed(m, x, K)
       /\ Id(x, At(g)) = Len(store) + 1 /\ Kont(x, conr) = Kont(m, conr)
       /\ Temps(x.stk, g) = <<>> /\ Len(x.stk) = g
       /\ Append(store, v) \in EnvSeq
  <2>1. b <= Len(o) /\ \A i \in 1 .. b : s[i] = o[i]
    BY <1>7
  <2>2. \A i \in 1 .. Len(P) : P[i] <= b
    OBVIOUS
  <2> HIDE DEF K, t
  <2>3. s \in Seq(Slot) /\ n \in Nat /\ extra \in Nat
    OBVIOUS
  <2> QED BY ONLY <2>1, <2>2, <2>3, <1>8, <1>10, <1>11, <1>14, EnterStep
<1>16. envr' = At(g) /\ fn' = g /\ Len(stk') = g
  <2>1. Len(stk') = g
    BY <1>7, <1>15
  <2> QED BY <2>1 DEF Enter
<1>17. Len(x.stk) <= StackSize /\ x.hcont = m.hcont
  BY <1>3, <1>7, <1>13, <1>15
<1>18. /\ Sound(x, P, g, At(g), conr, Append(store, v), clos, caught)
       /\ Ids(x, clos) = Ids(m, clos)
       /\ Konts(x, caught) = Konts(m, caught)
  <2> DEFINE e == At(g)
             w == Append(store, v)
  <2>1. Machine(x, P, g, e, conr, Len(m.hcont), w) /\ Undisturbed(m, x, Len(m.hcont)) /\ w \in EnvSeq
    BY <1>15
  <2> HIDE DEF e, w
  <2>2. /\ Sound(x, P, g, e, conr, w, clos, caught)
        /\ Ids(x, clos) = Ids(m, clos)
        /\ Konts(x, caught) = Konts(m, caught)
    BY ONLY <2>1, <1>6, <1>17, SoundStep
  <2> QED BY <2>2 DEF e, w
<1>19. IInv'
  <2>1. SoundWith(P)'
    BY <1>1, <1>13, <1>16, <1>18 DEF SoundWith, Memories, Enter
  <2> QED BY <2>1 DEF IInv
<1>20. Program!Call(n, extra, Id(Now, parent))
  <2> DEFINE T == Mark(SubSeq(stk, fn + 1, Len(stk)))
             pid == Id(Now, parent)
  <2>1. /\ n <= Len(t)
        /\ SubSeq(full, b + 1, Len(full)) = SubSeq(t, Len(t) - n + 1, Len(t)) \o Extra(extra)
    <3>1. n <= Len(o) - fn /\ \A i \in 1 .. n : s[b + i] = o[Len(o) - n + i]
      BY <1>7
    <3>2. PICK u : u = t
      OBVIOUS
    <3>3. s \in Seq(Slot) /\ n \in Nat /\ extra \in Nat /\ b \in Nat /\ Len(s) = b + n
      OBVIOUS
    <3>4. n <= Len(u) /\ Passed(u, n, extra, SubSeq(full, b + 1, Len(full)))
      BY ONLY <3>1, <3>2, <3>3, <1>2, <1>8, <1>9, ArgsAre
    <3> QED BY <3>2, <3>4 DEF Passed
  <2>2. t = T
    BY <1>7 DEF Temps
  <2>3. n <= Len(T) /\ pid \in {Id(Now, e) : e \in clos}
    BY <2>1, <2>2
  <2>4. store' = Append(store, [vars |-> SubSeq(T, Len(T) - n + 1, Len(T)) \o [i \in 1 .. extra |-> Unbound],
                                next |-> pid])
    <3>1. v = [vars |-> SubSeq(full, b + 1, Len(full)), next |-> pid]
      BY <1>5, <1>7
    <3> QED BY <2>1, <2>2, <3>1, <1>13 DEF Extra
  <2>5. Id(Now, envr)' = Len(store')
    <3>1. Len(store') = Len(store) + 1
      <4>1. store \in Seq([vars : Seq(Val), next : Nat])
        BY <1>8 DEF EnvSeq
      <4> QED BY <4>1, <1>13
    <3> QED BY <3>1, <1>1, <1>15, <1>16 DEF Memories
  <2>6. T' = <<>>
    <3>1. Temps(stk', fn') = <<>>
      BY <1>7, <1>15, <1>16
    <3> QED BY <3>1 DEF Temps
  <2>7. Kont(Now, conr)' = Kont(Now, conr)
    BY <1>1, <1>15 DEF Memories, Enter
  <2>8. {Id(Now, e) : e \in clos}' = {Id(Now, e) : e \in clos}
    BY <1>1, <1>18 DEF Memories, Ids, Enter
  <2>9. {Kont(Now, c) : c \in caught}' = {Kont(Now, c) : c \in caught}
    BY <1>1, <1>18 DEF Memories, Konts, Enter
  <2> HIDE DEF pid, T
  <2> QED BY <2>3, <2>4, <2>5, <2>6, <2>7, <2>8, <2>9 DEF Program!Call, pid, T
<1> QED BY <1>19, <1>20

(* A continuation is not among the arguments. *)
LEMMA FramesBelowArgs ==
  ASSUME NEW P, SoundWith(P), NEW b \in Nat, b <= Len(stk),
         \A i \in b + 1 .. Len(stk) : IsValue(stk[i])
  PROVE  \A i \in 1 .. Len(P) : P[i] <= b
<1>1. stk = Now.stk
  BY DEF Now
<1>2. Suspended(Now, P, Len(Now.hcont))
  BY DEF SoundWith, Sound, Machine
<1> SUFFICES ASSUME NEW i \in 1 .. Len(P) PROVE P[i] <= b
  OBVIOUS
<1>3. P[i] \in 1 .. Len(stk) /\ stk[P[i]] \in ContRecord
  BY <1>1, <1>2 DEF Suspended
<1>4. Len(stk) \in Nat
  BY <1>1, SoundFacts DEF SoundWith
<1> QED BY <1>3, <1>4, Kinds

LEMMA CallKeeps ==
  ASSUME IInv, NEW n \in Nat, NEW extra \in Nat, NEW parent \in clos, Call(n, extra, parent)
  PROVE  IInv' /\ Program!Call(n, extra, Id(Now, parent))
<1>1. PICK P : SoundWith(P)
  BY DEF IInv
<1>2. /\ stk \in Seq(Slot) /\ Len(stk) \in Nat /\ fn \in Nat
  BY <1>1, SoundFacts DEF SoundWith, Now
<1>3. /\ Len(stk) - n > fn /\ \A i \in Len(stk) - n + 1 .. Len(stk) : IsValue(stk[i])
      /\ Enter(stk, n, extra, parent)
  BY DEF Call
<1>4. PICK b \in Nat : b = Len(stk) - n
  <2>1. PICK l \in Nat : l = Len(stk)
    BY <1>2
  <2>2. l - n \in Nat
    BY <1>2, <1>3, <2>1
  <2> QED BY <2>1, <2>2
<1>5. b + n = Len(stk) /\ b <= Len(stk) /\ n <= Len(stk) - fn
  BY <1>2, <1>3, <1>4
<1>6. \A i \in b + 1 .. Len(stk) : IsValue(stk[i])
  BY <1>3, <1>4
<1>7. \A i \in 1 .. Len(P) : P[i] <= b
  BY <1>1, <1>5, <1>6, FramesBelowArgs
<1>8. \A i \in 1 .. n : stk[b + i] = stk[Len(stk) - n + i]
  BY <1>4
<1>9. \A i \in 1 .. b : stk[i] = stk[i]
  OBVIOUS
<1> QED BY ONLY <1>1, <1>2, <1>3, <1>5, <1>7, <1>8, <1>9, EnterKeeps, n \in Nat, extra \in Nat, parent \in clos

(* What imenv makes of the stack: b slots stay where they are, and the     *)
(* continuations are among them.                                           *)
LEMMA MenvIs ==
  ASSUME NEW P, SoundWith(P), NEW n \in Nat, Len(stk) = fn + n,
         \A i \in fn + 1 .. Len(stk) : IsValue(stk[i])
  PROVE  \E b \in Nat :
           /\ Menv(n) \in Seq(Slot) /\ Len(Menv(n)) = b + n /\ b <= fn
           /\ \A i \in 1 .. b : Menv(n)[i] = stk[i]
           /\ \A i \in 1 .. n : Menv(n)[b + i] = stk[Len(stk) - n + i]
           /\ \A i \in 1 .. Len(P) : P[i] <= b
<1>1. /\ stk \in Seq(Slot) /\ Len(stk) \in Nat /\ fn \in Nat
  BY SoundFacts DEF SoundWith, Now
<1>2. CASE ~OnStack(envr)
  <2>1. Menv(n) = stk
    BY <1>2 DEF Menv
  <2>2. \A i \in 1 .. Len(P) : P[i] <= fn
    BY <1>1, FramesBelowArgs
  <2>3. /\ stk \in Seq(Slot) /\ Len(stk) = fn + n /\ fn <= fn
        /\ \A i \in 1 .. fn : stk[i] = stk[i]
        /\ \A i \in 1 .. n : stk[fn + i] = stk[Len(stk) - n + i]
    BY <1>1
  <2> QED BY <1>1, <2>1, <2>2, <2>3
<1>3. CASE OnStack(envr)
  <2>1. StackEnv(Now, fn) /\ envr = At(fn)
    <3>1. FrameEnv(Now, fn, envr)
      BY DEF SoundWith, Sound, Machine, Frame
    <3>2. envr \notin EnvRefs(Now)
      BY <1>3, Refs DEF EnvRefs
    <3> QED BY <3>1, <3>2 DEF FrameEnv
  <2>2. PICK l : l = stk[fn].count
    OBVIOUS
  <2>3. /\ fn \in 1 .. Len(stk) /\ stk[fn] \in EnvRecord /\ l < fn /\ l \in Nat
        /\ \A i \in fn - l .. fn - 1 : stk[i] \in Val
    BY <2>1, <2>2, RecordFacts DEF StackEnv, Now
  <2>4. PICK b \in Nat : b = fn - l - 1
    BY <1>1, <2>3
  <2>5. b < fn /\ b + l + 1 = fn
    BY <1>1, <2>3, <2>4
  <2>6. envr[2] - Count(Now, envr) - 1 = b
    <3>1. envr[2] = fn /\ ~InHeap(envr)
      BY <2>1, Refs
    <3>2. Count(Now, envr) = l
      BY <3>1, <2>2 DEF Count, Now
    <3> QED BY <3>1, <3>2, <2>4
  <2> DEFINE u == SubSeq(stk, 1, b)
             w == SubSeq(stk, fn + 1, Len(stk))
  <2>7. Menv(n) = u \o w
    <3>1. Len(stk) - n + 1 = fn + 1
      BY <1>1
    <3> QED BY <3>1, <1>3, <2>6 DEF Menv
  <2>8. u \in Seq(Slot) /\ Len(u) = b /\ \A i \in 1 .. b : u[i] = stk[i]
    BY <1>1, <2>5
  <2>9. w \in Seq(Slot) /\ Len(w) = n /\ \A i \in 1 .. n : w[i] = stk[fn + i]
    BY <1>1
  <2> HIDE DEF u, w
  <2>10. /\ u \o w \in Seq(Slot) /\ Len(u \o w) = b + n
         /\ \A i \in 1 .. b : (u \o w)[i] = stk[i]
         /\ \A i \in 1 .. n : (u \o w)[b + i] = stk[fn + i]
    <3>1. Len(u \o w) = b + n /\ u \o w \in Seq(Slot)
      BY <2>8, <2>9
    <3>2. \A i \in 1 .. b : (u \o w)[i] = stk[i]
      BY <2>8, <2>9
    <3>3. \A i \in 1 .. n : (u \o w)[b + i] = stk[fn + i]
      <4> SUFFICES ASSUME NEW i \in 1 .. n PROVE (u \o w)[b + i] = stk[fn + i]
        OBVIOUS
      <4>1. b + i \in 1 .. b + n /\ ~(b + i <= b) /\ b + i - b = i
        OBVIOUS
      <4>2. u \in Seq(Slot) /\ w \in Seq(Slot) /\ Len(u) = b /\ Len(w) = n
        BY <2>8, <2>9
      <4>3. b + i \in Len(u) + 1 .. Len(u) + Len(w)
        BY ONLY <4>2, b \in Nat, n \in Nat, i \in 1 .. n
      <4>4. (u \o w)[b + i] = w[b + i - Len(u)]
        BY ONLY <4>2, <4>3, Joined
      <4> QED BY <2>9, <4>1, <4>2, <4>4
    <3> QED BY <3>1, <3>2, <3>3
  <2>11. \A i \in 1 .. n : fn + i = Len(stk) - n + i
    BY <1>1
  <2>12. \A i \in 1 .. Len(P) : P[i] <= b
    <3> SUFFICES ASSUME NEW i \in 1 .. Len(P) PROVE P[i] <= b
      OBVIOUS
    <3>1. P[i] <= fn
      BY <1>1, FramesBelowArgs
    <3>2. P[i] \in Nat /\ stk[P[i]] \in ContRecord
      BY DEF SoundWith, Sound, Machine, Suspended, Now
    <3>3. P[i] # fn
      BY <2>3, <3>2, Kinds
    <3>4. P[i] \notin fn - l .. fn - 1
      BY <2>3, <3>2, Kinds
    <3>5. fn - l = b + 1
      BY <1>1, <2>3, <2>5
    <3> QED BY <1>1, <2>5, <3>1, <3>2, <3>3, <3>4, <3>5
  <2>13. \A i \in 1 .. n : (u \o w)[b + i] = stk[Len(stk) - n + i]
    BY <2>10, <2>11
  <2>14. b <= fn
    BY <1>1, <2>5
  <2> QED BY ONLY <2>7, <2>10, <2>12, <2>13, <2>14, b \in Nat
<1> QED BY <1>2, <1>3

LEMMA TailCallKeeps ==
  ASSUME IInv, NEW n \in Nat, NEW extra \in Nat, NEW parent \in clos, TailCall(n, extra, parent)
  PROVE  IInv' /\ Program!Call(n, extra, Id(Now, parent))
<1>1. PICK P : SoundWith(P)
  BY DEF IInv
<1>2. PICK s : s = Menv(n)
  OBVIOUS
<1>3. /\ Len(stk) = fn + n /\ \A i \in fn + 1 .. Len(stk) : IsValue(stk[i])
      /\ Enter(s, n, extra, parent)
  BY <1>2 DEF TailCall, Enter
<1>4. PICK b \in Nat :
        /\ s \in Seq(Slot) /\ Len(s) = b + n /\ b <= fn
        /\ \A i \in 1 .. b : s[i] = stk[i]
        /\ \A i \in 1 .. n : s[b + i] = stk[Len(stk) - n + i]
        /\ \A i \in 1 .. Len(P) : P[i] <= b
  BY <1>1, <1>2, <1>3, MenvIs
<1>5. Len(stk) \in Nat /\ fn \in Nat
  BY <1>1, SoundFacts DEF SoundWith, Now
<1>6. b <= Len(stk) /\ n <= Len(stk) - fn /\ Len(stk) - n + 1 = fn + 1
  BY <1>3, <1>4, <1>5
<1>7. \A i \in Len(stk) - n + 1 .. Len(stk) : IsValue(stk[i])
  BY <1>3, <1>6
<1> QED BY ONLY <1>1, <1>3, <1>4, <1>6, <1>7, EnterKeeps, n \in Nat, extra \in Nat, parent \in clos

-----------------------------------------------------------------------------
(* The steps together. *)
LEMMA InitSound == Init => IInv /\ Program!Init
<1> SUFFICES ASSUME Init PROVE IInv /\ Program!Init
  OBVIOUS
<1>1. PICK m : m = Now
  OBVIOUS
<1>2. /\ m.stk = <<>> /\ m.henv = <<>> /\ m.hcont = <<>> /\ m \in Memory
      /\ Len(m.stk) = 0 /\ Len(m.henv) = 0 /\ Len(m.hcont) = 0
  BY <1>1 DEF Init, Now, Memory
<1>3. EnvRefs(m) = {Nil} /\ ContRefs(0) = {Nil}
  BY <1>2 DEF EnvRefs, ContRefs
<1>4. Suspended(m, <<>>, 0)
  BY DEF Suspended
<1>5. Frame(m, <<>>, 0, 0, Nil, Nil, 0)
  BY <1>3 DEF Frame, FrameEnv, Linked, Nested
<1>6. Live(m, <<>>, Nil) = {}
  BY <1>3 DEF Live, StackEnvs
<1>7. Machine(m, <<>>, 0, Nil, Nil, 0, <<>>)
  BY <1>2, <1>4, <1>5, <1>6 DEF Machine, Heap, Represents
<1>8. IInv
  <2>1. Sound(m, <<>>, 0, Nil, Nil, <<>>, {Nil}, {})
    BY <1>2, <1>3, <1>7, StackAssumption DEF Sound, EnvSeq
  <2>2. SoundWith(<<>>)
    BY <1>1, <2>1 DEF SoundWith, Init
  <2> QED BY <2>2 DEF IInv
<1>9. Kont(m, Nil) = <<>>
  <2>1. IsChain(m, Nil, <<>>) /\ <<>> \in Seq(Ref)
    BY DEF IsChain
  <2>2. Len(<<>>) <= Most(m)
    BY <1>2, MostIs
  <2>3. Chain(m, Nil) = <<>>
    BY <1>2, <2>1, <2>2, ChainIs
  <2> QED BY <2>3 DEF Kont
<1>10. Mark(SubSeq(stk, fn + 1, Len(stk))) = <<>>
  BY DEF Mark, Init
<1>11. Id(Now, Nil) = 0
  BY DEF Id
<1>12. {Id(Now, e) : e \in clos} = {0}
  BY <1>11 DEF Init
<1> QED BY <1>1, <1>8, <1>9, <1>10, <1>11, <1>12 DEF Program!Init, Init

LEMMA NextKeeps ==
  ASSUME IInv, [Next]_vars
  PROVE  IInv' /\ [Program!Next]_Program!vars
<1>1. CASE UNCHANGED vars
  <2>1. Now' = Now /\ fn' = fn /\ envr' = envr /\ conr' = conr /\ store' = store /\ clos' = clos /\ caught' = caught
    BY <1>1 DEF vars, Now
  <2>2. IInv'
    BY <2>1 DEF IInv, SoundWith
  <2>3. UNCHANGED Program!vars
    BY <1>1, <2>1 DEF Program!vars, vars
  <2> QED BY <2>2, <2>3
<1>2. CASE \E v \in Value : Push(v)
  <2>1. PICK v \in Value : Push(v)
    BY <1>2
  <2> QED BY <2>1, PushKeeps DEF Program!Next, Val
<1>3. CASE Drop
  BY <1>3, DropKeeps DEF Program!Next
<1>4. CASE \E d \in 0 .. 1, i \in 1 .. 2 : Load(d, i) \/ \E v \in Value : Assign(d, i, v)
  <2>1. PICK d \in 0 .. 1, i \in 1 .. 2 : Load(d, i) \/ \E v \in Value : Assign(d, i, v)
    BY <1>4
  <2>2. CASE Load(d, i)
    BY <2>2, LoadKeeps DEF Program!Next
  <2>3. CASE \E v \in Value : Assign(d, i, v)
    BY <2>3, AssignKeeps DEF Program!Next
  <2> QED BY <2>1, <2>2, <2>3
<1>5. CASE Suspend
  BY <1>5, SuspendKeeps DEF Program!Next
<1>6. CASE \E n \in 0 .. 2, extra \in 0 .. 1, parent \in clos :
             n + extra <= 2 /\ (Call(n, extra, parent) \/ TailCall(n, extra, parent))
  <2>1. PICK n \in 0 .. 2, extra \in 0 .. 1, parent \in clos :
               Call(n, extra, parent) \/ TailCall(n, extra, parent)
    BY <1>6
  <2>2. n \in Nat /\ extra \in Nat /\ extra \in 0 .. 2
    OBVIOUS
  <2>3. IInv' /\ Program!Call(n, extra, Id(Now, parent))
    BY <2>1, <2>2, CallKeeps, TailCallKeeps
  <2>4. Id(Now, parent) \in {Id(Now, e) : e \in clos}
    OBVIOUS
  <2> QED BY <2>2, <2>3, <2>4 DEF Program!Next
<1>7. CASE Return
  BY <1>7, ReturnKeeps DEF Program!Next
<1>8. CASE Close
  BY <1>8, CloseKeeps DEF Program!Next
<1>9. CASE Capture
  BY <1>9, CaptureKeeps DEF Program!Next
<1>10. CASE Throw
  BY <1>10, ThrowKeeps DEF Program!Next
<1> QED BY <1>1, <1>2, <1>3, <1>4, <1>5, <1>6, <1>7, <1>8, <1>9, <1>10 DEF Next

LEMMA IInvAlways == Spec => []IInv
BY InitSound, NextKeeps, PTL DEF Spec

(* No environment of a closure, and nothing that an environment or a       *)
(* continuation of the heap holds, is ever an offset into the stack        *)
(* (__arc_env2heap, __arc_cont2heap).                                      *)
THEOREM HeapAlwaysAvoidsStack == Spec => []HeapAvoidsStack
<1>1. IInv => HeapAvoidsStack
  <2> SUFFICES ASSUME IInv PROVE HeapAvoidsStack
    OBVIOUS
  <2>1. PICK P : SoundWith(P)
    BY DEF IInv
  <2>2. Now \in Memory /\ clos \subseteq HeapRef
    BY <2>1, SoundFacts, EnvRefsAreOnHeap DEF SoundWith, Sound
  <2>3. \A a \in DOMAIN henv : henv[a].next \in HeapRef
    BY <2>2, MemoryFacts, RecordFacts DEF Now
  <2>4. \A k \in DOMAIN hcont : hcont[k].env \in HeapRef /\ hcont[k].conr \in HeapRef
    BY <2>2, MemoryFacts, RecordFacts DEF Now
  <2> QED BY <2>2, <2>3, <2>4, RefCases DEF HeapAvoidsStack
<1> QED BY <1>1, IInvAlways, PTL

(* The machine that moves environments and continuations to the heap, and  *)
(* that overwrites the frame of a tail call, shows a compiled function     *)
(* what one that keeps every frame for ever would show it.                 *)
THEOREM StackImplementsFrames == Spec => ImplementsFrames
BY InitSound, NextKeeps, IInvAlways, PTL DEF Spec, ImplementsFrames, Program!Spec

-----------------------------------------------------------------------------
(* The references that the frames hold.                                    *)
LEMMA HeapChainElements ==
  ASSUME NEW m \in Memory, NEW K, Heap(m, K), NEW q \in ContRefs(K), NEW c \in ToSet(Chain(m, q))
  PROVE  ~OnStack(c)
<1>1. PICK s \in Seq(ContRefs(K)) : IsChain(m, q, s) /\ Len(s) <= Most(m)
  BY HeapIsChained
<1>2. Chain(m, q) = s
  BY <1>1, ChainIs
<1>3. c \in ContRefs(K)
  BY <1>2 DEF ToSet
<1> QED BY <1>3, Refs DEF ContRefs

LEMMA RegisterChainElements ==
  ASSUME NEW m \in Memory, NEW P, NEW q, NEW K \in Nat, Suspended(m, P, K), Linked(P, 0, q, K), Heap(m, K),
         NEW c \in ToSet(Chain(m, q)), OnStack(c)
  PROVE  \E i \in 1 .. Len(P) : c = At(P[i])
<1> DEFINE s == Chain(m, q)
<1>1. PICK l \in Nat : /\ DOMAIN s = 1 .. Len(P) + l
                       /\ \A i \in 1 .. Len(P) : s[i] = At(P[i])
                       /\ \A i \in Len(P) + 1 .. Len(P) + l : ~OnStack(s[i])
  BY ChainParts
<1>2. PICK i \in DOMAIN s : c = s[i]
  BY DEF ToSet
<1>3. Len(P) \in Nat
  BY DEF Suspended
<1>4. i \in 1 .. Len(P)
  BY <1>1, <1>2, <1>3
<1> QED BY <1>1, <1>2, <1>4

LEMMA ReferencesHold ==
  ASSUME IInv, Len(hcont) <= MaxConts
  PROVE  TypeOK
<1>1. PICK P : SoundWith(P)
  BY DEF IInv
<1>2. PICK m, K : m = Now /\ K = Len(m.hcont)
  OBVIOUS
<1>3. Machine(m, P, fn, envr, conr, K, store) /\ m.stk = stk /\ m.hcont = hcont
  BY <1>1, <1>2 DEF SoundWith, Sound, Now
<1>4. m \in Memory /\ fn \in 0 .. Len(stk) /\ Len(stk) \in Nat /\ Len(stk) <= StackSize /\ K \in Nat
      /\ Suspended(m, P, K) /\ Frame(m, P, 0, fn, envr, conr, K) /\ Heap(m, K)
      /\ caught \subseteq ContRefs(K)
  BY <1>1, <1>2, <1>3, SoundFacts DEF SoundWith, Sound, Machine
<1>5. ASSUME NEW f, NEW e, FrameEnv(m, f, e), OnStack(e)
      PROVE  e[2] = f /\ f \in 1 .. Len(stk) /\ IsEnv(stk[f])
  <2>1. e \notin EnvRefs(m)
    BY <1>5, Refs DEF EnvRefs
  <2>2. e = At(f) /\ StackEnv(m, f)
    BY <2>1, <1>5 DEF FrameEnv
  <2> QED BY <2>2, <1>3, Refs, Kinds DEF StackEnv
<1>6. OnStack(envr) => envr[2] <= fn /\ IsEnv(stk[envr[2]])
  BY <1>4, <1>5 DEF Frame
<1>7. ASSUME NEW c \in LiveConts, OnStack(c)
      PROVE  /\ c[2] <= Len(stk) /\ IsCont(stk[c[2]]) /\ stk[c[2]].fn < c[2]
             /\ LET e == stk[c[2]].env IN OnStack(e) => e[2] <= stk[c[2]].fn /\ IsEnv(stk[e[2]])
  <2>1. PICK q \in caught \cup {conr} : c \in ToSet(Chain(m, q))
    BY <1>2 DEF LiveConts
  <2>2. q = conr /\ Linked(P, 0, conr, K)
    BY <2>1, <1>4, <1>7, HeapChainElements DEF Frame
  <2>3. PICK i \in 1 .. Len(P) : c = At(P[i])
    BY <2>1, <2>2, <1>4, <1>7, RegisterChainElements
  <2>4. c[2] = P[i]
    BY <2>3, Refs
  <2>5. /\ P[i] \in 1 .. Len(stk) /\ stk[P[i]] \in ContRecord /\ stk[P[i]].fn < P[i]
        /\ FrameEnv(m, stk[P[i]].fn, stk[P[i]].env)
    BY <1>3, <1>4 DEF Suspended, Frame
  <2>6. stk[P[i]].fn \in Nat
    BY <2>5, RecordFacts
  <2>7. OnStack(stk[P[i]].env) => stk[P[i]].env[2] <= stk[P[i]].fn /\ IsEnv(stk[stk[P[i]].env[2]])
    BY <2>5, <2>6, <1>5
  <2> QED BY <2>4, <2>5, <2>7, <1>4, Kinds
<1> QED BY <1>4, <1>6, <1>7 DEF TypeOK

FewConts == Len(hcont) <= MaxConts

LEMMA FewContsKept ==
  ASSUME IInv, FewConts, [Next]_vars
  PROVE  FewConts'
<1>1. CASE Capture
  <2>1. PICK P : SoundWith(P)
    BY DEF IInv
  <2>2. PICK m, K, y, n, c : /\ m = Now /\ K = Len(hcont) /\ y = Env2Heap(Cont2Heap, envr)
                             /\ n = Len(P) /\ c = MovedConr
    OBVIOUS
  <2>3. Machine(m, P, fn, envr, conr, K, store) /\ K \in Nat /\ m.stk = stk /\ Len(stk) \in Nat
    BY <2>1, <2>2, SoundFacts DEF SoundWith, Sound, Now
  <2>4. Suspended(m, P, K) /\ Linked(P, 0, conr, K) /\ Heap(m, K) /\ m \in Memory
    BY <2>3 DEF Machine, Frame
  <2>5. Depth = n
    BY <2>2, <2>3, <2>4, DepthIs
  <2>6. \A j \in 1 .. Len(P) : P[j] <= fn
    BY <2>3, <2>4, <1>1 DEF Suspended, Capture
  <2>7. Len(y.m.hcont) = K + n
    BY ONLY <2>2, <2>3, <2>6, CaptureStep
  <2>8. hcont' = y.m.hcont
    BY <1>1, <2>2 DEF Capture, Become
  <2> QED BY <1>1, <2>2, <2>5, <2>7, <2>8 DEF FewConts, Capture
<1>2. CASE ~ Capture
  <2>1. CASE Close
    BY <2>1 DEF FewConts, Close, Become, Env2Heap, Now
  <2>2. CASE ~ Close
    <3>1. hcont' = hcont
      BY <1>2, <2>2 DEF Next, vars, Push, Drop, Load, Assign, Suspend, Call, TailCall, Enter, Return, Throw
    <3> QED BY <3>1 DEF FewConts
  <2> QED BY <2>1, <2>2
<1> QED BY <1>1, <1>2

(* The registers and the frames that the program may still return to refer *)
(* to slots of the right kind, each below the part of the stack that its   *)
(* function uses (SENV_PTR, arc_restorecont).                              *)
THEOREM ReferencesAlwaysHold == Spec => []TypeOK
<1>1. Init => FewConts
  BY StackAssumption DEF FewConts, Init
<1>2. IInv /\ FewConts /\ [Next]_vars => FewConts'
  BY FewContsKept
<1>3. IInv /\ FewConts => TypeOK
  BY ReferencesHold DEF FewConts
<1> QED BY <1>1, <1>2, <1>3, IInvAlways, PTL DEF Spec
=============================================================================
