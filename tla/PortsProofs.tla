---------------------------- MODULE PortsProofs ----------------------------
(***************************************************************************)
(* The wait of the dispatcher for descriptors, for any text, any clock and *)
(* any width of the counters; and the trip of the text, for any text of    *)
(* runes that UTF-8 as utf.c writes it can tell apart, any kinds of port,  *)
(* any buffers and any order of the threads.                               *)
(***************************************************************************)
EXTENDS Ports, SequencesExt, SequenceTheorems,
        FiniteSetTheorems, WellFoundedInduction, TLAPS

-----------------------------------------------------------------------------
(* Facts about numbers and sequences *)

(* A set of natural numbers has a least element. *)
LEMMA LeastNumber ==
  ASSUME NEW S \in SUBSET Nat, S # {}
  PROVE  \E m \in S : \A k \in S : m <= k
<1> DEFINE Segments == {S \cap (0 .. m) : m \in S}
<1>1. IsWellFoundedOn(StrictSubsetOrdering(Nat), FiniteSubsetsOf(Nat))
  BY FS_StrictSubsetOrderingWellFounded
<1>2. Segments \subseteq FiniteSubsetsOf(Nat)
  <2>1. \A m \in S : IsFiniteSet(S \cap (0 .. m))
    <3> TAKE m \in S
    <3>1. IsFiniteSet(0 .. m)
      BY FS_Interval
    <3> QED BY <3>1, FS_Subset
  <2> QED BY <2>1 DEF FiniteSubsetsOf
<1>3. Segments # {}
  OBVIOUS
<1> HIDE DEF Segments
<1>4. PICK x \in Segments : \A y \in Segments : ~ (<<y, x>> \in StrictSubsetOrdering(Nat))
  BY <1>1, <1>2, <1>3, WFMin
<1> USE DEF Segments
<1>5. PICK m \in S : x = S \cap (0 .. m)
  BY <1>4
<1>6. \A k \in S : m <= k
  <2> SUFFICES ASSUME NEW k \in S, k < m PROVE FALSE
    OBVIOUS
  <2> DEFINE y == S \cap (0 .. k)
  <2>1. y \in Segments /\ y \subseteq x /\ m \in x /\ m \notin y /\ x \subseteq Nat
    BY <1>5
  <2>2. <<y, x>> \in StrictSubsetOrdering(Nat)
    BY <2>1 DEF StrictSubsetOrdering
  <2> QED BY <1>4, <2>1, <2>2
<1> QED BY <1>6

(* What holds at 0, and at i if it holds at i - 1, holds up to n.          *)
LEMMA UpTo ==
  ASSUME NEW n \in Nat, NEW P \in SUBSET (0 .. n), 0 \in P,
         \A i \in 1 .. n : i - 1 \in P => i \in P
  PROVE  P = 0 .. n
<1> DEFINE Left == (0 .. n) \ P
<1> SUFFICES ASSUME Left # {} PROVE FALSE
  OBVIOUS
<1>1. Left \in SUBSET Nat
  OBVIOUS
<1>2. \A i \in 0 .. n : i \in P <=> i \notin Left
  OBVIOUS
<1>3. \A i \in Left : i \in 0 .. n
  OBVIOUS
<1> HIDE DEF Left
<1>4. PICK m \in Left : \A k \in Left : m <= k
  BY <1>1, LeastNumber
<1>5. m # 0
  BY <1>2, <1>3
<1>6. m - 1 \in 0 .. n /\ m \in 1 .. n /\ ~(m <= m - 1)
  BY <1>3, <1>5
<1> QED BY <1>2, <1>4, <1>6

(* Functions by primitive recursion: F[i] makes the value at i from the    *)
(* one before.  (A set of values is needed for the existence, nothing      *)
(* else; the counterexample with the smallest length has none.)            *)
ByRecursion(g, F, a, n) == g[0] = a /\ \A i \in 1 .. n : g[i] = F[i][g[i - 1]]

LEMMA RecursionExists ==
  ASSUME NEW V, NEW a \in V, NEW n \in Nat, NEW F, \A i \in 1 .. n : F[i] \in [V -> V]
  PROVE  \E g \in [0 .. n -> V] : ByRecursion(g, F, a, n)
<1> DEFINE Failing == {m \in 0 .. n : ~ \E g \in [0 .. m -> V] : ByRecursion(g, F, a, m)}
<1>1. Failing = {}
  <2> SUFFICES ASSUME Failing # {} PROVE FALSE
    OBVIOUS
  <2>1. Failing \in SUBSET Nat
    OBVIOUS
  <2>2. \A m \in Failing : m \in 0 .. n /\ ~ \E g \in [0 .. m -> V] : ByRecursion(g, F, a, m)
    OBVIOUS
  <2>3. \A m \in 0 .. n : m \notin Failing => \E g \in [0 .. m -> V] : ByRecursion(g, F, a, m)
    OBVIOUS
  <2> HIDE DEF Failing
  <2>4. PICK m \in Failing : \A k \in Failing : m <= k
    BY <2>1, LeastNumber
  <2>5. m # 0
    <3> DEFINE g == [i \in 0 .. 0 |-> a]
    <3>1. g \in [0 .. 0 -> V] /\ g[0] = a
      OBVIOUS
    <3>2. ByRecursion(g, F, a, 0)
      BY <3>1 DEF ByRecursion
    <3> QED BY <2>2, <3>1, <3>2
  <2> DEFINE l == m - 1
  <2>6. l \in 0 .. n /\ l < m /\ m \in 1 .. n /\ l + 1 = m
    BY <2>2, <2>4, <2>5
  <2> HIDE DEF l
  <2>7. l \notin Failing
    BY <2>4, <2>6
  <2>8. PICK g \in [0 .. l -> V] : ByRecursion(g, F, a, l)
    BY <2>3, <2>6, <2>7
  <2> DEFINE h == [i \in 0 .. m |-> IF i = m THEN F[m][g[l]] ELSE g[i]]
  <2>9. F[m][g[l]] \in V
    BY <2>6, <2>8
  <2>10. h \in [0 .. m -> V]
    BY <2>6, <2>9
  <2>11. ByRecursion(h, F, a, m)
    <3>1. h[0] = a
      BY <2>6, <2>8 DEF ByRecursion
    <3>2. ASSUME NEW i \in 1 .. m PROVE h[i] = F[i][h[i - 1]]
      <4>1. CASE i = m
        <5>1. h[i] = F[m][g[l]] /\ h[i - 1] = g[l]
          BY <4>1, <2>6
        <5> QED BY <5>1, <4>1
      <4>2. CASE i # m
        <5>1. i \in 1 .. l /\ h[i] = g[i] /\ h[i - 1] = g[i - 1]
          BY <4>2, <2>6
        <5>2. g[i] = F[i][g[i - 1]]
          BY <5>1, <2>8 DEF ByRecursion
        <5> QED BY <5>1, <5>2
      <4> QED BY <4>1, <4>2
    <3> QED BY <3>1, <3>2 DEF ByRecursion
  <2> HIDE DEF h
  <2> QED BY <2>2, <2>4, <2>10, <2>11
<1>2. n \in 0 .. n
  OBVIOUS
<1> QED BY <1>1, <1>2

(***************************************************************************)
(* Prefixes of sequences.                                                  *)
(***************************************************************************)
LEMMA PrefixByElements ==
  ASSUME NEW S, NEW s \in Seq(S), NEW t \in Seq(S)
  PROVE  IsPrefix(s, t) <=> Len(s) <= Len(t) /\ \A i \in 1 .. Len(s) : s[i] = t[i]
<1>1. CASE Len(s) <= Len(t)
  <2> DEFINE p == SubSeq(s, 1, Len(s))
             q == SubSeq(t, 1, Len(s))
  <2>1. /\ p \in Seq(S) /\ Len(p) = Len(s)
        /\ \A i \in 1 .. Len(s) : p[i] = s[i]
    OBVIOUS
  <2>2. /\ q \in Seq(S) /\ Len(q) = Len(s)
        /\ \A i \in 1 .. Len(s) : q[i] = t[i]
    BY <1>1
  <2> HIDE DEF p, q
  <2>3. p = q <=> \A i \in 1 .. Len(s) : p[i] = q[i]
    BY <2>1, <2>2, SeqEqual
  <2>4. p = q <=> \A i \in 1 .. Len(s) : s[i] = t[i]
    BY <2>1, <2>2, <2>3
  <2> QED BY <2>4, <1>1 DEF IsPrefix, p, q
<1>2. CASE ~ (Len(s) <= Len(t))
  BY <1>2 DEF IsPrefix
<1> QED BY <1>1, <1>2

(***************************************************************************)
(* Flattened sequences of sequences.                                       *)
(***************************************************************************)
(* The places where the parts of a flattened sequence end.                 *)
Ends(e, q, n) == e[0] = 0 /\ \A i \in 1 .. n : e[i] = e[i - 1] + Len(q[i])

LEMMA EndsExist ==
  ASSUME NEW S, NEW n \in Nat, NEW q \in [1 .. n -> Seq(S)]
  PROVE  \E e \in [0 .. n -> Nat] : Ends(e, q, n)
<1> DEFINE F == [i \in 1 .. n |-> [v \in Nat |-> v + Len(q[i])]]
<1>1. \A i \in 1 .. n : Len(q[i]) \in Nat
  OBVIOUS
<1>2. \A i \in 1 .. n : F[i] \in [Nat -> Nat]
  BY <1>1
<1>3. \A i \in 1 .. n : \A v \in Nat : F[i][v] = v + Len(q[i])
  OBVIOUS
<1> HIDE DEF F
<1>4. 0 \in Nat
  OBVIOUS
<1>5. PICK e \in [0 .. n -> Nat] : ByRecursion(e, F, 0, n)
  BY <1>2, <1>4, RecursionExists
<1>6. ASSUME NEW i \in 1 .. n PROVE e[i] = e[i - 1] + Len(q[i])
  <2>1. e[i - 1] \in Nat
    BY <1>5
  <2>2. e[i] = F[i][e[i - 1]]
    BY <1>5 DEF ByRecursion
  <2> QED BY <2>1, <2>2, <1>3
<1>7. e[0] = 0
  BY <1>5 DEF ByRecursion
<1> QED BY <1>5, <1>6, <1>7 DEF Ends

LEMMA EndsGrow ==
  ASSUME NEW S, NEW n \in Nat, NEW q \in [1 .. n -> Seq(S)],
         NEW e \in [0 .. n -> Nat], Ends(e, q, n), NEW i \in 0 .. n
  PROVE  \A j \in 0 .. n : i <= j => e[i] <= e[j]
<1> DEFINE P == {j \in 0 .. n : i <= j => e[i] <= e[j]}
<1>1. P \in SUBSET (0 .. n)
  OBVIOUS
<1>2. 0 \in P
  <2>1. i <= 0 => i = 0
    OBVIOUS
  <2>2. e[0] \in Nat
    OBVIOUS
  <2> QED BY <2>1, <2>2
<1>3. ASSUME NEW j \in 1 .. n, j - 1 \in P PROVE j \in P
  <2>1. e[j] \in Nat /\ e[j - 1] \in Nat /\ e[i] \in Nat /\ Len(q[j]) \in Nat
    OBVIOUS
  <2>2. e[j] = e[j - 1] + Len(q[j])
    BY DEF Ends
  <2>3. e[j - 1] <= e[j]
    BY <2>1, <2>2
  <2>4. i <= j - 1 => e[i] <= e[j - 1]
    BY <1>3
  <2>5. i <= j => i <= j - 1 \/ i = j
    OBVIOUS
  <2>6. i <= j => e[i] <= e[j]
    BY <2>1, <2>3, <2>4, <2>5
  <2> QED BY <2>6
<1> HIDE DEF P
<1>4. P = 0 .. n
  BY <1>1, <1>2, <1>3, UpTo
<1> QED BY <1>4 DEF P

(* Part m of q lies behind the end of the one before in s. *)
Lies(s, q, e, m) == \A j \in 1 .. Len(q[m]) : s[e[m - 1] + j] = q[m][j]

LEMMA Flattened ==
  ASSUME NEW S, NEW n \in Nat, NEW q \in [1 .. n -> Seq(S)],
         NEW e \in [0 .. n -> Nat], Ends(e, q, n)
  PROVE  /\ FlattenSeq(q) \in Seq(S)
         /\ Len(FlattenSeq(q)) = e[n]
         /\ \A m \in 1 .. n : Lies(FlattenSeq(q), q, e, m)
<1>0. Len(q) = n /\ q \in Seq(Seq(S)) /\ \A i \in 1 .. n : q[i] \in Seq(S) /\ Len(q[i]) \in Nat
  OBVIOUS
<1>1. CASE n = 0
  <2>1. FlattenSeq(q) = q
    BY <1>0, <1>1 DEF FlattenSeq
  <2>2. q = <<>>
    BY <1>0, <1>1
  <2> QED BY <1>1, <2>1, <2>2 DEF Ends
<1>2. CASE n # 0
  <2> DEFINE Step(l) == [i \in 1 .. n |-> IF i = 1 THEN q[i] ELSE l[i - 1] \o q[i]]
             l == CHOOSE g : g = Step(g)
             F == [i \in 1 .. n |-> [v \in Seq(S) |-> IF i = 1 THEN q[i] ELSE v \o q[i]]]
  <2>1. \A i \in 1 .. n : F[i] \in [Seq(S) -> Seq(S)]
    <3> SUFFICES ASSUME NEW i \in 1 .. n PROVE F[i] \in [Seq(S) -> Seq(S)]
      OBVIOUS
    <3>1. \A v \in Seq(S) : (IF i = 1 THEN q[i] ELSE v \o q[i]) \in Seq(S)
      BY <1>0
    <3> QED BY <3>1
  <2>2. \A i \in 1 .. n : \A v \in Seq(S) : F[i][v] = IF i = 1 THEN q[i] ELSE v \o q[i]
    OBVIOUS
  <2> HIDE DEF F
  <2>3. <<>> \in Seq(S)
    OBVIOUS
  <2>4. PICK g \in [0 .. n -> Seq(S)] : ByRecursion(g, F, <<>>, n)
    BY <2>1, <2>3, RecursionExists
  <2> DEFINE k == [i \in 1 .. n |-> g[i]]
  <2>5. k = Step(k)
    <3>1. ASSUME NEW i \in 1 .. n PROVE g[i] = IF i = 1 THEN q[i] ELSE k[i - 1] \o q[i]
      <4>0. i - 1 \in 0 .. n
        OBVIOUS
      <4>1. g[i] = F[i][g[i - 1]] /\ g[i - 1] \in Seq(S)
        BY <4>0, <2>4 DEF ByRecursion
      <4>2. g[i] = IF i = 1 THEN q[i] ELSE g[i - 1] \o q[i]
        BY <2>2, <4>1
      <4>3. i # 1 => k[i - 1] = g[i - 1]
        <5>1. i # 1 => i - 1 \in 1 .. n
          OBVIOUS
        <5> QED BY <5>1
      <4> HIDE DEF k
      <4> QED BY <4>2, <4>3
    <3> QED BY <3>1
  <2>6. l = Step(l)
    <3> HIDE DEF k, Step
    <3> QED BY <2>5
  <2>7. FlattenSeq(q) = l[n]
    BY <1>0, <1>2 DEF FlattenSeq
  <2> HIDE DEF l
  <2>8. l[1] = q[1] /\ \A i \in 1 .. n : i # 1 => l[i] = l[i - 1] \o q[i]
    <3>1. 1 \in 1 .. n
      BY <1>2
    <3>2. \A i \in 1 .. n : l[i] = IF i = 1 THEN q[i] ELSE l[i - 1] \o q[i]
      BY <2>6
    <3> HIDE DEF Step
    <3> QED BY <3>1, <3>2
  <2> HIDE DEF Step, k
  <2> DEFINE Holds(i) == l[i] \in Seq(S) /\ Len(l[i]) = e[i] /\ \A m \in 1 .. i : Lies(l[i], q, e, m)
             P == {i \in 0 .. n : i = 0 \/ Holds(i)}
  <2>9. P \in SUBSET (0 .. n) /\ 0 \in P
    OBVIOUS
  <2>10. ASSUME NEW i \in 1 .. n, i - 1 \in P PROVE Holds(i)
    <3>0. /\ e[i] = e[i - 1] + Len(q[i]) /\ e[i] \in Nat /\ e[i - 1] \in Nat
          /\ q[i] \in Seq(S) /\ Len(q[i]) \in Nat /\ e[0] = 0
      BY <1>0 DEF Ends
    <3>1. CASE i = 1
      <4>1. l[i] = q[i] /\ e[i - 1] = 0
        BY <2>8, <3>0, <3>1
      <4>2. \A m \in 1 .. i : m = i
        BY <3>1
      <4>3. Len(l[i]) = e[i]
        BY <3>0, <4>1
      <4>4. Lies(l[i], q, e, i)
        BY <3>0, <4>1 DEF Lies
      <4> QED BY <3>0, <4>1, <4>2, <4>3, <4>4
    <3>2. CASE i # 1
      <4> DEFINE u == l[i - 1]
                 v == q[i]
                 w == u \o v
      <4>1. u \in Seq(S) /\ Len(u) = e[i - 1] /\ \A m \in 1 .. i - 1 : Lies(u, q, e, m)
        BY <1>0, <2>10, <3>2
      <4>2. l[i] = w
        BY <2>8, <3>2
      <4>3. v \in Seq(S) /\ Len(v) = Len(q[i])
        BY <3>0
      <4> HIDE DEF u
      <4>4. /\ w \in Seq(S) /\ Len(w) = Len(u) + Len(v)
            /\ \A j \in 1 .. Len(u) : w[j] = u[j]
            /\ \A j \in 1 .. Len(v) : w[Len(u) + j] = v[j]
        <5>1. v \in Seq(S)
          BY <4>3
        <5> HIDE DEF v
        <5>2. /\ w \in Seq(S) /\ Len(w) = Len(u) + Len(v)
              /\ \A j \in 1 .. Len(u) + Len(v) : w[j] = IF j <= Len(u) THEN u[j] ELSE v[j - Len(u)]
          BY <4>1, <5>1, ConcatProperties
        <5> HIDE DEF w
        <5>3. Len(u) \in Nat /\ Len(v) \in Nat
          BY <4>1, <5>1
        <5>4. \A a, b \in Nat : /\ \A j \in 1 .. a : j \in 1 .. a + b /\ j <= a
                                /\ \A j \in 1 .. b : a + j \in 1 .. a + b /\ ~ (a + j <= a) /\ (a + j) - a = j
          OBVIOUS
        <5> QED BY <5>2, <5>3, <5>4
      <4> HIDE DEF w
      <4>5. ASSUME NEW m \in 1 .. i - 1 PROVE Lies(w, q, e, m)
        <5> SUFFICES ASSUME NEW j \in 1 .. Len(q[m]) PROVE w[e[m - 1] + j] = q[m][j]
          BY DEF Lies
        <5>1. m \in 1 .. n /\ m - 1 \in 0 .. n /\ m <= i - 1 /\ i - 1 \in 0 .. n /\ m \in 0 .. n
          OBVIOUS
        <5>2. e[m] = e[m - 1] + Len(q[m]) /\ e[m] \in Nat /\ e[m - 1] \in Nat /\ Len(q[m]) \in Nat
          BY <1>0, <5>1 DEF Ends
        <5>3. e[m] <= e[i - 1]
          BY <5>1, EndsGrow
        <5> DEFINE x == e[m - 1] + j
        <5>4. x \in 1 .. e[i - 1]
          <6>1. \A a, b, c, d \in Nat : b = a + d /\ b <= c => \A h \in 1 .. d : a + h \in 1 .. c
            OBVIOUS
          <6> QED BY <5>2, <5>3, <3>0, <6>1
        <5>5. u[x] = q[m][j]
          BY <4>1 DEF Lies
        <5> HIDE DEF x
        <5>6. w[x] = u[x]
          BY <4>1, <4>4, <5>4
        <5> QED BY <5>5, <5>6 DEF x
      <4>6. Lies(w, q, e, i)
        BY <4>1, <4>4 DEF Lies
      <4>7. Len(w) = e[i]
        BY <3>0, <4>1, <4>4
      <4>8. \A m \in 1 .. i : m = i \/ m \in 1 .. i - 1
        OBVIOUS
      <4>9. \A m \in 1 .. i : Lies(w, q, e, m)
        BY <4>5, <4>6, <4>8
      <4> QED BY <4>2, <4>4, <4>7, <4>9
    <3> QED BY <3>1, <3>2
  <2> HIDE DEF Holds
  <2>11. \A i \in 1 .. n : i - 1 \in P => i \in P
    BY <2>10
  <2>12. P = 0 .. n
    <3>1. P \in SUBSET (0 .. n) /\ 0 \in P
      BY <2>9
    <3> HIDE DEF P
    <3> QED BY <2>11, <3>1, UpTo
  <2>13. Holds(n)
    <3>1. n \in P
      BY <2>12
    <3> QED BY <1>2, <3>1
  <2> QED BY <2>7, <2>13 DEF Holds
<1> QED BY <1>1, <1>2

-----------------------------------------------------------------------------
(* No sleep is so long that the time it has left, made an int, comes out   *)
(* negative.                                                               *)
ShortNaps == Nap < Word \div 2

-----------------------------------------------------------------------------
(***************************************************************************)
(* The inductive invariant.  A pass counts each thread it visits, those    *)
(* that wait and those that sleep apart: as long as only such threads were *)
(* counted, all it went past wait or sleep, and minsleep is the time of    *)
(* the sleeper, which only runs by a quantum of its own.  One that got a   *)
(* quantum makes the difference for the rest of the pass.                  *)
(***************************************************************************)
Counts ==
  /\ iowait \in Seq(Threads) /\ nsleep \in Nat /\ nthreads \in Nat
  /\ Len(iowait) + nsleep <= nthreads
  /\ phase = "run" => Len(iowait) + nsleep < nthreads

Clock ==
  /\ now \in 0 .. Horizon
  /\ wakeup \in 0 .. Horizon /\ wakeup <= now + Nap

Queue == vmthreads \in Seq(Threads) /\ turn \in Nat \ {0}

FirstSleep ==
  /\ minsleep \in Nat
  /\ phase \in {"visit", "run"} /\ nsleep = 0 => minsleep = Never

QuietSoFar ==
  phase \in {"visit", "run"} /\ Len(iowait) + nsleep = nthreads =>
    /\ nsleep > 0 => minsleep = wakeup
    /\ \A i \in 1 .. Len(vmthreads) : i < turn =>
         state[vmthreads[i]] = "iowait" \/ (nsleep > 0 /\ state[vmthreads[i]] = "sleep")

WaitInv ==
  /\ phase \in {"visit", "run", "poll", "nap", "done"}
  /\ state \in [Threads -> States]
  /\ Counts /\ Clock /\ Queue /\ FirstSleep /\ QuietSoFar
  /\ gcstatus \in {0, 1} /\ eptimeout \in Int
  /\ WaitsForeverOnlyForOthers

LEMMA WordSize == Word \in Nat /\ Word > 0 /\ Horizon \in Nat /\ Nap \in Nat
BY PortsAssumption

LEMMA LaterStill == \A a, b, c, d \in Int : a <= b + d /\ b <= c => a <= c + d
OBVIOUS

LEMMA WaitInvStart ==
  ASSUME Init
  PROVE  WaitInv
<1>1. Never \in Nat
  BY WordSize DEF Never
<1>2. vmthreads \in Seq(Threads)
  <2>1. "reader" \in Threads /\ "writer" \in Threads /\ "sleeper" \in Threads
    BY DEF Threads
  <2>2. \A a, b, c \in Threads : <<a, b, c>> \in Seq(Threads)
    OBVIOUS
  <2> QED BY <2>1, <2>2 DEF Init
<1>3. state \in [Threads -> States]
  BY DEF Init, States
<1>4. Counts /\ Clock
  BY WordSize DEF Init, Counts, Clock
<1> QED BY <1>1, <1>2, <1>3, <1>4
        DEF Init, WaitInv, Queue, FirstSleep, QuietSoFar, WaitsForeverOnlyForOthers

(* The time left, an unsigned difference read as an int, is what it ought  *)
(* to be.                                                                  *)
LEMMA TimeLeft ==
  ASSUME ShortNaps, now \in Nat, minsleep \in Nat, now <= minsleep, minsleep <= now + Nap
  PROVE  Signed(Until(minsleep)) = minsleep - now
<1>1. minsleep - now \in 0 .. Word - 1 /\ minsleep - now < Word \div 2
  <2>1. minsleep - now \in 0 .. Nap /\ Nap < Word \div 2 /\ Word \div 2 \in 0 .. Word
    BY WordSize DEF ShortNaps
  <2> QED BY <2>1, WordSize
<1>2. \A a \in Nat, w \in Nat \ {0} : a < w => a % w = a
  OBVIOUS
<1>3. (minsleep - now) % Word = minsleep - now
  BY <1>1, <1>2, WordSize
<1> QED BY <1>1, <1>3, WordSize DEF Signed, Until

-----------------------------------------------------------------------------
(* A step of the running thread: of all this it changes its own state.     *)
Quantum ==
  /\ phase = "run"
  /\ \/ UNCHANGED <<vmthreads, turn, phase>>
     \/ Stop
  /\ UNCHANGED <<pass, rest, now>>
  /\ \/ state' = state
     \/ \E st \in States : state' = [state EXCEPT ![Current] = st]
  /\ wakeup' = wakeup \/ (wakeup' \in 0 .. Horizon /\ wakeup' <= now + Nap)

LEMMA QuantumKeeps ==
  ASSUME WaitInv, Quantum
  PROVE  WaitInv'
<1>1. phase' \in {"visit", "run"} /\ UNCHANGED <<iowait, nsleep, nthreads, minsleep, now, gcstatus, eptimeout>>
  BY DEF Quantum, Stop, pass, rest
<1>2. state' \in [Threads -> States]
  BY DEF Quantum, WaitInv
<1>3. Counts'
  BY <1>1 DEF WaitInv, Counts, Quantum
<1>4. Clock'
  BY <1>1 DEF WaitInv, Clock, Quantum
<1>5. Queue'
  BY DEF WaitInv, Queue, Quantum, Stop
<1>6. FirstSleep'
  BY <1>1 DEF WaitInv, FirstSleep, Quantum
<1>7. Len(iowait') + nsleep' # nthreads'
  BY <1>1 DEF WaitInv, Counts, Quantum
<1>8. QuietSoFar'
  BY <1>7 DEF QuietSoFar
<1>9. WaitsForeverOnlyForOthers'
  BY <1>1 DEF WaitsForeverOnlyForOthers
<1> QED BY <1>1, <1>2, <1>3, <1>4, <1>5, <1>6, <1>8, <1>9 DEF WaitInv

LEMMA RunsAQuantum ==
  ASSUME WaitInv,
         \/ WriterNext \/ WriterReady \/ WriterPut
         \/ ReaderTakesBack \/ ReaderNext \/ ReaderReady \/ SockGet \/ FileGet
         \/ Sleeps
  PROVE  Quantum
<1>1. ASSUME NEW t \in Threads, NEW w, Runs(t, w)
      PROVE  phase = "run" /\ Current = t /\ UNCHANGED <<pass, rest, now>>
  BY <1>1 DEF Runs
<1>2. ASSUME NEW t \in Threads, NEW w, GoesTo(t, w)
      PROVE  state' = state /\ (UNCHANGED <<vmthreads, turn, phase>> \/ Stop)
  BY <1>2 DEF GoesTo, Stay, place
<1>3. ASSUME NEW t \in Threads, NEW st \in States, Becomes(t, st)
      PROVE  state' = [state EXCEPT ![t] = st] /\ Stop
  BY <1>3 DEF Becomes
<1>4. "writer" \in Threads /\ "reader" \in Threads /\ "sleeper" \in Threads
      /\ "release" \in States /\ "iowait" \in States /\ "sleep" \in States
  BY DEF Threads, States
<1>5. ASSUME NEW s, Assemble(s)
      PROVE  state' = state /\ (UNCHANGED <<vmthreads, turn, phase>> \/ Stop)
  BY <1>2, <1>4, <1>5 DEF Assemble
<1>6. CASE WriterNext
  BY <1>1, <1>2, <1>3, <1>4, <1>6 DEF WriterNext, Quantum, svars
<1>7. CASE WriterReady
  BY <1>1, <1>2, <1>3, <1>4, <1>7 DEF WriterReady, Quantum, svars
<1>8. CASE WriterPut
  BY <1>1, <1>2, <1>4, <1>8 DEF WriterPut, Quantum, svars
<1>9. CASE ReaderTakesBack
  BY <1>1, <1>2, <1>4, <1>9 DEF ReaderTakesBack, Quantum, svars
<1>10. CASE ReaderNext
  BY <1>1, <1>2, <1>4, <1>10 DEF ReaderNext, Quantum, svars
<1>11. CASE ReaderReady
  BY <1>1, <1>2, <1>3, <1>4, <1>11 DEF ReaderReady, Quantum, svars
<1>12. CASE SockGet
  <2>1. wakeup' = wakeup /\ Runs("reader", "get")
    BY <1>12 DEF SockGet, svars
  <2>2. EndOfFile \/ Assemble(Append(rbuf, Head(in)))
    BY <1>12 DEF SockGet
  <2> QED BY <2>1, <2>2, <1>1, <1>3, <1>4, <1>5 DEF EndOfFile, Quantum
<1>13. CASE FileGet
  <2>1. wakeup' = wakeup /\ Runs("reader", "get")
    BY <1>13 DEF FileGet, svars
  <2>2. EndOfFile \/ \E s : Assemble(s)
    BY <1>13 DEF FileGet
  <2> QED BY <2>1, <2>2, <1>1, <1>3, <1>4, <1>5 DEF EndOfFile, Quantum
<1>14. CASE Sleeps
  <2>1. wakeup' = wakeup \/ (wakeup' \in 0 .. Horizon /\ wakeup' <= now + Nap)
    <3>1. now \in Nat /\ Horizon \in Nat /\ Nap \in Nat
      BY WordSize DEF WaitInv, Clock
    <3> QED BY <3>1, <1>14 DEF Sleeps, svars
  <2>2. Runs("sleeper", "next") /\ (Becomes("sleeper", "release") \/ Becomes("sleeper", "sleep"))
    BY <1>14 DEF Sleeps
  <2> QED BY <2>1, <2>2, <1>1, <1>3, <1>4 DEF Quantum
<1> QED BY <1>6, <1>7, <1>8, <1>9, <1>10, <1>11, <1>12, <1>13, <1>14

-----------------------------------------------------------------------------
(* A visit of the pass. *)
LEMMA VisitKeeps ==
  ASSUME WaitInv,
         VisitReleased \/ VisitSleeping \/ VisitWaiting \/ VisitReady
  PROVE  WaitInv'
<1>0. phase = "visit" /\ turn \in 1 .. Len(vmthreads) /\ Current \in Threads
      /\ nthreads' = nthreads + 1
      /\ UNCHANGED <<now, wakeup, gcstatus, eptimeout>>
  BY DEF VisitReleased, VisitSleeping, VisitWaiting, VisitReady, Visiting, Counted, Current,
         WaitInv, Queue, rest, svars
<1>1. Clock'
  BY <1>0 DEF WaitInv, Clock
<1>2. phase' \in {"visit", "run"}
  BY <1>0 DEF VisitReleased, VisitSleeping, VisitWaiting, VisitReady, Onward
<1>3. WaitsForeverOnlyForOthers'
  BY <1>2 DEF WaitsForeverOnlyForOthers
<1>4. CASE VisitReleased
  <2>1. UNCHANGED <<turn, phase, iowait, nsleep, minsleep, state>>
    BY <1>4 DEF VisitReleased
  <2>2. vmthreads' \in Seq(Threads)
    BY <1>0, <1>4 DEF VisitReleased, RemoveAt, WaitInv, Queue
  <2>3. Counts' /\ Len(iowait') + nsleep' # nthreads'
    BY <1>0, <2>1 DEF WaitInv, Counts
  <2> QED BY <1>0, <1>1, <1>2, <1>3, <2>1, <2>2, <2>3
          DEF WaitInv, Queue, FirstSleep, QuietSoFar
<1>5. CASE VisitSleeping
  <2>1. UNCHANGED <<vmthreads, phase, iowait, state, wakeup>> /\ turn' = turn + 1
        /\ nsleep' = nsleep + 1 /\ minsleep' = Min({minsleep, wakeup})
        /\ state[Current] = "sleep"
    BY <1>0, <1>5 DEF VisitSleeping, Onward
  <2>2. Counts'
    BY <1>0, <2>1 DEF WaitInv, Counts
  <2>3. minsleep \in Nat /\ wakeup \in 0 .. Horizon /\ nsleep \in Nat /\ Len(iowait) \in Nat
        /\ nthreads \in Nat
    BY DEF WaitInv, FirstSleep, Clock, Counts
  <2>4. minsleep' \in Nat /\ (minsleep = Never \/ minsleep = wakeup => minsleep' = wakeup)
    <3>1. wakeup <= Never /\ wakeup \in Nat
      BY <2>3, WordSize, PortsAssumption DEF Never
    <3> QED BY <3>1, <2>1, <2>3 DEF Min
  <2>5. FirstSleep'
    BY <2>1, <2>3, <2>4 DEF FirstSleep
  <2>6. QuietSoFar'
    <3> SUFFICES ASSUME Len(iowait') + nsleep' = nthreads'
                 PROVE  /\ minsleep' = wakeup
                        /\ \A i \in 1 .. Len(vmthreads) : i < turn + 1 =>
                             state[vmthreads[i]] \in {"iowait", "sleep"}
      BY <2>1, <2>3 DEF QuietSoFar
    <3>1. Len(iowait) + nsleep = nthreads
      BY <1>0, <2>1, <2>3
    <3>2. minsleep = Never \/ minsleep = wakeup
      BY <3>1, <2>3, <1>0 DEF WaitInv, FirstSleep, QuietSoFar
    <3>3. ASSUME NEW i \in 1 .. Len(vmthreads), i < turn + 1
          PROVE  state[vmthreads[i]] \in {"iowait", "sleep"}
      <4>1. CASE i = turn
        BY <4>1, <2>1 DEF Current
      <4>2. CASE i < turn
        BY <3>1, <4>2, <1>0 DEF WaitInv, QuietSoFar
      <4> QED BY <3>3, <4>1, <4>2, <1>0
    <3> QED BY <3>2, <3>3, <2>4
  <2>7. Queue'
    BY <2>1 DEF WaitInv, Queue
  <2> QED BY <1>0, <1>1, <1>2, <1>3, <2>1, <2>2, <2>5, <2>6, <2>7 DEF WaitInv
<1>6. CASE VisitWaiting
  <2>1. UNCHANGED <<vmthreads, phase, nsleep, minsleep, state>> /\ turn' = turn + 1
        /\ iowait' = <<Current>> \o iowait /\ state[Current] = "iowait"
    BY <1>6 DEF VisitWaiting, Onward
  <2>2. iowait' \in Seq(Threads) /\ Len(iowait') = Len(iowait) + 1
    BY <1>0, <2>1 DEF WaitInv, Counts
  <2>3. Counts'
    BY <1>0, <2>1, <2>2 DEF WaitInv, Counts
  <2>4. QuietSoFar'
    <3> SUFFICES ASSUME Len(iowait') + nsleep = nthreads'
                 PROVE  /\ nsleep > 0 => minsleep = wakeup
                        /\ \A i \in 1 .. Len(vmthreads) : i < turn + 1 =>
                             \/ state[vmthreads[i]] = "iowait"
                             \/ nsleep > 0 /\ state[vmthreads[i]] = "sleep"
      BY <1>0, <2>1 DEF QuietSoFar
    <3>1. Len(iowait) + nsleep = nthreads
      BY <1>0, <2>2 DEF WaitInv, Counts
    <3>2. nsleep > 0 => minsleep = wakeup
      BY <3>1, <1>0 DEF WaitInv, QuietSoFar
    <3>3. ASSUME NEW i \in 1 .. Len(vmthreads), i < turn + 1
          PROVE  state[vmthreads[i]] = "iowait" \/ (nsleep > 0 /\ state[vmthreads[i]] = "sleep")
      <4>1. CASE i = turn
        BY <4>1, <2>1 DEF Current
      <4>2. CASE i < turn
        BY <3>1, <4>2, <1>0 DEF WaitInv, QuietSoFar
      <4> QED BY <3>3, <4>1, <4>2, <1>0
    <3> QED BY <3>2, <3>3
  <2>5. Queue' /\ FirstSleep'
    BY <1>0, <2>1 DEF WaitInv, Queue, FirstSleep
  <2> QED BY <1>0, <1>1, <1>2, <1>3, <2>1, <2>3, <2>4, <2>5 DEF WaitInv
<1>7. CASE VisitReady
  <2>1. UNCHANGED <<vmthreads, turn, iowait, nsleep, minsleep>> /\ phase' = "run"
        /\ state' = [state EXCEPT ![Current] = "ready"]
    BY <1>7 DEF VisitReady
  <2>2. Counts' /\ Len(iowait') + nsleep' # nthreads'
    BY <1>0, <2>1 DEF WaitInv, Counts
  <2>3. state' \in [Threads -> States]
    BY <1>0, <2>1 DEF WaitInv, States
  <2>4. Queue' /\ FirstSleep'
    BY <1>0, <2>1 DEF WaitInv, Queue, FirstSleep
  <2> QED BY <1>0, <1>1, <1>2, <1>3, <2>2, <2>3, <2>4 DEF WaitInv, QuietSoFar
<1> QED BY <1>4, <1>5, <1>6, <1>7

-----------------------------------------------------------------------------
(* What happens at the end of a pass and outside of the dispatcher.        *)
LEMMA WaitingKeeps ==
  ASSUME ShortNaps, WaitInv, Register \/ Poll \/ Rest \/ Finish
  PROVE  WaitInv'
<1>1. CASE Register
  <2>1. phase = "visit" /\ turn > Len(vmthreads) /\ phase' \in {"poll", "nap"}
        /\ UNCHANGED <<now, wakeup, vmthreads, turn, state, iowait, nsleep, nthreads, minsleep, gcstatus>>
        /\ (phase' = "poll" => eptimeout' = Timeout)
        /\ eptimeout' \in {eptimeout, Timeout}
    BY <1>1 DEF Register, Over, pass, svars
  <2>2. now \in Nat /\ minsleep \in Nat /\ Signed(Until(minsleep)) \in Int
        /\ nsleep \in Nat /\ Len(iowait) \in Nat /\ nthreads \in Nat
        /\ Len(iowait) + nsleep <= nthreads
    BY WordSize DEF WaitInv, Clock, FirstSleep, Counts, Signed, Until
  <2>3. Timeout \in Int
        /\ (Timeout < 0 => /\ Len(iowait) + nsleep = nthreads
                           /\ nsleep > 0 => Signed(Until(minsleep)) < 0)
    BY <2>2 DEF Timeout
  <2>4. \A t \in Range(vmthreads) : \E i \in 1 .. Len(vmthreads) : t = vmthreads[i] /\ i < turn
    BY <2>1 DEF WaitInv, Queue, Range
  <2>5. WaitsForeverOnlyForOthers'
    <3> SUFFICES ASSUME Timeout < 0, NEW t \in Range(vmthreads), state[t] # "iowait"
                 PROVE  state[t] = "sleep" /\ wakeup < now
      BY <2>1 DEF WaitsForeverOnlyForOthers
    <3>1. Len(iowait) + nsleep = nthreads
      BY <2>3
    <3>2. nsleep > 0 /\ state[t] = "sleep" /\ minsleep = wakeup
      BY <3>1, <2>1, <2>4 DEF WaitInv, QuietSoFar
    <3>3. Signed(Until(minsleep)) < 0
      BY <3>2, <2>3
    <3>4. minsleep <= now + Nap
      BY <3>2 DEF WaitInv, Clock
    <3>5. ~(now <= minsleep)
      BY <3>3, <3>4, <2>2, TimeLeft
    <3> QED BY <3>2, <3>5, <2>2
  <2> QED BY <2>1, <2>3, <2>5
          DEF WaitInv, Counts, Clock, Queue, FirstSleep, QuietSoFar
<1>2. CASE Poll
  <2>1. phase' = "nap" /\ now' \in 0 .. Horizon /\ now <= now'
        /\ UNCHANGED <<wakeup, vmthreads, turn, iowait, nsleep, nthreads, minsleep, gcstatus, eptimeout>>
    BY <1>2, WordSize DEF Poll, pass, rest, svars, WaitInv, Clock
  <2>2. state' \in [Threads -> States]
    BY <1>2 DEF Poll, WaitInv, States
  <2>3. Clock'
    <3>1. now \in Int /\ now' \in Int /\ now' \in 0 .. Horizon /\ now <= now' /\ Nap \in Int
      BY <2>1, WordSize DEF WaitInv, Clock
    <3>2. wakeup' \in 0 .. Horizon /\ wakeup' <= now + Nap /\ wakeup' \in Int
      BY <2>1, WordSize DEF WaitInv, Clock
    <3>3. wakeup' <= now' + Nap
      BY <3>1, <3>2, LaterStill
    <3> QED BY <3>1, <3>2, <3>3 DEF Clock
  <2> QED BY <2>1, <2>2, <2>3
          DEF WaitInv, Counts, Queue, FirstSleep, QuietSoFar,
              WaitsForeverOnlyForOthers
<1>3. CASE Rest
  <2>1. phase' = "visit" /\ turn' = 1 /\ nthreads' = 0 /\ iowait' = <<>> /\ nsleep' = 0
        /\ minsleep' = Never /\ gcstatus' \in {0, 1} /\ now' = now + NapLength
        /\ now + NapLength <= Horizon
        /\ UNCHANGED <<wakeup, vmthreads, state, eptimeout>>
    BY <1>3 DEF Rest, svars
  <2>2. NapLength \in Nat
    BY WordSize DEF NapLength, Until, WaitInv, Clock, FirstSleep
  <2>3. Clock'
    BY <2>1, <2>2, WordSize DEF WaitInv, Clock
  <2>4. Never \in Nat
    BY WordSize DEF Never
  <2> QED BY <2>1, <2>3, <2>4
          DEF WaitInv, Counts, Queue, FirstSleep, QuietSoFar, WaitsForeverOnlyForOthers
<1>4. CASE Finish
  BY <1>4 DEF Finish, pass, rest, svars, WaitInv, Counts, Clock, Queue, FirstSleep,
              QuietSoFar, WaitsForeverOnlyForOthers
<1> QED BY <1>1, <1>2, <1>3, <1>4

LEMMA OutsideKeeps ==
  ASSUME WaitInv, PeerTakes \/ PeerAnswers \/ Tick \/ UNCHANGED vars
  PROVE  WaitInv'
<1>1. UNCHANGED <<wakeup, vmthreads, turn, phase, state, iowait, nsleep, nthreads, minsleep,
                  gcstatus, eptimeout>>
  BY DEF PeerTakes, PeerAnswers, Tick, vars, svars, sched, place, pass, rest
<1>2. now' \in 0 .. Horizon /\ now <= now'
  <2>1. nsleep \in Nat /\ nthreads \in Nat /\ Len(iowait) \in Nat /\ nsleep + Len(iowait) <= nthreads
        /\ now \in 0 .. Horizon /\ Horizon \in Nat
    BY WordSize DEF WaitInv, Counts, Clock
  <2>2. CASE Tick
    BY <2>1, <2>2 DEF Tick
  <2>3. CASE PeerTakes \/ PeerAnswers \/ UNCHANGED vars
    BY <2>1, <2>3 DEF PeerTakes, PeerAnswers, vars
  <2> QED BY <2>2, <2>3
<1>3. Clock'
  <2>1. now \in Int /\ now' \in Int /\ now' \in 0 .. Horizon /\ now <= now' /\ Nap \in Int
    BY <1>1, <1>2, WordSize DEF WaitInv, Clock
  <2>2. wakeup' \in 0 .. Horizon /\ wakeup' <= now + Nap /\ wakeup' \in Int
    BY <1>1, <1>2, WordSize DEF WaitInv, Clock
  <2>3. wakeup' <= now' + Nap
    BY <2>1, <2>2, LaterStill
  <2> QED BY <2>1, <2>2, <2>3 DEF Clock
<1>4. WaitsForeverOnlyForOthers'
  <2>1. wakeup \in Int /\ now \in Int /\ now' \in Int
    BY <1>2, WordSize DEF WaitInv, Clock
  <2> QED BY <1>1, <1>2, <2>1 DEF WaitInv, WaitsForeverOnlyForOthers
<1> QED BY <1>1, <1>3, <1>4 DEF WaitInv, Counts, Queue, FirstSleep, QuietSoFar

(***************************************************************************)
(* However far the clock advances during a pass, the dispatcher hands      *)
(* epoll_wait a negative timeout only when every thread left waits for a   *)
(* descriptor or is a sleeper whose time came while the pass went on, for  *)
(* any text, order of the queue, sizes of the buffers, and descriptors     *)
(* shared or not (the int made of minsleep - now in arc_thread_dispatch).  *)
(***************************************************************************)
THEOREM NobodyIsForgotten ==
  ASSUME ShortNaps
  PROVE  Spec => []WaitsForeverOnlyForOthers
<1>1. Init => WaitInv
  BY WaitInvStart
<1>2. WaitInv /\ [Next]_vars => WaitInv'
  <2> SUFFICES ASSUME WaitInv, [Next]_vars PROVE WaitInv'
    OBVIOUS
  <2>1. CASE VisitReleased \/ VisitSleeping \/ VisitWaiting \/ VisitReady
    BY <2>1, VisitKeeps
  <2>2. CASE \/ WriterNext \/ WriterReady \/ WriterPut
             \/ ReaderTakesBack \/ ReaderNext \/ ReaderReady \/ SockGet \/ FileGet
             \/ Sleeps
    BY <2>2, RunsAQuantum, QuantumKeeps
  <2>3. CASE Register \/ Poll \/ Rest \/ Finish
    BY <2>3, WaitingKeeps
  <2>4. CASE PeerTakes \/ PeerAnswers \/ Tick \/ UNCHANGED vars
    BY <2>4, OutsideKeeps
  <2> QED BY <2>1, <2>2, <2>3, <2>4 DEF Next, Dispatch
<1>3. WaitInv => WaitsForeverOnlyForOthers
  BY DEF WaitInv
<1> QED BY <1>1, <1>2, <1>3, PTL DEF Spec

-----------------------------------------------------------------------------
(***************************************************************************)
(* UTF-8.  runetochar encodes the runes up to 65534 in one, two or three   *)
(* bytes as UTF-8 says; 65535, for which its test is r < Rune3, and those  *)
(* beyond get a fourth byte and the mark of three.                         *)
(***************************************************************************)
Basic == 0 .. 65534

Code(r)  == IF r <= 127 THEN <<r>>
            ELSE IF r <= 2047 THEN <<192 + (r \div 64), 128 + (r % 64)>>
            ELSE <<224 + (r \div 4096), 128 + ((r \div 64) % 64), 128 + (r % 64)>>

(* The last runes of the first forms.                                      *)
LEMMA Bounds ==
  /\ RuneMax[1] = 127 /\ RuneMax[2] = 2047
  /\ \A r \in Basic : r \in Nat /\ r < RuneMax[3]
BY SMT DEF RuneMax, Basic

(* How many bytes runetochar takes.                                        *)
LEMMA FormIs ==
  ASSUME NEW r \in Basic
  PROVE  FormOf(r) = IF r <= 127 THEN 1 ELSE IF r <= 2047 THEN 2 ELSE 3
<1>1. r \in Nat /\ r < RuneMax[3] /\ RuneMax[1] = 127 /\ RuneMax[2] = 2047
  BY Bounds
<1>2. ASSUME r > 2047 PROVE Min({f \in 3 .. UTFmax : r < RuneMax[f] \/ f = UTFmax}) = 3
  <2> DEFINE S == {f \in 3 .. UTFmax : r < RuneMax[f] \/ f = UTFmax}
  <2>1. 3 \in S /\ \A f \in S : 3 <= f /\ f \in Int
    BY <1>1, SMT DEF UTFmax
  <2> HIDE DEF S
  <2>2. Min(S) = CHOOSE x \in S : \A y \in S : x <= y
    BY SMT DEF Min
  <2>3. Min(S) \in S /\ \A y \in S : Min(S) <= y
    BY <2>1, <2>2, SMT
  <2>4. Min(S) = 3
    BY <2>1, <2>3, SMT
  <2> QED BY <2>4 DEF S
<1>3. CASE r <= 2047
  BY <1>1, <1>3, SMT DEF FormOf
<1>4. CASE r > 2047
  <2> DEFINE m == Min({f \in 3 .. UTFmax : r < RuneMax[f] \/ f = UTFmax})
  <2>1. m = 3
    BY <1>2, <1>4
  <2>2. FormOf(r) = IF r <= RuneMax[2] THEN IF r <= RuneMax[1] THEN 1 ELSE 2 ELSE m
    BY SMT DEF FormOf
  <2> HIDE DEF m
  <2> QED BY <1>1, <1>4, <2>1, <2>2, SMT
<1> QED BY <1>1, <1>3, <1>4, SMT

(* A first byte and the others.                                            *)
LEMMA Joins ==
  /\ \A a, b : <<a>> \o <<b>> = <<a, b>>
  /\ \A a, b, c : <<a>> \o <<b, c>> = <<a, b, c>>
<1>1. ASSUME NEW a, NEW b PROVE <<a>> \o <<b>> = <<a, b>>
  <2>1. <<a>> \in Seq({a, b}) /\ <<b>> \in Seq({a, b}) /\ Len(<<a>>) = 1 /\ Len(<<b>>) = 1
    OBVIOUS
  <2> DEFINE u == <<a>> \o <<b>>
  <2>2. u \in Seq({a, b}) /\ Len(u) = 2 /\ u[1] = a /\ u[2] = b
    BY <2>1
  <2> HIDE DEF u
  <2>3. u = <<a, b>>
    BY <2>2
  <2> QED BY <2>3 DEF u
<1>2. ASSUME NEW a, NEW b, NEW c PROVE <<a>> \o <<b, c>> = <<a, b, c>>
  <2>1. /\ <<a>> \in Seq({a, b, c}) /\ <<b, c>> \in Seq({a, b, c})
        /\ Len(<<a>>) = 1 /\ Len(<<b, c>>) = 2
    OBVIOUS
  <2> DEFINE u == <<a>> \o <<b, c>>
  <2>2. u \in Seq({a, b, c}) /\ Len(u) = 3 /\ u[1] = a /\ u[2] = b /\ u[3] = c
    BY <2>1
  <2> HIDE DEF u
  <2>3. u = <<a, b, c>>
    BY <2>2
  <2> QED BY <2>3 DEF u
<1> QED BY <1>1, <1>2

(* runetochar, for the runes it encodes right.                             *)
LEMMA CodeIs ==
  ASSUME NEW r \in Basic
  PROVE  RuneToChar(r) = Code(r)
<1>0. r \in Nat /\ r \div 1 = r
  BY Bounds, SMT
<1>1. CASE r <= 127
  <2>1. FormOf(r) = 1
    BY <1>0, <1>1, FormIs, SMT
  <2>2. Mark[1] = 0 /\ Power(0) = 1
    BY DEF Mark, T, Power
  <2>3. RuneToChar(r) = <<(0 + (r \div 1)) % 256>> \o [i \in 1 .. 0 |-> Tx + ((r \div Power(1 - 1 - i)) % 64)]
    BY <2>1, <2>2 DEF RuneToChar
  <2>4. (0 + (r \div 1)) % 256 = r
    BY <1>0, <1>1, SMT
  <2>5. [i \in 1 .. 0 |-> Tx + ((r \div Power(1 - 1 - i)) % 64)] = <<>>
    OBVIOUS
  <2>6. <<r>> \o <<>> = <<r>>
    OBVIOUS
  <2> QED BY <1>1, <2>3, <2>4, <2>5, <2>6 DEF Code
<1>2. CASE r > 127 /\ r <= 2047
  <2>1. FormOf(r) = 2
    BY <1>0, <1>2, FormIs, SMT
  <2>2. Mark[2] = 192 /\ Power(0) = 1 /\ Power(1) = 64
    BY DEF Mark, T, Power
  <2> DEFINE tl == [i \in 1 .. 1 |-> Tx + ((r \div Power(2 - 1 - i)) % 64)]
  <2>3. RuneToChar(r) = <<(192 + (r \div 64)) % 256>> \o tl
    BY <2>1, <2>2 DEF RuneToChar
  <2>4. (192 + (r \div 64)) % 256 = 192 + (r \div 64)
    BY <1>0, <1>2, SMT
  <2>5. tl = <<128 + (r % 64)>>
    <3>1. tl[1] = 128 + (r % 64)
      <4>1. Power(2 - 1 - 1) = 1
        BY <2>2
      <4>2. tl[1] = Tx + ((r \div Power(2 - 1 - 1)) % 64)
        BY SMT
      <4>3. tl[1] = 128 + ((r \div 1) % 64)
        BY <4>1, <4>2 DEF Tx
      <4>4. (r \div 1) % 64 = r % 64
        BY <1>0, SMT
      <4> QED BY <4>3, <4>4
    <3>2. tl = <<tl[1]>>
      BY SMT
    <3> QED BY <3>1, <3>2
  <2> HIDE DEF tl
  <2>6. <<192 + (r \div 64)>> \o <<128 + (r % 64)>> = <<192 + (r \div 64), 128 + (r % 64)>>
    BY Joins
  <2>7. Code(r) = <<192 + (r \div 64), 128 + (r % 64)>>
    BY <1>0, <1>2, SMT DEF Code
  <2> QED BY <2>3, <2>4, <2>5, <2>6, <2>7
<1>3. CASE r > 2047
  <2>1. FormOf(r) = 3
    BY <1>0, <1>3, FormIs, SMT
  <2>2. Mark[3] = 224 /\ Power(0) = 1 /\ Power(1) = 64 /\ Power(2) = 4096
    BY DEF Mark, T, Power
  <2> DEFINE tl == [i \in 1 .. 2 |-> Tx + ((r \div Power(3 - 1 - i)) % 64)]
  <2>3. RuneToChar(r) = <<(224 + (r \div 4096)) % 256>> \o tl
    BY <2>1, <2>2 DEF RuneToChar
  <2>4. (224 + (r \div 4096)) % 256 = 224 + (r \div 4096)
    <3>1. r \div 4096 \in 0 .. 15
      BY SMT DEF Basic
    <3> QED BY <3>1, SMT
  <2>5. tl = <<128 + ((r \div 64) % 64), 128 + (r % 64)>>
    <3>1. tl[1] = 128 + ((r \div 64) % 64) /\ tl[2] = 128 + (r % 64)
      <4>1. Power(3 - 1 - 1) = 64 /\ Power(3 - 1 - 2) = 1
        BY <2>2
      <4>2. tl[1] = Tx + ((r \div Power(3 - 1 - 1)) % 64) /\ tl[2] = Tx + ((r \div Power(3 - 1 - 2)) % 64)
        BY SMT
      <4>3. tl[1] = 128 + ((r \div 64) % 64) /\ tl[2] = 128 + ((r \div 1) % 64)
        BY <4>1, <4>2 DEF Tx
      <4>4. (r \div 1) % 64 = r % 64
        BY <1>0, SMT
      <4> QED BY <4>3, <4>4
    <3>2. tl = <<tl[1], tl[2]>>
      BY SMT
    <3> QED BY <3>1, <3>2
  <2> HIDE DEF tl
  <2>6. <<224 + (r \div 4096)>> \o <<128 + ((r \div 64) % 64), 128 + (r % 64)>>
        = <<224 + (r \div 4096), 128 + ((r \div 64) % 64), 128 + (r % 64)>>
    BY Joins
  <2>7. Code(r) = <<224 + (r \div 4096), 128 + ((r \div 64) % 64), 128 + (r % 64)>>
    BY <1>0, <1>3, SMT DEF Code
  <2> QED BY <2>3, <2>4, <2>5, <2>6, <2>7
<1> QED BY <1>1, <1>2, <1>3, <1>0, SMT

(* The runes that chartorune does not accept.                              *)
Surrogates == 55296 .. 57343

(* What chartorune adds up from two bytes, and from three.                 *)
LEMMA ValueOfTwo ==
  ASSUME NEW s, s[1] \in Nat, s[2] \in Nat
  PROVE  Value(s, 2) = ((s[1] % 32) * 64) + (s[2] - 128)
<1> DEFINE Step(l) == [i \in 1 .. 2 |-> IF i = 1 THEN s[1] % Lead[2] ELSE l[i - 1] * 64 + (s[i] - Tx)]
           l == CHOOSE g : g = Step(g)
           a == s[1] % Lead[2]
           b == a * 64 + (s[2] - Tx)
           k == [i \in 1 .. 2 |-> IF i = 1 THEN a ELSE b]
<1>1. k = Step(k)
  <2>1. k[1] = a /\ k[2] = b
    OBVIOUS
  <2> HIDE DEF k
  <2>2. \A i \in 1 .. 2 : i # 1 => i = 2 /\ i - 1 = 1
    OBVIOUS
  <2>3. \A i \in 1 .. 2 : (IF i = 1 THEN a ELSE b) = IF i = 1 THEN s[1] % Lead[2] ELSE k[i - 1] * 64 + (s[i] - Tx)
    BY <2>1, <2>2
  <2> QED BY <2>3 DEF k
<1>2. l = Step(l)
  <2> HIDE DEF k, Step
  <2> QED BY <1>1
<1>3. Value(s, 2) = l[2]
  BY DEF Value
<1> HIDE DEF l, k
<1>4. l[1] = a
  BY <1>2
<1>5. l[2] = l[1] * 64 + (s[2] - Tx)
  BY <1>2
<1>6. Lead[2] = 32 /\ Tx = 128
  BY DEF Lead, Tx
<1> QED BY <1>3, <1>4, <1>5, <1>6

LEMMA ValueOfThree ==
  ASSUME NEW s, s[1] \in Nat, s[2] \in Nat, s[3] \in Nat
  PROVE  Value(s, 3) = ((((s[1] % 16) * 64) + (s[2] - 128)) * 64) + (s[3] - 128)
<1> DEFINE Step(l) == [i \in 1 .. 3 |-> IF i = 1 THEN s[1] % Lead[3] ELSE l[i - 1] * 64 + (s[i] - Tx)]
           l == CHOOSE g : g = Step(g)
           a == s[1] % Lead[3]
           b == a * 64 + (s[2] - Tx)
           c == b * 64 + (s[3] - Tx)
           k == [i \in 1 .. 3 |-> IF i = 1 THEN a ELSE IF i = 2 THEN b ELSE c]
<1>1. k = Step(k)
  <2>1. k[1] = a /\ k[2] = b /\ k[3] = c
    OBVIOUS
  <2> HIDE DEF k
  <2>2. \A i \in 1 .. 3 : (i # 1 /\ i # 2 => i = 3 /\ i - 1 = 2) /\ (i = 2 => i - 1 = 1)
    OBVIOUS
  <2>3. \A i \in 1 .. 3 : (IF i = 1 THEN a ELSE IF i = 2 THEN b ELSE c)
                          = IF i = 1 THEN s[1] % Lead[3] ELSE k[i - 1] * 64 + (s[i] - Tx)
    BY <2>1, <2>2
  <2> QED BY <2>3 DEF k
<1>2. l = Step(l)
  <2> HIDE DEF k, Step
  <2> QED BY <1>1
<1>3. Value(s, 3) = l[3]
  BY DEF Value
<1> HIDE DEF l, k
<1>4. l[1] = a
  BY <1>2
<1>5. l[2] = l[1] * 64 + (s[2] - Tx)
  BY <1>2
<1>6. l[3] = l[2] * 64 + (s[3] - Tx)
  BY <1>2
<1>7. Lead[3] = 16 /\ Tx = 128
  BY DEF Lead, Tx
<1> QED BY <1>3, <1>4, <1>5, <1>6, <1>7

(* The first byte says how many there are. *)
LEMMA LeadIs ==
  ASSUME NEW b \in 0 .. 239, b < 128 \/ b >= 192
  PROVE  LeadForm(b) = IF b < 128 THEN 1 ELSE IF b < 224 THEN 2 ELSE 3
<1>1. /\ Tx = 128 /\ UTFmax + 1 = 7
      /\ T[2] = 192 /\ T[3] = 224 /\ T[4] = 240 /\ T[5] = 248 /\ T[6] = 252 /\ T[7] = 254
  BY DEF Tx, UTFmax, T
<1> DEFINE P(n) == (n = UTFmax + 1 \/ b < T[n + 1]) /\ (n = 2 \/ b >= T[n])
<1>2. CASE b < 128
  BY <1>1, <1>2 DEF LeadForm
<1>3. ASSUME b >= 128
      PROVE  \A n \in 2 .. 7 : P(n) <=> n = IF b < 224 THEN 2 ELSE 3
  <2>1. \A n \in 2 .. 7 : n = 2 \/ n = 3 \/ n = 4 \/ n = 5 \/ n = 6 \/ n = 7
    OBVIOUS
  <2>2. P(2) <=> b < 224
    BY <1>1
  <2>3. P(3) <=> b >= 224
    BY <1>1
  <2>4. ~ P(4) /\ ~ P(5) /\ ~ P(6) /\ ~ P(7)
    BY <1>1
  <2> HIDE DEF P
  <2> QED BY <2>1, <2>2, <2>3, <2>4
<1>4. CASE b >= 128
  <2>1. LeadForm(b) = CHOOSE n \in 2 .. 7 : P(n)
    BY <1>1, <1>4 DEF LeadForm
  <2> HIDE DEF P
  <2>2. (CHOOSE n \in 2 .. 7 : P(n)) = IF b < 224 THEN 2 ELSE 3
    BY <1>3, <1>4
  <2> QED BY <2>1, <2>2, <1>4
<1> QED BY <1>2, <1>4

(* The bytes of a rune, one by one.                                        *)
LEMMA CodeShape ==
  ASSUME NEW r \in Basic
  PROVE  /\ Code(r) \in Seq(Byte)
         /\ Len(Code(r)) = IF r <= 127 THEN 1 ELSE IF r <= 2047 THEN 2 ELSE 3
         /\ r <= 127 => Code(r)[1] = r /\ r \in 0 .. 127
         /\ r > 127 /\ r <= 2047 => /\ Code(r)[1] = 192 + (r \div 64) /\ Code(r)[1] \in 192 .. 223
                                    /\ Code(r)[2] = 128 + (r % 64) /\ Code(r)[2] \in 128 .. 191
         /\ r > 2047 => /\ Code(r)[1] = 224 + (r \div 4096) /\ Code(r)[1] \in 224 .. 239
                        /\ Code(r)[2] = 128 + ((r \div 64) % 64) /\ Code(r)[2] \in 128 .. 191
                        /\ Code(r)[3] = 128 + (r % 64) /\ Code(r)[3] \in 128 .. 191
<1>0. r \in Nat /\ (r \div 4096) \in 0 .. 15 /\ (r <= 2047 => (r \div 64) \in 0 .. 31)
      /\ (r \div 64) \in Nat /\ (r % 64) \in 0 .. 63 /\ ((r \div 64) % 64) \in 0 .. 63
  <2>1. r \in Nat
    BY SMT DEF Basic
  <2>2. (r \div 4096) \in 0 .. 15
    BY SMT DEF Basic
  <2>3. r <= 2047 => (r \div 64) \in 0 .. 31
    BY <2>1, SMT
  <2>4. (r \div 64) \in Nat /\ (r % 64) \in 0 .. 63
    BY <2>1, SMT
  <2>5. ((r \div 64) % 64) \in 0 .. 63
    <3>1. \A x \in Nat : (x % 64) \in 0 .. 63
      BY SMT
    <3> QED BY <3>1, <2>4, SMT
  <2> QED BY <2>1, <2>2, <2>3, <2>4, <2>5, SMT
<1> DEFINE q == r \div 64
           h == r \div 4096
           a == r % 64
           b == q % 64
<1>1. r \in Nat /\ h \in 0 .. 15 /\ (r <= 2047 => q \in 0 .. 31) /\ a \in 0 .. 63 /\ b \in 0 .. 63 /\ q \in Nat
  BY <1>0
<1>2. Code(r) = IF r <= 127 THEN <<r>> ELSE IF r <= 2047 THEN <<192 + q, 128 + a>> ELSE <<224 + h, 128 + b, 128 + a>>
  BY DEF Code
<1> HIDE DEF q, h, a, b
<1>3. CASE r <= 127
  BY <1>1, <1>2, <1>3, SMT DEF Byte
<1>4. CASE r > 127 /\ r <= 2047
  <2>1. 192 + q \in Byte /\ 128 + a \in Byte /\ 192 + q \in 192 .. 223 /\ 128 + a \in 128 .. 191
    BY <1>1, <1>4, SMT DEF Byte
  <2>2. <<192 + q, 128 + a>> \in Seq(Byte)
    BY <2>1
  <2>3. Code(r) = <<192 + q, 128 + a>>
    BY <1>1, <1>2, <1>4, SMT
  <2>4. Len(Code(r)) = 2 /\ Code(r)[1] = 192 + q /\ Code(r)[2] = 128 + a
    BY <2>3, SMT
  <2> QED BY <1>1, <1>4, <2>1, <2>2, <2>3, <2>4, SMT DEF q, a
<1>5. CASE r > 2047
  <2>1. 224 + h \in Byte /\ 128 + b \in Byte /\ 128 + a \in Byte
        /\ 224 + h \in 224 .. 239 /\ 128 + b \in 128 .. 191 /\ 128 + a \in 128 .. 191
    BY <1>1, <1>5, SMT DEF Byte
  <2>2. <<224 + h, 128 + b, 128 + a>> \in Seq(Byte)
    BY <2>1
  <2>3. Code(r) = <<224 + h, 128 + b, 128 + a>>
    BY <1>1, <1>2, <1>5, SMT
  <2>4. Len(Code(r)) = 3 /\ Code(r)[1] = 224 + h /\ Code(r)[2] = 128 + b /\ Code(r)[3] = 128 + a
    BY <2>3, SMT
  <2> QED BY <1>1, <1>5, <2>1, <2>2, <2>3, <2>4, SMT DEF q, a, b, h
<1> QED BY <1>1, <1>3, <1>4, <1>5, SMT

(* Quotients and remainders.                                               *)
LEMMA Mods ==
  /\ \A q \in 0 .. 31 : (192 + q) % 32 = q
  /\ \A h \in 0 .. 15 : (224 + h) % 16 = h
  /\ \A r \in Nat : r = (64 * (r \div 64)) + (r % 64)
  /\ \A r \in Nat : (r \div 64) \div 64 = r \div 4096
  /\ \A r \in Nat : r \div 64 \in Nat /\ r \div 4096 \in Nat
  /\ \A r \in Nat : r % 64 \in 0 .. 63
<1>1. \A q \in 0 .. 31 : (192 + q) % 32 = q
  BY SMT
<1>2. \A h \in 0 .. 15 : (224 + h) % 16 = h
  BY SMT
<1>3. \A r \in Nat : r = (64 * (r \div 64)) + (r % 64)
  BY SMT
<1>4. \A r \in Nat : (r \div 64) \div 64 = r \div 4096
  BY SMT
<1>5. \A r \in Nat : r \div 64 \in Nat /\ r \div 4096 \in Nat
  BY SMT
<1>6. \A r \in Nat : r % 64 \in 0 .. 63
  BY SMT
<1> QED BY <1>1, <1>2, <1>3, <1>4, <1>5, <1>6

(* What chartorune does with one, two and three bytes.                     *)
LEMMA CharToRuneIs ==
  ASSUME NEW s, NEW n, n = LeadForm(s[1]), NEW l, l = Value(s, n)
  PROVE  CharToRune(s) =
           IF n = 1 THEN [rune |-> s[1], size |-> 1]
           ELSE IF n > UTFmax \/ s[1] < T[2] \/ \E i \in 2 .. n : ~ Continues(s[i])
                THEN Bad
                ELSE IF l <= RuneMax[n - 1] \/ (n = 3 /\ l \in Surrogates) THEN Bad
                     ELSE [rune |-> l, size |-> n]
BY DEF CharToRune, Surrogates

LEMMA DecodeOne ==
  ASSUME NEW s, s[1] \in 0 .. 127
  PROVE  CharToRune(s).rune = s[1]
<1>1. LeadForm(s[1]) = 1
  <2>1. s[1] \in 0 .. 239 /\ s[1] < 128
    BY SMT
  <2> QED BY <2>1, LeadIs
<1> QED BY <1>1, CharToRuneIs

TwoBytes(s, q, a, r) ==
  /\ q \in 0 .. 31 /\ a \in 0 .. 63 /\ s[1] = 192 + q /\ s[2] = 128 + a
  /\ r \in Nat /\ r = (q * 64) + a /\ r > 127

LEMMA DecodeTwo ==
  ASSUME NEW s, NEW q, NEW a, NEW r, TwoBytes(s, q, a, r)
  PROVE  CharToRune(s).rune = r
<1> USE DEF TwoBytes
<1>0. RuneMax[1] = 127 /\ Tx = 128 /\ T[2] = 192 /\ UTFmax = 6
  BY Bounds, SMT DEF Tx, T, UTFmax
<1>1. LeadForm(s[1]) = 2
  <2>1. s[1] \in 0 .. 239 /\ ~ (s[1] < 128) /\ s[1] >= 192 /\ s[1] < 224
    BY SMT
  <2> QED BY <2>1, LeadIs
<1>2. Value(s, 2) = r
  <2>1. s[1] \in Nat /\ s[2] \in Nat
    BY SMT
  <2>2. Value(s, 2) = ((s[1] % 32) * 64) + (s[2] - 128)
    BY <2>1, ValueOfTwo
  <2>3. s[1] % 32 = q /\ s[2] - 128 = a
    BY Mods, SMT
  <2> QED BY <2>2, <2>3
<1>3. \A i \in 2 .. 2 : Continues(s[i])
  BY <1>0, SMT DEF Continues
<1>4. ~ (s[1] < T[2]) /\ ~ (r <= RuneMax[2 - 1]) /\ ~ (2 > UTFmax)
  BY <1>0, SMT
<1>5. CharToRune(s) = [rune |-> r, size |-> 2]
  BY <1>1, <1>2, <1>3, <1>4, CharToRuneIs
<1> QED BY <1>5

ThreeBytes(s, h, b, a, r) ==
  /\ h \in 0 .. 15 /\ b \in 0 .. 63 /\ a \in 0 .. 63
  /\ s[1] = 224 + h /\ s[2] = 128 + b /\ s[3] = 128 + a
  /\ r \in Nat /\ r = (((h * 64) + b) * 64) + a /\ r > 2047 /\ r \notin Surrogates

LEMMA DecodeThree ==
  ASSUME NEW s, NEW h, NEW b, NEW a, NEW r, ThreeBytes(s, h, b, a, r)
  PROVE  CharToRune(s).rune = r
<1> USE DEF ThreeBytes
<1>0. RuneMax[2] = 2047 /\ Tx = 128 /\ T[2] = 192 /\ UTFmax = 6
  BY Bounds, SMT DEF Tx, T, UTFmax
<1>1. LeadForm(s[1]) = 3
  <2>1. s[1] \in 0 .. 239 /\ ~ (s[1] < 128) /\ s[1] >= 192 /\ ~ (s[1] < 224)
    BY SMT
  <2> QED BY <2>1, LeadIs
<1>2. Value(s, 3) = r
  <2>1. s[1] \in Nat /\ s[2] \in Nat /\ s[3] \in Nat
    BY SMT
  <2>2. Value(s, 3) = ((((s[1] % 16) * 64) + (s[2] - 128)) * 64) + (s[3] - 128)
    BY <2>1, ValueOfThree
  <2>3. s[1] % 16 = h /\ s[2] - 128 = b /\ s[3] - 128 = a
    BY Mods, SMT
  <2> QED BY <2>2, <2>3
<1>3. \A i \in 2 .. 3 : Continues(s[i])
  <2>1. \A i \in 2 .. 3 : i = 2 \/ i = 3
    OBVIOUS
  <2>2. Continues(s[2]) /\ Continues(s[3])
    BY <1>0, SMT DEF Continues
  <2> QED BY <2>1, <2>2
<1>4. ~ (s[1] < T[2]) /\ ~ (r <= RuneMax[3 - 1]) /\ ~ (3 > UTFmax)
  BY <1>0, SMT
<1>5. CharToRune(s) = [rune |-> r, size |-> 3]
  BY <1>1, <1>2, <1>3, <1>4, CharToRuneIs
<1> QED BY <1>5

(* chartorune gives the rune back, whatever follows its bytes.             *)
LEMMA DecodesCode ==
  ASSUME NEW r \in Basic, r \notin Surrogates, NEW s,
         \A i \in 1 .. Len(Code(r)) : s[i] = Code(r)[i]
  PROVE  CharToRune(s).rune = r
<1>0. r \in Nat
  BY Bounds
<1> DEFINE q == r \div 64
           h == r \div 4096
           a == r % 64
           b == q % 64
<1>1. q \in Nat /\ h \in Nat /\ a \in 0 .. 63 /\ b \in 0 .. 63
  <2>1. q \in Nat /\ h \in Nat /\ a \in 0 .. 63
    BY <1>0, Mods
  <2> HIDE DEF q
  <2>2. b \in 0 .. 63
    BY <2>1, Mods
  <2> QED BY <2>1, <2>2
<1>2. r = (64 * q) + a /\ q = (64 * h) + b
  <2>1. r = (64 * q) + a
    BY <1>0, Mods
  <2>2. q = (64 * (q \div 64)) + b
    BY <1>1, Mods
  <2>3. q \div 64 = h
    BY <1>0, Mods
  <2> QED BY <2>1, <2>2, <2>3
<1> DEFINE d == Code(r)
<1>3. /\ r <= 127 => Len(d) = 1 /\ d[1] = r
      /\ r > 127 /\ r <= 2047 => Len(d) = 2 /\ d[1] = 192 + q /\ d[2] = 128 + a /\ d[1] \in 192 .. 223
      /\ r > 2047 => Len(d) = 3 /\ d[1] = 224 + h /\ d[2] = 128 + b /\ d[3] = 128 + a /\ d[1] \in 224 .. 239
  BY <1>0, CodeShape, SMT
<1>4. \A i \in 1 .. Len(d) : s[i] = d[i]
  OBVIOUS
<1> HIDE DEF q, h, a, b, d
<1>5. CASE r <= 127
  <2>1. s[1] = r /\ r \in 0 .. 127
    BY <1>0, <1>3, <1>4, <1>5, SMT
  <2> QED BY <2>1, DecodeOne
<1>6. CASE r > 127 /\ r <= 2047
  <2>1. d[1] = 192 + q /\ d[1] \in 192 .. 223 /\ d[2] = 128 + a /\ Len(d) = 2
    BY <1>3, <1>6
  <2>2. s[1] = 192 + q /\ s[2] = 128 + a
    BY <1>4, <2>1, SMT
  <2>3. q \in 0 .. 31
    BY <1>1, <2>1, SMT
  <2>4. r = (q * 64) + a
    BY <1>0, <1>1, <1>2, SMT
  <2>5. TwoBytes(s, q, a, r)
    BY <1>0, <1>1, <1>6, <2>2, <2>3, <2>4, SMT DEF TwoBytes
  <2> QED BY <2>5, DecodeTwo
<1>7. CASE r > 2047
  <2>1. d[1] = 224 + h /\ d[1] \in 224 .. 239 /\ d[2] = 128 + b /\ d[3] = 128 + a /\ Len(d) = 3
    BY <1>3, <1>7
  <2>2. s[1] = 224 + h /\ s[2] = 128 + b /\ s[3] = 128 + a
    BY <1>4, <2>1, SMT
  <2>3. h \in 0 .. 15
    <3>1. 224 + h \in 224 .. 239
      BY <2>1
    <3> QED BY ONLY <1>1, <3>1, SMT
  <2>4. r = (((h * 64) + b) * 64) + a
    BY <1>0, <1>1, <1>2, SMT
  <2>5. ThreeBytes(s, h, b, a, r)
    BY <1>0, <1>1, <1>7, <2>2, <2>3, <2>4, SMT DEF ThreeBytes
  <2> QED BY <2>5, DecodeThree
<1> QED BY <1>0, <1>5, <1>6, <1>7, SMT

(* fullrune finds the last byte of a rune, and not an earlier one.         *)
LEMMA FullWhenComplete ==
  ASSUME NEW r \in Basic, NEW s, Len(s) \in 1 .. Len(Code(r)),
         \A i \in 1 .. Len(s) : s[i] = Code(r)[i]
  PROVE  FullRune(s) <=> Len(s) = Len(Code(r))
<1>0. r \in Nat /\ Tx = 128 /\ T[3] = 224 /\ T[4] = 240 /\ T[5] = 248
  BY Bounds, SMT DEF Tx, T
<1> DEFINE c == s[1]
           n == Len(s)
<1>1. FullRune(s) <=> c < 128 \/ (c > 224 /\ n > 3) \/ (c > 240 /\ n > 4) \/ (c > 248 /\ n > 5)
                      \/ (n > 1 /\ (c < 224 \/ n > 2))
  <2>1. \A k \in 3 .. 5 : k = 3 \/ k = 4 \/ k = 5
    OBVIOUS
  <2> QED BY <1>0, <2>1 DEF FullRune
<1>2. c = Code(r)[1] /\ n \in 1 .. Len(Code(r))
  BY SMT
<1> HIDE DEF c, n
<1> DEFINE m == Len(Code(r))
<1>3. CASE r <= 127
  <2>1. Code(r)[1] = r /\ r \in 0 .. 127 /\ m = 1
    BY <1>0, <1>3, CodeShape, SMT
  <2> HIDE DEF m
  <2>2. c \in 0 .. 127 /\ n = m
    BY <1>2, <2>1, SMT DEF m
  <2>3. FullRune(s)
    BY <1>1, <2>2, SMT
  <2> QED BY <2>2, <2>3 DEF n, m
<1>4. CASE r > 127 /\ r <= 2047
  <2>1. c \in 192 .. 223 /\ m = 2
    BY <1>0, <1>2, <1>4, CodeShape, SMT
  <2> HIDE DEF m
  <2>2. n \in 1 .. 2
    BY <1>2, <2>1 DEF m
  <2>3. FullRune(s) <=> n = m
    BY <1>1, <2>1, <2>2, SMT
  <2> QED BY <2>3 DEF n, m
<1>5. CASE r > 2047
  <2>1. c \in 224 .. 239 /\ m = 3
    BY <1>0, <1>2, <1>5, CodeShape, SMT
  <2> HIDE DEF m
  <2>2. n \in 1 .. 3
    BY <1>2, <2>1 DEF m
  <2>3. FullRune(s) <=> n = m
    BY <1>1, <2>1, <2>2, SMT
  <2> QED BY <2>3 DEF n, m
<1> QED BY <1>0, <1>3, <1>4, <1>5, SMT

-----------------------------------------------------------------------------
(***************************************************************************)
(* The trip of the text.                                                   *)
(***************************************************************************)
PlainText == \A i \in DOMAIN Text : Text[i] \in Basic \ Surrogates

(* Where the bytes of each rune end in what is sent. *)
Parts == [i \in DOMAIN Text |-> RuneToChar(Text[i])]
Size(i) == Len(Code(Text[i]))
Places == CHOOSE e \in [0 .. Len(Text) -> Nat] : Ends(e, Parts, Len(Text))

LEMMA Layout ==    \* where each rune is in what is sent
  ASSUME PlainText
  PROVE  /\ Places \in [0 .. Len(Text) -> Nat] /\ Places[0] = 0
         /\ \A i \in 1 .. Len(Text) : /\ Size(i) \in Nat \ {0}
                                      /\ Places[i] = Places[i - 1] + Size(i)
         /\ Sent \in Seq(Byte) /\ Len(Sent) = Places[Len(Text)]
         /\ \A i \in 1 .. Len(Text) : \A j \in 1 .. Size(i) :
              Sent[Places[i - 1] + j] = Code(Text[i])[j]
         /\ \A i \in 0 .. Len(Text) : Places[i] <= Len(Sent)
         /\ \A i \in 0 .. Len(Text) : Places[i] = Len(Sent) => i = Len(Text)
<1> DEFINE n == Len(Text)
<1>0. n \in Nat /\ DOMAIN Text = 1 .. n
  BY PortsAssumption
<1> HIDE DEF n
<1>1. \A i \in 1 .. n : Text[i] \in Basic
  BY <1>0 DEF PlainText
<1>2. \A i \in 1 .. n : /\ Code(Text[i]) \in Seq(Byte) /\ Size(i) \in Nat \ {0}
                        /\ RuneToChar(Text[i]) = Code(Text[i])
  <2> SUFFICES ASSUME NEW i \in 1 .. n
               PROVE  /\ Code(Text[i]) \in Seq(Byte) /\ Size(i) \in Nat \ {0}
                      /\ RuneToChar(Text[i]) = Code(Text[i])
    OBVIOUS
  <2>1. Text[i] \in Basic
    BY <1>1
  <2>2. RuneToChar(Text[i]) = Code(Text[i])
    BY <2>1, CodeIs
  <2>3. Code(Text[i]) \in Seq(Byte) /\ Len(Code(Text[i])) \in Nat \ {0}
    <3>1. PICK r \in Basic : r = Text[i]
      BY <2>1
    <3>2. Code(r) \in Seq(Byte) /\ Len(Code(r)) = IF r <= 127 THEN 1 ELSE IF r <= 2047 THEN 2 ELSE 3
      BY CodeShape
    <3>3. Len(Code(r)) \in Nat \ {0}
      BY <3>2, SMT
    <3> QED BY <3>1, <3>2, <3>3
  <2> QED BY <2>2, <2>3 DEF Size
<1>3. /\ Parts \in [1 .. n -> Seq(Byte)]
      /\ \A i \in 1 .. n : Parts[i] = Code(Text[i]) /\ Len(Parts[i]) = Size(i)
  BY <1>0, <1>2 DEF Parts, Size
<1>4. \E e \in [0 .. n -> Nat] : Ends(e, Parts, n)
  BY <1>0, <1>3, EndsExist
<1>5. Places \in [0 .. n -> Nat] /\ Ends(Places, Parts, n)
  BY <1>4 DEF Places, n
<1>6. Sent = FlattenSeq(Parts)
  BY DEF Sent, Encoded, Parts
<1>7. /\ Sent \in Seq(Byte) /\ Len(Sent) = Places[n]
      /\ \A i \in 1 .. n : Lies(Sent, Parts, Places, i)
  BY <1>0, <1>3, <1>5, <1>6, Flattened
<1>8. \A i \in 1 .. n : \A j \in 1 .. Size(i) : Sent[Places[i - 1] + j] = Code(Text[i])[j]
  BY <1>3, <1>7 DEF Lies
<1>9. Places[0] = 0 /\ \A i \in 1 .. n : Places[i] = Places[i - 1] + Size(i)
  BY <1>3, <1>5 DEF Ends
<1>10. ASSUME NEW i \in 0 .. n PROVE Places[i] <= Len(Sent)
  <2>1. n \in 0 .. n /\ i <= n
    BY <1>0
  <2> QED BY <1>0, <1>3, <1>5, <1>7, <2>1, EndsGrow
<1>11. ASSUME NEW i \in 0 .. n, Places[i] = Len(Sent) PROVE i = n
  <2> SUFFICES ASSUME i # n PROVE FALSE
    OBVIOUS
  <2> DEFINE k == i + 1
  <2>1. k \in 1 .. n /\ k \in 0 .. n /\ k - 1 = i
    BY <1>0
  <2> HIDE DEF k
  <2>2. Places[k] = Places[i] + Size(k) /\ Size(k) \in Nat \ {0} /\ Places[i] \in Nat /\ Places[k] \in Nat
    BY <1>2, <1>5, <1>9, <2>1
  <2>3. Places[k] <= Len(Sent)
    BY <1>10, <2>1
  <2> QED BY <1>11, <2>2, <2>3
<1> QED BY <1>2, <1>5, <1>7, <1>8, <1>9, <1>10, <1>11 DEF n

-----------------------------------------------------------------------------
(* s holds the bytes of what is sent that begin behind the first a.        *)
Part(s, a) == /\ s \in Seq(Byte) /\ a + Len(s) <= Len(Sent)
              /\ \A j \in 1 .. Len(s) : s[j] = Sent[a + j]

LEMMA PartLen ==
  ASSUME NEW s, NEW a, Part(s, a)
  PROVE  Len(s) \in Nat
BY DEF Part

LEMMA PartEmpty ==
  ASSUME NEW a \in Nat, a <= Len(Sent)
  PROVE  Part(<<>>, a)
<1>1. <<>> \in Seq(Byte) /\ Len(<<>>) = 0 /\ a + 0 = a
  OBVIOUS
<1> QED BY <1>1 DEF Part

LEMMA PartTail ==
  ASSUME NEW s, NEW a \in Nat, Part(s, a), s # <<>>
  PROVE  /\ Part(Tail(s), a + 1) /\ Head(s) = Sent[a + 1]
         /\ Len(s) \in Nat \ {0} /\ Len(Tail(s)) = Len(s) - 1
<1>1. /\ s \in Seq(Byte) /\ Len(s) \in Nat \ {0} /\ Head(s) = s[1]
      /\ Tail(s) \in Seq(Byte) /\ Len(Tail(s)) = Len(s) - 1
      /\ \A j \in 1 .. Len(Tail(s)) : Tail(s)[j] = s[j + 1]
  BY HeadTailProperties, LenProperties, EmptySeq DEF Part
<1> DEFINE t == Tail(s)
<1>2. /\ t \in Seq(Byte) /\ Len(t) = Len(s) - 1
      /\ \A j \in 1 .. Len(t) : t[j] = s[j + 1]
  BY <1>1
<1> HIDE DEF t
<1>3. 1 \in 1 .. Len(s) /\ s[1] = Sent[a + 1]
  BY <1>1 DEF Part
<1>4. ASSUME NEW j \in 1 .. Len(t) PROVE t[j] = Sent[(a + 1) + j]
  <2>1. j + 1 \in 1 .. Len(s) /\ a + (j + 1) = (a + 1) + j
    BY <1>1, <1>2
  <2>2. s[j + 1] = Sent[a + (j + 1)]
    BY <2>1 DEF Part
  <2> QED BY <1>2, <2>1, <2>2
<1>5. (a + 1) + Len(t) = a + Len(s)
  BY <1>1, <1>2
<1>6. Part(t, a + 1)
  BY <1>2, <1>4, <1>5 DEF Part
<1> QED BY <1>1, <1>3, <1>6 DEF t

LEMMA PartAppend ==
  ASSUME NEW s, NEW a \in Nat, Part(s, a), Sent \in Seq(Byte),
         NEW k \in Nat, k = a + Len(s) + 1, k <= Len(Sent), NEW x, x = Sent[k]
  PROVE  Part(Append(s, x), a) /\ Len(Append(s, x)) = Len(s) + 1
<1>1. s \in Seq(Byte) /\ Len(s) \in Nat /\ Len(Sent) \in Nat
  BY DEF Part
<1>2. k \in 1 .. Len(Sent)
  BY <1>1
<1>3. x \in Byte
  BY <1>2
<1> DEFINE u == Append(s, x)
<1>4. /\ u \in Seq(Byte) /\ Len(u) = Len(s) + 1
      /\ \A j \in 1 .. Len(s) : u[j] = s[j]
      /\ u[Len(s) + 1] = x
  BY <1>1, <1>3, AppendProperties
<1> HIDE DEF u
<1>5. ASSUME NEW j \in 1 .. Len(u) PROVE u[j] = Sent[a + j]
  <2>1. CASE j \in 1 .. Len(s)
    BY <1>4, <2>1 DEF Part
  <2>2. CASE j = Len(s) + 1
    <3>1. a + j = k
      BY <1>1, <2>2
    <3> QED BY <1>4, <2>2, <3>1
  <2>3. j \in 1 .. Len(s) \/ j = Len(s) + 1
    BY <1>1, <1>4
  <2> QED BY <2>1, <2>2, <2>3
<1>6. a + Len(u) = k
  BY <1>1, <1>4
<1> QED BY <1>4, <1>5, <1>6 DEF Part, u

-----------------------------------------------------------------------------
(***************************************************************************)
(* The inductive invariant.  What the peer has, what is on the way to it   *)
(* and what the writer has in hand follow one another in the bytes of the  *)
(* text and end where a rune ends.  What the reader has in hand begins     *)
(* where a rune begins and is less than that rune; the buffer of the FILE, *)
(* what is on the way and what the peer has not sent back follow it.       *)
(***************************************************************************)
Where == {"next", "ready", "get", "put"}

WriterSends ==
  /\ Part(peer, 0) /\ Part(out, Len(peer)) /\ Part(wbuf, Len(peer) + Len(out))
  /\ idx \in 0 .. Len(Text)
  /\ Len(peer) + Len(out) + Len(wbuf) = Places[idx]
  /\ pc["writer"] = "next" <=> wbuf = <<>>

(* The runes the reader has decoded, and the bytes it has used.            *)
Got == Len(str) + (IF unget = None THEN 0 ELSE 1)
Used == Places[Got] + Len(rbuf)

ReaderHas ==
  /\ str \in Seq(Nat) /\ Got \in 0 .. Len(Text)
  /\ \A i \in 1 .. Len(str) : str[i] = Text[i]
  /\ unget # None => unget = Text[Got] /\ pc["reader"] = "next"
  /\ Part(rbuf, Places[Got])
  /\ rbuf # <<>> => Got < Len(Text) /\ Len(rbuf) < Size(Got + 1)

ReaderReads ==
  /\ Part(stdio, Used) /\ Part(in, Used + Len(stdio))
  /\ back \in Nat /\ Used + Len(stdio) + Len(in) = back /\ back <= Len(peer)
  /\ kind = "sock" => stdio = <<>>

TextInv == pc \in [Threads -> Where] /\ WriterSends /\ ReaderHas /\ ReaderReads

LEMMA TextInvStart ==
  ASSUME PlainText, Init
  PROVE  TextInv
<1>1. /\ out = <<>> /\ in = <<>> /\ peer = <<>> /\ wbuf = <<>> /\ rbuf = <<>> /\ stdio = <<>> /\ str = <<>>
      /\ back = 0 /\ idx = 0 /\ unget = None /\ pc = [t \in Threads |-> "next"]
  BY DEF Init
<1>2. Places[0] = 0 /\ 0 <= Len(Sent) /\ Len(Text) \in Nat
  BY Layout, PortsAssumption
<1>3. Part(<<>>, 0) /\ Len(<<>>) = 0
  BY <1>2, PartEmpty
<1>4. pc \in [Threads -> Where] /\ pc["writer"] = "next" /\ pc["reader"] = "next"
  BY <1>1 DEF Threads, Where
<1>5. Got = 0 /\ Used = 0
  BY <1>1, <1>2, <1>3 DEF Got, Used
<1>6. WriterSends
  BY <1>1, <1>2, <1>3, <1>4 DEF WriterSends
<1>7. ReaderHas
  <2>1. str \in Seq(Nat) /\ Got \in 0 .. Len(Text) /\ Part(rbuf, Places[Got])
    BY <1>1, <1>2, <1>3, <1>5
  <2> QED BY <1>1, <1>3, <2>1 DEF ReaderHas
<1>8. ReaderReads
  BY <1>1, <1>3, <1>5 DEF ReaderReads
<1> QED BY <1>4, <1>6, <1>7, <1>8 DEF TextInv

-----------------------------------------------------------------------------
(* Each side is a matter of its own variables. *)
LEMMA WriterIsLeftAlone ==
  ASSUME WriterSends, UNCHANGED <<out, peer, wbuf, idx>>, pc'["writer"] = pc["writer"]
  PROVE  WriterSends'
BY DEF WriterSends, Part

LEMMA ReaderIsLeftAlone ==
  ASSUME ReaderHas, ReaderReads, UNCHANGED <<in, back, kind, unget, stdio, str, rbuf>>,
         pc'["reader"] = pc["reader"], peer \in Seq(Byte), peer' \in Seq(Byte),
         Len(peer) <= Len(peer')
  PROVE  ReaderHas' /\ ReaderReads'
<1>1. ReaderHas'
  BY DEF ReaderHas, Part, Got
<1>2. Got' = Got /\ Used' = Used
  BY DEF Got, Used
<1>3. back \in Int /\ Len(peer) \in Int /\ Len(peer') \in Int /\ back <= Len(peer)
  BY DEF ReaderReads
<1>4. back' <= Len(peer')
  <2>1. \A a, b, c \in Int : a <= b /\ b <= c => a <= c
    OBVIOUS
  <2> QED BY <1>3, <2>1
<1>5. ReaderReads'
  BY <1>2, <1>4 DEF ReaderReads, Part
<1> QED BY <1>1, <1>5

(* The running thread goes on, or stops where it is: the other's           *)
(* instruction is not touched.                                             *)
LEMMA OnlyMine ==
  ASSUME pc \in [Threads -> Where], NEW t \in Threads,
         \/ \E w \in Where : GoesTo(t, w)
         \/ \E st \in States : Becomes(t, st)
  PROVE  /\ pc' \in [Threads -> Where]
         /\ \A u \in Threads : u # t => pc'[u] = pc[u]
BY DEF GoesTo, Becomes

LEMMA Names ==
  /\ "writer" \in Threads /\ "reader" \in Threads /\ "writer" # "reader"
  /\ "sleeper" \in Threads /\ "sleeper" # "reader" /\ "sleeper" # "writer"
  /\ "next" \in Where /\ "ready" \in Where /\ "get" \in Where /\ "put" \in Where
  /\ "release" \in States /\ "iowait" \in States /\ "sleep" \in States
BY DEF Threads, Where, States

-----------------------------------------------------------------------------
(* The writer: a rune in hand begins where the last one ended.             *)
LEMMA WriterNextKeeps ==
  ASSUME PlainText, TextInv, WriterNext
  PROVE  TextInv'
<1>1. /\ UNCHANGED <<out, in, peer, back, kind, unget, stdio, str, rbuf>>
      /\ pc["writer"] = "next"
  BY DEF WriterNext, Runs, net, rvars
<1>2. /\ pc' \in [Threads -> Where] /\ pc'["reader"] = pc["reader"]
  BY Names, OnlyMine DEF WriterNext, TextInv
<1>3. ReaderHas' /\ ReaderReads'
  BY <1>1, <1>2, ReaderIsLeftAlone DEF TextInv, WriterSends, Part
<1>4. CASE idx < Len(Text)
  <2> DEFINE k == idx + 1
  <2>1. /\ wbuf' = RuneToChar(Text[k]) /\ idx' = k /\ pc'["writer"] = "ready"
    BY <1>4, Names DEF WriterNext, TextRune, GoesTo, TextInv
  <2>2. k \in 1 .. Len(Text) /\ k \in 0 .. Len(Text) /\ k - 1 = idx
    BY <1>4, PortsAssumption DEF TextInv, WriterSends
  <2> HIDE DEF k
  <2>3. /\ Size(k) \in Nat \ {0} /\ Places[k] = Places[idx] + Size(k) /\ Places[k] <= Len(Sent)
        /\ \A j \in 1 .. Size(k) : Sent[Places[idx] + j] = Code(Text[k])[j]
        /\ Places[idx] \in Nat
    BY <2>2, Layout
  <2>4. Text[k] \in Basic
    BY <2>2, PortsAssumption DEF PlainText
  <2>5. wbuf' = Code(Text[k]) /\ Len(wbuf') = Size(k) /\ wbuf' \in Seq(Byte)
    <3>1. Code(Text[k]) \in Seq(Byte)
      BY <2>4, CodeShape
    <3> QED BY <2>1, <2>4, <3>1, CodeIs DEF Size
  <2>6. Part(wbuf', Places[idx])
    BY <2>3, <2>5 DEF Part
  <2>7. Len(peer) + Len(out) = Places[idx]
    <3>1. wbuf = <<>> /\ Len(peer) \in Nat /\ Len(out) \in Nat /\ Len(wbuf) = 0
      BY <1>1, PartLen DEF TextInv, WriterSends
    <3> QED BY <3>1 DEF TextInv, WriterSends
  <2>8. wbuf' # <<>>
    BY <2>3, <2>5
  <2>9. WriterSends'
    <3>1. Part(peer, 0)' /\ Part(out, Len(peer))'
      BY <1>1 DEF TextInv, WriterSends, Part
    <3>2. Part(wbuf, Len(peer) + Len(out))'
      BY <1>1, <2>6, <2>7 DEF Part
    <3>3. (Len(peer) + Len(out) + Len(wbuf) = Places[idx])'
      BY <1>1, <2>1, <2>3, <2>5, <2>7
    <3> QED BY <2>1, <2>2, <2>8, <3>1, <3>2, <3>3 DEF WriterSends
  <2> QED BY <1>2, <1>3, <2>9 DEF TextInv
<1>5. CASE ~ (idx < Len(Text))
  <2>1. UNCHANGED <<out, peer, wbuf, idx>> /\ pc' = pc
    BY <1>1, <1>5 DEF WriterNext, wvars, Becomes
  <2> QED BY <1>2, <1>3, <2>1, WriterIsLeftAlone DEF TextInv
<1> QED BY <1>4, <1>5

LEMMA WriterReadyKeeps ==
  ASSUME TextInv, WriterReady
  PROVE  TextInv'
<1>1. /\ UNCHANGED <<out, in, peer, back, kind, unget, stdio, str, rbuf, wbuf, idx>>
      /\ pc["writer"] = "ready"
  BY DEF WriterReady, Runs, net, rvars, wvars
<1>2. /\ pc' \in [Threads -> Where] /\ pc'["reader"] = pc["reader"]
  BY Names, OnlyMine DEF WriterReady, TextInv
<1>3. ReaderHas' /\ ReaderReads'
  BY <1>1, <1>2, ReaderIsLeftAlone DEF TextInv, WriterSends, Part
<1>4. pc'["writer"] # "next"
  BY <1>1, Names DEF WriterReady, GoesTo, Becomes, TextInv
<1>5. WriterSends'
  BY <1>1, <1>4 DEF TextInv, WriterSends, Part
<1> QED BY <1>2, <1>3, <1>5 DEF TextInv

LEMMA WriterPutKeeps ==
  ASSUME PlainText, TextInv, WriterPut
  PROVE  TextInv'
<1>1. /\ UNCHANGED <<in, peer, back, kind, unget, stdio, str, rbuf, idx>>
      /\ pc["writer"] = "put"
      /\ out' = Append(out, Head(wbuf)) /\ wbuf' = Tail(wbuf)
      /\ GoesTo("writer", IF wbuf' = <<>> THEN "next" ELSE "ready")
  BY DEF WriterPut, Runs, rvars
<1>2. /\ pc' \in [Threads -> Where] /\ pc'["reader"] = pc["reader"]
  BY <1>1, Names, OnlyMine DEF TextInv
<1>3. ReaderHas' /\ ReaderReads'
  BY <1>1, <1>2, ReaderIsLeftAlone DEF TextInv, WriterSends, Part
<1>4. wbuf # <<>>
  BY <1>1 DEF TextInv, WriterSends
<1>5. PICK p \in Nat : p = Len(peer)
  BY PartLen DEF TextInv, WriterSends
<1>6. PICK o \in Nat : o = Len(out)
  BY PartLen DEF TextInv, WriterSends
<1>7. PICK w \in Nat : w = Len(wbuf)
  BY PartLen DEF TextInv, WriterSends
<1>8. Part(out, p) /\ Part(wbuf, p + o) /\ p + o + w = Places[idx]
  BY <1>5, <1>6, <1>7 DEF TextInv, WriterSends
<1>9. /\ Part(Tail(wbuf), (p + o) + 1) /\ Head(wbuf) = Sent[(p + o) + 1]
      /\ w # 0 /\ Len(Tail(wbuf)) = w - 1
  <2> DEFINE a == p + o
  <2>1. a \in Nat /\ Part(wbuf, a)
    BY <1>8
  <2> HIDE DEF a
  <2>2. /\ Part(Tail(wbuf), a + 1) /\ Head(wbuf) = Sent[a + 1]
        /\ Len(wbuf) # 0 /\ Len(Tail(wbuf)) = Len(wbuf) - 1
    BY <1>4, <2>1, PartTail
  <2> QED BY <1>7, <2>2 DEF a
<1>10. Part(Append(out, Head(wbuf)), p) /\ Len(Append(out, Head(wbuf))) = o + 1
  <2>1. (p + o) + 1 <= Len(Sent)
    <3>1. (p + o) + w <= Len(Sent) /\ Len(Sent) \in Nat
      BY <1>7, <1>8, Layout DEF Part
    <3> QED BY <1>9, <3>1
  <2> DEFINE k == (p + o) + 1
  <2>2. k \in Nat /\ k = p + Len(out) + 1 /\ k <= Len(Sent) /\ Sent \in Seq(Byte)
    BY <1>6, <2>1, Layout
  <2>3. Head(wbuf) = Sent[k]
    BY <1>9
  <2> HIDE DEF k
  <2>4. Part(Append(out, Head(wbuf)), p) /\ Len(Append(out, Head(wbuf))) = Len(out) + 1
    BY <1>8, <2>2, <2>3, PartAppend
  <2> QED BY <1>6, <2>4
<1>11. Len(peer') = p /\ Len(out') = o + 1 /\ Len(wbuf') = w - 1
  BY <1>1, <1>5, <1>9, <1>10
<1>12. p + (o + 1) = (p + o) + 1 /\ p + (o + 1) + (w - 1) = p + o + w
  OBVIOUS
<1>13. WriterSends'
  <2>1. Part(peer, 0)'
    BY <1>1 DEF TextInv, WriterSends, Part
  <2>2. Part(out, Len(peer))'
    <3>1. Part(out', p)
      BY <1>1, <1>10
    <3> QED BY <1>1, <1>5, <3>1 DEF Part
  <2>3. Part(wbuf, Len(peer) + Len(out))'
    <3>1. Part(wbuf', p + (o + 1))
      BY <1>1, <1>9, <1>12
    <3>2. Len(peer') + Len(out') = p + (o + 1)
      BY <1>11
    <3> QED BY <3>1, <3>2 DEF Part
  <2>4. (Len(peer) + Len(out) + Len(wbuf) = Places[idx])'
    BY <1>1, <1>8, <1>11, <1>12
  <2>5. pc'["writer"] = "next" <=> wbuf' = <<>>
    BY <1>1, Names DEF GoesTo, TextInv
  <2>6. idx' \in 0 .. Len(Text)
    BY <1>1 DEF TextInv, WriterSends
  <2> QED BY <2>1, <2>2, <2>3, <2>4, <2>5, <2>6 DEF WriterSends
<1> QED BY <1>2, <1>3, <1>13 DEF TextInv

-----------------------------------------------------------------------------
(* The peer. *)
LEMMA PeerTakesKeeps ==
  ASSUME PlainText, TextInv, PeerTakes
  PROVE  TextInv'
<1>1. /\ UNCHANGED <<in, back, kind, unget, stdio, str, rbuf, idx, wbuf, pc>>
      /\ out # <<>> /\ peer' = Append(peer, Head(out)) /\ out' = Tail(out)
  BY DEF PeerTakes, rvars, wvars
<1>2. PICK p \in Nat : p = Len(peer)
  BY PartLen DEF TextInv, WriterSends
<1>3. PICK o \in Nat : o = Len(out)
  BY PartLen DEF TextInv, WriterSends
<1>4. PICK w \in Nat : w = Len(wbuf)
  BY PartLen DEF TextInv, WriterSends
<1>5. Part(peer, 0) /\ Part(out, p) /\ Part(wbuf, p + o) /\ p + o + w = Places[idx]
  BY <1>2, <1>3, <1>4 DEF TextInv, WriterSends
<1>6. /\ Part(Tail(out), p + 1) /\ Head(out) = Sent[p + 1]
      /\ o # 0 /\ Len(Tail(out)) = o - 1
  BY <1>1, <1>3, <1>5, PartTail
<1>7. Part(Append(peer, Head(out)), 0) /\ Len(Append(peer, Head(out))) = p + 1
  <2>1. p + o <= Len(Sent) /\ Len(Sent) \in Nat /\ Sent \in Seq(Byte)
    BY <1>3, <1>5, Layout DEF Part
  <2> DEFINE k == p + 1
  <2>2. k \in Nat /\ k = 0 + Len(peer) + 1 /\ k <= Len(Sent) /\ 0 \in Nat
    BY <1>2, <1>6, <2>1
  <2>3. Head(out) = Sent[k]
    BY <1>6
  <2> HIDE DEF k
  <2>4. Part(Append(peer, Head(out)), 0) /\ Len(Append(peer, Head(out))) = Len(peer) + 1
    BY <1>5, <2>1, <2>2, <2>3, PartAppend
  <2> QED BY <1>2, <2>4
<1>8. Len(peer') = p + 1 /\ Len(out') = o - 1 /\ Len(wbuf') = w
  BY <1>1, <1>4, <1>6, <1>7
<1>9. (p + 1) + (o - 1) = p + o
  OBVIOUS
<1>10. WriterSends'
  <2>1. Part(peer, 0)'
    BY <1>1, <1>7 DEF Part
  <2>2. Part(out, Len(peer))'
    <3>1. Part(out', p + 1)
      BY <1>1, <1>6
    <3> QED BY <1>8, <3>1 DEF Part
  <2>3. Part(wbuf, Len(peer) + Len(out))'
    <3>1. Part(wbuf', p + o)
      BY <1>1, <1>5
    <3>2. Len(peer') + Len(out') = p + o
      BY <1>8, <1>9
    <3> QED BY <3>1, <3>2 DEF Part
  <2>4. (Len(peer) + Len(out) + Len(wbuf) = Places[idx])'
    BY <1>1, <1>5, <1>8, <1>9
  <2> QED BY <1>1, <2>1, <2>2, <2>3, <2>4 DEF WriterSends, TextInv
<1>11. Len(peer) <= Len(peer') /\ peer \in Seq(Byte) /\ peer' \in Seq(Byte)
  BY <1>1, <1>2, <1>5, <1>7, <1>8 DEF Part
<1>12. ReaderHas' /\ ReaderReads'
  BY <1>1, <1>11, ReaderIsLeftAlone DEF TextInv
<1> QED BY <1>1, <1>10, <1>12 DEF TextInv

LEMMA PeerAnswersKeeps ==
  ASSUME PlainText, TextInv, PeerAnswers
  PROVE  TextInv'
<1>1. /\ UNCHANGED <<out, peer, kind, unget, stdio, str, rbuf, idx, wbuf, pc>>
      /\ back < Len(peer) /\ in' = Append(in, peer[back + 1]) /\ back' = back + 1
  BY DEF PeerAnswers, rvars, wvars
<1>2. WriterSends'
  BY <1>1, WriterIsLeftAlone DEF TextInv
<1>3. ReaderHas'
  BY <1>1 DEF TextInv, ReaderHas, Part, Got
<1>4. Used' = Used
  BY <1>1 DEF Used, Got
<1>5. back \in Nat /\ Len(peer) \in Nat /\ Len(peer) <= Len(Sent) /\ Len(Sent) \in Nat /\ Sent \in Seq(Byte)
  <2>1. Part(peer, 0) /\ Len(peer) \in Nat
    BY PartLen DEF TextInv, WriterSends
  <2> QED BY <2>1, Layout DEF Part, TextInv, ReaderReads
<1>6. peer[back + 1] = Sent[back + 1]
  <2>1. back + 1 \in 1 .. Len(peer) /\ 0 + (back + 1) = back + 1
    BY <1>1, <1>5
  <2> QED BY <2>1 DEF TextInv, WriterSends, Part
<1>7. PICK i \in Nat : i = Len(in)
  BY PartLen DEF TextInv, ReaderReads
<1>8. PICK d \in Nat : d = Len(stdio)
  BY PartLen DEF TextInv, ReaderReads
<1>9. PICK u \in Nat : u = Used
  <2>1. Len(rbuf) \in Nat /\ Places[Got] \in Nat
    BY PartLen, Layout DEF TextInv, ReaderHas
  <2> QED BY <2>1 DEF Used
<1>10. Part(in, u + d) /\ u + d + i = back
  BY <1>7, <1>8, <1>9 DEF TextInv, ReaderReads
<1>11. Part(in', u + d) /\ Len(in') = i + 1
  <2> DEFINE a == u + d
             k == back + 1
  <2>1. a \in Nat /\ Part(in, a) /\ k \in Nat /\ k = a + Len(in) + 1 /\ k <= Len(Sent)
    BY <1>1, <1>5, <1>7, <1>10
  <2>2. peer[back + 1] = Sent[k]
    BY <1>6
  <2>3. in' = Append(in, peer[back + 1])
    BY <1>1
  <2> HIDE DEF a, k
  <2>4. Part(in', a) /\ Len(in') = Len(in) + 1
    BY <1>5, <2>1, <2>2, <2>3, PartAppend
  <2> QED BY <1>7, <2>4 DEF a
<1>12. ReaderReads'
  <2>1. Part(stdio, Used)'
    BY <1>1, <1>4 DEF TextInv, ReaderReads, Part
  <2>2. Part(in, Used + Len(stdio))'
    BY <1>1, <1>4, <1>8, <1>9, <1>11 DEF Part
  <2>3. back' \in Nat /\ (Used + Len(stdio) + Len(in) = back)' /\ back' <= Len(peer')
    BY <1>1, <1>4, <1>5, <1>8, <1>9, <1>10, <1>11
  <2> QED BY <1>1, <2>1, <2>2, <2>3 DEF TextInv, ReaderReads
<1> QED BY <1>1, <1>2, <1>3, <1>12 DEF TextInv

-----------------------------------------------------------------------------
(* The reader: arc_readc has one more byte.  If it is the last of its rune *)
(* the rune is decoded; if not, the bytes stay in hand.                    *)
LEMMA AssembleKeeps ==
  ASSUME PlainText, pc \in [Threads -> Where], ReaderHas, unget = None,
         NEW s, Assemble(s), Part(s, Places[Got]), Len(s) = Len(rbuf) + 1
  PROVE  /\ ReaderHas' /\ Used' = Used + 1
         /\ pc' \in [Threads -> Where] /\ pc'["writer"] = pc["writer"]
<1>1. PICK g \in Nat : g = Len(str)
  BY DEF ReaderHas
<1>2. Got = g /\ g \in 0 .. Len(Text) /\ Len(Text) \in Nat
  BY <1>1, PortsAssumption DEF Got, ReaderHas
<1>3. PICK m \in Nat : m = Len(s)
  BY PartLen
<1>4. PICK a \in Nat : a = Places[g]
  BY <1>2, Layout
<1>5. Part(s, a) /\ m = Len(rbuf) + 1 /\ Len(rbuf) \in Nat /\ Used = a + Len(rbuf)
  BY <1>2, <1>3, <1>4, PartLen DEF ReaderHas, Used
<1>6. Used + 1 = a + m
  BY <1>5
<1> DEFINE k == g + 1
<1>7. k \in 1 .. Len(Text) /\ k \in 0 .. Len(Text) /\ k - 1 = g /\ g < Len(Text)
  <2>1. a + m <= Len(Sent) /\ m > 0 /\ Len(Sent) \in Nat
    BY <1>3, <1>5, Layout DEF Part
  <2>2. a # Len(Sent)
    BY <2>1
  <2>3. g # Len(Text)
    BY <1>4, <2>2, Layout
  <2> QED BY <1>2, <2>3
<1>8. PICK z \in Nat \ {0} : z = Size(k)
  BY <1>7, Layout
<1>9. /\ Places[k] = a + z
      /\ \A j \in 1 .. z : Sent[a + j] = Code(Text[k])[j]
  BY <1>4, <1>7, <1>8, Layout
<1>10. m \in 1 .. z
  <2>1. CASE rbuf = <<>>
    <3>1. Len(rbuf) = 0
      BY <2>1
    <3> QED BY <1>5, <3>1
  <2>2. CASE rbuf # <<>>
    <3>1. Len(rbuf) < z
      BY <1>2, <1>8, <2>2 DEF ReaderHas
    <3> QED BY <1>5, <3>1
  <2> QED BY <2>1, <2>2
<1>11. PICK r \in Basic : r = Text[k] /\ r \notin Surrogates
  BY <1>7, PortsAssumption DEF PlainText
<1>12. z = Len(Code(r)) /\ \A j \in 1 .. m : s[j] = Code(r)[j]
  <2>1. z = Len(Code(r))
    BY <1>8, <1>11 DEF Size
  <2>2. ASSUME NEW j \in 1 .. m PROVE s[j] = Code(r)[j]
    <3>1. j \in 1 .. z
      BY <1>10
    <3>2. s[j] = Sent[a + j]
      BY <1>3, <1>5 DEF Part
    <3> QED BY <1>9, <1>11, <3>1, <3>2
  <2> QED BY <2>1, <2>2
<1> HIDE DEF k
<1>13. FullRune(s) <=> m = z
  BY <1>3, <1>10, <1>12, FullWhenComplete
<1>14. "next" \in Where /\ "ready" \in Where /\ "reader" \in Threads /\ "writer" \in Threads /\ "writer" # "reader"
  BY Names
<1>15. CASE m # z
  <2>1. rbuf' = s /\ GoesTo("reader", "ready") /\ str' = str /\ unget' = unget
    BY <1>13, <1>15 DEF Assemble
  <2>2. pc' \in [Threads -> Where] /\ pc'["writer"] = pc["writer"]
    BY <1>14, <2>1, OnlyMine
  <2>3. Got' = g /\ Used' = a + m
    BY <1>2, <1>3, <1>4, <2>1 DEF Got, Used
  <2>4. ReaderHas'
    <3>1. Part(rbuf, Places[Got])'
      BY <1>4, <1>5, <2>1, <2>3 DEF Part
    <3>2. (rbuf # <<>> => Got < Len(Text) /\ Len(rbuf) < Size(Got + 1))'
      <4>1. m < z
        BY <1>10, <1>15
      <4> QED BY <1>3, <1>7, <1>8, <2>1, <2>3, <4>1 DEF k, Size
    <3>3. str' \in Seq(Nat) /\ Got' \in 0 .. Len(Text) /\ \A i \in 1 .. Len(str') : str'[i] = Text[i]
      BY <1>2, <2>1, <2>3 DEF ReaderHas
    <3>4. unget' = None
      BY <2>1
    <3> QED BY <3>1, <3>2, <3>3, <3>4 DEF ReaderHas
  <2> QED BY <1>6, <2>2, <2>3, <2>4
<1>16. CASE m = z
  <2>1. rbuf' = <<>> /\ GoesTo("reader", "next")
        /\ \E junk \in {0, Tx} :
             LET x == CharToRune(s \o [i \in 1 .. UTFmax |-> junk]).rune
             IN \/ Deliver(x) /\ UNCHANGED unget
                \/ PutBack(x) /\ UNCHANGED str
    BY <1>13, <1>16 DEF Assemble
  <2>2. ASSUME NEW junk \in {0, Tx}
        PROVE  CharToRune(s \o [i \in 1 .. UTFmax |-> junk]).rune = r
    <3> DEFINE t == [i \in 1 .. UTFmax |-> junk]
               w == s \o t
    <3>1. t \in Seq({junk}) /\ s \in Seq(Byte)
      BY <1>5 DEF Part, UTFmax
    <3> HIDE DEF t
    <3>2. \A j \in 1 .. Len(s) : w[j] = s[j]
      <4>1. s \in Seq(Byte \cup {junk}) /\ t \in Seq(Byte \cup {junk})
        BY <3>1
      <4>2. /\ \A j \in 1 .. Len(s) + Len(t) : w[j] = IF j <= Len(s) THEN s[j] ELSE t[j - Len(s)]
        BY <4>1, ConcatProperties
      <4>3. Len(s) \in Nat /\ Len(t) \in Nat
        BY <3>1
      <4>4. \A j \in 1 .. Len(s) : j \in 1 .. Len(s) + Len(t) /\ j <= Len(s)
        BY <4>3
      <4> QED BY <4>2, <4>4
    <3> HIDE DEF w
    <3>3. \A j \in 1 .. Len(Code(r)) : w[j] = Code(r)[j]
      BY <1>3, <1>12, <1>16, <3>2
    <3>4. CharToRune(w).rune = r
      BY <1>11, <3>3, DecodesCode
    <3> QED BY <3>4 DEF w, t
  <2>3. (Deliver(r) /\ unget' = unget) \/ (PutBack(r) /\ str' = str)
    BY <2>1, <2>2
  <2>4. pc' \in [Threads -> Where] /\ pc'["writer"] = pc["writer"] /\ pc'["reader"] = "next"
    BY <1>14, <2>1, OnlyMine DEF GoesTo
  <2>5. r \in Nat /\ r # None
    <3>1. r \in Nat
      BY Bounds
    <3> QED BY <3>1 DEF None
  <2>6. /\ str' \in Seq(Nat) /\ Got' = k
        /\ \A i \in 1 .. Len(str') : str'[i] = Text[i]
        /\ unget' # None => unget' = Text[k]
    <3>1. str \in Seq(Nat) /\ \A i \in 1 .. Len(str) : str[i] = Text[i]
      BY DEF ReaderHas
    <3>2. CASE Deliver(r) /\ unget' = unget
      <4>1. str' = Append(str, r) /\ unget' = None
        BY <3>2 DEF Deliver
      <4>2. /\ str' \in Seq(Nat) /\ Len(str') = g + 1
            /\ \A i \in 1 .. g : str'[i] = str[i]
            /\ str'[g + 1] = r
        BY <1>1, <2>5, <3>1, <4>1, AppendProperties
      <4>3. Got' = k
        BY <4>1, <4>2 DEF Got, k
      <4>4. \A i \in 1 .. g + 1 : i \in 1 .. g \/ i = g + 1
        OBVIOUS
      <4>5. \A i \in 1 .. Len(str') : str'[i] = Text[i]
        BY <1>1, <1>11, <3>1, <4>2, <4>4 DEF k
      <4> QED BY <4>1, <4>2, <4>3, <4>5
    <3>3. CASE PutBack(r) /\ str' = str
      <4>1. unget' = r /\ str' = str
        BY <3>3 DEF PutBack
      <4>2. Got' = k
        BY <1>1, <2>5, <4>1 DEF Got, k
      <4> QED BY <1>11, <3>1, <4>1, <4>2
    <3> QED BY <2>3, <3>2, <3>3
  <2>7. Used' = a + z
    <3>1. Len(rbuf') = 0
      BY <2>1
    <3> QED BY <1>9, <2>6, <3>1 DEF Used
  <2>8. ReaderHas'
    <3>1. Part(rbuf, Places[Got])'
      <4>1. Places[k] \in Nat /\ Places[k] <= Len(Sent)
        BY <1>7, Layout
      <4>2. Part(<<>>, Places[k])
        BY <4>1, PartEmpty
      <4> QED BY <2>1, <2>6, <4>2 DEF Part
    <3> QED BY <1>7, <2>1, <2>4, <2>6, <3>1 DEF ReaderHas
  <2> QED BY <1>6, <1>16, <2>4, <2>7, <2>8
<1> QED BY <1>15, <1>16

(* The other steps of the reader. *)
LEMMA ReaderTakesBackKeeps ==
  ASSUME PlainText, TextInv, ReaderTakesBack
  PROVE  TextInv'
<1>1. /\ UNCHANGED <<out, in, peer, back, kind, stdio, rbuf, wbuf, idx>>
      /\ unget # None /\ str' = Append(str, unget) /\ unget' = None
      /\ pc["reader"] = "next" /\ GoesTo("reader", "next")
  BY DEF ReaderTakesBack, Runs, Deliver, net, wvars
<1>2. /\ pc' \in [Threads -> Where] /\ pc'["writer"] = pc["writer"]
  BY <1>1, Names, OnlyMine DEF TextInv
<1>3. WriterSends'
  BY <1>1, <1>2, WriterIsLeftAlone DEF TextInv
<1>4. PICK g \in Nat : g = Len(str)
  BY DEF TextInv, ReaderHas
<1>5. Got = g + 1 /\ str \in Seq(Nat) /\ g + 1 \in 0 .. Len(Text) /\ unget = Text[g + 1]
      /\ \A i \in 1 .. g : str[i] = Text[i]
  BY <1>1, <1>4 DEF TextInv, ReaderHas, Got
<1>6. unget \in Nat
  BY <1>5, PortsAssumption
<1>7. /\ str' \in Seq(Nat) /\ Len(str') = g + 1
      /\ \A i \in 1 .. g : str'[i] = str[i]
      /\ str'[g + 1] = unget
  BY <1>1, <1>4, <1>5, <1>6, AppendProperties
<1>8. Got' = Got /\ Used' = Used
  BY <1>1, <1>5, <1>7 DEF Got, Used
<1>9. \A i \in 1 .. Len(str') : str'[i] = Text[i]
  <2>1. \A i \in 1 .. g + 1 : i \in 1 .. g \/ i = g + 1
    OBVIOUS
  <2> QED BY <1>5, <1>7, <2>1
<1>10. ReaderHas'
  BY <1>1, <1>7, <1>8, <1>9 DEF TextInv, ReaderHas, Part
<1>11. ReaderReads'
  BY <1>1, <1>8 DEF TextInv, ReaderReads, Part
<1> QED BY <1>2, <1>3, <1>10, <1>11 DEF TextInv

LEMMA ReaderMovesKeep ==
  ASSUME TextInv, ReaderNext \/ ReaderReady
  PROVE  TextInv'
<1>1. /\ UNCHANGED <<out, in, peer, back, kind, unget, stdio, str, rbuf, wbuf, idx>>
  BY DEF ReaderNext, ReaderReady, net, rvars, wvars
<1>2. /\ pc' \in [Threads -> Where] /\ pc'["writer"] = pc["writer"]
  BY Names, OnlyMine DEF ReaderNext, ReaderReady, TextInv
<1>3. unget = None
  BY DEF ReaderNext, ReaderReady, Runs, TextInv, ReaderHas
<1>4. WriterSends'
  BY <1>1, <1>2, WriterIsLeftAlone DEF TextInv
<1>5. ReaderHas' /\ ReaderReads'
  BY <1>1, <1>3 DEF TextInv, ReaderHas, ReaderReads, Part, Got, Used
<1> QED BY <1>2, <1>4, <1>5 DEF TextInv

(* Nothing but the place of a thread changes. *)
LEMMA TextIsLeftAlone ==
  ASSUME TextInv, UNCHANGED <<out, in, peer, back, kind, unget, stdio, str, rbuf, wbuf, idx, pc>>
  PROVE  TextInv'
BY DEF TextInv, WriterSends, ReaderHas, ReaderReads, Part, Got, Used

(* A byte is taken from where the next one is: from the socket's buffer,   *)
(* or from the FILE's and if that is empty from the pipe's.                *)
LEMMA ByteTaken ==
  ASSUME PlainText, TextInv, pc["reader"] = "get",
         NEW x, NEW q, NEW f, NEW u \in Nat, u = Used,
         Assemble(Append(rbuf, x)), Sent[u + 1] = x, u + 1 <= Len(Sent),
         Part(f, u + 1), Part(q, (u + 1) + Len(f)), (u + 1) + Len(f) + Len(q) = back,
         kind = "sock" => f = <<>>,
         stdio' = f, in' = q, UNCHANGED <<kind, out, peer, back, wbuf, idx>>
  PROVE  TextInv'
<1>1. unget = None
  BY DEF TextInv, ReaderHas
<1>2. PICK a \in Nat : a = Places[Got]
  BY Layout DEF TextInv, ReaderHas
<1>3. PICK l \in Nat : l = Len(rbuf)
  BY PartLen DEF TextInv, ReaderHas
<1>4. Part(rbuf, a) /\ u = a + l
  BY <1>2, <1>3 DEF TextInv, ReaderHas, Used
<1>5. Part(Append(rbuf, x), a) /\ Len(Append(rbuf, x)) = l + 1
  <2> DEFINE k == u + 1
  <2>1. k \in Nat /\ k = a + Len(rbuf) + 1 /\ k <= Len(Sent) /\ x = Sent[k] /\ Sent \in Seq(Byte)
    BY <1>3, <1>4, Layout
  <2> HIDE DEF k
  <2> QED BY <1>3, <1>4, <2>1, PartAppend
<1>6. /\ ReaderHas' /\ Used' = u + 1
      /\ pc' \in [Threads -> Where] /\ pc'["writer"] = pc["writer"]
  BY <1>1, <1>2, <1>3, <1>5, AssembleKeeps DEF TextInv
<1>7. WriterSends'
  BY <1>6, WriterIsLeftAlone DEF TextInv
<1>8. ReaderReads'
  <2>1. Part(stdio, Used)' /\ Part(in, Used + Len(stdio))'
    BY <1>6 DEF Part
  <2> QED BY <1>6, <2>1 DEF TextInv, ReaderReads
<1> QED BY <1>6, <1>7, <1>8 DEF TextInv

LEMMA GetKeeps ==
  ASSUME PlainText, TextInv, SockGet \/ FileGet
  PROVE  TextInv'
<1>1. UNCHANGED <<out, peer, back, wbuf, idx>> /\ pc["reader"] = "get"
  BY DEF SockGet, FileGet, Runs, wvars
<1>2. PICK u \in Nat : u = Used
  <2>1. Len(rbuf) \in Nat /\ Places[Got] \in Nat
    BY PartLen, Layout DEF TextInv, ReaderHas
  <2> QED BY <2>1 DEF Used
<1>3. PICK d \in Nat : d = Len(stdio)
  BY PartLen DEF TextInv, ReaderReads
<1>4. PICK i \in Nat : i = Len(in)
  BY PartLen DEF TextInv, ReaderReads
<1>5. Part(stdio, u) /\ Part(in, u + d) /\ u + d + i = back /\ back \in Nat
      /\ (kind = "sock" => stdio = <<>>) /\ Len(Sent) \in Nat
  BY <1>2, <1>3, <1>4, Layout DEF TextInv, ReaderReads
<1>6. CASE EndOfFile
  <2>1. UNCHANGED <<kind, unget, stdio, str, rbuf, in, pc>>
    BY <1>6 DEF EndOfFile, Becomes, rvars
  <2> QED BY <1>1, <2>1, TextIsLeftAlone
<1>7. ASSUME stdio = <<>>, in # <<>>, Assemble(Append(rbuf, Head(in))),
             NEW f, NEW q, (f = <<>> /\ q = Tail(in)) \/ (f = Tail(in) /\ q = <<>>),
             kind = "sock" => f = <<>>, stdio' = f, in' = q, kind' = kind
      PROVE  TextInv'
  <2>1. d = 0 /\ u + d = u
    BY <1>3, <1>7
  <2>2. Part(in, u)
    BY <1>5, <2>1
  <2>3. /\ Part(Tail(in), u + 1) /\ Head(in) = Sent[u + 1]
        /\ i # 0 /\ Len(Tail(in)) = i - 1
    BY <1>4, <1>7, <2>2, PartTail
  <2>4. u + i <= Len(Sent)
    BY <1>4, <2>2 DEF Part
  <2>5. u + 1 <= Len(Sent) /\ (u + 1) + (i - 1) = u + i /\ back = u + i
    BY <1>5, <2>1, <2>3, <2>4
  <2>6. Part(<<>>, u + i) /\ Part(<<>>, u + 1) /\ Len(<<>>) = 0
    BY <2>4, <2>5, PartEmpty
  <2>7. Part(f, u + 1) /\ Part(q, (u + 1) + Len(f)) /\ (u + 1) + Len(f) + Len(q) = back
    <3>1. CASE f = <<>> /\ q = Tail(in)
      <4>1. Len(f) = 0 /\ Len(q) = i - 1 /\ (u + 1) + 0 = u + 1
        BY <2>3, <3>1
      <4>2. Part(q, (u + 1) + Len(f))
        BY <2>3, <3>1, <4>1
      <4> QED BY <2>5, <2>6, <3>1, <4>1, <4>2
    <3>2. CASE f = Tail(in) /\ q = <<>>
      <4>1. Len(f) = i - 1 /\ Len(q) = 0
        BY <2>3, <3>2
      <4>2. (u + 1) + Len(f) = u + i
        BY <2>5, <4>1
      <4>3. Part(q, (u + 1) + Len(f))
        BY <2>6, <3>2, <4>2
      <4>4. (u + 1) + Len(f) + Len(q) = back
        <5>1. (u + i) + 0 = u + i
          OBVIOUS
        <5> QED BY <2>5, <4>1, <4>2, <5>1
      <4>5. Part(f, u + 1)
        BY <2>3, <3>2
      <4> QED BY <4>3, <4>4, <4>5
    <3> QED BY <1>7, <3>1, <3>2
  <2> QED BY <1>1, <1>2, <1>7, <2>3, <2>5, <2>7, ByteTaken
<1>8. CASE SockGet
  <2>1. kind = "sock" /\ stdio = <<>>
    BY <1>5, <1>8 DEF SockGet
  <2>2. CASE in = <<>>
    BY <1>6, <1>8, <2>2 DEF SockGet
  <2>3. CASE in # <<>>
    <3>1. in' = Tail(in) /\ Assemble(Append(rbuf, Head(in))) /\ kind' = kind /\ stdio' = <<>>
      BY <1>8, <2>1, <2>3 DEF SockGet
    <3> QED BY <1>7, <2>1, <2>3, <3>1
  <2> QED BY <2>2, <2>3
<1>9. CASE FileGet
  <2>1. kind = "file"
    BY <1>9 DEF FileGet
  <2>2. CASE stdio = <<>> /\ in = <<>>
    BY <1>6, <1>9, <2>2 DEF FileGet
  <2>3. CASE stdio = <<>> /\ in # <<>>
    <3>1. in' = <<>> /\ stdio' = Tail(in) /\ Assemble(Append(rbuf, Head(in))) /\ kind' = kind
      BY <1>9, <2>3 DEF FileGet
    <3> QED BY <1>7, <2>1, <2>3, <3>1
  <2>4. CASE stdio # <<>>
    <3>1. in' = in /\ stdio' = Tail(stdio) /\ Assemble(Append(rbuf, Head(stdio))) /\ kind' = kind
      BY <1>9, <2>4 DEF FileGet
    <3>2. /\ Part(Tail(stdio), u + 1) /\ Head(stdio) = Sent[u + 1]
          /\ d # 0 /\ Len(Tail(stdio)) = d - 1
      BY <1>3, <1>5, <2>4, PartTail
    <3>3. u + 1 <= Len(Sent)
      <4>1. u + d <= Len(Sent)
        BY <1>3, <1>5 DEF Part
      <4> QED BY <1>5, <3>2, <4>1
    <3>4. (u + 1) + (d - 1) = u + d
      OBVIOUS
    <3> DEFINE f == Tail(stdio)
    <3>5. Part(f, u + 1) /\ Len(f) = d - 1 /\ stdio' = f
      BY <3>1, <3>2
    <3> HIDE DEF f
    <3>6. (u + 1) + Len(f) = u + d
      BY <3>4, <3>5
    <3>7. Part(in, (u + 1) + Len(f)) /\ (u + 1) + Len(f) + Len(in) = back
      BY <1>4, <1>5, <3>6
    <3>8. kind # "sock"
      BY <2>1
    <3> QED BY <1>1, <1>2, <3>1, <3>2, <3>3, <3>5, <3>7, <3>8, ByteTaken
  <2> QED BY <2>2, <2>3, <2>4
<1> QED BY <1>8, <1>9

(* The rest of the dispatcher does not touch the text. *)
LEMMA OthersKeep ==
  ASSUME TextInv,
         \/ VisitReleased \/ VisitSleeping \/ VisitWaiting \/ VisitReady
         \/ Register \/ Poll \/ Rest \/ Finish \/ Tick \/ UNCHANGED vars
  PROVE  TextInv'
<1>1. UNCHANGED <<out, in, peer, back, kind, unget, stdio, str, rbuf, wbuf, idx, pc>>
  BY DEF VisitReleased, VisitSleeping, VisitWaiting, VisitReady, Register, Poll, Rest, Finish,
         Tick, vars, net, wvars, rvars
<1> QED BY <1>1, TextIsLeftAlone

LEMMA SleeperKeeps ==
  ASSUME TextInv, Sleeps
  PROVE  TextInv'
<1>1. UNCHANGED <<out, in, peer, back, kind, unget, stdio, str, rbuf, wbuf, idx, pc>>
  BY DEF Sleeps, Becomes, net, wvars, rvars
<1> QED BY <1>1, TextIsLeftAlone

LEMMA TextInvIsEnough ==
  ASSUME TextInv
  PROVE  TextArrives
<1>1. Text \in Seq(Nat) /\ Len(Text) \in Nat
  BY PortsAssumption
<1>2. /\ str \in Seq(Nat) /\ Len(str) \in Nat /\ Got \in 0 .. Len(Text)
      /\ \A i \in 1 .. Len(str) : str[i] = Text[i]
  BY DEF TextInv, ReaderHas
<1>3. Len(str) <= Len(Text)
  BY <1>1, <1>2 DEF Got
<1> QED BY <1>1, <1>2, <1>3, PrefixByElements DEF TextArrives

(***************************************************************************)
(* What the string port holds is always a beginning of the text: for every *)
(* text of runes up to 65534 but the surrogates, sockets and files, any    *)
(* size of the buffers, any order of the queue and any interleaving with   *)
(* the peer and the clock, no rune is lost, split, doubled or decoded      *)
(* before its bytes are there (arc_readc, arc_writec and arc_peekc of      *)
(* io.c, runetochar, chartorune and fullrune of utf.c).                    *)
(***************************************************************************)
THEOREM TextAlwaysArrives ==
  ASSUME PlainText
  PROVE  Spec => []TextArrives
<1>1. Init => TextInv
  BY TextInvStart
<1>2. TextInv /\ [Next]_vars => TextInv'
  <2> SUFFICES ASSUME TextInv, [Next]_vars PROVE TextInv'
    OBVIOUS
  <2>1. CASE WriterNext
    BY <2>1, WriterNextKeeps
  <2>2. CASE WriterReady
    BY <2>2, WriterReadyKeeps
  <2>3. CASE WriterPut
    BY <2>3, WriterPutKeeps
  <2>4. CASE ReaderTakesBack
    BY <2>4, ReaderTakesBackKeeps
  <2>5. CASE ReaderNext \/ ReaderReady
    BY <2>5, ReaderMovesKeep
  <2>6. CASE SockGet \/ FileGet
    BY <2>6, GetKeeps
  <2>7. CASE PeerTakes
    BY <2>7, PeerTakesKeeps
  <2>8. CASE PeerAnswers
    BY <2>8, PeerAnswersKeeps
  <2>9. CASE Sleeps
    BY <2>9, SleeperKeeps
  <2>10. CASE \/ VisitReleased \/ VisitSleeping \/ VisitWaiting \/ VisitReady
              \/ Register \/ Poll \/ Rest \/ Finish \/ Tick \/ UNCHANGED vars
    BY <2>10, OthersKeep
  <2> QED BY <2>1, <2>2, <2>3, <2>4, <2>5, <2>6, <2>7, <2>8, <2>9, <2>10 DEF Next, Dispatch
<1>3. TextInv => TextArrives
  BY TextInvIsEnough
<1> QED BY <1>1, <1>2, <1>3, PTL DEF Spec
=============================================================================
