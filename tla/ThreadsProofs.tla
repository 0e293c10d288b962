--------------------------- MODULE ThreadsProofs ---------------------------
(***************************************************************************)
(* Theorems about Threads, for any threads, channels and values; and, at   *)
(* the end, that atomic-invoke excludes: Atomic is a program of Threads,   *)
(* and its lock is taken exactly while a thread is in its section.         *)
(***************************************************************************)
EXTENDS ChannelRefinement, Atomic, SequencesExt, SequenceTheorems,
        FiniteSetTheorems, WellFoundedInduction, TLAPS

-----------------------------------------------------------------------------
(* Facts about sequences *)

(* __arc_enqueue: one new member; still no repetition if it was not there. *)
LEMMA AppendMembers ==
  ASSUME NEW S, NEW q \in Seq(S), NEW x \in S
  PROVE  /\ Append(q, x) \in Seq(S)
         /\ ToSet(Append(q, x)) = ToSet(q) \cup {x}
         /\ IsInjective(q) /\ x \notin ToSet(q) => IsInjective(Append(q, x))
<1>1. /\ Append(q, x) \in Seq(S)
      /\ Len(Append(q, x)) = Len(q) + 1
      /\ \A i \in 1 .. Len(q) : Append(q, x)[i] = q[i]
      /\ Append(q, x)[Len(q) + 1] = x
  BY AppendProperties
<1>2. DOMAIN Append(q, x) = 1 .. Len(q) + 1 /\ DOMAIN q = 1 .. Len(q) /\ Len(q) \in Nat
  BY <1>1, LenProperties
<1>3. ToSet(Append(q, x)) = ToSet(q) \cup {x}
  BY <1>1, <1>2 DEF ToSet
<1>4. IsInjective(q) /\ x \notin ToSet(q) => IsInjective(Append(q, x))
  BY <1>1, <1>2 DEF ToSet, IsInjective
<1> QED BY <1>1, <1>3, <1>4

(* __arc_dequeue on a queue that is not empty: the head, and only the      *)
(* head, is gone.                                                          *)
LEMMA TailMembers ==
  ASSUME NEW S, NEW q \in Seq(S), q # <<>>
  PROVE  /\ Head(q) \in S /\ Head(q) \in ToSet(q)
         /\ Tail(q) \in Seq(S)
         /\ ToSet(Tail(q)) \subseteq ToSet(q)
         /\ ToSet(q) = ToSet(Tail(q)) \cup {Head(q)}
         /\ IsInjective(q) => IsInjective(Tail(q)) /\ Head(q) \notin ToSet(Tail(q))
<1>1. /\ Len(q) \in Nat /\ Len(q) # 0
      /\ Head(q) = q[1] /\ Tail(q) \in Seq(S)
      /\ Len(Tail(q)) = Len(q) - 1
      /\ \A i \in 1 .. Len(Tail(q)) : Tail(q)[i] = q[i + 1]
  BY HeadTailProperties, LenProperties, EmptySeq
<1>2. DOMAIN q = 1 .. Len(q) /\ DOMAIN Tail(q) = 1 .. Len(q) - 1
  BY <1>1, LenProperties
<1>3. Head(q) \in S /\ Head(q) \in ToSet(q)
  BY <1>1, <1>2, ElementOfSeq DEF ToSet
<1>4. ToSet(Tail(q)) \subseteq ToSet(q)
  BY <1>1, <1>2 DEF ToSet
<1>5. ToSet(q) \subseteq ToSet(Tail(q)) \cup {Head(q)}
  <2>1. ASSUME NEW i \in 1 .. Len(q), i # 1
        PROVE  q[i] \in ToSet(Tail(q))
    <3> DEFINE j == i - 1
    <3>1. j \in 1 .. Len(Tail(q)) /\ j + 1 = i
      BY <1>1, <2>1
    <3> HIDE DEF j
    <3>2. Tail(q)[j] = q[i]
      BY <1>1, <3>1
    <3> QED BY <3>1, <3>2, <1>1, <1>2 DEF ToSet
  <2>2. ASSUME NEW i \in 1 .. Len(q), i = 1
        PROVE  q[i] \in {Head(q)}
    BY <1>1, <2>2
  <2> QED BY <2>1, <2>2, <1>2 DEF ToSet
<1>6. IsInjective(q) => IsInjective(Tail(q)) /\ Head(q) \notin ToSet(Tail(q))
  BY <1>1, <1>2 DEF ToSet, IsInjective
<1> QED BY <1>1, <1>3, <1>4, <1>5, <1>6

(* What is left of a sequence without its i-th element, place by place.    *)
LEMMA RemoveAtElements ==
  ASSUME NEW S, NEW q \in Seq(S), NEW i \in 1 .. Len(q)
  PROVE  /\ RemoveAt(q, i) \in Seq(S) /\ Len(RemoveAt(q, i)) = Len(q) - 1
         /\ \A j \in 1 .. Len(q) - 1 : RemoveAt(q, i)[j] = IF j < i THEN q[j] ELSE q[j + 1]
<1> DEFINE l == SubSeq(q, 1, i - 1)
           r == SubSeq(q, i + 1, Len(q))
           u == RemoveAt(q, i)
<1>1. Len(q) \in Nat /\ DOMAIN q = 1 .. Len(q)
  BY LenProperties
<1>2. /\ l \in Seq(S) /\ Len(l) = i - 1
      /\ \A j \in 1 .. i - 1 : l[j] = q[j]
  BY <1>1, SubSeqProperties
<1>3. /\ r \in Seq(S) /\ Len(r) = Len(q) - i
      /\ \A j \in 1 .. Len(q) - i : r[j] = q[i + j]
  <2>1. \A j \in 1 .. Len(q) : q[j] \in S
    BY <1>1, ElementOfSeq
  <2> DEFINE m == i + 1
             n == Len(q)
  <2>2. m \in Int /\ n \in Int /\ m = i + 1 /\ n = Len(q) /\ i >= 1 /\ i <= n
    BY <1>1
  <2> HIDE DEF m, n
  <2>3. \A j \in m .. n : q[j] \in S
    BY <2>1, <2>2
  <2>4. /\ SubSeq(q, m, n) \in Seq(S)
        /\ Len(SubSeq(q, m, n)) = IF m <= n THEN n - m + 1 ELSE 0
        /\ \A k \in 1 .. n - m + 1 : SubSeq(q, m, n)[k] = q[m + k - 1]
    BY <2>2, <2>3, SubSeqProperties
  <2>5. \A j \in 1 .. Len(q) - i : j \in 1 .. n - m + 1 /\ m + j - 1 = i + j
    BY <1>1, <2>2
  <2>6. Len(SubSeq(q, m, n)) = Len(q) - i
    <3>1. CASE m <= n
      <4>1. n - m + 1 = Len(q) - i
        BY <1>1, <2>2
      <4> QED BY <2>4, <3>1, <4>1, Zenon
    <3>2. CASE ~(m <= n)
      <4>1. i \in Int /\ Len(q) \in Int /\ ~(i + 1 <= Len(q)) /\ i <= Len(q)
        BY <1>1, <2>2, <3>2
      <4>2. 0 = Len(q) - i
        BY <4>1
      <4> QED BY <2>4, <3>2, <4>2, Zenon
    <3> QED BY <3>1, <3>2
  <2>7. r = SubSeq(q, m, n)
    BY DEF m, n
  <2>8. \A j \in 1 .. Len(q) - i : r[j] = q[i + j]
    BY <2>4, <2>5, <2>7
  <2> QED BY <2>4, <2>6, <2>7, <2>8
<1> HIDE DEF l, r
<1>4. /\ u \in Seq(S) /\ Len(u) = Len(q) - 1
      /\ \A j \in 1 .. Len(q) - 1 : u[j] = IF j < i THEN q[j] ELSE q[j + 1]
  <2>1. u = l \o r
    BY DEF RemoveAt, l, r
  <2> HIDE DEF u
  <2>2. /\ u \in Seq(S) /\ Len(u) = Len(l) + Len(r)
        /\ \A j \in 1 .. Len(l) + Len(r) :
             u[j] = IF j <= Len(l) THEN l[j] ELSE r[j - Len(l)]
    BY <1>2, <1>3, <2>1, ConcatProperties
  <2>3. ASSUME NEW j \in 1 .. Len(q) - 1, j < i PROVE u[j] = q[j]
    <3>1. j \in 1 .. i - 1 /\ j <= Len(l) /\ j \in 1 .. Len(l) + Len(r)
      BY <1>1, <1>2, <1>3, <2>3
    <3> QED BY <1>2, <2>2, <3>1
  <2>4. ASSUME NEW j \in 1 .. Len(q) - 1, ~(j < i) PROVE u[j] = q[j + 1]
    <3> DEFINE k == j - (i - 1)
    <3>1. k \in 1 .. Len(q) - i /\ i + k = j + 1 /\ ~(j <= i - 1) /\ j \in 1 .. Len(l) + Len(r)
      BY <1>1, <1>2, <1>3, <2>4
    <3> HIDE DEF k
    <3>2. u[j] = r[k]
      BY <1>2, <2>2, <3>1 DEF k
    <3> QED BY <1>3, <3>1, <3>2
  <2> QED BY <1>1, <1>2, <1>3, <2>2, <2>3, <2>4
<1> QED BY <1>4 DEF u

(* The unlink in arc_thread_dispatch: the visited thread, and no other,    *)
(* leaves a run queue without repetitions.                                 *)
LEMMA RemoveAtMembers ==
  ASSUME NEW S, NEW q \in Seq(S), NEW i \in 1 .. Len(q)
  PROVE  /\ RemoveAt(q, i) \in Seq(S)
         /\ Len(RemoveAt(q, i)) = Len(q) - 1
         /\ ToSet(RemoveAt(q, i)) \subseteq ToSet(q)
         /\ IsInjective(q) => /\ IsInjective(RemoveAt(q, i))
                              /\ ToSet(RemoveAt(q, i)) = ToSet(q) \ {q[i]}
<1> DEFINE u == RemoveAt(q, i)
<1>1. Len(q) \in Nat /\ DOMAIN q = 1 .. Len(q)
  BY LenProperties
<1>4. /\ u \in Seq(S) /\ Len(u) = Len(q) - 1
      /\ \A j \in 1 .. Len(q) - 1 : u[j] = IF j < i THEN q[j] ELSE q[j + 1]
  BY RemoveAtElements
<1>5. DOMAIN u = 1 .. Len(q) - 1
  BY <1>4, LenProperties
<1> HIDE DEF u
<1>6. ASSUME NEW j \in DOMAIN u
      PROVE  \E k \in DOMAIN q : u[j] = q[k] /\ k # i /\ k = IF j < i THEN j ELSE j + 1
  BY <1>1, <1>4, <1>5
<1>7. ToSet(u) \subseteq ToSet(q)
  BY <1>6 DEF ToSet
<1>8. ASSUME IsInjective(q) PROVE q[i] \notin ToSet(u)
  BY <1>1, <1>6, <1>8 DEF ToSet, IsInjective
<1>9. ASSUME IsInjective(q) PROVE IsInjective(u)
  <2> SUFFICES ASSUME NEW a \in DOMAIN u, NEW b \in DOMAIN u, u[a] = u[b]
               PROVE  a = b
    BY DEF IsInjective
  <2>1. PICK k \in DOMAIN q : u[a] = q[k] /\ k = IF a < i THEN a ELSE a + 1
    BY <1>6
  <2>2. PICK m \in DOMAIN q : u[b] = q[m] /\ m = IF b < i THEN b ELSE b + 1
    BY <1>6
  <2>3. k = m
    BY <1>9, <2>1, <2>2 DEF IsInjective
  <2> QED BY <2>1, <2>2, <2>3, <1>1, <1>5
<1>10. ToSet(q) \subseteq ToSet(u) \cup {q[i]}
  <2>1. ASSUME NEW j \in 1 .. Len(q), j < i PROVE q[j] \in ToSet(u)
    <3>1. j \in DOMAIN u /\ u[j] = q[j]
      BY <2>1, <1>1, <1>4, <1>5
    <3> QED BY <3>1 DEF ToSet
  <2>2. ASSUME NEW j \in 1 .. Len(q), j > i PROVE q[j] \in ToSet(u)
    <3> DEFINE k == j - 1
    <3>1. k \in 1 .. Len(q) - 1 /\ k + 1 = j /\ ~(k < i)
      BY <2>2, <1>1
    <3> HIDE DEF k
    <3>2. u[k] = q[j]
      BY <3>1, <1>4
    <3> QED BY <3>1, <3>2, <1>5 DEF ToSet
  <2>3. ASSUME NEW j \in 1 .. Len(q) PROVE j = i \/ j < i \/ j > i
    BY <1>1
  <2> QED BY <2>1, <2>2, <2>3, <1>1 DEF ToSet
<1> QED BY <1>4, <1>7, <1>8, <1>9, <1>10 DEF u

-----------------------------------------------------------------------------
(* The parts of a suspended call are of the right kind. *)
LEMMA CallParts ==
  ASSUME NEW k \in Call
  PROVE  /\ k.fn = "recv" => k.chan \in Chan /\ k = RecvCall(k.chan)
         /\ k.fn = "send" => k.chan \in Chan /\ k.val \in Value /\ k = SendCall(k.chan, k.val)
         /\ k.fn = "join" => k.thr \in Thread /\ k = JoinCall(k.thr)
BY DEF Call, NoCall, ErrCall, RecvCall, SendCall, JoinCall

(* Calls are told apart by their function and their arguments. *)
LEMMA CallsDiffer ==
  ASSUME NEW c, NEW d, NEW v, NEW w, NEW u, NEW x
  PROVE  /\ RecvCall(c) # NoCall /\ SendCall(c, v) # NoCall /\ JoinCall(u) # NoCall
         /\ ErrCall # NoCall /\ RecvCall(c) # ErrCall /\ SendCall(c, v) # ErrCall
         /\ JoinCall(u) # ErrCall
         /\ RecvCall(c) # SendCall(d, v) /\ RecvCall(c) # JoinCall(u)
         /\ SendCall(c, v) # JoinCall(u)
         /\ RecvCall(c) = RecvCall(d) <=> c = d
         /\ SendCall(c, v) = SendCall(d, w) <=> c = d /\ v = w
         /\ JoinCall(u) = JoinCall(x) <=> u = x
         /\ RecvCall(c).fn = "recv" /\ SendCall(c, v).fn = "send" /\ JoinCall(u).fn = "join"
         /\ RecvCall(c).chan = c /\ SendCall(c, v).chan = c /\ SendCall(c, v).val = v
         /\ JoinCall(u).thr = u
         /\ NoCall.fn = "none" /\ ErrCall.fn = "err"
BY DEF NoCall, ErrCall, RecvCall, SendCall, JoinCall

LEMMA CallKinds ==
  /\ NoCall \in Call /\ ErrCall \in Call
  /\ \A c \in Chan : RecvCall(c) \in Call
  /\ \A c \in Chan, v \in Value : SendCall(c, v) \in Call
  /\ \A u \in Thread : JoinCall(u) \in Call
BY DEF Call

(* The wake-up operators keep the table of states. *)
LEMMA WakeType ==
  ASSUME NEW st \in [Thread -> State], NEW q \in Seq(Thread), NEW ts
  PROVE  /\ WakeHead(st, q) \in [Thread -> State]
         /\ WakeAll(st, ts) \in [Thread -> State]
         /\ Dequeue(q) \in Seq(Thread)
<1>1. "Tready" \in State BY DEF State
<1>2. WakeAll(st, ts) \in [Thread -> State] BY <1>1 DEF WakeAll
<1>3. CASE q = <<>> BY <1>2, <1>3 DEF WakeHead, Dequeue
<1>4. CASE q # <<>> BY <1>1, <1>2, <1>4, TailMembers DEF WakeHead, Dequeue
<1> QED BY <1>3, <1>4

-----------------------------------------------------------------------------
(***************************************************************************)
(* The run queue and the joiners, whatever threads do to each other.  A    *)
(* wakeup sets a state blindly, so what keeps a thread that does not exist *)
(* yet from being made ready is that it is in no queue.                    *)
(***************************************************************************)
Queued(t) ==
  \/ \E c \in Chan : t \in ToSet(rq[c]) \/ t \in ToSet(sq[c])
  \/ \E u \in Thread : t \in ToSet(joinq[u])
  \/ t \in iowaitdata

UnbornUnknown ==
  \A t \in Thread :
    state[t] = "unborn" =>
      /\ rv[t] = NoVal /\ joinq[t] = <<>> /\ ~Queued(t)
      /\ \A x \in Thread : call[x] # JoinCall(t)

RunInv == RunQueueSound /\ NoJoinerLeftBehind /\ UnbornUnknown

(* What the pointers of the run queue are relinked to.                      *)
LEMMA ScdrAt ==
  ASSUME NEW S, NEW q \in Seq(S), IsInjective(q), NEW i \in 1 .. Len(q), NEW rest
  PROVE  Scdr(q, q[i], rest) = SubSeq(q, 1, i) \o rest
<1>1. DOMAIN q = 1 .. Len(q)
  BY LenProperties
<1>2. q[i] \in ToSet(q)
  BY <1>1 DEF ToSet
<1>3. \A j \in 1 .. Len(q) : q[j] = q[i] => j = i
  BY <1>1 DEF IsInjective
<1>4. (CHOOSE j \in 1 .. Len(q) : q[j] = q[i]) = i
  BY <1>3
<1> QED BY <1>2, <1>4 DEF Scdr

(* arc_spawn adds at the end of the queue. *)
LEMMA EnqueueAppends ==
  ASSUME TypeOK, RunInv, NEW u \in Thread
  PROVE  Enqueue(vmthreads, vmthrtail, u) = Append(vmthreads, u)
<1> DEFINE q == vmthreads  n == Len(vmthreads)
<1>1. q \in Seq(Thread) /\ n \in Nat /\ IsInjective(q)
      /\ vmthrtail = IF q = <<>> THEN Nil ELSE Last(q)
  BY LenProperties DEF TypeOK, RunInv, RunQueueSound
<1>2. CASE q = <<>>
  <2>1. Enqueue(q, vmthrtail, u) = <<u>>
    BY <1>1, <1>2 DEF Enqueue
  <2> QED BY <1>2, <2>1
<1>3. CASE q # <<>>
  <2>1. n \in 1 .. Len(q)
    BY <1>1, <1>3, EmptySeq
  <2>2. vmthrtail = q[n]
    BY <1>1, <1>3 DEF Last
  <2>3. Enqueue(q, vmthrtail, u) = Scdr(q, q[n], <<u>>)
    BY <1>3, <2>2 DEF Enqueue
  <2>4. Scdr(q, q[n], <<u>>) = SubSeq(q, 1, n) \o <<u>>
    BY <1>1, <2>1, ScdrAt
  <2>5. SubSeq(q, 1, n) = q
    BY <1>1, SubSeqFull
  <2>6. q \o <<u>> = Append(q, u)
    BY <1>1, AppendIsConcat
  <2> QED BY <2>3, <2>4, <2>5, <2>6
<1> QED BY <1>2, <1>3

(* The unlink takes the walk's cell out, and the pointers follow. *)
LEMMA UnlinkRemoves ==
  ASSUME TypeOK, RunInv, pos \in 1 .. Len(vmthreads), Unlink
  PROVE  /\ vmthreads' = RemoveAt(vmthreads, pos)
         /\ vmthrtail' = IF vmthreads' = <<>> THEN Nil ELSE Last(vmthreads')
         /\ prev' = IF pos = 1 THEN Nil ELSE vmthreads'[pos - 1]
         /\ vmthrtail' \in Thread \cup {Nil}
<1> DEFINE q == vmthreads  n == Len(vmthreads)  rest == SubSeq(q, pos + 1, n)
<1>1. q \in Seq(Thread) /\ n \in Nat /\ IsInjective(q) /\ pos \in 1 .. n
      /\ vmthrtail = (IF q = <<>> THEN Nil ELSE Last(q))
      /\ prev = (IF pos = 1 THEN Nil ELSE q[pos - 1])
  BY LenProperties DEF TypeOK, RunInv, RunQueueSound
<1>2. vmthreads' = (IF prev = Nil THEN rest ELSE Scdr(q, prev, rest))
      /\ vmthrtail' = (IF pos = n THEN prev ELSE vmthrtail) /\ prev' = prev
  BY DEF Unlink, Relink
<1>3. RemoveAt(q, pos) = SubSeq(q, 1, pos - 1) \o rest
  BY DEF RemoveAt
<1>4. rest \in Seq(Thread)
  BY <1>1, SubSeqProperties
<1> HIDE DEF rest
<1>5. vmthreads' = RemoveAt(q, pos)
  <2>1. CASE pos = 1
    <3>1. vmthreads' = rest
      BY <1>1, <1>2, <2>1
    <3>2. SubSeq(q, 1, pos - 1) = <<>>
      BY <1>1, <2>1, SubSeqProperties, EmptySeq
    <3>3. <<>> \o rest = rest
      BY <1>4, ConcatEmptySeq
    <3> QED BY <1>3, <3>1, <3>2, <3>3
  <2>2. CASE pos # 1
    <3>1. pos - 1 \in 1 .. Len(q) /\ prev = q[pos - 1]
      BY <1>1, <2>2
    <3>2. prev # Nil
      BY <1>1, <3>1, ElementOfSeq, NilAssumption
    <3>3. Scdr(q, prev, rest) = SubSeq(q, 1, pos - 1) \o rest
      BY <1>1, <3>1, ScdrAt
    <3> QED BY <1>2, <1>3, <3>2, <3>3
  <2> QED BY <2>1, <2>2
<1> DEFINE r == vmthreads'
<1>6. /\ r \in Seq(Thread) /\ Len(r) = n - 1
      /\ \A j \in 1 .. n - 1 : r[j] = IF j < pos THEN q[j] ELSE q[j + 1]
  BY <1>1, <1>5, RemoveAtElements
<1>7. q # <<>> /\ vmthrtail = q[n] /\ q[n] \in Thread
  <2>1. q # <<>>
    BY <1>1, EmptySeq
  <2>2. n \in 1 .. Len(q)
    BY <1>1
  <2> QED BY <1>1, <2>1, <2>2, ElementOfSeq DEF Last
<1>8. prev' = IF pos = 1 THEN Nil ELSE r[pos - 1]
  <2>1. ASSUME pos # 1 PROVE r[pos - 1] = q[pos - 1]
    <3>1. pos - 1 \in 1 .. n - 1 /\ pos - 1 < pos
      BY <1>1, <2>1
    <3> QED BY <1>6, <3>1
  <2> QED BY <1>1, <1>2, <2>1
<1>9. vmthrtail' = IF r = <<>> THEN Nil ELSE Last(r)
  <2>1. CASE n = 1
    <3>1. pos = 1 /\ pos = n /\ Len(r) = 0
      BY <1>1, <1>6, <2>1
    <3>2. r = <<>>
      BY <1>6, <3>1, EmptySeq
    <3> QED BY <1>1, <1>2, <3>1, <3>2
  <2>2. CASE n # 1
    <3>1. Len(r) = n - 1 /\ n - 1 \in 1 .. n - 1 /\ (n - 1) + 1 = n
          /\ (n - 1 < pos <=> pos = n) /\ (pos = n => pos # 1)
      BY <1>1, <1>6, <2>2
    <3>2. r # <<>>
      BY <3>1, EmptySeq
    <3>3. Last(r) = r[n - 1]
      BY <3>1 DEF Last
    <3>4. r[n - 1] = IF pos = n THEN q[n - 1] ELSE q[n]
      BY <1>6, <3>1
    <3>5. CASE pos = n
      BY <1>1, <1>2, <3>1, <3>2, <3>3, <3>4, <3>5
    <3>6. CASE pos # n
      BY <1>2, <1>7, <3>2, <3>3, <3>4, <3>6
    <3> QED BY <3>5, <3>6
  <2> QED BY <2>1, <2>2
<1>10. vmthrtail' \in Thread \cup {Nil}
  BY <1>2 DEF TypeOK
<1> QED BY <1>5, <1>8, <1>9, <1>10

-----------------------------------------------------------------------------
LEMMA TypeStart == Init => TypeOK
<1> HAVE Init
<1>1. <<Main>> \in Seq(Thread) /\ Len(<<Main>>) = 1
  BY MainAssumption
<1>2. <<>> \in Seq(Thread)
  OBVIOUS
<1> QED BY <1>1, <1>2, MainAssumption, CallKinds DEF Init, TypeOK, State

(* The position stays in the queue because the tail pointer is right: a    *)
(* cell appended elsewhere would take others with it.                      *)
LEMMA TypeStep ==
  ASSUME TypeOK, RunInv, [Next]_vars
  PROVE  TypeOK'
<1> USE DEF TypeOK
<1>0. Len(vmthreads) \in Nat /\ pos \in Nat
  BY LenProperties
<1> USE DEF thrvars, chanvars, dispvars, vars
<1>r. "Tready" \in State /\ "Trecv" \in State /\ "Tsend" \in State /\ "Tsleep" \in State
      /\ "Tiowait" \in State /\ "Trelease" \in State /\ "Tbroken" \in State
  BY DEF State, Blocked, Stopped
<1>o. ASSUME pos <= Len(vmthreads), Onward
      PROVE  /\ vmthreads' \in Seq(Thread) /\ pos' \in 1 .. Len(vmthreads') + 1
             /\ vmthrtail' \in Thread \cup {Nil} /\ prev' \in Thread \cup {Nil}
  <2>1. pos \in 1 .. Len(vmthreads)
    BY <1>0, <1>o
  <2>2. vmthreads[pos] \in Thread
    BY <2>1, ElementOfSeq
  <2> QED BY <1>0, <1>o, <2>2 DEF Onward
<1>s. ASSUME NEW t \in Thread, Running(t), Suspend
      PROVE  /\ vmthreads' \in Seq(Thread) /\ pos' \in 1 .. Len(vmthreads') + 1
             /\ phase' \in {"visit", "run", "returned"}
             /\ (phase' = "run" => pos' <= Len(vmthreads'))
             /\ idle' \in BOOLEAN /\ iowaitdata' \in SUBSET Thread
            /\ vmthrtail' \in Thread \cup {Nil} /\ prev' \in Thread \cup {Nil}
  BY <1>0, <1>o, <1>s DEF Running, Suspend
<1>1. ASSUME NEW t \in Thread, NEW c \in Chan, NEW st \in [Thread -> State],
             Running(t), RecvBody(t, c, st),
             acell' \in [Thread -> BOOLEAN], UNCHANGED <<valr, rv, joinq>>
      PROVE  TypeOK'
  <2>1. CASE RecvBlocks(t, c, st)
    BY <1>1, <1>r, <1>s, <2>1, CallKinds, AppendMembers DEF RecvBlocks
  <2>2. CASE RecvTakes(t, c, st)
    BY <1>1, <1>r, <2>2, CallKinds, WakeType DEF RecvTakes
  <2> QED BY <1>1, <2>1, <2>2 DEF RecvBody
<1>2. ASSUME NEW t \in Thread, NEW c \in Chan, NEW v \in Value,
             Running(t), SendBody(t, c, v), UNCHANGED <<acell, valr, rv, joinq>>
      PROVE  TypeOK'
  <2>1. CASE SendBlocks(t, c, v)
    BY <1>2, <1>r, <1>s, <2>1, CallKinds, AppendMembers DEF SendBlocks
  <2>2. CASE SendPuts(t, c, v)
    BY <1>2, <1>r, <2>2, CallKinds, WakeType DEF SendPuts
  <2> QED BY <1>2, <2>1, <2>2 DEF SendBody
<1>3. ASSUME NEW t \in Thread, NEW u \in Thread,
             Running(t), JoinBody(t, u), UNCHANGED <<acell, valr, rv>>
      PROVE  TypeOK'
  <2>1. CASE JoinWaits(t, u)
    BY <1>3, <1>r, <1>s, <2>1, CallKinds, AppendMembers DEF JoinWaits
  <2>2. CASE JoinReturns(t, u)
    BY <1>3, <2>2, CallKinds DEF JoinReturns
  <2>3. CASE JoinChan(t, u)
    <3>1. call' \in [Thread -> Call]
      BY <2>3, CallKinds DEF JoinChan
    <3>2. CASE hasdata[rv[u]]
      BY <1>3, <2>3, <3>1, <3>2 DEF JoinChan
    <3>3. CASE ~hasdata[rv[u]]
      <4>1. /\ rv[u] \in Chan /\ Suspend
            /\ rq' = [rq EXCEPT ![rv[u]] = Append(@, t)]
            /\ state' = [state EXCEPT ![t] = "Trecv"]
        BY <2>3, <3>3 DEF JoinChan
      <4>2. rq' \in [Chan -> Seq(Thread)] /\ state' \in [Thread -> State]
        BY <4>1, <1>r, AppendMembers
      <4> QED BY <1>3, <1>s, <2>3, <3>1, <4>1, <4>2 DEF JoinChan
    <3> QED BY <3>2, <3>3
  <2> QED BY <1>3, <2>1, <2>2, <2>3 DEF JoinBody
<1>4. ASSUME NEW t \in Thread, Operate(t) PROVE TypeOK'
  <2>1. ASSUME NEW c \in Chan, Recv(t, c) PROVE TypeOK'
    BY <2>1, <1>1 DEF Recv, Free
  <2>2. ASSUME NEW c \in Chan, NEW v \in Value, Send(t, c, v) PROVE TypeOK'
    BY <2>2, <1>2 DEF Send, Free
  <2>3. ASSUME NEW u \in Thread, Join(t, u) PROVE TypeOK'
    BY <2>3, <1>3 DEF Join, Free
  <2>4. ASSUME NEW u \in Thread, Spawn(t, u) PROVE TypeOK'
    <3>1. vmthreads' = Append(vmthreads, u) /\ vmthrtail' = u
      BY <2>4, EnqueueAppends DEF Spawn
    <3>2. vmthreads' \in Seq(Thread) /\ Len(vmthreads') = Len(vmthreads) + 1
      BY <3>1, AppendProperties
    <3>3. pos' \in 1 .. Len(vmthreads') + 1 /\ (phase' = "run" => pos' <= Len(vmthreads'))
      BY <2>4, <3>2, <1>0 DEF Spawn
    <3> QED BY <2>4, <3>1, <3>2, <3>3, <1>r DEF Spawn
  <2>5. ASSUME NEW u \in Thread, Kill(t, u) PROVE TypeOK'
    <3>1. [state EXCEPT ![u] = "Tbroken"] \in [Thread -> State]
      BY <1>r
    <3>2. CASE acell[u]
      BY <2>5, <3>1, <3>2, <1>1, AChanAssumption DEF Kill, Free
    <3>3. CASE ~acell[u]
      BY <2>5, <3>1, <3>3 DEF Kill
    <3> QED BY <3>2, <3>3
  <2>6. ASSUME NEW u \in Thread, Break(t, u) PROVE TypeOK'
    BY <2>6, <1>r, CallKinds DEF Break
  <2>7. ASSUME NEW u \in Thread, NEW v \in RetVal, SpawnForeign(t, u, v) PROVE TypeOK'
    BY <2>7, <1>r DEF SpawnForeign
  <2>8. ASSUME NEW v \in RetVal, Return(t, v) PROVE TypeOK'
    BY <2>8, <1>r, <1>s DEF Return, Free
  <2>9. ASSUME NEW v \in RetVal, ErrUncaught(t, v) PROVE TypeOK'
    BY <2>9, <1>r, <1>s, CallKinds DEF ErrUncaught
  <2>10. ASSUME NEW b \in BOOLEAN, AtomicCell(t, b) PROVE TypeOK'
    BY <2>10 DEF AtomicCell
  <2>11. CASE Sleep(t)
    BY <2>11, <1>r, <1>s DEF Sleep, Free
  <2>12. CASE Iowait(t)
    BY <2>12, <1>r, <1>s DEF Iowait, Free
  <2>13. CASE Preempt(t)
    BY <2>13, <1>s DEF Preempt, Free
  <2>14. CASE ErrCaught(t)
    BY <2>14, CallKinds DEF ErrCaught
  <2> QED BY <1>4, <2>1, <2>2, <2>3, <2>4, <2>5, <2>6, <2>7, <2>8, <2>9, <2>10,
             <2>11, <2>12, <2>13, <2>14 DEF Operate
<1>5. ASSUME NEW t \in Thread, Resume(t) PROVE TypeOK'
  <2>1. CASE ResumeRecv(t)
    BY <2>1, <1>1, CallParts DEF ResumeRecv
  <2>2. CASE ResumeSend(t)
    BY <2>2, <1>2, CallParts DEF ResumeSend
  <2>3. CASE ResumeJoin(t)
    BY <2>3, <1>3, CallParts DEF ResumeJoin
  <2> QED BY <1>5, <2>1, <2>2, <2>3 DEF Resume
<1>6. ASSUME NEW t \in Thread, Visit(t) PROVE TypeOK'
  <2>1. CASE Reap(t)
    <3>1. pos \in 1 .. Len(vmthreads) /\ <<>> \in Seq(Thread)
      BY <2>1, <1>0 DEF Reap, Visiting
    <3>2. vmthreads' \in Seq(Thread) /\ Len(vmthreads') = Len(vmthreads) - 1
          /\ vmthrtail' \in Thread \cup {Nil} /\ prev' = prev
      <4>1. Unlink
        BY <2>1 DEF Reap
      <4>2. /\ vmthreads' = RemoveAt(vmthreads, pos) /\ prev' = prev
            /\ vmthrtail' \in Thread \cup {Nil}
        BY <3>1, <4>1, UnlinkRemoves DEF Unlink
      <4>3. vmthreads \in Seq(Thread)
        OBVIOUS
      <4> QED BY <3>1, <4>2, <4>3, RemoveAtMembers
    <3>3. rv' \in [Thread -> RetVal \cup {NoVal}]
      BY <2>1 DEF Reap
    <3>4. state' \in [Thread -> State]
      BY <2>1, WakeType, <3>1 DEF Reap
    <3>5. pos' \in 1 .. Len(vmthreads') + 1 /\ phase' = "visit" /\ idle' = FALSE
      BY <2>1, <1>0, <3>1, <3>2 DEF Reap, Visiting
    <3>6. joinq' \in [Thread -> Seq(Thread)]
      BY <2>1, <3>1 DEF Reap
    <3> QED BY <2>1, <3>2, <3>3, <3>4, <3>5, <3>6 DEF Reap
  <2>2. CASE VisitBlocked(t)
    BY <2>2, <1>o DEF VisitBlocked, Visiting
  <2>3. CASE VisitReady(t)
    BY <2>3, <1>0 DEF VisitReady, Visiting
  <2>4. CASE VisitSleeping(t)
    <3>1. pos <= Len(vmthreads) /\ Onward /\ phase' = "visit" /\ idle' = FALSE
      BY <2>4 DEF VisitSleeping, Visiting
    <3> QED BY <2>4, <3>1, <1>o DEF VisitSleeping
  <2>5. CASE WakeSleeper(t)
    BY <2>5, <1>0, <1>r DEF WakeSleeper, Visiting
  <2>6. CASE VisitIowait(t)
    <3>1. pos <= Len(vmthreads) /\ Onward /\ phase' = "visit" /\ idle' = FALSE
      BY <2>6 DEF VisitIowait, Visiting
    <3> QED BY <2>6, <3>1, <1>o DEF VisitIowait
  <2> QED BY <1>6, <2>1, <2>2, <2>3, <2>4, <2>5, <2>6 DEF Visit
<1>7. CASE EndCycle
  <2>1. state' \in [Thread -> State]
    BY <1>7, <1>r DEF EndCycle, WakeAll
  <2> QED BY <1>7, <1>0, <2>1 DEF EndCycle
<1>8. CASE GiveUp
  BY <1>8 DEF GiveUp
<1>9. CASE UNCHANGED vars
  BY <1>9
<1> QED BY <1>4, <1>5, <1>6, <1>7, <1>8, <1>9 DEF Next, Exit

(* What dequeuing and waking do to a queue and to the states. *)
LEMMA DequeueMembers ==
  ASSUME NEW q \in Seq(Thread)
  PROVE  ToSet(Dequeue(q)) \subseteq ToSet(q)
BY TailMembers DEF Dequeue

LEMMA WakeMembers ==
  ASSUME NEW q \in Seq(Thread), NEW st \in [Thread -> State], NEW x \in Thread
  PROVE  WakeHead(st, q)[x] = st[x] \/ (x \in ToSet(q) /\ WakeHead(st, q)[x] = "Tready")
BY TailMembers DEF WakeHead

(* The run queue stays as it is, and the walk may go on or begin anew. *)
Steady ==
  /\ UNCHANGED <<vmthreads, vmthrtail>>
  /\ UNCHANGED <<pos, prev>> \/ Onward \/ (pos' = 1 /\ prev' = Nil)

(* A step that neither creates nor reaps a thread: the running thread may  *)
(* queue itself, and queued threads may be woken.                          *)
LEMMA RunInvPreserved ==
  ASSUME TypeOK, TypeOK', RunInv, Steady, UNCHANGED rv,
         \A x \in Thread : state'[x] = "unborn" <=> state[x] = "unborn",
         \A x \in Thread : Queued(x)' => Queued(x) \/ state[x] # "unborn",
         \A u \in Thread : joinq'[u] = joinq[u] \/ (rv[u] = NoVal /\ state[u] # "unborn"),
         \A x, u \in Thread : call'[x] = JoinCall(u) => call[x] = JoinCall(u) \/ state[u] # "unborn"
  PROVE  RunInv'
<1>0. vmthreads' = vmthreads /\ vmthrtail' = vmthrtail
  BY DEF Steady
<1>p. prev' = IF pos' = 1 THEN Nil ELSE vmthreads'[pos' - 1]
  <2>1. pos \in Nat \ {0} /\ prev = IF pos = 1 THEN Nil ELSE vmthreads[pos - 1]
    BY LenProperties DEF TypeOK, RunInv, RunQueueSound
  <2>2. CASE UNCHANGED <<pos, prev>>
    BY <1>0, <2>1, <2>2
  <2>3. CASE Onward
    <3>1. pos' = pos + 1 /\ pos' # 1 /\ pos' - 1 = pos /\ prev' = vmthreads[pos]
      BY <2>1, <2>3 DEF Onward
    <3> QED BY <1>0, <3>1
  <2>4. CASE pos' = 1 /\ prev' = Nil
    BY <2>4
  <2> QED BY <2>2, <2>3, <2>4 DEF Steady
<1>1. RunQueueSound'
  BY <1>0, <1>p DEF RunInv, RunQueueSound
<1>2. NoJoinerLeftBehind'
  BY DEF RunInv, NoJoinerLeftBehind
<1>3. UnbornUnknown'
  BY DEF RunInv, UnbornUnknown
<1> QED BY <1>1, <1>2, <1>3 DEF RunInv

(* The thread being run or visited is in the run queue, so it was born. *)
LEMMA CurrentIsBorn ==
  ASSUME TypeOK, RunInv, NEW t \in Thread, Running(t) \/ Visiting(t)
  PROVE  state[t] # "unborn" /\ t \in ToSet(vmthreads) /\ rv[t] = NoVal /\ pos \in DOMAIN vmthreads
<1>1. pos \in DOMAIN vmthreads
  BY LenProperties DEF TypeOK, Running, Visiting
<1> QED BY <1>1 DEF TypeOK, RunInv, RunQueueSound, Running, Visiting, ToSet

(* Entering or leaving a call that is not a join starts no join. *)
LEMMA NoNewJoin ==
  ASSUME TypeOK, NEW t \in Thread, NEW k, call' = [call EXCEPT ![t] = k],
         \A y \in Thread : k # JoinCall(y)
  PROVE  \A x, y \in Thread : call'[x] = JoinCall(y) => call[x] = JoinCall(y)
<1>1. \A x \in Thread : call'[x] = IF x = t THEN k ELSE call[x]
  BY DEF TypeOK
<1> QED BY <1>1

LEMMA NotJoins ==
  \A y \in Thread :
    /\ NoCall # JoinCall(y) /\ ErrCall # JoinCall(y)
    /\ \A c \in Chan : RecvCall(c) # JoinCall(y)
    /\ \A c \in Chan, v \in Value : SendCall(c, v) # JoinCall(y)
BY CallsDiffer

(* A thread the operations name is a state of the code's, not "unborn". *)
LEMMA RunInvStep ==
  ASSUME TypeOK, TypeOK', RunInv, [Next]_vars
  PROVE  RunInv'
<1> USE DEF thrvars, chanvars, dispvars, vars
<1>a. \A x \in Thread : state[x] = "unborn" => ~Queued(x)
  BY DEF RunInv, UnbornUnknown
<1>q. ASSUME NEW t \in Thread, state[t] # "unborn",
             \A c \in Chan : ToSet(rq'[c]) \subseteq ToSet(rq[c]) \cup {t},
             \A c \in Chan : ToSet(sq'[c]) \subseteq ToSet(sq[c]) \cup {t},
             \A u \in Thread : ToSet(joinq'[u]) \subseteq ToSet(joinq[u]) \cup {t},
             iowaitdata' \subseteq iowaitdata \cup {t}
      PROVE  \A x \in Thread : Queued(x)' => Queued(x) \/ state[x] # "unborn"
  BY <1>q DEF Queued
<1>j. ASSUME NEW t \in Thread, NEW u \in Thread, state[u] # "unborn",
             call' = [call EXCEPT ![t] = JoinCall(u)]
      PROVE  \A x, y \in Thread : call'[x] = JoinCall(y) => call[x] = JoinCall(y) \/ state[y] # "unborn"
  <2>1. \A x \in Thread : call'[x] = IF x = t THEN JoinCall(u) ELSE call[x]
    BY <1>j DEF TypeOK
  <2> QED BY <1>j, <2>1, CallsDiffer
<1>1. ASSUME NEW t \in Thread, NEW c \in Chan, NEW st \in [Thread -> State],
             Running(t), RecvBody(t, c, st), UNCHANGED <<valr, rv, joinq>>,
             \A x \in Thread : st[x] = "unborn" <=> state[x] = "unborn"
      PROVE  RunInv'
  <2>0. state[t] # "unborn"
    BY <1>1, CurrentIsBorn
  <2>1. CASE RecvBlocks(t, c, st)
    <3>1. ToSet(rq'[c]) = ToSet(rq[c]) \cup {t} /\ \A d \in Chan \ {c} : rq'[d] = rq[d]
      BY <2>1, AppendMembers DEF RecvBlocks, TypeOK
    <3>2. \A x \in Thread : state'[x] = "unborn" <=> state[x] = "unborn"
      BY <1>1, <2>0, <2>1 DEF RecvBlocks
    <3>3. UNCHANGED <<iowaitdata, sq, rv, joinq>> /\ Steady
      BY <1>1, <2>1 DEF RecvBlocks, Suspend, Steady, Onward
    <3>4. \A x \in Thread : Queued(x)' => Queued(x) \/ state[x] # "unborn"
      BY <1>q, <2>0, <3>1, <3>3
    <3>5. \A x, y \in Thread : call'[x] = JoinCall(y) => call[x] = JoinCall(y)
      BY <1>1, <2>1, NotJoins, NoNewJoin DEF RecvBlocks
    <3> QED BY <3>2, <3>3, <3>4, <3>5, RunInvPreserved
  <2>2. CASE RecvTakes(t, c, st)
    <3>0. sq[c] \in Seq(Thread) /\ sq' = [sq EXCEPT ![c] = Dequeue(sq[c])]
      BY <2>2 DEF RecvTakes, TypeOK
    <3>1. ToSet(sq'[c]) \subseteq ToSet(sq[c]) /\ \A d \in Chan \ {c} : sq'[d] = sq[d]
      BY <3>0, DequeueMembers DEF TypeOK
    <3>2. \A x \in Thread : state'[x] = "unborn" <=> state[x] = "unborn"
      <4>1. ASSUME NEW x \in Thread
            PROVE  state'[x] = st[x] \/ (~(state[x] = "unborn") /\ state'[x] = "Tready")
        BY <1>a, <2>2, <3>0, WakeMembers DEF RecvTakes, Queued
      <4> QED BY <4>1, <1>1
    <3>3. UNCHANGED <<iowaitdata, rq, rv, joinq>> /\ Steady
      BY <1>1, <2>2 DEF RecvTakes, Steady
    <3>4. \A x \in Thread : Queued(x)' => Queued(x) \/ state[x] # "unborn"
      BY <1>q, <2>0, <3>1, <3>3
    <3>5. \A x, y \in Thread : call'[x] = JoinCall(y) => call[x] = JoinCall(y)
      BY <1>1, <2>2, NotJoins, NoNewJoin DEF RecvTakes
    <3> QED BY <3>2, <3>3, <3>4, <3>5, RunInvPreserved
  <2> QED BY <1>1, <2>1, <2>2 DEF RecvBody
<1>2. ASSUME NEW t \in Thread, NEW c \in Chan, NEW v \in Value,
             Running(t), SendBody(t, c, v), UNCHANGED <<rv, joinq>>
      PROVE  RunInv'
  <2>0. state[t] # "unborn"
    BY <1>2, CurrentIsBorn
  <2>1. CASE SendBlocks(t, c, v)
    <3>1. ToSet(sq'[c]) = ToSet(sq[c]) \cup {t} /\ \A d \in Chan \ {c} : sq'[d] = sq[d]
      BY <2>1, AppendMembers DEF SendBlocks, TypeOK
    <3>2. \A x \in Thread : state'[x] = "unborn" <=> state[x] = "unborn"
      BY <2>0, <2>1 DEF SendBlocks, TypeOK
    <3>3. UNCHANGED <<iowaitdata, rq, rv, joinq>> /\ Steady
      BY <1>2, <2>1 DEF SendBlocks, Suspend, Steady, Onward
    <3>4. \A x \in Thread : Queued(x)' => Queued(x) \/ state[x] # "unborn"
      BY <1>q, <2>0, <3>1, <3>3
    <3>5. \A x, y \in Thread : call'[x] = JoinCall(y) => call[x] = JoinCall(y)
      BY <1>2, <2>1, NotJoins, NoNewJoin DEF SendBlocks
    <3> QED BY <3>2, <3>3, <3>4, <3>5, RunInvPreserved
  <2>2. CASE SendPuts(t, c, v)
    <3>0. rq[c] \in Seq(Thread) /\ rq' = [rq EXCEPT ![c] = Dequeue(rq[c])]
      BY <2>2 DEF SendPuts, TypeOK
    <3>1. ToSet(rq'[c]) \subseteq ToSet(rq[c]) /\ \A d \in Chan \ {c} : rq'[d] = rq[d]
      BY <3>0, DequeueMembers DEF TypeOK
    <3>2. \A x \in Thread : state'[x] = "unborn" <=> state[x] = "unborn"
      <4>1. ASSUME NEW x \in Thread
            PROVE  state'[x] = state[x] \/ (~(state[x] = "unborn") /\ state'[x] = "Tready")
        <5>1. state' = WakeHead(state, rq[c]) /\ state \in [Thread -> State]
          BY <2>2 DEF SendPuts, TypeOK
        <5>2. x \in ToSet(rq[c]) => state[x] # "unborn"
          BY <1>a DEF Queued
        <5> QED BY <3>0, <5>1, <5>2, WakeMembers
      <4> QED BY <4>1
    <3>3. UNCHANGED <<iowaitdata, sq, rv, joinq>> /\ Steady
      BY <1>2, <2>2 DEF SendPuts, Steady
    <3>4. \A x \in Thread : Queued(x)' => Queued(x) \/ state[x] # "unborn"
      BY <1>q, <2>0, <3>1, <3>3
    <3>5. \A x, y \in Thread : call'[x] = JoinCall(y) => call[x] = JoinCall(y)
      BY <1>2, <2>2, NotJoins, NoNewJoin DEF SendPuts
    <3> QED BY <3>2, <3>3, <3>4, <3>5, RunInvPreserved
  <2> QED BY <1>2, <2>1, <2>2 DEF SendBody
<1>3. ASSUME NEW t \in Thread, NEW u \in Thread, state[u] # "unborn",
             Running(t), JoinBody(t, u), UNCHANGED rv
      PROVE  RunInv'
  <2>0. state[t] # "unborn"
    BY <1>3, CurrentIsBorn
  <2>1. CASE JoinWaits(t, u)
    <3>1. ToSet(joinq'[u]) = ToSet(joinq[u]) \cup {t} /\ \A x \in Thread \ {u} : joinq'[x] = joinq[x]
      BY <2>1, AppendMembers DEF JoinWaits, TypeOK
    <3>2. \A x \in Thread : state'[x] = "unborn" <=> state[x] = "unborn"
      BY <2>0, <2>1 DEF JoinWaits, TypeOK
    <3>3. UNCHANGED <<iowaitdata, rq, sq, rv>> /\ rv[u] = NoVal /\ Steady
      BY <1>3, <2>1 DEF JoinWaits, Suspend, Steady, Onward
    <3>4. \A x \in Thread : Queued(x)' => Queued(x) \/ state[x] # "unborn"
      BY <1>q, <2>0, <3>1, <3>3
    <3>5. \A x, y \in Thread : call'[x] = JoinCall(y) => call[x] = JoinCall(y) \/ state[y] # "unborn"
      BY <1>3, <2>1, <1>j DEF JoinWaits
    <3> QED BY <1>3, <3>1, <3>2, <3>3, <3>4, <3>5, RunInvPreserved
  <2>2. CASE JoinReturns(t, u)
    <3>1. \A x, y \in Thread : call'[x] = JoinCall(y) => call[x] = JoinCall(y)
      BY <2>2, NotJoins, NoNewJoin DEF JoinReturns
    <3> QED BY <1>3, <2>2, <3>1, RunInvPreserved DEF JoinReturns, Queued, Steady
  <2>3. CASE JoinChan(t, u)
    <3>0. \A x, y \in Thread : call'[x] = JoinCall(y) => call[x] = JoinCall(y) \/ state[y] # "unborn"
      BY <1>3, <2>3, <1>j DEF JoinChan
    <3>1. CASE hasdata[rv[u]]
      BY <1>3, <2>3, <3>0, <3>1, RunInvPreserved DEF JoinChan, Queued, Steady
    <3>2. CASE ~hasdata[rv[u]]
      <4>1. /\ rv[u] \in Chan /\ Suspend
            /\ rq' = [rq EXCEPT ![rv[u]] = Append(@, t)]
            /\ state' = [state EXCEPT ![t] = "Trecv"]
            /\ UNCHANGED <<joinq, sq>>
        BY <2>3, <3>2 DEF JoinChan
      <4>2. \A d \in Chan : ToSet(rq'[d]) \subseteq ToSet(rq[d]) \cup {t}
        <5>1. rq[rv[u]] \in Seq(Thread)
          BY <4>1 DEF TypeOK
        <5>2. ToSet(Append(rq[rv[u]], t)) = ToSet(rq[rv[u]]) \cup {t}
          BY <5>1, AppendMembers
        <5> QED BY <4>1, <5>2 DEF TypeOK
      <4>3. \A x \in Thread : state'[x] = "unborn" <=> state[x] = "unborn"
        BY <2>0, <4>1 DEF TypeOK
      <4>4. UNCHANGED <<iowaitdata, sq, rv, joinq>> /\ Steady
        BY <1>3, <4>1 DEF Suspend, Steady, Onward
      <4>5. \A x \in Thread : Queued(x)' => Queued(x) \/ state[x] # "unborn"
        BY <1>q, <2>0, <4>2, <4>4
      <4> QED BY <3>0, <4>3, <4>4, <4>5, RunInvPreserved
    <3> QED BY <3>1, <3>2
  <2> QED BY <1>3, <2>1, <2>2, <2>3 DEF JoinBody
<1>4. ASSUME Steady, UNCHANGED <<rv, joinq, rq, sq, iowaitdata>>,
             \A x, y \in Thread : call'[x] = JoinCall(y) => call[x] = JoinCall(y),
             \A x \in Thread : state'[x] = "unborn" <=> state[x] = "unborn"
      PROVE  RunInv'
  BY <1>4, RunInvPreserved DEF Queued
<1>5. ASSUME NEW t \in Thread, Operate(t) PROVE RunInv'
  <2>0. state[t] # "unborn" /\ (Running(t) => t \in ToSet(vmthreads))
    BY <1>5, CurrentIsBorn DEF Operate, Recv, Send, Join, Spawn, Kill, Break, SpawnForeign,
         Return, ErrUncaught, AtomicCell, Sleep, Iowait, Preempt, ErrCaught, Free
  <2>1. ASSUME NEW c \in Chan, Recv(t, c) PROVE RunInv'
    BY <2>1, <1>1 DEF Recv, Free, TypeOK
  <2>2. ASSUME NEW c \in Chan, NEW v \in Value, Send(t, c, v) PROVE RunInv'
    BY <2>2, <1>2 DEF Send, Free
  <2>3. ASSUME NEW u \in Thread, Join(t, u) PROVE RunInv'
    BY <2>3, <1>3 DEF Join, Free
  <2>4. ASSUME NEW u \in Thread, Spawn(t, u) PROVE RunInv'
    <3>1. /\ state[u] = "unborn" /\ state' = [state EXCEPT ![u] = "Tready"]
          /\ vmthreads' = Append(vmthreads, u) /\ vmthrtail' = u
          /\ UNCHANGED <<rv, joinq, rq, sq, iowaitdata, call, pos, prev>>
      BY <2>4, EnqueueAppends DEF Spawn
    <3>2. u \notin ToSet(vmthreads)
      BY <3>1 DEF RunInv, RunQueueSound
    <3>3. ToSet(vmthreads') = ToSet(vmthreads) \cup {u} /\ IsInjective(vmthreads')
      BY <3>1, <3>2, AppendMembers DEF TypeOK, RunInv, RunQueueSound
    <3>4. rv[u] = NoVal
      BY <3>1 DEF RunInv, UnbornUnknown
    <3>a. vmthreads \in Seq(Thread) /\ Len(vmthreads) \in Nat /\ pos \in 1 .. Len(vmthreads) + 1
          /\ prev = IF pos = 1 THEN Nil ELSE vmthreads[pos - 1]
      BY LenProperties DEF TypeOK, RunInv, RunQueueSound
    <3>b. Len(vmthreads') = Len(vmthreads) + 1 /\ vmthreads'[Len(vmthreads) + 1] = u
          /\ \A i \in 1 .. Len(vmthreads) : vmthreads'[i] = vmthreads[i]
      BY <3>1, <3>a, AppendProperties
    <3>c. vmthrtail' = IF vmthreads' = <<>> THEN Nil ELSE Last(vmthreads')
      <4>1. vmthreads' # <<>>
        BY <3>1, <3>a, AppendProperties
      <4> QED BY <3>1, <3>b, <4>1 DEF Last
    <3>d. prev' = IF pos' = 1 THEN Nil ELSE vmthreads'[pos' - 1]
      <4>1. pos # 1 => pos - 1 \in 1 .. Len(vmthreads)
        BY <3>a
      <4> QED BY <3>1, <3>a, <3>b, <4>1
    <3>5. RunQueueSound'
      BY <3>1, <3>3, <3>4, <3>c, <3>d DEF RunQueueSound, RunInv, TypeOK
    <3>6. NoJoinerLeftBehind' /\ UnbornUnknown'
      BY <3>1 DEF RunInv, NoJoinerLeftBehind, UnbornUnknown, Queued, TypeOK
    <3> QED BY <3>5, <3>6 DEF RunInv
  <2>5. ASSUME NEW u \in Thread, Kill(t, u) PROVE RunInv'
    <3>1. \A x \in Thread : [state EXCEPT ![u] = "Tbroken"][x] = "unborn" <=> state[x] = "unborn"
      BY <2>5 DEF Kill, TypeOK
    <3>2. [state EXCEPT ![u] = "Tbroken"] \in [Thread -> State]
      BY DEF TypeOK, State, Stopped
    <3>3. CASE acell[u]
      BY <2>5, <3>1, <3>2, <3>3, <1>1, AChanAssumption DEF Kill, Free
    <3>4. CASE ~acell[u]
      BY <2>5, <3>1, <3>4, <1>4 DEF Kill, Steady
    <3> QED BY <3>3, <3>4
  <2>6. ASSUME NEW u \in Thread, Break(t, u) PROVE RunInv'
    <3>1. \A x, y \in Thread : call'[x] = JoinCall(y) => call[x] = JoinCall(y)
      BY <2>6, NotJoins, NoNewJoin DEF Break
    <3> QED BY <2>6, <3>1, <1>4 DEF Break, TypeOK, Steady
  <2>7. ASSUME NEW u \in Thread, NEW v \in RetVal, SpawnForeign(t, u, v) PROVE RunInv'
    <3>1. /\ state[u] = "unborn" /\ state' = [state EXCEPT ![u] = "Trelease"]
          /\ rv' = [rv EXCEPT ![u] = v] /\ v # NoVal
          /\ UNCHANGED <<vmthreads, vmthrtail, pos, prev, joinq, rq, sq, iowaitdata, call>>
      BY <2>7, RetValAssumption, NoValAssumption DEF SpawnForeign
    <3>2. u \notin ToSet(vmthreads) /\ joinq[u] = <<>>
      BY <3>1 DEF RunInv, RunQueueSound, UnbornUnknown
    <3>3. RunQueueSound'
      BY <3>1, <3>2 DEF RunQueueSound, RunInv, TypeOK
    <3>4. NoJoinerLeftBehind' /\ UnbornUnknown'
      BY <3>1, <3>2 DEF RunInv, NoJoinerLeftBehind, UnbornUnknown, Queued, TypeOK
    <3> QED BY <3>3, <3>4 DEF RunInv
  <2>8. ASSUME NEW v \in RetVal, Return(t, v) PROVE RunInv'
    BY <2>8, <2>0, <1>4 DEF Return, Suspend, TypeOK, Steady, Onward
  <2>9. ASSUME NEW v \in RetVal, ErrUncaught(t, v) PROVE RunInv'
    <3>1. \A x, y \in Thread : call'[x] = JoinCall(y) => call[x] = JoinCall(y)
      BY <2>9, NotJoins, NoNewJoin DEF ErrUncaught
    <3> QED BY <2>9, <3>1, <2>0, <1>4 DEF ErrUncaught, Suspend, TypeOK, Steady, Onward
  <2>10. ASSUME NEW b \in BOOLEAN, AtomicCell(t, b) PROVE RunInv'
    BY <2>10, <1>4 DEF AtomicCell, Steady
  <2>11. CASE Sleep(t) \/ Iowait(t)
    BY <2>11, <2>0, <1>4 DEF Sleep, Iowait, Suspend, TypeOK, Steady, Onward
  <2>12. CASE Preempt(t) \/ ErrCaught(t)
    <3>1. \A x, y \in Thread : call'[x] = JoinCall(y) => call[x] = JoinCall(y)
      BY <2>12, NotJoins, NoNewJoin DEF Preempt, ErrCaught
    <3> QED BY <2>12, <3>1, <1>4 DEF Preempt, ErrCaught, Suspend, Steady, Onward
  <2> QED BY <1>5, <2>1, <2>2, <2>3, <2>4, <2>5, <2>6, <2>7, <2>8, <2>9, <2>10, <2>11, <2>12
          DEF Operate
<1>6. ASSUME NEW t \in Thread, Resume(t) PROVE RunInv'
  <2>1. CASE ResumeRecv(t)
    BY <2>1, <1>1, CallParts DEF ResumeRecv, TypeOK
  <2>2. CASE ResumeSend(t)
    BY <2>2, <1>2, CallParts DEF ResumeSend, TypeOK
  <2>3. CASE ResumeJoin(t)
    <3>1. call[t].thr \in Thread /\ call[t] = JoinCall(call[t].thr)
      BY <2>3, CallParts DEF ResumeJoin, TypeOK
    <3>2. state[call[t].thr] # "unborn"
      BY <3>1 DEF RunInv, UnbornUnknown
    <3> QED BY <2>3, <3>1, <3>2, <1>3 DEF ResumeJoin
  <2> QED BY <1>6, <2>1, <2>2, <2>3 DEF Resume
<1>7. ASSUME NEW t \in Thread, Visit(t) PROVE RunInv'
  <2>0. state[t] # "unborn" /\ t \in ToSet(vmthreads) /\ rv[t] = NoVal
        /\ pos \in 1 .. Len(vmthreads) /\ t = vmthreads[pos]
    BY <1>7, CurrentIsBorn, LenProperties DEF Visit, Reap, VisitBlocked, VisitReady,
         VisitSleeping, WakeSleeper, VisitIowait, Visiting, TypeOK
  <2>1. CASE Reap(t)
    <3>1. /\ state' = WakeAll(state, ToSet(joinq[t]))
          /\ joinq' = [joinq EXCEPT ![t] = <<>>]
          /\ vmthreads' = RemoveAt(vmthreads, pos)
          /\ vmthrtail' = (IF vmthreads' = <<>> THEN Nil ELSE Last(vmthreads'))
          /\ prev' = (IF pos = 1 THEN Nil ELSE vmthreads'[pos - 1])
          /\ UNCHANGED <<rq, sq, iowaitdata, pos>>
      BY <2>0, <2>1, UnlinkRemoves DEF Reap
    <3>2. PICK v \in RetVal \cup {NoVal} : v # NoVal /\ rv' = [rv EXCEPT ![t] = v]
      <4>1. NoVal \notin RetVal
        BY RetValAssumption, NoValAssumption
      <4>2. \E v \in IF valr[t] = NoVal THEN RetVal ELSE {valr[t]} : rv' = [rv EXCEPT ![t] = v]
        BY <2>1 DEF Reap
      <4>3. valr[t] \in RetVal \cup {NoVal}
        BY DEF TypeOK
      <4> QED BY <4>1, <4>2, <4>3
    <3>3. ToSet(vmthreads') = ToSet(vmthreads) \ {t} /\ IsInjective(vmthreads')
      <4>1. vmthreads \in Seq(Thread) /\ IsInjective(vmthreads)
        BY DEF TypeOK, RunInv, RunQueueSound
      <4> QED BY <4>1, <2>0, <3>1, RemoveAtMembers
    <3>4. \A x \in Thread : state'[x] = "unborn" <=> state[x] = "unborn"
      BY <1>a, <3>1 DEF WakeAll, Queued
    <3>5. RunQueueSound'
      BY <3>1, <3>2, <3>3, <3>4, <2>0 DEF RunQueueSound, RunInv, TypeOK
    <3>6. NoJoinerLeftBehind'
      BY <3>1, <3>2 DEF RunInv, NoJoinerLeftBehind, TypeOK
    <3>7. \A u \in Thread : ToSet(joinq'[u]) \subseteq ToSet(joinq[u])
      BY <3>1 DEF TypeOK, ToSet
    <3>8. UnbornUnknown'
      <4>1. SUFFICES ASSUME NEW x \in Thread, state[x] = "unborn"
                     PROVE  /\ rv'[x] = NoVal /\ joinq'[x] = <<>> /\ ~Queued(x)'
                            /\ \A y \in Thread : call'[y] # JoinCall(x)
        BY <3>4 DEF UnbornUnknown
      <4>2. x # t
        BY <2>0, <4>1
      <4>3. /\ rv[x] = NoVal /\ joinq[x] = <<>> /\ ~Queued(x)
            /\ \A y \in Thread : call[y] # JoinCall(x)
        BY <4>1 DEF RunInv, UnbornUnknown
      <4>4. ~Queued(x)'
        BY <3>1, <3>7, <4>3 DEF Queued
      <4>5. call' = call
        BY <2>1 DEF Reap
      <4> QED BY <3>1, <3>2, <4>2, <4>3, <4>4, <4>5 DEF TypeOK
    <3> QED BY <3>5, <3>6, <3>8 DEF RunInv
  <2>2. CASE VisitBlocked(t) \/ VisitReady(t) \/ VisitSleeping(t)
    BY <2>2, <1>4 DEF VisitBlocked, VisitReady, VisitSleeping, Steady, Onward
  <2>3. CASE WakeSleeper(t)
    BY <2>3, <2>0, <1>4 DEF WakeSleeper, TypeOK, Steady
  <2>4. CASE VisitIowait(t)
    <3>1. UNCHANGED <<rv, joinq, rq, sq, state>> /\ Steady /\ iowaitdata' = iowaitdata \cup {t}
      BY <2>4 DEF VisitIowait, Steady, Onward
    <3>2. \A x \in Thread : Queued(x)' => Queued(x) \/ state[x] # "unborn"
      BY <2>0, <3>1 DEF Queued
    <3> QED BY <3>1, <3>2, <2>4, RunInvPreserved DEF VisitIowait
  <2> QED BY <1>7, <2>1, <2>2, <2>3, <2>4 DEF Visit
<1>8. CASE EndCycle
  <2>1. UNCHANGED <<rv, joinq, rq, sq, call>> /\ Steady /\ iowaitdata' = {}
    BY <1>8 DEF EndCycle, Steady
  <2>2. \A x \in Thread : state'[x] = "unborn" <=> state[x] = "unborn"
    BY <1>8, <1>a DEF EndCycle, WakeAll, Queued
  <2>3. \A x \in Thread : Queued(x)' => Queued(x) \/ state[x] # "unborn"
    BY <2>1 DEF Queued
  <2> QED BY <2>1, <2>2, <2>3, RunInvPreserved
<1>9. CASE GiveUp \/ UNCHANGED vars
  BY <1>9, <1>4 DEF GiveUp, Steady
<1> QED BY <1>5, <1>6, <1>7, <1>8, <1>9 DEF Next, Exit

LEMMA RunInvStart == Init => RunInv
<1> SUFFICES ASSUME Init PROVE RunInv
  OBVIOUS
<1>1. ToSet(<<Main>>) = {Main} /\ IsInjective(<<Main>>) /\ ToSet(<<>>) = {}
  BY DEF ToSet, IsInjective
<1>0. Last(<<Main>>) = Main /\ <<Main>> # <<>>
  BY DEF Last
<1>2. RunQueueSound
  BY <1>0, <1>1 DEF Init, RunQueueSound
<1>3. NoJoinerLeftBehind /\ UnbornUnknown
  BY <1>1, CallsDiffer DEF Init, NoJoinerLeftBehind, UnbornUnknown, Queued
<1> QED BY <1>2, <1>3 DEF RunInv

(* The invariant holds of every reachable state.                           *)
LEMMA RunAlways == Spec => [](TypeOK /\ RunInv)
<1>1. Init => TypeOK /\ RunInv
  BY TypeStart, RunInvStart
<1>2. TypeOK /\ RunInv /\ [Next]_vars => (TypeOK /\ RunInv)'
  BY TypeStep, RunInvStep
<1> QED BY <1>1, <1>2, PTL DEF Spec

(* Every variable keeps its type: arc_thread_dispatch and the operations   *)
(* of thread.c and chan.c never leave the cursor outside the run queue.    *)
THEOREM TypeCorrect == Spec => []TypeOK
BY RunAlways, PTL

(* A thread is in the run queue exactly once from its spawn to its reap,   *)
(* the tail pointer is at its last cell and prev at the one before the     *)
(* walk's, even when programs kill and break threads (arc_spawn and the    *)
(* Trelease/Tbroken case of arc_thread_dispatch).                          *)
THEOREM RunQueueCorrect == Spec => []RunQueueSound
<1>1. RunInv => RunQueueSound
  BY DEF RunInv
<1> QED BY <1>1, RunAlways, PTL

(* Nobody queues for the result of a thread that has been reaped, whoever  *)
(* was killed or broken (arc_join_thread against the end of the thread and *)
(* its reap in arc_thread_dispatch).                                       *)
THEOREM NoJoinerIsLeft == Spec => []NoJoinerLeftBehind
<1>1. RunInv => NoJoinerLeftBehind
  BY DEF RunInv
<1> QED BY <1>1, RunAlways, PTL

-----------------------------------------------------------------------------
(***************************************************************************)
(* Cooperative programs, which kill and break no thread and return no      *)
(* channel from one: no wakeup is lost.  NoLostWakeup is not inductive; it *)
(* needs that a queue holds exactly the threads asleep in its operation,   *)
(* so that the head of a queue is a live waiter and the running thread is  *)
(* in no queue.                                                            *)
(***************************************************************************)
Cooperative == Uses \cap {"kill", "break"} = {} /\ RetVal \subseteq Value

(* The running thread is ready, a collected thread is still waiting for    *)
(* its descriptor, and nobody is about to call arc_err for another.        *)
Undisturbed ==
  /\ \A t \in Thread : Running(t) => state[t] = "Tready"
  /\ \A t \in iowaitdata : state[t] = "Tiowait"
  /\ \A t \in Thread : call[t] # ErrCall

CoopInv == QueuesMatchStates /\ NoLostWakeup /\ Undisturbed

(* The conditions of the invariant about one channel, for the proofs. *)
RecvQueueOK(c) ==
  /\ IsInjective(rq[c])
  /\ \A t \in Thread : t \in ToSet(rq[c]) <=> state[t] = "Trecv" /\ call[t] = RecvCall(c)
SendQueueOK(c) ==
  /\ IsInjective(sq[c])
  /\ \A t \in Thread : t \in ToSet(sq[c]) <=> state[t] = "Tsend" /\ \E v \in Value : call[t] = SendCall(c, v)
JoinQueueOK(u) ==
  \A t \in Thread : t \in ToSet(joinq[u]) <=> state[t] = "Trecv" /\ call[t] = JoinCall(u)
RecvAwake(c) ==
  hasdata[c] /\ rq[c] # <<>> => \E t \in Thread : state[t] = "Tready" /\ call[t] = RecvCall(c)
SendAwake(c) ==
  ~hasdata[c] /\ sq[c] # <<>> =>
    \E t \in Thread, v \in Value : state[t] = "Tready" /\ call[t] = SendCall(c, v)

LEMMA CoopParts ==
  /\ QueuesMatchStates <=> /\ \A c \in Chan : RecvQueueOK(c) /\ SendQueueOK(c)
                           /\ \A u \in Thread : JoinQueueOK(u)
  /\ NoLostWakeup <=> \A c \in Chan : RecvAwake(c) /\ SendAwake(c)
BY DEF QueuesMatchStates, NoLostWakeup, RecvQueueOK, SendQueueOK, JoinQueueOK, RecvAwake, SendAwake

LEMMA CoopPartsNext ==
  ASSUME \A c \in Chan : RecvQueueOK(c)' /\ SendQueueOK(c)' /\ RecvAwake(c)' /\ SendAwake(c)',
         \A u \in Thread : JoinQueueOK(u)'
  PROVE  QueuesMatchStates' /\ NoLostWakeup'
<1>1. QueuesMatchStates'
  BY DEF QueuesMatchStates, RecvQueueOK, SendQueueOK, JoinQueueOK
<1>2. NoLostWakeup'
  BY DEF NoLostWakeup, RecvAwake, SendAwake
<1> QED BY <1>1, <1>2

(* A step that leaves channels and queues alone and moves no thread into   *)
(* or out of a suspended call.                                             *)
LEMMA CoopQuiet ==
  ASSUME QueuesMatchStates, NoLostWakeup,
         UNCHANGED <<hasdata, rq, sq, joinq>>,
         \A x \in Thread : /\ state'[x] = "Trecv" <=> state[x] = "Trecv"
                           /\ state'[x] = "Tsend" <=> state[x] = "Tsend"
                           /\ call'[x] = call[x]
                           /\ call[x] # NoCall /\ state[x] = "Tready" => state'[x] = "Tready"
  PROVE  QueuesMatchStates' /\ NoLostWakeup'
<1>1. ASSUME NEW c \in Chan
      PROVE  RecvQueueOK(c)' /\ SendQueueOK(c)' /\ RecvAwake(c)' /\ SendAwake(c)'
  <2>1. RecvQueueOK(c) /\ SendQueueOK(c) /\ RecvAwake(c) /\ SendAwake(c)
    BY CoopParts
  <2>2. RecvQueueOK(c)'
    BY <2>1 DEF RecvQueueOK
  <2>3. SendQueueOK(c)'
    BY <2>1 DEF SendQueueOK
  <2>4. RecvAwake(c)'
    BY <2>1, CallsDiffer DEF RecvAwake
  <2>5. SendAwake(c)'
    BY <2>1, CallsDiffer DEF SendAwake
  <2> QED BY <2>2, <2>3, <2>4, <2>5
<1>2. ASSUME NEW u \in Thread PROVE JoinQueueOK(u)'
  BY CoopParts DEF JoinQueueOK
<1> QED BY <1>1, <1>2, CoopPartsNext

LEMMA CallFacts ==
  /\ \A c, d \in Chan : RecvCall(c) = RecvCall(d) <=> c = d
  /\ \A c, d \in Chan, v, w \in Value : SendCall(c, v) = SendCall(d, w) => c = d /\ v = w
  /\ \A c, d \in Chan, v \in Value : RecvCall(c) # SendCall(d, v)
  /\ \A c \in Chan, u \in Thread : RecvCall(c) # JoinCall(u)
  /\ \A c \in Chan, v \in Value, u \in Thread : SendCall(c, v) # JoinCall(u)
  /\ \A u, x \in Thread : JoinCall(u) = JoinCall(x) <=> u = x
  /\ \A c \in Chan : RecvCall(c) # NoCall
  /\ \A c \in Chan, v \in Value : SendCall(c, v) # NoCall
  /\ \A u \in Thread : JoinCall(u) # NoCall
BY CallsDiffer

(* Both halves of arc_recv_channel, for a thread that just entered it or   *)
(* has been woken in it.                                                   *)
LEMMA RecvKeeps ==
  ASSUME TypeOK, QueuesMatchStates, NoLostWakeup,
         NEW t \in Thread, NEW c \in Chan, state[t] = "Tready",
         call[t] \in {NoCall, RecvCall(c)}, RecvBody(t, c, state), UNCHANGED joinq
  PROVE  QueuesMatchStates' /\ NoLostWakeup'
<1> USE CallFacts
<1>0. \A d \in Chan : RecvQueueOK(d) /\ SendQueueOK(d) /\ RecvAwake(d) /\ SendAwake(d)
  BY CoopParts
<1>j. \A u \in Thread : JoinQueueOK(u)
  BY CoopParts
<1>1. CASE RecvBlocks(t, c, state)
  <2>1. /\ ~hasdata[c] /\ UNCHANGED <<hasdata, sq, joinq>>
        /\ rq' = [rq EXCEPT ![c] = Append(@, t)]
        /\ \A x \in Thread : state'[x] = IF x = t THEN "Trecv" ELSE state[x]
        /\ \A x \in Thread : call'[x] = IF x = t THEN RecvCall(c) ELSE call[x]
    BY <1>1 DEF RecvBlocks, TypeOK
  <2>2. /\ rq'[c] = Append(rq[c], t) /\ \A d \in Chan \ {c} : rq'[d] = rq[d]
        /\ rq[c] \in Seq(Thread)
    BY <2>1 DEF TypeOK
  <2>3. t \notin ToSet(rq[c])
    BY <1>0 DEF RecvQueueOK
  <2>4. ToSet(rq'[c]) = ToSet(rq[c]) \cup {t} /\ IsInjective(rq'[c])
    BY <1>0, <2>2, <2>3, AppendMembers DEF RecvQueueOK
  <2>5. ASSUME NEW d \in Chan PROVE RecvQueueOK(d)'
    <3>1. CASE d = c
      BY <1>0, <2>1, <2>4, <3>1 DEF RecvQueueOK
    <3>2. CASE d # c
      BY <1>0, <2>1, <2>2, <3>2 DEF RecvQueueOK
    <3> QED BY <3>1, <3>2
  <2>6. ASSUME NEW d \in Chan PROVE SendQueueOK(d)'
    BY <1>0, <2>1 DEF SendQueueOK
  <2>7. ASSUME NEW u \in Thread PROVE JoinQueueOK(u)'
    BY <1>j, <2>1 DEF JoinQueueOK
  <2>8. ASSUME NEW d \in Chan PROVE RecvAwake(d)'
    BY <1>0, <2>1, <2>2 DEF RecvAwake
  <2>9. ASSUME NEW d \in Chan PROVE SendAwake(d)'
    BY <1>0, <2>1 DEF SendAwake
  <2> QED BY <2>5, <2>6, <2>7, <2>8, <2>9, CoopPartsNext
<1>2. CASE RecvTakes(t, c, state)
  <2>1. /\ UNCHANGED <<rq, joinq>>
        /\ \A d \in Chan : hasdata'[d] = IF d = c THEN FALSE ELSE hasdata[d]
        /\ \A d \in Chan : sq'[d] = IF d = c THEN Dequeue(sq[c]) ELSE sq[d]
        /\ state' = WakeHead(state, sq[c])
        /\ \A x \in Thread : call'[x] = IF x = t THEN NoCall ELSE call[x]
        /\ sq[c] \in Seq(Thread)
    BY <1>2 DEF RecvTakes, TypeOK
  <2>2. CASE sq[c] = <<>>
    <3>1. \A d \in Chan : sq'[d] = sq[d]
      BY <2>1, <2>2 DEF Dequeue
    <3>2. \A x \in Thread : state'[x] = state[x]
      BY <2>1, <2>2 DEF WakeHead
    <3>3. ASSUME NEW d \in Chan PROVE RecvQueueOK(d)' /\ SendQueueOK(d)'
      BY <1>0, <2>1, <3>1, <3>2 DEF RecvQueueOK, SendQueueOK
    <3>4. ASSUME NEW u \in Thread PROVE JoinQueueOK(u)'
      BY <1>j, <2>1, <3>2 DEF JoinQueueOK
    <3>5. ASSUME NEW d \in Chan PROVE RecvAwake(d)'
      <4> SUFFICES ASSUME hasdata'[d], rq'[d] # <<>>
                   PROVE  \E x \in Thread : state'[x] = "Tready" /\ call'[x] = RecvCall(d)
        BY DEF RecvAwake
      <4>1. d # c /\ hasdata[d] /\ rq[d] # <<>>
        BY <2>1
      <4>2. PICK x \in Thread : state[x] = "Tready" /\ call[x] = RecvCall(d)
        BY <1>0, <4>1 DEF RecvAwake
      <4>3. x # t
        BY <4>1, <4>2
      <4> QED BY <2>1, <3>2, <4>2, <4>3
    <3>6. ASSUME NEW d \in Chan PROVE SendAwake(d)'
      <4> SUFFICES ASSUME d # c, ~hasdata'[d], sq'[d] # <<>>
                   PROVE  \E x \in Thread, v \in Value : state'[x] = "Tready" /\ call'[x] = SendCall(d, v)
        BY <2>1, <2>2, <3>1 DEF SendAwake
      <4>1. ~hasdata[d] /\ sq[d] # <<>>
        BY <2>1
      <4>2. PICK x \in Thread, v \in Value : state[x] = "Tready" /\ call[x] = SendCall(d, v)
        BY <1>0, <4>1 DEF SendAwake
      <4>3. x # t
        BY <4>2
      <4> QED BY <2>1, <3>2, <4>2, <4>3
    <3> QED BY <3>3, <3>4, <3>5, <3>6, CoopPartsNext
  <2>3. CASE sq[c] # <<>>
    <3> DEFINE h == Head(sq[c])
    <3>1. h \in Thread /\ h \in ToSet(sq[c]) /\ sq'[c] = Tail(sq[c])
      BY <2>1, <2>3, TailMembers DEF Dequeue
    <3>2. ToSet(Tail(sq[c])) = ToSet(sq[c]) \ {h} /\ IsInjective(Tail(sq[c]))
      BY <1>0, <2>1, <2>3, TailMembers DEF SendQueueOK
    <3>3. PICK v \in Value : state[h] = "Tsend" /\ call[h] = SendCall(c, v)
      BY <1>0, <3>1 DEF SendQueueOK
    <3>4. \A x \in Thread : state'[x] = IF x = h THEN "Tready" ELSE state[x]
      BY <2>1, <2>3, <3>1 DEF WakeHead, TypeOK
    <3> HIDE DEF h
    <3>5. ASSUME NEW d \in Chan PROVE RecvQueueOK(d)'
      BY <1>0, <2>1, <3>3, <3>4 DEF RecvQueueOK
    <3>6. ASSUME NEW d \in Chan PROVE SendQueueOK(d)'
      <4>1. CASE d = c
        BY <1>0, <2>1, <3>1, <3>2, <3>3, <3>4, <4>1 DEF SendQueueOK
      <4>2. CASE d # c
        BY <1>0, <2>1, <3>3, <3>4, <4>2 DEF SendQueueOK
      <4> QED BY <4>1, <4>2
    <3>7. ASSUME NEW u \in Thread PROVE JoinQueueOK(u)'
      BY <1>j, <2>1, <3>3, <3>4 DEF JoinQueueOK
    <3>8. ASSUME NEW d \in Chan PROVE RecvAwake(d)'
      <4> SUFFICES ASSUME hasdata'[d], rq'[d] # <<>>
                   PROVE  \E x \in Thread : state'[x] = "Tready" /\ call'[x] = RecvCall(d)
        BY DEF RecvAwake
      <4>1. d # c /\ hasdata[d] /\ rq[d] # <<>>
        BY <2>1
      <4>2. PICK x \in Thread : state[x] = "Tready" /\ call[x] = RecvCall(d)
        BY <1>0, <4>1 DEF RecvAwake
      <4>3. x # t
        BY <4>1, <4>2
      <4> QED BY <2>1, <3>4, <4>2, <4>3
    <3>9. ASSUME NEW d \in Chan PROVE SendAwake(d)'
      <4>1. CASE d = c
        BY <2>1, <3>1, <3>3, <3>4, <4>1 DEF SendAwake
      <4>2. CASE d # c
        <5> SUFFICES ASSUME ~hasdata'[d], sq'[d] # <<>>
                     PROVE  \E x \in Thread, w \in Value : state'[x] = "Tready" /\ call'[x] = SendCall(d, w)
          BY DEF SendAwake
        <5>1. ~hasdata[d] /\ sq[d] # <<>>
          BY <2>1, <4>2
        <5>2. PICK x \in Thread, w \in Value : state[x] = "Tready" /\ call[x] = SendCall(d, w)
          BY <1>0, <5>1 DEF SendAwake
        <5>3. x # t
          BY <5>2
        <5> QED BY <2>1, <3>4, <5>2, <5>3
      <4> QED BY <4>1, <4>2
    <3> QED BY <3>5, <3>6, <3>7, <3>8, <3>9, CoopPartsNext
  <2> QED BY <2>2, <2>3
<1> QED BY <1>1, <1>2 DEF RecvBody

(* Both halves of arc_send_channel. *)
LEMMA SendKeeps ==
  ASSUME TypeOK, QueuesMatchStates, NoLostWakeup,
         NEW t \in Thread, NEW c \in Chan, NEW v \in Value, state[t] = "Tready",
         call[t] \in {NoCall, SendCall(c, v)}, SendBody(t, c, v), UNCHANGED joinq
  PROVE  QueuesMatchStates' /\ NoLostWakeup'
<1> USE CallFacts
<1>0. \A d \in Chan : RecvQueueOK(d) /\ SendQueueOK(d) /\ RecvAwake(d) /\ SendAwake(d)
  BY CoopParts
<1>j. \A u \in Thread : JoinQueueOK(u)
  BY CoopParts
<1>1. CASE SendBlocks(t, c, v)
  <2>1. /\ hasdata[c] /\ UNCHANGED <<hasdata, rq, joinq>>
        /\ sq' = [sq EXCEPT ![c] = Append(@, t)]
        /\ \A x \in Thread : state'[x] = IF x = t THEN "Tsend" ELSE state[x]
        /\ \A x \in Thread : call'[x] = IF x = t THEN SendCall(c, v) ELSE call[x]
    BY <1>1 DEF SendBlocks, TypeOK
  <2>2. /\ sq'[c] = Append(sq[c], t) /\ \A d \in Chan \ {c} : sq'[d] = sq[d]
        /\ sq[c] \in Seq(Thread)
    BY <2>1 DEF TypeOK
  <2>3. t \notin ToSet(sq[c])
    BY <1>0 DEF SendQueueOK
  <2>4. ToSet(sq'[c]) = ToSet(sq[c]) \cup {t} /\ IsInjective(sq'[c])
    BY <1>0, <2>2, <2>3, AppendMembers DEF SendQueueOK
  <2>5. ASSUME NEW d \in Chan PROVE SendQueueOK(d)'
    <3>1. CASE d = c
      BY <1>0, <2>1, <2>4, <3>1 DEF SendQueueOK
    <3>2. CASE d # c
      BY <1>0, <2>1, <2>2, <3>2 DEF SendQueueOK
    <3> QED BY <3>1, <3>2
  <2>6. ASSUME NEW d \in Chan PROVE RecvQueueOK(d)'
    BY <1>0, <2>1 DEF RecvQueueOK
  <2>7. ASSUME NEW u \in Thread PROVE JoinQueueOK(u)'
    BY <1>j, <2>1 DEF JoinQueueOK
  <2>8. ASSUME NEW d \in Chan PROVE SendAwake(d)'
    <3> SUFFICES ASSUME d # c, ~hasdata'[d], sq'[d] # <<>>
                 PROVE  \E x \in Thread, w \in Value : state'[x] = "Tready" /\ call'[x] = SendCall(d, w)
      BY <2>1 DEF SendAwake
    <3>1. ~hasdata[d] /\ sq[d] # <<>>
      BY <2>1, <2>2
    <3>2. PICK x \in Thread, w \in Value : state[x] = "Tready" /\ call[x] = SendCall(d, w)
      BY <1>0, <3>1 DEF SendAwake
    <3>3. x # t
      BY <3>2
    <3> QED BY <2>1, <3>2, <3>3
  <2>9. ASSUME NEW d \in Chan PROVE RecvAwake(d)'
    BY <1>0, <2>1 DEF RecvAwake
  <2> QED BY <2>5, <2>6, <2>7, <2>8, <2>9, CoopPartsNext
<1>2. CASE SendPuts(t, c, v)
  <2>1. /\ UNCHANGED <<sq, joinq>>
        /\ \A d \in Chan : hasdata'[d] = IF d = c THEN TRUE ELSE hasdata[d]
        /\ \A d \in Chan : rq'[d] = IF d = c THEN Dequeue(rq[c]) ELSE rq[d]
        /\ state' = WakeHead(state, rq[c])
        /\ \A x \in Thread : call'[x] = IF x = t THEN NoCall ELSE call[x]
        /\ rq[c] \in Seq(Thread)
    BY <1>2 DEF SendPuts, TypeOK
  <2>2. CASE rq[c] = <<>>
    <3>1. \A d \in Chan : rq'[d] = rq[d]
      BY <2>1, <2>2 DEF Dequeue
    <3>2. \A x \in Thread : state'[x] = state[x]
      BY <2>1, <2>2 DEF WakeHead
    <3>3. ASSUME NEW d \in Chan PROVE RecvQueueOK(d)' /\ SendQueueOK(d)'
      BY <1>0, <2>1, <3>1, <3>2 DEF RecvQueueOK, SendQueueOK
    <3>4. ASSUME NEW u \in Thread PROVE JoinQueueOK(u)'
      BY <1>j, <2>1, <3>2 DEF JoinQueueOK
    <3>5. ASSUME NEW d \in Chan PROVE RecvAwake(d)'
      <4> SUFFICES ASSUME d # c, hasdata'[d], rq'[d] # <<>>
                   PROVE  \E x \in Thread : state'[x] = "Tready" /\ call'[x] = RecvCall(d)
        BY <2>1, <2>2, <3>1 DEF RecvAwake
      <4>1. hasdata[d] /\ rq[d] # <<>>
        BY <2>1
      <4>2. PICK x \in Thread : state[x] = "Tready" /\ call[x] = RecvCall(d)
        BY <1>0, <4>1 DEF RecvAwake
      <4>3. x # t
        BY <4>2
      <4> QED BY <2>1, <3>2, <4>2, <4>3
    <3>6. ASSUME NEW d \in Chan PROVE SendAwake(d)'
      <4> SUFFICES ASSUME ~hasdata'[d], sq'[d] # <<>>
                   PROVE  \E x \in Thread, w \in Value : state'[x] = "Tready" /\ call'[x] = SendCall(d, w)
        BY DEF SendAwake
      <4>1. d # c /\ ~hasdata[d] /\ sq[d] # <<>>
        BY <2>1
      <4>2. PICK x \in Thread, w \in Value : state[x] = "Tready" /\ call[x] = SendCall(d, w)
        BY <1>0, <4>1 DEF SendAwake
      <4>3. x # t
        BY <4>1, <4>2
      <4> QED BY <2>1, <3>2, <4>2, <4>3
    <3> QED BY <3>3, <3>4, <3>5, <3>6, CoopPartsNext
  <2>3. CASE rq[c] # <<>>
    <3> DEFINE h == Head(rq[c])
    <3>1. h \in Thread /\ h \in ToSet(rq[c]) /\ rq'[c] = Tail(rq[c])
      BY <2>1, <2>3, TailMembers DEF Dequeue
    <3>2. ToSet(Tail(rq[c])) = ToSet(rq[c]) \ {h} /\ IsInjective(Tail(rq[c]))
      BY <1>0, <2>1, <2>3, TailMembers DEF RecvQueueOK
    <3>3. state[h] = "Trecv" /\ call[h] = RecvCall(c)
      BY <1>0, <3>1 DEF RecvQueueOK
    <3>4. \A x \in Thread : state'[x] = IF x = h THEN "Tready" ELSE state[x]
      BY <2>1, <2>3, <3>1 DEF WakeHead, TypeOK
    <3> HIDE DEF h
    <3>5. ASSUME NEW d \in Chan PROVE SendQueueOK(d)'
      BY <1>0, <2>1, <3>3, <3>4 DEF SendQueueOK
    <3>6. ASSUME NEW d \in Chan PROVE RecvQueueOK(d)'
      <4>1. CASE d = c
        BY <1>0, <2>1, <3>1, <3>2, <3>3, <3>4, <4>1 DEF RecvQueueOK
      <4>2. CASE d # c
        BY <1>0, <2>1, <3>3, <3>4, <4>2 DEF RecvQueueOK
      <4> QED BY <4>1, <4>2
    <3>7. ASSUME NEW u \in Thread PROVE JoinQueueOK(u)'
      BY <1>j, <2>1, <3>3, <3>4 DEF JoinQueueOK
    <3>8. ASSUME NEW d \in Chan PROVE SendAwake(d)'
      <4> SUFFICES ASSUME ~hasdata'[d], sq'[d] # <<>>
                   PROVE  \E x \in Thread, w \in Value : state'[x] = "Tready" /\ call'[x] = SendCall(d, w)
        BY DEF SendAwake
      <4>1. d # c /\ ~hasdata[d] /\ sq[d] # <<>>
        BY <2>1
      <4>2. PICK x \in Thread, w \in Value : state[x] = "Tready" /\ call[x] = SendCall(d, w)
        BY <1>0, <4>1 DEF SendAwake
      <4>3. x # t
        BY <4>1, <4>2
      <4> QED BY <2>1, <3>4, <4>2, <4>3
    <3>9. ASSUME NEW d \in Chan PROVE RecvAwake(d)'
      <4>1. CASE d = c
        BY <2>1, <3>1, <3>3, <3>4, <4>1 DEF RecvAwake
      <4>2. CASE d # c
        <5> SUFFICES ASSUME hasdata'[d], rq'[d] # <<>>
                     PROVE  \E x \in Thread : state'[x] = "Tready" /\ call'[x] = RecvCall(d)
          BY DEF RecvAwake
        <5>1. hasdata[d] /\ rq[d] # <<>>
          BY <2>1, <4>2
        <5>2. PICK x \in Thread : state[x] = "Tready" /\ call[x] = RecvCall(d)
          BY <1>0, <5>1 DEF RecvAwake
        <5>3. x # t
          BY <5>2
        <5> QED BY <2>1, <3>4, <5>2, <5>3
      <4> QED BY <4>1, <4>2
    <3> QED BY <3>5, <3>6, <3>7, <3>8, <3>9, CoopPartsNext
  <2> QED BY <2>2, <2>3
<1> QED BY <1>1, <1>2 DEF SendBody

(* join-thread of a thread that has or has not been reaped. *)
LEMMA JoinKeeps ==
  ASSUME TypeOK, QueuesMatchStates, NoLostWakeup,
         NEW t \in Thread, NEW u \in Thread, state[t] = "Tready",
         call[t] \in {NoCall, JoinCall(u)}, JoinWaits(t, u) \/ JoinReturns(t, u)
  PROVE  QueuesMatchStates' /\ NoLostWakeup'
<1> USE CallFacts
<1>0. \A d \in Chan : RecvQueueOK(d) /\ SendQueueOK(d) /\ RecvAwake(d) /\ SendAwake(d)
  BY CoopParts
<1>j. \A y \in Thread : JoinQueueOK(y)
  BY CoopParts
<1>1. /\ UNCHANGED <<hasdata, rq, sq>>
      /\ \A x \in Thread : x # t => state'[x] = state[x] /\ call'[x] = call[x]
      /\ call'[t] \in {NoCall, JoinCall(u)}
  BY DEF JoinWaits, JoinReturns, chanvars, TypeOK
<1>2. state'[t] \in {"Tready", "Trecv"} /\ (state'[t] = "Trecv" => call'[t] = JoinCall(u))
  BY DEF JoinWaits, JoinReturns, TypeOK
<1>3. ASSUME NEW d \in Chan PROVE RecvQueueOK(d)' /\ SendQueueOK(d)'
  BY <1>0, <1>1, <1>2 DEF RecvQueueOK, SendQueueOK
<1>4. ASSUME NEW y \in Thread PROVE JoinQueueOK(y)'
  <2>1. CASE JoinWaits(t, u)
    <3>1. /\ joinq' = [joinq EXCEPT ![u] = Append(@, t)] /\ joinq[u] \in Seq(Thread)
          /\ state'[t] = "Trecv" /\ call'[t] = JoinCall(u)
      BY <2>1 DEF JoinWaits, TypeOK
    <3>2. ToSet(Append(joinq[u], t)) = ToSet(joinq[u]) \cup {t}
      BY <3>1, AppendMembers
    <3>3. ToSet(joinq'[y]) = IF y = u THEN ToSet(joinq[y]) \cup {t} ELSE ToSet(joinq[y])
      BY <3>1, <3>2 DEF TypeOK
    <3>4. t \notin ToSet(joinq[y])
      BY <1>j DEF JoinQueueOK
    <3> QED BY <1>j, <1>1, <3>1, <3>3, <3>4 DEF JoinQueueOK
  <2>2. CASE JoinReturns(t, u)
    BY <1>j, <1>1, <2>2 DEF JoinReturns, JoinQueueOK
  <2> QED BY <2>1, <2>2
<1>5. ASSUME NEW d \in Chan PROVE RecvAwake(d)'
  <2> SUFFICES ASSUME hasdata[d], rq[d] # <<>>
               PROVE  \E x \in Thread : state'[x] = "Tready" /\ call'[x] = RecvCall(d)
    BY <1>1 DEF RecvAwake
  <2>1. PICK x \in Thread : state[x] = "Tready" /\ call[x] = RecvCall(d)
    BY <1>0 DEF RecvAwake
  <2>2. x # t
    BY <2>1
  <2> QED BY <1>1, <2>1, <2>2
<1>6. ASSUME NEW d \in Chan PROVE SendAwake(d)'
  <2> SUFFICES ASSUME ~hasdata[d], sq[d] # <<>>
               PROVE  \E x \in Thread, w \in Value : state'[x] = "Tready" /\ call'[x] = SendCall(d, w)
    BY <1>1 DEF SendAwake
  <2>1. PICK x \in Thread, w \in Value : state[x] = "Tready" /\ call[x] = SendCall(d, w)
    BY <1>0 DEF SendAwake
  <2>2. x # t
    BY <2>1
  <2> QED BY <1>1, <2>1, <2>2
<1> QED BY <1>3, <1>4, <1>5, <1>6, CoopPartsNext

(* The reaping of t wakes everyone queued for its return value. *)
LEMMA ReapKeeps ==
  ASSUME TypeOK, QueuesMatchStates, NoLostWakeup, NEW t \in Thread, Reap(t)
  PROVE  QueuesMatchStates' /\ NoLostWakeup'
<1> USE CallFacts
<1>0. \A d \in Chan : RecvQueueOK(d) /\ SendQueueOK(d) /\ RecvAwake(d) /\ SendAwake(d)
  BY CoopParts
<1>j. \A y \in Thread : JoinQueueOK(y)
  BY CoopParts
<1>1. /\ UNCHANGED <<hasdata, rq, sq, call>>
      /\ \A x \in Thread : state'[x] = IF x \in ToSet(joinq[t]) THEN "Tready" ELSE state[x]
      /\ \A y \in Thread : joinq'[y] = IF y = t THEN <<>> ELSE joinq[y]
  BY DEF Reap, WakeAll, chanvars, TypeOK
<1>2. \A x \in Thread : x \in ToSet(joinq[t]) <=> state[x] = "Trecv" /\ call[x] = JoinCall(t)
  BY <1>j DEF JoinQueueOK
<1>3. ASSUME NEW d \in Chan PROVE RecvQueueOK(d)' /\ SendQueueOK(d)'
  BY <1>0, <1>1, <1>2 DEF RecvQueueOK, SendQueueOK
<1>4. ASSUME NEW y \in Thread PROVE JoinQueueOK(y)'
  <2>1. CASE y = t
    <3>1. ToSet(joinq'[y]) = {}
      BY <1>1, <2>1 DEF ToSet
    <3> QED BY <1>1, <1>2, <2>1, <3>1 DEF JoinQueueOK
  <2>2. CASE y # t
    BY <1>j, <1>1, <1>2, <2>2 DEF JoinQueueOK
  <2> QED BY <2>1, <2>2
<1>5. ASSUME NEW d \in Chan PROVE RecvAwake(d)' /\ SendAwake(d)'
  BY <1>0, <1>1 DEF RecvAwake, SendAwake
<1> QED BY <1>3, <1>4, <1>5, CoopPartsNext

(* A step of the running thread disturbs no other thread's suspension. *)
LEMMA OperationsUndisturbing ==
  ASSUME TypeOK, QueuesMatchStates, Undisturbed,
         NEW t \in Thread, Running(t),
         \/ \E c \in Chan : RecvBody(t, c, state)
         \/ \E c \in Chan, v \in Value : SendBody(t, c, v)
         \/ \E u \in Thread : JoinWaits(t, u) \/ JoinReturns(t, u)
  PROVE  Undisturbed'
<1>0. state[t] = "Tready"
  BY DEF Undisturbed
<1>e. /\ NoCall # ErrCall
      /\ \A c \in Chan : RecvCall(c) # ErrCall
      /\ \A c \in Chan, v \in Value : SendCall(c, v) # ErrCall
      /\ \A u \in Thread : JoinCall(u) # ErrCall
  BY CallsDiffer
<1> DEFINE Calm ==
             /\ \A x \in Thread : state[x] = "Tiowait" => state'[x] = "Tiowait"
             /\ \A x \in Thread : call'[x] # ErrCall
             /\ iowaitdata' = iowaitdata
             /\ phase' = "visit" \/ (UNCHANGED <<phase, vmthreads, pos>> /\ state'[t] = "Tready")
<1>1. Calm
  <2>1. ASSUME NEW c \in Chan, RecvBody(t, c, state) PROVE Calm
    <3>1. CASE RecvBlocks(t, c, state)
      BY <1>0, <3>1, <1>e DEF RecvBlocks, Suspend, TypeOK, Undisturbed
    <3>2. CASE RecvTakes(t, c, state)
      <4>1. sq[c] \in Seq(Thread) /\ (sq[c] # <<>> => Head(sq[c]) \in ToSet(sq[c]) /\ Head(sq[c]) \in Thread)
        BY TailMembers DEF TypeOK
      <4>2. sq[c] # <<>> => state[Head(sq[c])] = "Tsend"
        BY <4>1 DEF QueuesMatchStates
      <4>3. \A x \in Thread : state[x] \in {"Tiowait", "Tready"} => state'[x] = state[x]
        BY <3>2, <4>1, <4>2 DEF RecvTakes, WakeHead, TypeOK
      <4>4. UNCHANGED <<iowaitdata, phase, vmthreads, pos>>
            /\ \A x \in Thread : call'[x] \in {call[x], NoCall}
        BY <3>2 DEF RecvTakes, dispvars, TypeOK
      <4> QED BY <1>0, <4>3, <4>4, <1>e DEF Undisturbed
    <3> QED BY <2>1, <3>1, <3>2 DEF RecvBody
  <2>2. ASSUME NEW c \in Chan, NEW v \in Value, SendBody(t, c, v) PROVE Calm
    <3>1. CASE SendBlocks(t, c, v)
      BY <1>0, <3>1, <1>e DEF SendBlocks, Suspend, TypeOK, Undisturbed
    <3>2. CASE SendPuts(t, c, v)
      <4>1. rq[c] \in Seq(Thread) /\ (rq[c] # <<>> => Head(rq[c]) \in ToSet(rq[c]) /\ Head(rq[c]) \in Thread)
        BY TailMembers DEF TypeOK
      <4>2. rq[c] # <<>> => state[Head(rq[c])] = "Trecv"
        BY <4>1 DEF QueuesMatchStates
      <4>3. \A x \in Thread : state[x] \in {"Tiowait", "Tready"} => state'[x] = state[x]
        BY <3>2, <4>1, <4>2 DEF SendPuts, WakeHead, TypeOK
      <4>4. UNCHANGED <<iowaitdata, phase, vmthreads, pos>>
            /\ \A x \in Thread : call'[x] \in {call[x], NoCall}
        BY <3>2 DEF SendPuts, dispvars, TypeOK
      <4> QED BY <1>0, <4>3, <4>4, <1>e DEF Undisturbed
    <3> QED BY <2>2, <3>1, <3>2 DEF SendBody
  <2>3. ASSUME NEW u \in Thread, JoinWaits(t, u) \/ JoinReturns(t, u) PROVE Calm
    <3>1. CASE JoinWaits(t, u)
      BY <1>0, <3>1, <1>e DEF JoinWaits, Suspend, TypeOK, Undisturbed
    <3>2. CASE JoinReturns(t, u)
      BY <1>0, <3>2, <1>e DEF JoinReturns, dispvars, TypeOK, Undisturbed
    <3> QED BY <2>3, <3>1, <3>2
  <2> QED BY <2>1, <2>2, <2>3
<1>2. \A x \in Thread : (Running(x))' => state'[x] = "Tready"
  BY <1>1 DEF Running
<1>3. \A x \in iowaitdata' : state'[x] = "Tiowait"
  BY <1>1 DEF Undisturbed, TypeOK
<1> QED BY <1>1, <1>2, <1>3 DEF Undisturbed

LEMMA CoopStep ==
  ASSUME Cooperative, TypeOK, RunInv, CoopInv, [Next]_vars
  PROVE  CoopInv'
<1> USE DEF CoopInv, thrvars, chanvars, dispvars
<1>0. \A t \in Thread : Running(t) => state[t] = "Tready"
  BY DEF Undisturbed
<1>1. ASSUME NEW t \in Thread, NEW c \in Chan, Running(t), RecvBody(t, c, state),
             call[t] \in {NoCall, RecvCall(c)}, UNCHANGED joinq
      PROVE  CoopInv'
  BY <1>0, <1>1, RecvKeeps, OperationsUndisturbing
<1>2. ASSUME NEW t \in Thread, NEW c \in Chan, NEW v \in Value, Running(t), SendBody(t, c, v),
             call[t] \in {NoCall, SendCall(c, v)}, UNCHANGED joinq
      PROVE  CoopInv'
  BY <1>0, <1>2, SendKeeps, OperationsUndisturbing
<1>3. ASSUME NEW t \in Thread, NEW u \in Thread, Running(t), JoinBody(t, u),
             call[t] \in {NoCall, JoinCall(u)}
      PROVE  CoopInv'
  <2>1. rv[u] \notin Chan
    BY NoValAssumption DEF TypeOK, Cooperative
  <2>2. JoinWaits(t, u) \/ JoinReturns(t, u)
    BY <1>3, <2>1 DEF JoinBody, JoinChan
  <2> QED BY <1>0, <1>3, <2>2, JoinKeeps, OperationsUndisturbing
<1>4. ASSUME UNCHANGED <<hasdata, rq, sq, joinq, call>>,
             \A x \in Thread : /\ state'[x] = "Trecv" <=> state[x] = "Trecv"
                               /\ state'[x] = "Tsend" <=> state[x] = "Tsend"
                               /\ call[x] # NoCall /\ state[x] = "Tready" => state'[x] = "Tready",
             \A x \in iowaitdata' : state'[x] = "Tiowait",
             \A x \in Thread : (Running(x))' => state'[x] = "Tready"
      PROVE  CoopInv'
  BY <1>4, CoopQuiet DEF Undisturbed
<1>5. ASSUME NEW t \in Thread, Operate(t) PROVE CoopInv'
  <2>0. Running(t) /\ state[t] = "Tready" /\ t \notin iowaitdata
    BY <1>0, <1>5 DEF Operate, Recv, Send, Join, Spawn, Kill, Break, SpawnForeign,
         Return, ErrUncaught, AtomicCell, Sleep, Iowait, Preempt, ErrCaught, Free, Undisturbed
  <2>1. ASSUME NEW c \in Chan, Recv(t, c) PROVE CoopInv'
    BY <2>1, <1>1 DEF Recv, Free
  <2>2. ASSUME NEW c \in Chan, NEW v \in Value, Send(t, c, v) PROVE CoopInv'
    BY <2>2, <1>2 DEF Send, Free
  <2>3. ASSUME NEW u \in Thread, Join(t, u) PROVE CoopInv'
    BY <2>3, <1>3 DEF Join, Free
  <2>4. ASSUME NEW u \in Thread, Spawn(t, u) PROVE CoopInv'
    <3>1. /\ state[u] = "unborn" /\ state' = [state EXCEPT ![u] = "Tready"]
          /\ vmthreads' = Append(vmthreads, u)
          /\ UNCHANGED <<hasdata, rq, sq, joinq, call, iowaitdata, phase, pos>>
      BY <2>4, EnqueueAppends DEF Spawn
    <3>2. vmthreads'[pos] = t
      <4>1. pos \in 1 .. Len(vmthreads)
        BY <2>0, LenProperties DEF Running, TypeOK
      <4> QED BY <2>0, <3>1, <4>1, AppendProperties DEF Running, TypeOK
    <3>3. \A x \in Thread : (Running(x))' => state'[x] = "Tready"
      BY <2>0, <3>1, <3>2 DEF Running, TypeOK
    <3>4. \A x \in iowaitdata' : state'[x] = "Tiowait"
      BY <3>1 DEF Undisturbed, TypeOK
    <3> QED BY <3>1, <3>3, <3>4, <1>4 DEF TypeOK
  <2>5. ASSUME NEW u \in Thread, Kill(t, u) \/ Break(t, u) PROVE CoopInv'
    BY <2>5 DEF Kill, Break, Cooperative
  <2>6. ASSUME NEW u \in Thread, NEW v \in RetVal, SpawnForeign(t, u, v) PROVE CoopInv'
    <3>1. /\ state[u] = "unborn" /\ state' = [state EXCEPT ![u] = "Trelease"]
          /\ UNCHANGED <<hasdata, rq, sq, joinq, call, iowaitdata, phase, pos, vmthreads>>
      BY <2>6 DEF SpawnForeign
    <3>2. \A x \in Thread : (Running(x))' => state'[x] = "Tready"
      BY <2>0, <3>1 DEF Running, TypeOK
    <3>3. \A x \in iowaitdata' : state'[x] = "Tiowait"
      BY <3>1 DEF Undisturbed, TypeOK
    <3> QED BY <3>1, <3>2, <3>3, <1>4 DEF TypeOK
  <2>s. ASSUME NEW s \in State \ {"Trecv", "Tsend"}, call[t] = NoCall,
               state' = [state EXCEPT ![t] = s], Suspend,
               UNCHANGED <<hasdata, rq, sq, joinq, call>>
        PROVE  CoopInv'
    <3>1. \A x \in Thread : ~(Running(x))'
      BY <2>s DEF Suspend, Running
    <3>2. \A x \in iowaitdata' : state'[x] = "Tiowait"
      BY <2>0, <2>s DEF Suspend, Undisturbed, TypeOK
    <3> QED BY <2>0, <2>s, <3>1, <3>2, <1>4 DEF TypeOK
  <2>r. {"Trelease", "Tbroken", "Tsleep", "Tiowait", "Tready"} \subseteq State \ {"Trecv", "Tsend"}
    BY DEF State, Stopped
  <2>7. ASSUME NEW v \in RetVal, Return(t, v) \/ ErrUncaught(t, v) PROVE CoopInv'
    <3>1. call[t] = NoCall
      BY <2>7 DEF Return, ErrUncaught, Free, Undisturbed
    <3>2. CASE Return(t, v)
      BY <2>r, <2>s, <3>1, <3>2 DEF Return
    <3>3. CASE ErrUncaught(t, v)
      <4>1. call' = call
        BY <3>1, <3>3 DEF ErrUncaught, TypeOK
      <4> QED BY <2>r, <2>s, <3>1, <3>3, <4>1 DEF ErrUncaught
    <3> QED BY <2>7, <3>2, <3>3
  <2>8. CASE Sleep(t)
    BY <2>r, <2>s, <2>8 DEF Sleep, Free
  <2>9. CASE Iowait(t)
    BY <2>r, <2>s, <2>9 DEF Iowait, Free
  <2>10. CASE Preempt(t)
    <3>1. state' = [state EXCEPT ![t] = "Tready"]
      BY <2>0, <2>10 DEF Preempt, TypeOK
    <3> QED BY <2>r, <2>s, <2>10, <3>1 DEF Preempt, Free
  <2>11. ASSUME NEW b \in BOOLEAN, AtomicCell(t, b) PROVE CoopInv'
    <3>1. UNCHANGED <<state, call, joinq, hasdata, rq, sq, phase, pos, vmthreads, iowaitdata>>
      BY <2>11 DEF AtomicCell
    <3> QED BY <3>1, <1>4 DEF Running, Undisturbed
  <2>12. CASE ErrCaught(t)
    BY <2>12 DEF ErrCaught, Undisturbed
  <2> QED BY <1>5, <2>1, <2>2, <2>3, <2>4, <2>5, <2>6, <2>7, <2>8, <2>9, <2>10, <2>11, <2>12
          DEF Operate
<1>6. ASSUME NEW t \in Thread, Resume(t) PROVE CoopInv'
  <2>1. CASE ResumeRecv(t)
    BY <2>1, <1>1, CallParts DEF ResumeRecv, TypeOK
  <2>2. CASE ResumeSend(t)
    BY <2>2, <1>2, CallParts DEF ResumeSend, TypeOK
  <2>3. CASE ResumeJoin(t)
    BY <2>3, <1>3, CallParts DEF ResumeJoin, TypeOK
  <2> QED BY <1>6, <2>1, <2>2, <2>3 DEF Resume
<1>7. ASSUME NEW t \in Thread, Visit(t) PROVE CoopInv'
  <2>0. \A x \in Thread : phase' = "visit" => ~(Running(x))'
    BY DEF Running
  <2>1. CASE Reap(t)
    <3>1. phase' = "visit" /\ iowaitdata' = iowaitdata /\ call' = call
      BY <2>1 DEF Reap, Visiting
    <3>2. \A x \in iowaitdata : state'[x] = "Tiowait"
      <4>1. \A x \in Thread : x \in ToSet(joinq[t]) => state[x] = "Trecv"
        BY DEF QueuesMatchStates
      <4> QED BY <2>1, <4>1 DEF Reap, WakeAll, Undisturbed, TypeOK
    <3> QED BY <2>0, <2>1, <3>1, <3>2, ReapKeeps DEF Undisturbed
  <2>2. CASE VisitBlocked(t) \/ VisitSleeping(t)
    <3>1. UNCHANGED <<state, call, joinq, hasdata, rq, sq, iowaitdata>> /\ phase' = "visit"
      BY <2>2 DEF VisitBlocked, VisitSleeping, Visiting
    <3> QED BY <2>0, <3>1, <1>4 DEF Undisturbed
  <2>3. CASE VisitReady(t)
    <3>1. /\ UNCHANGED <<state, call, joinq, hasdata, rq, sq, iowaitdata, vmthreads, pos>>
          /\ t = vmthreads[pos] /\ state[t] = "Tready"
      BY <2>3 DEF VisitReady, Visiting
    <3>2. \A x \in Thread : (Running(x))' => state'[x] = "Tready"
      BY <3>1 DEF Running
    <3> QED BY <3>1, <3>2, <1>4 DEF Undisturbed
  <2>4. CASE WakeSleeper(t)
    <3>1. /\ UNCHANGED <<call, joinq, hasdata, rq, sq, iowaitdata, vmthreads, pos>>
          /\ t = vmthreads[pos] /\ state[t] = "Tsleep" /\ state' = [state EXCEPT ![t] = "Tready"]
      BY <2>4 DEF WakeSleeper, Visiting
    <3>2. \A x \in Thread : (Running(x))' => state'[x] = "Tready"
      BY <3>1 DEF Running, TypeOK
    <3>3. \A x \in iowaitdata' : state'[x] = "Tiowait"
      BY <3>1 DEF Undisturbed, TypeOK
    <3> QED BY <3>1, <3>2, <3>3, <1>4 DEF TypeOK
  <2>5. CASE VisitIowait(t)
    <3>1. /\ UNCHANGED <<state, call, joinq, hasdata, rq, sq>> /\ phase' = "visit"
          /\ state[t] = "Tiowait" /\ iowaitdata' = iowaitdata \cup {t}
      BY <2>5 DEF VisitIowait, Visiting
    <3> QED BY <2>0, <3>1, <1>4 DEF Undisturbed
  <2> QED BY <1>7, <2>1, <2>2, <2>3, <2>4, <2>5 DEF Visit
<1>8. CASE EndCycle
  <2>1. UNCHANGED <<call, joinq, hasdata, rq, sq>> /\ phase' = "visit" /\ iowaitdata' = {}
    BY <1>8 DEF EndCycle
  <2>2. PICK ready \in SUBSET iowaitdata : state' = WakeAll(state, ready)
    BY <1>8 DEF EndCycle
  <2>3. \A x \in Thread : state'[x] = IF x \in ready THEN "Tready" ELSE state[x]
    BY <2>2 DEF WakeAll
  <2>4. \A x \in ready : state[x] = "Tiowait"
    BY DEF Undisturbed
  <2>5. \A x \in Thread : ~(Running(x))'
    BY <2>1 DEF Running
  <2> QED BY <2>1, <2>3, <2>4, <2>5, <1>4
<1>9. CASE GiveUp
  <2>1. UNCHANGED <<state, call, joinq, hasdata, rq, sq, iowaitdata>> /\ phase' = "returned"
    BY <1>9 DEF GiveUp
  <2>2. \A x \in Thread : ~(Running(x))'
    BY <2>1 DEF Running
  <2> QED BY <2>1, <2>2, <1>4 DEF Undisturbed
<1>10. CASE UNCHANGED vars
  <2>1. UNCHANGED <<state, call, joinq, hasdata, rq, sq, iowaitdata, phase, vmthreads, pos>>
    BY <1>10 DEF vars
  <2>2. \A x \in Thread : (Running(x))' => state'[x] = "Tready"
    BY <2>1, <1>0 DEF Running
  <2> QED BY <2>1, <2>2, <1>4 DEF Undisturbed
<1> QED BY <1>5, <1>6, <1>7, <1>8, <1>9, <1>10 DEF Next, Exit

LEMMA CoopStart == Init => CoopInv
<1> SUFFICES ASSUME Init PROVE CoopInv
  OBVIOUS
<1>1. ToSet(<<>>) = {} /\ IsInjective(<<>>)
  BY DEF ToSet, IsInjective
<1>2. QueuesMatchStates
  BY <1>1 DEF Init, QueuesMatchStates
<1>3. NoLostWakeup /\ Undisturbed
  BY CallsDiffer DEF Init, NoLostWakeup, Undisturbed, Running
<1> QED BY <1>2, <1>3 DEF CoopInv

(* The invariant of cooperative programs holds of every reachable state.   *)
LEMMA CoopAlways ==
  ASSUME Cooperative
  PROVE  Spec => []CoopInv
<1>1. Init => CoopInv
  BY CoopStart
<1>2. TypeOK /\ RunInv /\ CoopInv /\ [Next]_vars => CoopInv'
  BY CoopStep
<1> QED BY <1>1, <1>2, RunAlways, PTL DEF Spec

(* In a cooperative program the queues of a channel hold exactly the       *)
(* threads asleep in it (the while loops of arc_recv_channel and           *)
(* arc_send_channel, which queue a thread before it sleeps).               *)
THEOREM QueuesHoldSleepers ==
  ASSUME Cooperative
  PROVE  Spec => []QueuesMatchStates
<1>1. CoopInv => QueuesMatchStates
  BY DEF CoopInv
<1> QED BY <1>1, CoopAlways, PTL

(* In a cooperative program a channel that is full while receivers sleep,  *)
(* or empty while senders sleep, has already woken one of them             *)
(* (arc_recv_channel and arc_send_channel waking the head of the other's   *)
(* queue, re-entered from their while loop).                               *)
THEOREM NoWakeupIsLost ==
  ASSUME Cooperative
  PROVE  Spec => []NoLostWakeup
<1>1. CoopInv => NoLostWakeup
  BY DEF CoopInv
<1> QED BY <1>1, CoopAlways, PTL
-----------------------------------------------------------------------------
(***************************************************************************)
(* What the dispatcher promises cooperative programs: it never brings a    *)
(* stopped thread back, and it gives up only on a deadlock.                *)
(***************************************************************************)
(* Whoever is woken was asleep.                                            *)
LEMMA HeadsAreAsleep ==
  ASSUME TypeOK, CoopInv, NEW c \in Chan
  PROVE  /\ rq[c] # <<>> => Head(rq[c]) \in Thread /\ state[Head(rq[c])] = "Trecv"
         /\ sq[c] # <<>> => Head(sq[c]) \in Thread /\ state[Head(sq[c])] = "Tsend"
<1>1. /\ rq[c] # <<>> => Head(rq[c]) \in ToSet(rq[c]) /\ Head(rq[c]) \in Thread
      /\ sq[c] # <<>> => Head(sq[c]) \in ToSet(sq[c]) /\ Head(sq[c]) \in Thread
  BY TailMembers DEF TypeOK
<1> QED BY <1>1 DEF CoopInv, QueuesMatchStates

(* A channel operation or a join of the running thread t changes only the  *)
(* state of t and of one thread asleep in a channel.                       *)
WakesAtMost(t) ==
  /\ \A x \in Thread \ {t} : \/ state'[x] = state[x]
                             \/ state[x] \in Blocked /\ state'[x] = "Tready"
  /\ \A x \in Thread \ {t} : call'[x] = call[x]
  /\ \/ state'[t] = "Trecv" /\ call'[t].fn \in {"recv", "join"}
     \/ state'[t] = "Tsend" /\ call'[t].fn = "send"
     \/ state'[t] \in {"Tready", state[t]}
  /\ idle' = idle
  /\ phase' \in {phase, "visit"}

LEMMA BodiesWake ==
  ASSUME Cooperative, TypeOK, CoopInv, NEW t \in Thread,
         \/ \E c \in Chan : RecvBody(t, c, state)
         \/ \E c \in Chan, v \in Value : SendBody(t, c, v)
         \/ \E u \in Thread : JoinBody(t, u)
  PROVE  WakesAtMost(t)
<1>s. ASSUME NEW s, NEW k, state' = [state EXCEPT ![t] = s], call' = [call EXCEPT ![t] = k],
             Suspend, \/ s = "Trecv" /\ k.fn \in {"recv", "join"}
                      \/ s = "Tsend" /\ k.fn = "send"
      PROVE  WakesAtMost(t)
  BY <1>s DEF WakesAtMost, Suspend, TypeOK
<1>w. ASSUME NEW q, q = <<>> \/ (Head(q) \in Thread /\ state[Head(q)] \in Blocked), NEW k,
             state' = WakeHead(state, q), call' = [call EXCEPT ![t] = k], UNCHANGED dispvars
      PROVE  WakesAtMost(t)
  BY <1>w DEF WakesAtMost, WakeHead, TypeOK, dispvars
<1>1. ASSUME NEW c \in Chan, RecvBody(t, c, state) PROVE WakesAtMost(t)
  <2>1. CASE RecvBlocks(t, c, state)
    <3>1. /\ state' = [state EXCEPT ![t] = "Trecv"] /\ Suspend
          /\ call' = [call EXCEPT ![t] = RecvCall(c)]
      BY <2>1 DEF RecvBlocks
    <3>2. RecvCall(c).fn = "recv"
      BY CallsDiffer
    <3> QED BY <3>1, <3>2, <1>s
  <2>2. CASE RecvTakes(t, c, state)
    BY <2>2, <1>w, HeadsAreAsleep DEF RecvTakes, Blocked
  <2> QED BY <1>1, <2>1, <2>2 DEF RecvBody
<1>2. ASSUME NEW c \in Chan, NEW v \in Value, SendBody(t, c, v) PROVE WakesAtMost(t)
  <2>1. CASE SendBlocks(t, c, v)
    <3>1. /\ state' = [state EXCEPT ![t] = "Tsend"] /\ Suspend
          /\ call' = [call EXCEPT ![t] = SendCall(c, v)]
      BY <2>1 DEF SendBlocks
    <3>2. SendCall(c, v).fn = "send"
      BY CallsDiffer
    <3> QED BY <3>1, <3>2, <1>s
  <2>2. CASE SendPuts(t, c, v)
    BY <2>2, <1>w, HeadsAreAsleep DEF SendPuts, Blocked
  <2> QED BY <1>2, <2>1, <2>2 DEF SendBody
<1>3. ASSUME NEW u \in Thread, JoinBody(t, u) PROVE WakesAtMost(t)
  <2>1. CASE JoinWaits(t, u)
    BY <2>1, <1>s, CallsDiffer DEF JoinWaits
  <2>2. CASE JoinReturns(t, u)
    BY <2>2 DEF JoinReturns, dispvars, WakesAtMost, TypeOK
  <2>3. ~ JoinChan(t, u)
    BY NoValAssumption DEF JoinChan, TypeOK, Cooperative
  <2> QED BY <1>3, <2>1, <2>2, <2>3 DEF JoinBody
<1> QED BY <1>1, <1>2, <1>3

(* What the running thread can do to the states and the calls.             *)
LEMMA RunStep ==
  ASSUME Cooperative, TypeOK, CoopInv, NEW t \in Thread, Operate(t) \/ Resume(t)
  PROVE  /\ Running(t) /\ state[t] = "Tready" /\ idle' = idle /\ phase' # "returned"
         /\ \A x \in Thread \ {t} : \/ state'[x] = state[x]
                                    \/ state[x] \in Blocked /\ state'[x] = "Tready"
                                    \/ state[x] = "unborn" /\ state'[x] \in {"Tready", "Trelease"}
         /\ \A x \in Thread \ {t} : call'[x] = call[x]
         /\ \/ state'[t] = "Trecv" /\ call'[t].fn \in {"recv", "join"}
            \/ state'[t] = "Tsend" /\ call'[t].fn = "send"
            \/ state'[t] \notin Blocked \cup {"unborn"}
<1> USE DEF thrvars, chanvars, dispvars
<1>0. Running(t) /\ state[t] = "Tready"
  BY DEF Operate, Recv, Send, Join, Spawn, Kill, Break, SpawnForeign, Return, ErrUncaught,
         AtomicCell, Sleep, Iowait, Preempt, ErrCaught, Resume, ResumeRecv, ResumeSend,
         ResumeJoin, Free, CoopInv, Undisturbed
<1>r. "Tready" \notin Blocked /\ "Tsleep" \notin Blocked /\ "Tiowait" \notin Blocked
      /\ "Trelease" \notin Blocked /\ "Tbroken" \notin Blocked
  BY DEF Blocked
<1>p. phase = "run"
  BY <1>0 DEF Running
<1>1. CASE \/ \E c \in Chan : RecvBody(t, c, state)
           \/ \E c \in Chan, v \in Value : SendBody(t, c, v)
           \/ \E u \in Thread : JoinBody(t, u)
  BY <1>0, <1>p, <1>1, <1>r, BodiesWake DEF WakesAtMost
<1>2. CASE \E u \in Thread, v \in RetVal : SpawnForeign(t, u, v)
  <2>1. PICK u \in Thread, v \in RetVal : SpawnForeign(t, u, v)
    BY <1>2
  <2>2. /\ state[u] = "unborn" /\ state' = [state EXCEPT ![u] = "Trelease"]
        /\ UNCHANGED <<call, idle, phase>>
    BY <2>1 DEF SpawnForeign
  <2> QED BY <2>2, <1>0, <1>p, <1>r DEF TypeOK
<1>s. CASE \E u \in Thread : Spawn(t, u)
  BY <1>0, <1>p, <1>s, <1>r DEF Spawn, TypeOK
<1>3. CASE \E v \in RetVal : Return(t, v) \/ ErrUncaught(t, v)
  BY <1>0, <1>p, <1>3, <1>r DEF Return, ErrUncaught, Suspend, TypeOK
<1>4. CASE Sleep(t) \/ Iowait(t) \/ Preempt(t) \/ ErrCaught(t)
  BY <1>0, <1>p, <1>4, <1>r DEF Sleep, Iowait, Preempt, ErrCaught, Suspend, TypeOK
<1>5. CASE \E b \in BOOLEAN : AtomicCell(t, b)
  BY <1>0, <1>p, <1>5, <1>r DEF AtomicCell, TypeOK
<1>6. ~ \E u \in Thread : Kill(t, u) \/ Break(t, u)
  BY DEF Kill, Break, Cooperative
<1>7. Resume(t) => \/ \E c \in Chan : RecvBody(t, c, state)
                   \/ \E c \in Chan, v \in Value : SendBody(t, c, v)
                   \/ \E u \in Thread : JoinBody(t, u)
  <2>1. call[t] \in Call
    BY DEF TypeOK
  <2> QED BY <2>1, CallParts DEF Resume, ResumeRecv, ResumeSend, ResumeJoin
<1> QED BY <1>1, <1>2, <1>s, <1>3, <1>4, <1>5, <1>6, <1>7 DEF Operate, Recv, Send, Join

(* A thread that has stopped stays so.                                     *)
LEMMA StoppedStay ==
  ASSUME Cooperative, TypeOK, CoopInv, [Next]_vars, NEW x \in Thread, state[x] \in Stopped
  PROVE  state'[x] = state[x]
<1>0. state[x] \notin {"unborn", "Tready", "Tsleep", "Tiowait", "Trecv", "Tsend"} /\ state[x] \notin Blocked
  BY DEF Stopped, Blocked
<1>1. CASE \E t \in Thread : Operate(t) \/ Resume(t)
  BY <1>0, <1>1, RunStep
<1>2. ASSUME NEW t \in Thread, Reap(t) PROVE state'[x] = state[x]
  <2>1. x \notin ToSet(joinq[t])
    BY <1>0 DEF CoopInv, QueuesMatchStates
  <2> QED BY <1>2, <2>1 DEF Reap, WakeAll
<1>3. CASE EndCycle
  <2>1. x \notin iowaitdata
    BY <1>0 DEF CoopInv, Undisturbed
  <2> QED BY <1>3, <2>1 DEF EndCycle, WakeAll
<1>4. ASSUME NEW t \in Thread, Visit(t), ~ Reap(t) PROVE state'[x] = state[x]
  BY <1>0, <1>4 DEF Visit, VisitBlocked, VisitReady, VisitSleeping, WakeSleeper, VisitIowait,
                    thrvars, TypeOK
<1>5. CASE GiveUp \/ UNCHANGED vars
  BY <1>5 DEF GiveUp, thrvars, vars
<1> QED BY <1>1, <1>2, <1>3, <1>4, <1>5 DEF Next, Exit

(* In a cooperative program no wakeup reaches a thread that has stopped    *)
(* (arc_send_channel and arc_recv_channel waking the head of a queue, the  *)
(* reaping, process_iowait).                                               *)
THEOREM StoppedAreNotWoken ==
  ASSUME Cooperative
  PROVE  Spec => OnlyTheLivingAreWoken
<1>1. TypeOK /\ CoopInv /\ [Next]_vars =>
        [\A t \in Thread : state[t] \in Stopped => state'[t] # "Tready"]_vars
  BY StoppedStay DEF Stopped
<1> QED BY <1>1, CoopAlways, TypeCorrect, PTL DEF Spec, OnlyTheLivingAreWoken

-----------------------------------------------------------------------------
(***************************************************************************)
(* Giving up.  While the walk has seen blocked threads only, it has run    *)
(* none, so all those it has passed are blocked still.                     *)
(***************************************************************************)
GiveUpInv ==
  /\ \A x \in Thread : /\ rv[x] # NoVal => state[x] \in Stopped
                       /\ state[x] = "Trecv" => call[x].fn \in {"recv", "join"}
                       /\ state[x] = "Tsend" => call[x].fn = "send"
  /\ idle => phase # "run" /\ \A i \in 1 .. pos - 1 : state[vmthreads[i]] \in Blocked
  /\ phase = "returned" => idle /\ pos > Len(vmthreads)

LEMMA GiveUpStart == Init => GiveUpInv
BY DEF Init, GiveUpInv

LEMMA GiveUpStep ==
  ASSUME Cooperative, TypeOK, CoopInv, GiveUpInv, [Next]_vars
  PROVE  GiveUpInv'
<1> USE DEF thrvars, chanvars, dispvars
<1>t. Len(vmthreads) \in Nat /\ pos \in Nat
  BY LenProperties DEF TypeOK
<1>r. ASSUME NEW x \in Thread, rv'[x] = rv[x] PROVE rv'[x] # NoVal => state'[x] \in Stopped
  BY <1>r, StoppedStay DEF GiveUpInv
<1>q. ASSUME UNCHANGED call, \A x \in Thread : state'[x] \in {state[x], "Tready"}
      PROVE  \A x \in Thread : /\ state'[x] = "Trecv" => call'[x].fn \in {"recv", "join"}
                               /\ state'[x] = "Tsend" => call'[x].fn = "send"
  BY <1>q DEF GiveUpInv
<1>1. ASSUME NEW t \in Thread, Operate(t) \/ Resume(t) PROVE GiveUpInv'
  <2>1. \A x \in Thread : rv'[x] = rv[x] \/ state'[x] = "Trelease"
    BY <1>1 DEF Operate, Recv, Send, Join, Spawn, Kill, Break, SpawnForeign, Return, ErrUncaught,
         AtomicCell, Sleep, Iowait, Preempt, ErrCaught, Resume, ResumeRecv, ResumeSend,
         ResumeJoin, TypeOK
  <2>2. \A x \in Thread : rv'[x] # NoVal => state'[x] \in Stopped
    BY <1>r, <2>1 DEF Stopped
  <2>3. ~ idle' /\ phase' # "returned"
    BY <1>1, RunStep DEF Running, GiveUpInv
  <2>4. ASSUME NEW x \in Thread
        PROVE  /\ state'[x] = "Trecv" => call'[x].fn \in {"recv", "join"}
               /\ state'[x] = "Tsend" => call'[x].fn = "send"
    BY <1>1, RunStep DEF GiveUpInv, Blocked
  <2> QED BY <2>2, <2>3, <2>4 DEF GiveUpInv
<1>2. ASSUME NEW t \in Thread, Visit(t) PROVE GiveUpInv'
  <2>1. CASE Reap(t)
    <3>1. \A x \in Thread : rv'[x] = rv[x] \/ x = t
      BY <2>1 DEF Reap, TypeOK
    <3>2. state'[t] \in Stopped
      BY <2>1, StoppedStay DEF Reap
    <3>3. \A x \in Thread : state'[x] \in {state[x], "Tready"}
      BY <2>1 DEF Reap, WakeAll
    <3> QED BY <2>1, <1>r, <1>q, <3>1, <3>2, <3>3 DEF Reap, Visiting, GiveUpInv
  <2>2. CASE VisitBlocked(t)
    <3>1. UNCHANGED <<state, call, rv, vmthreads, phase, idle>> /\ phase = "visit" /\ pos' = pos + 1
      BY <2>2 DEF VisitBlocked, Visiting, Onward
    <3>2. state[vmthreads[pos]] \in Blocked
      BY <2>2 DEF VisitBlocked, Visiting
    <3>3. idle => \A i \in 1 .. pos' - 1 : state[vmthreads[i]] \in Blocked
      BY <1>t, <3>1, <3>2 DEF GiveUpInv
    <3> QED BY <3>1, <3>3 DEF GiveUpInv
  <2>3. CASE VisitReady(t) \/ VisitSleeping(t) \/ VisitIowait(t)
    BY <2>3 DEF VisitReady, VisitSleeping, VisitIowait, Visiting, GiveUpInv
  <2>4. CASE WakeSleeper(t)
    <3>1. \A x \in Thread : state'[x] \in {state[x], "Tready"} /\ rv'[x] = rv[x]
      BY <2>4 DEF WakeSleeper, TypeOK
    <3> QED BY <2>4, <1>r, <1>q, <3>1 DEF WakeSleeper, GiveUpInv
  <2> QED BY <1>2, <2>1, <2>2, <2>3, <2>4 DEF Visit
<1>3. CASE EndCycle
  <2>1. \A x \in Thread : state'[x] \in {state[x], "Tready"} /\ rv'[x] = rv[x]
    BY <1>3 DEF EndCycle, WakeAll
  <2>2. UNCHANGED call /\ pos' = 1 /\ phase' = "visit"
    BY <1>3 DEF EndCycle
  <2>3. \A i \in 1 .. pos' - 1 : FALSE
    BY <2>2
  <2> QED BY <1>r, <1>q, <2>1, <2>2, <2>3 DEF GiveUpInv
<1>4. CASE GiveUp
  BY <1>4 DEF GiveUp, GiveUpInv
<1>5. CASE UNCHANGED vars
  BY <1>5 DEF vars, GiveUpInv
<1> QED BY <1>1, <1>2, <1>3, <1>4, <1>5 DEF Next, Exit

LEMMA GivingUpIsRight ==
  ASSUME Cooperative, TypeOK, RunInv, CoopInv, GiveUpInv
  PROVE  GivesUpOnlyOnDeadlock
<1> SUFFICES ASSUME phase = "returned"
             PROVE  \A t \in ToSet(vmthreads) :
                      /\ state[t] \in Blocked
                      /\ \A c \in Chan : call[t] = RecvCall(c) => ~hasdata[c]
                      /\ \A c \in Chan, v \in Value : call[t] = SendCall(c, v) => hasdata[c]
                      /\ \A u \in Thread : call[t] = JoinCall(u) => u \in ToSet(vmthreads)
  BY DEF GivesUpOnlyOnDeadlock
<1>1. \A t \in ToSet(vmthreads) : t \in Thread /\ state[t] \in Blocked
  <2>1. Len(vmthreads) \in Nat /\ pos \in Nat /\ DOMAIN vmthreads = 1 .. Len(vmthreads)
    BY LenProperties DEF TypeOK
  <2>2. \A i \in DOMAIN vmthreads : vmthreads[i] \in Thread /\ state[vmthreads[i]] \in Blocked
    BY <2>1 DEF GiveUpInv, TypeOK
  <2> QED BY <2>2 DEF ToSet
<1>2. \A x \in Thread : state[x] \notin {"unborn", "Trelease", "Tbroken"} => x \in ToSet(vmthreads)
  BY DEF GiveUpInv, RunInv, RunQueueSound, Stopped
<1>3. \A x \in Thread : state[x] # "Tready"
  BY <1>1, <1>2 DEF Blocked
<1>4. \A q : ToSet(q) # {} => q # <<>>
  BY DEF ToSet
<1> SUFFICES ASSUME NEW t \in Thread, t \in ToSet(vmthreads), state[t] \in Blocked
             PROVE  /\ \A c \in Chan : call[t] = RecvCall(c) => ~hasdata[c]
                    /\ \A c \in Chan, v \in Value : call[t] = SendCall(c, v) => hasdata[c]
                    /\ \A u \in Thread : call[t] = JoinCall(u) => u \in ToSet(vmthreads)
  BY <1>1
<1>5. ASSUME NEW c \in Chan, call[t] = RecvCall(c) PROVE ~hasdata[c]
  <2>1. state[t] = "Trecv"
    BY <1>5, CallsDiffer DEF GiveUpInv, Blocked
  <2>2. t \in ToSet(rq[c])
    BY <1>5, <2>1 DEF CoopInv, QueuesMatchStates
  <2> QED BY <1>3, <1>4, <2>2 DEF CoopInv, NoLostWakeup
<1>6. ASSUME NEW c \in Chan, NEW v \in Value, call[t] = SendCall(c, v) PROVE hasdata[c]
  <2>1. state[t] = "Tsend"
    BY <1>6, CallsDiffer DEF GiveUpInv, Blocked
  <2>2. t \in ToSet(sq[c])
    BY <1>6, <2>1 DEF CoopInv, QueuesMatchStates
  <2> QED BY <1>3, <1>4, <2>2 DEF CoopInv, NoLostWakeup
<1>7. ASSUME NEW u \in Thread, call[t] = JoinCall(u) PROVE u \in ToSet(vmthreads)
  <2>1. state[t] = "Trecv"
    BY <1>7, CallsDiffer DEF GiveUpInv, Blocked
  <2>2. t \in ToSet(joinq[u])
    BY <1>7, <2>1 DEF CoopInv, QueuesMatchStates
  <2>3. rv[u] = NoVal
    BY <1>4, <2>2 DEF RunInv, NoJoinerLeftBehind
  <2>4. state[u] # "unborn"
    BY <1>7 DEF RunInv, UnbornUnknown
  <2> QED BY <2>3, <2>4 DEF RunInv, RunQueueSound
<1> QED BY <1>5, <1>6, <1>7

LEMMA DispatchAlways ==
  ASSUME Cooperative
  PROVE  Spec => [](TypeOK /\ RunInv /\ CoopInv /\ GiveUpInv)
<1>1. Init => GiveUpInv
  BY GiveUpStart
<1>2. TypeOK /\ CoopInv /\ GiveUpInv /\ [Next]_vars => GiveUpInv'
  BY GiveUpStep
<1> QED BY <1>1, <1>2, RunAlways, CoopAlways, PTL DEF Spec

(* The dispatcher of a cooperative program gives up only when every thread *)
(* it has left waits for what no thread will do: a full or an empty slot   *)
(* of a channel, or the end of another such thread                         *)
(* (nthreads == blockedthreads in arc_thread_dispatch).                    *)
THEOREM GivingUpIsDeadlock ==
  ASSUME Cooperative
  PROVE  Spec => []GivesUpOnlyOnDeadlock
<1>1. TypeOK /\ RunInv /\ CoopInv /\ GiveUpInv => GivesUpOnlyOnDeadlock
  BY GivingUpIsRight
<1> QED BY <1>1, DispatchAlways, PTL

-----------------------------------------------------------------------------
(***************************************************************************)
(* Each channel implements ChannelSlot step by step.                       *)
(***************************************************************************)

(* What is in a channel was sent over it. *)
SlotsFilled == \A c \in Chan : hasdata[c] => data[c] \in Value

(* The mapped state. *)
slot == IF hasdata[Watched] THEN data[Watched] ELSE NoVal
want == [t \in Thread |-> Asking(t)]
SlotStep == [Slot!Next]_(Slot!vars)

(* What each call asks of the watched channel. *)
LEMMA AskingParts ==
  ASSUME NEW t \in Thread
  PROVE  /\ call[t] \in {NoCall, ErrCall} => Asking(t) = NoCall
         /\ \A u \in Thread : call[t] = JoinCall(u) => Asking(t) = NoCall
         /\ \A c \in Chan : call[t] = RecvCall(c) =>
              Asking(t) = IF c = Watched THEN call[t] ELSE NoCall
         /\ \A c \in Chan, v \in Value : call[t] = SendCall(c, v) =>
              Asking(t) = IF c = Watched THEN call[t] ELSE NoCall
BY CallsDiffer DEF Asking

LEMMA AskingNext ==
  ASSUME NEW t \in Thread
  PROVE  /\ call'[t] \in {NoCall, ErrCall} => Asking(t)' = NoCall
         /\ \A u \in Thread : call'[t] = JoinCall(u) => Asking(t)' = NoCall
         /\ \A c \in Chan : call'[t] = RecvCall(c) =>
              Asking(t)' = IF c = Watched THEN call'[t] ELSE NoCall
         /\ \A c \in Chan, v \in Value : call'[t] = SendCall(c, v) =>
              Asking(t)' = IF c = Watched THEN call'[t] ELSE NoCall
BY CallsDiffer DEF Asking

(* A step in which one thread changes its call. *)
LEMMA WantNext ==
  ASSUME TypeOK, NEW t \in Thread, NEW k, call' = [call EXCEPT ![t] = k]
  PROVE  want' = [want EXCEPT ![t] = Asking(t)'] /\ call'[t] = k
<1>1. \A x \in Thread \ {t} : call'[x] = call[x]
  OBVIOUS
<1>2. \A x \in Thread \ {t} : Asking(x)' = Asking(x)
  BY <1>1 DEF Asking
<1> QED BY <1>2 DEF want, TypeOK

(* A step that leaves the slots and the calls alone is a stutter. *)
LEMMA QuietIsStutter ==
  ASSUME UNCHANGED <<hasdata, data>>, want' = want
  PROVE  SlotStep
BY DEF SlotStep, Slot!vars, want

(* A receive, from its start or entered again. *)
LEMMA RecvIsRecv ==
  ASSUME TypeOK, SlotsFilled, NEW t \in Thread, NEW c \in Chan, NEW st,
         call[t] \in {NoCall, RecvCall(c)}, RecvBody(t, c, st)
  PROVE  SlotStep /\ SlotsFilled'
<1>0. Asking(t) \in {NoCall, RecvCall(Watched)} /\ (c # Watched => Asking(t) = NoCall)
  BY AskingParts
<1>v. Watched \in Chan /\ \A v \in Value : v # NoVal
  BY WatchedAssumption, NoValAssumption
<1>1. CASE RecvBlocks(t, c, st)
  <2>1. /\ ~hasdata[c] /\ UNCHANGED <<hasdata, data>>
        /\ call' = [call EXCEPT ![t] = RecvCall(c)]
    BY <1>1 DEF RecvBlocks
  <2>2. want' = [want EXCEPT ![t] = Asking(t)'] /\ call'[t] = RecvCall(c)
    BY <2>1, WantNext
  <2>3. Asking(t)' = IF c = Watched THEN RecvCall(c) ELSE NoCall
    BY <2>2, AskingNext
  <2>s. SlotsFilled'
    BY <2>1 DEF SlotsFilled
  <2>4. ASSUME c = Watched, Asking(t) = NoCall PROVE SlotStep
    <3>1. want[t] = NoCall /\ ~hasdata[Watched] /\ want' = [want EXCEPT ![t] = RecvCall(Watched)]
      BY <2>1, <2>2, <2>3, <2>4 DEF want
    <3>2. Slot!AskRecv(t)
      BY <2>1, <3>1 DEF Slot!AskRecv, want
    <3> QED BY <3>2 DEF SlotStep, Slot!Next
  <2>5. ASSUME Asking(t)' = Asking(t) PROVE SlotStep
    <3>1. want' = want
      BY <2>2, <2>5 DEF want
    <3> QED BY <2>1, <3>1, QuietIsStutter
  <2> QED BY <1>0, <2>3, <2>4, <2>5, <2>s
<1>2. CASE RecvTakes(t, c, st)
  <2>1. /\ hasdata[c] /\ hasdata' = [hasdata EXCEPT ![c] = FALSE] /\ data' = data
        /\ call' = [call EXCEPT ![t] = NoCall]
    BY <1>2 DEF RecvTakes
  <2>2. want' = [want EXCEPT ![t] = NoCall]
    BY <2>1, WantNext, AskingNext
  <2>3. ASSUME c = Watched PROVE SlotStep
    <3>1. data[Watched] # NoVal /\ hasdata[Watched] /\ ~hasdata'[Watched]
      BY <1>v, <2>1, <2>3 DEF SlotsFilled, TypeOK
    <3>2. want[t] \in {NoCall, RecvCall(Watched)}
      BY <1>0 DEF want
    <3>3. Slot!Recv(t)
      BY <2>2, <3>1, <3>2 DEF Slot!Recv, want
    <3> QED BY <3>3 DEF SlotStep, Slot!Next
  <2>4. ASSUME c # Watched PROVE SlotStep
    <3>1. want' = want
      BY <1>0, <2>2, <2>4 DEF want
    <3>2. hasdata'[Watched] = hasdata[Watched]
      BY <1>v, <2>1, <2>4 DEF TypeOK
    <3> QED BY <2>1, <3>1, <3>2 DEF SlotStep, Slot!vars, want
  <2>5. SlotsFilled'
    BY <2>1 DEF SlotsFilled, TypeOK
  <2> QED BY <2>3, <2>4, <2>5
<1> QED BY <1>1, <1>2 DEF RecvBody

(* A send, from its start or entered again. *)
LEMMA SendIsSend ==
  ASSUME TypeOK, SlotsFilled, NEW t \in Thread, NEW c \in Chan, NEW v \in Value,
         call[t] \in {NoCall, SendCall(c, v)}, SendBody(t, c, v)
  PROVE  SlotStep /\ SlotsFilled'
<1>0. Asking(t) \in {NoCall, SendCall(Watched, v)} /\ (c # Watched => Asking(t) = NoCall)
  BY AskingParts
<1>v. Watched \in Chan /\ \A w \in Value : w # NoVal
  BY WatchedAssumption, NoValAssumption
<1>1. CASE SendBlocks(t, c, v)
  <2>1. /\ hasdata[c] /\ UNCHANGED <<hasdata, data>>
        /\ call' = [call EXCEPT ![t] = SendCall(c, v)]
    BY <1>1 DEF SendBlocks
  <2>2. want' = [want EXCEPT ![t] = Asking(t)'] /\ call'[t] = SendCall(c, v)
    BY <2>1, WantNext
  <2>3. Asking(t)' = IF c = Watched THEN SendCall(c, v) ELSE NoCall
    BY <2>2, AskingNext
  <2>s. SlotsFilled'
    BY <2>1 DEF SlotsFilled
  <2>4. ASSUME c = Watched, Asking(t) = NoCall PROVE SlotStep
    <3>1. hasdata[Watched] /\ data[Watched] # NoVal
      BY <1>v, <2>1, <2>4 DEF SlotsFilled
    <3>2. want[t] = NoCall /\ want' = [want EXCEPT ![t] = SendCall(Watched, v)]
      BY <2>2, <2>3, <2>4 DEF want
    <3>3. Slot!AskSend(t, v)
      BY <2>1, <3>1, <3>2 DEF Slot!AskSend, want
    <3> QED BY <3>3 DEF SlotStep, Slot!Next
  <2>5. ASSUME Asking(t)' = Asking(t) PROVE SlotStep
    <3>1. want' = want
      BY <2>2, <2>5 DEF want
    <3> QED BY <2>1, <3>1, QuietIsStutter
  <2> QED BY <1>0, <2>3, <2>4, <2>5, <2>s
<1>2. CASE SendPuts(t, c, v)
  <2>1. /\ ~hasdata[c] /\ hasdata' = [hasdata EXCEPT ![c] = TRUE] /\ data' = [data EXCEPT ![c] = v]
        /\ call' = [call EXCEPT ![t] = NoCall]
    BY <1>2 DEF SendPuts
  <2>2. want' = [want EXCEPT ![t] = NoCall]
    BY <2>1, WantNext, AskingNext
  <2>3. ASSUME c = Watched PROVE SlotStep
    <3>1. data'[Watched] = v /\ ~hasdata[Watched] /\ hasdata'[Watched]
      BY <1>v, <2>1, <2>3 DEF TypeOK
    <3>2. want[t] \in {NoCall, SendCall(Watched, v)}
      BY <1>0 DEF want
    <3>3. Slot!Send(t, v)
      BY <2>2, <3>1, <3>2 DEF Slot!Send, want
    <3> QED BY <3>3 DEF SlotStep, Slot!Next
  <2>4. ASSUME c # Watched PROVE SlotStep
    <3>1. want' = want
      BY <1>0, <2>2, <2>4 DEF want
    <3>2. hasdata'[Watched] = hasdata[Watched] /\ data'[Watched] = data[Watched]
      BY <1>v, <2>1, <2>4 DEF TypeOK
    <3> QED BY <3>1, <3>2 DEF SlotStep, Slot!vars, want
  <2>5. SlotsFilled'
    BY <2>1 DEF SlotsFilled, TypeOK
  <2> QED BY <2>3, <2>4, <2>5
<1> QED BY <1>1, <1>2 DEF SendBody

(* Any other operation: the call it enters or leaves asks for nothing.     *)
LEMMA OthersAreQuiet ==
  ASSUME TypeOK, SlotsFilled, NEW t \in Thread, NEW k,
         UNCHANGED <<hasdata, data>>, call' = [call EXCEPT ![t] = k],
         Asking(t) = NoCall, Asking(t)' = NoCall
  PROVE  SlotStep /\ SlotsFilled'
<1>1. want' = want
  BY WantNext DEF want
<1> QED BY <1>1, QuietIsStutter DEF SlotsFilled

(* Joining, which may go over to a channel that a thread returned.         *)
LEMMA JoinIsQuiet ==
  ASSUME TypeOK, SlotsFilled, NEW t \in Thread, NEW u \in Thread,
         call[t] \in {NoCall, JoinCall(u)}, JoinBody(t, u)
  PROVE  SlotStep /\ SlotsFilled'
<1>1. PICK k \in {NoCall, JoinCall(u)} : call' = [call EXCEPT ![t] = k]
  BY DEF JoinBody, JoinWaits, JoinReturns, JoinChan
<1>2. UNCHANGED <<hasdata, data>>
  BY DEF JoinBody, JoinWaits, JoinReturns, JoinChan, chanvars
<1>3. call'[t] = k
  BY <1>1 DEF TypeOK
<1>4. Asking(t) = NoCall /\ Asking(t)' = NoCall
  BY <1>1, <1>3, AskingParts, AskingNext
<1> QED BY <1>1, <1>2, <1>4, OthersAreQuiet

(* Without break-thread, every step is one of the slot or a stutter.       *)
LEMMA SlotStepLemma ==
  ASSUME "break" \notin Uses, TypeOK, SlotsFilled, [Next]_vars
  PROVE  SlotStep /\ SlotsFilled'
<1> USE DEF thrvars, chanvars, dispvars, vars
<1>q. ASSUME UNCHANGED <<hasdata, data, call>> PROVE SlotStep /\ SlotsFilled'
  <2>1. want' = want
    BY <1>q DEF want, Asking
  <2> QED BY <1>q, <2>1, QuietIsStutter DEF SlotsFilled
<1>1. ASSUME NEW t \in Thread, Operate(t) PROVE SlotStep /\ SlotsFilled'
  <2>1. ASSUME NEW c \in Chan, Recv(t, c) PROVE SlotStep /\ SlotsFilled'
    BY <2>1, RecvIsRecv DEF Recv, Free
  <2>2. ASSUME NEW c \in Chan, NEW v \in Value, Send(t, c, v) PROVE SlotStep /\ SlotsFilled'
    BY <2>2, SendIsSend DEF Send, Free
  <2>3. ASSUME NEW u \in Thread, Join(t, u) PROVE SlotStep /\ SlotsFilled'
    BY <2>3, JoinIsQuiet DEF Join, Free
  <2>4. ASSUME NEW u \in Thread, Kill(t, u) PROVE SlotStep /\ SlotsFilled'
    BY <2>4, <1>q, RecvIsRecv, AChanAssumption DEF Kill, Free
  <2>5. ASSUME NEW v \in RetVal, ErrUncaught(t, v) PROVE SlotStep /\ SlotsFilled'
    <3>1. call' = [call EXCEPT ![t] = NoCall] /\ UNCHANGED <<hasdata, data>>
          /\ call[t] \in {NoCall, ErrCall}
      BY <2>5 DEF ErrUncaught
    <3>2. call'[t] = NoCall
      BY <3>1 DEF TypeOK
    <3> QED BY <3>1, <3>2, OthersAreQuiet, AskingParts, AskingNext
  <2>6. CASE ErrCaught(t)
    <3>1. call' = [call EXCEPT ![t] = NoCall] /\ UNCHANGED <<hasdata, data>> /\ call[t] = ErrCall
      BY <2>6 DEF ErrCaught
    <3>2. call'[t] = NoCall
      BY <3>1 DEF TypeOK
    <3> QED BY <3>1, <3>2, OthersAreQuiet, AskingParts, AskingNext
  <2>7. ASSUME NEW u \in Thread, Break(t, u) PROVE FALSE
    BY <2>7 DEF Break
  <2>8. ASSUME NEW u \in Thread, Spawn(t, u) PROVE SlotStep /\ SlotsFilled'
    BY <2>8, <1>q DEF Spawn
  <2>9. ASSUME NEW u \in Thread, NEW v \in RetVal, SpawnForeign(t, u, v) PROVE SlotStep /\ SlotsFilled'
    BY <2>9, <1>q DEF SpawnForeign
  <2>10. ASSUME NEW v \in RetVal, Return(t, v) PROVE SlotStep /\ SlotsFilled'
    BY <2>10, <1>q DEF Return
  <2>11. ASSUME NEW b \in BOOLEAN, AtomicCell(t, b) PROVE SlotStep /\ SlotsFilled'
    BY <2>11, <1>q DEF AtomicCell
  <2>12. CASE Sleep(t) \/ Iowait(t) \/ Preempt(t)
    BY <2>12, <1>q DEF Sleep, Iowait, Preempt
  <2> QED BY <1>1, <2>1, <2>2, <2>3, <2>4, <2>5, <2>6, <2>7, <2>8, <2>9, <2>10, <2>11, <2>12
          DEF Operate
<1>2. ASSUME NEW t \in Thread, Resume(t) PROVE SlotStep /\ SlotsFilled'
  <2>0. call[t] \in Call
    BY DEF TypeOK
  <2>1. CASE ResumeRecv(t)
    BY <2>0, <2>1, CallParts, RecvIsRecv DEF ResumeRecv
  <2>2. CASE ResumeSend(t)
    BY <2>0, <2>2, CallParts, SendIsSend DEF ResumeSend
  <2>3. CASE ResumeJoin(t)
    BY <2>0, <2>3, CallParts, JoinIsQuiet DEF ResumeJoin
  <2> QED BY <1>2, <2>1, <2>2, <2>3 DEF Resume
<1>3. ASSUME NEW t \in Thread, Visit(t) PROVE SlotStep /\ SlotsFilled'
  BY <1>3, <1>q DEF Visit, Reap, VisitBlocked, VisitReady, VisitSleeping, WakeSleeper, VisitIowait
<1>4. CASE EndCycle \/ GiveUp \/ UNCHANGED vars
  BY <1>4, <1>q DEF EndCycle, GiveUp
<1> QED BY <1>1, <1>2, <1>3, <1>4 DEF Next, Exit

(* Each channel is a slot for one value, whatever the threads do to each   *)
(* other with kill-thread, as long as none is broken in the middle of an   *)
(* operation: no value is lost, duplicated or overwritten, and nobody gets *)
(* what he did not wait for (arc_recv_channel, arc_send_channel).          *)
THEOREM ChannelImplementsSlot ==
  ASSUME "break" \notin Uses
  PROVE  Spec => Slot!Safety
<1>1. Init => Slot!Init /\ SlotsFilled
  <2> SUFFICES ASSUME Init PROVE Slot!Init /\ SlotsFilled
    OBVIOUS
  <2>1. \A t \in Thread : Asking(t) = NoCall
    BY AskingParts DEF Init
  <2> QED BY <2>1, WatchedAssumption DEF Init, Slot!Init, SlotsFilled
<1>2. TypeOK /\ SlotsFilled /\ [Next]_vars => SlotsFilled'
  BY SlotStepLemma
<1>3. TypeOK /\ SlotsFilled /\ [Next]_vars => [Slot!Next]_(Slot!vars)
  BY SlotStepLemma DEF SlotStep
<1> QED BY <1>1, <1>2, <1>3, TypeCorrect, PTL DEF Spec, Slot!Safety

-----------------------------------------------------------------------------
(* Atomic sections                                                         *)

(* Every step of atomic-invoke is an operation of a thread, a step of the  *)
(* dispatcher, or (Enter) nothing the threads of thread.c notice.          *)
LEMMA AtomicSteps ==
  ASSUME "acell" \in Uses, [ANext]_avars
  PROVE  [Next]_vars
<1>1. ASSUME NEW t \in Thread, Section(t) PROVE [Next]_vars
  <2>1. CASE Begin(t)
    <3>1. AtomicCell(t, TRUE)
      BY <2>1 DEF Begin, AtomicCell
    <3>2. Operate(t)
      BY <3>1 DEF Operate
    <3> QED BY <3>2 DEF Next
  <2>2. CASE Acquire(t)
    BY <2>2, AChanAssumption DEF Acquire, Operate, Resume, Next
  <2>3. CASE Enter(t)
    BY <2>3 DEF Enter
  <2>4. CASE Leave(t)
    BY <2>4, AChanAssumption DEF Leave, Operate, Next
  <2>5. CASE Clear(t)
    <3>1. AtomicCell(t, FALSE)
      BY <2>5 DEF Clear, AtomicCell
    <3>2. Operate(t)
      BY <3>1 DEF Operate
    <3> QED BY <3>2 DEF Next
  <2> QED BY <1>1, <2>1, <2>2, <2>3, <2>4, <2>5 DEF Section
<1>2. ASSUME NEW t \in Thread, Elsewhere(t) PROVE [Next]_vars
  BY <1>2 DEF Elsewhere, Operate, Resume, Next
<1>3. CASE Dispatch
  BY <1>3 DEF Dispatch, Next
<1>4. CASE AtRest \/ UNCHANGED avars
  BY <1>4 DEF AtRest, avars
<1> QED BY <1>1, <1>2, <1>3, <1>4 DEF ANext

(* Programs that only take and free the lock behave as the threads, the    *)
(* channels and the dispatcher of Threads do, so what is proved of all     *)
(* programs is true of them (atomic-invoke over thread.c and chan.c).      *)
THEOREM AtomicImplementsThreads ==
  ASSUME "acell" \in Uses
  PROVE  ASpec => Spec
<1>1. AInit => Init
  BY DEF AInit
<1>2. [ANext]_avars => [Next]_vars
  BY AtomicSteps
<1> QED BY <1>1, <1>2, PTL DEF ASpec, Spec

-----------------------------------------------------------------------------
(***************************************************************************)
(* The lock.  Exclusion alone is not inductive: the holder must find the   *)
(* slot full when it frees the lock, so its receive never waits, and the   *)
(* send a thread is suspended in must be the one that takes the lock.      *)
(***************************************************************************)
Holders == {"held", "in"}

CallFits(t) ==
  \/ call[t] = NoCall
  \/ pc[t] = "out" /\ \E u \in Thread : call[t] = JoinCall(u)
  \/ pc[t] = "begun" /\ \E v \in Value : call[t] = SendCall(AChan, v)

LockInv ==
  /\ pc \in [Thread -> Place \ {"leaving"}]
  /\ \A t \in Thread : /\ acell[t] <=> pc[t] # "out"
                       /\ state[t] \in Stopped => pc[t] = "out"
                       /\ CallFits(t)
  /\ hasdata[AChan] <=> \E t \in Thread : pc[t] \in Holders
  /\ \A t, u \in Thread : pc[t] \in Holders /\ pc[u] \in Holders => t = u

LEMMA LockStart == AInit => LockInv
BY AChanAssumption DEF AInit, Init, LockInv, CallFits, Place, Holders, Stopped

(* Nobody kills, so the thread that runs has not stopped.                   *)
RunsLiving == \A t \in Thread : Running(t) => state[t] \notin Stopped

LEMMA RunsLivingStep ==
  ASSUME TypeOK, RunInv, RunsLiving, [ANext]_avars
  PROVE  RunsLiving'
<1> USE DEF thrvars, chanvars, dispvars
<1>s. ASSUME phase' # "run" PROVE RunsLiving'
  BY <1>s DEF RunsLiving, Running
<1>q. ASSUME UNCHANGED <<vmthreads, pos, phase>>,
             \A x \in Thread : state'[x] \in {state[x], "Tready", "Trecv", "Tsend"}
      PROVE  RunsLiving'
  BY <1>q DEF RunsLiving, Running, Stopped
<1>w. ASSUME NEW q PROVE \A x \in Thread : WakeHead(state, q)[x] \in {state[x], "Tready"}
  BY DEF WakeHead, TypeOK
<1>1. ASSUME NEW t \in Thread, NEW c \in Chan, RecvBody(t, c, state) PROVE RunsLiving'
  BY <1>1, <1>s, <1>q, <1>w DEF RecvBody, RecvBlocks, RecvTakes, Suspend
<1>2. ASSUME NEW t \in Thread, NEW c \in Chan, NEW v, SendBody(t, c, v) PROVE RunsLiving'
  BY <1>2, <1>s, <1>q, <1>w DEF SendBody, SendBlocks, SendPuts, Suspend
<1>3. ASSUME NEW t \in Thread, NEW u, JoinBody(t, u) PROVE RunsLiving'
  BY <1>3, <1>s, <1>q DEF JoinBody, JoinWaits, JoinReturns, JoinChan, Suspend
<1>4. ASSUME NEW t \in Thread, Section(t) PROVE RunsLiving'
  <2>1. CASE Begin(t) \/ Enter(t) \/ Clear(t)
    BY <2>1, <1>q DEF Begin, Enter, Clear, vars
  <2>2. CASE Acquire(t)
    <3>1. CASE ResumeSend(t)
      <4>1. call[t].chan \in Chan
        BY <3>1, CallParts DEF ResumeSend, TypeOK
      <4> QED BY <3>1, <4>1, <1>2 DEF ResumeSend
    <3> QED BY <2>2, <3>1, <1>2, AChanAssumption DEF Acquire, Send
  <2>3. CASE Leave(t)
    BY <2>3, <1>1, AChanAssumption DEF Leave, Recv
  <2> QED BY <1>4, <2>1, <2>2, <2>3 DEF Section
<1>5. ASSUME NEW t \in Thread, Elsewhere(t) PROVE RunsLiving'
  <2>1. CASE Preempt(t) \/ Sleep(t)
    BY <2>1, <1>s DEF Preempt, Sleep, Suspend
  <2>2. ASSUME NEW u \in Thread, Spawn(t, u) PROVE RunsLiving'
    <3>1. /\ \A x \in Thread : state'[x] \in {state[x], "Tready"}
          /\ vmthreads' = Append(vmthreads, u) /\ UNCHANGED <<pos, phase>>
          /\ phase = "run"
      BY <2>2, EnqueueAppends DEF Spawn, Free, Running, TypeOK
    <3>2. pos \in 1 .. Len(vmthreads)
      BY <3>1, LenProperties DEF TypeOK
    <3>3. vmthreads'[pos] = vmthreads[pos]
      BY <3>1, <3>2, AppendProperties DEF TypeOK
    <3> QED BY <3>1, <3>3 DEF RunsLiving, Running, Stopped
  <2>3. CASE ResumeJoin(t) \/ \E u \in Thread : Join(t, u)
    BY <2>3, <1>3 DEF ResumeJoin, Join
  <2>4. CASE \E v \in RetVal : Return(t, v) \/ ErrUncaught(t, v)
    BY <2>4, <1>s DEF Return, ErrUncaught, Suspend
  <2> QED BY <1>5, <2>1, <2>2, <2>3, <2>4 DEF Elsewhere
<1>6. CASE Dispatch
  <2>1. ASSUME NEW t \in Thread, VisitReady(t) \/ WakeSleeper(t) PROVE RunsLiving'
    BY <2>1 DEF VisitReady, WakeSleeper, Visiting, RunsLiving, Running, Stopped, TypeOK
  <2>2. ASSUME NEW t \in Thread, Reap(t) \/ VisitBlocked(t) \/ VisitSleeping(t) \/ VisitIowait(t)
        PROVE  RunsLiving'
    BY <2>2, <1>s DEF Reap, VisitBlocked, VisitSleeping, VisitIowait, Visiting
  <2>3. CASE EndCycle \/ GiveUp
    BY <2>3, <1>s DEF EndCycle, GiveUp
  <2> QED BY <1>6, <2>1, <2>2, <2>3 DEF Dispatch, Visit
<1>7. CASE AtRest \/ UNCHANGED avars
  BY <1>7, <1>q DEF AtRest, avars, vars
<1> QED BY <1>4, <1>5, <1>6, <1>7 DEF ANext

(* A step that leaves the lock and the places of the threads alone.        *)
LEMMA LockQuiet ==
  ASSUME LockInv, UNCHANGED <<pc, acell, hasdata>>,
         \A t \in Thread : /\ state'[t] \in Stopped => state[t] \in Stopped \/ pc[t] = "out"
                           /\ \/ call'[t] = call[t]
                              \/ call'[t] = NoCall
                              \/ pc[t] = "out" /\ \E u \in Thread : call'[t] = JoinCall(u)
  PROVE  LockInv'
BY DEF LockInv, CallFits

LEMMA LockStep ==
  ASSUME TypeOK, RunsLiving, LockInv, [ANext]_avars
  PROVE  LockInv'
<1> USE DEF thrvars, chanvars, dispvars
<1>a. AChan \in Chan
  BY AChanAssumption
<1>n. "Tready" \notin Stopped /\ "Trecv" \notin Stopped /\ "Tsend" \notin Stopped /\ "Tsleep" \notin Stopped
  BY DEF Stopped
<1>w. ASSUME NEW q PROVE \A x \in Thread : WakeHead(state, q)[x] \in {state[x], "Tready"}
  BY DEF WakeHead, TypeOK
<1>1. ASSUME NEW t \in Thread, Begin(t) PROVE LockInv'
  <2>1. /\ pc[t] = "out" /\ call[t] = NoCall
        /\ \A x \in Thread : pc'[x] = IF x = t THEN "begun" ELSE pc[x]
        /\ pc' \in [Thread -> Place \ {"leaving"}]
        /\ \A x \in Thread : acell'[x] = IF x = t THEN TRUE ELSE acell[x]
        /\ UNCHANGED <<state, call, hasdata>>
    BY <1>1 DEF Begin, Goto, Free, LockInv, TypeOK, Place
  <2>2. state[t] \notin Stopped
    BY <1>1 DEF Begin, Free, RunsLiving
  <2> QED BY <2>1, <2>2 DEF LockInv, CallFits, Holders
<1>2. ASSUME NEW t \in Thread, Acquire(t) PROVE LockInv'
  <2>0. pc[t] = "begun" /\ UNCHANGED acell
    BY <1>2 DEF Acquire, ResumeSend, Send
  <2>1. PICK v \in Value : SendBody(t, AChan, v)
    <3>1. CASE ResumeSend(t)
      BY <3>1, <2>0, CallsDiffer DEF ResumeSend, LockInv, CallFits
    <3>2. CASE \E v \in Value : Send(t, AChan, v)
      BY <3>2 DEF Send
    <3> QED BY <1>2, <3>1, <3>2 DEF Acquire
  <2>2. CASE SendBlocks(t, AChan, v)
    <3>1. /\ \A x \in Thread : call'[x] = IF x = t THEN SendCall(AChan, v) ELSE call[x]
          /\ \A x \in Thread : state'[x] = IF x = t THEN "Tsend" ELSE state[x]
          /\ UNCHANGED hasdata
      BY <2>2 DEF SendBlocks, TypeOK
    <3>2. pc' = pc
      BY <1>2, <2>0, <3>1, CallsDiffer DEF Acquire, Goto, LockInv
    <3> QED BY <1>n, <2>0, <3>1, <3>2 DEF LockInv, CallFits
  <2>3. CASE SendPuts(t, AChan, v)
    <3>1. /\ ~hasdata[AChan] /\ hasdata'[AChan]
          /\ \A x \in Thread : call'[x] = IF x = t THEN NoCall ELSE call[x]
          /\ \A x \in Thread : state'[x] \in {state[x], "Tready"}
      BY <2>3, <1>a, <1>w DEF SendPuts, TypeOK
    <3>2. /\ \A x \in Thread : pc'[x] = IF x = t THEN "held" ELSE pc[x]
          /\ pc' \in [Thread -> Place \ {"leaving"}]
      BY <1>2, <3>1 DEF Acquire, Goto, LockInv, Place
    <3>3. \A x \in Thread : pc[x] \notin Holders
      BY <3>1 DEF LockInv
    <3>4. state[t] \notin Stopped
      BY <2>0 DEF LockInv
    <3> QED BY <1>n, <2>0, <3>1, <3>2, <3>3, <3>4 DEF LockInv, CallFits, Holders
  <2> QED BY <2>1, <2>2, <2>3 DEF SendBody
<1>3. ASSUME NEW t \in Thread, Enter(t) PROVE LockInv'
  <2>1. /\ pc[t] = "held"
        /\ \A x \in Thread : pc'[x] = IF x = t THEN "in" ELSE pc[x]
        /\ pc' \in [Thread -> Place \ {"leaving"}]
        /\ UNCHANGED <<state, call, hasdata, acell>> /\ call[t] = NoCall
    BY <1>3 DEF Enter, Goto, Free, LockInv, Place, vars
  <2> QED BY <2>1 DEF LockInv, CallFits, Holders
<1>4. ASSUME NEW t \in Thread, Leave(t) PROVE LockInv'
  <2>1. pc[t] = "in" /\ UNCHANGED acell /\ hasdata[AChan] /\ RecvBody(t, AChan, state)
    BY <1>4 DEF Leave, Recv, LockInv, Holders
  <2>2. /\ ~hasdata'[AChan]
        /\ \A x \in Thread : call'[x] = IF x = t THEN NoCall ELSE call[x]
        /\ \A x \in Thread : state'[x] \in {state[x], "Tready"}
    BY <2>1, <1>a, <1>w DEF RecvBody, RecvBlocks, RecvTakes, TypeOK
  <2>3. /\ \A x \in Thread : pc'[x] = IF x = t THEN "left" ELSE pc[x]
        /\ pc' \in [Thread -> Place \ {"leaving"}]
    BY <1>4, <2>2 DEF Leave, Goto, LockInv, Place
  <2>4. \A x \in Thread : pc'[x] \notin Holders
    BY <2>1, <2>3 DEF LockInv, Holders
  <2>5. state[t] \notin Stopped
    BY <2>1 DEF LockInv
  <2> QED BY <1>n, <2>1, <2>2, <2>3, <2>4, <2>5 DEF LockInv, CallFits
<1>5. ASSUME NEW t \in Thread, Clear(t) PROVE LockInv'
  <2>1. /\ pc[t] = "left" /\ call[t] = NoCall
        /\ \A x \in Thread : pc'[x] = IF x = t THEN "out" ELSE pc[x]
        /\ pc' \in [Thread -> Place \ {"leaving"}]
        /\ \A x \in Thread : acell'[x] = IF x = t THEN FALSE ELSE acell[x]
        /\ UNCHANGED <<state, call, hasdata>>
    BY <1>5 DEF Clear, Goto, Free, LockInv, TypeOK, Place
  <2> QED BY <2>1 DEF LockInv, CallFits, Holders
<1>6. ASSUME NEW t \in Thread, Elsewhere(t) PROVE LockInv'
  <2>0. UNCHANGED pc
    BY <1>6 DEF Elsewhere
  <2>1. CASE Preempt(t) \/ Sleep(t) \/ \E u \in Thread : Spawn(t, u)
    BY <2>0, <2>1, <1>n, LockQuiet DEF Preempt, Sleep, Spawn, TypeOK
  <2>2. ASSUME pc[t] = "out", NEW u \in Thread, JoinBody(t, u), UNCHANGED acell PROVE LockInv'
    <3>1. UNCHANGED hasdata
      BY <2>2 DEF JoinBody, JoinWaits, JoinReturns, JoinChan
    <3>2. \A x \in Thread : state'[x] = state[x] \/ state'[x] = "Trecv"
      BY <2>2 DEF JoinBody, JoinWaits, JoinReturns, JoinChan, TypeOK
    <3>3. \A x \in Thread : call'[x] = call[x] \/ (x = t /\ call'[x] \in {NoCall, JoinCall(u)})
      BY <2>2 DEF JoinBody, JoinWaits, JoinReturns, JoinChan, TypeOK
    <3> QED BY <2>0, <2>2, <3>1, <3>2, <3>3, <1>n, LockQuiet
  <2>3. CASE pc[t] = "out" /\ (ResumeJoin(t) \/ \E u \in Thread : Join(t, u))
    <3>1. CASE ResumeJoin(t)
      BY <2>2, <2>3, <3>1, CallParts DEF ResumeJoin, TypeOK
    <3>2. CASE \E u \in Thread : Join(t, u)
      BY <2>2, <2>3, <3>2 DEF Join
    <3> QED BY <2>3, <3>1, <3>2
  <2>4. CASE pc[t] = "out" /\ \E v \in RetVal : Return(t, v) \/ ErrUncaught(t, v)
    <3>1. UNCHANGED <<acell, hasdata>>
      BY <2>4 DEF Return, ErrUncaught
    <3>2. \A x \in Thread : /\ x # t => state'[x] = state[x]
                            /\ call'[x] \in {call[x], NoCall}
      BY <2>4 DEF Return, ErrUncaught, TypeOK
    <3> QED BY <2>0, <2>4, <3>1, <3>2, LockQuiet
  <2> QED BY <1>6, <2>1, <2>3, <2>4 DEF Elsewhere
<1>7. CASE Dispatch
  <2>1. UNCHANGED <<pc, acell, hasdata, call>>
    BY <1>7 DEF Dispatch, Visit, Reap, VisitBlocked, VisitReady, VisitSleeping, WakeSleeper,
                VisitIowait, EndCycle, GiveUp
  <2>2. \A x \in Thread : state'[x] \in {state[x], "Tready"}
    BY <1>7 DEF Dispatch, Visit, Reap, VisitBlocked, VisitReady, VisitSleeping, WakeSleeper,
                VisitIowait, EndCycle, GiveUp, WakeAll, TypeOK
  <2> QED BY <2>1, <2>2, <1>n, LockQuiet
<1>8. CASE AtRest \/ UNCHANGED avars
  BY <1>8, LockQuiet DEF AtRest, avars, vars
<1> QED BY <1>1, <1>2, <1>3, <1>4, <1>5, <1>6, <1>7, <1>8 DEF ANext, Section

LEMMA LockAlways ==
  ASSUME "acell" \in Uses
  PROVE  ASpec => []LockInv
<1>1. AInit => LockInv
  BY LockStart
<1>2. TypeOK /\ RunsLiving /\ LockInv /\ [ANext]_avars => LockInv'
  BY LockStep
<1>3. ASpec => [](TypeOK /\ RunInv)
  BY AtomicImplementsThreads, RunAlways
<1>4. AInit => RunsLiving
  BY DEF AInit, Init, RunsLiving, Running
<1>5. TypeOK /\ RunInv /\ RunsLiving /\ [ANext]_avars => RunsLiving'
  BY RunsLivingStep
<1> QED BY <1>1, <1>2, <1>3, <1>4, <1>5, PTL DEF ASpec

(* Two threads are never in atomic sections at once, wherever they are     *)
(* preempted, put to sleep or fail (atomic-invoke of arc.arc).             *)
THEOREM SectionsExclude ==
  ASSUME "acell" \in Uses
  PROVE  ASpec => []MutualExclusion
<1>1. LockInv => MutualExclusion
  BY DEF LockInv, MutualExclusion, Holding, Holders
<1> QED BY <1>1, LockAlways, PTL

(* The slot of __achan__ is full exactly while a thread is in its section, *)
(* and the atomic cells tell who is in one or on the way to it             *)
(* (atomic-invoke, arc_atomic_cell).                                       *)
THEOREM LockIsKnown ==
  ASSUME "acell" \in Uses
  PROVE  ASpec => []LockMatchesHolder
<1>1. LockInv => LockMatchesHolder
  BY DEF LockInv, LockMatchesHolder, Holding, Holders, Stopped
<1> QED BY <1>1, LockAlways, PTL

-----------------------------------------------------------------------------
(* Only threads that exist come into a section.                            *)
Born == \A t \in Thread : pc[t] # "out" => state[t] # "unborn"

LEMMA BornStep ==
  ASSUME Cooperative, "acell" \in Uses, TypeOK, CoopInv, LockInv, Born, [ANext]_avars
  PROVE  Born'
<1>1. [Next]_vars
  BY AtomicSteps
<1>2. ASSUME NEW x \in Thread, state[x] # "unborn" PROVE state'[x] # "unborn"
  <2>1. CASE \E t \in Thread : Operate(t) \/ Resume(t)
    BY <1>2, <2>1, RunStep
  <2>2. ASSUME NEW t \in Thread, Visit(t) PROVE state'[x] # "unborn"
    BY <1>2, <2>2 DEF Visit, Reap, VisitBlocked, VisitReady, VisitSleeping, WakeSleeper,
                      VisitIowait, WakeAll, thrvars, TypeOK
  <2>3. CASE EndCycle \/ GiveUp \/ UNCHANGED vars
    BY <1>2, <2>3 DEF EndCycle, GiveUp, WakeAll, thrvars, vars
  <2> QED BY <1>1, <2>1, <2>2, <2>3 DEF Next, Exit
<1>3. ASSUME NEW x \in Thread, pc[x] = "out", pc'[x] # "out" PROVE state'[x] # "unborn"
  <2>1. Begin(x)
    BY <1>3 DEF ANext, Section, Begin, Acquire, Enter, Leave, Clear, Elsewhere, Dispatch, AtRest,
                avars, Goto, LockInv
  <2> QED BY <2>1 DEF Begin, Free, CoopInv, Undisturbed
<1> QED BY <1>2, <1>3 DEF Born

(* Atomic sections whose programs send nothing else never deadlock: when   *)
(* the dispatcher gives up, nobody is in one or waits for it. A thread     *)
(* that waits for the lock waits for its holder, who is ready or asleep    *)
(* for a time only (atomic-invoke against arc_thread_dispatch).            *)
THEOREM SectionsEnd ==
  ASSUME Cooperative, "acell" \in Uses
  PROVE  ASpec => []SectionsNeverDeadlock
<1>1. ASpec => [](TypeOK /\ RunInv /\ CoopInv /\ GiveUpInv)
  BY AtomicImplementsThreads, DispatchAlways, PTL
<1>2. AInit => Born
  BY DEF AInit, Born
<1>3. TypeOK /\ CoopInv /\ LockInv /\ Born /\ [ANext]_avars => Born'
  BY BornStep
<1>4. TypeOK /\ RunInv /\ CoopInv /\ GiveUpInv /\ LockInv /\ Born => SectionsNeverDeadlock
  <2> SUFFICES ASSUME TypeOK, RunInv, CoopInv, GiveUpInv, LockInv, Born, phase = "returned"
               PROVE  \A t \in Thread : pc[t] = "out"
    BY DEF SectionsNeverDeadlock
  <2>1. GivesUpOnlyOnDeadlock
    BY GivingUpIsRight
  <2>2. ASSUME NEW t \in Thread, pc[t] # "out"
        PROVE  pc[t] = "begun" /\ hasdata[AChan]
    <3>1. state[t] \notin Stopped /\ state[t] # "unborn" /\ CallFits(t)
      BY <2>2 DEF LockInv, Born
    <3>2. t \in ToSet(vmthreads)
      BY <3>1 DEF GiveUpInv, RunInv, RunQueueSound
    <3>3. state[t] \in Blocked
      BY <2>1, <3>2 DEF GivesUpOnlyOnDeadlock
    <3>4. call[t] # NoCall
      BY <3>3, CallsDiffer DEF GiveUpInv, Blocked
    <3>5. PICK v \in Value : pc[t] = "begun" /\ call[t] = SendCall(AChan, v)
      BY <2>2, <3>1, <3>4 DEF CallFits
    <3> QED BY <2>1, <3>2, <3>5, AChanAssumption DEF GivesUpOnlyOnDeadlock
  <2>3. hasdata[AChan] => \E u \in Thread : pc[u] \in Holders
    BY DEF LockInv
  <2> QED BY <2>2, <2>3 DEF Holders
<1> QED BY <1>1, <1>2, <1>3, <1>4, LockAlways, PTL DEF ASpec
=============================================================================
