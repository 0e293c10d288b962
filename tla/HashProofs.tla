---------------------------- MODULE HashProofs ----------------------------
(***************************************************************************)
(* Theorems about HashTable and HashIteration: for any keys, any hash      *)
(* function and any number of slots, through any expansions.               *)
(***************************************************************************)
EXTENDS HashIteration, FunctionTheorems, SequencesExt, SequenceTheorems,
        FiniteSetTheorems, WellFoundedInduction, TLAPS

-----------------------------------------------------------------------------
(* Facts about numbers *)

(* A set of natural numbers has a least element. *)
LEMMA LeastNumber ==
  ASSUME NEW S \in SUBSET Nat, S # {}
  PROVE  \E m \in S : \A k \in S : m <= k
<1> DEFINE Segments == {S \cap (0 .. m) : m \in S}
<1>1. IsWellFoundedOn(StrictSubsetOrdering(Nat), FiniteSubsetsOf(Nat))
  BY FS_StrictSubsetOrderingWellFounded
<1>2. Segments \subseteq FiniteSubsetsOf(Nat)
  <2>1. \A m \in S : IsFiniteSet(S \cap (0 .. m))
    <3> TAKE m \in S
    <3>1. IsFiniteSet(0 .. m)
      BY FS_Interval
    <3> QED BY <3>1, FS_Subset
  <2> QED BY <2>1 DEF FiniteSubsetsOf
<1>3. Segments # {}
  OBVIOUS
<1> HIDE DEF Segments
<1>4. PICK x \in Segments : \A y \in Segments : ~ (<<y, x>> \in StrictSubsetOrdering(Nat))
  BY <1>1, <1>2, <1>3, WFMin
<1> USE DEF Segments
<1>5. PICK m \in S : x = S \cap (0 .. m)
  BY <1>4
<1>6. \A k \in S : m <= k
  <2> SUFFICES ASSUME NEW k \in S, k < m PROVE FALSE
    OBVIOUS
  <2> DEFINE y == S \cap (0 .. k)
  <2>1. y \in Segments /\ y \subseteq x /\ m \in x /\ m \notin y /\ x \subseteq Nat
    BY <1>5
  <2>2. <<y, x>> \in StrictSubsetOrdering(Nat)
    BY <2>1 DEF StrictSubsetOrdering
  <2> QED BY <1>4, <2>1, <2>2
<1> QED BY <1>6

(* What holds at 0, and at i if it holds at i - 1, holds up to n.          *)
LEMMA UpTo ==
  ASSUME NEW n \in Nat, NEW P \in SUBSET (0 .. n), 0 \in P,
         \A i \in 1 .. n : i - 1 \in P => i \in P
  PROVE  P = 0 .. n
<1> DEFINE Left == (0 .. n) \ P
<1> SUFFICES ASSUME Left # {} PROVE FALSE
  OBVIOUS
<1>1. Left \in SUBSET Nat
  OBVIOUS
<1>2. \A i \in 0 .. n : i \in P <=> i \notin Left
  OBVIOUS
<1>3. \A i \in Left : i \in 0 .. n
  OBVIOUS
<1> HIDE DEF Left
<1>4. PICK m \in Left : \A k \in Left : m <= k
  BY <1>1, LeastNumber
<1>5. m # 0
  BY <1>2, <1>3
<1>6. m - 1 \in 0 .. n /\ m \in 1 .. n /\ ~(m <= m - 1)
  BY <1>3, <1>5
<1> QED BY <1>2, <1>4, <1>6

(* Functions by primitive recursion: F[i] makes the value at i from the    *)
(* one before.  (A set of values is needed for the existence, nothing      *)
(* else; the counterexample with the smallest length has none.)            *)
ByRecursion(g, F, a, n) == g[0] = a /\ \A i \in 1 .. n : g[i] = F[i][g[i - 1]]

LEMMA RecursionExists ==
  ASSUME NEW V, NEW a \in V, NEW n \in Nat, NEW F, \A i \in 1 .. n : F[i] \in [V -> V]
  PROVE  \E g \in [0 .. n -> V] : ByRecursion(g, F, a, n)
<1> DEFINE Failing == {m \in 0 .. n : ~ \E g \in [0 .. m -> V] : ByRecursion(g, F, a, m)}
<1>1. Failing = {}
  <2> SUFFICES ASSUME Failing # {} PROVE FALSE
    OBVIOUS
  <2>1. Failing \in SUBSET Nat
    OBVIOUS
  <2>2. \A m \in Failing : m \in 0 .. n /\ ~ \E g \in [0 .. m -> V] : ByRecursion(g, F, a, m)
    OBVIOUS
  <2>3. \A m \in 0 .. n : m \notin Failing => \E g \in [0 .. m -> V] : ByRecursion(g, F, a, m)
    OBVIOUS
  <2> HIDE DEF Failing
  <2>4. PICK m \in Failing : \A k \in Failing : m <= k
    BY <2>1, LeastNumber
  <2>5. m # 0
    <3> DEFINE g == [i \in 0 .. 0 |-> a]
    <3>1. g \in [0 .. 0 -> V] /\ g[0] = a
      OBVIOUS
    <3>2. ByRecursion(g, F, a, 0)
      BY <3>1 DEF ByRecursion
    <3> QED BY <2>2, <3>1, <3>2
  <2> DEFINE l == m - 1
  <2>6. l \in 0 .. n /\ l < m /\ m \in 1 .. n /\ l + 1 = m
    BY <2>2, <2>4, <2>5
  <2> HIDE DEF l
  <2>7. l \notin Failing
    BY <2>4, <2>6
  <2>8. PICK g \in [0 .. l -> V] : ByRecursion(g, F, a, l)
    BY <2>3, <2>6, <2>7
  <2> DEFINE h == [i \in 0 .. m |-> IF i = m THEN F[m][g[l]] ELSE g[i]]
  <2>9. F[m][g[l]] \in V
    BY <2>6, <2>8
  <2>10. h \in [0 .. m -> V]
    BY <2>6, <2>9
  <2>11. ByRecursion(h, F, a, m)
    <3>1. h[0] = a
      BY <2>6, <2>8 DEF ByRecursion
    <3>2. ASSUME NEW i \in 1 .. m PROVE h[i] = F[i][h[i - 1]]
      <4>1. CASE i = m
        <5>1. h[i] = F[m][g[l]] /\ h[i - 1] = g[l]
          BY <4>1, <2>6
        <5> QED BY <5>1, <4>1
      <4>2. CASE i # m
        <5>1. i \in 1 .. l /\ h[i] = g[i] /\ h[i - 1] = g[i - 1]
          BY <4>2, <2>6
        <5>2. g[i] = F[i][g[i - 1]]
          BY <5>1, <2>8 DEF ByRecursion
        <5> QED BY <5>1, <5>2
      <4> QED BY <4>1, <4>2
    <3> QED BY <3>1, <3>2 DEF ByRecursion
  <2> HIDE DEF h
  <2> QED BY <2>2, <2>4, <2>10, <2>11
<1>2. n \in 0 .. n
  OBVIOUS
<1> QED BY <1>1, <1>2

-----------------------------------------------------------------------------
SameSize == bits' = bits

-----------------------------------------------------------------------------
LEMMA LeastExists ==
  ASSUME NEW S \in SUBSET Nat, S # {}
  PROVE  Min(S) \in S /\ \A m \in S : Min(S) <= m
<1>1. PICK m \in S : \A k \in S : m <= k
  BY LeastNumber
<1> QED BY <1>1 DEF Min

(***************************************************************************)
(* Probing: the i-th slot for hash value h is h + i(i+1)/2.  The numbers   *)
(* i(i+1)/2 for i < S meet every residue when S is a power of two: if they *)
(* do for S, a residue of 2S is met by i or by 2S - 1 - i.                 *)
(***************************************************************************)
Hits(S) == \A x \in Int : \E i \in 0 .. S - 1, q \in Int : i * (i + 1) = 2 * (x + q * S)

LEMMA HitsOne == Hits(1)
<1> SUFFICES ASSUME NEW x \in Int
             PROVE  \E i \in 0 .. 0, q \in Int : i * (i + 1) = 2 * (x + q * 1)
  BY DEF Hits
<1>1. 0 * (0 + 1) = 2 * (x + (0 - x) * 1)
  OBVIOUS
<1> QED BY <1>1

LEMMA Mirror ==
  ASSUME NEW S \in Int, NEW i \in Int, NEW x \in Int, NEW r \in Int,
         i * (i + 1) = 2 * (x + (2 * r + 1) * S)
  PROVE  (2 * S - 1 - i) * (2 * S - 1 - i + 1) = 2 * (x + (S - i + r) * (2 * S))
BY SMT

LEMMA HitsTwice ==
  ASSUME NEW S \in Nat, Hits(S)
  PROVE  Hits(2 * S)
<1> SUFFICES ASSUME NEW x \in Int
             PROVE  \E i \in 0 .. 2 * S - 1, q \in Int : i * (i + 1) = 2 * (x + q * (2 * S))
  BY DEF Hits
<1>1. PICK i \in 0 .. S - 1, q \in Int : i * (i + 1) = 2 * (x + q * S)
  BY DEF Hits
<1>2. PICK r \in Int : q = 2 * r \/ q = 2 * r + 1
  <2>1. q \div 2 \in Int /\ (q = 2 * (q \div 2) \/ q = 2 * (q \div 2) + 1)
    OBVIOUS
  <2> QED BY <2>1
<1>3. CASE q = 2 * r
  <2>1. i * (i + 1) = 2 * (x + r * (2 * S))
    BY <1>1, <1>3, SMT
  <2>2. i \in 0 .. 2 * S - 1
    BY <1>1, SMT
  <2> QED BY <2>1, <2>2
<1>4. CASE q = 2 * r + 1
  <2>1. (2 * S - 1 - i) * (2 * S - 1 - i + 1) = 2 * (x + (S - i + r) * (2 * S))
    BY <1>1, <1>4, Mirror
  <2>2. 2 * S - 1 - i \in 0 .. 2 * S - 1 /\ S - i + r \in Int
    BY <1>1, SMT
  <2> QED BY <2>1, <2>2
<1> QED BY <1>2, <1>3, <1>4

LEMMA ModIs ==
  ASSUME NEW S \in Nat \ {0}, NEW p \in 0 .. S - 1, NEW q \in Int
  PROVE  (p + q * S) % S = p
BY SMT

LEMMA HalfIs ==
  ASSUME NEW n \in Int, NEW m \in Int, m = 2 * n PROVE m \div 2 = n
BY SMT

LEMMA Reach ==
  ASSUME NEW S \in Nat \ {0}, Hits(S), NEW h \in Nat, NEW p \in 0 .. S - 1
  PROVE  \E i \in 0 .. S - 1 : (h + (i * (i + 1)) \div 2) % S = p
<1>1. PICK i \in 0 .. S - 1, q \in Int : i * (i + 1) = 2 * ((p - h) + q * S)
  <2>1. p - h \in Int
    OBVIOUS
  <2> QED BY <2>1 DEF Hits
<1>2. (i * (i + 1)) \div 2 = (p - h) + q * S
  BY <1>1, HalfIs
<1>3. h + (i * (i + 1)) \div 2 = p + q * S
  BY <1>2
<1> QED BY <1>3, ModIs

(* HASHSIZE doubles with every bit. *)
LEMMA SizesDouble ==
  /\ \A b \in 0 .. MaxBits : Size(b) \in Nat \ {0}
  /\ \A b \in 1 .. MaxBits : Size(b) = 2 * Size(b - 1)
  /\ Size(0) = 1
<1> DEFINE V == Nat \ {0}
           F == [b \in 1 .. MaxBits |-> [n \in V |-> 2 * n]]
           Def(g) == g = [b \in 0 .. MaxBits |-> IF b = 0 THEN 1 ELSE 2 * g[b - 1]]
<1>0. MaxBits \in Nat
  BY HashAssumption
<1>1. PICK g \in [0 .. MaxBits -> V] : ByRecursion(g, F, 1, MaxBits)
  <2>1. 1 \in V
    OBVIOUS
  <2>2. \A b \in 1 .. MaxBits : F[b] \in [V -> V]
    OBVIOUS
  <2> HIDE DEF V, F
  <2> QED BY <1>0, <2>1, <2>2, RecursionExists
<1>2. Def(g)
  <2>1. g[0] = 1
    BY <1>1 DEF ByRecursion
  <2>2. ASSUME NEW b \in 0 .. MaxBits, b # 0 PROVE g[b] = 2 * g[b - 1]
    <3>1. b \in 1 .. MaxBits /\ b - 1 \in 0 .. MaxBits
      BY <1>0, <2>2
    <3>2. g[b] = F[b][g[b - 1]]
      BY <1>1, <3>1 DEF ByRecursion
    <3> QED BY <1>1, <3>1, <3>2
  <2> QED BY <1>1, <2>1, <2>2
<1>3. Def(Doubled)
  <2>1. Doubled = CHOOSE f : Def(f)
    BY DEF Doubled
  <2> HIDE DEF Def
  <2> QED BY <1>2, <2>1
<1>4. Doubled[0] = 1 /\ \A b \in 1 .. MaxBits : Doubled[b] = 2 * Doubled[b - 1]
  BY <1>0, <1>3
<1> DEFINE P == {b \in 0 .. MaxBits : Doubled[b] \in V}
<1>5. P = 0 .. MaxBits
  <2>1. 0 \in P
    BY <1>0, <1>4
  <2>2. \A b \in 1 .. MaxBits : b - 1 \in P => b \in P
    BY <1>0, <1>4
  <2>3. P \in SUBSET (0 .. MaxBits)
    OBVIOUS
  <2> HIDE DEF P
  <2> QED BY <1>0, <2>1, <2>2, <2>3, UpTo
<1>6. \A b \in 0 .. MaxBits : Doubled[b] \in V
  BY <1>5
<1> QED BY <1>4, <1>6 DEF Size

LEMMA ProbesVisitAll == \A b \in 0 .. MaxBits : Hits(Size(b))
<1> DEFINE P == {b \in 0 .. MaxBits : Hits(Size(b))}
<1>0. MaxBits \in Nat
  BY HashAssumption
<1>1. 0 \in P
  BY <1>0, SizesDouble, HitsOne
<1>2. \A b \in 1 .. MaxBits : b - 1 \in P => b \in P
  <2> TAKE b \in 1 .. MaxBits
  <2> HAVE b - 1 \in P
  <2>1. b - 1 \in 0 .. MaxBits /\ b \in 0 .. MaxBits
    BY <1>0
  <2>2. Size(b) = 2 * Size(b - 1) /\ Size(b - 1) \in Nat /\ Hits(Size(b - 1))
    BY <2>1, SizesDouble
  <2> QED BY <2>1, <2>2, HitsTwice
<1>3. P \in SUBSET (0 .. MaxBits)
  OBVIOUS
<1>4. P = 0 .. MaxBits
  <2> HIDE DEF P
  <2> QED BY <1>0, <1>1, <1>2, <1>3, UpTo
<1> QED BY <1>4

(* The limit leaves a slot free, and grows with every expansion. *)
LEMMA LimitLeavesRoom ==
  ASSUME NEW b \in 0 .. MaxBits
  PROVE  /\ Limit(b) \in Nat /\ Limit(b) < Size(b)
         /\ b + 1 \in 0 .. MaxBits => Limit(b) + 1 <= Limit(b + 1)
<1>1. PICK s \in Nat \ {0} : s = Size(b)
  BY SizesDouble
<1>2. (s * 70) \div 100 \in Nat /\ (s * 70) \div 100 < s
      /\ ((s * 70) \div 100) + 1 <= ((2 * s) * 70) \div 100
  BY SMT
<1>3. b + 1 \in 0 .. MaxBits => Size(b + 1) = 2 * s
  <2> SUFFICES ASSUME b + 1 \in 0 .. MaxBits PROVE Size(b + 1) = 2 * s
    OBVIOUS
  <2>1. b + 1 \in 1 .. MaxBits /\ (b + 1) - 1 = b
    BY HashAssumption
  <2> QED BY <2>1, <1>1, SizesDouble
<1> QED BY <1>1, <1>2, <1>3 DEF Limit

-----------------------------------------------------------------------------
(***************************************************************************)
(* A table t of 2^b slots for the hash function H: the slots in use, what  *)
(* they bind, and when the search for each key ends at its bucket.         *)
(***************************************************************************)
Slots(b)    == 0 .. Size(b) - 1
EntryOf(b)  == [key : Key, val : Value, index : Slots(b)]
Used(t, b)  == {p \in Slots(b) : ~Empty(t[p])}
Pairs(t, b) == {<<t[p].key, t[p].val>> : p \in Used(t, b)}

PassedOver(e, k) == e # Unbound /\ (~Empty(e) => e.key # k)

Reached(t, b, H, p) ==
  \E n \in Slots(b) : /\ At(H[t[p].key], n, b) = p
                      /\ \A m \in Slots(b) : m < n => PassedOver(t[At(H[t[p].key], m, b)], t[p].key)

SoundTable(t, b, H) ==
  /\ H \in [Key -> HashVal]
  /\ t \in [Slots(b) -> EntryOf(b) \cup {Unbound, Undef}]
  /\ \A p \in Used(t, b) : Reached(t, b, H, p) /\ t[p].index = p

LEMMA EveryProbeIsASlot ==
  ASSUME NEW b \in 0 .. MaxBits, NEW h \in Nat, NEW i \in Nat
  PROVE  At(h, i, b) \in Slots(b)
<1>1. Size(b) \in Nat \ {0}
  BY SizesDouble
<1>2. i * (i + 1) \in Nat
  OBVIOUS
<1>3. (i * (i + 1)) \div 2 \in Nat
  BY <1>2
<1> QED BY <1>1, <1>3 DEF At, Slots

LEMMA EverySlotIsProbed ==
  ASSUME NEW b \in 0 .. MaxBits, NEW h \in Nat, NEW p \in Slots(b)
  PROVE  \E i \in Slots(b) : At(h, i, b) = p
BY SizesDouble, ProbesVisitAll, Reach DEF At, Slots

LEMMA EntriesAreNotEmpty ==
  ASSUME NEW b \in 0 .. MaxBits
  PROVE  \A e \in EntryOf(b) : ~Empty(e)
<1>1. Slots(b) \subseteq Nat
  BY SizesDouble DEF Slots
<1> QED BY <1>1, MarkAssumption DEF EntryOf, Empty

(* A bucket for a new key goes to the first empty slot of its probes.      *)
HasRoom(t, b, k) ==
  /\ \E p \in Slots(b) : Empty(t[p])
  /\ \A p \in Used(t, b) : t[p].key # k
PutIn(t, b, h, k, v) ==
  LET i == FreeAt(t, h, b) IN [t EXCEPT ![i] = Bucket(k, v, i)]
AlsoHolds(u, t, b, i, k, v) ==
  /\ i \in Slots(b) /\ i \notin Used(t, b)
  /\ Used(u, b) = Used(t, b) \cup {i}
  /\ Pairs(u, b) = Pairs(t, b) \cup {<<k, v>>}

LEMMA PutKeepsSound ==
  ASSUME NEW b \in 0 .. MaxBits, NEW t, NEW H, SoundTable(t, b, H),
         NEW k \in Key, NEW v \in Value, HasRoom(t, b, k)
  PROVE  /\ SoundTable(PutIn(t, b, H[k], k, v), b, H)
         /\ AlsoHolds(PutIn(t, b, H[k], k, v), t, b, FreeAt(t, H[k], b), k, v)
<1> DEFINE i == FreeAt(t, H[k], b)
           u == PutIn(t, b, H[k], k, v)
<1>a. /\ \E p \in Slots(b) : Empty(t[p])
      /\ \A p \in Used(t, b) : t[p].key # k
      /\ u = [t EXCEPT ![i] = Bucket(k, v, i)]
  BY DEF HasRoom, PutIn
<1> HIDE DEF u
<1> DEFINE E == {m \in Slots(b) : Empty(t[At(H[k], m, b)])}
           e == Bucket(k, v, i)
<1>0. H[k] \in Nat /\ \A h \in Key : H[h] \in Nat
  BY HashAssumption DEF SoundTable
<1>1. Slots(b) \subseteq Nat
  BY SizesDouble DEF Slots
<1>2. E \in SUBSET Nat /\ E # {}
  <2>1. PICK p \in Slots(b) : Empty(t[p])
    BY <1>a
  <2>2. PICK m \in Slots(b) : At(H[k], m, b) = p
    BY <1>0, EverySlotIsProbed
  <2> QED BY <1>1, <2>1, <2>2
<1>3. PICK f \in E : i = At(H[k], f, b) /\ \A m \in E : f <= m
  <2>1. i = At(H[k], Min(E), b)
    BY DEF FreeAt, Slots
  <2>2. Min(E) \in E /\ \A m \in E : Min(E) <= m
    <3> HIDE DEF E
    <3> QED BY <1>2, LeastExists
  <2> QED BY <2>1, <2>2
<1>4. i \in Slots(b) /\ Empty(t[i]) /\ f \in Slots(b)
  BY <1>0, <1>1, <1>3, EveryProbeIsASlot
<1>5. i \notin Used(t, b)
  BY <1>4 DEF Used
<1>6. e \in EntryOf(b) /\ ~Empty(e) /\ e.key = k /\ e.val = v /\ e.index = i
  <2>1. e \in EntryOf(b) /\ e.key = k /\ e.val = v /\ e.index = i
    BY <1>4 DEF Bucket, EntryOf
  <2> QED BY <2>1, EntriesAreNotEmpty
<1>7. u \in [Slots(b) -> EntryOf(b) \cup {Unbound, Undef}] /\ u[i] = e
      /\ \A p \in Slots(b) : p # i => u[p] = t[p]
  BY <1>a, <1>4, <1>6 DEF SoundTable
<1> HIDE DEF e, i
<1>8. Used(u, b) = Used(t, b) \cup {i}
  BY <1>4, <1>6, <1>7 DEF Used
<1>9. Pairs(u, b) = Pairs(t, b) \cup {<<k, v>>}
  <2>1. \A p \in Used(t, b) : u[p] = t[p]
    BY <1>5, <1>7 DEF Used
  <2>2. u[i].key = k /\ u[i].val = v
    BY <1>6, <1>7
  <2> DEFINE a(p) == <<t[p].key, t[p].val>>
             c(p) == <<u[p].key, u[p].val>>
             U == Used(t, b)
  <2>3. c(i) = <<k, v>> /\ \A p \in U : c(p) = a(p)
    BY <2>1, <2>2
  <2>4. Pairs(u, b) = {c(p) : p \in U \cup {i}} /\ Pairs(t, b) = {a(p) : p \in U}
    BY <1>8 DEF Pairs
  <2> HIDE DEF a, c, U
  <2> QED BY <2>3, <2>4
<1>10. ASSUME NEW p \in Used(u, b) PROVE Reached(u, b, H, p) /\ u[p].index = p
  <2>1. CASE p = i
    <3>1. \A m \in Slots(b) : m < f => PassedOver(u[At(H[k], m, b)], k)
      <4> TAKE m \in Slots(b)
      <4> HAVE m < f
      <4>1. m \in Nat /\ f \in Nat /\ m \notin E
        BY <1>1, <1>3, <1>4
      <4>2. ~Empty(t[At(H[k], m, b)]) /\ At(H[k], m, b) \in Slots(b)
        BY <1>0, <4>1, EveryProbeIsASlot
      <4>3. t[At(H[k], m, b)].key # k /\ At(H[k], m, b) # i
        BY <4>2, <1>a, <1>4 DEF Used
      <4>4. u[At(H[k], m, b)] = t[At(H[k], m, b)]
        BY <4>2, <4>3, <1>7
      <4> QED BY <4>2, <4>3, <4>4 DEF PassedOver, Empty
    <3>2. u[p].key = k /\ u[p].index = p
      BY <2>1, <1>6, <1>7
    <3> QED BY <2>1, <3>1, <3>2, <1>3, <1>4 DEF Reached
  <2>2. CASE p # i
    <3>1. p \in Used(t, b) /\ u[p] = t[p] /\ p \in Slots(b)
      BY <2>2, <1>7, <1>8 DEF Used
    <3>2. t[p] \in EntryOf(b) /\ t[p].key # k /\ t[p].index = p
      BY <3>1, <1>a DEF SoundTable, Used, Empty
    <3>3. PICK h \in Key : h = t[p].key
      BY <3>2 DEF EntryOf
    <3>4. PICK n \in Slots(b) : /\ At(H[h], n, b) = p
                                /\ \A m \in Slots(b) : m < n => PassedOver(t[At(H[h], m, b)], h)
      BY <3>1, <3>3 DEF SoundTable, Reached
    <3>5. \A m \in Slots(b) : m < n => PassedOver(u[At(H[h], m, b)], h)
      <4> TAKE m \in Slots(b)
      <4> HAVE m < n
      <4>1. PassedOver(t[At(H[h], m, b)], h) /\ At(H[h], m, b) \in Slots(b)
        BY <1>0, <1>1, <3>4, EveryProbeIsASlot
      <4>2. CASE At(H[h], m, b) = i
        <5>1. PassedOver(e, h)
          BY <1>6, <3>2, <3>3 DEF PassedOver, Empty
        <5> QED BY <4>2, <5>1, <1>7
      <4>3. CASE At(H[h], m, b) # i
        BY <4>1, <4>3, <1>7
      <4> QED BY <4>2, <4>3
    <3>6. u[p].key = h /\ u[p].index = p
      BY <3>1, <3>2, <3>3
    <3> QED BY <3>4, <3>5, <3>6 DEF Reached
  <2> QED BY <2>1, <2>2
<1>11. SoundTable(u, b, H)
  BY <1>7, <1>10 DEF SoundTable
<1>12. AlsoHolds(u, t, b, i, k, v)
  BY <1>4, <1>5, <1>8, <1>9 DEF AlsoHolds
<1> QED BY <1>11, <1>12 DEF u, i

(* A sound table is one whose buckets are reachable and know their slots.  *)
Sound == bits \in 0 .. MaxBits /\ SoundTable(slot, bits, hash)

LEMMA SoundFinds == Sound => BucketsAreReachable /\ BucketsKnowTheirSlot
<1> SUFFICES ASSUME Sound PROVE BucketsAreReachable /\ BucketsKnowTheirSlot
  OBVIOUS
<1>1. Indices = Slots(bits) /\ Buckets = Used(slot, bits)
  BY DEF Indices, Slots, Buckets, Used
<1>2. BucketsKnowTheirSlot
  BY <1>1 DEF Sound, SoundTable, BucketsKnowTheirSlot
<1>3. ASSUME NEW i \in Buckets PROVE Found(slot[i].key) /\ Place(slot[i].key) = i
  <2> DEFINE k == slot[i].key
  <2>1. ~Empty(slot[i]) /\ i \in Slots(bits)
    BY <1>1 DEF Used
  <2>2. PICK n \in Slots(bits) :
          /\ At(hash[k], n, bits) = i
          /\ \A m \in Slots(bits) : m < n => PassedOver(slot[At(hash[k], m, bits)], k)
    BY <1>1 DEF Sound, SoundTable, Reached
  <2> HIDE DEF k
  <2>3. n \in Stops(k)
    BY <1>1, <2>1, <2>2 DEF Stops, k
  <2>4. \A m \in Stops(k) : n <= m
    <3> SUFFICES ASSUME NEW m \in Stops(k), m < n PROVE FALSE
      BY <1>1, SizesDouble DEF Stops, Sound, Slots
    <3>1. m \in Slots(bits) /\ PassedOver(slot[At(hash[k], m, bits)], k)
      BY <1>1, <2>2 DEF Stops
    <3> QED BY <3>1 DEF Stops, PassedOver
  <2>5. Stops(k) \in SUBSET Nat
    BY <1>1, SizesDouble DEF Stops, Sound, Slots
  <2>6. Min(Stops(k)) = n
    BY <2>3, <2>4, <2>5, LeastExists
  <2> QED BY <2>1, <2>2, <2>3, <2>6 DEF Place, Found, k
<1> QED BY <1>2, <1>3 DEF BucketsAreReachable

-----------------------------------------------------------------------------
(***************************************************************************)
(* The rebuilding of the table by hashtable_expand: after j slots the new  *)
(* table is sound and holds the buckets of those slots.                    *)
(***************************************************************************)
Before(j)     == {i \in Buckets : i < j}
Carried(t, j, b) ==
  /\ SoundTable(t, b, hash)
  /\ Pairs(t, b) = {<<slot[i].key, slot[i].val>> : i \in Before(j)}
  /\ Cardinality(Used(t, b)) = Cardinality(Before(j))
Carry(t, j, b) == IF Empty(slot[j - 1]) THEN t ELSE Reinsert(t, slot[j - 1], b)

Expandable ==
  /\ Sound /\ bits + 1 \in 0 .. MaxBits
  /\ \A i, j \in Buckets : slot[i].key = slot[j].key => i = j
  /\ Cardinality(Buckets) < Size(bits)

LEMMA SlotsAreFinite ==
  ASSUME NEW b \in 0 .. MaxBits, NEW t
  PROVE  /\ IsFiniteSet(Slots(b)) /\ Cardinality(Slots(b)) = Size(b)
         /\ IsFiniteSet(Used(t, b)) /\ Cardinality(Used(t, b)) \in Nat
<1>1. Size(b) \in Nat \ {0}
  BY SizesDouble
<1>2. IsFiniteSet(Slots(b)) /\ Cardinality(Slots(b)) = Size(b)
  <2>1. PICK s \in Nat \ {0} : s = Size(b)
    BY <1>1
  <2>2. IsFiniteSet(0 .. s - 1) /\ Cardinality(0 .. s - 1) = s
    <3>1. s - 1 \in Int /\ ~(0 > s - 1) /\ s - 1 - 0 + 1 = s
      OBVIOUS
    <3> QED BY <3>1, FS_Interval
  <2> QED BY <2>1, <2>2 DEF Slots
<1>3. IsFiniteSet(Used(t, b))
  BY <1>2, FS_Subset DEF Used
<1> QED BY <1>2, <1>3, FS_CardinalityType

(* A table with fewer buckets than slots has an empty slot. *)
LEMMA RoomIsLeft ==
  ASSUME NEW b \in 0 .. MaxBits, NEW t, Cardinality(Used(t, b)) < Size(b)
  PROVE  \E p \in Slots(b) : Empty(t[p])
<1> SUFFICES ASSUME \A p \in Slots(b) : ~Empty(t[p]) PROVE FALSE
  OBVIOUS
<1>1. Used(t, b) = Slots(b)
  BY DEF Used
<1>2. Size(b) \in Nat
  BY SizesDouble
<1> QED BY <1>1, <1>2, SlotsAreFinite

LEMMA CarryKeeps ==
  ASSUME Expandable, NEW j \in 1 .. Size(bits), NEW t, Carried(t, j - 1, bits + 1)
  PROVE  Carried(Carry(t, j, bits + 1), j, bits + 1)
<1> DEFINE b == bits + 1
           l == j - 1
           e == slot[l]
<1>1. b \in 0 .. MaxBits /\ bits \in 0 .. MaxBits /\ Size(bits) \in Nat /\ Size(b) \in Nat
      /\ Size(bits) <= Size(b) /\ MaxBits \in Nat
  <2>1. b \in 1 .. MaxBits /\ b - 1 = bits
    BY HashAssumption DEF Expandable, Sound
  <2>2. Size(b) = 2 * Size(b - 1) /\ Size(b) \in Nat /\ Size(bits) \in Nat
    BY <2>1, SizesDouble DEF Expandable, Sound
  <2> QED BY <2>1, <2>2, HashAssumption DEF Expandable, Sound
<1>2. Indices = Slots(bits) /\ Buckets = Used(slot, bits) /\ l \in Indices /\ j \in Nat
      /\ Indices \subseteq Nat
  BY <1>1 DEF Indices, Slots, Buckets, Used
<1>3. IsFiniteSet(Buckets) /\ Cardinality(Buckets) \in Nat
  BY <1>1, <1>2, SlotsAreFinite
<1>4. Buckets \subseteq Nat
  BY <1>2 DEF Buckets
<1>5. CASE Empty(e)
  <2>1. Before(j) = Before(l)
    <3>1. l \notin Buckets
      BY <1>5 DEF Buckets
    <3>2. \A i \in Nat : i < j <=> (i < l \/ i = l)
      BY <1>2
    <3> QED BY <3>1, <3>2, <1>4 DEF Before
  <2>2. Carry(t, j, b) = t
    BY <1>5 DEF Carry
  <2> QED BY <2>1, <2>2 DEF Carried
<1>6. CASE ~Empty(e)
  <2>1. l \in Buckets /\ Before(j) = Before(l) \cup {l} /\ l \notin Before(l)
    <3>1. l \in Buckets
      BY <1>2, <1>6 DEF Buckets
    <3>2. \A i \in Nat : i < j <=> (i < l \/ i = l)
      BY <1>2
    <3>3. ~(l < l)
      BY <1>2
    <3> QED BY <3>1, <3>2, <3>3, <1>4 DEF Before
  <2>2. e \in EntryOf(bits)
    BY <1>2, <1>6 DEF Expandable, Sound, SoundTable, Empty
  <2>3. PICK k \in Key, v \in Value : k = e.key /\ v = e.val
    BY <2>2 DEF EntryOf
  <2> DEFINE i == FreeAt(t, hash[k], b)
             u == PutIn(t, b, hash[k], k, v)
  <2>4. Carry(t, j, b) = u
    <3>1. [e EXCEPT !.index = i] = Bucket(k, v, i)
      BY <2>2, <2>3 DEF EntryOf, Bucket
    <3> QED BY <3>1, <2>3, <1>6 DEF Carry, Reinsert, PutIn
  <2>5. IsFiniteSet(Before(l)) /\ Cardinality(Before(l)) <= Cardinality(Buckets)
        /\ Cardinality(Before(l)) \in Nat
    <3>1. Before(l) \subseteq Buckets
      BY DEF Before
    <3> QED BY <3>1, <1>3, FS_Subset, FS_CardinalityType
  <2>6. \E p \in Slots(b) : Empty(t[p])
    <3>1. Cardinality(Used(t, b)) = Cardinality(Before(l))
      BY DEF Carried
    <3>2. Cardinality(Used(t, b)) < Size(b)
      BY <3>1, <2>5, <1>1, <1>3 DEF Expandable
    <3> QED BY <3>2, <1>1, RoomIsLeft
  <2>7. \A p \in Used(t, b) : t[p].key # k
    <3> SUFFICES ASSUME NEW p \in Used(t, b), t[p].key = k PROVE FALSE
      OBVIOUS
    <3>1. <<t[p].key, t[p].val>> \in {<<slot[q].key, slot[q].val>> : q \in Before(l)}
      BY DEF Carried, Pairs
    <3>2. PICK q \in Before(l) : t[p].key = slot[q].key
      BY <3>1
    <3>3. q \in Buckets /\ q = l
      BY <3>2, <2>1, <2>3 DEF Before, Expandable
    <3> QED BY <3>3, <2>1
  <2>8. SoundTable(u, b, hash) /\ AlsoHolds(u, t, b, i, k, v)
    <3>1. SoundTable(t, b, hash)
      BY DEF Carried
    <3>2. HasRoom(t, b, k)
      BY <2>6, <2>7 DEF HasRoom
    <3> HIDE DEF b
    <3> QED BY <3>1, <3>2, <1>1, PutKeepsSound
  <2> HIDE DEF u, i
  <2>9. Cardinality(Used(u, b)) = Cardinality(Before(j))
    <3>1. Cardinality(Used(u, b)) = Cardinality(Used(t, b)) + 1
      BY <2>8, <1>1, SlotsAreFinite, FS_AddElement DEF AlsoHolds
    <3>2. Cardinality(Before(j)) = Cardinality(Before(l)) + 1
      BY <2>1, <2>5, FS_AddElement
    <3> QED BY <3>1, <3>2 DEF Carried
  <2>10. Pairs(u, b) = {<<slot[q].key, slot[q].val>> : q \in Before(j)}
    <3>1. Pairs(t, b) = {<<slot[q].key, slot[q].val>> : q \in Before(l)}
      BY DEF Carried
    <3> DEFINE c(q) == <<slot[q].key, slot[q].val>>
    <3>2. c(l) = <<k, v>>
      BY <2>3
    <3> HIDE DEF c
    <3>3. Pairs(t, b) = {c(q) : q \in Before(l)}
      BY <3>1 DEF c
    <3>4. Pairs(u, b) = {c(q) : q \in Before(j)}
      BY <3>2, <3>3, <2>1, <2>8 DEF AlsoHolds
    <3> QED BY <3>4 DEF c
  <2> QED BY <2>4, <2>8, <2>9, <2>10 DEF Carried
<1> QED BY <1>5, <1>6

LEMMA CarryStarts ==
  ASSUME Expandable
  PROVE  Carried([i \in Slots(bits + 1) |-> Unbound], 0, bits + 1)
<1> DEFINE b == bits + 1
           t == [i \in Slots(b) |-> Unbound]
<1>1. Used(t, b) = {}
  BY DEF Used, Empty
<1>2. Before(0) = {}
  <2>1. Buckets \subseteq Nat
    BY SizesDouble DEF Buckets, Indices, Expandable, Sound
  <2>2. \A i \in Nat : ~(i < 0)
    OBVIOUS
  <2> QED BY ONLY <2>1, <2>2 DEF Before
<1>3. SoundTable(t, b, hash)
  <2>1. t \in [Slots(b) -> EntryOf(b) \cup {Unbound, Undef}]
    OBVIOUS
  <2>2. hash \in [Key -> HashVal]
    BY DEF Expandable, Sound, SoundTable
  <2> HIDE DEF t, b
  <2> QED BY <1>1, <2>1, <2>2 DEF SoundTable
<1> HIDE DEF t
<1>4. Pairs(t, b) = {} /\ {<<slot[i].key, slot[i].val>> : i \in Before(0)} = {}
  BY <1>1, <1>2 DEF Pairs
<1>5. Carried(t, 0, b)
  BY <1>1, <1>2, <1>3, <1>4 DEF Carried
<1> QED BY <1>5 DEF t

LEMMA ExpandedIsSound ==
  ASSUME Expandable
  PROVE  /\ SoundTable(Expanded(bits + 1), bits + 1, hash)
         /\ Pairs(Expanded(bits + 1), bits + 1) = {<<slot[i].key, slot[i].val>> : i \in Buckets}
         /\ Cardinality(Used(Expanded(bits + 1), bits + 1)) = Cardinality(Buckets)
<1> DEFINE b == bits + 1
           n == Size(bits)
           V == [Slots(b) -> EntryOf(b) \cup {Unbound, Undef}]
           a == [i \in Slots(b) |-> Unbound]
           F == [j \in 1 .. n |-> [t \in V |-> IF Carried(t, j - 1, b) THEN Carry(t, j, b) ELSE t]]
           Def(g) == g = [j \in 0 .. n |-> IF j = 0 THEN a ELSE Carry(g[j - 1], j, b)]
<1>0. n \in Nat /\ b \in 0 .. MaxBits
  BY SizesDouble DEF Expandable, Sound
<1>1. Carried(a, 0, b)
  BY CarryStarts
<1>2. \A t, j : Carried(t, j, b) => t \in V
  BY DEF Carried, SoundTable
<1>3. \A j \in 1 .. n : \A t : Carried(t, j - 1, b) => Carried(Carry(t, j, b), j, b)
  BY CarryKeeps
<1>4. ASSUME NEW j \in 1 .. n
      PROVE  F[j] \in [V -> V] /\ \A t \in V : Carried(t, j - 1, b) => F[j][t] = Carry(t, j, b)
  <2> DEFINE G == [t \in V |-> IF Carried(t, j - 1, b) THEN Carry(t, j, b) ELSE t]
  <2>1. F[j] = G
    OBVIOUS
  <2>2. ASSUME NEW t \in V PROVE (IF Carried(t, j - 1, b) THEN Carry(t, j, b) ELSE t) \in V
    <3>1. CASE Carried(t, j - 1, b)
      <4>1. Carried(Carry(t, j, b), j, b)
        BY <1>3, <3>1
      <4>2. Carry(t, j, b) \in V
        <5> HIDE DEF V
        <5> QED BY <1>2, <4>1
      <4> QED BY <3>1, <4>2
    <3>2. CASE ~Carried(t, j - 1, b)
      BY <3>2
    <3> QED BY <3>1, <3>2
  <2>3. G \in [V -> V]
    <3> HIDE DEF V
    <3> QED BY <2>2
  <2>4. \A t \in V : Carried(t, j - 1, b) => G[t] = Carry(t, j, b)
    <3> HIDE DEF V, b
    <3> QED OBVIOUS
  <2> HIDE DEF G, F
  <2> QED BY <2>1, <2>3, <2>4
<1>5. \A j \in 1 .. n, t \in V : Carried(t, j - 1, b) => F[j][t] = Carry(t, j, b)
  <2> HIDE DEF V, F
  <2> QED BY <1>4
<1>6. a \in V
  BY <1>1, <1>2
<1> HIDE DEF V, F, a
<1>7. PICK g \in [0 .. n -> V] : ByRecursion(g, F, a, n)
  <2> HIDE DEF n
  <2> QED BY <1>0, <1>4, <1>6, RecursionExists
<1>8. g[0] = a /\ \A j \in 1 .. n : g[j] = F[j][g[j - 1]]
  BY <1>7 DEF ByRecursion
<1>9. \A j \in 0 .. n : Carried(g[j], j, b)
  <2> DEFINE P == {j \in 0 .. n : Carried(g[j], j, b)}
  <2>1. 0 \in P
    BY <1>0, <1>1, <1>8
  <2>2. \A j \in 1 .. n : j - 1 \in P => j \in P
    <3> TAKE j \in 1 .. n
    <3> HAVE j - 1 \in P
    <3>1. j \in 0 .. n /\ g[j - 1] \in V /\ Carried(g[j - 1], j - 1, b)
      BY <1>2
    <3>2. g[j] = Carry(g[j - 1], j, b)
      BY <3>1, <1>5, <1>8
    <3> QED BY <3>1, <3>2, <1>3
  <2>3. P \in SUBSET (0 .. n)
    OBVIOUS
  <2>4. P = 0 .. n
    <3> HIDE DEF P, n
    <3> QED BY <1>0, <2>1, <2>2, <2>3, UpTo
  <2> QED BY <2>4
<1>10. Def(g)
  <2>1. ASSUME NEW j \in 0 .. n, j # 0 PROVE g[j] = Carry(g[j - 1], j, b)
    <3>1. j \in 1 .. n /\ j - 1 \in 0 .. n
      BY <1>0, <2>1
    <3>2. g[j - 1] \in V /\ Carried(g[j - 1], j - 1, b)
      BY <3>1, <1>9, <1>2
    <3> QED BY <3>1, <3>2, <1>5, <1>8
  <2> QED BY <1>7, <1>8, <2>1
<1>11. Def(Rebuilt(b))
  <2>1. Rebuilt(b) = CHOOSE f : Def(f)
    BY DEF Rebuilt, Carry, Slots, a
  <2> HIDE DEF Def
  <2> QED BY <1>10, <2>1
<1>12. \A j \in 0 .. n : Carried(Rebuilt(b)[j], j, b)
  <2> DEFINE r == Rebuilt(b)
             P == {j \in 0 .. n : Carried(r[j], j, b)}
  <2>1. r[0] = a /\ \A j \in 1 .. n : r[j] = Carry(r[j - 1], j, b)
    BY <1>0, <1>11
  <2> HIDE DEF r
  <2>2. 0 \in P
    BY <1>0, <1>1, <2>1
  <2>3. \A j \in 1 .. n : j - 1 \in P => j \in P
    BY <1>0, <1>3, <2>1
  <2>4. P \in SUBSET (0 .. n)
    OBVIOUS
  <2>5. P = 0 .. n
    <3> HIDE DEF P, n
    <3> QED BY <1>0, <2>2, <2>3, <2>4, UpTo
  <2> QED BY <2>5 DEF r
<1>13. Before(n) = Buckets
  BY <1>0 DEF Before, Buckets, Indices
<1>14. Carried(Expanded(b), n, b)
  <2>1. n \in 0 .. n
    BY <1>0
  <2> QED BY <2>1, <1>12 DEF Expanded
<1> QED BY <1>13, <1>14 DEF Carried

-----------------------------------------------------------------------------
(***************************************************************************)
(* The inductive invariant: a bucket is where the search for its key ends, *)
(* it knows its slot, and the counts agree.                                *)
(***************************************************************************)
Entry == [key : Key, val : Value, index : Indices]

Shape ==
  /\ hash \in [Key -> HashVal]
  /\ weak \in BOOLEAN
  /\ bits \in InitBits .. MaxBits
  /\ nentries \in Nat
  /\ slot \in [Indices -> Entry \cup {Unbound, Undef}]
  /\ \A d \in doomed : ~d.linked

HInv == Shape /\ BucketsAreReachable /\ BucketsKnowTheirSlot /\ CountIsSafe

LEMMA SizeIsPositive ==
  ASSUME Shape
  PROVE  bits \in 0 .. MaxBits /\ Size(bits) \in Nat \ {0}
<1>1. bits \in 0 .. MaxBits
  BY HashAssumption DEF Shape
<1> QED BY <1>1, SizesDouble

LEMMA ProbesStayInside ==
  ASSUME Shape, NEW k \in Key, NEW i \in Nat
  PROVE  At(hash[k], i, bits) \in Indices
<1>1. Size(bits) \in Nat \ {0}
  BY SizeIsPositive
<1>2. hash[k] \in Nat
  BY HashAssumption DEF Shape
<1>3. i * (i + 1) \in Nat
  OBVIOUS
<1>4. (i * (i + 1)) \div 2 \in Nat
  BY <1>3
<1> QED BY <1>1, <1>2, <1>4 DEF At, Indices

LEMMA IndicesAreNumbers ==
  ASSUME Shape
  PROVE  Indices \subseteq Nat /\ IsFiniteSet(Indices) /\ Size(bits) \in Nat \ {0}
<1>1. Size(bits) \in Nat \ {0}
  BY SizeIsPositive
<1> QED BY <1>1, FS_Interval DEF Indices

LEMMA BucketsAreEntries ==
  ASSUME Shape
  PROVE  /\ \A i \in Indices : Empty(slot[i]) \/ slot[i] \in Entry
         /\ \A e \in Entry : ~Empty(e)
         /\ IsFiniteSet(Buckets)
<1>1. \A e \in Entry : ~Empty(e)
  BY MarkAssumption, IndicesAreNumbers DEF Entry, Empty
<1>2. IsFiniteSet(Buckets)
  BY IndicesAreNumbers, FS_Subset DEF Buckets
<1> QED BY <1>1, <1>2 DEF Shape, Empty

(* A search that stops at all stops first at its place. *)
LEMMA FirstStop ==
  ASSUME Shape, NEW k \in Key, Stops(k) # {}
  PROVE  \E n \in Stops(k) : /\ Place(k) = At(hash[k], n, bits)
                             /\ \A m \in Stops(k) : n <= m
<1>1. Stops(k) \subseteq Nat
  BY IndicesAreNumbers DEF Stops
<1> QED BY <1>1, LeastExists DEF Place

(* And a search whose least stop is known has that place. *)
LEMMA PlaceIs ==
  ASSUME Shape, NEW k \in Key, NEW n \in Stops(k), \A m \in Stops(k) : n <= m
  PROVE  Place(k) = At(hash[k], n, bits)
<1>1. Stops(k) \subseteq Nat
  BY IndicesAreNumbers DEF Stops
<1>2. Min(Stops(k)) \in Stops(k) /\ \A m \in Stops(k) : Min(Stops(k)) <= m
  BY <1>1, LeastExists
<1>3. Min(Stops(k)) = n
  BY <1>1, <1>2
<1> QED BY <1>3 DEF Place

-----------------------------------------------------------------------------
(***************************************************************************)
(* Every operation writes one slot.  What that does to the searches.       *)
(***************************************************************************)
(* Writing anything but an unused slot, and no bucket of key k, into       *)
(* another slot than that of k, leaves the search for k where it was.      *)
LEMMA OthersStayFound ==
  ASSUME Shape, SameSize, hash' = hash,
         NEW i \in Indices, NEW e, e # Unbound, slot' = [slot EXCEPT ![i] = e],
         NEW k \in Key, Found(k), Place(k) # i, ~Empty(e) => e.key # k,
         Shape'
  PROVE  Found(k)' /\ Place(k)' = Place(k)
<1>1. PICK n \in Stops(k) : Place(k) = At(hash[k], n, bits) /\ \A m \in Stops(k) : n <= m
  BY FirstStop DEF Found
<1>2. \A m \in Indices : At(hash[k], m, bits) \in Indices
  BY ProbesStayInside, IndicesAreNumbers
<1>3. Indices' = Indices
  BY DEF SameSize, Indices
<1>4. Stops(k)' \subseteq Stops(k)
  <2> SUFFICES ASSUME NEW m \in Stops(k)' PROVE m \in Stops(k)
    OBVIOUS
  <2>1. m \in Indices /\ At(hash[k], m, bits) \in Indices
    BY <1>2, <1>3 DEF Stops
  <2>2. CASE At(hash[k], m, bits) = i
    BY <2>1, <2>2 DEF Stops, SameSize, Shape
  <2>3. CASE At(hash[k], m, bits) # i
    BY <2>1, <2>3 DEF Stops, SameSize, Shape
  <2> QED BY <2>2, <2>3
<1>5. n \in Stops(k)'
  <2>1. n \in Indices /\ At(hash[k], n, bits) # i /\ At(hash[k], n, bits) \in Indices
    BY <1>1, <1>2 DEF Stops
  <2>2. slot'[At(hash[k], n, bits)] = slot[At(hash[k], n, bits)]
    BY <2>1 DEF Shape
  <2> QED BY <2>1, <2>2, <1>3, <1>1 DEF Stops, SameSize
<1>6. Place(k)' = At(hash[k], n, bits)'
  <2>1. \A m \in Stops(k)' : n <= m
    BY <1>1, <1>4
  <2>2. Stops(k)' \subseteq Nat
    BY <1>4, IndicesAreNumbers DEF Stops
  <2>3. Min(Stops(k)') = n
    BY <1>5, <2>1, <2>2, LeastExists
  <2> QED BY <2>3 DEF Place
<1>7. Place(k)' = Place(k)
  BY <1>6, <1>1 DEF SameSize
<1>8. slot'[Place(k)] = slot[Place(k)]
  BY <1>1, <1>2 DEF Shape, Stops
<1> QED BY <1>5, <1>7, <1>8 DEF Found

(* A key that is overwritten in its bucket is found there. *)
LEMMA OverwrittenIsFound ==
  ASSUME Shape, SameSize, hash' = hash,
         NEW k \in Key, Found(k),
         NEW e, ~Empty(e), e.key = k, slot' = [slot EXCEPT ![Place(k)] = e],
         Shape'
  PROVE  Found(k)' /\ Place(k)' = Place(k)
<1> DEFINE i == Place(k)
<1>1. PICK n \in Stops(k) : i = At(hash[k], n, bits) /\ \A m \in Stops(k) : n <= m
  BY FirstStop DEF Found
<1>2. \A m \in Indices : At(hash[k], m, bits) \in Indices
  BY ProbesStayInside, IndicesAreNumbers
<1>3. Indices' = Indices
  BY DEF SameSize, Indices
<1>4. i \in Indices /\ ~Empty(slot[i]) /\ slot[i].key = k
  BY <1>1, <1>2 DEF Found, Stops, Empty
<1> HIDE DEF i
<1>5. Stops(k)' = Stops(k)
  <2>1. ASSUME NEW m \in Indices PROVE m \in Stops(k)' <=> m \in Stops(k)
    <3>1. At(hash[k], m, bits) \in Indices
      BY <1>2
    <3>2. CASE At(hash[k], m, bits) = i
      BY <3>1, <3>2, <1>3, <1>4 DEF Stops, SameSize, Shape, i
    <3>3. CASE At(hash[k], m, bits) # i
      BY <3>1, <3>3, <1>3, <1>4 DEF Stops, SameSize, Shape, i
    <3> QED BY <3>2, <3>3
  <2> QED BY <2>1, <1>3 DEF Stops
<1>6. Place(k)' = Place(k)
  BY <1>5 DEF Place, SameSize
<1>7. slot'[i] = e
  BY <1>4 DEF i, Shape
<1> QED BY <1>5, <1>6, <1>7, <1>1 DEF Found, i

-----------------------------------------------------------------------------
(***************************************************************************)
(* The operations keep the invariant.                                      *)
(***************************************************************************)
LEMMA SameSizeSame ==
  ASSUME SameSize
  PROVE  Indices' = Indices /\ Entry' = Entry
BY DEF SameSize, Indices, Entry

(* A bucket is taken out of its slot: a delete, or the sweep of a weak     *)
(* table's bucket, which leaves the count as it is.                        *)
LEMMA TakingOutKeeps ==
  ASSUME HInv, SameSize, hash' = hash, weak' = weak,
         NEW i \in Buckets, slot' = [slot EXCEPT ![i] = Undef],
         nentries' = nentries - 1 \/ (weak /\ nentries' = nentries),
         \A d \in doomed' : ~d.linked
  PROVE  HInv' /\ Buckets' = Buckets \ {i}
<1>0. Shape /\ i \in Indices /\ ~Empty(slot[i])
  BY DEF HInv, Buckets
<1>1. Indices' = Indices /\ Entry' = Entry
  BY SameSizeSame
<1>2. slot' \in [Indices -> Entry \cup {Unbound, Undef}]
  BY <1>0 DEF Shape
<1>3. Buckets' = Buckets \ {i}
  BY <1>0, <1>1, <1>2 DEF Buckets, Empty, Shape
<1>4. IsFiniteSet(Buckets) /\ Cardinality(Buckets) \in Nat
  BY <1>0, BucketsAreEntries, FS_CardinalityType
<1>5. Cardinality(Buckets') = Cardinality(Buckets) - 1 /\ Cardinality(Buckets') \in Nat
  <2>1. IsFiniteSet(Buckets \ {i}) /\ Cardinality(Buckets \ {i}) = Cardinality(Buckets) - 1
    BY <1>4, FS_RemoveElement
  <2>2. Cardinality(Buckets \ {i}) \in Nat
    BY <2>1, FS_CardinalityType
  <2> QED BY <2>1, <2>2, <1>3
<1>6. nentries' \in Nat
  BY <1>4, <1>5, <1>0 DEF HInv, CountIsSafe, Shape
<1>7. Shape'
  BY <1>0, <1>1, <1>2, <1>6 DEF Shape, SameSize
<1>8. BucketsAreReachable'
  <2> SUFFICES ASSUME NEW j \in Buckets' PROVE Found(slot[j].key)' /\ Place(slot[j].key)' = j
    BY DEF BucketsAreReachable
  <2>1. j \in Buckets /\ j # i /\ slot'[j] = slot[j]
    BY <1>0, <1>3 DEF Buckets, Shape
  <2>2. slot[j] \in Entry /\ Found(slot[j].key) /\ Place(slot[j].key) = j
    BY <2>1, <1>0, BucketsAreEntries DEF HInv, BucketsAreReachable, Buckets
  <2>3. slot[j].key \in Key /\ Undef # Unbound /\ Empty(Undef)
    BY <2>2, MarkAssumption DEF Entry, Empty
  <2> QED BY <2>1, <2>2, <2>3, <1>0, <1>7, OthersStayFound
<1>9. BucketsKnowTheirSlot'
  BY <1>0, <1>3 DEF BucketsKnowTheirSlot, HInv, Buckets, Shape
<1>10. CountIsSafe'
  <2>1. Limit(bits)' = Limit(bits)
    BY DEF SameSize
  <2>2. Size(bits) \in Nat \ {0}
    BY <1>0, IndicesAreNumbers
  <2>3. Limit(bits) \in Int
    BY <2>2 DEF Limit
  <2> QED BY <2>1, <2>3, <1>0, <1>4, <1>5, <1>6 DEF CountIsSafe, HInv, Shape
<1> QED BY <1>3, <1>7, <1>8, <1>9, <1>10 DEF HInv

(* An existing binding is overwritten. *)
LEMMA OverwritingKeeps ==
  ASSUME HInv, SameSize, NEW k \in Key, NEW v \in Value, Overwrite(k, v)
  PROVE  /\ HInv' /\ Buckets' = Buckets
         /\ Place(k) \in Buckets /\ slot[Place(k)].key = k
         /\ \A j \in Buckets : slot'[j].key = slot[j].key
         /\ \A j \in Buckets : slot'[j].val = IF j = Place(k) THEN v ELSE slot[j].val
<1> DEFINE i == Place(k)
           e == [slot[i] EXCEPT !.val = v]
<1>0. Shape /\ Found(k) /\ hash' = hash /\ slot' = [slot EXCEPT ![i] = e]
  BY DEF HInv, Overwrite
<1>1. Indices' = Indices /\ Entry' = Entry
  BY SameSizeSame
<1>2. i \in Buckets /\ i \in Indices /\ slot[i].key = k
  <2>1. PICK n \in Stops(k) : i = At(hash[k], n, bits)
    BY <1>0, FirstStop DEF Found
  <2>2. i \in Indices
    BY <2>1, <1>0, ProbesStayInside, IndicesAreNumbers DEF Stops
  <2> QED BY <2>1, <2>2, <1>0 DEF Found, Stops, Empty, Buckets
<1>3. slot[i] \in Entry
  BY <1>0, <1>2, BucketsAreEntries DEF Buckets
<1>4. e \in Entry /\ ~Empty(e) /\ e.key = k /\ e.val = v /\ e.index = slot[i].index
  <2>1. e \in Entry /\ e.key = k /\ e.val = v /\ e.index = slot[i].index
    BY <1>2, <1>3 DEF Entry
  <2> QED BY <2>1, <1>0, BucketsAreEntries
<1> HIDE DEF i, e
<1>5. slot' \in [Indices -> Entry \cup {Unbound, Undef}] /\ slot'[i] = e
      /\ \A j \in Indices \ {i} : slot'[j] = slot[j]
  BY <1>0, <1>2, <1>4 DEF Shape
<1>6. Buckets' = Buckets
  BY <1>1, <1>2, <1>4, <1>5 DEF Buckets
<1>7. Shape'
  BY <1>0, <1>1, <1>5 DEF Shape, SameSize, Overwrite
<1>8. \A j \in Buckets : /\ slot'[j].key = slot[j].key
                         /\ slot'[j].index = slot[j].index
                         /\ slot'[j].val = IF j = i THEN v ELSE slot[j].val
  <2> TAKE j \in Buckets
  <2>1. CASE j = i
    BY <2>1, <1>2, <1>4, <1>5
  <2>2. CASE j # i
    BY <2>2, <1>5 DEF Buckets
  <2> QED BY <2>1, <2>2
<1>9. BucketsAreReachable'
  <2> SUFFICES ASSUME NEW j \in Buckets' PROVE Found(slot[j].key)' /\ Place(slot[j].key)' = j
    BY DEF BucketsAreReachable
  <2>1. slot'[j].key = slot[j].key /\ slot[j] \in Entry /\ j \in Buckets
        /\ Found(slot[j].key) /\ Place(slot[j].key) = j
    BY <1>0, <1>6, <1>8, BucketsAreEntries DEF Buckets, HInv, BucketsAreReachable
  <2>2. slot[j].key \in Key
    BY <2>1 DEF Entry
  <2>3. CASE j = i
    <3>1. slot[j].key = k
      BY <2>3, <1>2
    <3>2. Found(k)' /\ Place(k)' = Place(k)
      BY <1>0, <1>4, <1>7, OverwrittenIsFound DEF i
    <3> QED BY <3>1, <3>2, <2>1
  <2>4. CASE j # i
    <3>1. e # Unbound /\ slot[j].key # k
      BY <2>1, <2>4, <1>4 DEF i, Empty
    <3>2. Found(slot[j].key)' /\ Place(slot[j].key)' = Place(slot[j].key)
      <4>0. PICK h \in Key : h = slot[j].key
        BY <2>2
      <4>1. Found(h) /\ Place(h) # i /\ e.key # h
        BY <4>0, <2>1, <2>4, <3>1, <1>4
      <4>2. Found(h)' /\ Place(h)' = Place(h)
        BY <4>1, <3>1, <1>0, <1>2, <1>7, OthersStayFound
      <4> QED BY <4>0, <4>2, <2>1
    <3> QED BY <3>2, <2>1
  <2> QED BY <2>3, <2>4
<1>10. BucketsKnowTheirSlot'
  BY <1>6, <1>8 DEF BucketsKnowTheirSlot, HInv
<1>11. CountIsSafe'
  BY <1>6 DEF CountIsSafe, HInv, SameSize, Overwrite
<1> QED BY <1>2, <1>6, <1>7, <1>8, <1>9, <1>10, <1>11 DEF HInv, i

(* A key whose search came to an empty slot has no bucket. *)
LEMMA MissingHasNoBucket ==
  ASSUME HInv, NEW k \in Key, Missing(k)
  PROVE  \A j \in Buckets : slot[j].key # k
BY DEF HInv, BucketsAreReachable, Missing, Found

(* Two buckets of a table have different keys. *)
LEMMA KeysDiffer ==
  ASSUME HInv
  PROVE  \A i, j \in Buckets : slot[i].key = slot[j].key => i = j
BY DEF HInv, BucketsAreReachable

LEMMA InvariantIsSound ==
  ASSUME HInv
  PROVE  Sound
<1>0. Shape /\ bits \in 0 .. MaxBits
  BY SizeIsPositive DEF HInv
<1>1. Indices = Slots(bits) /\ Buckets = Used(slot, bits) /\ Entry = EntryOf(bits)
  BY DEF Indices, Slots, Buckets, Used, Entry, EntryOf
<1>2. ASSUME NEW p \in Buckets PROVE Reached(slot, bits, hash, p) /\ slot[p].index = p
  <2>1. PICK k \in Key : k = slot[p].key
    BY <1>0, BucketsAreEntries DEF Buckets, Entry
  <2>2. Found(k) /\ Place(k) = p /\ slot[p].index = p
    BY <2>1 DEF HInv, BucketsAreReachable, BucketsKnowTheirSlot
  <2>3. PICK n \in Stops(k) : p = At(hash[k], n, bits) /\ \A m \in Stops(k) : n <= m
    BY <1>0, <2>2, FirstStop DEF Found
  <2>4. \A m \in Slots(bits) : m < n => PassedOver(slot[At(hash[k], m, bits)], k)
    <3> TAKE m \in Slots(bits)
    <3> HAVE m < n
    <3>1. m \notin Stops(k)
      BY <1>0, <1>1, <2>3, IndicesAreNumbers DEF Stops
    <3> QED BY <3>1, <1>1 DEF Stops, PassedOver
  <2> QED BY <2>1, <2>2, <2>3, <2>4, <1>1 DEF Reached, Stops
<1>3. SoundTable(slot, bits, hash)
  BY <1>0, <1>1, <1>2 DEF SoundTable, Shape
<1> QED BY <1>0, <1>3 DEF Sound

(* A new binding goes to a free slot of the table or, when the count is at *)
(* its limit, of the table rebuilt at twice the size.                      *)
Ready(t, b) ==
  /\ b \in InitBits .. MaxBits
  /\ SoundTable(t, b, hash)
  /\ Pairs(t, b) = Pairs(slot, bits)
  /\ Cardinality(Used(t, b)) = Cardinality(Buckets)
  /\ nentries + 1 <= Limit(b)
  /\ b = bits => t = slot

LEMMA AddChoosesItsTable ==
  ASSUME HInv, NEW k \in Key, NEW v \in Value, Add(k, v)
  PROVE  \E t, b : Ready(t, b) /\ bits' = b /\ slot' = PutIn(t, b, hash[k], k, v)
<1>0. Sound /\ bits \in InitBits .. MaxBits /\ bits \in 0 .. MaxBits /\ nentries \in Nat
  BY InvariantIsSound, SizeIsPositive DEF HInv, Shape
<1>1. Buckets = Used(slot, bits)
  BY DEF Buckets, Used, Indices, Slots
<1>2. Limit(bits) \in Nat /\ Limit(bits) < Size(bits) /\ Size(bits) \in Nat
  BY <1>0, LimitLeavesRoom, SizesDouble
<1>3. CASE ~Grows /\ AddTo(slot, bits, k, v)
  <2>1. nentries + 1 <= Limit(bits)
    BY <1>0, <1>2, <1>3 DEF Grows
  <2>2. Ready(slot, bits)
    BY <1>0, <1>1, <2>1 DEF Ready, Sound
  <2>3. bits' = bits /\ slot' = PutIn(slot, bits, hash[k], k, v)
    BY <1>3 DEF AddTo, PutIn
  <2> QED BY <2>2, <2>3
<1>4. CASE bits < MaxBits /\ AddTo(Expanded(bits + 1), bits + 1, k, v)
  <2> DEFINE t == Expanded(bits + 1)
             b == bits + 1
  <2>1. b \in InitBits .. MaxBits /\ b \in 0 .. MaxBits /\ b # bits
    BY <1>0, <1>4, HashAssumption
  <2>2. nentries + 1 <= Limit(b) /\ Cardinality(Buckets) < Size(bits)
    <3>1. IsFiniteSet(Buckets) /\ Cardinality(Buckets) \in Nat
      BY BucketsAreEntries, FS_CardinalityType DEF HInv
    <3>2. Cardinality(Buckets) <= nentries /\ nentries <= Limit(bits)
      BY DEF HInv, CountIsSafe
    <3>3. Limit(bits) + 1 <= Limit(b) /\ Limit(b) \in Nat
      BY <1>0, <2>1, LimitLeavesRoom
    <3> QED BY <3>1, <3>2, <3>3, <1>0, <1>2
  <2>3. Expandable
    BY <1>0, <2>1, <2>2, KeysDiffer DEF Expandable
  <2>4. SoundTable(t, b, hash) /\ Pairs(t, b) = Pairs(slot, bits)
        /\ Cardinality(Used(t, b)) = Cardinality(Buckets)
    BY <1>1, <2>3, ExpandedIsSound DEF Pairs
  <2>5. Ready(t, b)
    <3> HIDE DEF t, b
    <3> QED BY <2>1, <2>2, <2>4 DEF Ready
  <2>6. bits' = b /\ slot' = PutIn(t, b, hash[k], k, v)
    BY <1>4 DEF AddTo, PutIn
  <2> HIDE DEF t, b
  <2> QED BY <2>5, <2>6
<1> QED BY <1>3, <1>4 DEF Add

LEMMA SoundFindsThen == Sound' => BucketsAreReachable' /\ BucketsKnowTheirSlot'
BY SoundFinds, PTL

LEMMA AddingKeeps ==
  ASSUME HInv, NEW k \in Key, NEW v \in Value, Add(k, v)
  PROVE  /\ HInv'
         /\ Pairs(slot, bits)' = Pairs(slot, bits) \cup {<<k, v>>}
         /\ SameSize => /\ \A j \in Buckets : slot'[j] = slot[j]
                        /\ \A j \in Buckets' : j \in Buckets \/ slot'[j].key = k
<1>0. PICK t, b : Ready(t, b) /\ bits' = b /\ slot' = PutIn(t, b, hash[k], k, v)
  BY AddChoosesItsTable
<1>1. hash' = hash /\ weak' = weak /\ nentries' = nentries + 1 /\ doomed' = doomed
      /\ Missing(k) /\ nentries \in Nat
  BY DEF Add, HInv, Shape
<1>2. b \in 0 .. MaxBits /\ Limit(b) \in Nat /\ Limit(b) < Size(b) /\ Size(b) \in Nat
  BY <1>0, HashAssumption, LimitLeavesRoom, SizesDouble DEF Ready
<1>3. Cardinality(Buckets) <= nentries /\ Cardinality(Buckets) \in Nat /\ IsFiniteSet(Buckets)
  BY BucketsAreEntries, FS_CardinalityType DEF HInv, CountIsSafe
<1>4. HasRoom(t, b, k)
  <2>1. Cardinality(Used(t, b)) < Size(b)
    BY <1>0, <1>1, <1>2, <1>3 DEF Ready
  <2>2. \E p \in Slots(b) : Empty(t[p])
    BY <1>2, <2>1, RoomIsLeft
  <2>3. ASSUME NEW p \in Used(t, b), t[p].key = k PROVE FALSE
    <3>1. <<t[p].key, t[p].val>> \in Pairs(slot, bits)
      BY <1>0 DEF Ready, Pairs
    <3>2. PICK q \in Used(slot, bits) : slot[q].key = k
      BY <3>1, <2>3 DEF Pairs
    <3>3. q \in Buckets
      BY DEF Used, Buckets, Slots, Indices
    <3> QED BY <3>2, <3>3, <1>1, MissingHasNoBucket
  <2> QED BY <2>2, <2>3 DEF HasRoom
<1> DEFINE u == PutIn(t, b, hash[k], k, v)
           i == FreeAt(t, hash[k], b)
<1>5. SoundTable(u, b, hash) /\ AlsoHolds(u, t, b, i, k, v)
  <2>1. SoundTable(t, b, hash)
    BY <1>0 DEF Ready
  <2> QED BY <1>2, <1>4, <2>1, PutKeepsSound
<1> HIDE DEF u, i
<1>6. slot' = u /\ bits' = b
  BY <1>0 DEF u
<1>7. Indices' = Slots(b) /\ Buckets' = Used(u, b) /\ Entry' = EntryOf(b)
  BY <1>6 DEF Indices, Slots, Buckets, Used, Entry, EntryOf
<1>8. Sound'
  BY <1>1, <1>2, <1>5, <1>6 DEF Sound
<1>9. Shape'
  BY <1>0, <1>1, <1>5, <1>6, <1>7 DEF Shape, HInv, SoundTable, Ready
<1>10. CountIsSafe'
  <2>1. IsFiniteSet(Used(t, b))
    BY <1>2, SlotsAreFinite
  <2>2. Cardinality(Used(u, b)) = Cardinality(Buckets) + 1
    <3>1. Used(u, b) = Used(t, b) \cup {i} /\ i \notin Used(t, b)
      BY <1>5 DEF AlsoHolds
    <3>2. Cardinality(Used(t, b)) = Cardinality(Buckets)
      BY <1>0 DEF Ready
    <3> QED BY <3>1, <3>2, <2>1, FS_AddElement
  <2>3. Cardinality(Buckets)' = Cardinality(Buckets) + 1 /\ Limit(bits)' = Limit(b)
    BY <2>2, <1>6, <1>7
  <2>4. nentries + 1 <= Limit(b) /\ (~weak => nentries = Cardinality(Buckets))
    BY <1>0 DEF Ready, HInv, CountIsSafe
  <2> QED BY <2>3, <2>4, <1>1, <1>2, <1>3 DEF CountIsSafe
<1>11. HInv'
  BY <1>8, <1>9, <1>10, SoundFindsThen DEF HInv
<1>12. Pairs(slot, bits)' = Pairs(slot, bits) \cup {<<k, v>>}
  BY <1>0, <1>5, <1>6 DEF AlsoHolds, Ready
<1>13. ASSUME SameSize
       PROVE  /\ \A j \in Buckets : slot'[j] = slot[j]
              /\ \A j \in Buckets' : j \in Buckets \/ slot'[j].key = k
  <2>1. t = slot /\ b = bits
    BY <1>0, <1>6, <1>13 DEF Ready, SameSize
  <2>2. Used(t, b) = Buckets
    BY <2>1 DEF Used, Buckets, Slots, Indices
  <2>3. slot' = [slot EXCEPT ![i] = Bucket(k, v, i)] /\ i \in Indices /\ i \notin Buckets
    BY <1>5, <1>6, <2>1, <2>2 DEF PutIn, u, i, AlsoHolds, Slots, Indices
  <2>4. slot'[i].key = k /\ \A j \in Indices : j # i => slot'[j] = slot[j]
    BY <2>3 DEF HInv, Shape, Bucket
  <2>5. Buckets' = Buckets \cup {i}
    BY <1>5, <1>7, <2>2 DEF AlsoHolds
  <2> QED BY <2>3, <2>4, <2>5 DEF Buckets
<1> QED BY <1>11, <1>12, <1>13

LEMMA PlaceIsABucket ==
  ASSUME Shape, NEW k \in Key, Found(k)
  PROVE  Place(k) \in Buckets /\ slot[Place(k)].key = k
<1>1. PICK n \in Stops(k) : Place(k) = At(hash[k], n, bits)
  BY FirstStop DEF Found
<1>2. Place(k) \in Indices
  BY <1>1, ProbesStayInside, IndicesAreNumbers DEF Stops
<1> QED BY <1>1, <1>2 DEF Found, Stops, Empty, Buckets

LEMMA HInvStart ==
  ASSUME Init
  PROVE  HInv
<1>0. bits = InitBits /\ Size(bits) \in Nat \ {0} /\ Indices = 0 .. Size(InitBits) - 1
  BY HashAssumption, SizesDouble DEF Init, Indices
<1>1. Shape
  <2>1. bits \in InitBits .. MaxBits
    BY <1>0, HashAssumption
  <2>2. slot \in [Indices -> Entry \cup {Unbound, Undef}]
    BY <1>0 DEF Init
  <2> QED BY <2>1, <2>2 DEF Init, Shape
<1>2. Buckets = {}
  BY <1>0 DEF Init, Buckets, Empty
<1>3. Cardinality(Buckets) = 0
  BY <1>2, FS_EmptySet
<1>4. 0 <= Limit(bits)
  BY <1>0 DEF Limit
<1> QED BY <1>1, <1>2, <1>3, <1>4
        DEF HInv, BucketsAreReachable, BucketsKnowTheirSlot, CountIsSafe, Init

LEMMA HInvStays ==
  ASSUME HInv, [Next]_vars
  PROVE  HInv'
<1>0. ASSUME UNCHANGED <<hash, weak, bits, nentries, slot>>, \A d \in doomed' : ~d.linked
      PROVE  HInv'
  <2>1. Shape'
    BY <1>0, SameSizeSame DEF HInv, Shape, SameSize
  <2>2. Indices' = Indices /\ Buckets' = Buckets
    BY <1>0 DEF Buckets, Indices
  <2>3. \A k : Stops(k)' = Stops(k)
    BY <1>0, <2>2 DEF Stops
  <2>4. \A k : Place(k)' = Place(k) /\ Found(k)' = Found(k)
    BY <1>0, <2>3 DEF Place, Found
  <2>5. BucketsAreReachable'
    BY <1>0, <2>2, <2>4 DEF HInv, BucketsAreReachable
  <2>6. BucketsKnowTheirSlot' /\ CountIsSafe'
    BY <1>0, <2>2 DEF HInv, BucketsKnowTheirSlot, CountIsSafe
  <2> QED BY <2>1, <2>5, <2>6 DEF HInv
<1>1. \A d \in doomed : ~d.linked
  BY DEF HInv, Shape
<1>2. ASSUME NEW k \in Key, Lookup(k) \/ DeleteAbsent(k) \/ Diverge(k) PROVE HInv'
  BY <1>0, <1>1, <1>2 DEF Lookup, DeleteAbsent, Diverge
<1>3. ASSUME NEW k \in Key, NEW i, i = Place(k) \/ i = slot[Place(k)].index,
             Found(k), TakeOut(i)
      PROVE  HInv'
  <2>1. i \in Buckets
    BY <1>3, PlaceIsABucket DEF HInv, BucketsKnowTheirSlot
  <2>2. \A d \in doomed' : ~d.linked
    BY <1>3 DEF TakeOut, Detached
  <2>3. hash' = hash /\ weak' = weak /\ nentries' = nentries - 1 /\ SameSize
        /\ slot' = [slot EXCEPT ![i] = Undef]
    BY <1>3 DEF TakeOut, SameSize
  <2>4. \E j \in Buckets : j = i
    BY <2>1
  <2> QED BY <2>2, <2>3, <2>4, TakingOutKeeps
<1>4. ASSUME NEW k \in Key, Delete(k) PROVE HInv'
  BY <1>3, <1>4 DEF Delete
<1>5. ASSUME NEW k \in Key, XDelete(k) PROVE HInv'
  BY <1>3, <1>5 DEF XDelete
<1>6. ASSUME NEW k \in Key, NEW v \in Value, Overwrite(k, v) \/ Add(k, v) PROVE HInv'
  <2>1. CASE Overwrite(k, v)
    <3>1. SameSize
      BY <2>1 DEF Overwrite, SameSize
    <3> QED BY <2>1, <3>1, OverwritingKeeps
  <2>2. CASE Add(k, v)
    BY <2>2, AddingKeeps
  <2> QED BY <1>6, <2>1, <2>2
<1>7. ASSUME SweepDeleted PROVE HInv'
  <2>1. slot' = slot
    BY <1>7, <1>1 DEF SweepDeleted
  <2> QED BY <2>1, <1>0, <1>7 DEF SweepDeleted
<1>8. ASSUME NEW i \in Indices, SweepWeak(i) PROVE HInv'
  <2>1. slot[i].index = i
    BY <1>8 DEF SweepWeak, HInv, BucketsKnowTheirSlot
  <2>2. SameSize
    BY <1>8 DEF SweepWeak, SameSize
  <2> QED BY <2>1, <2>2, <1>1, <1>8, TakingOutKeeps DEF SweepWeak
<1>9. ASSUME Length \/ Stuck \/ UNCHANGED vars PROVE HInv'
  BY <1>0, <1>1, <1>9 DEF Length, Stuck, vars
<1> QED BY <1>2, <1>4, <1>5, <1>6, <1>7, <1>8, <1>9 DEF Next

-----------------------------------------------------------------------------
LEMMA HInvAlways == Spec => []HInv
<1>1. Init => HInv
  BY HInvStart
<1>2. HInv /\ [Next]_vars => HInv'
  BY HInvStays
<1> QED BY <1>1, <1>2, PTL DEF Spec

(***************************************************************************)
(* Every variable keeps its type, the entries of the table among them.     *)
(***************************************************************************)
THEOREM TypesHold == Spec => []TypeOK
<1>1. Init => looping \in BOOLEAN
  BY DEF Init
<1>2. looping \in BOOLEAN /\ [Next]_vars => (looping \in BOOLEAN)'
  BY DEF Next, vars, Lookup, Delete, XDelete, DeleteAbsent, Diverge, Overwrite, Add, Length,
         SweepDeleted, SweepWeak, Stuck, TakeOut
<1>3. HInv /\ looping \in BOOLEAN => TypeOK
  <2> SUFFICES ASSUME HInv, looping \in BOOLEAN PROVE TypeOK
    OBVIOUS
  <2>1. \A i \in Buckets : slot[i] \in [key : Key, val : Value, index : Indices]
    BY BucketsAreEntries DEF HInv, Buckets, Entry
  <2>2. DOMAIN slot = Indices
    BY DEF HInv, Shape
  <2> QED BY <2>1, <2>2 DEF HInv, Shape, TypeOK
<1> QED BY <1>1, <1>2, <1>3, HInvAlways, PTL DEF Spec

(***************************************************************************)
(* The search for a key that has a bucket ends at that bucket, whatever    *)
(* was inserted, deleted and swept, and however often the table was        *)
(* expanded (hash_lookup's probing over deleted and undefined slots, and   *)
(* the slots hashtable_expand chooses).                                    *)
(***************************************************************************)
THEOREM SearchesFindBuckets == Spec => []BucketsAreReachable
<1>1. HInv => BucketsAreReachable
  BY DEF HInv
<1> QED BY <1>1, HInvAlways, PTL

(***************************************************************************)
(* A bucket knows its slot, so arc_xhash_delete and hb_sweeper clear the   *)
(* right one, also after hashtable_expand has moved it.                    *)
(***************************************************************************)
THEOREM IndexesAreRight == Spec => []BucketsKnowTheirSlot
<1>1. HInv => BucketsKnowTheirSlot
  BY DEF HInv
<1> QED BY <1>1, HInvAlways, PTL

(***************************************************************************)
(* The count of entries that decides when to expand never falls behind the *)
(* number of buckets nor passes the limit, so an insert and an expansion   *)
(* find a slot without a bucket (nentries in arc_hash_insert,              *)
(* arc_hash_delete, hashtable_expand and the sweepers).                    *)
(***************************************************************************)
THEOREM LoadIsCounted == Spec => []CountIsSafe
<1>1. HInv => CountIsSafe
  BY DEF HInv
<1> QED BY <1>1, HInvAlways, PTL

-----------------------------------------------------------------------------
(***************************************************************************)
(* The table is the map of TableMap.                                       *)
(***************************************************************************)
MapFacts ==
  /\ DOMAIN MapOf = Key
  /\ \A i \in Buckets : slot[i] \in Entry /\ MapOf[slot[i].key] = slot[i].val
  /\ \A k \in Key : (\A i \in Buckets : slot[i].key # k) => MapOf[k] = Absent
  /\ \A i, j \in Buckets : slot[i].key = slot[j].key => i = j

LEMMA MapIs == HInv => MapFacts
<1> SUFFICES ASSUME HInv PROVE MapFacts
  OBVIOUS
<1>1. \A i, j \in Buckets : slot[i].key = slot[j].key => i = j
  BY DEF HInv, BucketsAreReachable
<1>2. \A i \in Buckets : slot[i] \in Entry
  BY BucketsAreEntries DEF HInv, Buckets
<1>3. ASSUME NEW i \in Buckets PROVE MapOf[slot[i].key] = slot[i].val
  <2>1. slot[i].key \in Key /\ slot[i].key \in KeysIn
    BY <1>2 DEF Entry, KeysIn
  <2>2. (CHOOSE j \in Buckets : slot[j].key = slot[i].key) = i
    BY <1>1
  <2> QED BY <2>1, <2>2 DEF MapOf
<1> QED BY <1>1, <1>2, <1>3 DEF MapOf, KeysIn, MapFacts

LEMMA MapIsThen == HInv' => MapFacts'
BY MapIs, PTL

(* Two maps over the keys are equal when they bind each key alike. *)
LEMMA MapsEqual ==
  ASSUME HInv, NEW v, NEW h \in Key,
         HInv',
         \A k \in Key : MapOf'[k] = IF k = h THEN v ELSE MapOf[k]
  PROVE  MapOf' = [MapOf EXCEPT ![h] = v]
<1>1. MapOf = [k \in Key |-> MapOf[k]]
  BY DEF MapOf
<1>2. MapOf' = [k \in Key |-> MapOf'[k]]
  BY DEF MapOf
<1> DEFINE M == MapOf
           N == MapOf'
<1> HIDE DEF M, N
<1>3. M = [k \in Key |-> M[k]] /\ N = [k \in Key |-> N[k]]
      /\ \A k \in Key : N[k] = IF k = h THEN v ELSE M[k]
  BY <1>1, <1>2 DEF M, N
<1>4. N = [M EXCEPT ![h] = v]
  BY <1>3
<1> QED BY <1>4 DEF M, N

LEMMA TakenOutOfTheMap ==
  ASSUME HInv, HInv', NEW i \in Buckets, Buckets' = Buckets \ {i},
         slot' = [slot EXCEPT ![i] = Undef]
  PROVE  MapOf' = [MapOf EXCEPT ![slot[i].key] = Absent]
<1>1. PICK h \in Key : h = slot[i].key
  BY MapIs DEF Entry, MapFacts
<1>2. \A j \in Buckets \ {i} : slot'[j] = slot[j] /\ slot[j].key # h
  BY <1>1, MapIs DEF MapFacts, HInv, Shape, Buckets
<1>3. ASSUME NEW k \in Key PROVE MapOf'[k] = IF k = h THEN Absent ELSE MapOf[k]
  <2>1. CASE \E j \in Buckets' : slot'[j].key = k
    <3>1. PICK j \in Buckets' : slot'[j].key = k
      BY <2>1
    <3>2. MapOf'[k] = slot'[j].val
      BY <3>1, MapIs, MapIsThen DEF MapFacts
    <3>3. j \in Buckets \ {i} /\ slot'[j] = slot[j] /\ MapOf[k] = slot[j].val /\ k # h
      BY <3>1, <1>2, MapIs, MapIsThen DEF MapFacts
    <3> QED BY <3>2, <3>3
  <2>2. CASE \A j \in Buckets' : slot'[j].key # k
    <3>1. MapOf'[k] = Absent
      BY <2>2, MapIs, MapIsThen DEF MapFacts
    <3>2. k # h => \A j \in Buckets : slot[j].key # k
      BY <2>2, <1>1, <1>2
    <3> QED BY <3>1, <3>2, MapIs, MapIsThen DEF MapFacts
  <2> QED BY <2>1, <2>2
<1>4. MapOf' = [MapOf EXCEPT ![h] = Absent]
  BY <1>3, MapsEqual
<1> QED BY <1>1, <1>4

LEMMA OverwrittenInTheMap ==
  ASSUME HInv, SameSize, NEW k \in Key, NEW v \in Value, Overwrite(k, v)
  PROVE  MapOf' = [MapOf EXCEPT ![k] = v]
<1>1. /\ HInv' /\ Buckets' = Buckets
      /\ Place(k) \in Buckets /\ slot[Place(k)].key = k
      /\ \A j \in Buckets : slot'[j].key = slot[j].key
      /\ \A j \in Buckets : slot'[j].val = IF j = Place(k) THEN v ELSE slot[j].val
  BY OverwritingKeeps
<1>2. ASSUME NEW h \in Key PROVE MapOf'[h] = IF h = k THEN v ELSE MapOf[h]
  <2>1. CASE \E j \in Buckets : slot[j].key = h
    <3>1. PICK j \in Buckets : slot[j].key = h
      BY <2>1
    <3>2. MapOf'[h] = slot'[j].val /\ MapOf[h] = slot[j].val
      BY <3>1, <1>1, MapIs, MapIsThen DEF MapFacts
    <3>3. h = k <=> j = Place(k)
      BY <3>1, <1>1, MapIs, MapIsThen DEF MapFacts
    <3> QED BY <3>1, <3>2, <3>3, <1>1
  <2>2. CASE \A j \in Buckets : slot[j].key # h
    <3>1. MapOf'[h] = Absent /\ MapOf[h] = Absent /\ h # k
      BY <2>2, <1>1, MapIs, MapIsThen DEF MapFacts
    <3> QED BY <3>1
  <2> QED BY <2>1, <2>2
<1> QED BY <1>1, <1>2, MapsEqual

LEMMA AddedToTheMap ==
  ASSUME HInv, NEW k \in Key, NEW v \in Value, Add(k, v)
  PROVE  MapOf' = [MapOf EXCEPT ![k] = v]
<1>1. HInv' /\ Pairs(slot, bits)' = Pairs(slot, bits) \cup {<<k, v>>}
  BY AddingKeeps
<1>2. /\ Pairs(slot, bits) = {<<slot[i].key, slot[i].val>> : i \in Buckets}
      /\ Pairs(slot, bits)' = {<<slot'[i].key, slot'[i].val>> : i \in Buckets'}
  BY DEF Pairs, Used, Buckets, Slots, Indices
<1>3. \A j \in Buckets : slot[j].key # k
  BY MissingHasNoBucket DEF Add
<1>a. ASSUME NEW x, NEW y, <<x, y>> \in Pairs(slot, bits) \cup {<<k, v>>}
      PROVE  \E i \in Buckets' : slot'[i].key = x /\ slot'[i].val = y
  <2>1. <<x, y>> \in {<<slot'[i].key, slot'[i].val>> : i \in Buckets'}
    BY <1>a, <1>1, <1>2
  <2> QED BY <2>1
<1>b. \A j \in Buckets : <<slot[j].key, slot[j].val>> \in Pairs(slot, bits)
  BY <1>2
<1>4. ASSUME NEW h \in Key PROVE MapOf'[h] = IF h = k THEN v ELSE MapOf[h]
  <2>1. CASE h = k
    <3>1. PICK i \in Buckets' : slot'[i].key = k /\ slot'[i].val = v
      BY <1>a
    <3> QED BY <2>1, <3>1, <1>1, MapIsThen DEF MapFacts
  <2>2. CASE h # k /\ \E j \in Buckets : slot[j].key = h
    <3>1. PICK j \in Buckets : slot[j].key = h
      BY <2>2
    <3>2. PICK i \in Buckets' : slot'[i].key = h /\ slot'[i].val = slot[j].val
      <4>1. <<slot[j].key, slot[j].val>> \in Pairs(slot, bits) \cup {<<k, v>>}
        BY <1>b
      <4> QED BY <4>1, <3>1, <1>a
    <3>3. MapOf'[h] = slot'[i].val /\ MapOf[h] = slot[j].val
      BY <3>1, <3>2, <1>1, MapIs, MapIsThen DEF MapFacts
    <3> QED BY <2>2, <3>2, <3>3
  <2>3. CASE h # k /\ \A j \in Buckets : slot[j].key # h
    <3>1. ASSUME NEW i \in Buckets', slot'[i].key = h PROVE FALSE
      <4>1. <<slot'[i].key, slot'[i].val>> \in Pairs(slot, bits) \cup {<<k, v>>}
        BY <1>1, <1>2
      <4>2. PICK j \in Buckets : slot[j].key = slot'[i].key
        BY <4>1, <3>1, <2>3, <1>2
      <4> QED BY <4>2, <3>1, <2>3
    <3> QED BY <2>3, <3>1, <1>1, MapIs, MapIsThen DEF MapFacts
  <2> QED BY <2>1, <2>2, <2>3
<1> QED BY <1>1, <1>4, MapsEqual

(* The buckets are as many as the keys that are bound. *)
LEMMA LengthIsTheMaps ==
  ASSUME HInv
  PROVE  Cardinality(Buckets) = Cardinality({k \in Key : MapOf[k] # Absent})
<1> DEFINE B == {k \in Key : MapOf[k] # Absent}
           f == [i \in Buckets |-> slot[i].key]
<1>1. IsFiniteSet(Buckets)
  BY BucketsAreEntries DEF HInv
<1>2. \A i \in Buckets : slot[i].key \in Key /\ slot[i].val \in Value
  BY MapIs DEF Entry, MapFacts
<1>3. \A i \in Buckets : f[i] \in B
  BY <1>2, MapIs, MarkAssumption DEF MapFacts
<1>4. \A k \in B : \E i \in Buckets : f[i] = k
  BY MapIs DEF MapFacts
<1>5. f \in Bijection(Buckets, B)
  <2>1. f \in [Buckets -> B]
    BY <1>3
  <2>2. \A i, j \in Buckets : f[i] = f[j] => i = j
    BY MapIs DEF MapFacts
  <2> QED BY <2>1, <2>2, <1>4, Fun_IsBij
<1>6. ExistsBijection(Buckets, B)
  BY <1>5 DEF ExistsBijection
<1> QED BY <1>1, <1>6, FS_Bijection

LEMMA FoundInTheMap ==
  ASSUME HInv, NEW k \in Key
  PROVE  /\ Found(k) => MapOf[k] = slot[Place(k)].val
         /\ Missing(k) => MapOf[k] = Absent
<1>1. Found(k) => MapOf[k] = slot[Place(k)].val
  BY PlaceIsABucket, MapIs DEF HInv, MapFacts
<1>2. Missing(k) => MapOf[k] = Absent
  BY MissingHasNoBucket, MapIs DEF MapFacts
<1> QED BY <1>1, <1>2

(* A step that leaves the slots leaves the map. *)
LEMMA SameSlotsSameMap ==
  ASSUME slot' = slot, SameSize
  PROVE  MapOf' = MapOf
<1>1. Indices' = Indices
  BY SameSizeSame
<1>2. Buckets' = Buckets
  BY <1>1 DEF Buckets
<1>3. KeysIn' = KeysIn
  BY <1>2 DEF KeysIn
<1> QED BY <1>2, <1>3 DEF MapOf

LEMMA StepIsTheMaps ==
  ASSUME HInv, HInv', [Next]_vars
  PROVE  [Promise!Next /\ UNCHANGED weak]_<<MapOf, ret, weak>>
<1>1. ASSUME NEW k \in Key, Lookup(k) \/ DeleteAbsent(k) PROVE Promise!Next /\ UNCHANGED weak
  <2>1. MapOf' = MapOf /\ weak' = weak
    BY <1>1, SameSlotsSameMap DEF Lookup, DeleteAbsent, SameSize
  <2>2. ret' = MapOf[k]
    BY <1>1, FoundInTheMap DEF Lookup, DeleteAbsent
  <2>3. Promise!Lookup(k)
    BY <2>1, <2>2 DEF Promise!Lookup
  <2> QED BY <2>1, <2>3 DEF Promise!Next
<1>2. ASSUME NEW k \in Key, NEW i, i = Place(k) \/ i = slot[Place(k)].index,
             Found(k), TakeOut(i), ret' = slot[i].val
      PROVE  Promise!Next /\ UNCHANGED weak
  <2>1. i \in Buckets /\ i = Place(k) /\ slot[i].key = k
    BY <1>2, PlaceIsABucket DEF HInv, BucketsKnowTheirSlot
  <2>2. \A d \in doomed' : ~d.linked
    BY <1>2 DEF TakeOut, Detached
  <2>3. hash' = hash /\ weak' = weak /\ nentries' = nentries - 1 /\ SameSize
        /\ slot' = [slot EXCEPT ![i] = Undef]
    BY <1>2 DEF TakeOut, SameSize
  <2>4. PICK j \in Buckets : j = i
    BY <2>1
  <2>5. Buckets' = Buckets \ {j}
    BY <2>2, <2>3, <2>4, TakingOutKeeps
  <2>6. MapOf' = [MapOf EXCEPT ![k] = Absent]
    BY <2>1, <2>3, <2>4, <2>5, TakenOutOfTheMap
  <2>7. ret' = MapOf[k]
    BY <1>2, <2>1, FoundInTheMap
  <2>8. Promise!Delete(k)
    BY <2>6, <2>7 DEF Promise!Delete
  <2> QED BY <2>3, <2>8 DEF Promise!Next
<1>3. ASSUME NEW k \in Key, Delete(k) \/ XDelete(k) PROVE Promise!Next /\ UNCHANGED weak
  BY <1>2, <1>3 DEF Delete, XDelete
<1>4. ASSUME NEW k \in Key, NEW v \in Value, Overwrite(k, v) \/ Add(k, v)
      PROVE  Promise!Next /\ UNCHANGED weak
  <2>1. MapOf' = [MapOf EXCEPT ![k] = v]
    BY <1>4, OverwrittenInTheMap, AddedToTheMap DEF Overwrite, SameSize
  <2>2. ret' = v /\ weak' = weak
    BY <1>4 DEF Overwrite, Add
  <2>3. Promise!Insert(k, v)
    BY <2>1, <2>2 DEF Promise!Insert
  <2> QED BY <2>2, <2>3 DEF Promise!Next
<1>5. ASSUME Length PROVE Promise!Next /\ UNCHANGED weak
  <2>1. MapOf' = MapOf /\ weak' = weak
    BY <1>5, SameSlotsSameMap DEF Length, SameSize
  <2>2. ret' = Cardinality({k \in Key : MapOf[k] # Absent})
    BY <1>5, LengthIsTheMaps DEF Length
  <2>3. Promise!Length
    BY <2>1, <2>2 DEF Promise!Length, Promise!Cardinality, Cardinality
  <2> QED BY <2>1, <2>3 DEF Promise!Next
<1>6. ASSUME NEW i \in Indices, SweepWeak(i) PROVE Promise!Next /\ UNCHANGED weak
  <2>1. i \in Buckets /\ slot[i].index = i /\ slot' = [slot EXCEPT ![i] = Undef]
        /\ hash' = hash /\ weak' = weak /\ weak /\ nentries' = nentries /\ doomed' = doomed
        /\ SameSize
    BY <1>6 DEF SweepWeak, HInv, BucketsKnowTheirSlot, SameSize
  <2>2. Buckets' = Buckets \ {i}
    BY <2>1, TakingOutKeeps DEF HInv, Shape
  <2>3. PICK k \in Key : k = slot[i].key
    BY <2>1, MapIs DEF MapFacts, Entry
  <2>4. MapOf' = [MapOf EXCEPT ![k] = Absent]
    BY <2>1, <2>2, <2>3, TakenOutOfTheMap
  <2>5. Promise!Forget(k)
    BY <2>1, <2>4, <1>6 DEF Promise!Forget, SweepWeak
  <2> QED BY <2>1, <2>5 DEF Promise!Next
<1>7. ASSUME SweepDeleted PROVE UNCHANGED <<MapOf, ret, weak>>
  <2>1. slot' = slot
    BY <1>7 DEF SweepDeleted, HInv, Shape
  <2> QED BY <2>1, <1>7, SameSlotsSameMap DEF SweepDeleted, SameSize
<1>8. ASSUME (\E k \in Key : Diverge(k)) \/ Stuck \/ UNCHANGED vars
      PROVE  UNCHANGED <<MapOf, ret, weak>>
  <2>1. slot' = slot /\ ret' = ret /\ weak' = weak /\ SameSize
    BY <1>8 DEF Diverge, Stuck, vars, SameSize
  <2> QED BY <2>1, SameSlotsSameMap
<1> QED BY <1>1, <1>3, <1>4, <1>5, <1>6, <1>7, <1>8 DEF Next

(***************************************************************************)
(* The table is a map: what a lookup, a delete or a count of hash.c        *)
(* answers is what the operations before it make of a map, through any     *)
(* number of expansions, and a weak table only ever forgets a binding.     *)
(***************************************************************************)
THEOREM TableIsAMap == Spec => ImplementsMap
<1>1. Init => HInv /\ Promise!Init
  <2> SUFFICES ASSUME Init PROVE HInv /\ Promise!Init
    OBVIOUS
  <2>1. HInv
    BY HInvStart
  <2>2. Buckets = {}
    BY DEF Init, Buckets, Empty, Indices
  <2>3. MapOf = [k \in Key |-> Absent]
    BY <2>2 DEF MapOf, KeysIn
  <2> QED BY <2>1, <2>3 DEF Promise!Init, Init
<1>2. HInv /\ [Next]_vars
        => HInv' /\ [Promise!Next /\ UNCHANGED weak]_<<MapOf, ret, weak>>
  BY HInvStays, StepIsTheMaps
<1> QED BY <1>1, <1>2, PTL DEF Spec, ImplementsMap, Promise!Spec

-----------------------------------------------------------------------------
(***************************************************************************)
(* Iteration: a key that stays is behind the cursor only if it was         *)
(* returned, because a bucket never moves while the table keeps its size.  *)
(* Once the iteration is over an expansion cannot harm it any more.        *)
(***************************************************************************)
IterTable == TableStep \/ IterStart \/ IterNext \/ IterOver

WalkInv ==
  /\ cursor \in Nat
  /\ walk \in {"none", "on", "over"}
  /\ steady \subseteq KeysIn
  /\ walk = "none" => steady = {}
  /\ walk = "over" /\ ~grown => steady \subseteq seen
  /\ walk = "on" /\ ~grown =>
       \A i \in Buckets : slot[i].key \in steady /\ i < cursor => slot[i].key \in seen

(* No step moves a bucket to another slot. *)
LEMMA BucketsStayPut ==
  ASSUME HInv, HInv', [Next]_vars, SameSize, NEW i \in Buckets', slot'[i].key \in KeysIn
  PROVE  i \in Buckets /\ slot'[i].key = slot[i].key
<1>0. Indices' = Indices
  BY SameSizeSame
<1>1. CASE slot' = slot
  BY <1>0, <1>1 DEF Buckets
<1>2. ASSUME NEW j, j \in Buckets, slot' = [slot EXCEPT ![j] = Undef]
      PROVE  i \in Buckets /\ slot'[i].key = slot[i].key
  BY <1>0, <1>2 DEF Buckets, HInv, Shape, Empty
<1>3. ASSUME NEW k \in Key, Delete(k) \/ XDelete(k)
      PROVE  i \in Buckets /\ slot'[i].key = slot[i].key
  BY <1>2, <1>3, PlaceIsABucket DEF Delete, XDelete, TakeOut, HInv, BucketsKnowTheirSlot
<1>4. ASSUME NEW k \in Key, NEW v \in Value, Overwrite(k, v)
      PROVE  i \in Buckets /\ slot'[i].key = slot[i].key
  BY <1>4, OverwritingKeeps
<1>5. ASSUME NEW k \in Key, NEW v \in Value, Add(k, v)
      PROVE  i \in Buckets /\ slot'[i].key = slot[i].key
  <2>1. /\ \A j \in Buckets : slot'[j] = slot[j]
        /\ \A j \in Buckets' : j \in Buckets \/ slot'[j].key = k
    BY <1>5, AddingKeeps
  <2>2. k \notin KeysIn
    BY <1>5, MissingHasNoBucket DEF Add, KeysIn
  <2> QED BY <2>1, <2>2
<1>6. ASSUME NEW j \in Indices, SweepWeak(j)
      PROVE  i \in Buckets /\ slot'[i].key = slot[i].key
  BY <1>2, <1>6 DEF SweepWeak, HInv, BucketsKnowTheirSlot
<1>7. ASSUME SweepDeleted PROVE slot' = slot
  BY <1>7 DEF SweepDeleted, HInv, Shape
<1>8. ASSUME NEW k \in Key, Lookup(k) \/ DeleteAbsent(k) \/ Diverge(k) PROVE slot' = slot
  BY <1>8 DEF Lookup, DeleteAbsent, Diverge
<1>9. ASSUME Length \/ Stuck \/ UNCHANGED vars PROVE slot' = slot
  BY <1>9 DEF Length, Stuck, vars
<1> QED BY <1>1, <1>3, <1>4, <1>5, <1>6, <1>7, <1>8, <1>9 DEF Next

LEMMA WalkInvStays ==
  ASSUME HInv, WalkInv, [IterTable]_<<vars, itervars>>
  PROVE  HInv' /\ WalkInv'
<1>0. Indices \subseteq Nat
  BY IndicesAreNumbers DEF HInv
<1>1. CASE TableStep
  <2>1. [Next]_vars
    BY <1>1 DEF TableStep
  <2>2. HInv'
    BY <2>1, HInvStays
  <2>3. cursor' = cursor /\ walk' = walk /\ seen' = seen
        /\ grown' = (grown \/ (walk = "on" /\ bits' # bits))
    BY <1>1 DEF TableStep
  <2>4. steady' = steady \cap {slot'[i].key : i \in {j \in DOMAIN slot' : ~Empty(slot'[j])}}
    BY <1>1 DEF TableStep
  <2>5. DOMAIN slot' = Indices'
    BY <2>2 DEF HInv, Shape
  <2>6. steady' \subseteq KeysIn' /\ steady' \subseteq steady
    BY <2>4, <2>5 DEF KeysIn, Buckets
  <2>7. ASSUME walk' = "on", ~grown',
               NEW i \in Buckets', slot'[i].key \in steady', i < cursor'
        PROVE  slot'[i].key \in seen'
    <3>0. SameSize /\ ~grown /\ walk = "on"
      BY <2>3, <2>7 DEF SameSize
    <3>1. slot'[i].key \in KeysIn
      BY <2>6, <2>7 DEF WalkInv
    <3>2. i \in Buckets /\ slot'[i].key = slot[i].key
      BY <2>1, <2>2, <3>0, <3>1, BucketsStayPut
    <3> QED BY <2>3, <2>6, <2>7, <3>0, <3>2 DEF WalkInv
  <2>8. walk' = "over" /\ ~grown' => steady' \subseteq seen'
    BY <2>3, <2>6 DEF WalkInv
  <2> QED BY <2>2, <2>3, <2>6, <2>7, <2>8 DEF WalkInv
<1>2. ASSUME UNCHANGED vars PROVE HInv' /\ Buckets' = Buckets /\ KeysIn' = KeysIn /\ slot' = slot
  <2>1. Indices' = Indices
    BY <1>2 DEF vars, Indices
  <2>2. HInv' /\ Buckets' = Buckets /\ slot' = slot
    BY <2>1, <1>2, HInvStays DEF vars, Buckets
  <2> QED BY <2>2 DEF KeysIn
<1>3. CASE IterStart
  <2>1. walk' = "on" /\ cursor' = 0 /\ steady' = KeysIn /\ UNCHANGED vars
    BY <1>3 DEF IterStart
  <2>2. HInv' /\ Buckets' = Buckets /\ KeysIn' = KeysIn /\ slot' = slot
    BY <2>1, <1>2
  <2>3. \A i \in Buckets' : ~(i < cursor')
    <3>1. Buckets \subseteq Nat
      BY <1>0 DEF Buckets
    <3>2. \A i \in Nat : ~(i < 0)
      OBVIOUS
    <3> QED BY ONLY <2>1, <2>2, <3>1, <3>2
  <2> QED BY <2>1, <2>2, <2>3 DEF WalkInv
<1>4. CASE IterNext
  <2>1. Min(Ahead) \in Ahead /\ \A m \in Ahead : Min(Ahead) <= m
    <3>1. Ahead \in SUBSET Nat /\ Ahead # {}
      BY <1>4, <1>0 DEF IterNext, Ahead, Buckets
    <3> QED BY <3>1, LeastExists
  <2>2. PICK i \in Ahead : /\ i = Min(Ahead) /\ cursor' = i + 1
                           /\ seen' = seen \cup {slot[i].key}
    BY <1>4, <2>1 DEF IterNext
  <2>3. walk' = walk /\ walk = "on" /\ steady' = steady /\ grown' = grown /\ UNCHANGED vars
    BY <1>4 DEF IterNext
  <2>4. i \in Nat
    BY <1>0 DEF Ahead, Buckets
  <2>5. ASSUME ~grown, NEW j \in Buckets, j < cursor', slot[j].key \in steady
        PROVE  slot[j].key \in seen'
    <3>1. j \in Nat
      BY <1>0 DEF Buckets
    <3>2. CASE j < cursor
      BY <2>2, <2>3, <2>5, <3>2 DEF WalkInv
    <3>3. CASE j >= cursor
      <4>1. j \in Ahead
        BY <3>3 DEF Ahead
      <4>2. j = i
        BY <4>1, <2>1, <2>2, <2>4, <2>5, <3>1
      <4> QED BY <4>2, <2>2
    <3> QED BY <3>1, <3>2, <3>3 DEF WalkInv
  <2> QED BY <2>2, <2>3, <2>4, <2>5, <1>2 DEF WalkInv
<1>5. CASE IterOver
  <2>1. walk' = "over" /\ walk = "on" /\ cursor' = cursor /\ steady' = steady /\ seen' = seen
        /\ grown' = grown /\ UNCHANGED vars /\ Ahead = {}
    BY <1>5 DEF IterOver
  <2>2. \A j \in Buckets : j < cursor
    BY <2>1, <1>0 DEF Ahead, Buckets, WalkInv
  <2>3. ASSUME ~grown, NEW k \in steady PROVE k \in seen
    <3>1. PICK j \in Buckets : k = slot[j].key
      BY DEF WalkInv, KeysIn
    <3> QED BY <2>1, <2>2, <2>3, <3>1 DEF WalkInv
  <2> QED BY <2>1, <2>3, <1>2 DEF WalkInv
<1>6. CASE UNCHANGED <<vars, itervars>>
  BY <1>2, <1>6 DEF WalkInv, itervars
<1> QED BY <1>1, <1>3, <1>4, <1>5, <1>6 DEF IterTable

(***************************************************************************)
(* An iteration that has ended over a table that was not expanded under it *)
(* returned every key that was there all along, whatever was inserted,     *)
(* deleted or swept between two calls of arc_xhash_iter.                   *)
(***************************************************************************)
THEOREM IterationIsComplete == IterSpec => []IterationMissesNothing
<1>1. IterInit => HInv /\ WalkInv
  <2> SUFFICES ASSUME IterInit PROVE HInv /\ WalkInv
    OBVIOUS
  <2>1. HInv
    BY HInvStart DEF IterInit
  <2> QED BY <2>1 DEF IterInit, WalkInv
<1>2. HInv /\ WalkInv /\ [IterTable]_<<vars, itervars>> => HInv' /\ WalkInv'
  BY WalkInvStays
<1>3. WalkInv => IterationMissesNothing
  BY DEF WalkInv, IterationMissesNothing
<1> QED BY <1>1, <1>2, <1>3, PTL DEF IterSpec, IterTable
=============================================================================
