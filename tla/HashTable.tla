----------------------------- MODULE HashTable -----------------------------
(***************************************************************************)
(* The hash tables of hash.c: open addressing with triangular probing,     *)
(* CUNDEF tombstones, doubling when the count of entries passes 70% of the *)
(* slots, and the sweepers that detach buckets from the table.  Every      *)
(* operation runs to its end without yielding, so it is one step.          *)
(*                                                                         *)
(* An operator named Slip... is a faulty variant of the definition that    *)
(* follows it; no specification uses it.                                   *)
(***************************************************************************)
EXTENDS Naturals, FiniteSets, FiniteSetsExt

CONSTANTS Key, Value,
          HashVal,    \* the hash values arc_hash may give to a key
          InitBits,   \* ARC_HASHBITS
          MaxBits,    \* bound on the growth of the table
          Absent,     \* CUNBOUND as an answer
          Unbound,    \* CUNBOUND in a slot: never used
          Undef       \* CUNDEF in a slot: the tombstone of a deleted entry

ASSUME HashAssumption ==
  /\ HashVal \subseteq Nat /\ HashVal # {}
  /\ InitBits \in Nat /\ MaxBits \in Nat /\ InitBits <= MaxBits

(* CUNBOUND and CUNDEF are immediate values: neither is a bucket, and no   *)
(* program can bind a key to CUNBOUND.                                     *)
ASSUME MarkAssumption ==
  /\ Unbound # Undef
  /\ Absent \notin Value
  /\ {Unbound, Undef} \cap [key : Key, val : Value, index : Nat] = {}

VARIABLES
  hash,       \* arc_hash: any function, chosen once
  weak,       \* whether the table was made by arc_mkwtable
  bits,       \* HASH_BITS
  nentries,   \* HASH_NENTRIES
  slot,       \* HASH_TABLE
  ret,        \* the answer of the last operation
  doomed,     \* BINDEX and BTABLE of a deleted bucket not swept yet
  looping     \* an operation is caught in the loop of hash_lookup

vars == <<hash, weak, bits, nentries, slot, ret, doomed, looping>>

-----------------------------------------------------------------------------
(* HASHSIZE: a table of b bits has 2 ^ b slots. *)
Doubled[b \in 0 .. MaxBits] == IF b = 0 THEN 1 ELSE 2 * Doubled[b - 1]
Size(b)   == Doubled[b]
Limit(b)  == (Size(b) * 70) \div 100
Indices   == 0 .. Size(bits) - 1

(* The i-th slot looked at for hash value h: PROBE(i) is added each time.  *)
(* The size is a power of two, so the first Size(b) probes see every slot. *)
At(h, i, b) == (h + (i * (i + 1)) \div 2) % Size(b)

Empty(e)  == e \in {Unbound, Undef}
Buckets   == {i \in Indices : ~Empty(slot[i])}
KeysIn    == {slot[i].key : i \in Buckets}
Bucket(k, v, i) == [key |-> k, val |-> v, index |-> i]

(* hash_lookup stops at the key or at a slot that was never used.          *)
SlipStops(k) == {i \in Indices : LET e == slot[At(hash[k], i, bits)]
                                 IN e \in {Unbound, Undef} \/ (~Empty(e) /\ e.key = k)}
Stops(k) == {i \in Indices : LET e == slot[At(hash[k], i, bits)]
                             IN e = Unbound \/ (~Empty(e) /\ e.key = k)}
Place(k)   == At(hash[k], Min(Stops(k)), bits)
Found(k)   == Stops(k) # {} /\ ~Empty(slot[Place(k)])
Missing(k) == Stops(k) # {} /\ Empty(slot[Place(k)])

(* The first empty slot for h in table t of 2^b slots. *)
FreeAt(t, h, b) == At(h, Min({i \in 0 .. Size(b) - 1 : Empty(t[At(h, i, b)])}), b)

(* hashtable_expand puts the buckets, in the order of their slots, into a  *)
(* table of 2^b slots, which has no tombstones: the table after its loop   *)
(* has looked at j slots.                                                  *)
Reinsert(t, e, b) ==
  LET i == FreeAt(t, hash[e.key], b) IN [t EXCEPT ![i] = [e EXCEPT !.index = i]]

Rebuilt(b) ==
  LET new[j \in 0 .. Size(bits)] ==
        IF j = 0 THEN [i \in 0 .. Size(b) - 1 |-> Unbound]
        ELSE IF Empty(slot[j - 1]) THEN new[j - 1]
        ELSE Reinsert(new[j - 1], slot[j - 1], b)
  IN new

Expanded(b) == Rebuilt(b)[Size(bits)]

-----------------------------------------------------------------------------
Init ==
  /\ hash \in [Key -> HashVal]
  /\ weak \in BOOLEAN
  /\ bits = InitBits
  /\ nentries = 0
  /\ slot = [i \in 0 .. Size(InitBits) - 1 |-> Unbound]
  /\ ret = Absent
  /\ doomed = {}
  /\ looping = FALSE

Lookup(k) ==
  /\ ~looping
  /\ \/ Found(k) /\ ret' = slot[Place(k)].val
     \/ Missing(k) /\ ret' = Absent
  /\ UNCHANGED <<hash, weak, bits, nentries, slot, doomed, looping>>

(* An existing binding is overwritten in its bucket. *)
Overwrite(k, v) ==
  /\ ~looping
  /\ Found(k)
  /\ slot' = [slot EXCEPT ![Place(k)].val = v]
  /\ ret' = v
  /\ UNCHANGED <<hash, weak, bits, nentries, doomed, looping>>

(* A new one goes to the first empty slot, after an expansion if the count *)
(* of entries is at its limit.                                             *)
SlipGrows == FALSE
Grows == nentries + 1 > Limit(bits)

AddTo(t, b, k, v) ==
  LET i == FreeAt(t, hash[k], b)
  IN /\ bits' = b
     /\ slot' = [t EXCEPT ![i] = Bucket(k, v, i)]

Add(k, v) ==
  /\ ~looping
  /\ Missing(k)
  /\ \/ ~Grows /\ AddTo(slot, bits, k, v)
     \/ Grows /\ bits < MaxBits /\ AddTo(Expanded(bits + 1), bits + 1, k, v)
  /\ nentries' = nentries + 1
  /\ ret' = v
  /\ UNCHANGED <<hash, weak, doomed, looping>>

(* A deleted bucket loses its BTABLE link, so that its sweeper will leave  *)
(* the table alone.                                                        *)
SlipDetached(i) == [index |-> i, linked |-> TRUE]
Detached(i) == [index |-> i, linked |-> FALSE]

TakeOut(i) ==
  /\ slot' = [slot EXCEPT ![i] = Undef]
  /\ doomed' = {Detached(i)}
  /\ nentries' = nentries - 1
  /\ UNCHANGED <<hash, weak, bits, looping>>

(* arc_hash_delete goes by the index the lookup found, arc_xhash_delete by *)
(* the index stored in the bucket.                                         *)
Delete(k) == ~looping /\ Found(k) /\ TakeOut(Place(k)) /\ ret' = slot[Place(k)].val

XDelete(k) ==
  /\ ~looping
  /\ Found(k)
  /\ LET i == slot[Place(k)].index IN TakeOut(i) /\ ret' = slot[i].val

DeleteAbsent(k) ==
  /\ ~looping
  /\ Missing(k)
  /\ ret' = Absent
  /\ UNCHANGED <<hash, weak, bits, nentries, slot, doomed, looping>>

(* Every operation begins with a lookup; one that meets neither its key    *)
(* nor an unused slot probes for ever.                                     *)
Diverge(k) ==
  /\ ~looping
  /\ Stops(k) = {}
  /\ looping' = TRUE
  /\ UNCHANGED <<hash, weak, bits, nentries, slot, ret, doomed>>

Length ==
  /\ ~looping
  /\ ret' = Cardinality(Buckets)
  /\ UNCHANGED <<hash, weak, bits, nentries, slot, doomed, looping>>

-----------------------------------------------------------------------------
(* The collector sweeps a deleted bucket, or a bucket of a weak table.     *)
SweepDeleted ==
  /\ ~looping
  /\ \E d \in doomed :
       slot' = IF d.linked /\ d.index \in Indices THEN [slot EXCEPT ![d.index] = Undef] ELSE slot
  /\ doomed' = {}
  /\ UNCHANGED <<hash, weak, bits, nentries, ret, looping>>

SweepWeak(i) ==
  /\ ~looping
  /\ weak
  /\ i \in Buckets
  /\ slot' = [slot EXCEPT ![slot[i].index] = Undef]
  /\ UNCHANGED <<hash, weak, bits, nentries, ret, doomed, looping>>

Stuck == looping /\ UNCHANGED vars

Next ==
  \/ \E k \in Key : \/ Lookup(k) \/ Delete(k) \/ XDelete(k) \/ DeleteAbsent(k) \/ Diverge(k)
                    \/ \E v \in Value : Overwrite(k, v) \/ Add(k, v)
  \/ Length
  \/ SweepDeleted
  \/ \E i \in Indices : SweepWeak(i)
  \/ Stuck

Spec == Init /\ [][Next]_vars

-----------------------------------------------------------------------------
(***************************************************************************)
(* Properties.                                                             *)
(***************************************************************************)
TypeOK ==
  /\ hash \in [Key -> HashVal]
  /\ weak \in BOOLEAN
  /\ bits \in InitBits .. MaxBits
  /\ nentries \in Nat
  /\ DOMAIN slot = Indices
  /\ \A i \in Buckets : slot[i] \in [key : Key, val : Value, index : Indices]
  /\ looping \in BOOLEAN

(* Every bucket can be reached: the probes for its key come to its slot    *)
(* before they come to an unused slot or to another bucket of the same     *)
(* key, after any sequence of inserts, deletes, sweeps and expansions      *)
(* (hash_lookup against the slots that arc_hash_insert and                 *)
(* hashtable_expand choose).                                               *)
BucketsAreReachable ==
  \A i \in Buckets : Found(slot[i].key) /\ Place(slot[i].key) = i

(* A bucket knows its slot, which arc_xhash_delete and hb_sweeper rely on  *)
(* to clear the right one.                                                 *)
BucketsKnowTheirSlot == \A i \in Buckets : slot[i].index = i

(* The count of entries never falls behind the number of buckets, so the   *)
(* load limit leaves an empty slot and the second loop of arc_hash_insert  *)
(* ends; only a weak table's sweeper lets it run ahead.                    *)
CountIsSafe ==
  /\ Cardinality(Buckets) <= nentries /\ nentries <= Limit(bits)
  /\ ~weak => nentries = Cardinality(Buckets)

(* "Since we enforce load factor, there will definitely be some table      *)
(* elements which remain unused": a search for an absent key always ends   *)
(* (hash_lookup).                                                          *)
SomeSlotUnused == \E i \in Indices : slot[i] = Unbound

(* The table is a map: what a lookup, a delete or a count answers is what  *)
(* the operations before it make of a map (the interface of hash.c).       *)
MapOf == [k \in Key |-> IF k \in KeysIn
                        THEN slot[CHOOSE i \in Buckets : slot[i].key = k].val
                        ELSE Absent]
Promise == INSTANCE TableMap WITH map <- MapOf
ImplementsMap == Promise!Spec
=============================================================================
