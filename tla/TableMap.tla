------------------------------ MODULE TableMap ------------------------------
(***************************************************************************)
(* What a table of hash.c promises its users: a finite map from keys to    *)
(* values.  A weak table may lose a binding nobody else refers to.         *)
(***************************************************************************)
EXTENDS FiniteSets

CONSTANTS Key, Value,
          Absent      \* CUNBOUND: the answer for a key that has no binding

VARIABLES map,        \* the value bound to each key, or Absent
          ret,        \* the answer of the last operation
          weak        \* whether the collector may forget a binding

Init == map = [k \in Key |-> Absent] /\ ret = Absent /\ weak \in BOOLEAN

Insert(k, v) == map' = [map EXCEPT ![k] = v] /\ ret' = v

Lookup(k) == ret' = map[k] /\ UNCHANGED map

Delete(k) == ret' = map[k] /\ map' = [map EXCEPT ![k] = Absent]

Length == ret' = Cardinality({k \in Key : map[k] # Absent}) /\ UNCHANGED map

Forget(k) == weak /\ map' = [map EXCEPT ![k] = Absent] /\ UNCHANGED ret

Next ==
  \/ \E k \in Key : Lookup(k) \/ Delete(k) \/ Forget(k) \/ \E v \in Value : Insert(k, v)
  \/ Length

Spec == Init /\ [][Next /\ UNCHANGED weak]_<<map, ret, weak>>
=============================================================================
