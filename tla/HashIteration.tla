--------------------------- MODULE HashIteration ---------------------------
(***************************************************************************)
(* arc_xhash_iter over a table that changes between two of its calls, as   *)
(* maptable lets it (arc_xhash_map, hash_xcoerce, hash_xhash).             *)
(***************************************************************************)
EXTENDS HashTable

VARIABLES
  walk,       \* "none", "on" or "over"
  cursor,     \* the next index the iteration looks at
  seen,       \* the keys it returned
  steady,     \* ghost: keys in the table since it began, never removed
  grown       \* ghost: the table was expanded under it

itervars == <<walk, cursor, seen, steady, grown>>

IterInit ==
  /\ Init
  /\ walk = "none" /\ cursor = 0 /\ seen = {} /\ steady = {} /\ grown = FALSE

IterStart ==
  /\ walk = "none"
  /\ walk' = "on" /\ cursor' = 0 /\ seen' = {} /\ steady' = KeysIn /\ grown' = FALSE
  /\ UNCHANGED vars

(* The slots still to be looked at, in the table as it is now. *)
SlipAhead == {j \in Buckets : j > cursor}
Ahead == {j \in Buckets : j >= cursor}

IterNext ==
  /\ walk = "on"
  /\ Ahead # {}
  /\ LET i == Min(Ahead)
     IN cursor' = i + 1 /\ seen' = seen \cup {slot[i].key}
  /\ UNCHANGED <<walk, steady, grown>>
  /\ UNCHANGED vars

IterOver ==
  /\ walk = "on"
  /\ Ahead = {}
  /\ walk' = "over"
  /\ UNCHANGED <<cursor, seen, steady, grown>>
  /\ UNCHANGED vars

(* Any operation on the table, between two calls of the iterator. *)
TableStep ==
  /\ Next
  /\ steady' = steady \cap {slot'[i].key : i \in {j \in DOMAIN slot' : ~Empty(slot'[j])}}
  /\ grown' = (grown \/ (walk = "on" /\ bits' # bits))
  /\ UNCHANGED <<walk, cursor, seen>>

IterSpec ==
  IterInit /\ [][TableStep \/ IterStart \/ IterNext \/ IterOver]_<<vars, itervars>>

-----------------------------------------------------------------------------
(* An iteration that has ended, over a table that was not expanded under   *)
(* it, has returned every key that was in the table all along, whatever    *)
(* was inserted, deleted or swept meanwhile (arc_xhash_iter).              *)
IterationMissesNothing == walk = "over" /\ ~grown => steady \subseteq seen
=============================================================================
