-------------------------- MODULE MCHashIteration --------------------------
(* Small instances of HashTable and HashIteration for TLC. *)
EXTENDS HashIteration, TLC

CONSTANTS k1, k2, k3, k4, v1, v2

ThreeKeys == {k1, k2, k3}
FourKeys  == {k1, k2, k3, k4}
OneVal    == {v1}
TwoVals   == {v1, v2}

(* Keys that collide at their first probe, and keys that meet only later   *)
(* in their probe sequences.                                               *)
Hashes    == {0, 3}
(* Keys with a slot each in a table of 4.                                  *)
Apart     == {0, 1, 2, 3}

(* Keys and values are alike: arc_hash is any function. *)
Alike     == Permutations(ThreeKeys) \cup Permutations(TwoVals)
=============================================================================
