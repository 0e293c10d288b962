------------------------------ MODULE MCAtomic ------------------------------
(* Small instances of Atomic for TLC. *)
EXTENDS Atomic

CONSTANTS t1, t2, t3, c1, v1

Three    == {t1, t2, t3}
OneChan  == {c1}
OneVal   == {v1}
Nothing  == {}
Kills    == {"kill"}

(* Every thread but Main is like any other. *)
Spawned  == Permutations({t2, t3})
=============================================================================
