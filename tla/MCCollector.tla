---------------------------- MODULE MCCollector -----------------------------
(* Small instances of Collector for TLC. *)
EXTENDS CollectorSnapshot

CONSTANTS o1, o2

TwoObjs   == {o1, o2}
=============================================================================
