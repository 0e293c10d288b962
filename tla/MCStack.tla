------------------------------ MODULE MCStack -------------------------------
(* A small instance of Stack for TLC: one value besides Unbound, which is   *)
(* enough to tell a stale variable from an assigned one.                    *)
EXTENDS Stack

CONSTANT v1

OneVal == {v1}
=============================================================================
