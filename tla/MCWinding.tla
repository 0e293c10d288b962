----------------------------- MODULE MCWinding -----------------------------
(* Instances of Winding for TLC.  A few calls of the operations, each in any *)
(* thunk or extent, are enough to throw out of a thunk into a sibling extent *)
(* and back; the frames grow only by calls, so Fuel bounds the state.        *)
EXTENDS Winding
=============================================================================
