------------------------- MODULE ChannelRefinement -------------------------
(***************************************************************************)
(* Every channel of Threads implements ChannelSlot, in programs that       *)
(* neither kill nor break threads: the queues, the thread states and the   *)
(* dispatcher's walk are hidden, what remains is the slot and the calls    *)
(* the threads are in.                                                     *)
(***************************************************************************)
EXTENDS Threads

CONSTANT Watched   \* the channel looked at, any one of them
ASSUME WatchedAssumption == Watched \in Chan

(* What thread t is asking of the watched channel. *)
Asking(t) ==
  IF call[t].fn \in {"recv", "send"} /\ call[t].chan = Watched
  THEN call[t] ELSE NoCall

Slot == INSTANCE ChannelSlot WITH
  Empty <- NoVal, Idle <- NoCall, Receiving <- RecvCall(Watched),
  Sending <- LAMBDA v : SendCall(Watched, v),
  slot <- IF hasdata[Watched] THEN data[Watched] ELSE NoVal,
  want <- [t \in Thread |-> Asking(t)]

(* The refinement of chan.c: values are neither lost nor duplicated, and   *)
(* with the dispatcher's fairness a waiting receiver is served while there *)
(* is a value and a waiting sender while there is room.                    *)
ImplementsSlot == Slot!Spec

=============================================================================
