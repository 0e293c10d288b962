---------------------------- MODULE ChannelSlot ----------------------------
(***************************************************************************)
(* What a channel of chan.c promises its users: a slot for one value.  A   *)
(* receive takes the value that is there, a send fills the slot when it is *)
(* empty, and a thread whose operation cannot go on asks and waits.  No    *)
(* value is lost, duplicated or overwritten, and while threads are asking  *)
(* for what the slot can give, one of them eventually gets it.             *)
(***************************************************************************)
CONSTANTS Thread, Value, Empty, Idle, Receiving, Sending(_)

VARIABLES slot,   \* the value in the channel, or Empty
          want    \* what each thread is asking of the channel

vars == <<slot, want>>

Init == slot = Empty /\ want = [t \in Thread |-> Idle]

AskRecv(t) ==
  /\ want[t] = Idle /\ slot = Empty
  /\ want' = [want EXCEPT ![t] = Receiving]
  /\ UNCHANGED slot

AskSend(t, v) ==
  /\ want[t] = Idle /\ slot # Empty
  /\ want' = [want EXCEPT ![t] = Sending(v)]
  /\ UNCHANGED slot

(* The operation completes, at once or after having waited. *)
Recv(t) ==
  /\ want[t] \in {Idle, Receiving} /\ slot # Empty
  /\ slot' = Empty
  /\ want' = [want EXCEPT ![t] = Idle]

Send(t, v) ==
  /\ want[t] \in {Idle, Sending(v)} /\ slot = Empty
  /\ slot' = v
  /\ want' = [want EXCEPT ![t] = Idle]

Next ==
  \/ \E t \in Thread : AskRecv(t) \/ Recv(t)
  \/ \E t \in Thread, v \in Value : AskSend(t, v) \/ Send(t, v)

(* Some waiting operation completes when the slot lets one. *)
SomeRecv == \E t \in Thread : want[t] = Receiving /\ Recv(t)
SomeSend == \E t \in Thread, v \in Value : want[t] = Sending(v) /\ Send(t, v)

Safety == Init /\ [][Next]_vars
Spec == Safety /\ WF_vars(SomeRecv) /\ WF_vars(SomeSend)

=============================================================================
