------------------------------ MODULE Threads ------------------------------
(***************************************************************************)
(* Arcueid's green threads: the dispatcher of thread.c walking its run     *)
(* queue, and the operations a thread performs while the dispatcher runs   *)
(* it: spawn, sleep, I/O wait, the two channel operations of chan.c, join, *)
(* kill, break and the atomic cell.                                        *)
(*                                                                         *)
(* One operation is one step: a foreign function (AFF) runs without being  *)
(* preempted from its entry to its return or to its AYIELD, and a blocked  *)
(* operation is entered again, from its loop test, when its thread is next *)
(* dispatched.  Between two operations a thread can be preempted (Preempt) *)
(* because its quantum ran out.  A program is whatever sequence of         *)
(* operations its threads choose.                                          *)
(*                                                                         *)
(* An operator named Slip... is a faulty variant of the definition that    *)
(* follows it, the kind of mistake the properties are there to notice; no  *)
(* specification uses it.                                                  *)
(***************************************************************************)
EXTENDS Naturals, Sequences, SequencesExt

CONSTANTS Thread,     \* the threads that can ever exist
          Main,       \* the thread spawned before the dispatcher starts
          Chan,       \* the channels
          AChan,      \* the channel bound to __achan__
          Value,      \* values sent over channels and returned by threads
          RetVal,     \* what a thread may return: values, or channels too
          NoVal,      \* stands for a return value that is not there yet
          Nil,        \* CNIL where a thread's cell of the run queue is expected
          Uses        \* which of kill, break and the atomic cell programs use

ASSUME MainAssumption == Main \in Thread
ASSUME AChanAssumption == AChan \in Chan
ASSUME RetValAssumption == RetVal \subseteq Value \cup Chan
ASSUME NoValAssumption == NoVal \notin Value \cup Chan /\ Value \cap Chan = {}
ASSUME NilAssumption == Nil \notin Thread
ASSUME UsesAssumption == Uses \subseteq {"kill", "break", "acell"}

VARIABLES
  state,        \* TSTATE of each thread
  call,         \* the blocking operation each thread is in the middle of
  acell,        \* TACELL of each thread
  valr,         \* what a released thread left in its value register
  rv,           \* TRVCH once it holds the return value; NoVal while a channel
  joinq,        \* receivers queued on each thread's return value channel
  hasdata, data, \* the slot of each channel
  rq, sq,       \* threads queued to receive from and to send on each channel
  vmthreads,    \* the dispatcher's run queue, from its head
  vmthrtail,    \* the thread of the cell the tail pointer points to
  pos,          \* the cell of vmthreads the walk has reached
  prev,         \* the thread of the cell an unlinking would relink
  phase,        \* what the dispatcher is doing
  idle,         \* blockedthreads = nthreads so far in this walk
  iowaitdata    \* threads this walk collected in Tiowait

thrvars  == <<state, call, acell, valr, rv, joinq>>
chanvars == <<hasdata, data, rq, sq>>
dispvars == <<vmthreads, vmthrtail, pos, prev, phase, idle, iowaitdata>>
vars == <<state, call, acell, valr, rv, joinq, hasdata, data, rq, sq,
          vmthreads, vmthrtail, pos, prev, phase, idle, iowaitdata>>

(***************************************************************************)
(* The calls a thread can be suspended in.  ErrCall is the call of arc_err *)
(* that a break plants in its target.                                      *)
(***************************************************************************)
NoCall         == [fn |-> "none"]
ErrCall        == [fn |-> "err"]
RecvCall(c)    == [fn |-> "recv", chan |-> c]
SendCall(c, v) == [fn |-> "send", chan |-> c, val |-> v]
JoinCall(u)    == [fn |-> "join", thr |-> u]

Call == {NoCall, ErrCall} \cup {RecvCall(c) : c \in Chan}
          \cup {SendCall(c, v) : c \in Chan, v \in Value}
          \cup {JoinCall(u) : u \in Thread}

(* "unborn" is not a state of the code: the thread does not exist yet.     *)
Blocked == {"Tsend", "Trecv"}
Stopped == {"Trelease", "Tbroken"}
State   == {"unborn", "Tready", "Tsleep", "Tiowait"} \cup Blocked \cup Stopped

TypeOK ==
  /\ state \in [Thread -> State]
  /\ call \in [Thread -> Call]
  /\ acell \in [Thread -> BOOLEAN]
  /\ valr \in [Thread -> RetVal \cup {NoVal}]
  /\ rv \in [Thread -> RetVal \cup {NoVal}]
  /\ joinq \in [Thread -> Seq(Thread)]
  /\ hasdata \in [Chan -> BOOLEAN]
  /\ data \in [Chan -> Value \cup {NoVal}]
  /\ rq \in [Chan -> Seq(Thread)]
  /\ sq \in [Chan -> Seq(Thread)]
  /\ vmthreads \in Seq(Thread)
  /\ vmthrtail \in Thread \cup {Nil}
  /\ pos \in 1 .. Len(vmthreads) + 1
  /\ prev \in Thread \cup {Nil}
  /\ phase \in {"visit", "run", "returned"}
  /\ phase = "run" => pos <= Len(vmthreads)
  /\ idle \in BOOLEAN
  /\ iowaitdata \in SUBSET Thread

Init ==
  /\ state = [t \in Thread |-> IF t = Main THEN "Tready" ELSE "unborn"]
  /\ call = [t \in Thread |-> NoCall]
  /\ acell = [t \in Thread |-> FALSE]
  /\ valr = [t \in Thread |-> NoVal]
  /\ rv = [t \in Thread |-> NoVal]
  /\ joinq = [t \in Thread |-> <<>>]
  /\ hasdata = [c \in Chan |-> FALSE]
  /\ data = [c \in Chan |-> NoVal]
  /\ rq = [c \in Chan |-> <<>>]
  /\ sq = [c \in Chan |-> <<>>]
  /\ vmthreads = <<Main>>
  /\ vmthrtail = Main
  /\ pos = 1
  /\ prev = Nil
  /\ phase = "visit"
  /\ idle = TRUE
  /\ iowaitdata = {}

-----------------------------------------------------------------------------
(* Queues and wake-ups.  Waking a thread sets its state whatever it was.   *)

SlipDequeue(q) == q
Dequeue(q) == IF q = <<>> THEN q ELSE Tail(q)

SlipWakeHead(st, q) == st
WakeHead(st, q) == IF q = <<>> THEN st ELSE [st EXCEPT ![Head(q)] = "Tready"]

SlipWakeAll(st, ts) == st
WakeAll(st, ts) == [t \in Thread |-> IF t \in ts THEN "Tready" ELSE st[t]]

(* The thread the dispatcher is running (c->curthread). *)
Running(t) == phase = "run" /\ t = vmthreads[pos]
Free(t)    == Running(t) /\ call[t] = NoCall

(* scdr on the cell of t: what is reached from the head q then.  The cell  *)
(* may have left the queue, and then nothing changes for those in it.      *)
Scdr(q, t, rest) ==
  IF t \in ToSet(q)
  THEN SubSeq(q, 1, CHOOSE i \in 1 .. Len(q) : q[i] = t) \o rest
  ELSE q

(* __arc_enqueue: through the tail pointer unless the queue is empty. *)
Enqueue(q, tail, t) == IF q = <<>> /\ tail = Nil THEN <<t>> ELSE Scdr(q, tail, <<t>>)

(* Taking the walk's cell out of the run queue: relinking the cell before  *)
(* it, or moving the head, and moving the tail when it was the last.       *)
Relink ==
  LET rest == SubSeq(vmthreads, pos + 1, Len(vmthreads))
  IN  vmthreads' = IF prev = Nil THEN rest ELSE Scdr(vmthreads, prev, rest)

SlipUnlink == Relink /\ UNCHANGED <<vmthrtail, prev>>     \* the tail is not moved
Unlink ==
  /\ Relink
  /\ vmthrtail' = IF pos = Len(vmthreads) THEN prev ELSE vmthrtail
  /\ UNCHANGED prev

(* The walk leaves its cell in the queue and goes on to the next one. *)
SlipOnward == pos' = pos + 1 /\ UNCHANGED <<vmthreads, vmthrtail, prev>>     \* prev stays behind
Onward ==
  /\ pos' = pos + 1
  /\ prev' = vmthreads[pos]
  /\ UNCHANGED <<vmthreads, vmthrtail>>

(* The trampoline gives the processor back: the walk goes on. *)
SlipSuspendSkip ==
  /\ phase' = "visit"
  /\ pos' = pos + 2
  /\ UNCHANGED <<vmthreads, vmthrtail, prev, idle, iowaitdata>>
Suspend ==
  /\ phase' = "visit"
  /\ Onward
  /\ UNCHANGED <<idle, iowaitdata>>

-----------------------------------------------------------------------------
(* The bodies of the blocking functions, from their loop test on.  st is   *)
(* the thread state the caller has already arrived at.                     *)

RecvBlocks(t, c, st) ==
  /\ ~hasdata[c]
  /\ rq' = [rq EXCEPT ![c] = Append(@, t)]
  /\ state' = [st EXCEPT ![t] = "Trecv"]
  /\ call' = [call EXCEPT ![t] = RecvCall(c)]
  /\ Suspend
  /\ UNCHANGED <<hasdata, data, sq>>

RecvTakes(t, c, st) ==
  /\ hasdata[c]
  /\ hasdata' = [hasdata EXCEPT ![c] = FALSE]
  /\ sq' = [sq EXCEPT ![c] = Dequeue(@)]
  /\ state' = WakeHead(st, sq[c])
  /\ call' = [call EXCEPT ![t] = NoCall]
  /\ UNCHANGED <<data, rq>>
  /\ UNCHANGED dispvars

RecvBody(t, c, st) == RecvBlocks(t, c, st) \/ RecvTakes(t, c, st)

SendBlocks(t, c, v) ==
  /\ hasdata[c]
  /\ sq' = [sq EXCEPT ![c] = Append(@, t)]
  /\ state' = [state EXCEPT ![t] = "Tsend"]
  /\ call' = [call EXCEPT ![t] = SendCall(c, v)]
  /\ Suspend
  /\ UNCHANGED <<hasdata, data, rq>>

SendPuts(t, c, v) ==
  /\ ~hasdata[c]
  /\ hasdata' = [hasdata EXCEPT ![c] = TRUE]
  /\ data' = [data EXCEPT ![c] = v]
  /\ rq' = [rq EXCEPT ![c] = Dequeue(@)]
  /\ state' = WakeHead(state, rq[c])
  /\ call' = [call EXCEPT ![t] = NoCall]
  /\ UNCHANGED sq
  /\ UNCHANGED dispvars

SendBody(t, c, v) == SendBlocks(t, c, v) \/ SendPuts(t, c, v)

(* join-thread loops while the TRVCH of u is a channel: its own return     *)
(* value channel until u is reaped, then whatever channel u returned.      *)
SlipJoinWaits(t, u) ==
  /\ joinq' = [joinq EXCEPT ![u] = Append(@, t)]
  /\ state' = [state EXCEPT ![t] = "Trecv"]
  /\ call' = [call EXCEPT ![t] = JoinCall(u)]
  /\ Suspend
  /\ UNCHANGED chanvars

JoinWaits(t, u) ==
  /\ rv[u] = NoVal
  /\ joinq' = [joinq EXCEPT ![u] = Append(@, t)]
  /\ state' = [state EXCEPT ![t] = "Trecv"]
  /\ call' = [call EXCEPT ![t] = JoinCall(u)]
  /\ Suspend
  /\ UNCHANGED chanvars

JoinReturns(t, u) ==
  /\ rv[u] \in Value
  /\ call' = [call EXCEPT ![t] = NoCall]
  /\ UNCHANGED <<state, joinq>>
  /\ UNCHANGED chanvars
  /\ UNCHANGED dispvars

JoinChan(t, u) ==
  /\ rv[u] \in Chan
  /\ call' = [call EXCEPT ![t] = JoinCall(u)]
  /\ \/ /\ ~hasdata[rv[u]]
        /\ rq' = [rq EXCEPT ![rv[u]] = Append(@, t)]
        /\ state' = [state EXCEPT ![t] = "Trecv"]
        /\ Suspend
     \/ /\ hasdata[rv[u]]
        /\ UNCHANGED <<rq, state>>
        /\ UNCHANGED dispvars
  /\ UNCHANGED <<joinq, hasdata, data, sq>>

JoinBody(t, u) == JoinWaits(t, u) \/ JoinReturns(t, u) \/ JoinChan(t, u)

-----------------------------------------------------------------------------
(* What the running thread can do.                                         *)

Recv(t, c) ==
  /\ Free(t)
  /\ RecvBody(t, c, state)
  /\ UNCHANGED <<acell, valr, rv, joinq>>

Send(t, c, v) ==
  /\ Free(t)
  /\ SendBody(t, c, v)
  /\ UNCHANGED <<acell, valr, rv, joinq>>

Join(t, u) ==
  /\ Free(t)
  /\ state[u] # "unborn"
  /\ JoinBody(t, u)
  /\ UNCHANGED <<acell, valr, rv>>

(* Re-entry of the function the thread was suspended in. *)
SlipResumeRecv(t) ==     \* "if" instead of "while": no second look at the slot
  /\ Running(t)
  /\ call[t].fn = "recv"
  /\ hasdata' = [hasdata EXCEPT ![call[t].chan] = FALSE]
  /\ call' = [call EXCEPT ![t] = NoCall]
  /\ UNCHANGED <<state, acell, valr, rv, joinq, data, rq, sq>>
  /\ UNCHANGED dispvars

ResumeRecv(t) ==
  /\ Running(t)
  /\ call[t].fn = "recv"
  /\ RecvBody(t, call[t].chan, state)
  /\ UNCHANGED <<acell, valr, rv, joinq>>

ResumeSend(t) ==
  /\ Running(t)
  /\ call[t].fn = "send"
  /\ SendBody(t, call[t].chan, call[t].val)
  /\ UNCHANGED <<acell, valr, rv, joinq>>

ResumeJoin(t) ==
  /\ Running(t)
  /\ call[t].fn = "join"
  /\ JoinBody(t, call[t].thr)
  /\ UNCHANGED <<acell, valr, rv>>

Resume(t) == ResumeRecv(t) \/ ResumeSend(t) \/ ResumeJoin(t)

(* A thunk that is a closure or an AFF gives a thread the dispatcher runs. *)
Spawn(t, u) ==
  /\ Free(t)
  /\ state[u] = "unborn"
  /\ state' = [state EXCEPT ![u] = "Tready"]
  /\ vmthreads' = Enqueue(vmthreads, vmthrtail, u)
  /\ vmthrtail' = u
  /\ UNCHANGED <<call, acell, valr, rv, joinq, pos, prev, phase, idle, iowaitdata>>
  /\ UNCHANGED chanvars

(* A simple foreign function is over when arc_spawn has applied it. *)
SpawnForeign(t, u, v) ==
  /\ Free(t)
  /\ state[u] = "unborn"
  /\ state' = [state EXCEPT ![u] = "Trelease"]
  /\ valr' = [valr EXCEPT ![u] = v]
  /\ rv' = [rv EXCEPT ![u] = v]
  /\ UNCHANGED <<call, acell, joinq>>
  /\ UNCHANGED chanvars
  /\ UNCHANGED dispvars

Sleep(t) ==
  /\ Free(t)
  /\ state' = [state EXCEPT ![t] = "Tsleep"]
  /\ Suspend
  /\ UNCHANGED <<call, acell, valr, rv, joinq>>
  /\ UNCHANGED chanvars

Iowait(t) ==
  /\ Free(t)
  /\ state' = [state EXCEPT ![t] = "Tiowait"]
  /\ Suspend
  /\ UNCHANGED <<call, acell, valr, rv, joinq>>
  /\ UNCHANGED chanvars

AtomicCell(t, b) ==
  /\ "acell" \in Uses
  /\ Free(t)
  /\ acell' = [acell EXCEPT ![t] = b]
  /\ UNCHANGED <<state, call, valr, rv, joinq>>
  /\ UNCHANGED chanvars
  /\ UNCHANGED dispvars

(* The quantum ran out between two instructions. *)
Preempt(t) ==
  /\ Free(t)
  /\ Suspend
  /\ UNCHANGED thrvars
  /\ UNCHANGED chanvars

(* The last continuation returned (TR_RC with none left, or ihlt). *)
Return(t, v) ==
  /\ Free(t)
  /\ state' = [state EXCEPT ![t] = "Trelease"]
  /\ valr' = [valr EXCEPT ![t] = v]
  /\ Suspend
  /\ UNCHANGED <<call, acell, rv, joinq>>
  /\ UNCHANGED chanvars

(* arc_err, called by the thread or planted by a break: with no handler    *)
(* the thread is broken; with one, the handler's continuation goes on.     *)
ErrUncaught(t, v) ==
  /\ Running(t)
  /\ call[t] \in {NoCall, ErrCall}
  /\ state' = [state EXCEPT ![t] = "Tbroken"]
  /\ call' = [call EXCEPT ![t] = NoCall]
  /\ valr' = [valr EXCEPT ![t] = v]
  /\ Suspend
  /\ UNCHANGED <<acell, rv, joinq>>
  /\ UNCHANGED chanvars

ErrCaught(t) ==
  /\ Running(t)
  /\ call[t] = ErrCall
  /\ call' = [call EXCEPT ![t] = NoCall]
  /\ UNCHANGED <<state, acell, valr, rv, joinq>>
  /\ UNCHANGED chanvars
  /\ UNCHANGED dispvars

(* kill-thread: the target is broken whatever it was doing, and if its     *)
(* atomic cell is set the killer receives from __achan__ in its place.     *)
Kill(t, u) ==
  /\ "kill" \in Uses
  /\ Free(t)
  /\ state[u] # "unborn"
  /\ LET st == [state EXCEPT ![u] = "Tbroken"]
     IN \/ /\ ~acell[u]
           /\ state' = st
           /\ UNCHANGED <<call, acell>>
           /\ UNCHANGED chanvars
           /\ UNCHANGED dispvars
        \/ /\ acell[u]
           /\ acell' = [acell EXCEPT ![u] = FALSE]
           /\ RecvBody(t, AChan, st)
  /\ UNCHANGED <<valr, rv, joinq>>

(* break-thread on another thread. *)
Break(t, u) ==
  /\ "break" \in Uses
  /\ Free(t)
  /\ u # t
  /\ state[u] \in {"Tready", "Tsleep", "Tiowait"}
  /\ state' = [state EXCEPT ![u] = "Tready"]
  /\ call' = [call EXCEPT ![u] = ErrCall]
  /\ UNCHANGED <<acell, valr, rv, joinq>>
  /\ UNCHANGED chanvars
  /\ UNCHANGED dispvars

-----------------------------------------------------------------------------
(* The dispatcher's walk over vmthreads.                                   *)

Visiting(t) ==
  /\ phase = "visit"
  /\ pos <= Len(vmthreads)
  /\ t = vmthreads[pos]

(* A stopped thread: all its joiners are woken, TRVCH becomes its value    *)
(* and its cell is unlinked.  The value register of a killed thread holds  *)
(* whatever its last instruction left there.                               *)
Reap(t) ==
  /\ Visiting(t)
  /\ state[t] \in Stopped
  /\ \E v \in IF valr[t] = NoVal THEN RetVal ELSE {valr[t]} :
       rv' = [rv EXCEPT ![t] = v]
  /\ state' = WakeAll(state, ToSet(joinq[t]))
  /\ joinq' = [joinq EXCEPT ![t] = <<>>]
  /\ Unlink
  /\ idle' = FALSE
  /\ UNCHANGED <<call, acell, valr, pos, phase, iowaitdata>>
  /\ UNCHANGED chanvars

VisitBlocked(t) ==
  /\ Visiting(t)
  /\ state[t] \in Blocked
  /\ Onward
  /\ UNCHANGED <<phase, idle, iowaitdata>>
  /\ UNCHANGED thrvars
  /\ UNCHANGED chanvars

VisitReady(t) ==
  /\ Visiting(t)
  /\ state[t] = "Tready"
  /\ phase' = "run"
  /\ idle' = FALSE
  /\ UNCHANGED <<vmthreads, vmthrtail, pos, prev, iowaitdata>>
  /\ UNCHANGED thrvars
  /\ UNCHANGED chanvars

(* Tsleep before and after its wakeup time. *)
SlipVisitSleeping(t) ==
  /\ Visiting(t)
  /\ state[t] = "Tsleep"
  /\ Onward
  /\ UNCHANGED <<phase, idle, iowaitdata>>
  /\ UNCHANGED thrvars
  /\ UNCHANGED chanvars

VisitSleeping(t) ==
  /\ Visiting(t)
  /\ state[t] = "Tsleep"
  /\ Onward
  /\ idle' = FALSE
  /\ UNCHANGED <<phase, iowaitdata>>
  /\ UNCHANGED thrvars
  /\ UNCHANGED chanvars

WakeSleeper(t) ==
  /\ Visiting(t)
  /\ state[t] = "Tsleep"
  /\ state' = [state EXCEPT ![t] = "Tready"]
  /\ phase' = "run"
  /\ idle' = FALSE
  /\ UNCHANGED <<call, acell, valr, rv, joinq, vmthreads, vmthrtail, pos, prev, iowaitdata>>
  /\ UNCHANGED chanvars

VisitIowait(t) ==
  /\ Visiting(t)
  /\ state[t] = "Tiowait"
  /\ iowaitdata' = iowaitdata \cup {t}
  /\ Onward
  /\ idle' = FALSE
  /\ UNCHANGED phase
  /\ UNCHANGED thrvars
  /\ UNCHANGED chanvars

(* The end of a walk that found only blocked threads: the dispatcher gives *)
(* up for good.  Otherwise process_iowait wakes the threads whose          *)
(* descriptors are ready, whatever has become of them since they were      *)
(* collected, and the next walk begins.                                    *)
GiveUp ==
  /\ phase = "visit"
  /\ pos > Len(vmthreads)
  /\ idle
  /\ phase' = "returned"
  /\ UNCHANGED <<vmthreads, vmthrtail, pos, prev, idle, iowaitdata>>
  /\ UNCHANGED thrvars
  /\ UNCHANGED chanvars

EndCycle ==
  /\ phase = "visit"
  /\ pos > Len(vmthreads)
  /\ ~idle
  /\ \E ready \in SUBSET iowaitdata : state' = WakeAll(state, ready)
  /\ pos' = 1
  /\ prev' = Nil
  /\ idle' = TRUE
  /\ iowaitdata' = {}
  /\ UNCHANGED <<call, acell, valr, rv, joinq, vmthreads, vmthrtail, phase>>
  /\ UNCHANGED chanvars

Visit(t) == Reap(t) \/ VisitBlocked(t) \/ VisitReady(t) \/ VisitSleeping(t)
              \/ WakeSleeper(t) \/ VisitIowait(t)

-----------------------------------------------------------------------------
Operate(t) ==
  \/ \E c \in Chan : Recv(t, c)
  \/ \E c \in Chan, v \in Value : Send(t, c, v)
  \/ \E u \in Thread : Join(t, u) \/ Spawn(t, u) \/ Kill(t, u) \/ Break(t, u)
  \/ \E u \in Thread, v \in RetVal : SpawnForeign(t, u, v)
  \/ \E v \in RetVal : Return(t, v) \/ ErrUncaught(t, v)
  \/ \E b \in BOOLEAN : AtomicCell(t, b)
  \/ Sleep(t) \/ Iowait(t) \/ Preempt(t) \/ ErrCaught(t)

Exit == phase = "returned" /\ UNCHANGED vars

Next ==
  \/ \E t \in Thread : Operate(t) \/ Resume(t) \/ Visit(t)
  \/ EndCycle
  \/ GiveUp
  \/ Exit

Spec == Init /\ [][Next]_vars

(***************************************************************************)
(* The dispatcher never stops walking, a quantum is finite, a suspended    *)
(* function is entered again when its thread is dispatched, and the clock  *)
(* passes every wakeup time.  Nothing is assumed of descriptors.           *)
(***************************************************************************)
Walk == (\E t \in Thread : Visit(t)) \/ EndCycle \/ GiveUp

Fairness ==
  /\ WF_vars(Walk)
  /\ \A t \in Thread :
       /\ WF_vars(Preempt(t))
       /\ WF_vars(Resume(t))
       /\ WF_vars(ErrCaught(t) \/ \E v \in RetVal : ErrUncaught(t, v))
       /\ SF_vars(WakeSleeper(t))

FairSpec == Spec /\ Fairness

-----------------------------------------------------------------------------
(***************************************************************************)
(* Properties.                                                             *)
(***************************************************************************)

(* Run queue: a thread is in vmthreads exactly once from its spawn until   *)
(* the walk reaps it, the tail pointer is at the last cell and prev at the *)
(* cell before the walk's, however spawns, unlinks and preemptions         *)
(* interleave (arc_spawn's enqueue and the unlink in arc_thread_dispatch). *)
RunQueueSound ==
  /\ IsInjective(vmthreads)
  /\ \A t \in Thread : t \in ToSet(vmthreads) <=> state[t] # "unborn" /\ rv[t] = NoVal
  /\ vmthrtail = IF vmthreads = <<>> THEN Nil ELSE Last(vmthreads)
  /\ prev = IF pos = 1 THEN Nil ELSE vmthreads[pos - 1]

(* Wait queues: in a program that neither kills nor breaks, a thread is in *)
(* a queue of a channel exactly when it sleeps in that channel's operation *)
(* (arc_recv_channel, arc_send_channel), and in it once.                   *)
QueuesMatchStates ==
  /\ \A c \in Chan :
       /\ IsInjective(rq[c]) /\ IsInjective(sq[c])
       /\ \A t \in Thread :
            /\ t \in ToSet(rq[c]) <=> state[t] = "Trecv" /\ call[t] = RecvCall(c)
            /\ t \in ToSet(sq[c]) <=> state[t] = "Tsend" /\ \E v \in Value : call[t] = SendCall(c, v)
  /\ \A u, t \in Thread :
       t \in ToSet(joinq[u]) <=> state[t] = "Trecv" /\ call[t] = JoinCall(u)

(* No lost wakeup: while a channel holds a value and receivers sleep in    *)
(* its queue, one receiver has been woken and has still to take it; and    *)
(* dually for an empty channel and its sleeping senders.                   *)
NoLostWakeup ==
  \A c \in Chan :
    /\ hasdata[c] /\ rq[c] # <<>> =>
         \E t \in Thread : state[t] = "Tready" /\ call[t] = RecvCall(c)
    /\ ~hasdata[c] /\ sq[c] # <<>> =>
         \E t \in Thread, v \in Value : state[t] = "Tready" /\ call[t] = SendCall(c, v)

(* The dispatcher gives up only on a real deadlock: every thread it leaves *)
(* behind waits for something that no thread will ever do                  *)
(* (nthreads == blockedthreads in arc_thread_dispatch).                    *)
GivesUpOnlyOnDeadlock ==
  phase = "returned" =>
    \A t \in ToSet(vmthreads) :
      /\ state[t] \in Blocked
      /\ \A c \in Chan : call[t] = RecvCall(c) => ~hasdata[c]
      /\ \A c \in Chan, v \in Value : call[t] = SendCall(c, v) => hasdata[c]
      /\ \A u \in Thread : call[t] = JoinCall(u) => u \in ToSet(vmthreads)

(* Nobody is queued for the return value of a thread that has been reaped  *)
(* (the wake-all of __arc_send_rvchan against late arc_join_thread calls). *)
NoJoinerLeftBehind ==
  \A u \in Thread : rv[u] # NoVal => joinq[u] = <<>>

(* "There is at least one thread waiting to receive [send] on this         *)
(* channel.  Wake it up": a thread that is made ready was not stopped.     *)
OnlyTheLivingAreWoken ==
  [][\A t \in Thread : state[t] \in Stopped => state'[t] # "Tready"]_vars

(* "This function cannot break a thread that is waiting to send to or      *)
(* receive from a channel": a break never cancels a channel operation.     *)
BreakSparesChannelOps ==
  [][\A t \in Thread : call'[t] = ErrCall => call[t].fn \notin {"recv", "send"}]_vars

(* A joiner picks up the return value once it is available                 *)
(* (arc_join_thread after the reap).                                       *)
JoinersGetTheValue ==
  \A t, u \in Thread :
    call[t] = JoinCall(u) /\ rv[u] # NoVal ~> call[t] # JoinCall(u)

=============================================================================
