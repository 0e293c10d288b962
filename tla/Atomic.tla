------------------------------- MODULE Atomic -------------------------------
(***************************************************************************)
(* atomic-invoke of arc.arc, run by the threads of thread.c: a program     *)
(* whose only use of channels is the lock built from __achan__ (a send     *)
(* takes it, a receive frees it) and the atomic cell of each thread.       *)
(*                                                                         *)
(*     (do (__acell__ t)                        Begin                      *)
(*         (<-= __achan__ t)                    Acquire                    *)
(*         (protect (fn () (thunk))             Enter, then the thunk      *)
(*                  (fn () (<- __achan__)       Leave                      *)
(*                         (__acell__ nil))))   Clear                      *)
(*                                                                         *)
(* An error raised by the thunk runs the after clause before its handler   *)
(* or the end of the thread, so it leaves the section the same way.  A     *)
(* nested atomic-invoke finds the cell set and only calls its thunk.       *)
(***************************************************************************)
EXTENDS Threads

VARIABLE pc     \* how far each thread is in atomic-invoke

avars == <<vars, pc>>

Place == {"out", "begun", "held", "in", "leaving", "left"}

AInit == Init /\ pc = [t \in Thread |-> "out"]

Goto(t, p) == pc' = [pc EXCEPT ![t] = p]

Begin(t) ==
  /\ pc[t] = "out"
  /\ ~acell[t]
  /\ Free(t)
  /\ acell' = [acell EXCEPT ![t] = TRUE]
  /\ Goto(t, "begun")
  /\ UNCHANGED <<state, call, valr, rv, joinq>>
  /\ UNCHANGED chanvars
  /\ UNCHANGED dispvars

(* The send, from its start or after a wakeup; it blocks or takes the lock. *)
SlipAcquire(t) ==     \* does not wait for the lock
  /\ pc[t] = "begun"
  /\ Preempt(t)
  /\ Goto(t, "held")

Acquire(t) ==
  /\ pc[t] = "begun"
  /\ ResumeSend(t) \/ \E v \in Value : Send(t, AChan, v)
  /\ Goto(t, IF call'[t] = NoCall THEN "held" ELSE "begun")

(* The lock is held, but protect has not been entered yet. *)
Enter(t) ==
  /\ pc[t] = "held"
  /\ Free(t)
  /\ Goto(t, "in")
  /\ UNCHANGED vars

(* The receive of the after clause. *)
SlipLeave(t) ==     \* forgets to free the lock
  /\ pc[t] = "in"
  /\ Free(t)
  /\ Goto(t, "left")
  /\ UNCHANGED vars

Leave(t) ==
  /\ pc[t] = "in"
  /\ Recv(t, AChan)
  /\ Goto(t, IF call'[t] = NoCall THEN "left" ELSE "leaving")

SlipClear(t) ==     \* leaves the cell set
  /\ pc[t] = "left"
  /\ Free(t)
  /\ Goto(t, "out")
  /\ UNCHANGED vars

Clear(t) ==
  /\ pc[t] = "left"
  /\ Free(t)
  /\ acell' = [acell EXCEPT ![t] = FALSE]
  /\ Goto(t, "out")
  /\ UNCHANGED <<state, call, valr, rv, joinq>>
  /\ UNCHANGED chanvars
  /\ UNCHANGED dispvars

(* In its thunk or outside a thread may sleep and spawn, and be preempted  *)
(* anywhere; outside it may also join another thread, return or fail.      *)
Elsewhere(t) ==
  /\ \/ Preempt(t)
     \/ pc[t] \in {"out", "in"} /\ (Sleep(t) \/ \E u \in Thread : Spawn(t, u))
     \/ /\ pc[t] = "out"
        /\ \/ ResumeJoin(t)
           \/ \E u \in Thread : Join(t, u)
           \/ \E v \in RetVal : Return(t, v) \/ ErrUncaught(t, v)
  /\ UNCHANGED pc

Section(t) == Begin(t) \/ Acquire(t) \/ Enter(t) \/ Leave(t) \/ Clear(t)

Dispatch == ((\E t \in Thread : Visit(t)) \/ EndCycle \/ GiveUp) /\ UNCHANGED pc

AtRest == phase = "returned" /\ UNCHANGED avars

ANext == (\E t \in Thread : Section(t) \/ Elsewhere(t)) \/ Dispatch \/ AtRest

ASpec == AInit /\ [][ANext]_avars

(***************************************************************************)
(* The dispatcher is as fair as Threads says, and a thread that is         *)
(* dispatched again and again executes the next step of its program: the   *)
(* thunks end.                                                             *)
(***************************************************************************)
AFairness ==
  /\ WF_avars(Dispatch)
  /\ \A t \in Thread :
       /\ WF_avars(Preempt(t) /\ UNCHANGED pc)
       /\ SF_avars(WakeSleeper(t) /\ UNCHANGED pc)
       /\ SF_avars(Acquire(t) \/ Enter(t) \/ Leave(t) \/ Clear(t))

AFairSpec == ASpec /\ AFairness

(***************************************************************************)
(* The same programs when threads also kill each other.  The receive that  *)
(* kill-thread makes for its target can leave the killer waiting, and the  *)
(* lock of a thread that is leaving can be gone.                           *)
(***************************************************************************)
Killing(t) ==
  \/ pc[t] = "out" /\ ((\E u \in Thread : Kill(t, u)) \/ ResumeRecv(t)) /\ UNCHANGED pc
  \/ pc[t] = "leaving" /\ ResumeRecv(t) /\ Goto(t, IF call'[t] = NoCall THEN "left" ELSE "leaving")

AKillSpec == AInit /\ [][ANext \/ \E t \in Thread : Killing(t)]_avars

-----------------------------------------------------------------------------
Holding(t) == pc[t] \in {"held", "in", "leaving"} /\ state[t] \notin Stopped

(* Two threads are never in atomic sections at the same time, wherever     *)
(* they were preempted or put to sleep (atomic-invoke).                    *)
MutualExclusion == \A t, u \in Thread : Holding(t) /\ Holding(u) => t = u

(* The lock is taken exactly while some thread is in its section, and the  *)
(* atomic cells tell who is in one or on the way to it (atomic-invoke,     *)
(* arc_atomic_cell): kill-thread goes by the cell alone.                   *)
LockMatchesHolder ==
  /\ hasdata[AChan] <=> \E t \in Thread : Holding(t)
  /\ \A t \in Thread : acell[t] <=> pc[t] # "out"

(* Atomic sections that do not wait for other threads never deadlock: the  *)
(* dispatcher does not give up with a thread inside one or waiting for it. *)
SectionsNeverDeadlock ==
  phase = "returned" => \A t \in Thread : pc[t] = "out"

(* While somebody waits for the lock, somebody gets it: it is passed on    *)
(* for ever, though not fairly to each thread (atomic-invoke over          *)
(* arc_send_channel).                                                      *)
LockIsPassedOn ==
  (\E t \in Thread : pc[t] = "begun" /\ call[t] # NoCall) ~> (\E t \in Thread : pc[t] = "held")

(* "release atomic cell": the lock that kill-thread frees is the one the   *)
(* killed thread held (arc_kill_thread).                                   *)
KillReleasesItsTarget ==
  [][\A u \in Thread :
       acell[u] /\ ~acell'[u] /\ state'[u] = "Tbroken" /\ hasdata[AChan] /\ ~hasdata'[AChan]
         => pc[u] \in {"held", "in", "leaving"}]_avars
=============================================================================
