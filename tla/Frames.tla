------------------------------- MODULE Frames -------------------------------
(***************************************************************************)
(* What the virtual machine promises a compiled function, whatever it      *)
(* keeps on its stack and whatever it has moved to the heap: local         *)
(* environments that live as long as something refers to them and are      *)
(* shared by everything that captured them, temporaries that are there     *)
(* again when a call returns, and first-class continuations.               *)
(***************************************************************************)
EXTENDS Naturals, Sequences

CONSTANTS Value,      \* what a variable or a temporary may hold
          Unbound     \* CUNBOUND

VARIABLES
  store,      \* every environment made so far: its variables and its parent
  env,        \* the current environment, 0 for none
  temps,      \* the temporaries of the current frame, "call" where one is due
  kont,       \* the suspended frames, the innermost first
  closures,   \* the environments captured by closures
  conts       \* the continuations captured by ccc

vars == <<store, env, temps, kont, closures, conts>>

Init ==
  /\ store = <<>>
  /\ env = 0
  /\ temps = <<>>
  /\ kont = <<>>
  /\ closures = {0}
  /\ conts = {}

Outer(d) == IF d = 0 THEN env ELSE store[env].next

Push(v) ==
  /\ temps' = Append(temps, v)
  /\ UNCHANGED <<store, env, kont, closures, conts>>

Drop ==
  /\ temps # <<>>
  /\ temps' = SubSeq(temps, 1, Len(temps) - 1)
  /\ UNCHANGED <<store, env, kont, closures, conts>>

Load(d, i) ==
  /\ env # 0 /\ Outer(d) # 0
  /\ i \in DOMAIN store[Outer(d)].vars
  /\ Push(store[Outer(d)].vars[i])

Assign(d, i, v) ==
  /\ env # 0 /\ Outer(d) # 0
  /\ i \in DOMAIN store[Outer(d)].vars
  /\ store' = [store EXCEPT ![Outer(d)].vars[i] = v]
  /\ UNCHANGED <<env, temps, kont, closures, conts>>

(* A call that will return: the frame is put aside, to go on with the      *)
(* temporaries it has now.                                                 *)
Suspend ==
  /\ kont' = <<[env |-> env, temps |-> temps]>> \o kont
  /\ temps' = Append(temps, "call")
  /\ UNCHANGED <<store, env, closures, conts>>

(* The last n temporaries become the variables of the callee.              *)
Call(n, extra, parent) ==
  /\ n <= Len(temps)
  /\ parent \in closures
  /\ LET args == SubSeq(temps, Len(temps) - n + 1, Len(temps))
     IN store' = Append(store, [vars |-> args \o [i \in 1 .. extra |-> Unbound],
                                next |-> parent])
  /\ env' = Len(store')
  /\ temps' = <<>>
  /\ UNCHANGED <<kont, closures, conts>>

Resume(k) ==
  /\ k # <<>>
  /\ env' = Head(k).env
  /\ temps' = Head(k).temps
  /\ kont' = Tail(k)

Return == Resume(kont) /\ UNCHANGED <<store, closures, conts>>

Close == closures' = closures \cup {env} /\ UNCHANGED <<store, env, temps, kont, conts>>

Capture == conts' = conts \cup {kont} /\ UNCHANGED <<store, env, temps, kont, closures>>

Throw == \E k \in conts : Resume(k) /\ UNCHANGED <<store, closures, conts>>

Next ==
  \/ \E v \in Value : Push(v)
  \/ Drop
  \/ \E d \in 0 .. 1, i \in 1 .. 2 : Load(d, i) \/ \E v \in Value : Assign(d, i, v)
  \/ Suspend
  \/ \E n \in 0 .. 2, extra \in 0 .. 2, parent \in closures : Call(n, extra, parent)
  \/ Return
  \/ Close
  \/ Capture
  \/ Throw

Spec == Init /\ [][Next]_vars
=============================================================================
