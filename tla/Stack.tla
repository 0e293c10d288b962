------------------------------- MODULE Stack --------------------------------
(***************************************************************************)
(* The stack of a thread: environments and continuations are made on it    *)
(* and moved to the heap when a closure or ccc captures them (env.c,       *)
(* cont.c, and the instructions of vmengine.c that use them).              *)
(*                                                                         *)
(* stk[i] is the slot at TSTOP - i + 1, so Len(stk) is TSTOP - TSP and a   *)
(* stack reference is the offset kept in the code.  The six slots of a     *)
(* continuation are one slot here, and so are the count and the parent of  *)
(* an environment; its variables are slots of their own.  A program is any *)
(* sequence of the operations compiled functions are made of.              *)
(*                                                                         *)
(* An operator named Slip... is a faulty variant of the definition that    *)
(* follows it; no specification uses it.                                   *)
(***************************************************************************)
EXTENDS Naturals, FiniteSets, SequencesExt

CONSTANTS Value, Unbound,
          StackSize,    \* slots of the stack
          MaxEnvs,      \* bound on the environments a behaviour makes
          MaxConts      \* bound on the continuations moved to the heap

ASSUME StackAssumption ==
  StackSize \in Nat /\ MaxEnvs \in Nat /\ MaxConts \in Nat /\ Unbound \notin Value

-----------------------------------------------------------------------------
(* References: CNIL, an offset into the stack or an object of the heap. *)
Nil   == <<>>
At(p) == <<"stack", p>>
In(a) == <<"heap", a>>
OnStack(r) == r # Nil /\ r[1] = "stack"
InHeap(r)  == r # Nil /\ r[1] = "heap"

HeapRef == {Nil} \cup ({"heap"} \X Nat)
Ref     == HeapRef \cup ({"stack"} \X Nat)

(* What is on the stack: values, suspended frames and environments.        *)
ContRecord == [fn : Nat, env : Ref, conr : Ref]
EnvRecord  == [count : Nat, next : Ref, id : Nat]
ASSUME ValuesAreNotFrames ==
  \A v \in Value \cup {Unbound} : v \notin ContRecord \cup EnvRecord

IsValue(s) == s \in Value \cup {Unbound}
IsCont(s)  == ~IsValue(s) /\ "conr" \in DOMAIN s
IsEnv(s)   == ~IsValue(s) /\ "count" \in DOMAIN s

-----------------------------------------------------------------------------
VARIABLES
  stk,        \* the used part of TSTACK, oldest slot first
  fn,         \* TSTOP - TSFN: where the current function's part begins
  envr, conr, \* the environment and continuation registers
  henv,       \* environments on the heap
  hcont,      \* continuations on the heap
  clos,       \* environments of the closures made so far
  caught,     \* continuations captured by ccc
  store       \* ghost: the environments as the program sees them

vars == <<stk, fn, envr, conr, henv, hcont, clos, caught, store>>

-----------------------------------------------------------------------------
(* The machine's memory, as a value that one step can transform several    *)
(* times over.                                                             *)
Now == [stk |-> stk, henv |-> henv, hcont |-> hcont]

NextEnv(m, e) == IF InHeap(e) THEN m.henv[e[2]].next ELSE m.stk[e[2]].next

(* envval: the variables of a stack environment lie below its count. *)
Count(m, e) == IF InHeap(e) THEN Len(m.henv[e[2]].vars) ELSE m.stk[e[2]].count
SlotOf(m, e, i) == e[2] - m.stk[e[2]].count - 1 + i
EnvVal(m, e, i) == IF InHeap(e) THEN m.henv[e[2]].vars[i] ELSE m.stk[SlotOf(m, e, i)]
Outer(d) == IF d = 0 THEN envr ELSE NextEnv(Now, envr)
Visible(d, i) == envr # Nil /\ Outer(d) # Nil /\ i \in 1 .. Count(Now, Outer(d))

NextCont(m, c) == IF c = Nil THEN Nil
                  ELSE IF InHeap(c) THEN m.hcont[c[2]].conr ELSE m.stk[c[2]].conr

Id(m, e) == IF e = Nil THEN 0 ELSE IF InHeap(e) THEN m.henv[e[2]].id ELSE m.stk[e[2]].id

(* The continuations from c on, up to the first CNIL. *)
Most(m) == Len(m.stk) + Len(m.hcont)
Chain(m, c) ==
  LET nth[i \in 0 .. Most(m)] == IF i = 0 THEN c ELSE NextCont(m, nth[i - 1])
      n == CHOOSE k \in 0 .. Most(m) : nth[k] = Nil /\ \A i \in 0 .. k - 1 : nth[i] # Nil
  IN [i \in 1 .. n |-> nth[i - 1]]

-----------------------------------------------------------------------------
(* __arc_env2heap: the environment is copied and the continuations that    *)
(* have it, from the register on, are made to refer to the copy.  Closures *)
(* only have heap environments, so the parents are on the heap already.    *)
Updated(m, e, a) ==
  LET users == {r[2] : r \in {s \in ToSet(Chain(m, conr)) : OnStack(s)}}
  IN [p \in DOMAIN m.stk |->
        IF p \in users /\ m.stk[p].env = e THEN [m.stk[p] EXCEPT !.env = In(a)] ELSE m.stk[p]]

HeapEnv(m, e) == [vars |-> [i \in 1 .. Count(m, e) |-> EnvVal(m, e, i)],
                  next |-> NextEnv(m, e), id |-> m.stk[e[2]].id]

Env2Heap(m, e) ==
  IF ~OnStack(e) THEN [env |-> e, m |-> m]
  ELSE LET a == Len(m.henv) + 1
       IN [env |-> In(a),
           m |-> [stk |-> Updated(m, e, a), henv |-> Append(m.henv, HeapEnv(m, e)), hcont |-> m.hcont]]

(* heap_cont: a continuation with the part of the stack it has to bring    *)
(* back, linked by __arc_cont2heap to the one that is moved after it.  Its *)
(* own environment is updated before it is compared with TENVR, so that    *)
(* the register never changes here.                                        *)
SavedStack(m, p) == SubSeq(m.stk, m.stk[p].fn + 1, p - 1)

SlipNextKept(m, c) == m.stk[c[2]].conr
NextKept(m, c) ==
  LET next == m.stk[c[2]].conr
  IN IF OnStack(next) THEN In(Len(m.hcont) + 2) ELSE next

HeapCont(m, c) ==
  LET p == c[2]
      x == Env2Heap(m, m.stk[p].env)
      k == [env |-> x.env, stk |-> SavedStack(m, p), conr |-> NextKept(m, c)]
  IN [stk |-> x.m.stk, henv |-> x.m.henv, hcont |-> Append(m.hcont, k)]

(* __arc_cont2heap on the continuation register: none that is on the heap  *)
(* comes before one that is not.                                           *)
Depth == Cardinality({i \in DOMAIN Chain(Now, conr) : OnStack(Chain(Now, conr)[i])})
Cont2Heap ==
  LET moved[i \in 0 .. Depth] ==
        IF i = 0 THEN Now ELSE HeapCont(moved[i - 1], Chain(Now, conr)[i])
  IN moved[Depth]
MovedConr == IF OnStack(conr) THEN In(Len(hcont) + 1) ELSE conr

Become(m) == stk' = m.stk /\ henv' = m.henv /\ hcont' = m.hcont

Room(n) == Len(stk) + n <= StackSize

-----------------------------------------------------------------------------
Init ==
  /\ stk = <<>> /\ fn = 0
  /\ envr = Nil /\ conr = Nil
  /\ henv = <<>> /\ hcont = <<>>
  /\ clos = {Nil} /\ caught = {}
  /\ store = <<>>

(* Temporaries: ipush, ipop. *)
Push(v) ==
  /\ Room(1)
  /\ stk' = Append(stk, v)
  /\ UNCHANGED <<fn, envr, conr, henv, hcont, clos, caught, store>>

Drop ==
  /\ Len(stk) > fn
  /\ IsValue(Last(stk))
  /\ stk' = Front(stk)
  /\ UNCHANGED <<fn, envr, conr, henv, hcont, clos, caught, store>>

(* ilde and iste, the value loaded being pushed at once. *)
Load(d, i) == Visible(d, i) /\ Push(EnvVal(Now, Outer(d), i))

Assign(d, i, v) ==
  /\ Visible(d, i)
  /\ LET e == Outer(d)
     IN /\ \/ /\ InHeap(e)
              /\ henv' = [henv EXCEPT ![e[2]].vars[i] = v]
              /\ UNCHANGED stk
           \/ /\ OnStack(e)
              /\ stk' = [stk EXCEPT ![SlotOf(Now, e, i)] = v]
              /\ UNCHANGED henv
        /\ store' = [store EXCEPT ![Id(Now, e)].vars[i] = v]
  /\ UNCHANGED <<fn, envr, conr, hcont, clos, caught>>

(* icont: the frame is put aside before the arguments of a call. *)
ContSlot == [fn |-> fn, env |-> envr, conr |-> conr]

Suspend ==
  /\ Room(1)
  /\ stk' = Append(stk, ContSlot)
  /\ conr' = At(Len(stk) + 1)
  /\ UNCHANGED <<fn, envr, henv, hcont, clos, caught, store>>

(* iapply of a closure, with the ienv its code begins with: the n          *)
(* arguments on top of s become an environment, with the extra variables.  *)
Enter(s, n, extra, parent) ==
  /\ Len(store) < MaxEnvs
  /\ Len(s) + extra + 1 <= StackSize
  /\ LET full == s \o [i \in 1 .. extra |-> Unbound]
         id   == Len(store) + 1
     IN /\ stk' = Append(full, [count |-> n + extra, next |-> parent, id |-> id])
        /\ store' = Append(store, [vars |-> SubSeq(full, Len(s) - n + 1, Len(full)),
                                   next |-> Id(Now, parent)])
  /\ envr' = At(Len(stk'))
  /\ fn' = Len(stk')
  /\ UNCHANGED <<conr, henv, hcont, clos, caught>>

Call(n, extra, parent) ==
  /\ Len(stk) - n > fn
  /\ IsCont(stk[Len(stk) - n])
  /\ \A i \in Len(stk) - n + 1 .. Len(stk) : IsValue(stk[i])
  /\ Enter(stk, n, extra, parent)

(* imenv and iapply: a tail call, whose arguments are all the frame has    *)
(* left, is moved over an environment that is still on the stack.          *)
Menv(n) ==
  IF OnStack(envr)
  THEN SubSeq(stk, 1, envr[2] - Count(Now, envr) - 1) \o SubSeq(stk, Len(stk) - n + 1, Len(stk))
  ELSE stk

TailCall(n, extra, parent) ==
  /\ Len(stk) = fn + n
  /\ \A i \in fn + 1 .. Len(stk) : IsValue(stk[i])
  /\ Enter(Menv(n), n, extra, parent)

(* arc_restorecont.  A stack continuation takes the stack back to where it *)
(* was made; a heap continuation brings its part of the stack along and    *)
(* leaves what lies below it.                                              *)
SlipRestoreStack(s, p) ==
  /\ stk' = SubSeq(s, 1, p - 1)
  /\ fn' = fn
  /\ envr' = s[p].env
  /\ conr' = s[p].conr

RestoreStack(s, p) ==
  /\ stk' = SubSeq(s, 1, p - 1)
  /\ fn' = s[p].fn
  /\ envr' = s[p].env
  /\ conr' = s[p].conr

RestoreHeap(s, k) ==
  /\ Len(s) + Len(hcont[k].stk) <= StackSize
  /\ stk' = s \o hcont[k].stk
  /\ fn' = Len(s)
  /\ envr' = hcont[k].env
  /\ conr' = hcont[k].conr

(* iret. *)
Return ==
  /\ Len(stk) = fn
  /\ \/ OnStack(conr) /\ RestoreStack(stk, conr[2])
     \/ InHeap(conr) /\ RestoreHeap(stk, conr[2])
  /\ UNCHANGED <<henv, hcont, clos, caught, store>>

(* icls: the environment goes to the heap with its closure. *)
Close ==
  /\ envr # Nil
  /\ LET x == Env2Heap(Now, envr)
     IN /\ Become(x.m)
        /\ envr' = x.env
        /\ clos' = clos \cup {x.env}
  /\ UNCHANGED <<fn, conr, caught, store>>

(* ccc, an AFF without temporaries: all continuations and then its own     *)
(* environment go to the heap.  contwrapper, the closure it passes on, is  *)
(* left out: Throw is what it comes to when nothing has been wound.        *)
Capture ==
  /\ Len(stk) = fn
  /\ conr # Nil
  /\ Len(hcont) + Depth <= MaxConts
  /\ LET x == Env2Heap(Cont2Heap, envr)
     IN Become(x.m) /\ envr' = x.env
  /\ conr' = MovedConr
  /\ caught' = caught \cup {MovedConr}
  /\ UNCHANGED <<fn, clos, store>>

(* cont_apply, wherever the program calls a captured continuation.         *)
Throw ==
  /\ \E c \in caught : RestoreHeap(stk, c[2])
  /\ UNCHANGED <<henv, hcont, clos, caught, store>>

Next ==
  \/ \E v \in Value : Push(v)
  \/ Drop
  \/ \E d \in 0 .. 1, i \in 1 .. 2 : Load(d, i) \/ \E v \in Value : Assign(d, i, v)
  \/ Suspend
  \/ \E n \in 0 .. 2, extra \in 0 .. 1, parent \in clos :
       n + extra <= 2 /\ (Call(n, extra, parent) \/ TailCall(n, extra, parent))
  \/ Return
  \/ Close
  \/ Capture
  \/ Throw

Spec == Init /\ [][Next]_vars

-----------------------------------------------------------------------------
(***************************************************************************)
(* The stack is full: __arc_stackcheck, called by the next push.  The     *)
(* frame's slots are moved down by a memmove that starts one slot short of *)
(* the first of them, and TSFN stays where it was.  grow_stack always      *)
(* follows; TSP stays in the old vector, the one stk' describes.           *)
(***************************************************************************)
Slide(s, n) == SubSeq(SubSeq(s, 1, 1) \o SubSeq(s, Len(s) - n + 2, Len(s)), 1, n)

StackCheck ==
  /\ Len(stk) = StackSize
  /\ Len(hcont) + Depth <= MaxConts
  /\ LET x == Env2Heap(Cont2Heap, envr)
     IN /\ stk' = Slide(x.m.stk, Len(stk) - fn)
        /\ henv' = x.m.henv
        /\ hcont' = x.m.hcont
        /\ envr' = x.env
  /\ conr' = MovedConr
  /\ UNCHANGED <<fn, clos, caught, store>>

OverflowSpec == Init /\ [][Next \/ StackCheck]_vars

-----------------------------------------------------------------------------
(***************************************************************************)
(* Properties.                                                             *)
(***************************************************************************)
LiveConts == UNION {ToSet(Chain(Now, c)) : c \in caught \cup {conr}}

(* References into the stack are to slots of the right kind, below the     *)
(* part of the functions that use them (SENV_PTR, arc_restorecont).        *)
TypeOK ==
  /\ Len(stk) <= StackSize /\ fn <= Len(stk)
  /\ Len(hcont) <= MaxConts
  /\ OnStack(envr) => envr[2] <= fn /\ IsEnv(stk[envr[2]])
  /\ \A c \in LiveConts : OnStack(c) =>
       /\ c[2] <= Len(stk) /\ IsCont(stk[c[2]])
       /\ stk[c[2]].fn < c[2]
       /\ LET e == stk[c[2]].env IN OnStack(e) => e[2] <= stk[c[2]].fn /\ IsEnv(stk[e[2]])

(* Nothing on the heap refers to the stack, which is gone when the heap    *)
(* object is used (__arc_env2heap, __arc_cont2heap).                       *)
HeapAvoidsStack ==
  /\ \A e \in clos : ~OnStack(e)
  /\ \A a \in DOMAIN henv : ~OnStack(henv[a].next)
  /\ \A k \in DOMAIN hcont : ~OnStack(hcont[k].env) /\ ~OnStack(hcont[k].conr)

(* Tail calls, captures and non-local exits are invisible: the machine     *)
(* behaves as one that never overwrites nor moves anything.                *)
Mark(s) == [i \in DOMAIN s |-> IF IsValue(s[i]) THEN s[i] ELSE "call"]
FrameOf(m, c) ==
  IF InHeap(c) THEN [env |-> Id(m, m.hcont[c[2]].env), temps |-> Mark(m.hcont[c[2]].stk)]
  ELSE [env |-> Id(m, m.stk[c[2]].env), temps |-> Mark(SavedStack(m, c[2]))]
Kont(m, c) == LET cs == Chain(m, c) IN [i \in DOMAIN cs |-> FrameOf(m, cs[i])]

Program == INSTANCE Frames WITH
  env <- Id(Now, envr),
  temps <- Mark(SubSeq(stk, fn + 1, Len(stk))),
  kont <- Kont(Now, conr),
  closures <- {Id(Now, e) : e \in clos},
  conts <- {Kont(Now, c) : c \in caught}
ImplementsFrames == Program!Spec

(* "We ought to be able to safely move everything from TSFN to TSP such    *)
(* that TSFN is TSTOP": what a full stack's top frame pops next is what it *)
(* pushed (__arc_stackcheck).                                              *)
Top(s, n) == SubSeq(s, Len(s) - n + 1, Len(s))
OverflowKeepsFrame == [][StackCheck => Top(stk', Len(stk) - fn) = Top(stk, Len(stk) - fn)]_vars
=============================================================================
