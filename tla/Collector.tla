----------------------------- MODULE Collector ------------------------------
(***************************************************************************)
(* The garbage collector (VCGC in alloc.c): an incremental mark and sweep  *)
(* in three rotating colours, run a slice at a time between two walks of   *)
(* the dispatcher, and the program it must not disturb: one thread with a  *)
(* value register and a stack, a global variable, and conses.              *)
(*                                                                         *)
(* Colours are named for their role in the current epoch.  A cons has one  *)
(* field here; its other half is a number.  Marking recurses within a      *)
(* budget (VISIT) and leaves the rest to later visits.                     *)
(*                                                                         *)
(* An operator named Slip... is a faulty variant of the definition that    *)
(* follows it; no specification uses it.                                   *)
(***************************************************************************)
EXTENDS Naturals, FiniteSets, SequencesExt

CONSTANTS Obj,          \* conses
          Global,       \* c->genv, with one variable
          Thread,       \* c->curthread
          Nil,
          StackSize,
          MaxDepth,     \* MAX_MARK_RECURSION
          MaxQuantum    \* GCMAXQUANTA

ASSUME CollectorAssumption ==
  /\ Cardinality({Global, Thread, Nil}) = 3
  /\ IsFiniteSet(Obj) /\ Obj \cap {Global, Thread, Nil} = {}
  /\ StackSize \in Nat /\ MaxDepth \in Nat /\ MaxQuantum \in Nat

VARIABLES
  list,       \* ALLOCHEAD: the allocated blocks, newest first
  colour,     \* BCOLOUR of each block
  field,      \* the reference in each cons and in the global variable
  valr, stk,  \* TVALR and the stack, oldest slot first
  gcptr,      \* GCPTR: the next block to visit
  gcpptr,     \* GCPPTR: the block before it
  nprop,      \* a propagator was seen or made since the pass began
  visit,      \* VISIT
  phase       \* "program" or "gc"

program == <<valr, stk, field>>
cursor  == <<gcptr, gcpptr>>
vars == <<list, colour, program, cursor, nprop, visit, phase>>

Block  == Obj \cup {Global, Thread}
Ref    == Obj \cup {Nil}
Colour == {"mutator", "marker", "sweeper", "propagator"}
Allocated == ToSet(list)

(* The markers.  The thread's stops before TSTOP, the oldest slot.         *)
Children(b) ==
  IF b = Thread THEN <<valr>> \o Reverse(SubSeq(stk, 2, Len(stk))) ELSE <<field[b]>>

(* What the program can get at from the references in R. *)
From(R) ==
  LET within[n \in 0 .. Cardinality(Obj)] ==
        IF n = 0 THEN R \ {Nil}
        ELSE within[n - 1] \cup ({field[o] : o \in within[n - 1]} \ {Nil})
  IN within[Cardinality(Obj)]
Reachable == From({field[Global], valr} \cup ToSet(stk))

-----------------------------------------------------------------------------
(* SETMARK, on the collector's colours and nprop. *)
Shade(col, b) == IF col[b] = "mutator" THEN col ELSE [col EXCEPT ![b] = "propagator"]
SlipSetMark(w, b) == [w EXCEPT !.colour = Shade(w.colour, b)]
SetMark(w, b) ==
  [colour |-> Shade(w.colour, b), nprop |-> w.nprop \/ w.colour[b] # "mutator", visit |-> w.visit]

Work == [colour |-> colour, nprop |-> nprop, visit |-> visit]

(* __arc_wb: the reference that is overwritten is shaded, not the new one. *)
SlipAfterBarrier(old) == Work     \* no barrier
AfterBarrier(old) == IF old = Nil THEN Work ELSE SetMark(Work, old)
Barrier(old) == colour' = AfterBarrier(old).colour /\ nprop' = AfterBarrier(old).nprop

(* mark: shades the block and, within the budget and the depth, its        *)
(* children in turn, whatever its colour was.  The markers of the types    *)
(* call it for one child after the other; n levels are left below here.    *)
Works == [colour : [Block -> Colour], nprop : BOOLEAN, visit : 0 .. MaxQuantum]

InTurn(mark, children, w) ==
  LET after[i \in 0 .. Len(children)] ==
        IF i = 0 THEN w ELSE mark[children[i]][after[i - 1]]
  IN after[Len(children)]

Visited(w, b)   == [SetMark(w, b) EXCEPT !.visit = @ - 1]
Recursing(w, b) == [Visited(w, b) EXCEPT !.colour[b] = "mutator"]

Marking ==
  LET mark[n \in 0 .. MaxDepth] ==
        [b \in Block \cup {Nil} |-> [w \in Works |->
          IF b = Nil THEN w
          ELSE IF w.visit = 0 THEN SetMark(w, b)
          ELSE IF n = 0 THEN Visited(w, b)
          ELSE InTurn(mark[n - 1], Children(b), Recursing(w, b))]]
  IN mark
Mark(block) == Marking[MaxDepth][block][Work]

-----------------------------------------------------------------------------
Init ==
  /\ list = <<Thread, Global>>
  /\ colour = [b \in Block |-> "mutator"]
  /\ field = [b \in Obj \cup {Global} |-> Nil]
  /\ valr = Nil /\ stk = <<>>
  /\ gcptr = Nil /\ gcpptr = Nil
  /\ nprop = FALSE
  /\ visit = 0
  /\ phase = "program"

Program == phase = "program" /\ UNCHANGED <<phase, visit, cursor>>

(* SVALR, by inil, ildg, icar and ipop. *)
SetValr(v) == valr' = v /\ Barrier(valr)

LoadNil    == Program /\ SetValr(Nil) /\ UNCHANGED <<list, stk, field>>
LoadGlobal == Program /\ SetValr(field[Global]) /\ UNCHANGED <<list, stk, field>>
LoadCar    == Program /\ valr # Nil /\ SetValr(field[valr]) /\ UNCHANGED <<list, stk, field>>

StoreGlobal ==
  /\ Program
  /\ field' = [field EXCEPT ![Global] = valr]
  /\ Barrier(field[Global])
  /\ UNCHANGED <<list, valr, stk>>

(* CPUSH and CPOP have no barrier. *)
Push ==
  /\ Program
  /\ Len(stk) < StackSize
  /\ stk' = Append(stk, valr)
  /\ UNCHANGED <<list, colour, nprop, valr, field>>

Pop ==
  /\ Program
  /\ stk # <<>>
  /\ stk' = Front(stk)
  /\ SetValr(Last(stk))
  /\ UNCHANGED <<list, field>>

(* iscar. *)
SetCar ==
  /\ Program
  /\ stk # <<>> /\ Last(stk) # Nil
  /\ stk' = Front(stk)
  /\ field' = [field EXCEPT ![Last(stk)] = valr]
  /\ Barrier(field[Last(stk)])
  /\ UNCHANGED <<list, valr>>

(* icons: a new block has the mutator's colour, and its contents are not   *)
(* looked at.                                                              *)
MkCons(o) ==
  /\ Program
  /\ o \notin Allocated
  /\ stk # <<>>
  /\ Nil \in {Last(stk), valr}
  /\ list' = <<o>> \o list
  /\ field' = [field EXCEPT ![o] = IF valr = Nil THEN Last(stk) ELSE valr]
  /\ valr' = o
  /\ stk' = Front(stk)
  /\ colour' = [AfterBarrier(valr).colour EXCEPT ![o] = "mutator"]
  /\ nprop' = AfterBarrier(valr).nprop

(* What a program does from the moment it can get at a cons that was freed *)
(* is undefined: it is followed no further, and the collector goes on.     *)
Operate ==
  /\ Reachable \subseteq Allocated
  /\ \/ LoadNil \/ LoadGlobal \/ LoadCar \/ StoreGlobal
     \/ Push \/ Pop \/ SetCar
     \/ \E o \in Obj : MkCons(o)

-----------------------------------------------------------------------------
(* A slice of gc(), with any budget that the statistics may give it.       *)
Begin ==
  /\ phase = "program"
  /\ phase' = "gc"
  /\ visit' \in 1 .. MaxQuantum
  /\ IF gcptr = Nil THEN gcptr' = Head(list) /\ gcpptr' = Nil ELSE UNCHANGED cursor
  /\ UNCHANGED <<list, colour, program, nprop>>

Visiting == phase = "gc" /\ visit > 0 /\ gcptr # Nil
Place(b) == CHOOSE i \in DOMAIN list : list[i] = b
After(b) == IF Place(b) = Len(list) THEN Nil ELSE list[Place(b) + 1]
Advance == gcptr' = After(gcptr) /\ gcpptr' = gcptr

VisitPropagator ==
  /\ Visiting
  /\ colour[gcptr] = "propagator"
  /\ LET w == Mark(gcptr)
     IN colour' = w.colour /\ nprop' = w.nprop /\ visit' = w.visit
  /\ Advance
  /\ UNCHANGED <<list, program, phase>>

(* free_block: the block after GCPPTR, or the head of the list, becomes    *)
(* the one after the block freed.                                          *)
Unlinked(b) ==
  (IF gcpptr = Nil THEN <<>> ELSE SubSeq(list, 1, Place(gcpptr)))
  \o SubSeq(list, Place(b) + 1, Len(list))

SlipFreed == gcpptr' = gcptr
Freed == UNCHANGED gcpptr

VisitSweeper ==
  /\ Visiting
  /\ colour[gcptr] = "sweeper"
  /\ list' = Unlinked(gcptr)
  /\ gcptr' = After(gcptr)
  /\ Freed
  /\ colour' = [colour EXCEPT ![gcptr] = "mutator"]
  /\ field' = [field EXCEPT ![gcptr] = Nil]
  /\ UNCHANGED <<valr, stk, nprop, visit, phase>>

VisitOther ==
  /\ Visiting
  /\ colour[gcptr] \in {"mutator", "marker"}
  /\ Advance
  /\ UNCHANGED <<list, colour, program, nprop, visit, phase>>

(* The end of an epoch: the colours rotate and the roots are shaded.       *)
Rotated == [b \in Block |->
  CASE colour[b] = "mutator" -> "marker"
    [] colour[b] = "marker"  -> "sweeper"
    [] colour[b] = "sweeper" -> "mutator"
    [] OTHER -> "propagator"]
Rooted(col) == Shade(Shade(col, Thread), Global)

LastPass == gcptr = Nil /\ ~nprop

SlipReset == nprop
Reset == IF gcptr = Nil THEN FALSE ELSE nprop

End ==
  /\ phase = "gc"
  /\ visit = 0 \/ gcptr = Nil
  /\ colour' = IF LastPass THEN Rooted(Rotated) ELSE colour
  /\ nprop' = Reset
  /\ phase' = "program"
  /\ visit' = 0
  /\ UNCHANGED <<list, program, cursor>>

Collect == Begin \/ VisitPropagator \/ VisitSweeper \/ VisitOther \/ End

Next == Operate \/ Collect

Spec == Init /\ [][Next]_vars

-----------------------------------------------------------------------------
(***************************************************************************)
(* Properties.                                                             *)
(***************************************************************************)
TypeOK ==
  /\ list \in Seq(Block) /\ IsInjective(list) /\ {Global, Thread} \subseteq Allocated
  /\ colour \in [Block -> Colour]
  /\ field \in [Obj \cup {Global} -> Ref]
  /\ valr \in Ref /\ stk \in Seq(Ref) /\ Len(stk) <= StackSize
  /\ gcptr \in Block \cup {Nil} /\ gcpptr \in Block \cup {Nil}
  /\ nprop \in BOOLEAN /\ visit \in 0 .. MaxQuantum /\ phase \in {"program", "gc"}

(* The cursor is between two neighbours of the list, whatever has been put *)
(* in front of it or freed behind it: a block freed with a wrong           *)
(* predecessor takes others off the list (gc, free_block).                 *)
CursorSound ==
  gcptr # Nil =>
    /\ gcptr \in Allocated
    /\ IF Place(gcptr) = 1 THEN gcpptr = Nil ELSE gcpptr = list[Place(gcptr) - 1]

(* A propagator the cursor will not meet in this pass has set nprop, or    *)
(* the epoch could end before it was marked (SETMARK, gc).                 *)
Ahead == IF gcptr = Nil THEN (IF phase = "gc" THEN {} ELSE Allocated)
         ELSE {list[i] : i \in Place(gcptr) .. Len(list)}
PropagatorsAreSeen ==
  \A b \in Allocated : colour[b] = "propagator" => b \in Ahead \/ nprop

(* "We have to mark the used portions of the stack": when the thread has   *)
(* been visited, nothing on its stack is white (thread_marker).            *)
UsedStackIsMarked ==
  [][gcptr = Thread /\ colour[Thread] = "propagator" /\ gcptr' # gcptr =>
       \A o \in ToSet(stk) \ {Nil} : colour'[o] \in {"mutator", "propagator"}]_vars

(* Whatever the program can no longer get at is freed in the end, although *)
(* the program goes on shading and allocating behind the cursor (gc).      *)
GarbageIsFreed ==
  \A o \in Obj : (o \in Allocated \ Reachable) ~> (o \notin Allocated)
=============================================================================
