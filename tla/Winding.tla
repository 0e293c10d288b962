------------------------------ MODULE Winding ------------------------------
(* dynamic-wind, ccc, on-err and err in one thread: arc_dynamic_wind,        *)
(* __arc_reroot, contwrapper and arc_callcc of vmengine.c, and err.c.        *)
(*                                                                           *)
(* A cell of the winding tree is a cons whose car pairs the thunk that moves *)
(* into it with the one that moves out, and whose cdr is the next cell on    *)
(* the way to the root, TCH.  Program code is free to do anything at any     *)
(* point, in a before or after thunk too: wind, capture, throw, raise, guard *)
(* with on-err, or return; Fuel bounds how often it does.                    *)
(* An operator named Slip... is a faulty variant of the definition after it. *)
EXTENDS Naturals, FiniteSets, Sequences, SequencesExt, Functions

CONSTANTS Fuel,          \* calls program code may make
          MaxCells,      \* calls of dynamic-wind, those of on-err included
          MaxKonts,      \* continuations captured, those of on-err included
          TailCaptures,  \* may a ccc be the last thing its caller does?
          LooseErrors    \* may program code return an exception as a value?

ASSUME WindingAssumption ==
    /\ Fuel \in Nat /\ MaxCells \in Nat /\ MaxKonts \in Nat
    /\ TailCaptures \in BOOLEAN /\ LooseErrors \in BOOLEAN

VARIABLES car, cdr,   \* the cells
          tch,        \* the root of the winding tree (TCH)
          konts,      \* the captured continuations: frames and TCH
          exh, old,   \* TEXH, and what each on-err found there
          conr,       \* the continuation register: the frames, innermost last
          ctl,        \* what runs now
          fuel,
          thunk       \* the last thunk that __arc_reroot called

vars == <<car, cdr, tch, konts, exh, old, conr, ctl, fuel, thunk>>

Cells == 0 .. MaxCells
Konts == 1 .. MaxKonts
Base == 0              \* TBCH; also "no handler" and "no wind"
Nil == MaxCells + 1
Values == {"val", "exc", "raised"} \* an exception is returned, or raised

(* The thunks of a wind are the program's, or savetexh and restoretexh of    *)
(* the on-err whose continuation is kont.                                    *)
Thunks == [wind : Cells, side : {"before", "after", "none"}, kont : {Base} \cup Konts]
Dead == [wind |-> Base, side |-> "none", kont |-> Base]
Pair(w, k) == [into |-> [wind |-> w, side |-> "before", kont |-> k],
               out |-> [wind |-> w, side |-> "after", kont |-> k]]

(* A frame is the function that waits, with the cell, the continuation and   *)
(* the value that its environment holds.                                     *)
Waiting == {"body", "entering", "during", "leaving", "reroot", "throw",
            "onerr", "unhandled"}
Frame(f, w, k, v) == [fn |-> f, cell |-> w, kont |-> k, val |-> v]
Body == Frame("body", Base, Base, "val")

Run(t) == [op |-> "run", thunk |-> t, to |-> Base, val |-> "val"]
Return(v) == [op |-> "return", thunk |-> Dead, to |-> Base, val |-> v]
Reroot(there) == [op |-> "reroot", thunk |-> Dead, to |-> there, val |-> "val"]
Stop(why) == [op |-> why, thunk |-> Dead, to |-> Base, val |-> "val"]

Used == DOMAIN car
Init ==
    /\ car = [c \in {Base} |-> [into |-> Dead, out |-> Dead]]
    /\ cdr = [c \in {Base} |-> Nil]
    /\ tch = Base
    /\ konts = <<>>
    /\ exh = Base
    /\ old = [k \in Konts |-> Base]
    /\ conr = <<>>
    /\ ctl = Run(Dead)
    /\ fuel = Fuel
    /\ thunk = Dead

tree == <<car, cdr, tch, thunk>>
errs == <<exh, old>>
----------------------------------------------------------------------------
(* What program code does.                                                   *)
Act == /\ ctl.op = "run" /\ ctl.thunk.kont = Base
       /\ fuel > 0
       /\ fuel' = fuel - 1

Fresh == Cardinality(Used)

(* arc_dynamic_wind up to its first reroot, from a caller that pushed fs.    *)
WindFrom(fs, k) ==
    /\ Fresh \in Cells
    /\ car' = [c \in Used \cup {Fresh} |-> IF c = Fresh THEN Pair(c, k) ELSE car[c]]
    /\ cdr' = [c \in Used \cup {Fresh} |-> IF c = Fresh THEN tch ELSE cdr[c]]
    /\ conr' = conr \o fs \o <<Frame("entering", tch, k, "val")>>
    /\ ctl' = Reroot(Fresh)
    /\ UNCHANGED <<tch, thunk>>

Wind == /\ Act
        /\ WindFrom(<<Body>>, Base)
        /\ UNCHANGED <<konts, exh, old>>

(* arc_callcc: a ccc in tail position has no frame of its caller to keep.    *)
Capture ==
    /\ Act
    /\ Len(konts) < MaxKonts
    /\ \E tail \in {FALSE, TailCaptures} :
           konts' = Append(konts, [frames |-> IF tail THEN conr ELSE Append(conr, Body),
                                   tch |-> tch])
    /\ UNCHANGED <<conr, ctl>>
    /\ UNCHANGED tree /\ UNCHANGED errs

(* contwrapper, called with v.                                               *)
SlipThrowTo(k, v) ==
    /\ conr' = konts[k].frames
    /\ ctl' = Return(v)
ThrowTo(k, v) ==
    /\ conr' = conr \o <<Body, Frame("throw", Base, k, v)>>
    /\ ctl' = Reroot(konts[k].tch)

Throw == /\ Act
         /\ \E k \in DOMAIN konts : ThrowTo(k, "val")
         /\ UNCHANGED <<konts, exh, old>> /\ UNCHANGED tree

(* arc_on_err with arc_callcc, ccchandler and arc_dynamic_wind.              *)
OnErr ==
    /\ Act
    /\ Len(konts) < MaxKonts
    /\ LET k == Len(konts) + 1
           guard == <<Body, Frame("onerr", Base, k, "val")>>
       IN /\ konts' = Append(konts, [frames |-> conr \o guard, tch |-> tch])
          /\ WindFrom(guard, k)
    /\ UNCHANGED <<exh, old>>

(* arc_err: with no handler the winding is undone up to TBCH first.          *)
SlipGiveUp == /\ conr' = conr \o <<Body, Frame("unhandled", Base, Base, "val")>>
              /\ ctl' = Return("val")
GiveUp == /\ conr' = conr \o <<Body, Frame("unhandled", Base, Base, "val")>>
          /\ ctl' = Reroot(Base)
Raise ==
    /\ Act
    /\ IF exh = Base
       THEN GiveUp
       ELSE ThrowTo(exh, "raised")
    /\ UNCHANGED <<konts, exh, old>> /\ UNCHANGED tree

Finish ==
    /\ ctl.op = "run" /\ ctl.thunk.kont = Base
    /\ \E v \in IF LooseErrors THEN {"val", "exc"} ELSE {"val"} : ctl' = Return(v)
    /\ UNCHANGED <<konts, conr, fuel>> /\ UNCHANGED tree /\ UNCHANGED errs
----------------------------------------------------------------------------
(* __arc_reroot                                                              *)
RerootDone ==
    /\ ctl.op = "reroot" /\ ctl.to = tch
    /\ ctl' = Return("val")
    /\ UNCHANGED <<konts, conr, fuel>> /\ UNCHANGED tree /\ UNCHANGED errs

RerootFrame(there) == Frame("reroot", there, Base, "val")
RerootUp ==
    /\ ctl.op = "reroot" /\ ctl.to # tch
    /\ conr' = Append(conr, RerootFrame(ctl.to))
    /\ ctl' = Reroot(cdr[ctl.to])
    /\ UNCHANGED <<konts, fuel>> /\ UNCHANGED tree /\ UNCHANGED errs

Top == Last(conr)
Resume(f) == ctl.op = "return" /\ conr # <<>> /\ Top.fn = f

(* The cell of the old root takes the thunks in the opposite direction.      *)
Turned(there) ==
    [car EXCEPT ![tch] = [into |-> car[there].out, out |-> car[there].into],
                ![there] = [into |-> Dead, out |-> Dead]]
SlipBefore(there) == car[there].out
Before(there) == car[there].into
Linked(there) == [cdr EXCEPT ![tch] = there, ![there] = Nil]
RerootMove ==
    /\ Resume("reroot")
    /\ car' = Turned(Top.cell)
    /\ cdr' = Linked(Top.cell)
    /\ tch' = Top.cell
    /\ thunk' = Before(Top.cell)
    /\ ctl' = Run(thunk')
    /\ conr' = Front(conr)
    /\ UNCHANGED <<konts, fuel>> /\ UNCHANGED errs

(* savetexh and restoretexh, the thunks of on-err.                           *)
Savetexh ==
    /\ ctl.op = "run" /\ ctl.thunk.kont # Base /\ ctl.thunk.side = "before"
    /\ old' = [old EXCEPT ![ctl.thunk.kont] = exh]
    /\ exh' = ctl.thunk.kont
    /\ ctl' = Return("val")
    /\ UNCHANGED <<konts, conr, fuel>> /\ UNCHANGED tree

SlipRestored(k) == Base
Restored(k) == old[k]
Restoretexh ==
    /\ ctl.op = "run" /\ ctl.thunk.kont # Base /\ ctl.thunk.side = "after"
    /\ exh' = Restored(ctl.thunk.kont)
    /\ ctl' = Return("val")
    /\ UNCHANGED <<konts, conr, fuel, old>> /\ UNCHANGED tree
----------------------------------------------------------------------------
(* What the functions do with the value that comes back to them.             *)
(* arc_dynamic_wind calls the during thunk, then reroots to where it began.  *)
Entered ==
    /\ Resume("entering")
    /\ conr' = Append(Front(conr), Frame("during", Top.cell, Top.kont, "val"))
    /\ ctl' = Run(Dead)
    /\ UNCHANGED <<konts, fuel>> /\ UNCHANGED tree /\ UNCHANGED errs

DuringDone ==
    /\ Resume("during")
    /\ conr' = Append(Front(conr), Frame("leaving", Top.cell, Top.kont, ctl.val))
    /\ ctl' = Reroot(Top.cell)
    /\ UNCHANGED <<konts, fuel>> /\ UNCHANGED tree /\ UNCHANGED errs

Left ==
    /\ Resume("leaving")
    /\ conr' = Front(conr)
    /\ ctl' = Return(Top.val)
    /\ UNCHANGED <<konts, fuel>> /\ UNCHANGED tree /\ UNCHANGED errs

(* contwrapper after its reroot: a continuation without frames is nil, and   *)
(* then the value goes to the caller of contwrapper.                         *)
Landing(k) == IF konts[k].frames = <<>> THEN Front(conr) ELSE konts[k].frames
Landed ==
    /\ Resume("throw")
    /\ conr' = Landing(Top.kont)
    /\ ctl' = Return(Top.val)
    /\ UNCHANGED <<konts, fuel>> /\ UNCHANGED tree /\ UNCHANGED errs

(* arc_on_err once its ccc has returned: an exception goes to the handler,   *)
(* which runs as its tail call.                                              *)
Handles(v) == v # "val"
OnErrDone ==
    /\ Resume("onerr")
    /\ conr' = Front(conr)
    /\ ctl' = IF Handles(ctl.val) THEN Run(Dead) ELSE Return(ctl.val)
    /\ UNCHANGED <<konts, fuel>> /\ UNCHANGED tree /\ UNCHANGED errs

(* The longjmp of arc_err: the thread is Tbroken.                            *)
Unhandled ==
    /\ Resume("unhandled")
    /\ ctl' = Stop("broken")
    /\ UNCHANGED <<konts, conr, fuel>> /\ UNCHANGED tree /\ UNCHANGED errs

BodyGoesOn ==
    /\ Resume("body")
    /\ conr' = Front(conr)
    /\ ctl' = Run(Dead)
    /\ UNCHANGED <<konts, fuel>> /\ UNCHANGED tree /\ UNCHANGED errs

(* The trampoline finds no continuation: the thread is Trelease.             *)
Released ==
    /\ ctl.op = "return" /\ conr = <<>>
    /\ ctl' = Stop("released")
    /\ UNCHANGED <<konts, conr, fuel>> /\ UNCHANGED tree /\ UNCHANGED errs

Ended == ctl.op \in {"released", "broken"} /\ UNCHANGED vars

Next == \/ Wind \/ Capture \/ Throw \/ OnErr \/ Raise \/ Finish
        \/ RerootDone \/ RerootUp \/ RerootMove \/ Savetexh \/ Restoretexh
        \/ Entered \/ DuringDone \/ Left \/ Landed \/ OnErrDone \/ Unhandled
        \/ BodyGoesOn \/ Released \/ Ended

Spec == Init /\ [][Next]_vars
----------------------------------------------------------------------------
(* The winding tree as the program sees it: an edge belongs to the inner of  *)
(* its two cells, whichever of them is nearer to TCH.                        *)
Inner(c) == car[c].into.side = "before"
Outer(c) == IF c # tch /\ Inner(c) THEN cdr[c]
            ELSE CHOOSE d \in Used : cdr[d] = c /\ ~ Inner(d)
(* A cell is younger than the one it was begun in.                           *)
ExtentsAt ==
    LET path[c \in Used] ==
            IF c = Base \/ Outer(c) >= c THEN <<>> ELSE Append(path[Outer(c)], c)
    IN path

Frames == [fn : Waiting, cell : Cells, kont : 0 .. MaxKonts, val : Values]
Ops == {"run", "return", "reroot", "released", "broken"}

(* Every variable holds what the code can put there, and the links of the    *)
(* cells lead to TCH, the one cell whose pair has been taken away.           *)
TypeOK ==
    /\ Used \subseteq Cells /\ tch \in Used
    /\ car \in [Used -> [into : Thunks, out : Thunks]]
    /\ cdr \in [Used -> Cells \cup {Nil}]
    /\ \A c \in Used : (cdr[c] = Nil) <=> (c = tch)
    /\ konts \in Seq([frames : Seq(Frames), tch : Cells]) /\ Len(konts) <= MaxKonts
    /\ exh \in 0 .. Len(konts)
    /\ old \in [Konts -> 0 .. Len(konts)]
    /\ conr \in Seq(Frames)
    /\ ctl \in [op : Ops, thunk : Thunks, to : Cells, val : Values]
    /\ fuel \in 0 .. Fuel
    /\ thunk \in Thunks

(* Program code runs outside every thunk and every transfer of control.      *)
Settled == /\ ctl.op = "run" /\ ctl.thunk = Dead
           /\ \A i \in DOMAIN conr : conr[i].fn \in {"body", "during", "onerr"}

(* The dynamic-winds that wait in the n outermost frames: a "during" frame   *)
(* holds the cell outside of its wind.                                       *)
Durings(n) == {i \in 1 .. n : conr[i].fn = "during"}

(* Code that runs is inside of the extents that its continuation will leave, *)
(* and of no others: as many as it has dynamic-winds waiting in its frames,  *)
(* each begun at the extents outside of it (arc_dynamic_wind, contwrapper).  *)
ExtentsMatchStack ==
    Settled => LET here == ExtentsAt[tch] IN
        /\ Len(here) = Cardinality(Durings(Len(conr)))
        /\ \A i \in Durings(Len(conr)) :
               ExtentsAt[conr[i].cell] = SubSeq(here, 1, Cardinality(Durings(i)) - 1)

Guards == {i \in Durings(Len(conr)) : conr[i].kont # Base}
Innermost == CHOOSE i \in Guards : \A j \in Guards : j <= i

(* An error goes to the innermost on-err that the running code is inside of, *)
(* however control came there (savetexh, restoretexh, arc_err).              *)
HandlerMatchesStack ==
    Settled => exh = IF Guards = {} THEN Base ELSE conr[Innermost].kont

(* on-err calls its handler for an error raised to it, never for a value     *)
(* that its thunk returned (arc_on_err).                                     *)
HandlersAnswerRaises ==
    Resume("onerr") /\ Handles(ctl.val) => ctl.val = "raised"

Transfer == LET n == CHOOSE i \in 0 .. Len(conr) :
                        /\ i = 0 \/ conr[i].fn # "reroot"
                        /\ \A j \in i + 1 .. Len(conr) : conr[j].fn = "reroot"
            IN IF n < Len(conr) THEN conr[n + 1].cell
               ELSE IF ctl.op = "reroot" THEN ctl.to ELSE tch

(* Whatever the order of throws, errors and returns, in thunks or out of     *)
(* them, __arc_reroot runs the thunks of the extents between here and there, *)
(* in order, and no other.                                                   *)
Abs == INSTANCE Extents WITH
           Winds <- Cells, extents <- ExtentsAt[tch], goal <- ExtentsAt[Transfer],
           thunk <- [wind |-> thunk.wind, side |-> thunk.side]
ImplementsExtents == Abs!Spec

(* A thread that an error has broken is outside of every extent (arc_err).   *)
BrokenIsUnwound == ctl.op = "broken" => ExtentsAt[tch] = <<>> /\ exh = Base
=============================================================================
