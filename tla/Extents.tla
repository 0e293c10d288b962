------------------------------ MODULE Extents ------------------------------
(* What dynamic-wind promises, whatever keeps the books: the extents that a  *)
(* program is inside of, outermost first, and the extents that the present   *)
(* transfer of control has to end in.  A transfer leaves the extents that    *)
(* the target is not inside of, innermost first, then enters those it is,    *)
(* outermost first, and runs the one thunk that belongs to each step; a      *)
(* thunk may start another transfer, from wherever this one has got to.      *)
EXTENDS Sequences, SequencesExt

CONSTANT Winds     \* the calls of dynamic-wind

VARIABLES extents, \* the extents in force, outermost first
          goal,    \* where the transfer under way ends
          thunk    \* the last before or after thunk called

avars == <<extents, goal, thunk>>

Nothing == [wind |-> 0, side |-> "none"]

Init == extents = <<>> /\ goal = <<>> /\ thunk = Nothing

(* A call of dynamic-wind, a return from one, a throw, an error, or the      *)
(* resumption of the code around a thunk.                                    *)
Aim == /\ goal' \in Seq(Winds)
       /\ UNCHANGED <<extents, thunk>>

Leave == /\ extents # <<>>
         /\ ~ IsPrefix(extents, goal)
         /\ extents' = Front(extents)
         /\ thunk' = [wind |-> Last(extents), side |-> "after"]

Enter == /\ IsStrictPrefix(extents, goal)
         /\ extents' = Append(extents, goal[Len(extents) + 1])
         /\ thunk' = [wind |-> Last(extents'), side |-> "before"]

Next == Aim \/ (Leave /\ UNCHANGED goal) \/ (Enter /\ UNCHANGED goal)

Spec == Init /\ [][Next]_avars
=============================================================================
