------------------------- MODULE CollectorSnapshot --------------------------
(***************************************************************************)
(* What the collector of alloc.c owes to any program, with a variable that *)
(* only records.  Marking goes by a snapshot: what could be reached when   *)
(* an epoch ended is not freed in the next one, whatever the program       *)
(* overwrites meanwhile, nor is what is allocated since.                   *)
(***************************************************************************)
EXTENDS Collector

VARIABLE owed     \* the conses that this epoch must not free

svars == <<vars, owed>>

(* What hangs on the roots that every epoch's end shades, by references    *)
(* within what was owed till then.                                         *)
Hangs(X) == ({valr, field[Global]} \cup {field[o] : o \in X}) \cap owed \subseteq X
Kept == {o \in owed : \A X \in SUBSET owed : Hangs(X) => o \in X}

SInit == Init /\ owed = {}

EpochEnds == End /\ LastPass
SNext ==
  /\ Next
  /\ owed' = IF EpochEnds THEN Kept ELSE owed \cup (Allocated' \ Allocated)

SSpec == SInit /\ [][SNext]_svars
FairSSpec == SSpec /\ WF_vars(Collect)

(* A cons that could be reached from the global or the value register at   *)
(* every end of an epoch since it was allocated, by way of such conses, is *)
(* not freed, whatever the program does with its references between two    *)
(* slices (gc, mark, __arc_wb).                                            *)
NothingOwedIsFreed == owed \subseteq Allocated
=============================================================================
