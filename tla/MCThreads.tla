----------------------------- MODULE MCThreads -----------------------------
(* Small instances of Threads, and of one of its channels, for TLC. *)
EXTENDS ChannelRefinement

CONSTANTS t1, t2, t3, c1, v1, v2

Three    == {t1, t2, t3}
OneChan  == {c1}
OneVal   == {v1}
TwoVals  == {v1, v2}
ValOrChan == {v1, c1}

(* Every thread but Main is like any other. *)
Spawned  == Permutations({t2, t3})

Nothing  == {}
Kills    == {"kill", "acell"}
Breaks   == {"break"}
Disrupted == {"kill", "break", "acell"}
=============================================================================
