---------------------------- MODULE MCEdgeRelay ----------------------------
(***************************************************************************)
(* Small instances of EdgeRelay for TLC.                                   *)
(***************************************************************************)
EXTENDS EdgeRelay, TLC

CONSTANTS e1, e2, h1, t1, t2

OneEvent == {e1}
TwoEvents == {e1, e2}
OneHeartbeat == {h1}
NoHeartbeat == {}
OneThread == {t1}
TwoThreads == {t1, t2}

(* The handler threads are interchangeable, and so are the events. *)
Symmetry == Permutations(Threads) \cup Permutations(Events)
=============================================================================
