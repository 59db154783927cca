----------------------------- MODULE MCWatchSLO -----------------------------
(* Small instances of WatchSLO.                                              *)
EXTENDS WatchSLO

CONSTANTS c1, c2, c3, absent, k1, k2

\* c1 has a target; c2 has the same kind, and c3 another.
KeyOf == [c \in {c1, c2, c3} |-> IF c = c3 THEN k2 ELSE k1]
Written == {<<c1>>, <<c2, c3>>}
=============================================================================
