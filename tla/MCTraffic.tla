----------------------------- MODULE MCTraffic -----------------------------
(* One subscription with its two counters.                                 *)
EXTENDS Traffic

CONSTANTS u1, up, down

OneUser == {u1}
TwoCounters == {up, down}
OneOwner == [c \in TwoCounters |-> u1]
MoreUp == [c \in TwoCounters |-> IF c = up THEN 2 ELSE 1]

=============================================================================
