------------------------- MODULE MCHeartbeatTracker -------------------------
(* Instantiation of HeartbeatTracker for TLC: two users, half-second ticks, *)
(* and a horizon past the 10 s window plus the one-second grace.           *)
EXTENDS HeartbeatTracker

CONSTANTS u1, u2

MCUsers == {u1, u2}

=============================================================================
