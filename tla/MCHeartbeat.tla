---------------------------- MODULE MCHeartbeat ----------------------------
(* Instance of Heartbeat for TLC.  The table is keyed by service and no     *)
(* handler reads two keys, so one service with two requests in flight, the  *)
(* sweeper and restarts shows the interleavings; ttls of one and two ticks  *)
(* and a grace of one separate healthy, expired and past the grace period,  *)
(* and a lease from the ttl of another registration.                       *)
EXTENDS Heartbeat

CONSTANTS s1, r1, r2

=============================================================================
