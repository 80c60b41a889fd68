----------------------------- MODULE MCTraffic ------------------------------
(* A small log for TLC, whose limits are all within reach.                 *)
EXTENDS Traffic
=============================================================================
