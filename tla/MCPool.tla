------------------------------- MODULE MCPool -------------------------------
(* A small pool for TLC.                                                   *)
EXTENDS Pool
=============================================================================
