---------------------------- MODULE MCInspector -----------------------------
(* A small inspector for TLC.                                              *)
EXTENDS Inspector
=============================================================================
