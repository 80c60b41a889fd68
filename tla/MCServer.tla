------------------------------ MODULE MCServer ------------------------------
(* One client's sessions, and a log for a single entry.                    *)
EXTENDS Server
=============================================================================
