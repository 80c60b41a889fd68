----------------------------- MODULE MCWebhooks -----------------------------
(* A small agent and its user for TLC.                                     *)
EXTENDS Webhooks, TLC

Symmetry == Permutations(Calls) \cup Permutations(Hooks) \cup Permutations(Tasks)
              \cup Permutations(Contexts) \cup Permutations(Conns)
=============================================================================
