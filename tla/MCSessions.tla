----------------------------- MODULE MCSessions -----------------------------
(* Small hosted inspectors for TLC.  The quotas, clients and requests of an *)
(* instance are interchangeable, and so are its sessions.                   *)
EXTENDS Sessions, TLC

Symmetry == Permutations(Objects) \cup Permutations(Requests)
              \cup Permutations(Clients) \cup Permutations(Groups)
=============================================================================
