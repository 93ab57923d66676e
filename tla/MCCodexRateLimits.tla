-------------------------- MODULE MCCodexRateLimits --------------------------
(* CodexRateLimits on small instances; the threads of the clients are        *)
(* interchangeable.                                                         *)
EXTENDS CodexRateLimits, TLC

Symmetry == Permutations(Clients)
==============================================================================
