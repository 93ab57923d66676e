-------------------------- MODULE MCGitHubRateLimit --------------------------
(* GitHubRateLimit on small instances.  Threads are interchangeable, and   *)
(* so are the tasks that timers start.                                     *)
EXTENDS GitHubRateLimit, TLC

Symmetry == Permutations(Clients) \cup Permutations(AutoTasks)
==============================================================================
