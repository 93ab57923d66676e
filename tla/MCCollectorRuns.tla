--------------------------- MODULE MCCollectorRuns ---------------------------
(* Instances of CollectorRuns for TLC, fed by the collectors of all vendors. *)
EXTENDS CollectorRuns, TLC

CONSTANTS UsageKeys, CostKeys, Cursors, MaxPages, PageRows
MaxBatch == 2   \* bound: records of a batch; one alone may have another value

Vendors == INSTANCE VendorCollectors

MCKeys == UsageKeys \cup CostKeys
MCBatches ==
  {b \in Vendors!OpenAICollects \cup Vendors!ClaudeCollects \cup Vendors!GeminiCollects :
     /\ Len(b) <= MaxBatch
     /\ \A i \in DOMAIN b : b[i].val = 2 => Len(b) = 1 /\ b[i].key \in UsageKeys}

Symmetry == Permutations(Requests)
==============================================================================
