----------------------- MODULE MCGitHubActionsBilling -----------------------
(* Instances of GitHubActionsBilling for TLC.                               *)
EXTENDS GitHubActionsBilling, TLC

Item(product, unit, sku, discount, net) ==
  [product |-> product, unit |-> unit, sku |-> sku, discount |-> discount, net |-> net]

(* Items of every class; one is off in one field at a time. *)
MCItems ==
  {Item("actions", "minutes", sku, 1, 2) :
     sku \in {"standard", "larger_runner", "storage", "unknown", "bad"}}
    \cup {Item("other", "minutes", "standard", 1, 2), Item("actions", "hours", "standard", 1, 2)}
    \cup {Item("actions", "minutes", "standard", q, 1) : q \in {Bad, Huge}}

MCItemLists == {<<>>} \cup {<<i, Item("actions", "minutes", "standard", 1, 0)>> : i \in MCItems}

Symmetry == Permutations(Clients)
=============================================================================
