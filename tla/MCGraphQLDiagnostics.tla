------------------------ MODULE MCGraphQLDiagnostics ------------------------
(* GraphQLDiagnostics on small instances.  HTTP requests are               *)
(* interchangeable, and so are accounts.                                   *)
EXTENDS GraphQLDiagnostics, TLC

Symmetry == Permutations(Clients) \cup Permutations(Accounts)
=============================================================================
