---------------------------- MODULE SessionLedger ----------------------------
(***************************************************************************)
(* What the GraphQL diagnostics promise a reader of their session table:   *)
(* an append-only ledger of measurements.  A session gets the next free    *)
(* number, sessions that are open together measure one account, and a      *)
(* closed session is never reopened or given to somebody else.             *)
(***************************************************************************)
EXTENDS Naturals

CONSTANTS Size,       \* how many sessions the ledger can hold
          Accounts,
          None        \* the owner of a blank session

Numbers == 1 .. Size

VARIABLES state,      \* "blank", "open" or "closed"
          owner       \* the account of every session that is not blank

vars == <<state, owner>>

NextFree(s) == state[s] = "blank" /\ \A t \in Numbers : t < s => state[t] # "blank"

Enter(s, a, how) ==
  /\ NextFree(s)
  /\ \A t \in Numbers : state[t] = "open" => owner[t] = a
  /\ state' = [state EXCEPT ![s] = how]
  /\ owner' = [owner EXCEPT ![s] = a]

\* A session is entered open, or closed at once when there is no quota left.
Open(s, a)  == Enter(s, a, "open")
Record(s, a) == Enter(s, a, "closed")

Close(s) ==
  /\ state[s] = "open" /\ state' = [state EXCEPT ![s] = "closed"]
  /\ UNCHANGED owner

Init == state = [s \in Numbers |-> "blank"] /\ owner = [s \in Numbers |-> None]
Next == \E s \in Numbers : Close(s) \/ \E a \in Accounts : Open(s, a) \/ Record(s, a)
Spec == Init /\ [][Next]_vars
==============================================================================
