----------------------------- MODULE RefreshGate -----------------------------
(***************************************************************************)
(* What the controller of a quota promises about the attempts it lets in:  *)
(* one at a time, each at least Cooldown after the one before, counted     *)
(* from when that one was asked for and whatever became of it.  A restart  *)
(* forgets both.                                                           *)
(***************************************************************************)
EXTENDS Integers

CONSTANTS Cooldown, None

VARIABLES
  running,  \* when the attempt under way was asked for, or None
  last      \* when the attempt before it was, or None

Init == running = None /\ last = None

Begin ==
  /\ running = None /\ running' # None
  /\ last # None => running' - last >= Cooldown
  /\ UNCHANGED last

End == running # None /\ last' = running /\ running' = None

Forget == running' = None /\ last' = None

Next == Begin \/ End \/ Forget

Spec == Init /\ [][Next]_<<running, last>>
==============================================================================
