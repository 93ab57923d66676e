------------------------------ MODULE ClaudeCard ------------------------------
(***************************************************************************)
(* What the Claude card of the compact view can show, and what it owes its *)
(* reader, whoever stores observations and whenever they are read.         *)
(***************************************************************************)
VARIABLES
  card,      \* what is displayed
  stored     \* history: the records ever stored

Sources == {"auto", "manual"}

Unavailable(status) == [source |-> "none", status |-> status]
Shown(source, r) == [source |-> source, status |-> "ok", record |-> r]

(* The card shows one observation as a whole, made by one writer, whatever is
   written between the two GETs of a load. *)
OneObservationIsShown ==
  card.source # "none" => card.record \in stored
=============================================================================
