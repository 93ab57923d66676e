---------------------------- MODULE MCUsageLimits ----------------------------
(* Instances of UsageLimits for TLC.                                        *)
EXTENDS UsageLimits, TLC

Payload(name, max, type, value, next, utc) ==
  [model_name |-> name, max_value |-> max, reset_interval_type |-> type,
   reset_interval_value |-> value, next_reset_at |-> next, utc |-> utc]

(* Defaults of the old seed, known by name and maximum and by name alone, the
   name of the first with another maximum, and limits of the user's own: with a
   fixed and a monthly interval, on a day that every month has and on one it
   has not, with a date of either zone, without a date, without an interval. *)
MCPayloads ==
  {Payload(SampleName, SampleMax, "days", 2, 3, TRUE),
   Payload(VendorName, 9, "months", 1, 1, FALSE),
   Payload(SampleName, 9, "days", 0, 1, FALSE),
   Payload("own", SampleMax, "months", 1, 3, TRUE),
   Payload("own", 9, "days", 3, None, FALSE),
   Payload("own", None, "manual", 1, 2, TRUE)}

Symmetry == Permutations(Clients)
=============================================================================
