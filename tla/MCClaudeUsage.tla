---------------------------- MODULE MCClaudeUsage ----------------------------
(* Instances of ClaudeUsage for TLC. *)
EXTENDS ClaudeUsage

(* Both windows, or one; the two are alike. *)
MCExtracted == {Windows, {"five_hour"}}
=============================================================================
