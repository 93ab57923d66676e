------------------------- MODULE GitHubActionsBilling -------------------------
(***************************************************************************)
(* The monthly GitHub Actions minutes: a controller that lets one attempt  *)
(* at a time call gh twice and keeps the last report, and the aggregation  *)
(* of the usage items into that report.                                    *)
(*                                                                         *)
(* The report is built between the two locked sections.  A quantity beyond *)
(* the range of a float raises there, and refreshing stays set.            *)
(***************************************************************************)
EXTENDS Integers, Sequences, FiniteSets

CONSTANTS
  Clients,      \* threads that serve POST /api/github-actions-billing/refresh
  None,
  Plans,        \* plan names of GET /user; None without one
  ItemLists,    \* usageItems that the summary may hold
  MaxTime,      \* bound: the clock
  Cooldown,     \* DEFAULT_COOLDOWN_SECONDS
  Month         \* the length of a billing period

ASSUME BillingAssumption ==
  /\ {MaxTime, Cooldown} \subseteq Nat /\ Month \in Nat \ {0}
  /\ None \notin Int

VARIABLES
  clock,
  refreshing,   \* _refreshing
  lastAttempt,  \* _last_attempt_at
  lastSuccess,  \* _last_success_at
  lastReport,   \* _last_report
  lastError,    \* the error_type of _last_error
  succeeded,    \* _last_fetch_succeeded
  thread,       \* every thread: what it is at, since when, and what it has
  ended,        \* history: the attempt that ended last
  reported      \* history: the last attempt that brought a report

held == <<refreshing, lastAttempt, lastSuccess, lastReport, lastError, succeeded>>
history == <<ended, reported>>
vars == <<clock, held, thread, history>>

-----------------------------------------------------------------------------
(* Usage items.  Two negative numbers stand for quantities that are none.  *)

Bad  == -1   \* missing, negative, not finite or not a number
Huge == -2   \* an integer that float() raises for

Quantity(q) == IF q >= 0 THEN q ELSE 0

Counts(item) == item.product = "actions" /\ item.unit = "minutes" /\ item.sku # "bad"

Standard(items) == {i \in DOMAIN items : Counts(items[i]) /\ items[i].sku = "standard"}
Larger(items)   == {i \in DOMAIN items : Counts(items[i]) /\ items[i].sku = "larger_runner"}

(* The total that a loop over the items adds up. *)
AddedUp(minutes) ==
  LET total[n \in 0 .. Len(minutes)] == IF n = 0 THEN 0 ELSE total[n - 1] + minutes[n]
  IN  total[Len(minutes)]

Discounted(items) ==
  AddedUp([i \in DOMAIN items |-> IF i \in Standard(items) THEN Quantity(items[i].discount) ELSE 0])
Net(items, counted) ==
  AddedUp([i \in DOMAIN items |-> IF i \in counted THEN Quantity(items[i].net) ELSE 0])

(* float() of both quantities of any counted item, whatever its SKU. *)
Overflows(items) ==
  \E i \in DOMAIN items : Counts(items[i]) /\ Huge \in {items[i].discount, items[i].net}

Report(plan, items, asked) ==
  [status     |-> IF plan \in {"free", "pro"} THEN "usage_breakdown_inconclusive" ELSE "plan_unknown",
   period     |-> asked \div Month,
   discounted |-> Discounted(items),
   billable   |-> Net(items, Standard(items)),
   paid       |-> Net(items, Larger(items)),
   skipped    |-> {i \in DOMAIN items : Counts(items[i]) /\ items[i].sku = "unknown"}]

(* How a call of gh fails: the first phrase of stderr that is known, or an
   end of its own. *)
Phrases == {"login", "credentials", "secondary", "permission", "not_found", "http"}

Classified(stderr) ==
  CASE "login" \in stderr       -> "not_authenticated"
    [] "login" \notin stderr /\ "credentials" \in stderr -> "authentication_expired"
    [] {"login", "credentials"} \cap stderr = {} /\ "secondary" \in stderr -> "secondary_rate_limit"
    [] {"login", "credentials", "secondary"} \cap stderr = {} /\ "permission" \in stderr ->
         "permission_required"
    [] stderr \subseteq {"not_found", "http"} /\ "not_found" \in stderr -> "api_unavailable"
    [] stderr = {"http"} -> "api_error"
    [] OTHER -> "command_failed"

CallFailures ==
  {"cli_not_installed", "timeout", "unknown", "invalid_json", "invalid_response"}
    \cup {Classified(stderr) : stderr \in SUBSET Phrases}

(* What an attempt may end with; without an error it has brought a report. *)
Attempts == [plan : Plans \cup {None}, items : ItemLists \cup {<<>>}, asked : 0 .. MaxTime,
             error : CallFailures \cup {None}]

(* The discount of an item is of one of the classes above, and None is not
   an error, an attempt or a report. *)
ASSUME ItemAssumption ==
  \A items \in ItemLists : \A i \in DOMAIN items : items[i].discount \in Nat \cup {Bad, Huge}
ASSUME NoneAssumption ==
  /\ None \notin CallFailures \cup Attempts
  /\ \A plan \in Plans \cup {None}, items \in ItemLists, asked \in 0 .. MaxTime :
       Report(plan, items, asked) # None

-----------------------------------------------------------------------------
Idle == [at |-> "idle", asked |-> None, plan |-> None, items |-> <<>>, error |-> None]

Init ==
  /\ clock = 0
  /\ refreshing = FALSE /\ lastAttempt = None /\ lastSuccess = None
  /\ lastReport = None /\ lastError = None /\ succeeded = FALSE
  /\ thread = [c \in Clients |-> Idle]
  /\ ended = None /\ reported = None

At(c, where) == thread[c].at = where
Goes(c, to) == thread' = [thread EXCEPT ![c] = to]

(* The endpoint reads the clock before the controller takes its lock. *)
Ask(c) ==
  /\ At(c, "idle")
  /\ Goes(c, [Idle EXCEPT !.at = "asked", !.asked = clock])
  /\ UNCHANGED <<clock, held, history>>

(* Mutant: the cooldown is counted from the last success. *)
CoolsFromSuccess(asked) == lastSuccess # None /\ asked - lastSuccess < Cooldown

Cools(asked) == lastAttempt # None /\ asked - lastAttempt < Cooldown

TurnedAway(c) ==
  /\ At(c, "asked") /\ (refreshing \/ Cools(thread[c].asked))
  /\ Goes(c, Idle)
  /\ UNCHANGED <<clock, held, history>>

Enter(c) ==
  /\ At(c, "asked") /\ ~refreshing /\ ~Cools(thread[c].asked)
  /\ refreshing' = TRUE
  /\ Goes(c, [thread[c] EXCEPT !.at = "user"])
  /\ UNCHANGED <<clock, lastAttempt, lastSuccess, lastReport, lastError, succeeded, history>>

CallUser(c) ==
  /\ At(c, "user")
  /\ \/ \E plan \in Plans : Goes(c, [thread[c] EXCEPT !.at = "usage", !.plan = plan])
     \/ \E e \in CallFailures : Goes(c, [thread[c] EXCEPT !.at = "failed", !.error = e])
  /\ UNCHANGED <<clock, held, history>>

CallUsage(c) ==
  /\ At(c, "usage")
  /\ \/ \E items \in ItemLists : Goes(c, [thread[c] EXCEPT !.at = "fetched", !.items = items])
     \/ \E e \in CallFailures : Goes(c, [thread[c] EXCEPT !.at = "failed", !.error = e])
  /\ UNCHANGED <<clock, held, history>>

(* The attempt of c ends with this error, or None, and is the last one. *)
Ends(c, error) ==
  /\ refreshing' = FALSE
  /\ lastAttempt' = thread[c].asked
  /\ ended' = [plan |-> thread[c].plan, items |-> thread[c].items, asked |-> thread[c].asked,
               error |-> error]
  /\ reported' = IF error = None THEN ended' ELSE reported
  /\ Goes(c, Idle)
  /\ UNCHANGED clock

(* The fetch raises: its JSON holds what json.loads has no JSONDecodeError for. *)
Raises(c) ==
  /\ At(c, "user") \/ At(c, "usage")
  /\ Ends(c, "unknown")
  /\ lastError' = "unknown" /\ succeeded' = FALSE
  /\ UNCHANGED <<lastSuccess, lastReport>>

(* Mutant: a failure drops the report before it. *)
FailsAndForgets(c) ==
  /\ At(c, "failed")
  /\ Ends(c, thread[c].error)
  /\ lastError' = thread[c].error /\ succeeded' = FALSE
  /\ lastReport' = None /\ lastSuccess' = None

Fails(c) ==
  /\ At(c, "failed")
  /\ Ends(c, thread[c].error)
  /\ lastError' = thread[c].error /\ succeeded' = FALSE
  /\ UNCHANGED <<lastSuccess, lastReport>>

Succeeds(c) ==
  /\ At(c, "fetched") /\ ~Overflows(thread[c].items)
  /\ Ends(c, None)
  /\ lastReport' = Report(thread[c].plan, thread[c].items, thread[c].asked)
  /\ lastSuccess' = thread[c].asked
  /\ lastError' = None /\ succeeded' = TRUE

(* No except clause is around the building of the report: the request ends
   with refreshing set. *)
BuildRaises(c) ==
  /\ At(c, "fetched") /\ Overflows(thread[c].items)
  /\ Goes(c, [Idle EXCEPT !.at = "raised", !.asked = thread[c].asked])
  /\ UNCHANGED <<clock, held, history>>

(* All state is in the process. *)
Restart ==
  /\ refreshing' = FALSE /\ lastAttempt' = None /\ lastSuccess' = None
  /\ lastReport' = None /\ lastError' = None /\ succeeded' = FALSE
  /\ thread' = [c \in Clients |-> Idle]
  /\ ended' = None /\ reported' = None
  /\ UNCHANGED clock

Tick == clock < MaxTime /\ clock' = clock + 1 /\ UNCHANGED <<held, thread, history>>

Next ==
  \/ \E c \in Clients : \/ Ask(c) \/ TurnedAway(c) \/ Enter(c) \/ CallUser(c) \/ CallUsage(c)
                        \/ Raises(c) \/ Fails(c) \/ Succeeds(c) \/ BuildRaises(c)
  \/ Restart \/ Tick

Spec == Init /\ [][Next]_vars

-----------------------------------------------------------------------------
(* GET /api/github-actions-billing at the instant now.                     *)
Snapshot(now) ==
  LET fetched == succeeded /\ lastReport # None IN
  [fetched   |-> fetched,
   stale     |-> IF fetched THEN now - lastSuccess > Cooldown ELSE lastReport # None,
   report    |-> IF fetched THEN lastReport ELSE None,
   lastKnown |-> IF fetched THEN None ELSE lastReport,
   error     |-> IF fetched THEN None ELSE lastError]

(* The month in which the attempt was asked for, and the discounted minutes
   of its own standard Actions runners. *)
Tells(report, attempt) ==
  /\ report.period = attempt.asked \div Month
  /\ report.discounted =
       AddedUp([i \in DOMAIN attempt.items |->
         IF /\ attempt.items[i].sku = "standard" /\ attempt.items[i].product = "actions"
            /\ attempt.items[i].unit = "minutes" /\ attempt.items[i].discount # Bad
         THEN attempt.items[i].discount ELSE 0])

(* What a page is shown is what became of the attempt that ended last, and of
   no other: its report, or its own error beside the report of the last
   attempt that brought one, which no failure since has erased or changed. *)
SnapshotTellsTheLastAttempt ==
  LET shown == Snapshot(clock) IN
  /\ shown.fetched <=> ended # None /\ ended.error = None
  /\ shown.fetched => Tells(shown.report, ended)
  /\ ended # None /\ ended.error # None => shown.error = ended.error
  /\ ~shown.fetched =>
       /\ shown.lastKnown = None <=> reported = None
       /\ reported # None => Tells(shown.lastKnown, reported)

(* The attempts that refresh lets in are those a RefreshGate lets in: one at a
   time, a failure cools down like a success, and one whose report could not be
   built is never followed by another. *)
Busy == {c \in Clients : thread[c].at \notin {"idle", "asked"}}
Running == IF Busy = {} THEN None ELSE thread[CHOOSE c \in Busy : TRUE].asked
Gate == INSTANCE RefreshGate WITH running <- Running, last <- lastAttempt
AttemptsPassTheGate == Gate!Spec
=============================================================================
