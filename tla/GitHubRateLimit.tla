--------------------------- MODULE GitHubRateLimit ---------------------------
(***************************************************************************)
(* The GitHub rate limit monitor: the manual refresh behind a cooldown and *)
(* the single automatic refresh armed for the reset of an exhausted        *)
(* resource.                                                               *)
(*                                                                         *)
(* Processes: threads that serve POST /api/github-rate-limit/refresh, and  *)
(* the asyncio tasks that timers start.  Both read the clock, enter the    *)
(* controller under its lock, run gh with the lock released, write the     *)
(* outcome under the lock, and then arm a timer from the snapshot they got *)
(* back.  GitHub resets a window when it likes after the instant it gave.  *)
(***************************************************************************)
EXTENDS Integers, FiniteSets

CONSTANTS
  Clients,      \* threads that serve a manual refresh
  AutoTasks,    \* tasks that a timer can start
  Copies,       \* bound: timers due at one instant, of which more act like the last
  None,         \* Python's None
  MaxTime,      \* bound: the clock
  Window,       \* length of a rate limit window
  Cooldown,     \* DEFAULT_COOLDOWN_SECONDS
  Grace,        \* AUTO_REFRESH_GRACE_SECONDS
  Early,        \* how far before its wall clock time a timer may fire
  Malformed,    \* whether gh may return a resource block that fails to parse
  Unparsable    \* whether gh may return a reset the local timezone cannot hold

ASSUME NoneAssumption  == None \notin Int
ASSUME CallerAssumption == Clients \cap AutoTasks = {}
ASSUME BoundAssumption ==
  /\ {MaxTime, Cooldown, Grace, Early, Copies} \subseteq Nat
  /\ {Malformed, Unparsable} \subseteq BOOLEAN
  /\ Window \in 1 .. MaxTime /\ Copies > 0

Callers   == Clients \cup AutoTasks
Time      == 0 .. MaxTime
Resources == {"core", "graphql"}     \* _AUTO_REFRESH_TARGET_RESOURCES

VARIABLES
  clock,
  window,      \* GitHub's window of every resource: its reset, and whether nothing is left
  refreshing,  \* _refreshing
  lastAttempt, \* _last_attempt_at
  report,      \* _last_report, reduced to the resets of the exhausted resources
  schedule,    \* _auto_refresh_pending, _scheduled_reset_at, _auto_refresh_attempted_for_reset
  timers,      \* how many call_later timers the event loop holds for every instant
  call,        \* the locals of the call each process is in
  lastManual   \* history: the clock reading of the last manual refresh that was let in

controller == <<refreshing, lastAttempt, report, schedule>>
vars == <<clock, window, controller, timers, call, lastManual>>

(***************************************************************************)
(* A report gives, for each resource, its reset if it is "Exhausted" or    *)
(* "Reset overdue", and None if it is well or its block is malformed.      *)
(***************************************************************************)
Resets   == {t \in Time : t + Grace <= MaxTime}
Report   == [Resources -> Resets \cup {None}]
ASSUME ReportAssumption == None \notin Report
Schedule == [pending : BOOLEAN, reset : Resets \cup {None}, attempted : Resets \cup {None}]
Call     == [at : {"idle", "called", "fetching", "arming"},
             now : Time \cup {None},        \* the `now` handed to the controller
             target : Resets \cup {None},   \* target_reset of an automatic refresh
             next : Time \cup {None}]       \* next_auto_refresh_at of the snapshot

Idle == [at |-> "idle", now |-> None, target |-> None, next |-> None]
Fetching == {c \in Callers : call[c].at = "fetching"}

\* _next_auto_refresh_at, which is set and cleared together with _scheduled_reset_at.
NextAt(s) == s.reset + Grace

Truth == [r \in Resources |-> IF window[r].empty THEN window[r].reset ELSE None]
Answers ==
  {a \in [Resources -> {None} \cup {Truth[r] : r \in Resources}] :
     \A r \in Resources : a[r] = Truth[r] \/ (Malformed /\ a[r] = None)}

\* _select_auto_refresh_target_reset
Target(rep) ==
  LET candidates == {rep[r] : r \in Resources} \ {None}
  IN  IF candidates = {} THEN None
      ELSE CHOOSE t \in candidates : \A u \in candidates : t <= u

\* MUTANT: a reset that was attempted is scheduled again.
ReconciledAgain(s, rep) ==
  IF Target(rep) = None THEN [s EXCEPT !.pending = FALSE, !.reset = None]
  ELSE [s EXCEPT !.pending = TRUE, !.reset = Target(rep)]
\* MUTANT: a report without an exhausted resource leaves the schedule alone.
ReconciledKeeping(s, rep) ==
  IF Target(rep) \in {None, s.attempted} THEN s
  ELSE [s EXCEPT !.pending = TRUE, !.reset = Target(rep)]
\* _reconcile_auto_refresh_schedule_locked
Reconciled(s, rep) ==
  CASE Target(rep) = None -> [s EXCEPT !.pending = FALSE, !.reset = None]
    [] Target(rep) # None /\ Target(rep) = s.attempted -> s
    [] OTHER -> [s EXCEPT !.pending = TRUE, !.reset = Target(rep)]

\* The automatic refresh for this reset is used up, however it went.
Consumed(s, target) == [s EXCEPT !.pending = FALSE, !.attempted = target]

(***************************************************************************)
(* GitHub and the clock.                                                   *)
(***************************************************************************)
Tick ==
  /\ clock < MaxTime /\ clock' = clock + 1
  /\ UNCHANGED <<window, controller, timers, call, lastManual>>

\* The quota is used up.  Bound: the reset leaves room for the refresh after it.
Spend(r) ==
  /\ ~window[r].empty /\ clock <= window[r].reset /\ window[r].reset \in Resets
  /\ window' = [window EXCEPT ![r].empty = TRUE]
  /\ UNCHANGED <<clock, controller, timers, call, lastManual>>

\* A new window begins, some time after the old one was to end.
Reset(r) ==
  /\ clock >= window[r].reset /\ clock + Window <= MaxTime
  /\ window' = [window EXCEPT ![r] = [reset |-> clock + Window, empty |-> FALSE]]
  /\ UNCHANGED <<clock, controller, timers, call, lastManual>>

(***************************************************************************)
(* POST /api/github-rate-limit/refresh.                                    *)
(***************************************************************************)
Request(c) ==
  /\ c \in Clients /\ call[c].at = "idle"
  /\ call' = [call EXCEPT ![c] = [Idle EXCEPT !.at = "called", !.now = clock]]
  /\ UNCHANGED <<clock, window, controller, timers, lastManual>>

Cooling(c) == lastAttempt # None /\ call[c].now - lastAttempt < Cooldown

\* MUTANT: only the flag is tested.
RejectedWhileBusy(c) == refreshing
Rejected(c) == refreshing \/ Cooling(c)

EnterRefresh(c) ==
  /\ c \in Clients /\ call[c].at = "called"
  /\ \/ /\ Rejected(c)
        /\ call' = [call EXCEPT ![c] = Idle]
        /\ UNCHANGED <<refreshing, lastManual>>
     \/ /\ ~Rejected(c)
        /\ call' = [call EXCEPT ![c].at = "fetching"]
        /\ refreshing' = TRUE
        /\ lastManual' = call[c].now
  /\ UNCHANGED <<clock, window, lastAttempt, report, schedule, timers>>

(***************************************************************************)
(* A timer and the task it starts.  The task's first step, which reads the *)
(* clock and hands the call to a worker thread, follows in the same loop.  *)
(***************************************************************************)
TimerFires(t, c) ==
  /\ timers[t] > 0 /\ clock >= t - Early
  /\ c \in AutoTasks /\ call[c].at = "idle"
  /\ timers' = [timers EXCEPT ![t] = @ - 1]
  /\ call' = [call EXCEPT ![c] = [Idle EXCEPT !.at = "called", !.now = clock]]
  /\ UNCHANGED <<clock, window, controller, lastManual>>

\* MUTANT: the schedule's own time is not tested.
DueWheneverPending(c) == schedule.pending
Due(c) == schedule.pending /\ call[c].now >= NextAt(schedule)

\* MUTANT: a refresh that is under way does not stop the automatic one.
BusyIgnored == FALSE
Busy == refreshing

\* The first locked section of maybe_run_auto_refresh.
EnterAuto(c) ==
  /\ c \in AutoTasks /\ call[c].at = "called"
  /\ \/ /\ ~Due(c)
        /\ call' = [call EXCEPT ![c] = Idle]
        /\ UNCHANGED <<refreshing, schedule>>
     \/ /\ Due(c) /\ Busy
        /\ schedule' = Consumed(schedule, schedule.reset)
        /\ call' = [call EXCEPT ![c] = Idle]
        /\ UNCHANGED refreshing
     \/ /\ Due(c) /\ ~Busy
        /\ call' = [call EXCEPT ![c].at = "fetching", ![c].target = schedule.reset]
        /\ refreshing' = TRUE
        /\ UNCHANGED schedule
  /\ UNCHANGED <<clock, window, lastAttempt, report, timers, lastManual>>

(***************************************************************************)
(* The outcome of the gh call, written under the lock.                     *)
(***************************************************************************)
\* What the second locked section first makes of the schedule.
Attempted(c) == IF c \in AutoTasks THEN Consumed(schedule, call[c].target) ELSE schedule

\* A manual refresh starts the cooldown, whatever came of it.
CountAttempt(c) ==
  lastAttempt' = IF c \in Clients THEN call[c].now ELSE lastAttempt

\* The snapshot handed to _schedule_auto_refresh_if_pending.
Return(c, s) ==
  call' = [call EXCEPT ![c] =
             IF s.pending THEN [Idle EXCEPT !.at = "arming", !.next = NextAt(s)] ELSE Idle]

FetchSucceeds(c, rep) ==
  /\ c \in Fetching
  /\ refreshing' = FALSE
  /\ CountAttempt(c)
  /\ report' = rep
  /\ schedule' = Reconciled(Attempted(c), rep)
  /\ Return(c, schedule')
  /\ UNCHANGED <<clock, window, timers, lastManual>>

FetchFails(c) ==
  /\ c \in Fetching
  /\ refreshing' = FALSE
  /\ CountAttempt(c)
  /\ schedule' = Attempted(c)
  /\ Return(c, schedule')
  /\ UNCHANGED <<clock, window, report, timers, lastManual>>

\* `except Exception` around the fetch: the call ends without a snapshot.
FetchRaises(c) ==
  /\ c \in Fetching
  /\ refreshing' = FALSE
  /\ CountAttempt(c)
  /\ schedule' = Attempted(c)
  /\ call' = [call EXCEPT ![c] = Idle]
  /\ UNCHANGED <<clock, window, report, timers, lastManual>>

\* build_github_rate_limit_report raises, after that `except` and before the lock.
ReportRaises(c) ==
  /\ Unparsable /\ c \in Fetching
  /\ call' = [call EXCEPT ![c] = Idle]
  /\ UNCHANGED <<clock, window, controller, timers, lastManual>>

(***************************************************************************)
(* _schedule_auto_refresh_if_pending: arm a timer for the snapshot's time, *)
(* at once if that is past.                                                *)
(***************************************************************************)
\* MUTANT: an automatic refresh does not arm the next one.
ArmTimerManually(c) ==
  LET due == IF call[c].next <= clock THEN clock ELSE call[c].next
  IN  timers' = IF c \in Clients /\ timers[due] < Copies
                THEN [timers EXCEPT ![due] = @ + 1] ELSE timers
ArmTimer(c) ==
  LET due == IF call[c].next <= clock THEN clock ELSE call[c].next
  IN  timers' = IF timers[due] < Copies THEN [timers EXCEPT ![due] = @ + 1] ELSE timers

Arm(c) ==
  /\ call[c].at = "arming"
  /\ ArmTimer(c)
  /\ call' = [call EXCEPT ![c] = Idle]
  /\ UNCHANGED <<clock, window, controller, lastManual>>

Init ==
  /\ clock = 0
  /\ window \in [Resources -> [reset : 1 .. Window, empty : {FALSE}]]
  /\ refreshing = FALSE /\ lastAttempt = None
  /\ report = None
  /\ schedule = [pending |-> FALSE, reset |-> None, attempted |-> None]
  /\ timers = [t \in Time |-> 0]
  /\ call = [c \in Callers |-> Idle]
  /\ lastManual = None

Complete(c) == (\E rep \in Answers : FetchSucceeds(c, rep)) \/ FetchFails(c)
               \/ FetchRaises(c) \/ ReportRaises(c)
Enter(c) == EnterRefresh(c) \/ EnterAuto(c)

Next ==
  \/ Tick
  \/ \E r \in Resources : Spend(r) \/ Reset(r)
  \/ \E c \in Callers : Request(c) \/ EnterRefresh(c) \/ EnterAuto(c)
  \/ \E c \in Callers, t \in Time : TimerFires(t, c)
  \/ \E c \in Callers : Arm(c) \/ FetchFails(c) \/ FetchRaises(c) \/ ReportRaises(c)
  \/ \E c \in Callers, rep \in Answers : FetchSucceeds(c, rep)

\* Time passes, a timer that is due fires, threads are scheduled, and every gh
\* call comes back because subprocess.run has a timeout.
Fairness ==
  /\ WF_vars(Tick)
  /\ \A t \in Time : WF_vars(\E c \in AutoTasks : TimerFires(t, c))
  /\ \A c \in Callers : WF_vars(Enter(c)) /\ WF_vars(Complete(c)) /\ WF_vars(Arm(c))

Spec     == Init /\ [][Next]_vars
FairSpec == Spec /\ Fairness

(***************************************************************************)
(* Properties.                                                             *)
(***************************************************************************)
\* Every variable stays in its type.
TypeOK ==
  /\ clock \in Time
  /\ window \in [Resources -> [reset : Time, empty : BOOLEAN]]
  /\ refreshing \in BOOLEAN /\ lastAttempt \in Time \cup {None}
  /\ report \in Report \cup {None}
  /\ schedule \in Schedule
  /\ timers \in [Time -> 0 .. Copies]
  /\ call \in [Callers -> Call]
  /\ lastManual \in Time \cup {None}

\* A report that raised has left the flag up with nobody behind it.
Stuck == refreshing /\ Fetching = {}

\* Manual and automatic refreshes exclude one another through `_refreshing`: at
\* most one gh call is under way, and never one without the flag, which another
\* refresh would not see.
OneFetchAtATime ==
  /\ Fetching # {} => refreshing
  /\ \A c, d \in Fetching : c = d

\* Between calls the cooldown counts from the last manual refresh that was let
\* in, however that one ended.
CooldownSeesEveryAttempt == ~refreshing => lastAttempt = lastManual

\* Two manual refreshes that were let in are a cooldown apart by their own
\* readings of the clock, whatever automatic refreshes came between them.
ManualRefreshesAreApart ==
  [][lastManual' # lastManual /\ lastManual # None => lastManual' >= lastManual + Cooldown]_vars

\* gh is never run automatically before the grace period after the reset that
\* the schedule named, even by a timer armed for an earlier schedule.
AutoRunsAfterReset ==
  \A c \in AutoTasks : call[c].at = "fetching" => clock >= call[c].target + Grace

\* What is pending is a reset that was not attempted last, so a report that
\* still shows the reset just attempted cannot start a retry loop.
PendingIsNew == schedule.pending => schedule.reset # None /\ schedule.reset # schedule.attempted

\* What is pending is the earliest reset of the last report that came in, unless
\* that report still shows the reset attempted last, which leaves the schedule alone.
PendingIsCurrent ==
  schedule.pending => report # None /\ Target(report) \in {schedule.reset, schedule.attempted} \ {None}

\* A pending refresh is never orphaned: a timer not before its time is armed, or
\* a task that is due has been started, or a call is about to arm the timer.
Covered(s) ==
  \/ \E t \in Time : timers[t] > 0 /\ t >= NextAt(s)
  \/ \E c \in AutoTasks : call[c].at = "called" /\ call[c].now >= NextAt(s)
  \/ \E c \in AutoTasks : call[c].at = "fetching" /\ call[c].target = s.reset
  \/ \E c \in Callers : call[c].at = "arming" /\ call[c].next = NextAt(s)
PendingHasTimer == schedule.pending => Covered(schedule)

\* A pending automatic refresh is eventually run, given up or replaced, unless a
\* report raised and left the flag up.
PendingIsConsumed ==
  \A t \in Resets : (schedule.pending /\ schedule.reset = t)
                    ~> (~(schedule.pending /\ schedule.reset = t) \/ Stuck)
==============================================================================
