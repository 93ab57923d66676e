------------------------- MODULE GraphQLDiagnostics -------------------------
(***************************************************************************)
(* The GitHub GraphQL consumption diagnostics of the dashboard: the        *)
(* session controller, its periodic sampler, the two tables they write and *)
(* the restart that reconciles them.                                       *)
(*                                                                         *)
(* Processes: HTTP clients that start and stop sessions, and the sampler   *)
(* task.  Each runs one operation at a time under `_operation_lock`        *)
(* (`holder`), in a worker thread: a gh call, then one commit after        *)
(* another.  The process may exit between any two of those steps, and a    *)
(* gh call or a commit may fail, each as often as its bound allows.        *)
(***************************************************************************)
EXTENDS Naturals, Sequences, FiniteSets

CONSTANTS
  Clients,          \* concurrent HTTP requests
  Sampler,          \* the sampler task
  Accounts,         \* GitHub accounts `gh` may be logged in to
  None,             \* Python's None
  MaxSessions,      \* bound: rows of github_diagnostic_sessions
  Limit,            \* the GraphQL quota of one window
  MaxWindow,        \* bound: quota windows
  MaxTime,          \* bound: the clock
  StartHorizon,     \* bound: last instant a session may be started
  Period,           \* GITHUB_GRAPHQL_DIAGNOSTIC_SAMPLE_SECONDS
  MaxAge,           \* GITHUB_GRAPHQL_DIAGNOSTIC_MAX_MINUTES
  Faults,           \* what may go wrong: a gh call, a commit, the process, the user's login
  MaxFaults         \* bound: how often something goes wrong

ASSUME ProcessAssumption == Sampler \notin Clients
ASSUME NoneAssumption == None \notin Nat \cup Accounts \cup Clients \cup {Sampler}
ASSUME BoundAssumption ==
  /\ {MaxSessions, Limit, MaxWindow, MaxTime, StartHorizon, Period, MaxAge,
      MaxFaults} \subseteq Nat
  /\ Faults \subseteq {"gh", "db", "exit", "switch"}
  /\ Period > 0

Procs      == Clients \cup {Sampler}
SessionIds == 1 .. MaxSessions
Time       == 0 .. MaxTime

VARIABLES
  now,        \* the wall clock
  account,    \* the account `gh` is logged in to
  quota,      \* GitHub's GraphQL counter of every account
  proc,       \* "up", "down", or "booting" (lifespan startup)
  bootAt,     \* the instant reconcile_on_startup read the clock
  holder,     \* who holds _operation_lock
  op,         \* the locals of the operation each process is in
  wake,       \* when the sampler's sleep ends
  cursor,     \* _last_sample_resource
  sessions,   \* table github_diagnostic_sessions
  samples,    \* table github_rate_samples, oldest first
  faults      \* how often something went wrong

external == <<now, account, quota>>
memory   == <<holder, op, wake, cursor>>
tables   == <<sessions, samples>>
vars     == <<external, proc, bootAt, memory, tables, faults>>

(***************************************************************************)
(* Rows and resources.                                                     *)
(***************************************************************************)
Resource == [used : (0 .. Limit) \cup {None}, win : (0 .. MaxWindow) \cup {None}]
Unusable == [used |-> None, win |-> None]   \* a block that failed to parse
ASSUME ResourceAssumption == None \notin Resource

Terminal == {"STOPPED", "AUTO_STOPPED", "EXHAUSTED", "ABORTED"}

SessionRow == [status    : {"unused", "ACTIVE"} \cup Terminal,
               user      : Accounts \cup {None},
               startedAt : Time \cup {None},
               endedAt   : Time \cup {None},
               start     : Resource,
               usedEnd   : (0 .. Limit) \cup {None},
               total     : (0 .. Limit) \cup {None}]

SampleRow == [at : Time, used : (0 .. Limit) \cup {None}, win : (0 .. MaxWindow) \cup {None},
              delta   : (0 .. Limit) \cup {None},
              status  : {"ok", "no_previous", "reset_boundary", "counter_regression", "fetch_failed"},
              attr    : {"UNATTRIBUTED", "SINGLE_ACTIVITY_CORRELATION", "OVERLAPPING_ACTIVITIES",
                         "RESET_BOUNDARY", "COUNTER_REGRESSION", "FETCH_FAILED"},
              trigger : SessionIds \cup {None}]

Unused == [status |-> "unused", user |-> None, startedAt |-> None, endedAt |-> None,
           start |-> Unusable, usedEnd |-> None, total |-> None]

Active == {s \in SessionIds : sessions[s].status = "ACTIVE"}
Stored == {s \in SessionIds : sessions[s].status # "unused"}

(***************************************************************************)
(* The pure functions of app/github_graphql_diagnostics.py.                *)
(***************************************************************************)
GraphqlDelta(previous, current) ==
  CASE previous = None -> [outcome |-> "no_previous", delta |-> None]
    [] previous # None /\ (\/ None \in {previous.used, previous.win, current.used, current.win}
                           \/ previous.win # current.win)
         -> [outcome |-> "reset_boundary", delta |-> None]
    [] OTHER ->
         IF current.used < previous.used
         THEN [outcome |-> "counter_regression", delta |-> None]
         ELSE [outcome |-> "ok", delta |-> current.used - previous.used]

Attribution(outcome, active) ==
  CASE outcome = "fetch_failed"       -> "FETCH_FAILED"
    [] outcome = "reset_boundary"     -> "RESET_BOUNDARY"
    [] outcome = "counter_regression" -> "COUNTER_REGRESSION"
    [] outcome \in {"ok", "no_previous"} ->
         IF active = 0 THEN "UNATTRIBUTED"
         ELSE IF active = 1 THEN "SINGLE_ACTIVITY_CORRELATION"
         ELSE "OVERLAPPING_ACTIVITIES"

\* Of the sessions in S, those whose window contains the instant t.
ActiveAt(S, t) ==
  {s \in S : /\ sessions[s].startedAt <= t
             /\ sessions[s].endedAt = None \/ sessions[s].endedAt >= t}

SessionTotal(first, last) ==
  IF None \in {first.used, last.used} \/ first.win # last.win THEN None
  ELSE IF last.used < first.used THEN None ELSE last.used - first.used

Exhausted(resource) == resource # None /\ resource.used = Limit

\* A row closed with the resource its last sample returned (None: no sample).
Ended(row, status, at, last) ==
  [row EXCEPT !.status = status, !.endedAt = at,
              !.usedEnd = IF last = None THEN None ELSE last.used,
              !.total   = IF last = None THEN None ELSE SessionTotal(row.start, last)]

(***************************************************************************)
(* Operations in flight.                                                   *)
(***************************************************************************)
Idle == [pc |-> "idle", sid |-> None, user |-> None, at |-> None, seen |-> {},
         res |-> None, row |-> None]
Asleep == [Idle EXCEPT !.pc = "asleep"]

OpState == [pc   : {"idle", "asleep", "identity", "fetch", "create", "close",
                    "persist", "end", "settle", "autostop"},
            sid  : SessionIds \cup {None},
            user : Accounts \cup {None},
            at   : Time \cup {None},
            seen : SUBSET SessionIds,
            res  : Resource \cup {None},
            row  : SampleRow \cup {None}]

\* The worker thread is inside a `gh` subprocess.
CallingGh(p) == op[p].pc \in {"identity", "fetch"}
\* The process runs an operation: it is past `async with _operation_lock`.
Working(p)   == op[p].pc \notin {"idle", "asleep"}

\* MUTANT: the loop does not sleep between two ticks.
NextWakeAtOnce == now
\* asyncio.sleep(interval), clipped to the bounded clock.
NextWake == IF now + Period <= MaxTime THEN now + Period ELSE MaxTime

Goto(p, pc) == op' = [op EXCEPT ![p].pc = pc]
\* MUTANT: no operation lock.
AcquireUnlocked(p) == proc = "up" /\ holder' = p
Acquire(p) == proc = "up" /\ holder = None /\ holder' = p

\* The operation of p returns or raises, leaving the sampler task as it was.
\* For the sampler itself that means: sleep until the next tick.
Leave(p) ==
  /\ holder' = None
  /\ IF p = Sampler
     THEN op' = [op EXCEPT ![p] = Asleep] /\ wake' = NextWake
     ELSE op' = [op EXCEPT ![p] = Idle]   /\ UNCHANGED wake

\* A client's operation returns after _sampler.start(), idempotent.
LeaveStarting(p) ==
  /\ holder' = None
  /\ IF op[Sampler].pc = "idle"
     THEN op' = [op EXCEPT ![p] = Idle, ![Sampler] = Asleep] /\ wake' = NextWake
     ELSE op' = [op EXCEPT ![p] = Idle] /\ UNCHANGED wake

\* A client's operation returns after _sampler.stop(); the sampler itself
\* leaves this way when its tick returns False.
LeaveStopping(p) ==
  /\ holder' = None
  /\ op' = [op EXCEPT ![p] = Idle, ![Sampler] = Idle]
  /\ UNCHANGED wake

Fault(kind) == kind \in Faults /\ faults < MaxFaults /\ faults' = faults + 1

(***************************************************************************)
(* start_session: identity, account check, baseline sample, session row.   *)
(***************************************************************************)
StartSession(c) ==
  /\ op[c].pc = "idle" /\ now <= StartHorizon /\ Stored # SessionIds
  /\ Acquire(c) /\ Goto(c, "identity")
  /\ UNCHANGED <<external, proc, bootAt, wake, cursor, tables, faults>>

\* MUTANT: no account check.
AnyAccount == TRUE
SameAccount == \A s \in Active : sessions[s].user = account

\* `gh api user` answered: the clock and the active sessions are read next,
\* and a session of another account refuses the start.
IdentityFetched(c) ==
  /\ op[c].pc = "identity"
  /\ IF SameAccount
     THEN /\ op' = [op EXCEPT ![c].pc = "fetch", ![c].user = account,
                              ![c].at = now, ![c].seen = Active]
          /\ UNCHANGED <<holder, wake>>
     ELSE Leave(c)
  /\ UNCHANGED <<external, proc, bootAt, cursor, tables, faults>>

IdentityFailed(c) ==
  /\ op[c].pc = "identity" /\ Fault("gh") /\ Leave(c)
  /\ UNCHANGED <<external, proc, bootAt, cursor, tables>>

(***************************************************************************)
(* _take_and_classify_sample: `gh api rate_limit`, then the delta against  *)
(* the cursor.  A failed fetch clears the cursor.                          *)
(***************************************************************************)
AfterFetch(p) == IF p # Sampler /\ op[p].sid = None THEN "create" ELSE "persist"

\* MUTANT: the baseline counts the session that is about to start.
ActiveCountWithNew(p) ==
  Cardinality(op[p].seen) + IF p # Sampler /\ op[p].sid = None THEN 1 ELSE 0
ActiveCount(p) ==
  Cardinality(IF p = Sampler THEN ActiveAt(op[p].seen, op[p].at) ELSE op[p].seen)

Classified(p, res) ==
  LET d == GraphqlDelta(cursor, res) IN
  [at |-> op[p].at, used |-> res.used, win |-> res.win, delta |-> d.delta,
   status |-> d.outcome, attr |-> Attribution(d.outcome, ActiveCount(p)), trigger |-> op[p].sid]

FailedSample(p) ==
  [at |-> op[p].at, used |-> None, win |-> None, delta |-> None, status |-> "fetch_failed",
   attr |-> Attribution("fetch_failed", ActiveCount(p)), trigger |-> op[p].sid]

\* MUTANT: the cursor stays at the first sample.
SampleTakenStale(p, res) ==
  /\ op' = [op EXCEPT ![p].pc = AfterFetch(p), ![p].res = res, ![p].row = Classified(p, res)]
  /\ cursor' = IF cursor = None THEN res ELSE cursor
SampleTaken(p, res) ==
  /\ op' = [op EXCEPT ![p].pc = AfterFetch(p), ![p].res = res, ![p].row = Classified(p, res)]
  /\ cursor' = res

\* GitHub answers with the counter of whichever account gh is logged in to.
Fetched(p) ==
  /\ op[p].pc = "fetch" /\ SampleTaken(p, quota[account])
  /\ UNCHANGED <<external, proc, bootAt, holder, wake, tables, faults>>

\* The answer holds no usable graphql block: an "Error" resource.
FetchedUnusable(p) ==
  /\ op[p].pc = "fetch" /\ Fault("gh") /\ SampleTaken(p, Unusable)
  /\ UNCHANGED <<external, proc, bootAt, holder, wake, tables>>

\* MUTANT: a failed fetch leaves the cursor where it was.
FetchFailedKeepsCursor(p) ==
  /\ op[p].pc = "fetch" /\ Fault("gh")
  /\ op' = [op EXCEPT ![p].pc = AfterFetch(p), ![p].res = None, ![p].row = FailedSample(p)]
  /\ UNCHANGED <<external, proc, bootAt, holder, wake, cursor, tables>>
FetchFailed(p) ==
  /\ op[p].pc = "fetch" /\ Fault("gh")
  /\ op' = [op EXCEPT ![p].pc = AfterFetch(p), ![p].res = None, ![p].row = FailedSample(p)]
  /\ cursor' = None
  /\ UNCHANGED <<external, proc, bootAt, holder, wake, tables>>

(***************************************************************************)
(* The commits, one step each.                                             *)
(***************************************************************************)
AfterCreate(res) == IF Exhausted(res) THEN "close" ELSE "persist"

Fresh(s) == s \notin Stored /\ \A t \in SessionIds : t < s => t \in Stored

CreateSession(c) ==
  /\ op[c].pc = "create"
  /\ \E s \in SessionIds :
       /\ Fresh(s)
       /\ sessions' = [sessions EXCEPT ![s] =
            [Unused EXCEPT !.status = IF Exhausted(op[c].res) THEN "EXHAUSTED" ELSE "ACTIVE",
                           !.user = op[c].user, !.startedAt = op[c].at,
                           !.start = IF op[c].res = None THEN Unusable ELSE op[c].res]]
       /\ op' = [op EXCEPT ![c].sid = s, ![c].row.trigger = s, ![c].pc = AfterCreate(op[c].res)]
  /\ UNCHANGED <<external, proc, bootAt, holder, wake, cursor, samples, faults>>

\* A session born exhausted gets its end fields in a second commit.
CloseExhausted(c) ==
  /\ op[c].pc = "close" /\ Goto(c, "persist")
  /\ LET s == op[c].sid IN
     sessions' = [sessions EXCEPT ![s] = Ended(@, "EXHAUSTED", op[c].at, op[c].res)]
  /\ UNCHANGED <<external, proc, bootAt, holder, wake, cursor, samples, faults>>

Starting(p) == p # Sampler /\ op[p].user # None

PersistSample(p) ==
  /\ op[p].pc = "persist"
  /\ samples' = Append(samples, op[p].row)
  /\ \/ /\ Starting(p) /\ Exhausted(op[p].res) /\ Leave(p)
     \/ /\ Starting(p) /\ ~Exhausted(op[p].res) /\ LeaveStarting(p)
     \/ /\ p # Sampler /\ ~Starting(p) /\ Goto(p, "end") /\ UNCHANGED <<holder, wake>>
     \/ /\ p = Sampler /\ op[p].res # None /\ Goto(p, "autostop") /\ UNCHANGED <<holder, wake>>
     \/ /\ p = Sampler /\ op[p].res = None /\ Leave(p)
  /\ UNCHANGED <<external, proc, bootAt, cursor, sessions, faults>>

\* Any commit (or the query of `settle`) raises: the operation is abandoned.
CommitFails(p) ==
  /\ op[p].pc \in {"create", "close", "persist", "end", "settle", "autostop"}
  /\ Fault("db") /\ Leave(p)
  /\ UNCHANGED <<external, proc, bootAt, cursor, tables>>

(***************************************************************************)
(* stop_session                                                            *)
(***************************************************************************)
Stoppable(s) == s \in Active

StopSession(c, s) ==
  /\ op[c].pc = "idle" /\ s \in Stored /\ Acquire(c)
  /\ IF Stoppable(s)
     THEN op' = [op EXCEPT ![c].pc = "fetch", ![c].sid = s, ![c].at = now, ![c].seen = Active]
     ELSE Goto(c, "settle")
  /\ UNCHANGED <<external, proc, bootAt, wake, cursor, tables, faults>>

EndSession(c) ==
  /\ op[c].pc = "end" /\ Goto(c, "settle")
  /\ LET s == op[c].sid IN
     sessions' = [sessions EXCEPT ![s] = Ended(@, "STOPPED", op[c].at, op[c].res)]
  /\ UNCHANGED <<external, proc, bootAt, holder, wake, cursor, samples, faults>>

\* MUTANT: every stop takes the sampler with it.
SettleStopping(c) ==
  /\ op[c].pc = "settle" /\ LeaveStopping(c)
  /\ UNCHANGED <<external, proc, bootAt, cursor, tables, faults>>
\* active_count_after: the last session to go takes the sampler with it.
Settle(c) ==
  /\ op[c].pc = "settle"
  /\ IF Active = {} THEN LeaveStopping(c) ELSE Leave(c)
  /\ UNCHANGED <<external, proc, bootAt, cursor, tables, faults>>

(***************************************************************************)
(* _scheduled_tick                                                         *)
(***************************************************************************)
Tick ==
  /\ op[Sampler].pc = "asleep" /\ now >= wake
  /\ proc = "up" /\ holder = None
  /\ IF Active = {}
     THEN LeaveStopping(Sampler)
     ELSE /\ holder' = Sampler /\ UNCHANGED wake
          /\ op' = [op EXCEPT ![Sampler].pc = "fetch", ![Sampler].at = now, ![Sampler].seen = Active]
  /\ UNCHANGED <<external, proc, bootAt, cursor, tables, faults>>

TooOld(s) == op[Sampler].at - sessions[s].startedAt >= MaxAge

\* The sessions of the tick's `active` list it has still to end.
Due == {s \in op[Sampler].seen \cap Active : TooOld(s) \/ Exhausted(op[Sampler].res)}

AutoStop(s) ==
  /\ op[Sampler].pc = "autostop" /\ s \in Due
  /\ sessions' = [sessions EXCEPT ![s] =
       Ended(@, IF TooOld(s) THEN "AUTO_STOPPED" ELSE "EXHAUSTED", op[Sampler].at, op[Sampler].res)]
  /\ UNCHANGED <<external, proc, bootAt, memory, samples, faults>>

TickDone ==
  /\ op[Sampler].pc = "autostop" /\ Due = {}
  /\ IF Active = {} THEN LeaveStopping(Sampler) ELSE Leave(Sampler)
  /\ UNCHANGED <<external, proc, bootAt, cursor, tables, faults>>

(***************************************************************************)
(* Process exit (crash, Ctrl+C or lifespan shutdown) and the next start.   *)
(***************************************************************************)
ProcessExit ==
  /\ proc \in {"up", "booting"} /\ Fault("exit")
  /\ proc' = "down"
  /\ holder' = None /\ cursor' = None /\ op' = [p \in Procs |-> Idle]
  /\ UNCHANGED <<external, bootAt, wake, tables>>

Boot ==
  /\ proc = "down" /\ proc' = "booting" /\ bootAt' = now
  /\ UNCHANGED <<external, memory, tables, faults>>

ReconcileSession(s) ==
  /\ proc = "booting" /\ s \in Active
  /\ sessions' = [sessions EXCEPT ![s] = Ended(@, "ABORTED", bootAt, None)]
  /\ UNCHANGED <<external, proc, bootAt, memory, samples, faults>>

BootDone ==
  /\ proc = "booting" /\ Active = {} /\ proc' = "up"
  /\ UNCHANGED <<external, bootAt, memory, tables, faults>>

(***************************************************************************)
(* The world: time, other consumers of the quota, the user's gh login.     *)
(***************************************************************************)
\* (Bound: no start is still asking for its identity when StartHorizon passes.)
ClockTick ==
  /\ now < MaxTime /\ now' = now + 1
  /\ now = StartHorizon => \A c \in Clients : op[c].pc # "identity"
  /\ UNCHANGED <<account, quota, proc, bootAt, memory, tables, faults>>

Consume(a) ==
  /\ quota[a].used < Limit /\ quota' = [quota EXCEPT ![a].used = @ + 1]
  /\ UNCHANGED <<now, account, proc, bootAt, memory, tables, faults>>

WindowReset(a) ==
  /\ quota[a].win < MaxWindow
  /\ quota' = [quota EXCEPT ![a] = [used |-> 0, win |-> quota[a].win + 1]]
  /\ UNCHANGED <<now, account, proc, bootAt, memory, tables, faults>>

SwitchAccount(a) ==
  /\ a # account /\ account' = a /\ Fault("switch")
  /\ UNCHANGED <<now, quota, proc, bootAt, memory, tables>>

Init ==
  /\ now = 0 /\ account \in Accounts
  /\ quota = [a \in Accounts |-> [used |-> 0, win |-> 0]]
  /\ proc = "up" /\ bootAt = 0
  /\ holder = None /\ op = [p \in Procs |-> Idle] /\ wake = 0 /\ cursor = None
  /\ sessions = [s \in SessionIds |-> Unused] /\ samples = <<>>
  /\ faults = 0

StartStep(c) == StartSession(c) \/ IdentityFetched(c) \/ IdentityFailed(c)
FetchStep(p) == Fetched(p) \/ FetchedUnusable(p) \/ FetchFailed(p)
\* What a worker thread does by itself once it has an answer from gh.
CommitStep(p) == \/ /\ p # Sampler
                    /\ CreateSession(p) \/ CloseExhausted(p) \/ EndSession(p) \/ Settle(p)
                 \/ PersistSample(p)
TickStep == Tick \/ TickDone \/ \E s \in SessionIds : AutoStop(s)
Reconcile == BootDone \/ \E s \in SessionIds : ReconcileSession(s)
World    == \/ ClockTick
            \/ \E a \in Accounts : Consume(a) \/ WindowReset(a) \/ SwitchAccount(a)

Next ==
  \/ \E c \in Clients : StartStep(c) \/ \E s \in SessionIds : StopSession(c, s)
  \/ \E p \in Procs : FetchStep(p) \/ CommitStep(p) \/ CommitFails(p)
  \/ TickStep
  \/ ProcessExit \/ Boot \/ Reconcile
  \/ World

Spec == Init /\ [][Next]_vars

(***************************************************************************)
(* Fairness.  A gh call has a timeout and a commit returns, so an          *)
(* operation in flight goes on; time passes; and asyncio.Lock is FIFO, so  *)
(* a tick that keeps finding the lock free between requests gets it.       *)
(***************************************************************************)
Fairness ==
  /\ WF_vars(ClockTick) /\ WF_vars(Reconcile)
  /\ SF_vars(Tick) /\ WF_vars(TickDone) /\ WF_vars(\E s \in SessionIds : AutoStop(s))
  /\ \A p \in Procs : WF_vars(FetchStep(p)) /\ WF_vars(CommitStep(p))
  /\ \A c \in Clients : WF_vars(StartStep(c) /\ op[c].pc # "idle")

FairSpec == Spec /\ Fairness

(***************************************************************************)
(* Properties.                                                             *)
(***************************************************************************)

\* Every variable has its type.
TypeOK ==
  /\ now \in Time /\ account \in Accounts
  /\ quota \in [Accounts -> [used : 0 .. Limit, win : 0 .. MaxWindow]]
  /\ proc \in {"up", "down", "booting"} /\ bootAt \in Time
  /\ holder \in Procs \cup {None} /\ op \in [Procs -> OpState] /\ wake \in Time
  /\ cursor \in Resource \cup {None}
  /\ sessions \in [SessionIds -> SessionRow] /\ samples \in Seq(SampleRow)
  /\ faults \in 0 .. MaxFaults

\* At most one operation of the feature is inside a `gh` call at any time
\* (the comment on `_operation_lock` in the controller's __init__).
OneCallInFlight == \A p, q \in Procs : CallingGh(p) /\ CallingGh(q) => p = q

\* All active sessions belong to one GitHub account, however starts, stops,
\* ticks, restarts and `gh auth switch` interleave.
OneAccountActive == \A s, t \in Active : sessions[s].user = sessions[t].user

\* Between operations the sampler task exists exactly while a session is
\* active: it starts with the first one and ends with the last one.
SamplerTracksActive ==
  proc = "up" /\ holder = None => (Active # {} <=> op[Sampler].pc # "idle")

\* Timed samples are at least one interval apart however many sessions are
\* active and however often the sampler is stopped and started again.
OnePollPerPeriod ==
  \A i, j \in DOMAIN samples :
    i < j /\ samples[i].trigger = None /\ samples[j].trigger = None
      => samples[j].at = MaxTime \/ samples[j].at - samples[i].at >= Period

\* The timeline position of the sample a session was opened with (0: none)
\* and of the one it was closed with: the same one for a session that was
\* born exhausted.
Earliest(S) == IF S = {} THEN 0 ELSE CHOOSE i \in S : \A j \in S : i <= j
OpeningSample(s) == Earliest({i \in DOMAIN samples : samples[i].trigger = s})
ClosingSample(s) ==
  IF Exhausted(sessions[s].start) THEN OpeningSample(s)
  ELSE Earliest({i \in DOMAIN samples :
         /\ i > OpeningSample(s) /\ samples[i].at = sessions[s].endedAt
         /\ samples[i].used = sessions[s].usedEnd
         /\ samples[i].trigger = IF sessions[s].status = "STOPPED" THEN s ELSE None})

\* The deltas _max_valid_interval_delta takes its maximum of.
IntervalDeltas(s) ==
  {samples[i].delta : i \in {j \in DOMAIN samples :
     /\ samples[j].status = "ok"
     /\ sessions[s].startedAt < samples[j].at /\ samples[j].at <= sessions[s].endedAt}}

\* The sessions whose stored window has the instant t inside it, without and
\* with its two ends.
StrictlyWithin(t) == {s \in Stored : /\ sessions[s].startedAt < t
                                     /\ sessions[s].endedAt = None \/ sessions[s].endedAt > t}
Within(t) == ActiveAt(Stored, t)

\* The attribution of a sample agrees with what a reader derives from the
\* session rows later: a single activity means no second one ran through
\* that instant, an overlap means at least two touched it.  The session a
\* sample opens was not there for any part of the interval it reports.
AttributionMatchesSessions ==
  \A i \in DOMAIN samples :
    LET strict == Cardinality(StrictlyWithin(samples[i].at))
        loose  == Cardinality({s \in Within(samples[i].at) : OpeningSample(s) # i})
    IN /\ samples[i].attr = "UNATTRIBUTED" => strict = 0
       /\ samples[i].attr = "SINGLE_ACTIVITY_CORRELATION" => strict <= 1 /\ loose >= 1
       /\ samples[i].attr = "OVERLAPPING_ACTIVITIES" => loose >= 2

\* A delta is the difference to the sample just before it on the timeline,
\* of the same quota window: it never spans a failed fetch or a restart.
DeltasAreContiguous ==
  \A i \in DOMAIN samples :
    samples[i].status = "ok" =>
      /\ i > 1 /\ samples[i - 1].used # None /\ samples[i - 1].win = samples[i].win
      /\ samples[i].delta = samples[i].used - samples[i - 1].used

\* The observed deltas of the first n samples, and of the samples first+1 ..
\* last, added up.
Delta(i) == IF samples[i].delta = None THEN 0 ELSE samples[i].delta
Running[n \in 0 .. Len(samples)] == IF n = 0 THEN 0 ELSE Running[n - 1] + Delta(n)
SumOfDeltas(first, last) == Running[last] - Running[first]

\* Between two samples of one quota window the recorded deltas never add up
\* to more than GitHub's counter moved: no consumption is counted twice,
\* whatever fetch, commit or restart fails in between.
NothingCountedTwice ==
  \A i, j \in DOMAIN samples :
    i < j /\ None \notin {samples[i].used, samples[j].used} /\ samples[i].win = samples[j].win
      => SumOfDeltas(i, j) <= samples[j].used - samples[i].used

\* The total of a session that was closed with a measurement is what the
\* samples between its opening and its closing one say: never less than
\* their sum, and equal to it when every one of them has a delta.
TotalAgreesWithSamples ==
  \A s \in SessionIds :
    LET first == OpeningSample(s)
        last  == ClosingSample(s)
    IN (sessions[s].total # None /\ first # 0 /\ last # 0) =>
         /\ SumOfDeltas(first, last) <= sessions[s].total
         /\ (\A i \in (first + 1) .. last : samples[i].status = "ok")
              => SumOfDeltas(first, last) = sessions[s].total

\* The worst interval shown for a measured session never exceeds its total,
\* unless a later operation read the very instant the session was closed at.
WorstIntervalWithinTotal ==
  \A s \in SessionIds :
    /\ sessions[s].total # None
    /\ \A i \in DOMAIN samples : samples[i].at = sessions[s].endedAt => i <= ClosingSample(s)
    => \A d \in IntervalDeltas(s) : d <= sessions[s].total

\* What is shown of a measurement adds up: the deltas, the totals and the
\* worst intervals say the same.
MeasurementAddsUp == DeltasAreContiguous /\ TotalAgreesWithSamples /\ WorstIntervalWithinTotal

\* What app.js takes a missing end for: the session is still being measured.
NoEndMeansActive ==
  proc = "up" /\ holder = None =>
    \A s \in Stored : sessions[s].endedAt = None <=> s \in Active

\* Nothing on the timeline is missing: every session has the sample it was
\* opened with, and, if a measurement closed it, the one it was closed with.
SessionsHaveTheirSamples ==
  proc = "up" /\ holder = None =>
    \A s \in Stored :
      /\ OpeningSample(s) # 0
      /\ sessions[s].status \in {"STOPPED", "AUTO_STOPPED"} => ClosingSample(s) # 0

\* The session rows and the timeline say the same: of who was active at a
\* sample, of which sessions have ended, and of the samples they began and ended with.
RowsMatchTimeline == AttributionMatchesSessions /\ NoEndMeansActive /\ SessionsHaveTheirSamples

\* A closed session is closed for good: no later stop, tick or restart
\* changes its row, and a stop that lost the race reports the first outcome.
ClosedIsFinal ==
  [][\A s \in SessionIds :
       /\ sessions[s].status \in Terminal => sessions'[s].status = sessions[s].status
       /\ sessions[s].endedAt # None => sessions'[s] = sessions[s]]_vars

\* Every session the sampler watches ends, unless the process does: stopped,
\* too old, or out of quota, whatever calls and commits fail meanwhile.
WatchedSessionsEnd ==
  \A s \in SessionIds :
    s \in Active /\ op[Sampler].pc # "idle" ~> s \notin Active \/ proc = "down"

\* Once no session is active the sampler stops or a new session starts, even
\* if an operation failed half-way.
SamplerComesToRest == Active = {} ~> (op[Sampler].pc = "idle" \/ Active # {})

\* The session table is a SessionLedger.
Ledger == INSTANCE SessionLedger WITH
  Size  <- MaxSessions,
  state <- [s \in SessionIds |-> CASE s \in Active -> "open"
                                   [] s \in Stored \ Active -> "closed"
                                   [] OTHER -> "blank"],
  owner <- [s \in SessionIds |-> sessions[s].user]

\* The table keeps every promise of the ledger.
ImplementsLedger == Ledger!Spec
=============================================================================
