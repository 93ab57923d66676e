# Cloud-LLM-LimitChecker: formal models

The dashboard is one Python process. It keeps usage limits of LLM services in SQLite and, on
request or on timers, measures external quotas (GitHub REST and GraphQL rate limits, GitHub
Actions minutes, Codex rate limits) by running command line tools in worker threads. A desktop
shell, status line bridges and a second launch are further processes on the same port, files and
database. This directory holds TLA+ models of the parts whose correctness depends on the order in
which threads, timers, commits, processes and restarts interleave, the TLC runs that check them, and
TLAPS proofs.

Contents: [1 inventory](#1-inventory), [2 modules and code](#2-modules-and-the-code),
[3 runs](#3-runs), [4 fairness](#4-fairness), [5 proofs](#5-proofs),
[6 divergences](#6-where-code-and-documents-differ), [7 what is left out](#7-what-is-left-out),
[8 plan](#8-plan).

## 1 Inventory

All paths are below `src/app/`. "Correct" is what a component owes its users and what a model of
it has to check; the status of each is in `PROJECT.json`.

### Components with a model

**GraphQL consumption diagnostics** (`github_graphql_diagnostics*.py`).
State: the asyncio operation lock, the sampler task, the cursor `_last_sample_resource`, the
tables `github_diagnostic_sessions` and `github_rate_samples`. Operations: start and stop a
session, the sampler's tick (poll, close exhausted and overdue sessions), process start
(reconciliation) and exit. It talks to `gh` through worker threads and to SQLite one commit at a
time. Hard: an operation is up to three commits and a gh call, any of which may fail; the lock is
released while nobody expects it only by exceptions; the user may switch gh accounts; GitHub's
counter is reset underneath. Correct: one gh call at a time, one account at a time, no
consumption counted twice, totals that agree with the samples, a sampler exactly while a session
is active, closed sessions stay closed, watched sessions end.

**GitHub rate limit monitor** (`github_rate_limit.py`, `github_rate_limit_state.py`, the timer
code of `main.py` 563-650). State: `_refreshing`, the time of the last attempt, the last report,
the pending automatic refresh with its reset and the reset attempted last, the event loop's
timers. Operations: manual refresh, timer, automatic refresh, (re)scheduling from a report. Hard:
both kinds of refresh drop the lock for the gh call; timers are armed from a snapshot taken
earlier and never cancelled; resets that GitHub does not carry out in time. Correct: one gh call
at a time, the cooldown counts every manual attempt, an automatic refresh runs after its reset and
once, what is pending follows from the last report and is consumed.

**Codex rate limits: controller, scheduler and cache** (`codex_rate_limits_state.py`,
`_scheduler.py`, `_cache.py`). State: the controller's flag and times, the scheduler's task and
its next wake-up, the cache file. Operations: manual refresh, the scheduler's attempt, start and
cancellation of the task, atomic replacement and loading of the file. Hard: the flag is lowered
before the file is written; the clock is read before the lock is taken; a cancelled task leaves
its thread running; failures at every stage; restarts with whatever file is there. Correct: one
`codex app-server` at a time, a cooldown between attempts, the file holds the last success up to an
attempt that was overtaken, the scheduler never dies, data gets stale only with a reason shown.

**Codex app-server adapter** (`codex_rate_limits_adapter.py`). State of one fetch: the child
process, its reader thread and queue, the deadline of the wait at hand. Operations: start,
initialize, read, project the answer, and a shutdown in three steps. Called by the Codex controller;
its result goes into the cache file. Hard: late answers, notifications and noise before a deadline, a
child that ends or closes its output at any point, a child that outlives its kill. Correct: only the
awaited answer counts, the time is bounded, the child is ended on every path or reported, and the
cache accepts every success.

**GitHub Actions billing** (`github_actions_billing*.py`). State: flag, times, last report, last
error. Operations: refresh (two gh calls), snapshot, the aggregation of usage items. Hard: the same
release of the lock as above, two calls that fail in their own ways, a report that raises. Correct:
the attempts of a `RefreshGate`; a snapshot tells what became of the last attempt, and a failure
leaves the report before it in place.

**Desktop shell** (`desktop/`). State: whether it holds a server handle, its backend's thread, the
window. Operations: probe the port, attach or start, wait for readiness, check the dashboard, watch,
shut down. It shares the port and the database with other shells, the console launcher and
strangers. Hard: two launches that race, a backend that dies early, probes that time out, processes
that are killed. Correct: a second launch leaves a running backend's session alone, a window shows
the backend it owns or closes, a launch ends, one given up leaves nothing behind.

**Collector runs, daily limit, importer** (`main.py` 336-502, `safety.py`,
`collectors/importer.py`). State: `collector_runs`, `collector_imports` with their usage records,
SQLite's write lock, every request's session. Operations: check, start a run, collect, import
record by record with re-keying of legacy rows, commit or roll back, finish the run; dry run. Hard:
check-then-act, rows that are added and not flushed, two imports of the same records, an exception
or exit between commits. Correct: one row per import identity, an import is all or nothing, the
limit is passed at most by requests under way together, no import fails for nothing, the lock is
given back.

**Vendor collectors** (`collectors/*_collector.py`). No state. Cursors, the page limit, and the
rows made of buckets; they are the inputs of `CollectorRuns`.

**Limits, usage and their reset** (`crud.py`, `calculations.py`, `time_utils.py`, parts of `seed.py` and
`maintenance.py`). State: the limit's row, its usage records. Operations: dashboards, which write,
edits, usage, the clean-up at a start and of a seed request. Hard: a GET that moves the date while an
edit is under way, a clean-up beside either, column-wise updates, dates of two zones, months of
different length. Correct: an edit survives, a record counts in one period.

**Manual and bridge caches, compact view** (`claude_code_usage_bridge.py`, `*_usage_cache.py`,
`static/compact.js`). State: two files replaced whole, the requests of overlapping loads, the card.
Hard: writers that overtake each other, a load that spans a write. Correct: the card shows one
observation as a whole and comes to show the newest.

### Components without a model, or with part of one

| Component | What is modelled | Why not the rest |
|---|---|---|
| Vendor collectors | pages, cursors, kinds of row | HTTP, normalisation of single fields |
| Limits, services and usage records | one limit | services, percentages and alerts have no state of their own |
| Maintenance and seed | the clean-up of one row, at a start and beside requests | removal of empty services and of empty duplicates: what a row among others is to it |
| Manual and bridge caches | the Claude files | the manual Codex file has the same form and no competitor |
| gh and identity wrappers | the classification in the billing module | the other two give a class of result, which their callers' models choose freely |
| HTTP application | endpoints and lifespan of what is above | delegation; authentication |
| Dashboard and compact view | overlapping loads, the Claude card | rendering |
| Packaging and launch | the console launcher | the build has no state |
| Usage allowance (`usage_allowance.py`) | nothing | a pure projection that copies fields; a model would repeat it |
| Diagnostics settings and export; schemas, tables, CSV | nothing | declarations and formatting |

The hazards of all of them, each at the line where it bites, are listed in `PROJECT.json`.

## 2 Modules and the code

| Module | What it is | Theorems |
|---|---|---|
| `SessionLedger` | abstract: what the session table promises (append-only, one account at a time, no reopening) | |
| `GraphQLDiagnostics` | the diagnostics, in detail; implements `SessionLedger` | `GraphQLDiagnosticsProofs` |
| `GitHubRateLimit` | the rate limit monitor | `GitHubRateLimitProofs` |
| `RefreshGate` | abstract: which attempts a quota controller lets in | |
| `CodexRateLimits` | controller, scheduler and cache of the Codex rate limits; implements `RefreshGate` | `CodexRateLimitsProofs` |
| `CodexPayload` | what an answer becomes, and what the cache accepts | |
| `CodexSession` | one fetch from `codex app-server`, with `CodexPayload` | `CodexSessionProofs` |
| `GitHubActionsBilling` | the billing controller; implements `RefreshGate` | `GitHubActionsBillingProofs` |
| `DesktopShell` | shells, launcher and strangers on one port | `DesktopShellProofs` |
| `VendorCollectors` | what the collectors can return | |
| `CollectorRuns` | runs and imports | `CollectorRunsProofs` |
| `UsageLimits` | one limit under dashboards, edits and clean-ups | `UsageProofs` |
| `ClaudeCard` | what the Claude card can show, and that it is one observation | |
| `ClaudeUsage` | two files and the card made of them | `UsageProofs` |
| `MC*` | symmetry and input sets of the TLC runs; the `.cfg` files give the constants their values | |

**GraphQLDiagnostics.** A process is an HTTP request (`Clients`) or the sampler. `op[p]` is what
the Python operation has in its local variables and which of its steps comes next; `holder` is
`_operation_lock`. A gh call and each database commit is a step of its own, everything between two
of them belongs to the step before: `StartSession` takes the lock and decides whether the identity
is asked for; `IdentityFetched`/`IdentityFailed` is `gh api user`; `Fetched`, `FetchedUnusable` and
`FetchFailed` are the three results of `gh api rate_limit` (with classification, delta and the
move of the cursor, which happens in memory); `CreateSession`, `CloseExhausted`, `EndSession`,
`AutoStop`, `PersistSample` are the commits; `Settle`, `TickDone` and `Leave*` release the lock and
start, stop or put to sleep the sampler. `ProcessExit` forgets everything but the tables, `Boot`
and `ReconcileSession`/`BootDone` are the lifespan's reconciliation. `Consume`, `WindowReset` and
`SwitchAccount` are GitHub and the user. A quota counter is the pair of how much of a window is
used and which window it is; a reset time identifies the window. `faults` bounds how often
something in `Faults` (a gh call, a commit, the process, the login) goes wrong. Timestamps in the
tables are the clock of the model; the code's UTC conversion and number formatting are left out.

**GitHubRateLimit.** `call[c]` is the thread of a manual refresh or a task a timer started:
`called` (the clock was read), `fetching` (the lock released around gh), `arming` (back in the
event loop with a snapshot). `report` keeps of a report what scheduling reads: the reset of each
resource that is exhausted or overdue. `window` is GitHub's truth: a window ends some time after the
reset it announced. `Malformed` lets gh return a block that fails to parse, `Unparsable` a reset
that raises inside `build_github_rate_limit_report`, `Early` lets a timer fire before its wall clock
time, `Copies` merges timers due at the same instant.

**CodexRateLimits.** `thread[r]` is where a thread of a manual refresh or the scheduler's attempt
is (`entering` with its reading of the clock, `fetching` with the flag up, `writing` with the flag
down again), since which reading and until when at the latest. `FetchTime`, `Stall` and `Lag` bound
a fetch, a write and everybody's scheduling delay: `Tick` does not pass those deadlines, which is
how durations are related to `Cooldown` and `Interval`. The file's content is one of: missing,
rejected by the loader, or the instant of its observation; whether its windows were reset since is a
nondeterministic choice. `Stop`, `Exit` and `Crash` are the three ways the process ends.

**CodexSession, CodexPayload.** The reader thread appends to `printed` (`Output`, `ReaderEnds`), the
fetching thread takes lines one by one (`Receive`: `_recv_matching` and what the session does with an
answer) or gives up at `deadline` or at the queue's `None`. `Terminate`, `Kill`, `Confirmed`,
`KillTimesOut` are `_shutdown_process`, with a `terminate()` or a `kill()` that raises; `asked` is the
history of what it has tried. A line is one of the classes the code tells apart; an answer's field is a
value of the right type, null, or anything else. `LegacyBucket` and `CanonicalBucket` are the lenient
and the strict projection, `CacheAccepts` is `validate_cache_record`. Time passes up to each
deadline, as the calls with a timeout return there.

**GitHubActionsBilling.** `thread[c]` is a request with its reading of the clock, its plan and its
items. `Enter` and the three ends (`Raises`, `Fails`, `Succeeds`) are the locked sections, `CallUser`
and `CallUsage` the gh calls between them, `BuildRaises` the exception that passes them by. `Report`
is the aggregation, `Classified` the order in which phrases of stderr are looked for, `Snapshot` what
a GET returns.

**DesktopShell.** `at[s]` is where `main()` of a shell is, `backend[b]` the server thread,
`exit[b]` its `should_exit`, `port` who listens. A probe is two requests (`ProbeHealth`,
`ProbeIdentity`), each with the answer of whoever listens then; `Absent`, `Ready`, `Refuse` are what
the launch does before and while it waits. A backend runs its lifespan before it binds
(`Lifespan`, `Bind`), and reconciliation, which `GraphQLDiagnostics` has in detail, appears as its
effect on `session`. `seen` is history for the property on reconciliation.

**CollectorRuns, VendorCollectors.** `op[t]` is a request with its session: `pending` are rows
that were added and not flushed, `draft` what the transaction that holds the write lock (`writer`)
sees. Each lookup is a step, each flush another (`Write`), so that imports interleave as sessions
without autoflush do. `Ask`, `CreateRun`, `Collect`, `Finish` are `collect_vendor`; `WriteLocked` and
`RunLocked` are SQLite's busy timeout. `Batches` comes from `VendorCollectors`: sequences of rows that are
kept, invalid or unsupported, read from pages that follow cursors.

**UsageLimits.** `Dashboard`, `Edit` and `Seed` read the row, `CommitDashboard`, `CommitEdit` and
`CommitSeed` write the columns that SQLAlchemy found changed. `Seed` is the clean-up beside other
requests, from `POST /api/seed` or the lifespan of a second launch; at a start of this process nothing
runs beside it (`Restart`). `LooksLegacy` is which rows it takes for defaults. `Advance`, `AddMonths`
and `PeriodStart` are the arithmetic of `calculations.py` on a calendar whose months alternate between
`Long` and `Short`; `Stored` is what SQLite keeps of a date with a zone. Of a request, `doing` says
which of the three it is and `writes` what its flush is going to name. `intended`, `passed`, `crossed`
and `counted` are history.

**ClaudeUsage.** `ClaudeCard` has the card, the records ever stored and what the one owes the
other; `ClaudeUsage` extends it with who stores and who reads. `Observe` and `Store` are a writer
(bridge or PUT), `Begin`, `Answer`, `AnswerUnread`, `Fail` and `Render` a load of the view, `Snapshot`
is `load_snapshot`, `Resolved` is `resolveClaudeCodeUsageDisplay`. A record has its time and, of each
window in it, the source it came from, so that a mixture of two full records shows.

## 3 Runs

| Run | Shows |
|---|---|
| `gql_concurrency` | two requests, the sampler, two accounts and a switch between them: gh calls never overlap, the sampler lives exactly as long as the sessions and polls once per period, rows agree with the windows of their sessions, the table implements `SessionLedger` (which keeps accounts apart and closed rows closed) |
| `gql_measurement` | a quota of two units in two windows, with a failing call or an exit: deltas join adjacent samples of one window, totals equal the sum of the deltas between the opening and the closing sample, the worst interval is at most the total |
| `gql_faults` | a failing call, a failing commit or an exit at every step: nothing is counted twice, watched sessions end, the sampler comes to rest |
| `ghrl` | one manual and one automatic caller over both resources, with malformed blocks and reports that raise: exclusion, the cooldown, the time of automatic refreshes, what is pending, and that it is consumed up to a report that raises |
| `codex` | a client and the scheduler with all results, stop, crash and restart: refinement of `RefreshGate`, attempts end and keep coming, what the scheduler reports is in the file, and the file goes back, up to an attempt that was overtaken while it wrote, and is stale by age only if an error is shown |
| `codex_session` | one fetch with any three lines, any exit of codex and about two thousand answers: the awaited answer, the bound on the time, that codex is asked to end in every way before a fetch returns without its end, and that the cache file accepts every success |
| `billing` | two requests over two months with all failures and classes of items: refinement of `RefreshGate`; the snapshot tells the report of the last attempt, or its own error beside the last report there was |
| `shell` | two shells, the launcher and a stranger: whose session a second launch may abort, windows follow their backend, launches end, backends of launches that were given up stop |
| `collect` | two requests over two days, rows of an earlier version, crashes and a locked database: one row per identity, atomic batches, the daily limit up to requests under way together, the lock is given back, failures have a reason |
| `limits` | a limit with every kind of interval, two requests at a time, clean-ups, restarts: what an edit has set survives up to the requests it crosses and the values of the old defaults, a record counts in one period, save for the days that a month lacks |
| `claude_usage` | two writers and two overlapping loads, bad files, failed requests and a clock that is set: the card shows one observation as a whole and in the end the newest |
| `collect_repeats` | a violation, section 6 |

Each property of a passing run has a mutant: a definition of the model is replaced by a plausible
bug (the operators marked `Mutant` or `MUTANT` beside it), and the run must fail.

**Bounds and why they are enough.**
- GraphQL: the requests and the sampler are all the roles there are, and the lock admits one at a
  time: a third client adds only waiting, and where faults or the quota are the question one client
  is enough. Two sessions are the least for overlap and different
  owners. A quota of one unit tells exhausted from not, two units tell a partial delta from a full
  one; two windows give a reset. The clock runs to 2 or 3 with period 1, so a session can be polled,
  overdue, stopped and followed by another one; `OnePollPerPeriod` disregards samples at the last
  instant, where the clock's bound holds back the sleep. One fault per behaviour reaches every step it
  can hit; the theorems of section 5 hold for any number.
- GitHubRateLimit: two resources are all that are scheduled; a manual and an automatic caller race
  for the flag; four ticks with windows of two let each resource be exhausted, overdue, refreshed
  and exhausted again.
- Codex: the durations have the order of the real constants (30, 40, 600 and 900 s; here cooldown 2 <
  fetch 3 < interval 4 < staleness 11) and the clock runs three intervals. A fetch that outlasts the
  cooldown lets the next attempt overtake it while it writes: TLC finds in this run that the file goes
  back from 3 to 1, which `CacheGoesBackOnlyWhenOvertaken` bounds. A write takes a unit, so that it can
  be overtaken. `Stale = 11` is the least value for which `CacheStaysFresh` holds there (with 10 TLC
  finds a skipped turn), and the least that the theorem `StaleOnlyWithAReason` allows. Two starts of the
  process are enough to meet a file of an earlier one.
- CodexSession: three lines are an answer to each request and one in the wrong place; timeouts of
  one unit let every wait end before, at and by its deadline. One field of an answer is off at a
  time in the windows, every pair of windows is tried with the legacy view, and maps have up to two
  entries, which is what a conflict of ids takes.
- Billing: two clients give every race for the flag; cooldown and month of two units in four ticks
  let an attempt cool down and the period change under it. Of two items one is ordinary and one of
  any class.
- DesktopShell: two shells and the launcher give two backends that race and a third that is
  attached to; one unanswered poll is enough to have polls before and at the deadline.
- Collectors: a limit of one with two requests is the check-then-act race; three runs cover an
  import, a concurrent one and a later one. Batches have up to two rows, the least for a roll back
  of something already flushed. One page per source in `collect`, two in `collect_repeats`, which is
  about paging.
- UsageLimits: six payloads are the old defaults that are known by name and maximum and by the name
  alone, the first with another maximum, days, months on a day that every month has and on one it has
  not, no date, and no interval; dates of both zones. Four ticks cross one or two resets. Two clients
  give each pair of a dashboard, an edit and a clean-up in each order.
- ClaudeUsage: two writers that overtake each other, two loads that overlap, one failure (of a request,
  or to read a file) and one change of the clock; writes are bounded so that the files come to rest, as
  the property demands.

## 4 Fairness

- GraphQL: gh calls have a timeout and commits return, so what is past the lock goes on (WF of
  each step of each process); time passes (WF). The sampler's `Tick` is SF: requests may hold the
  lock again and again, but `asyncio.Lock` serves its waiters in order. `Boot` is not fair: nobody
  promises to restart the process, so `WatchedSessionsEnd` may end in `proc = "down"`. Clients are
  not forced to start or stop anything.
- GitHubRateLimit: time passes, a due timer fires, threads run and `subprocess.run` has a timeout
  (WF of each). Nobody is forced to refresh by hand.
- Codex: threads run (WF of each thread's `Call`), the event loop wakes its sleeper (WF `Attempt`),
  time passes (WF `Tick`). `Boot`, `Stop`, `Crash` and `Request` are not fair.
- DesktopShell: the server thread runs (WF `Serve` of each backend), and so do the shell's main
  thread, whose probes and joins have timeouts (WF `Prepare`), its watchdog (WF `Watchdog`) and its
  way out (WF `Exit`). Users, the launcher, strangers and whatever kills a process are not fair.
- ClaudeUsage: the interval fires (WF `Begin`), the server answers (WF `Answer`) and the page draws
  (WF `Render`), for each load. Writers and the clock are not fair.

The other modules state safety only and assume no fairness.

## 5 Proofs

TLAPS checks all theorems for every value of the constants under the named `ASSUME`s: constants are
naturals or sets; `None` is none of the values it stands beside (an instant, a process, a quota
resource, an error, a report); `Initial <= Interval`; the requests of `CollectorRuns` are a finite set
that is not empty, which is what a limit "up to requests under way together" presupposes; usage items
and Codex answers have fields of the classes that the code tells apart, which the constants `ItemLists`
and `Answers` then combine in any way; the months of `UsageLimits` have a day at least, in any two
lengths, and the columns of a limit have values of their types. A theorem that needs the world or the
configuration to behave says so in its `ASSUME`; each such condition is named below with what goes wrong
without it. The theorems are listed in `PROJECT.json`; the arguments:

**GraphQLDiagnosticsProofs.** `TypeInv` is type correctness with a `Ready` part that types the
locals an operation has at each step; it gives `TypeCorrect`. `WorkersHoldLock` (whoever is past
the lock holds it) makes `CallsAreSerial` a consequence. That accounts are not mixed is not inductive:
a start compares accounts before its fetch and commits after it. `TableInv` adds what each phase
knows of the table while the lock is held (`Phases`), that the lock is held only while the process
is up (`HeldWhileUp`), and that an unclosed row has no end (`NoEarlyEnd`); one lemma, `TableWrites`,
says that every step leaves the table alone or enters, closes or completes one row.
`AccountsAreNotMixed`, `ClosedStaysClosed` and the refinement `TableIsALedger` all follow from it.

The measurements rest on four more invariants, each built upon `TableInv`.
- `NothingIsCountedTwice`, if nobody switches accounts (`NoSwitch`; GitHub's counters of two accounts
  share no order, and the code does not know whose it reads). `TimelineInv`: in the order of the
  samples, then the cursor, then what an operation carries, then GitHub, no reading of a window is ahead
  of a later one, and a delta starts from a reading that no earlier sample is ahead of. `SumsBelow`
  turns that into a bound on sums: what the samples from i to j add up to is at most the distance from i
  to any reading that none of them is ahead of. Failing calls, failing commits and exits are all
  allowed.
- `MeasurementsAddUp`, if in addition no commit fails (`CommitsSucceed`; a sample whose commit raised
  leaves the cursor where the timeline has no sample, which `gql_faults` reaches). `MeasureInv`: the
  cursor is the last sample's reading, a row in flight continues it (`ChainInv`); an open session has its
  opening sample or a start that is about to store it (`OpenInv`); a session with a total has the two
  samples it is the difference of (`Accounted`); whoever is about to close one has just stored the
  sample it closes with (`Handed`).
- `PollsAreSpaced` needs nothing. `PollInv`: every timed sample lies an interval before the sampler's next
  wake-up while it sleeps, and before the reading of the clock of the tick under way (`AllApart`); a
  client's samples name their session (`Told`) and so are not timed ones.
- `SamplerIsThereWhenNeeded`, if no commit fails (the case of section 6 in which a session is active and
  no sampler runs). `TrackInv`: the sampler is asleep with no session active only while a client is
  about to stop it, and idle with one active only while a start is about to start it (`Pending`).
- `RowsAndTimelineAgree`, if no commit fails and the process does not exit (`NoExit`: an exit between
  two commits of an operation leaves half of it for good). `MatchInv`: samples and rows are in the order
  of the clock; the sessions an operation has seen are the ones around the instant it has read, and no
  other was there both before and after (`Around`); a sample's attribution counts such a set (`Seen`); a
  closed row without an end, a row without a sample and a measured end without its sample each belong to
  an operation under way (`EndInv`, `BeginInv`, `FinishInv`).

`Running` is a recursive function, so that the sums can be reasoned about: its equation is proved from
the existence of a solution (`TotalsExist`, `RunningIs`). The library's induction theorems take an
operator as a parameter; `Induction` states it for a set of numbers and is proved from the
pigeonhole principle, and the sums and least elements use that. A session born exhausted is closed by
the sample it was opened with, and `ClosingSample` says so by the exhausted start rather than by the
status, which a sampler that finds the quota used up writes as well.

**GitHubRateLimitProofs.** `Inv` joins the type with: exhausted windows end within the bound,
fetching implies the flag and is exclusive (`Exclusive`), what each call's locals say (`Locals`), the
cooldown counting from the last let-in refresh (`Cool`), and a schedule whose pending reset is not
the attempted one (`Sound`). `PendingFollowsReport` adds that the pending reset is the target of the
last report. That a raised flag has a fetch (`FlagComesDown`) needs `~Unparsable`: otherwise a
report that raises leaves the flag up, section 6. `PendingKeepsItsTimer` needs `~Unparsable` and
`Early = 0`.

**CodexRateLimitsProofs.** `Inv` joins the type with: a task exists exactly in a serving process
(`Alive`), exclusion, deadlines counted from the reading of the clock (`Timely`), the cooldown counted
for whoever is fetching or writing (`Counted`), and where the file's instant may come from (`Known`).
Type, exclusion, the cooldown between attempts and the refinement of `RefreshGate` (`ControllerIsAGate`)
hold without further assumptions, and so do the theorems on the file: every observation made so far is
older than an attempt under way, or newer by a cooldown at least (`Spaced`), and by no more than an
attempt takes (`OvertakenInTime`); so the file goes back by an amount in `Cooldown .. Duration` or not
at all, and with attempts shorter than the cooldown, where that range is empty, not at all.
`SuccessIsReal` assumes that no write raises: the success that a failed write leaves behind (section 6)
is reported and nowhere. `SchedulerKeepsTrying` bounds the time between attempts by an invariant on
whose turn is when (`Turns`); the bound, `MaxGap`, is an interval, the delays of the scheduler, and
`Reach`, which is what a turn that was turned away may be late by: a fetch and a stalled write, or the
cooldown if that is longer. `StaleOnlyWithAReason` assumes `MaxGap + Lag + FetchTime <= Stale`: with no
error reported the last attempt that has settled is the success in the file (`Reported`), and when a
fetch is under way that success was at most `MaxGap` old as the fetch was let in (`Followed`). With the
code's defaults the condition is 600 + (40 + `Stall`) + 40 + 4 `Lag` <= 900 s, which leaves 220 s for
`Stall + 4 * Lag`; an interval configured near or above the threshold, which the environment variable
allows, loses it.

**CodexSessionProofs.** The bound on a fetch follows from `Latest`, the latest value the deadline
can have in each phase: a wait starts at or before the deadline of the one before and adds its own
timeout once. `NoEarlySuccess` says that windows appear in the outcome only past the last wait, `Shutdown`
what has been tried in each phase of the shutdown. `Conversation` says where in `printed` the answers
taken so far are. `EverySuccessIsCacheable` needs no state: `ProjectedIsCacheable` shows, rule by rule,
that what either view makes of any answer with finitely many limit ids is accepted by the cache, and
that the buckets of a map are as many as its keys.

**GitHubActionsBillingProofs.** `FlagIsTheAttempt`: the flag is up if some thread is past `Enter`, and
there is one at most. With it the mapping of `running` to the busy thread's reading of the clock is a
function of the step, and each step is one of `RefreshGate` or a stutter; a report that raised maps to
an attempt that never ends. `PageShowsTheLastAttempt`: all that the snapshot reads is written in the
locked section that ends an attempt, so it is what the last one, and the last one that brought a report
(`reported`), have left (`Left`), and a thread carries an error or a list of items to that section
(`Carried`). The totals of a report are defined by the loop that adds them up, and two loops that add
the same terms agree: no induction is needed.

**DesktopShellProofs.** `seen[l] = b` only while `b` listens and `l` has not started a backend
(`SeenListens`), a session that is being sampled belongs to a listener (`SamplersListen`), a shell that
is off has no backend and has seen nobody (`OffIsEmpty`). A launch that comes to start a backend has
found the port free or a probe unanswered, and has then forgotten what it saw.

**CollectorRunsProofs.** The unique constraint covers the stored key, and a legacy key and a current one
of the same identity differ: that a table has one row per identity is therefore more than the
constraint. It is inductive with: nobody adds legacy rows, so that a row found is what it was (`Fits`);
an identity that was not found is in the table only if it came in meanwhile (`Fresh`); and the draft
extends the committed table (`TableFits`). `FlushKeeps` is the lemma on one flush. The reasons for
failures use the history `known`: a row that is not unique is pending, and what its session sees has the
key in a row of its own (`PendingIsTaken`). `ImportsAreAllOrNothing` adds `AInv`: a run has rows in the
table only from its own keys, and once it has any it has them all (`Whole`); the keys of a run are those
of the records its request has still to handle, of the rows it sees and of what it has not flushed, and
nothing of it is in the table before its commit (`Covers`); and a later table, or a draft, has the rows
of the earlier one where they were (`Extends`). `DailyLimitIsNearlyKept` adds `LimitInv`: once today's
runs have reached the limit nobody is let through any more, so the runs that may call (`Calls`) and the
requests let through whose run is not recorded yet (`Passed`) do not grow in number together; one
request at least was neither when the limit was reached.

**UsageProofs** is about two modules. It extends `UsageLimits`:
- The calendar. A date is a day of exactly one month (`InItsMonth`, `OneMonth`), months follow each other
  without a gap (`MonthAfter`, `MonthsInOrder`); so adding months keeps the day, or shortens it to
  the month's last (`MonthsAdded`), leads forward (`MonthsMove`), and taking them away again leads
  back where it was or, where a month lacks the day, at most as many days before as it lacks
  (`MonthsBack`).
- The walk. `Onward` is a recursive function, so it has to be shown that its equation has a solution: of
  any date, the least of the dates that it leads to after the time (`WalkExists`; what a date leads to
  is what is in every set closed under the step). From the equation, by induction on the distance to
  the time: a walk ends after it (`WalkLeadsPast`), a walk to an earlier time does not leave the way to a
  later one (`WalksMeet`), and its last step starts at the time or before it (`LastStep`). Hence a date
  that two dashboards move is where the later one moves it (`AdvanceTwice`), and of two periods the
  later starts no later than it was shown, and before the end of the earlier by no more than `Overlap`,
  the days that a month lacks (`PeriodsFollow`); `Lacking`, their number seen from a date, never grows
  along the walk.
  `NowIsInThePeriod` says of `current_period_start` by itself that the present is in the period.
- The requests. `IInv` joins the type with: what an edit does not write is as it asks for unless another
  has overtaken it (`EditsInProgress`), a dashboard writes the date only, moved from the one in the row
  unless it has been overtaken (`DashboardsInProgress`); the row is that of the last edit with its date
  moved (`Intact`), or has the values of an old default and was emptied, save for the date of a
  dashboard that crossed it (`Emptied`); a clean-up that no edit has overtaken has such a row before it,
  and what it does not write is empty already (`SeedsInProgress`); and the periods shown are those of
  the last edit (`CountedInPeriods`). `EditsSurvive` is a consequence of that invariant,
  `RecordsAreCountedOnce` of it and `PeriodsFollow`.

It has an instance of `ClaudeUsage`: whatever is in a file, in an answer and on the card was stored by a
writer (`CardInv`); a snapshot taken from a file is one of `stored`, and `Resolved` takes one of its two
arguments or none.

Only model-checked: everything under fairness (`WatchedSessionsEnd`, `SamplerComesToRest`,
`PendingIsConsumed`, `AttemptsEnd`, `WindowsFollowTheirBackend`, `LaunchesEnd`,
`AbandonedBackendsStop`, `NewestIsShown`), which is beyond the prover. Every safety property of a run
that passes is a theorem.

## 6 Where code and documents differ

Shown by a run, `collect_repeats`: the import row of a new record is added and not flushed, sessions do
not autoflush, and a second row of the same identity in the batch is inserted as well; the commit
fails on the unique key and the whole import is rolled back (importer 389; a test says such rows
resolve to one record). A cursor that leads back to a page already read is enough: the guard against
repeated cursors knows only the cursors that were named, not the first page's.

Met while modelling, without a run of their own (paths below `src/app/`):

GraphQL diagnostics
- A start commits its session and then its sample; if the second commit raises, the session is
  active and no sampler runs (controller 459; the document says the sampler starts with the first
  active session).
- A session born exhausted is written in two commits; an exit between them leaves a closed row
  without an end, which the page shows as still being measured (controller 441).
- A tick whose fetch fails returns before the maximum-duration test (controller 615), so a session
  outlives its maximum while gh fails; `docs/github-graphql-consumption-diagnostics.md` 30 has no
  such exception. `WatchedSessionsEnd` shows it ends once gh answers again.
- A block that fails to parse is recorded as a sample without a value, not as a failed fetch as the
  comment at controller 299 has it.

GitHub rate limits and billing
- Only the reset attempted last is remembered; with two overdue resources the same reset can be
  attempted twice (state 126; a comment at 116 says at most once).
- `build_github_rate_limit_report` runs between the handler and the lock; when it raises,
  `_refreshing` stays up for good (state 222). The billing report has the same gap: `float()` of a
  quantity beyond its range raises `OverflowError` (`github_actions_billing.py` 183).
- A timer that fires before its wall clock time does nothing and is not armed again (state 262): with
  `Early = 1` the pending refresh stays pending. Hence the assumption `Early = 0`.

Codex
- An `OSError` while the file is replaced leaves a success without an error in the controller's
  status (state 133; a comment at 136 says no success is reported).
- A fetch may take 10 + 15 + 3 x 5 s, more than its cooldown of 30 s: two successes may then be
  written in the wrong order, and the file holds the older one until the next attempt (state 119).
  `CacheGoesBackOnlyWhenOvertaken` says how far back it can go.
- A line of JSON that is no object ends the fetch as an unknown error; other noise is skipped
  (`codex_rate_limits_adapter.py` 399).

Desktop shell
- Two launches that find the port free both run the lifespan; the one that loses the port may have
  aborted the winner's session. A probe that times out counts as a free port (lifecycle 145).
- A shell whose poll is answered by another's backend counts as the owner and opens its window; the
  watchdog closes it when its own backend fails to bind. A window that is attached outlives its
  backend.
- A backend that goes away between the two requests of a probe is reported as a foreign service.
- While the message about an unusable dashboard is open, the owned backend serves on.

Collectors
- A dry run looks up what is committed and writes nothing, so it reports a repeated row as two
  imports; the docstring of `plan_normalized_records` says it computes exactly what an import does.
- An older answer that is imported later replaces a newer value.
- An exit, or a locked database, before the last commit leaves the run as started. Two imports of
  first rows may each create the service and the limit.

Limits
- A date sent in UTC, as the page does (`toISOString`), is stored without its zone and read in
  `APP_TIMEZONE`: nine hours off with the default.
- The edit writes changed columns only. One that leaves the date as it read it and crosses a dashboard
  keeps the dashboard's date; two edits that cross mix their columns; a dashboard that commits after an
  edit replaces its date.
- A month's end is clamped and stays so (31 January, 28 February, 28 March), and the period before
  a clamped reset is not the one that was counted: the two overlap, by no more than the days that the
  shorter month lacks (`RecordsAreCountedOnce`). A reset more than an interval ahead puts the start
  of the current period in the future.
- The docstring of the clean-up says that it resets only the samples of the old version that look like
  real limits (`maintenance.py` 8). Three of its five defaults are known by name and maximum, the ones
  of Gemini and Claude by the name alone (lines 14-15, 27-28): a limit for messages that a user has
  entered as "Claude" is emptied at the next start whatever its maximum. `EditsSurvive` says this of no
  other limit. An emptied row without usage is then deleted if its service has an earlier row of the new
  name (lines 66-95), which the model of one limit assumes it has not.
- The clean-up also runs beside requests (`main.py` 282; a second launch, 168-169). A dashboard that
  crosses it leaves a date on the emptied row, an edit that crosses it is mixed with it.

Claude usage
- A payload without windows is stored as the newest automatic observation and hides a full manual
  one that is older. A slower bridge replaces the file of a newer observation.
- `resets_at` near the ends of `datetime`'s range raises `OverflowError` in a PUT.

## 7 What is left out

Worker threads of a tick that outlive the operation lock at shutdown (controller 240); several
processes that keep serving one database (`DesktopShell` has the second one's start, as its effect on
the session); a wall clock that is set back, except in `ClaudeUsage`; the contents of the Codex cache
file beyond valid or rejected in `CodexRateLimits` (what is valid is in `CodexPayload`); a scheduler
switched off by its environment variable; services and limits that an import creates; number and date
formatting; authentication; HTTP. The models take the `gh` wrappers as calls with a class of result
and, where it matters, a bound on their time. Section 1 lists the components without a model.

## 8 Plan

What the models could still gain, the most useful first.

1. Proofs: the totals under failing commits. They are never too high (`NothingIsCountedTwice`), and how
   much too low they may be is not stated.
2. The composition of `CodexSession` with `CodexRateLimits`: the first's bound is the second's
   `FetchTime`, which is stated in both and not yet as a refinement.
3. Shutdown: the tick's worker thread that goes on after the sampler is cancelled.
4. The service and limit rows an import creates, and the removal of empty services and duplicates.
5. The other cards of the compact view, which follow the Claude card's pattern without its second
   source.

A further question is best put to a run that is there, as one more property, where it can share the
run's constants.
