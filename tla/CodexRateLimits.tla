--------------------------- MODULE CodexRateLimits ---------------------------
(***************************************************************************)
(* The Codex rate limits: a controller that lets one attempt at a time run *)
(* `codex app-server`, the cache file that holds the last success, and the *)
(* scheduler task that makes an attempt every Interval.                    *)
(*                                                                         *)
(* Processes: the threads that serve POST /api/codex-rate-limits/refresh,  *)
(* and the scheduler, whose attempts run in a thread of their own.  An     *)
(* attempt lowers the controller's flag before it writes the file.         *)
(***************************************************************************)
EXTENDS Integers

CONSTANTS
  Clients,       \* threads that serve a manual refresh
  Poller,        \* the thread of the scheduler's attempt
  None,          \* Python's None; of the cache, no file
  Broken,        \* a cache file that load_snapshot rejects
  MaxTime,       \* bound: the clock
  MaxBoots,      \* bound: how often the process is started
  Cooldown,      \* DEFAULT_COOLDOWN_SECONDS
  Interval,      \* DEFAULT_INTERVAL_SECONDS
  Initial,       \* INITIAL_DELAY_SECONDS
  Stale,         \* STALE_THRESHOLD_SECONDS
  FetchTime,     \* the longest a fetch takes: its timeouts and the shutdown of codex
  Stall,         \* the longest a thread takes to put the file in place
  Lag,           \* the longest a thread or the event loop is late
  FetchResults,  \* how a fetch may end
  WriteResults   \* how the write of a success may end

ASSUME ValueAssumption == Poller \notin Clients /\ {None, Broken} \cap Int = {} /\ None # Broken
ASSUME TimeAssumption ==
  /\ {MaxTime, MaxBoots, Cooldown, Interval, Initial, Stale, FetchTime, Stall, Lag} \subseteq Nat
  /\ Initial <= Interval   \* MIN_INTERVAL_SECONDS is above INITIAL_DELAY_SECONDS
ASSUME ResultAssumption ==
  /\ FetchResults \subseteq {"success", "failure", "exception"}
  /\ WriteResults \subseteq {"stored", "invalid", "unwritable"}

Threads == Clients \cup {Poller}
Time    == 0 .. MaxTime

VARIABLES
  clock,
  up,           \* "up", "stopping" after the lifespan ended, or "down"
  boots,
  bootedAt,     \* when the process was started
  refreshing,   \* _refreshing
  lastAttempt,  \* _last_attempt_at
  lastSuccess,  \* _last_success_at
  lastError,    \* whether _last_error is set
  cache,        \* observed_at of the cache file
  thread,       \* what every thread is at, since which call, until when at the latest
  wake,         \* when the scheduler's sleep ends; None during an attempt and without a task
  task,         \* whether the scheduler has a task
  autoSuccess   \* the scheduler's _last_success_at

controller == <<refreshing, lastAttempt, lastSuccess, lastError>>
process    == <<up, boots, bootedAt>>
scheduler  == <<wake, task, autoSuccess>>
vars == <<clock, process, controller, cache, thread, scheduler>>

Idle == [stage |-> "idle", at |-> None, due |-> 0]
At(stage)   == {r \in Threads : thread[r].stage = stage}
Go(r, stage, allowance) ==
  thread' = [thread EXCEPT ![r] = [stage |-> stage, at |-> @.at, due |-> clock + allowance]]

(***************************************************************************)
(* The end of a thread's call.  When it is the attempt of the scheduler,   *)
(* and its task was not cancelled meanwhile, the task resumes: it notes    *)
(* the outcome and goes to sleep.  Nothing else looks at what it notes.    *)
(***************************************************************************)
\* MUTANT: whatever does not raise counts as a success.
NotedUnlessRaised(outcome, at) == IF outcome # "exception" THEN at ELSE autoSuccess

Noted(outcome, at) == IF outcome = "success" THEN at ELSE autoSuccess

\* MUTANT: an exception ends the scheduler's task.
EndUnlessRaised(r, outcome) ==
  /\ thread' = [thread EXCEPT ![r] = Idle]
  /\ IF r = Poller /\ task
       THEN IF outcome = "exception"
              THEN task' = FALSE /\ UNCHANGED <<wake, autoSuccess>>
              ELSE wake' = clock + Interval /\ autoSuccess' = Noted(outcome, thread[r].at) /\ UNCHANGED task
       ELSE UNCHANGED scheduler

\* MUTANT: the task does not sleep again after a skip.
EndUnlessSkipped(r, outcome) ==
  /\ thread' = [thread EXCEPT ![r] = Idle]
  /\ UNCHANGED task
  /\ IF r = Poller /\ task /\ outcome # "skipped"
       THEN wake' = clock + Interval /\ autoSuccess' = Noted(outcome, thread[r].at)
       ELSE UNCHANGED <<wake, autoSuccess>>

End(r, outcome) ==
  /\ thread' = [thread EXCEPT ![r] = Idle]
  /\ UNCHANGED task
  /\ IF r = Poller /\ task
       THEN /\ wake' = clock + Interval
            /\ autoSuccess' = Noted(outcome, thread[r].at)
       ELSE UNCHANGED <<wake, autoSuccess>>

-----------------------------------------------------------------------------
(* POST /api/codex-rate-limits/refresh: the clock is read before the        *)
(* controller is entered.                                                   *)
Request(r) ==
  /\ up = "up" /\ r \in At("idle")
  /\ thread' = [thread EXCEPT ![r] = [stage |-> "entering", at |-> clock, due |-> clock + Lag]]
  /\ UNCHANGED <<clock, process, controller, cache, scheduler>>

Cooling(at) == lastAttempt # None /\ at - lastAttempt < Cooldown
\* MUTANT: the cooldown is not looked at.
RejectedWhenBusy(at) == refreshing

Rejected(at) == refreshing \/ Cooling(at)

(* refresh, first critical section: either the attempt is turned away, with *)
(* CodexRateLimitsRefreshInProgressError or ...CooldownError, or it raises   *)
(* the flag and starts codex.                                               *)
TurnAway(r) ==
  /\ r \in At("entering") /\ Rejected(thread[r].at)
  /\ End(r, "skipped")
  /\ UNCHANGED <<clock, process, controller, cache>>

Enter(r) ==
  /\ r \in At("entering") /\ ~Rejected(thread[r].at)
  /\ refreshing' = TRUE
  /\ Go(r, "fetching", FetchTime)
  /\ UNCHANGED <<clock, process, lastAttempt, lastSuccess, lastError, cache, scheduler>>

(* refresh, second critical section, for the three ways a fetch may end.    *)
Settle(r, error) ==
  /\ r \in At("fetching")
  /\ refreshing' = FALSE
  /\ lastAttempt' = thread[r].at
  /\ lastError' = error
  /\ UNCHANGED <<clock, process, cache>>

FetchSucceeds(r) ==
  /\ "success" \in FetchResults
  /\ Settle(r, FALSE)
  /\ lastSuccess' = thread[r].at
  /\ Go(r, "writing", Stall)
  /\ UNCHANGED scheduler

FetchFails(r) ==
  /\ "failure" \in FetchResults
  /\ Settle(r, TRUE)
  /\ End(r, "failure")
  /\ UNCHANGED lastSuccess

\* MUTANT: the except branch leaves no error behind.
RaisesQuietly(r) ==
  /\ "exception" \in FetchResults
  /\ Settle(r, FALSE)
  /\ End(r, "exception")
  /\ UNCHANGED lastSuccess

FetchRaises(r) ==
  /\ "exception" \in FetchResults
  /\ Settle(r, TRUE)
  /\ End(r, "exception")
  /\ UNCHANGED lastSuccess

(* The rest of refresh, with the flag already down: the record is validated *)
(* and put in place of the old file by os.replace, or is rejected, or the    *)
(* write raises an OSError that nothing catches.                             *)
Store(r) ==
  /\ "stored" \in WriteResults /\ r \in At("writing")
  /\ cache' = thread[r].at
  /\ End(r, "success")
  /\ UNCHANGED <<clock, process, controller>>

RejectRecord(r) ==
  /\ "invalid" \in WriteResults /\ r \in At("writing")
  /\ lastError' = TRUE
  /\ End(r, "failure")
  /\ UNCHANGED <<clock, process, refreshing, lastAttempt, lastSuccess, cache>>

WriteRaises(r) ==
  /\ "unwritable" \in WriteResults /\ r \in At("writing")
  /\ End(r, "exception")
  /\ UNCHANGED <<clock, process, controller, cache>>

-----------------------------------------------------------------------------
(* The scheduler's sleep is over: _attempt reads the clock and hands        *)
(* controller.refresh to a thread.                                          *)
Attempt ==
  /\ task /\ wake # None /\ clock >= wake /\ Poller \in At("idle")
  /\ thread' = [thread EXCEPT ![Poller] = [stage |-> "entering", at |-> clock, due |-> clock + Lag]]
  /\ wake' = None
  /\ UNCHANGED <<clock, process, controller, cache, task, autoSuccess>>

(* The lifespan starts the scheduler.  A cache that can be read, is not     *)
(* older than Stale and describes no window that was reset since is worth a  *)
(* whole Interval.                                                          *)
Fresh(windowReset) == cache \in Time /\ clock - cache <= Stale /\ ~windowReset
InitialWait(windowReset) == IF Fresh(windowReset) THEN Interval ELSE Initial

Boot ==
  /\ up = "down" /\ boots < MaxBoots
  /\ up' = "up" /\ boots' = boots + 1 /\ bootedAt' = clock
  /\ refreshing' = FALSE
  /\ lastAttempt' = None /\ lastSuccess' = None /\ lastError' = FALSE
  /\ thread' = [r \in Threads |-> Idle]
  /\ task' = TRUE /\ autoSuccess' = None
  /\ \E windowReset \in BOOLEAN : wake' = clock + InitialWait(windowReset)
  /\ UNCHANGED <<clock, cache>>

(* uvicorn lets the requests finish, then the lifespan cancels the task; a  *)
(* call still queued for a thread is dropped, one that runs is not, and the *)
(* process waits for it.                                                    *)
Stop ==
  /\ up = "up" /\ Clients \subseteq At("idle")
  /\ up' = "stopping" /\ task' = FALSE /\ wake' = None
  /\ \/ UNCHANGED thread
     \/ Poller \in At("entering") /\ thread' = [thread EXCEPT ![Poller] = Idle]
  /\ UNCHANGED <<clock, boots, bootedAt, controller, cache, autoSuccess>>

Exit ==
  /\ up = "stopping" /\ Threads = At("idle")
  /\ up' = "down"
  /\ UNCHANGED <<clock, boots, bootedAt, controller, cache, thread, scheduler>>

(* The process is killed; the file is replaced whole or not at all.         *)
Crash ==
  /\ up # "down" /\ boots < MaxBoots
  /\ up' = "down" /\ task' = FALSE /\ wake' = None
  /\ thread' = [r \in Threads |-> Idle]
  /\ UNCHANGED <<clock, boots, bootedAt, controller, cache, autoSuccess>>

(* Time passes, but no thread and no sleep overruns its bound.              *)
Tick ==
  /\ clock < MaxTime
  /\ \A r \in Threads : r \in At("idle") \/ clock < thread[r].due
  /\ wake # None => clock < wake + Lag
  /\ clock' = clock + 1
  /\ UNCHANGED <<process, controller, cache, thread, scheduler>>

Init ==
  /\ clock = 0 /\ up = "down" /\ boots = 0 /\ bootedAt = 0
  /\ refreshing = FALSE /\ lastAttempt = None /\ lastSuccess = None /\ lastError = FALSE
  /\ cache \in {None, Broken, 0}
  /\ thread = [r \in Threads |-> Idle]
  /\ wake = None /\ task = FALSE /\ autoSuccess = None

Call(r) ==
  \/ TurnAway(r) \/ Enter(r)
  \/ FetchSucceeds(r) \/ FetchFails(r) \/ FetchRaises(r)
  \/ Store(r) \/ RejectRecord(r) \/ WriteRaises(r)

Next ==
  \/ \E r \in Clients : Request(r)
  \/ \E r \in Threads : Call(r)
  \/ Attempt \/ Boot \/ Stop \/ Exit \/ Crash \/ Tick

Spec == Init /\ [][Next]_vars

(* Threads run, the event loop wakes its sleeper, and time passes.          *)
FairSpec ==
  /\ Spec
  /\ \A r \in Threads : WF_vars(Call(r))
  /\ WF_vars(Attempt) /\ WF_vars(Tick)
-----------------------------------------------------------------------------
(* Every variable has its type; what the scheduler notes is an instant of   *)
(* the past.                                                                *)
TypeOK ==
  /\ clock \in Time /\ up \in {"up", "stopping", "down"}
  /\ boots \in 0 .. MaxBoots /\ bootedAt \in Time
  /\ refreshing \in BOOLEAN /\ lastError \in BOOLEAN /\ task \in BOOLEAN
  /\ {lastAttempt, lastSuccess, autoSuccess} \subseteq Time \cup {None}
  /\ cache \in Time \cup {None, Broken}
  /\ wake \in Nat \cup {None}
  /\ thread \in [Threads -> [stage : {"idle", "entering", "fetching", "writing"},
                             at : Time \cup {None}, due : Nat]]

(* One codex app-server at a time, whoever asked for it, and the flag is up *)
(* exactly while it runs (state.py, refresh; main.py has one controller).   *)
OneFetchAtATime ==
  up # "down" =>
    /\ refreshing <=> At("fetching") # {}
    /\ \A p, q \in At("fetching") : p = q

(* Two attempts that are under way together, one still writing its result   *)
(* while the next one already fetches, were asked for a cooldown apart: the *)
(* cooldown binds manual refreshes and the scheduler alike.                 *)
AttemptsAreApart ==
  \A p, q \in At("fetching") \cup At("writing") :
    p # q => \/ thread[p].at - thread[q].at >= Cooldown
             \/ thread[q].at - thread[p].at >= Cooldown

(* The attempts that refresh lets in are those a RefreshGate lets in.       *)
Fetching == At("fetching")
Running  == IF up # "down" /\ Fetching # {} THEN thread[CHOOSE r \in Fetching : TRUE].at ELSE None
Last     == IF up # "down" THEN lastAttempt ELSE None
Gate     == INSTANCE RefreshGate WITH running <- Running, last <- Last
AttemptsPassTheGate == Gate!Spec

(* An older observation takes the place of a newer one only if its attempt  *)
(* was still writing when the newer one, asked for a cooldown later at the  *)
(* earliest, was in the file already; an attempt takes Duration at most.    *)
Duration == Lag + FetchTime + Stall
Overtook(newer, older) == newer - older \in Cooldown .. Duration

(* The cache file moves forward, across threads and restarts, but for an     *)
(* attempt that outlasts the cooldown and is overtaken while it writes: the  *)
(* file then goes back by a cooldown at least and by Duration at most, and   *)
(* never when attempts are shorter than the cooldown (state.py, refresh,     *)
(* which writes after it lowered the flag).                                 *)
CacheGoesBackOnlyWhenOvertaken ==
  [][(cache \in Time /\ cache' # cache) =>
       (cache' \in Time /\ (cache' >= cache \/ Overtook(cache, cache')))]_vars

(* What the controller reports as its last success without an error is in   *)
(* the file, or a newer one is, or an older one that it overtook, or the     *)
(* thread that had it is writing it.                                        *)
Holds(success) == cache \in Time /\ (cache >= success \/ Overtook(success, cache))
SuccessIsStored ==
  up # "down" /\ lastSuccess # None /\ ~lastError =>
    Holds(lastSuccess) \/ \E r \in At("writing") : thread[r].at = lastSuccess

(* What the scheduler reports as its last success is in the file, or a newer *)
(* observation is, or an older one that it overtook, whatever went wrong in  *)
(* attempts after it.                                                       *)
AutoSuccessIsStored == autoSuccess # None => Holds(autoSuccess)

(* While the process serves, some attempt was made recently: no failure,    *)
(* exception or turn ends the scheduler, and a turn that it skips is covered *)
(* by the attempt it was skipped for.                                       *)
Reach  == IF FetchTime + Stall >= Cooldown THEN FetchTime + Stall ELSE Cooldown - 1
MaxGap == Interval + 3 * Lag + Reach
Marks  == ({bootedAt, lastAttempt} \cup {thread[r].at : r \in Fetching}) \ {None}
AttemptsKeepComing == up = "up" => \E t \in Marks : clock - t <= MaxGap

(* What the process has put into the cache never gets stale by its age      *)
(* without a reason that a reader can see: an error is reported, or the      *)
(* success the controller reports is not the one in the file.               *)
CacheStaysFresh ==
  up = "up" /\ cache \in Time /\ cache >= bootedAt /\ ~lastError /\ lastSuccess = cache
    => clock - cache <= Stale

(* Every attempt of the scheduler ends: it sleeps again or its task is gone. *)
AttemptsEnd == (task /\ wake = None) ~> (wake # None \/ ~task)
==============================================================================
