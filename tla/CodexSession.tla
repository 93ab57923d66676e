---------------------------- MODULE CodexSession ----------------------------
(***************************************************************************)
(* One fetch_codex_rate_limits: `codex app-server` is started, a reader    *)
(* thread queues the lines it prints, the fetching thread asks two         *)
(* requests, each with a deadline of its own, and ends the process in      *)
(* three steps.  The process prints what it likes and ends when it likes.  *)
(***************************************************************************)
EXTENDS CodexPayload, Integers, Sequences

CONSTANTS
  Answers,            \* results of account/rateLimits/read
  InitializeTimeout, RateLimitsTimeout, ShutdownTimeout,
  MaxLines            \* bound: the lines codex prints

ASSUME TimeoutAssumption ==
  {InitializeTimeout, RateLimitsTimeout, ShutdownTimeout, MaxLines} \subseteq Nat
ASSUME AnswerAssumption == \A answer \in Answers : IsAnswer(answer)

VARIABLES
  phase,     \* what the fetching thread waits for
  now,       \* the clock
  deadline,  \* until when it waits
  child,     \* the codex process
  printed,   \* all lines the reader thread has queued
  taken,     \* how many of them have been taken from the queue
  eof,       \* the reader thread has queued its None
  outcome,   \* what the session has made of it
  result,    \* what fetch_codex_rate_limits returned
  asked      \* history: what has been done for codex to end

vars == <<phase, now, deadline, child, printed, taken, eof, outcome, result, asked>>
stream == <<printed, eof>>

(* A line: no JSON, JSON that is no object, a notification, or an answer. *)
Lines == [id: {0}, body: {"noise", "scalar", "notification"}]
           \cup [id: {1, 2}, body: {"error", "result"}]

RpcErrors == {"protocol_error", "method_not_found", "authentication_unavailable"}

Init ==
  /\ phase = "idle" /\ now = 0 /\ deadline = 0
  /\ child = "none" /\ printed = <<>> /\ taken = 0 /\ eof = FALSE
  /\ outcome = Failure("none") /\ result = Failure("none")
  /\ asked = {}

-----------------------------------------------------------------------------
Waits(for, timeout) == phase' = for /\ deadline' = now + timeout

(* Mutant: a session that failed is returned without the shutdown. *)
FailuresReturnAtOnce(fetched) ==
  /\ outcome' = fetched
  /\ IF fetched.windows = {}
       THEN phase' = "done" /\ result' = fetched /\ UNCHANGED <<deadline, asked>>
       ELSE asked' = {"close"} /\ Waits("close", ShutdownTimeout) /\ UNCHANGED result

(* The session is over; _shutdown_process closes stdin and waits. *)
SessionEnds(fetched) ==
  /\ outcome' = fetched
  /\ asked' = {"close"}
  /\ Waits("close", ShutdownTimeout)
  /\ UNCHANGED result

(* A write to the process raises once it is gone. *)
SendFails == child' = "gone" /\ SessionEnds(Failure("unknown_error"))

Fetch ==
  /\ phase = "idle"
  /\ \/ \E e \in {"executable_not_found", "process_start_failed"} : result' = Failure(e)
        /\ phase' = "done"
        /\ UNCHANGED <<deadline, child, outcome, asked>>
     \/ /\ child' = "running"
        /\ Waits("initialize", InitializeTimeout)
        /\ UNCHANGED <<outcome, result, asked>>
     \/ SendFails
  /\ UNCHANGED <<now, stream, taken>>

Awaited == IF phase = "initialize" THEN 1 ELSE 2

(* Mutant: any answer will do. *)
MatchesAny(line) == line.id # 0

Matches(line) == line.id = Awaited

(* Mutant: a skipped line starts the wait over. *)
SkipAndWait ==
  /\ deadline' = now + (IF phase = "initialize" THEN InitializeTimeout ELSE RateLimitsTimeout)
  /\ UNCHANGED <<phase, child, outcome, result, asked>>

(* The deadline is that of the whole wait: neither recv nor _recv_matching
   counts it anew for a line that it skips. *)
Skip == UNCHANGED <<phase, deadline, child, outcome, result, asked>>

Answered(line) ==
  \/ /\ phase = "initialize" /\ line.body = "error"
     /\ SessionEnds(Failure("initialize_error")) /\ UNCHANGED child
  \/ /\ phase = "initialize" /\ line.body = "result"
     /\ \/ child = "running" /\ Waits("rateLimits", RateLimitsTimeout)
           /\ UNCHANGED <<child, outcome, result, asked>>
        \/ child = "gone" /\ SendFails
  \/ /\ phase = "rateLimits" /\ line.body = "error"
     /\ \E e \in RpcErrors : SessionEnds(Failure(e))
     /\ UNCHANGED child
  \/ /\ phase = "rateLimits" /\ line.body = "result"
     /\ \E answer \in Answers : SessionEnds(Projected(answer))
     /\ UNCHANGED child

Receive ==
  /\ phase \in {"initialize", "rateLimits"}
  /\ taken < Len(printed) /\ now <= deadline
  /\ taken' = taken + 1
  /\ LET line == printed[taken + 1] IN
       \/ line.body = "scalar" /\ SessionEnds(Failure("unknown_error")) /\ UNCHANGED child
       \/ line.body # "scalar" /\ Matches(line) /\ Answered(line)
       \/ line.body # "scalar" /\ ~Matches(line) /\ Skip
  /\ UNCHANGED <<now, stream>>

(* The deadline has passed, or the queue ends with the reader's None. *)
GiveUp ==
  /\ phase \in {"initialize", "rateLimits"}
  /\ now = deadline \/ (eof /\ taken = Len(printed))
  /\ SessionEnds(Failure(IF phase = "initialize" THEN "initialize_timeout" ELSE "rate_limits_timeout"))
  /\ UNCHANGED <<now, stream, child, taken>>

Returned == IF child = "gone" THEN outcome ELSE Failure("process_exit_failed")

Return ==
  /\ phase' = "done"
  /\ result' = Returned
  /\ UNCHANGED <<now, deadline, stream, child, taken, outcome>>

Confirmed == phase \in {"close", "terminate", "kill"} /\ child = "gone" /\ Return /\ UNCHANGED asked

Terminate ==
  /\ phase = "close" /\ now = deadline
  /\ asked' = asked \cup {"terminate"}
  /\ Waits("terminate", ShutdownTimeout)
  /\ UNCHANGED <<now, stream, child, taken, outcome, result>>

(* terminate() did not help in time, or raised and was not waited for; so may
   kill() raise. *)
Kill ==
  /\ phase \in {"close", "terminate"} /\ now = deadline
  /\ asked' = asked \cup {"terminate", "kill"}
  /\ \/ Waits("kill", ShutdownTimeout) /\ UNCHANGED <<now, stream, child, taken, outcome, result>>
     \/ Return

KillTimesOut == phase = "kill" /\ now = deadline /\ Return /\ UNCHANGED asked

-----------------------------------------------------------------------------
Output ==
  /\ child = "running" /\ ~eof /\ Len(printed) < MaxLines
  /\ \E line \in Lines : printed' = Append(printed, line)
  /\ UNCHANGED <<phase, now, deadline, child, taken, eof, outcome, result, asked>>

(* stdout is closed, or a line that is not UTF-8 ends the reader. *)
ReaderEnds ==
  /\ child # "none" /\ ~eof
  /\ eof' = TRUE
  /\ UNCHANGED <<phase, now, deadline, child, printed, taken, outcome, result, asked>>

ChildExits ==
  /\ child = "running"
  /\ child' = "gone"
  /\ UNCHANGED <<phase, now, deadline, stream, taken, outcome, result, asked>>

Tick ==
  /\ phase \notin {"idle", "done"} /\ now < deadline
  /\ now' = now + 1
  /\ UNCHANGED <<phase, deadline, child, stream, taken, outcome, result, asked>>

Next ==
  \/ Fetch \/ Receive \/ GiveUp \/ Confirmed \/ Terminate \/ Kill \/ KillTimesOut
  \/ Output \/ ReaderEnds \/ ChildExits \/ Tick

Spec == Init /\ [][Next]_vars

-----------------------------------------------------------------------------
(* A success is made of the first answer to the second request that follows
   the answer to the first one: noise, notifications, answers that come early
   and answers to another request are passed over. *)
TakesTheAwaitedAnswer ==
  outcome.error = "none" /\ outcome.windows # {} =>
    \E i, j \in 1 .. taken :
      /\ i < j /\ j = taken
      /\ printed[i] = [id |-> 1, body |-> "result"]
      /\ printed[j] = [id |-> 2, body |-> "result"]
      /\ \A k \in 1 .. i - 1 : printed[k].id # 1
      /\ \A k \in i + 1 .. j - 1 : printed[k].id # 2

(* A fetch takes no longer than its five timeouts together, whatever codex
   prints: this is the FetchTime that the Codex controller counts with. *)
FetchTimeIsBounded ==
  now <= InitializeTimeout + RateLimitsTimeout + 3 * ShutdownTimeout

(* However the session went, by an answer, a timeout, an exception or codex's
   own end: a fetch that returns while codex still runs has closed its stdin,
   has tried to terminate and to kill it, and reports that it did not end
   instead of what it fetched. *)
EverythingIsTried == asked = {"close", "terminate", "kill"}
NoProcessIsForgotten ==
  phase = "done" /\ child = "running" =>
    EverythingIsTried /\ result = Failure("process_exit_failed")

(* The cache file takes every success: the lenient legacy view and the strict
   map, each with its rules for missing, null and empty fields, never build a
   record that validate_cache_record rejects when it is stored or read. *)
SuccessIsCacheable == result.windows # {} => CacheAccepts(result)
=============================================================================
