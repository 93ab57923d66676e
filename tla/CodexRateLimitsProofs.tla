------------------------ MODULE CodexRateLimitsProofs ------------------------
(***************************************************************************)
(* Theorems about CodexRateLimits, for every number of threads, every       *)
(* length of the cooldown, the interval and the timeouts, and every way a  *)
(* fetch or a write may end.                                               *)
(***************************************************************************)
EXTENDS CodexRateLimits, TLAPS

USE ValueAssumption DEF Threads, Time

LEMMA Bounds ==
  /\ MaxTime \in Nat /\ MaxBoots \in Nat /\ Cooldown \in Nat /\ Interval \in Nat
  /\ Initial \in Nat /\ FetchTime \in Nat /\ Stall \in Nat /\ Lag \in Nat
BY TimeAssumption

(***************************************************************************)
(* The inductive invariant.                                                *)
(***************************************************************************)
CallRecord == [stage : {"idle", "entering", "fetching", "writing"}, at : Time \cup {None}, due : Nat]

\* Only a process that serves has a scheduler, and none runs without a process.
Alive ==
  /\ task <=> up = "up"
  /\ up # "up" => wake = None
  /\ up = "down" => \A r \in Threads : thread[r].stage = "idle"

\* How long after the clock was read a thread may still be in each stage.
Allowance(stage) == IF stage = "entering" THEN Lag
                    ELSE IF stage = "fetching" THEN Lag + FetchTime
                    ELSE Lag + FetchTime + Stall

OnTime(c) == c.stage # "idle" =>
  /\ c.at \in Time /\ bootedAt <= c.at /\ c.at <= clock /\ clock <= c.due
  /\ c.due <= c.at + Allowance(c.stage)
Timely == \A r \in Threads : OnTime(thread[r])

\* What an attempt knows of the attempt recorded last.
Counted ==
  \A r \in Threads :
    /\ thread[r].stage = "fetching" /\ lastAttempt # None => thread[r].at - lastAttempt >= Cooldown
    /\ thread[r].stage = "writing" => lastAttempt # None /\ lastAttempt >= thread[r].at

\* The file is older than this process or not newer than its last attempt.
Known ==
  cache \in Time =>
    /\ cache <= clock
    /\ up # "down" => cache <= bootedAt \/ (lastAttempt # None /\ cache <= lastAttempt)

Inv == TypeOK /\ bootedAt <= clock /\ Alive /\ OneFetchAtATime /\ Timely
       /\ Counted /\ AttemptsAreApart /\ Known

LEMMA IdleTyped == Idle \in CallRecord
BY DEF Idle, CallRecord

LEMMA InitInv == Init => Inv
<1> SUFFICES ASSUME Init PROVE Inv
  OBVIOUS
<1>1. thread \in [Threads -> CallRecord] /\ \A r \in Threads : thread[r].stage = "idle"
  BY IdleTyped DEF Init, Idle
<1>2. TypeOK
  <2>1. clock \in Time /\ boots \in 0 .. MaxBoots /\ bootedAt \in Time
    BY Bounds DEF Init
  <2>2. cache \in Time \cup {None, Broken}
    BY Bounds DEF Init
  <2>3. up \in {"up", "stopping", "down"} /\ wake \in Nat \cup {None}
        /\ {lastAttempt, lastSuccess, autoSuccess} \subseteq Time \cup {None}
    BY DEF Init
  <2>4. refreshing \in BOOLEAN /\ lastError \in BOOLEAN /\ task \in BOOLEAN
    BY DEF Init
  <2> QED BY <1>1, <2>1, <2>2, <2>3, <2>4 DEF TypeOK, CallRecord
<1>3. At("fetching") = {} /\ At("writing") = {}
  BY <1>1 DEF At
<1>4. Alive /\ OneFetchAtATime /\ AttemptsAreApart
  BY <1>1, <1>3 DEF Init, Alive, OneFetchAtATime, AttemptsAreApart
<1>5. Timely /\ Counted /\ Known
  BY <1>1, Bounds DEF Init, Timely, OnTime, Counted, Known
<1> QED BY <1>2, <1>4, <1>5, Bounds DEF Init, Inv

(***************************************************************************)
(* A step changes the call of one thread at most.                          *)
(***************************************************************************)
LEMMA ThreadUpdated ==
  ASSUME TypeOK, NEW r \in Threads, NEW c \in CallRecord, thread' = [thread EXCEPT ![r] = c]
  PROVE  /\ thread' \in [Threads -> CallRecord] /\ thread'[r] = c
         /\ \A q \in Threads \ {r} : thread'[q] = thread[q]
BY DEF TypeOK, CallRecord

LEMMA StageUpdated ==
  ASSUME TypeOK, NEW r \in Threads, NEW c \in CallRecord, thread' = [thread EXCEPT ![r] = c], NEW s
  PROVE  At(s)' = IF c.stage = s THEN At(s) \cup {r} ELSE At(s) \ {r}
<1>1. \A q \in Threads : thread'[q].stage = IF q = r THEN c.stage ELSE thread[q].stage
  BY ThreadUpdated
<1> QED BY <1>1 DEF At

\* The end of a call, whatever it reports to the scheduler.
LEMMA EndUpdates ==
  ASSUME TypeOK, Alive, up # "down", NEW r \in Threads, NEW outcome,
         thread[r].at \in Time, End(r, outcome)
  PROVE  /\ thread' = [thread EXCEPT ![r] = Idle] /\ task' = task
         /\ wake' \in Nat \cup {None} /\ autoSuccess' \in Time \cup {None}
         /\ up # "up" => wake' = wake
<1>1. clock + Interval \in Nat
  BY Bounds DEF TypeOK
<1> QED BY <1>1 DEF End, Noted, TypeOK, Alive

\* A call that ends, or moves on without touching the flag: entering or writing.
LEMMA LeaveInv ==
  ASSUME Inv, NEW r \in Threads, thread[r].stage \in {"entering", "writing"}, NEW outcome,
         End(r, outcome), lastError' \in BOOLEAN,
         UNCHANGED <<clock, process, refreshing, lastAttempt, lastSuccess>>,
         cache' = cache \/ (thread[r].stage = "writing" /\ cache' = thread[r].at)
  PROVE  Inv'
<1>1. up # "down" /\ thread[r].at \in Time /\ TypeOK /\ Alive
  BY DEF Inv, Alive, Timely, OnTime
<1>2. /\ thread' = [thread EXCEPT ![r] = Idle] /\ task' = task
      /\ wake' \in Nat \cup {None} /\ autoSuccess' \in Time \cup {None}
      /\ up # "up" => wake' = wake
  BY <1>1, EndUpdates
<1>3. /\ thread' \in [Threads -> CallRecord] /\ thread'[r] = Idle
      /\ \A q \in Threads \ {r} : thread'[q] = thread[q]
  BY <1>1, <1>2, IdleTyped, ThreadUpdated
<1>4. At("fetching")' = At("fetching") /\ At("writing")' = At("writing") \ {r}
  <2>1. r \notin At("fetching") /\ Idle.stage = "idle"
    BY DEF At, Idle
  <2>2. \A s : At(s)' = IF "idle" = s THEN At(s) \cup {r} ELSE At(s) \ {r}
    BY <1>1, <1>2, <2>1, IdleTyped, StageUpdated
  <2> QED BY <2>1, <2>2
<1>5. TypeOK'
  BY <1>1, <1>2, <1>3 DEF Inv, TypeOK, CallRecord, process
<1>6. Alive' /\ OneFetchAtATime'
  BY <1>1, <1>2, <1>4 DEF Inv, Alive, OneFetchAtATime, process
<1>7. Timely'
  <2> SUFFICES ASSUME NEW q \in Threads PROVE OnTime(thread[q])'
    BY DEF Timely
  <2>1. CASE q = r
    BY <2>1, <1>3 DEF OnTime, Idle
  <2>2. CASE q # r
    <3>1. OnTime(thread[q]) /\ thread'[q] = thread[q]
      BY <2>2, <1>3 DEF Inv, Timely
    <3> QED BY <3>1 DEF OnTime, process
  <2> QED BY <2>1, <2>2
<1>8. Counted'
  BY <1>3 DEF Inv, Counted, Idle
<1>9. AttemptsAreApart'
  <2>1. \A q \in At("fetching") \cup At("writing") : q \in Threads
    BY DEF At
  <2>2. \A q \in (At("fetching") \cup At("writing"))' :
          q \in At("fetching") \cup At("writing") /\ thread'[q] = thread[q]
    <3>1. r \notin (At("fetching") \cup At("writing"))'
      BY <1>3 DEF At, Idle
    <3> QED BY <2>1, <1>3, <1>4, <3>1
  <2> QED BY <2>2 DEF Inv, AttemptsAreApart
<1>10. Known'
  <2>1. CASE cache' = cache
    BY <2>1 DEF Inv, Known, process
  <2>2. CASE thread[r].stage = "writing" /\ cache' = thread[r].at
    <3>1. thread[r].at <= clock /\ lastAttempt # None /\ thread[r].at <= lastAttempt
      BY <2>2 DEF Inv, Timely, OnTime, Counted
    <3> QED BY <2>2, <3>1 DEF Known, process
  <2> QED BY <2>1, <2>2
<1> QED BY <1>5, <1>6, <1>7, <1>8, <1>9, <1>10 DEF Inv, process

\* A thread that starts a call: a manual refresh, or the scheduler's attempt.
LEMMA StartInv ==
  ASSUME Inv, up # "down", NEW r \in Threads, thread[r].stage = "idle",
         thread' = [thread EXCEPT ![r] = [stage |-> "entering", at |-> clock, due |-> clock + Lag]],
         wake' \in {wake, None},
         UNCHANGED <<clock, process, controller, cache, task, autoSuccess>>
  PROVE  Inv'
<1> DEFINE c == [stage |-> "entering", at |-> clock, due |-> clock + Lag]
<1>1. c \in CallRecord /\ c.stage = "entering" /\ c.at = clock /\ c.due = clock + Lag
  BY Bounds DEF Inv, TypeOK, CallRecord
<1> HIDE DEF c
<1>2. TypeOK /\ thread' = [thread EXCEPT ![r] = c]
  BY DEF Inv, c
<1>3. /\ thread' \in [Threads -> CallRecord] /\ thread'[r] = c
      /\ \A q \in Threads \ {r} : thread'[q] = thread[q]
  BY <1>1, <1>2, ThreadUpdated
<1>4. At("fetching")' = At("fetching") /\ At("writing")' = At("writing")
  <2>1. r \notin At("fetching") /\ r \notin At("writing")
    BY DEF At
  <2>2. c \in CallRecord /\ c.stage = "entering"
    BY <1>1
  <2>3. \A s : At(s)' = IF c.stage = s THEN At(s) \cup {r} ELSE At(s) \ {r}
    BY <1>2, <2>2, StageUpdated
  <2> QED BY <2>1, <2>2, <2>3
<1>5. TypeOK'
  BY <1>2, <1>3 DEF TypeOK, CallRecord, process, controller
<1>6. Alive' /\ OneFetchAtATime'
  BY <1>4 DEF Inv, Alive, OneFetchAtATime, process, controller
<1>7. Timely'
  <2> SUFFICES ASSUME NEW q \in Threads PROVE OnTime(thread[q])'
    BY DEF Timely
  <2>1. CASE q = r
    <3>1. clock \in Time /\ bootedAt <= clock
      BY DEF Inv, TypeOK
    <3> QED BY <2>1, <3>1, <1>1, <1>3, Bounds DEF OnTime, Allowance, process
  <2>2. CASE q # r
    <3>1. OnTime(thread[q]) /\ thread'[q] = thread[q]
      BY <2>2, <1>3 DEF Inv, Timely
    <3> QED BY <3>1 DEF OnTime, process
  <2> QED BY <2>1, <2>2
<1>8. Counted'
  BY <1>1, <1>3 DEF Inv, Counted, controller
<1>9. AttemptsAreApart'
  <2>1. \A q \in At("fetching") \cup At("writing") : thread'[q] = thread[q]
    BY <1>3 DEF At
  <2> QED BY <1>4, <2>1 DEF Inv, AttemptsAreApart
<1>10. Known'
  BY DEF Inv, Known, process, controller
<1> QED BY <1>5, <1>6, <1>7, <1>8, <1>9, <1>10 DEF Inv, process

LEMMA EnterInv ==
  ASSUME Inv, NEW r \in Threads, Enter(r)
  PROVE  Inv'
<1> DEFINE c == [stage |-> "fetching", at |-> thread[r].at, due |-> clock + FetchTime]
<1>1. /\ thread[r].stage = "entering" /\ OnTime(thread[r]) /\ TypeOK /\ thread[r] \in CallRecord
      /\ ~refreshing /\ up # "down"
      /\ lastAttempt # None => thread[r].at - lastAttempt >= Cooldown
  <2>1. thread[r].stage = "entering" /\ OnTime(thread[r]) /\ TypeOK /\ thread[r] \in CallRecord
    BY DEF Inv, Enter, At, Timely, TypeOK, CallRecord
  <2>2. lastAttempt # None => thread[r].at - lastAttempt >= Cooldown
    BY <2>1, Bounds DEF Enter, Rejected, Cooling, OnTime, TypeOK
  <2> QED BY <2>1, <2>2 DEF Inv, Enter, Rejected, Alive
<1>2. /\ c \in CallRecord /\ c.stage = "fetching" /\ c.at = thread[r].at /\ c.due = clock + FetchTime
      /\ thread' = [thread EXCEPT ![r] = c]
  BY <1>1, Bounds DEF Enter, Go, TypeOK, CallRecord
<1> HIDE DEF c
<1>3. /\ thread' \in [Threads -> CallRecord] /\ thread'[r] = c
      /\ \A q \in Threads \ {r} : thread'[q] = thread[q]
  BY <1>1, <1>2, ThreadUpdated
<1>4. At("fetching") = {} /\ At("fetching")' = {r} /\ At("writing")' = At("writing")
      /\ r \notin At("writing")
  <2>1. At("fetching") = {} /\ r \notin At("writing")
    BY <1>1 DEF Inv, OneFetchAtATime, At
  <2>2. \A s : At(s)' = IF "fetching" = s THEN At(s) \cup {r} ELSE At(s) \ {r}
    BY <1>1, <1>2, StageUpdated
  <2> QED BY <2>1, <2>2
<1>5. TypeOK'
  BY <1>1, <1>3 DEF Enter, TypeOK, CallRecord, process, scheduler
<1>6. Alive' /\ OneFetchAtATime'
  <2>1. Alive'
    BY <1>1 DEF Inv, Enter, Alive, process, scheduler
  <2>2. OneFetchAtATime'
    BY <1>4 DEF Enter, OneFetchAtATime
  <2> QED BY <2>1, <2>2
<1>7. Timely'
  <2> SUFFICES ASSUME NEW q \in Threads PROVE OnTime(thread[q])'
    BY DEF Timely
  <2>1. CASE q = r
    <3>1. /\ thread[r].at \in Time /\ bootedAt <= thread[r].at /\ thread[r].at <= clock
          /\ clock <= thread[r].at + Lag
      BY <1>1, Bounds DEF OnTime, Allowance, TypeOK, CallRecord
    <3> QED BY <2>1, <3>1, <1>1, <1>2, <1>3, Bounds DEF Enter, OnTime, Allowance, process, TypeOK
  <2>2. CASE q # r
    <3>1. OnTime(thread[q]) /\ thread'[q] = thread[q]
      BY <2>2, <1>3 DEF Inv, Timely
    <3> QED BY <3>1 DEF Enter, OnTime, process
  <2> QED BY <2>1, <2>2
<1>8. Counted'
  BY <1>1, <1>2, <1>3 DEF Inv, Enter, Counted
<1>9. AttemptsAreApart'
  <2>1. \A q \in At("writing") :
          /\ thread'[q] = thread[q] /\ thread[q].at \in Time
          /\ thread[r].at - thread[q].at >= Cooldown
    <3> SUFFICES ASSUME NEW q \in At("writing")
        PROVE /\ thread'[q] = thread[q] /\ thread[q].at \in Time
              /\ thread[r].at - thread[q].at >= Cooldown
      OBVIOUS
    <3>1. q \in Threads /\ q # r /\ thread[q].stage = "writing"
      BY <1>4 DEF At
    <3>2. lastAttempt # None /\ lastAttempt >= thread[q].at /\ thread[q].at \in Time
      BY <3>1 DEF Inv, Counted, Timely, OnTime
    <3>3. lastAttempt \in Time /\ thread[r].at \in Time
      BY <3>2, <1>1 DEF TypeOK, OnTime
    <3> QED BY <3>1, <3>2, <3>3, <1>1, <1>3, Bounds
  <2>2. (At("fetching") \cup At("writing"))' = {r} \cup At("writing")
    BY <1>4
  <2>3. ASSUME NEW p \in At("writing"), NEW q \in At("writing"), p # q
        PROVE  \/ thread'[p].at - thread'[q].at >= Cooldown
               \/ thread'[q].at - thread'[p].at >= Cooldown
    BY <2>1, <2>3 DEF Inv, AttemptsAreApart
  <2>4. thread'[r].at = thread[r].at
    BY <1>2, <1>3
  <2> QED BY <2>1, <2>2, <2>3, <2>4 DEF AttemptsAreApart
<1>10. Known'
  BY DEF Inv, Enter, Known, process
<1> QED BY <1>5, <1>6, <1>7, <1>8, <1>9, <1>10 DEF Inv, Enter, process

\* A fetch that ended: the flag is down, and the thread writes or is through.
LEMMA SettleInv ==
  ASSUME Inv, NEW r \in Threads, NEW error \in BOOLEAN, Settle(r, error), NEW c \in CallRecord,
         thread' = [thread EXCEPT ![r] = c],
         \/ c.stage = "idle"
         \/ c.stage = "writing" /\ c.at = thread[r].at /\ c.due = clock + Stall,
         lastSuccess' \in {lastSuccess, thread[r].at}, task' = task,
         wake' \in Nat \cup {None}, autoSuccess' \in Time \cup {None}, up # "up" => wake' = wake
  PROVE  Inv'
<1>1. /\ thread[r].stage = "fetching" /\ OnTime(thread[r]) /\ TypeOK /\ thread[r].at \in Time
      /\ up # "down"
  <2>1. thread[r].stage = "fetching" /\ OnTime(thread[r]) /\ TypeOK
    BY DEF Inv, Settle, At, Timely
  <2> QED BY <2>1 DEF Inv, Alive, OnTime
<1>2. /\ thread' \in [Threads -> CallRecord] /\ thread'[r] = c
      /\ \A q \in Threads \ {r} : thread'[q] = thread[q]
  BY <1>1, ThreadUpdated
<1>3. lastAttempt # None => lastAttempt \in Time /\ thread[r].at - lastAttempt >= Cooldown
  BY <1>1 DEF Inv, Counted, TypeOK
<1>4. At("fetching") = {r} /\ At("fetching")' = {}
      /\ At("writing")' \subseteq At("writing") \cup {r}
  <2>1. At("fetching") = {r} /\ r \notin At("writing")
    BY <1>1 DEF Inv, OneFetchAtATime, At
  <2>2. \A s : At(s)' = IF c.stage = s THEN At(s) \cup {r} ELSE At(s) \ {r}
    BY <1>1, StageUpdated
  <2> QED BY <2>1, <2>2
<1>5. TypeOK'
  <2>1. {lastAttempt', lastSuccess', autoSuccess'} \subseteq Time \cup {None}
    BY <1>1 DEF Settle, TypeOK
  <2>2. refreshing' \in BOOLEAN /\ lastError' \in BOOLEAN /\ task' \in BOOLEAN
    BY <1>1 DEF Settle, TypeOK
  <2> QED BY <1>1, <1>2, <2>1, <2>2 DEF Settle, TypeOK, CallRecord, process
<1>6. Alive' /\ OneFetchAtATime'
  BY <1>1, <1>4 DEF Inv, Settle, Alive, OneFetchAtATime, process
<1>7. Timely'
  <2> SUFFICES ASSUME NEW q \in Threads PROVE OnTime(thread[q])'
    BY DEF Timely
  <2>1. CASE q = r /\ c.stage = "writing"
    <3>1. /\ bootedAt <= thread[r].at /\ thread[r].at <= clock /\ clock \in Time
          /\ clock <= thread[r].at + Lag + FetchTime
      BY <1>1, Bounds DEF OnTime, Allowance, TypeOK, CallRecord
    <3>2. c.at = thread[r].at /\ c.due = clock + Stall /\ c.due \in Nat
      BY <2>1 DEF CallRecord
    <3> QED BY <2>1, <3>1, <3>2, <1>1, <1>2, Bounds DEF Settle, OnTime, Allowance, process, TypeOK
  <2>2. CASE q = r /\ c.stage = "idle"
    BY <2>2, <1>2 DEF OnTime
  <2>3. CASE q # r
    <3>1. OnTime(thread[q]) /\ thread'[q] = thread[q]
      BY <2>3, <1>2 DEF Inv, Timely
    <3> QED BY <3>1 DEF Settle, OnTime, process
  <2> QED BY <2>1, <2>2, <2>3
<1>8. Counted'
  <2> SUFFICES ASSUME NEW q \in Threads
      PROVE /\ thread'[q].stage # "fetching"
            /\ thread'[q].stage = "writing" => lastAttempt' # None /\ lastAttempt' >= thread'[q].at
    BY DEF Counted
  <2>1. q \notin At("fetching")'
    BY <1>4
  <2>2. CASE q = r
    BY <2>1, <2>2, <1>1, <1>2 DEF Settle, At
  <2>3. CASE q # r /\ thread[q].stage = "writing"
    <3>1. lastAttempt # None /\ lastAttempt >= thread[q].at /\ thread[q].at \in Time
      BY <2>3 DEF Inv, Counted, Timely, OnTime
    <3> QED BY <2>3, <3>1, <1>1, <1>2, <1>3, Bounds DEF Settle
  <2>4. CASE q # r /\ thread[q].stage # "writing"
    BY <2>1, <2>4, <1>2 DEF At
  <2> QED BY <2>1, <2>2, <2>3, <2>4 DEF At
<1>9. AttemptsAreApart'
  <2>1. \A q \in (At("fetching") \cup At("writing"))' :
          q \in At("fetching") \cup At("writing") /\ thread'[q].at = thread[q].at
    <3>1. r \in At("writing")' => thread'[r].at = thread[r].at
      BY <1>2 DEF At
    <3>2. \A q \in At("writing") : q # r => thread'[q] = thread[q]
      BY <1>2 DEF At
    <3> QED BY <1>4, <3>1, <3>2
  <2> QED BY <2>1 DEF Inv, AttemptsAreApart
<1>10. Known'
  BY <1>1, <1>3, Bounds DEF Inv, Settle, Known, process, TypeOK, OnTime
<1> QED BY <1>5, <1>6, <1>7, <1>8, <1>9, <1>10 DEF Inv, Settle, process

\* The process: it starts, stops, ends, dies; time passes.
LEMMA ProcessInv ==
  ASSUME Inv, Boot \/ Stop \/ Exit \/ Crash \/ Tick
  PROVE  Inv'
<1>1. CASE Boot
  <2>1. /\ thread' \in [Threads -> CallRecord] /\ \A r \in Threads : thread'[r].stage = "idle"
    BY <1>1, IdleTyped DEF Boot, Idle
  <2>2. wake' \in Nat
    BY <1>1, Bounds DEF Inv, Boot, InitialWait, TypeOK
  <2>3. TypeOK'
    <3>1. clock' \in Time /\ up' \in {"up", "stopping", "down"} /\ boots' \in 0 .. MaxBoots
          /\ bootedAt' \in Time /\ cache' \in Time \cup {None, Broken}
      BY <1>1, Bounds DEF Inv, Boot, TypeOK
    <3>2. {lastAttempt', lastSuccess', autoSuccess'} \subseteq Time \cup {None}
      BY <1>1 DEF Boot
    <3>3. refreshing' \in BOOLEAN /\ lastError' \in BOOLEAN /\ task' \in BOOLEAN
      BY <1>1 DEF Boot
    <3> QED BY <2>1, <2>2, <3>1, <3>2, <3>3 DEF TypeOK, CallRecord
  <2>4. At("fetching")' = {} /\ At("writing")' = {}
    BY <2>1 DEF At
  <2>5. Alive' /\ OneFetchAtATime' /\ AttemptsAreApart'
    BY <1>1, <2>1, <2>4 DEF Boot, Alive, OneFetchAtATime, AttemptsAreApart
  <2>6. Timely' /\ Counted' /\ Known' /\ (bootedAt <= clock)'
    BY <1>1, <2>1 DEF Inv, TypeOK, Boot, Timely, OnTime, Counted, Known
  <2> QED BY <2>3, <2>5, <2>6 DEF Inv
<1>2. ASSUME \/ Stop \/ Crash, thread' = [r \in Threads |-> IF thread'[r] = Idle THEN Idle ELSE thread[r]],
             \A r \in Threads : thread[r].stage = "fetching" /\ Stop => thread'[r] = thread[r]
      PROVE  Inv'
  <2>1. /\ thread' \in [Threads -> CallRecord]
        /\ \A r \in Threads : thread'[r].stage # "idle" => thread'[r] = thread[r]
    BY <1>2, IdleTyped DEF Inv, TypeOK, CallRecord, Idle
  <2>2. TypeOK'
    BY <1>2, <2>1 DEF Inv, TypeOK, Stop, Crash, CallRecord, controller
  <2>3. At("writing")' \subseteq At("writing") /\ At("fetching")' \subseteq At("fetching")
        /\ (Stop => At("fetching")' = At("fetching"))
    BY <1>2, <2>1 DEF At
  <2>4. Alive'
    BY <1>2 DEF Inv, Alive, Stop, Crash, Idle
  <2>5. OneFetchAtATime'
    BY <1>2, <2>3 DEF Inv, OneFetchAtATime, Stop, Crash, controller
  <2>6. Timely'
    BY <1>2, <2>1 DEF Inv, Timely, OnTime, Stop, Crash
  <2>7. Counted' /\ Known'
    BY <1>2, <2>1 DEF Inv, Counted, Known, Stop, Crash, controller
  <2>8. AttemptsAreApart'
    <3>1. \A q \in (At("fetching") \cup At("writing"))' :
            q \in At("fetching") \cup At("writing") /\ thread'[q] = thread[q]
      BY <2>1, <2>3 DEF At
    <3> QED BY <3>1 DEF Inv, AttemptsAreApart
  <2> QED BY <1>2, <2>2, <2>4, <2>5, <2>6, <2>7, <2>8 DEF Inv, Stop, Crash
<1>3. CASE Stop
  <2>1. thread \in [Threads -> CallRecord]
    BY DEF Inv, TypeOK, CallRecord
  <2>2. /\ thread' = [r \in Threads |-> IF thread'[r] = Idle THEN Idle ELSE thread[r]]
        /\ \A r \in Threads : thread[r].stage = "fetching" => thread'[r] = thread[r]
    BY <1>3, <2>1 DEF Stop, At
  <2> QED BY <1>2, <1>3, <2>2
<1>4. CASE Crash
  <2>1. thread' = [r \in Threads |-> IF thread'[r] = Idle THEN Idle ELSE thread[r]]
    BY <1>4 DEF Crash
  <2>2. ~Stop
    BY <1>4 DEF Stop, Crash
  <2> QED BY <1>2, <1>4, <2>1, <2>2
<1>5. CASE Exit
  <2>1. \A r \in Threads : thread[r].stage = "idle"
    BY <1>5 DEF Exit, At
  <2>2. At("fetching")' = At("fetching") /\ At("writing")' = At("writing")
    BY <1>5 DEF Exit, At
  <2>3. TypeOK' /\ Timely' /\ Counted'
    BY <1>5 DEF Exit, Inv, TypeOK, Timely, OnTime, Counted, controller, scheduler
  <2>5. OneFetchAtATime' /\ AttemptsAreApart'
    BY <1>5, <2>2 DEF Exit, Inv, OneFetchAtATime, AttemptsAreApart
  <2>4. Alive' /\ Known'
    BY <1>5, <2>1 DEF Exit, Inv, Alive, Known, controller, scheduler
  <2> QED BY <1>5, <2>3, <2>4, <2>5 DEF Inv, Exit
<1>6. CASE Tick
  <2>1. clock \in Time /\ clock' = clock + 1 /\ clock' \in Time
    BY <1>6, Bounds DEF Inv, TypeOK, Tick
  <2>2. At("fetching")' = At("fetching") /\ At("writing")' = At("writing")
    BY <1>6 DEF Tick, At
  <2>3. TypeOK' /\ Alive' /\ OneFetchAtATime' /\ AttemptsAreApart' /\ Counted'
    BY <1>6, <2>1, <2>2 DEF Tick, Inv, TypeOK, Alive, OneFetchAtATime, AttemptsAreApart, Counted,
                            process, controller, scheduler
  <2>4. Timely'
    <3> SUFFICES ASSUME NEW r \in Threads PROVE OnTime(thread[r])'
      BY DEF Timely
    <3>1. OnTime(thread[r]) /\ (thread[r].stage = "idle" \/ clock < thread[r].due)
          /\ thread[r].due \in Nat
      BY <1>6 DEF Inv, Timely, Tick, At, TypeOK
    <3> QED BY <1>6, <2>1, <3>1 DEF Tick, OnTime, process
  <2>5. Known' /\ (bootedAt <= clock)'
    BY <1>6, <2>1 DEF Tick, Inv, TypeOK, Known, process, controller
  <2> QED BY <2>3, <2>4, <2>5 DEF Inv
<1> QED BY <1>1, <1>3, <1>4, <1>5, <1>6

LEMMA FetchInv ==
  ASSUME Inv, NEW r \in Threads, FetchSucceeds(r) \/ FetchFails(r) \/ FetchRaises(r)
  PROVE  Inv'
<1>1. /\ r \in At("fetching") /\ thread[r].stage = "fetching" /\ thread[r].at \in Time
      /\ TypeOK /\ Alive /\ up # "down"
  <2>1. r \in At("fetching") /\ thread[r].stage = "fetching" /\ TypeOK /\ Alive
    BY DEF Inv, FetchSucceeds, FetchFails, FetchRaises, Settle, At
  <2> QED BY <2>1 DEF Inv, Alive, Timely, OnTime
<1>2. CASE FetchSucceeds(r)
  <2> DEFINE c == [stage |-> "writing", at |-> thread[r].at, due |-> clock + Stall]
  <2>1. clock + Stall \in Nat
    BY <1>1, Bounds DEF TypeOK
  <2>2. c \in CallRecord /\ c.stage = "writing" /\ c.at = thread[r].at /\ c.due = clock + Stall
    BY <1>1, <2>1 DEF CallRecord
  <2>3. thread' = [thread EXCEPT ![r] = c]
    BY <1>1, <1>2 DEF FetchSucceeds, Go, TypeOK
  <2> HIDE DEF c
  <2>4. Settle(r, FALSE) /\ lastSuccess' = thread[r].at /\ UNCHANGED scheduler
    BY <1>2 DEF FetchSucceeds
  <2>5. wake' \in Nat \cup {None} /\ autoSuccess' \in Time \cup {None} /\ task' = task /\ wake' = wake
    BY <1>1, <2>4 DEF TypeOK, scheduler
  <2> QED BY <2>2, <2>3, <2>4, <2>5, SettleInv
<1>3. ASSUME NEW outcome, Settle(r, TRUE), End(r, outcome), lastSuccess' = lastSuccess
      PROVE  Inv'
  <2>1. /\ thread' = [thread EXCEPT ![r] = Idle] /\ task' = task
        /\ wake' \in Nat \cup {None} /\ autoSuccess' \in Time \cup {None}
        /\ up # "up" => wake' = wake
    BY <1>1, <1>3, EndUpdates
  <2>2. Idle \in CallRecord /\ Idle.stage = "idle"
    BY IdleTyped DEF Idle
  <2> QED BY <1>3, <2>1, <2>2, SettleInv
<1>4. CASE FetchFails(r)
  BY <1>3, <1>4 DEF FetchFails
<1>5. CASE FetchRaises(r)
  BY <1>3, <1>5 DEF FetchRaises
<1> QED BY <1>2, <1>4, <1>5

LEMMA ReturnInv ==
  ASSUME Inv, NEW r \in Threads, TurnAway(r) \/ Store(r) \/ RejectRecord(r) \/ WriteRaises(r)
  PROVE  Inv'
<1>1. CASE TurnAway(r)
  <2>1. lastError' \in BOOLEAN
    BY <1>1 DEF Inv, TypeOK, TurnAway, controller
  <2> QED BY <1>1, <2>1, LeaveInv DEF TurnAway, At, controller
<1>2. CASE Store(r)
  <2>1. lastError' \in BOOLEAN
    BY <1>2 DEF Inv, TypeOK, Store, controller
  <2> QED BY <1>2, <2>1, LeaveInv DEF Store, At, controller
<1>3. CASE RejectRecord(r)
  <2>1. lastError' \in BOOLEAN
    BY <1>3 DEF RejectRecord
  <2> QED BY <1>3, <2>1, LeaveInv DEF RejectRecord, At
<1>4. CASE WriteRaises(r)
  <2>1. lastError' \in BOOLEAN
    BY <1>4 DEF Inv, TypeOK, WriteRaises, controller
  <2> QED BY <1>4, <2>1, LeaveInv DEF WriteRaises, At, controller
<1> QED BY <1>1, <1>2, <1>3, <1>4

LEMMA NextInv == Inv /\ [Next]_vars => Inv'
<1> SUFFICES ASSUME Inv, [Next]_vars PROVE Inv'
  OBVIOUS
<1>1. ASSUME NEW r \in Clients, Request(r) PROVE Inv'
  <2>1. up # "down" /\ r \in Threads /\ thread[r].stage = "idle"
    BY <1>1 DEF Request, At
  <2>2. /\ thread' = [thread EXCEPT ![r] = [stage |-> "entering", at |-> clock, due |-> clock + Lag]]
        /\ wake' \in {wake, None} /\ UNCHANGED <<clock, process, controller, cache, task, autoSuccess>>
    BY <1>1 DEF Request, scheduler
  <2> QED BY <2>1, <2>2, StartInv
<1>2. CASE Attempt
  <2>0. task /\ Poller \in At("idle")
    BY <1>2 DEF Attempt
  <2>1. up # "down" /\ Poller \in Threads /\ thread[Poller].stage = "idle"
    <3>1. up = "up"
      BY <2>0 DEF Inv, Alive
    <3>2. Poller \in Threads /\ thread[Poller].stage = "idle"
      BY <2>0 DEF At
    <3> QED BY <3>1, <3>2
  <2>2. /\ thread' = [thread EXCEPT ![Poller] = [stage |-> "entering", at |-> clock, due |-> clock + Lag]]
        /\ wake' \in {wake, None} /\ UNCHANGED <<clock, process, controller, cache, task, autoSuccess>>
    <3>1. wake' = None
      BY <1>2 DEF Attempt
    <3> QED BY <1>2, <3>1 DEF Attempt
  <2> QED BY <2>1, <2>2, StartInv
<1>3. ASSUME NEW r \in Threads, Call(r) PROVE Inv'
  BY <1>3, EnterInv, FetchInv, ReturnInv DEF Call
<1>4. CASE UNCHANGED vars
  <2>1. At("fetching")' = At("fetching") /\ At("writing")' = At("writing")
    BY <1>4 DEF vars, At
  <2>2. TypeOK' /\ Alive' /\ Timely' /\ Counted' /\ Known'
    BY <1>4 DEF vars, process, controller, scheduler, Inv, TypeOK, Alive, Timely, OnTime, Counted, Known
  <2>3. OneFetchAtATime' /\ AttemptsAreApart'
    BY <1>4, <2>1 DEF vars, process, controller, Inv, OneFetchAtATime, AttemptsAreApart
  <2> QED BY <1>4, <2>2, <2>3 DEF Inv, vars, process
<1> QED BY <1>1, <1>2, <1>3, <1>4, ProcessInv DEF Next

\* The inductive invariant holds in every reachable state.
THEOREM InvHolds == Spec => []Inv
<1> QED BY InitInv, NextInv, PTL DEF Spec

(***************************************************************************)
(* Type correctness, and the two invariants about attempts: one fetch at a *)
(* time, and a cooldown between any two attempts that overlap.             *)
(***************************************************************************)
THEOREM TypeCorrect == Spec => []TypeOK
<1>1. Inv => TypeOK
  BY DEF Inv
<1> QED BY <1>1, InvHolds, PTL

\* At most one codex app-server runs, and the flag is up exactly meanwhile.
THEOREM FetchesAreSerial == Spec => []OneFetchAtATime
<1>1. Inv => OneFetchAtATime
  BY DEF Inv
<1> QED BY <1>1, InvHolds, PTL

\* Overlapping attempts were asked for a cooldown apart, whoever made them.
THEOREM CooldownBindsEveryone == Spec => []AttemptsAreApart
<1>1. Inv => AttemptsAreApart
  BY DEF Inv
<1> QED BY <1>1, InvHolds, PTL

(***************************************************************************)
(* The attempts pass the gate: the flag and the cooldown together are a    *)
(* RefreshGate.  All steps but Enter, the ends of a fetch and the ends of  *)
(* the process are stutters of the gate.                                   *)
(***************************************************************************)
LEMMA RunningIs ==
  ASSUME NEW r, Fetching = {r}, up # "down"
  PROVE  Running = thread[r].at
BY DEF Running

LEMMA RunningIsNext ==
  ASSUME NEW r, Fetching' = {r}, up' # "down"
  PROVE  Running' = thread'[r].at
BY DEF Running

\* What a step does to the threads that fetch or write.
LEMMA OneUpdated ==
  ASSUME TypeOK, NEW r \in Threads, thread[r].stage # "fetching", NEW c \in CallRecord,
         c.stage # "fetching", thread' = [thread EXCEPT ![r] = c]
  PROVE  /\ At("fetching")' = At("fetching")
         /\ c.stage # "writing" => At("writing")' \subseteq At("writing")
         /\ \A q \in At("fetching") : thread'[q] = thread[q]
         /\ \A q \in At("writing") \ {r} : thread'[q] = thread[q]
<1>1. thread' \in [Threads -> CallRecord] /\ thread'[r] = c /\ \A q \in Threads \ {r} : thread'[q] = thread[q]
  BY ThreadUpdated
<1> QED BY <1>1 DEF At

\* The steps that neither let an attempt in nor count one.
Passive(r) == TurnAway(r) \/ Store(r) \/ RejectRecord(r) \/ WriteRaises(r)

LEMMA PassiveStep ==
  ASSUME Inv, NEW r \in Threads, Passive(r)
  PROVE  /\ At("fetching")' = At("fetching") /\ At("writing")' \subseteq At("writing")
         /\ \A q \in At("fetching") : thread'[q] = thread[q]
         /\ \A q \in At("writing")' : thread'[q] = thread[q]
         /\ UNCHANGED <<process, refreshing, lastAttempt>>
<1>1. /\ thread[r].stage # "fetching" /\ thread' = [thread EXCEPT ![r] = Idle]
      /\ UNCHANGED <<process, refreshing, lastAttempt>>
  BY DEF Passive, TurnAway, Store, RejectRecord, WriteRaises, End, At, controller
<1>2. TypeOK /\ Idle \in CallRecord /\ Idle.stage = "idle"
  BY IdleTyped DEF Inv, Idle
<1>3. r \notin At("writing")'
  BY <1>1, <1>2, ThreadUpdated DEF At
<1> QED BY <1>1, <1>2, <1>3, OneUpdated

LEMMA StartStep ==
  ASSUME Inv, Attempt \/ \E r \in Clients : Request(r)
  PROVE  /\ At("fetching")' = At("fetching") /\ At("writing")' = At("writing")
         /\ \A q \in At("fetching") \cup At("writing") : thread'[q] = thread[q]
         /\ UNCHANGED <<process, refreshing, lastAttempt>>
<1> DEFINE Starts(r) ==
      /\ thread[r].stage = "idle" /\ UNCHANGED <<process, refreshing, lastAttempt>>
      /\ thread' = [thread EXCEPT ![r] = [stage |-> "entering", at |-> clock, due |-> clock + Lag]]
<1>1. PICK r \in Threads : Starts(r)
  <2>1. CASE Attempt
    <3>1. Starts(Poller)
      BY <2>1 DEF Attempt, At, controller
    <3> QED BY <3>1
  <2>2. CASE \E r \in Clients : Request(r)
    <3>1. PICK r \in Clients : Request(r)
      BY <2>2
    <3>2. Starts(r)
      BY <3>1 DEF Request, At, controller
    <3> QED BY <3>2
  <2> QED BY <2>1, <2>2
<1>2. thread \in [Threads -> CallRecord]
  BY DEF Inv, TypeOK, CallRecord
<1>3. /\ thread'[r].stage = "entering"
      /\ \A q \in Threads \ {r} : thread'[q] = thread[q]
  BY <1>1, <1>2
<1> QED BY <1>1, <1>3 DEF At

LEMMA GateInit == Init => Gate!Init
BY DEF Init, Gate!Init, Running, Last

LEMMA GateStep == Inv /\ [Next]_vars => [Gate!Next]_<<Running, Last>>
<1> SUFFICES ASSUME Inv, [Next]_vars PROVE [Gate!Next]_<<Running, Last>>
  OBVIOUS
<1>0. ASSUME At("fetching")' = At("fetching"), \A q \in At("fetching") : thread'[q] = thread[q],
             up # "down", up' # "down", lastAttempt' = lastAttempt
      PROVE  UNCHANGED <<Running, Last>>
  <2>1. Fetching' = Fetching /\ Last' = Last
    BY <1>0 DEF Fetching, Last
  <2>2. CASE Fetching = {}
    BY <2>1, <2>2 DEF Running
  <2>3. CASE Fetching # {}
    <3> DEFINE r == CHOOSE r \in Fetching : TRUE
    <3>1. r \in Fetching /\ r' = r
      BY <2>1, <2>3
    <3>2. Running = thread[r].at /\ Running' = thread'[r].at
      BY <1>0, <2>1, <2>3, <3>1 DEF Running
    <3>3. thread'[r] = thread[r]
      BY <1>0, <3>1 DEF Fetching
    <3> QED BY <2>1, <3>2, <3>3
  <2> QED BY <2>1, <2>2, <2>3
<1>1. CASE Attempt \/ \E r \in Clients : Request(r)
  <2>1. up # "down"
    <3>1. CASE Attempt
      <4>1. task
        BY <3>1 DEF Attempt
      <4> QED BY <4>1 DEF Inv, Alive
    <3> QED BY <1>1, <3>1 DEF Request
  <2> QED BY <1>0, <1>1, <2>1, StartStep DEF process
<1>2. ASSUME NEW r \in Threads, Passive(r) PROVE UNCHANGED <<Running, Last>>
  <2>1. thread[r].stage # "idle"
    BY <1>2 DEF Passive, TurnAway, Store, RejectRecord, WriteRaises, At
  <2>2. up # "down"
    BY <2>1 DEF Inv, Alive
  <2> QED BY <1>0, <1>2, <2>2, PassiveStep DEF process
<1>3. ASSUME NEW r \in Threads, Enter(r) PROVE Gate!Begin
  <2>1. /\ thread[r].stage = "entering" /\ ~refreshing /\ thread \in [Threads -> CallRecord]
        /\ UNCHANGED <<process, lastAttempt>>
        /\ thread' = [thread EXCEPT ![r] = [stage |-> "fetching", at |-> thread[r].at, due |-> clock + FetchTime]]
    BY <1>3 DEF Inv, TypeOK, CallRecord, Enter, Rejected, Go, At
  <2>2. up # "down" /\ thread[r].at \in Time
    BY <2>1 DEF Inv, Alive, Timely, OnTime
  <2>3. Fetching = {}
    BY <2>1, <2>2 DEF Inv, OneFetchAtATime, Fetching
  <2>4. /\ thread'[r].stage = "fetching" /\ thread'[r].at = thread[r].at
        /\ \A q \in Threads \ {r} : thread'[q] = thread[q]
    BY <2>1
  <2>5. Fetching' = {r}
    BY <2>3, <2>4 DEF Fetching, At
  <2>6. up' # "down"
    BY <2>1, <2>2 DEF process
  <2>7. Running' = thread[r].at
    BY <2>4, <2>5, <2>6, RunningIsNext
  <2>8. Running = None /\ Last = lastAttempt /\ Last' = lastAttempt
    BY <2>1, <2>2, <2>3, <2>6 DEF Running, Last
  <2>9. lastAttempt # None => thread[r].at - lastAttempt >= Cooldown
    <3>1. lastAttempt # None => lastAttempt \in Int
      BY DEF Inv, TypeOK
    <3> QED BY <1>3, <2>2, <3>1, Bounds DEF Enter, Rejected, Cooling
  <2>10. thread[r].at # None
    BY <2>2
  <2> QED BY <2>7, <2>8, <2>9, <2>10 DEF Gate!Begin
<1>4. ASSUME NEW r \in Threads, FetchSucceeds(r) \/ FetchFails(r) \/ FetchRaises(r) PROVE Gate!End
  <2>1. /\ thread[r].stage = "fetching" /\ lastAttempt' = thread[r].at /\ refreshing' = FALSE
        /\ UNCHANGED process
    BY <1>4 DEF FetchSucceeds, FetchFails, FetchRaises, Settle, At
  <2>2. up # "down" /\ thread[r].at \in Time
    BY <2>1 DEF Inv, Alive, Timely, OnTime
  <2>3. Fetching = {r}
    BY <2>1, <2>2 DEF Inv, OneFetchAtATime, Fetching, At
  <2>4. up' # "down"
    BY <2>1, <2>2 DEF process
  <2>5. OneFetchAtATime'
    BY NextInv DEF Inv
  <2>6. Fetching' = {}
    BY <2>1, <2>4, <2>5 DEF OneFetchAtATime, Fetching
  <2>7. Running = thread[r].at
    BY <2>2, <2>3, RunningIs
  <2>8. Running' = None /\ Last' = thread[r].at
    BY <2>1, <2>4, <2>6 DEF Running, Last
  <2> QED BY <2>2, <2>7, <2>8 DEF Gate!End
<1>5. CASE Boot
  <2>1. \A r \in Threads : thread'[r].stage = "idle"
    BY <1>5 DEF Boot, Idle
  <2>2. Fetching' = {}
    BY <2>1 DEF Fetching, At
  <2>3. Running' = None /\ Last' = None
    BY <1>5, <2>2 DEF Boot, Running, Last
  <2> QED BY <2>3 DEF Gate!Next, Gate!Forget
<1>6. CASE Exit \/ Crash
  <2>1. Running' = None /\ Last' = None
    BY <1>6 DEF Exit, Crash, Running, Last
  <2> QED BY <2>1 DEF Gate!Next, Gate!Forget
<1>7. CASE Stop
  <2>1. thread \in [Threads -> CallRecord]
    BY DEF Inv, TypeOK, CallRecord
  <2>2. \A q \in Threads : (thread'[q] = thread[q] \/ (thread[q].stage = "entering" /\ thread'[q].stage = "idle"))
    BY <1>7, <2>1 DEF Stop, At, Idle
  <2>3. At("fetching")' = At("fetching") /\ \A q \in At("fetching") : thread'[q] = thread[q]
    BY <2>2 DEF At
  <2>4. up # "down" /\ up' # "down" /\ lastAttempt' = lastAttempt
    BY <1>7 DEF Stop, controller
  <2> QED BY <1>0, <2>3, <2>4
<1>8. CASE Tick \/ UNCHANGED vars
  <2>1. UNCHANGED <<up, lastAttempt, thread>>
    BY <1>8 DEF Tick, vars, process, controller
  <2>2. Fetching' = Fetching
    BY <2>1 DEF Fetching, At
  <2> QED BY <2>1, <2>2 DEF Running, Last
<1>9. ASSUME NEW r \in Threads, Call(r) PROVE [Gate!Next]_<<Running, Last>>
  BY <1>9, <1>2, <1>3, <1>4 DEF Call, Passive, Gate!Next
<1> QED BY <1>1, <1>5, <1>6, <1>7, <1>8, <1>9 DEF Next

\* The controller implements the gate.
THEOREM ControllerIsAGate == Spec => AttemptsPassTheGate
<1> QED BY GateInit, GateStep, InvHolds, PTL DEF Spec, AttemptsPassTheGate, Gate!Spec

(***************************************************************************)
(* An attempt that outlasts the cooldown may be overtaken while it writes.  *)
(* How far the file can then go back follows from how far the attempts      *)
(* under way are from every observation made so far.                        *)
(***************************************************************************)
UnderWay == At("fetching") \cup At("writing")

\* An observation made so far, and the attempts under way: newer, or a cooldown older.
Apart(v) ==
  v \in Time =>
    /\ v <= clock
    /\ up # "down" => v <= bootedAt \/ (lastAttempt # None /\ v <= lastAttempt)
    /\ \A r \in UnderWay : v <= thread[r].at \/ v - thread[r].at >= Cooldown

Spaced == Apart(cache) /\ Apart(autoSuccess) /\ Apart(lastSuccess)

LEMMA InitSpaced == Init => Spaced
<1> SUFFICES ASSUME Init PROVE Spaced
  OBVIOUS
<1>1. UnderWay = {} /\ up = "down" /\ autoSuccess = None /\ lastSuccess = None
      /\ clock = 0 /\ cache \in {None, Broken, 0}
  BY DEF Init, UnderWay, At, Idle
<1>2. None \notin Time /\ Broken \notin Time
  BY Bounds
<1> QED BY <1>1, <1>2 DEF Spaced, Apart

\* Every step leaves the attempts under way apart from what was seen before it.
LEMMA ApartStays ==
  ASSUME Inv, [Next]_vars, NEW v \in Time, Apart(v)
  PROVE  Apart(v)'
<1>0. /\ v \in Int /\ clock \in Int /\ bootedAt \in Int /\ bootedAt <= clock /\ v <= clock
      /\ lastAttempt # None => lastAttempt \in Int
      /\ \A r \in UnderWay : v <= thread[r].at \/ v - thread[r].at >= Cooldown
      /\ up # "down" => v <= bootedAt \/ (lastAttempt # None /\ v <= lastAttempt)
      /\ thread \in [Threads -> CallRecord]
  BY Bounds DEF Inv, TypeOK, Apart, CallRecord
<1>1. ASSUME UnderWay' \subseteq UnderWay, \A q \in UnderWay' : thread'[q].at = thread[q].at,
             clock' >= clock, clock' \in Int, lastAttempt' = lastAttempt, bootedAt' = bootedAt,
             up' # "down" => up # "down"
      PROVE  Apart(v)'
  BY <1>0, <1>1 DEF Apart
<1>2. ASSUME NEW r \in Threads, Passive(r) PROVE Apart(v)'
  <2>1. UnderWay' \subseteq UnderWay /\ \A q \in UnderWay' : thread'[q].at = thread[q].at
    BY <1>2, PassiveStep DEF UnderWay
  <2>2. UNCHANGED <<process, lastAttempt, clock>>
    BY <1>2, PassiveStep DEF Passive, TurnAway, Store, RejectRecord, WriteRaises
  <2> QED BY <1>0, <1>1, <2>1, <2>2 DEF process
<1>3. CASE Attempt \/ \E r \in Clients : Request(r)
  <2>1. UnderWay' \subseteq UnderWay /\ \A q \in UnderWay' : thread'[q].at = thread[q].at
    BY <1>3, StartStep DEF UnderWay
  <2>2. UNCHANGED <<process, lastAttempt, clock>>
    BY <1>3, StartStep DEF Attempt, Request
  <2> QED BY <1>0, <1>1, <2>1, <2>2 DEF process
<1>4. ASSUME NEW r \in Threads, Enter(r) PROVE Apart(v)'
  <2>1. /\ thread[r].stage = "entering" /\ UNCHANGED <<clock, up, bootedAt, lastAttempt>>
        /\ thread' = [thread EXCEPT ![r] = [stage |-> "fetching", at |-> thread[r].at, due |-> clock + FetchTime]]
    BY <1>4, <1>0 DEF Enter, Go, At, process
  <2>2. /\ up # "down" /\ thread[r].at \in Int /\ bootedAt <= thread[r].at
        /\ lastAttempt # None => thread[r].at - lastAttempt >= Cooldown
    <3>1. up # "down" /\ thread[r].at \in Int /\ bootedAt <= thread[r].at
      BY <2>1, Bounds DEF Inv, Alive, Timely, OnTime
    <3> QED BY <1>0, <1>4, <3>1, Bounds DEF Enter, Rejected, Cooling
  <2>3. v <= thread[r].at
    BY <1>0, <2>2, Bounds
  <2>4. UnderWay' \subseteq UnderWay \cup {r} /\ \A q \in UnderWay' : thread'[q].at = thread[q].at
    BY <1>0, <2>1 DEF UnderWay, At
  <2> QED BY <1>0, <2>1, <2>3, <2>4 DEF Apart
<1>5. ASSUME NEW r \in Threads, FetchSucceeds(r) \/ FetchFails(r) \/ FetchRaises(r) PROVE Apart(v)'
  <2>1. /\ thread[r].stage = "fetching" /\ lastAttempt' = thread[r].at
        /\ UNCHANGED <<clock, up, bootedAt>>
    BY <1>5 DEF FetchSucceeds, FetchFails, FetchRaises, Settle, At, process
  <2>2. /\ up # "down" /\ thread[r].at \in Int /\ thread[r].at # None
        /\ lastAttempt # None => thread[r].at - lastAttempt >= Cooldown
    BY <2>1, Bounds DEF Inv, Alive, Timely, OnTime, Counted
  <2>3. UnderWay' \subseteq UnderWay /\ \A q \in UnderWay' : thread'[q].at = thread[q].at
    <3>1. CASE FetchSucceeds(r)
      <4>1. thread' = [thread EXCEPT ![r] = [stage |-> "writing", at |-> thread[r].at, due |-> clock + Stall]]
        BY <1>0, <3>1 DEF FetchSucceeds, Go
      <4> QED BY <1>0, <2>1, <4>1 DEF UnderWay, At
    <3>2. CASE FetchFails(r) \/ FetchRaises(r)
      <4>1. thread' = [thread EXCEPT ![r] = Idle]
        BY <3>2 DEF FetchFails, FetchRaises, End
      <4> QED BY <1>0, <2>1, <4>1 DEF UnderWay, At, Idle
    <3> QED BY <1>5, <3>1, <3>2
  <2>4. v <= bootedAt' \/ (lastAttempt' # None /\ v <= lastAttempt')
    BY <1>0, <2>1, <2>2, Bounds
  <2> QED BY <1>0, <2>1, <2>3, <2>4 DEF Apart
<1>6. CASE Boot
  <2>1. UnderWay' = {} /\ bootedAt' = clock /\ clock' = clock
    BY <1>6 DEF Boot, UnderWay, At, Idle
  <2> QED BY <1>0, <2>1 DEF Apart
<1>7. CASE Crash
  <2>1. UnderWay' = {} /\ up' = "down" /\ clock' = clock
    BY <1>7 DEF Crash, UnderWay, At, Idle
  <2> QED BY <1>0, <2>1 DEF Apart
<1>8. CASE Stop
  <2>1. \A q \in Threads : thread'[q] = thread[q] \/ thread'[q].stage = "idle"
    BY <1>0, <1>8 DEF Stop, At, Idle
  <2>2. UnderWay' \subseteq UnderWay /\ \A q \in UnderWay' : thread'[q].at = thread[q].at
    BY <2>1 DEF UnderWay, At
  <2>3. up # "down" /\ UNCHANGED <<clock, bootedAt, lastAttempt>>
    BY <1>8 DEF Stop, controller
  <2> QED BY <1>0, <1>1, <2>2, <2>3
<1>9. CASE Exit \/ Tick \/ UNCHANGED vars
  <2>1. /\ UNCHANGED <<bootedAt, lastAttempt, thread>> /\ clock' >= clock /\ clock' \in Int
        /\ up' # "down" => up # "down"
    BY <1>0, <1>9 DEF Exit, Tick, vars, process, controller
  <2> QED BY <1>1, <2>1 DEF UnderWay, At
<1>10. ASSUME NEW r \in Threads, Call(r) PROVE Apart(v)'
  BY <1>10, <1>2, <1>4, <1>5 DEF Call, Passive
<1> QED BY <1>3, <1>6, <1>7, <1>8, <1>9, <1>10 DEF Next

\* What a thread writes is apart from every other attempt under way.
LEMMA WriterApart == Inv => \A r \in At("writing") : Apart(thread[r].at)
<1> SUFFICES ASSUME Inv, NEW r \in At("writing") PROVE Apart(thread[r].at)
  OBVIOUS
<1>1. r \in Threads /\ thread[r].stage = "writing"
  BY DEF At
<1>2. /\ thread[r].at <= clock /\ lastAttempt # None /\ thread[r].at <= lastAttempt
      /\ thread[r].at \in Int /\ lastAttempt \in Int
  BY <1>1, Bounds DEF Inv, Timely, OnTime, Counted, TypeOK
<1>3. \A q \in UnderWay : thread[r].at <= thread[q].at \/ thread[r].at - thread[q].at >= Cooldown
  <2> SUFFICES ASSUME NEW q \in UnderWay
      PROVE thread[r].at <= thread[q].at \/ thread[r].at - thread[q].at >= Cooldown
    OBVIOUS
  <2>1. thread[q].at \in Int
    BY Bounds DEF UnderWay, At, Inv, Timely, OnTime
  <2>2. q = r \/ thread[q].at - thread[r].at >= Cooldown \/ thread[r].at - thread[q].at >= Cooldown
    BY DEF UnderWay, Inv, AttemptsAreApart
  <2> QED BY <1>2, <2>1, <2>2, Bounds
<1> QED BY <1>2, <1>3 DEF Apart

LEMMA WriterApartNext == Inv' => (\A r \in At("writing") : Apart(thread[r].at))'
BY WriterApart, PTL

LEMMA CacheStep ==
  ASSUME Inv, [Next]_vars
  PROVE  cache' = cache \/ \E r \in At("writing") : cache' = thread[r].at
<1>1. CASE \E r \in Threads : Store(r)
  BY <1>1 DEF Store
<1>2. CASE ~ \E r \in Threads : Store(r)
  BY <1>2 DEF Next, Call, Request, TurnAway, Enter, FetchSucceeds, FetchFails, FetchRaises, Settle,
              RejectRecord, WriteRaises, Attempt, Boot, Stop, Exit, Crash, Tick, vars
<1> QED BY <1>1, <1>2

LEMMA SuccessIsWritten ==
  ASSUME Inv, NEW r \in Threads, FetchSucceeds(r)
  PROVE  r \in At("writing")' /\ thread'[r].at = lastSuccess'
<1>1. /\ thread' = [thread EXCEPT ![r] = [stage |-> "writing", at |-> thread[r].at, due |-> clock + Stall]]
      /\ lastSuccess' = thread[r].at /\ thread \in [Threads -> CallRecord]
  BY DEF FetchSucceeds, Go, Inv, TypeOK, CallRecord
<1> QED BY <1>1 DEF At

LEMMA SuccessStep ==
  ASSUME Inv, [Next]_vars
  PROVE  lastSuccess' \in {lastSuccess, None} \/ \E r \in Threads : FetchSucceeds(r)
BY DEF Next, Call, Request, TurnAway, Enter, FetchFails, FetchRaises, Settle, Store, RejectRecord,
       WriteRaises, Attempt, Boot, Stop, Exit, Crash, Tick, vars, controller

LEMMA AutoSuccessStep ==
  ASSUME Inv, [Next]_vars
  PROVE  autoSuccess' \in {autoSuccess, None} \/ (cache' = autoSuccess' /\ cache' \in Time)
<1>1. ASSUME NEW r \in Threads, NEW outcome, outcome # "success", End(r, outcome)
      PROVE  autoSuccess' = autoSuccess
  BY <1>1 DEF End, Noted
<1>2. ASSUME NEW r \in Threads, Store(r)
      PROVE  autoSuccess' = autoSuccess \/ (cache' = autoSuccess' /\ cache' \in Time)
  <2>1. cache' = thread[r].at /\ thread[r].stage = "writing" /\ End(r, "success")
    BY <1>2 DEF Store, At
  <2>2. thread[r].at \in Time
    BY <2>1 DEF Inv, Timely, OnTime
  <2> QED BY <2>1, <2>2 DEF End, Noted
<1>3. ASSUME NEW r \in Threads, Call(r), ~Store(r) PROVE autoSuccess' = autoSuccess
  BY <1>1, <1>3 DEF Call, TurnAway, Enter, FetchSucceeds, FetchFails, FetchRaises, RejectRecord,
                    WriteRaises, scheduler
<1>4. CASE Attempt \/ Boot \/ Stop \/ Exit \/ Crash \/ Tick \/ UNCHANGED vars
           \/ \E r \in Clients : Request(r)
  BY <1>4 DEF Attempt, Boot, Stop, Exit, Crash, Tick, Request, vars, scheduler
<1> QED BY <1>2, <1>3, <1>4 DEF Next

LEMMA NextSpaced ==
  ASSUME Inv, Spaced, [Next]_vars
  PROVE  Spaced'
<1>1. ASSUME NEW r \in At("writing"), cache' = thread[r].at PROVE Apart(cache)'
  <2>1. thread[r].at \in Time /\ Apart(thread[r].at)
    BY WriterApart DEF At, Inv, Timely, OnTime
  <2>2. PICK v \in Time : v = thread[r].at
    BY <2>1
  <2>3. Apart(v)'
    BY <2>1, <2>2, ApartStays
  <2> QED BY <1>1, <2>2, <2>3 DEF Apart
<1>2. ASSUME cache' = cache PROVE Apart(cache)'
  <2>1. CASE cache \in Time
    <3>1. PICK v \in Time : v = cache
      BY <2>1
    <3>2. Apart(v)'
      BY <3>1, ApartStays DEF Spaced
    <3> QED BY <1>2, <3>1, <3>2 DEF Apart
  <2> QED BY <1>2, <2>1 DEF Apart
<1>3. Apart(cache)'
  BY <1>1, <1>2, CacheStep
<1>4. Apart(autoSuccess)'
  <2>1. CASE autoSuccess' = autoSuccess /\ autoSuccess \in Time
    <3>1. PICK v \in Time : v = autoSuccess
      BY <2>1
    <3>2. Apart(v)'
      BY <3>1, ApartStays DEF Spaced
    <3> QED BY <2>1, <3>1, <3>2 DEF Apart
  <2>2. CASE cache' = autoSuccess'
    BY <1>3, <2>2 DEF Apart
  <2>3. CASE autoSuccess' \notin Time
    BY <2>3 DEF Apart
  <2>4. None \notin Time
    BY Bounds
  <2> QED BY <2>1, <2>2, <2>3, <2>4, AutoSuccessStep
<1>5. Apart(lastSuccess)'
  <2>1. CASE lastSuccess' = lastSuccess /\ lastSuccess \in Time
    <3>1. PICK v \in Time : v = lastSuccess
      BY <2>1
    <3>2. Apart(v)'
      BY <3>1, ApartStays DEF Spaced
    <3> QED BY <2>1, <3>1, <3>2 DEF Apart
  <2>2. ASSUME NEW r \in Threads, FetchSucceeds(r) PROVE Apart(lastSuccess)'
    <3>1. r \in At("writing")' /\ thread'[r].at = lastSuccess'
      BY <2>2, SuccessIsWritten
    <3>2. (\A q \in At("writing") : Apart(thread[q].at))'
      BY NextInv, WriterApartNext
    <3> QED BY <3>1, <3>2 DEF Apart
  <2>3. CASE lastSuccess' \notin Time
    BY <2>3 DEF Apart
  <2>4. lastSuccess' \in {lastSuccess, None} \/ \E r \in Threads : FetchSucceeds(r)
    BY SuccessStep
  <2> QED BY <2>1, <2>2, <2>3, <2>4, Bounds
<1> QED BY <1>3, <1>4, <1>5 DEF Spaced

LEMMA SpacedHolds == Spec => [](Inv /\ Spaced)
<1>1. Init => Inv /\ Spaced
  BY InitInv, InitSpaced
<1>2. Inv /\ Spaced /\ [Next]_vars => (Inv /\ Spaced)'
  BY NextInv, NextSpaced
<1> QED BY <1>1, <1>2, PTL DEF Spec

\* An attempt under way is overtaken by Duration at most.
LEMMA OvertakenInTime ==
  ASSUME Inv, NEW v \in Time, Apart(v), NEW r \in UnderWay
  PROVE  thread[r].at \in Time /\ (thread[r].at >= v \/ Overtook(v, thread[r].at))
<1>1. /\ thread[r].at \in Time /\ clock <= thread[r].due /\ thread[r].due \in Int /\ clock \in Int
      /\ thread[r].due <= thread[r].at + Lag + FetchTime + Stall
  <2>1. r \in Threads /\ thread[r].stage \in {"fetching", "writing"}
    BY DEF UnderWay, At
  <2>2. OnTime(thread[r]) /\ thread[r].due \in Nat /\ clock \in Time
    BY <2>1 DEF Inv, Timely, TypeOK
  <2> QED BY <2>1, <2>2, Bounds DEF OnTime, Allowance
<1>2. v <= clock /\ (v <= thread[r].at \/ v - thread[r].at >= Cooldown)
  BY DEF Apart
<1> QED BY <1>1, <1>2, Bounds DEF Overtook, Duration

\* The file goes back only to what was overtaken.
THEOREM CacheMovesForward == Spec => CacheGoesBackOnlyWhenOvertaken
<1>1. ASSUME Inv, Spaced, [Next]_vars, cache \in Time, cache' # cache
      PROVE  cache' \in Time /\ (cache' >= cache \/ Overtook(cache, cache'))
  <2>1. PICK r \in At("writing") : cache' = thread[r].at
    BY <1>1, CacheStep
  <2>2. PICK v \in Time : v = cache
    BY <1>1
  <2>3. Apart(v) /\ r \in UnderWay
    BY <1>1, <2>2 DEF Spaced, UnderWay
  <2> QED BY <1>1, <2>1, <2>2, <2>3, OvertakenInTime
<1>2. Inv /\ Spaced /\ [Next]_vars =>
        [(cache \in Time /\ cache' # cache) =>
           (cache' \in Time /\ (cache' >= cache \/ Overtook(cache, cache')))]_vars
  BY <1>1
<1> QED BY <1>2, SpacedHolds, PTL DEF Spec, CacheGoesBackOnlyWhenOvertaken

(***************************************************************************)
(* What is reported as a success is in the file, or it overtook what is.    *)
(***************************************************************************)
\* A success reported before a step is still in the file, or overtook what is.
LEMMA HoldsStays ==
  ASSUME Inv, Spaced, [Next]_vars, NEW v \in Time, Apart(v), Holds(v)
  PROVE  Holds(v)'
<1>1. CASE cache' = cache
  BY <1>1 DEF Holds
<1>2. ASSUME NEW r \in At("writing"), cache' = thread[r].at PROVE Holds(v)'
  <2>1. r \in UnderWay
    BY DEF UnderWay
  <2> QED BY <1>2, <2>1, OvertakenInTime DEF Holds
<1> QED BY <1>1, <1>2, CacheStep

\* What was just stored is there.
LEMMA HoldsOwn ==
  ASSUME cache' \in Time, NEW v, v = cache'
  PROVE  Holds(v)'
BY Bounds DEF Holds

\* last_auto_refresh_success_at is ahead of the file by an overtaken attempt at most.
THEOREM AutoSuccessIsReal == Spec => []AutoSuccessIsStored
<1>1. Init => AutoSuccessIsStored
  BY DEF Init, AutoSuccessIsStored
<1>2. ASSUME Inv, Spaced, AutoSuccessIsStored, [Next]_vars PROVE AutoSuccessIsStored'
  <2>1. CASE autoSuccess' = autoSuccess /\ autoSuccess # None
    <3>1. PICK v \in Time : v = autoSuccess
      BY <1>2, <2>1 DEF Inv, TypeOK
    <3>2. Apart(v) /\ Holds(v)
      BY <1>2, <2>1, <3>1 DEF Spaced, AutoSuccessIsStored
    <3>3. Holds(v)'
      BY <1>2, <3>2, HoldsStays
    <3> QED BY <2>1, <3>1, <3>3 DEF AutoSuccessIsStored, Holds
  <2>2. CASE cache' = autoSuccess' /\ cache' \in Time
    BY <2>2, Bounds DEF AutoSuccessIsStored, Holds
  <2>3. CASE autoSuccess' = None
    BY <2>3 DEF AutoSuccessIsStored
  <2> QED BY <1>2, <2>1, <2>2, <2>3, AutoSuccessStep
<1> QED BY <1>1, <1>2, SpacedHolds, PTL DEF Spec

LEMMA SuccessKept ==
  ASSUME "unwritable" \notin WriteResults, Inv, Spaced, [Next]_vars, SuccessIsStored
  PROVE  SuccessIsStored'
<1>1. CASE Boot \/ Exit \/ Crash
  BY <1>1 DEF Boot, Exit, Crash, SuccessIsStored
<1>0. ASSUME lastSuccess' = lastSuccess, lastSuccess # None, Holds(lastSuccess) PROVE Holds(lastSuccess)'
  <2>1. PICK v \in Time : v = lastSuccess
    BY <1>0 DEF Inv, TypeOK
  <2>2. Holds(v)'
    BY <1>0, <2>1, HoldsStays DEF Spaced
  <2> QED BY <1>0, <2>1, <2>2 DEF Holds
<1>2. ASSUME up # "down", lastSuccess' = lastSuccess, lastError' = lastError,
             \A r \in At("writing") : r \in At("writing")' /\ thread'[r] = thread[r]
      PROVE  SuccessIsStored'
  BY <1>0, <1>2 DEF SuccessIsStored
<1>3. CASE Stop \/ Tick \/ UNCHANGED vars
  <2>1. UNCHANGED <<lastSuccess, lastError>> /\ up' \in {up, "stopping"} /\ (Stop => up = "up")
    BY <1>3 DEF Stop, Tick, vars, process, controller
  <2>2. thread \in [Threads -> CallRecord]
    BY DEF Inv, TypeOK, CallRecord
  <2>3. \A q \in Threads : thread'[q] = thread[q] \/ thread[q].stage = "entering"
    BY <1>3, <2>2 DEF Stop, Tick, vars, At
  <2>4. \A r \in At("writing") : r \in At("writing")' /\ thread'[r] = thread[r]
    BY <2>3 DEF At
  <2>5. CASE up = "down"
    BY <1>3, <2>5 DEF Stop, Tick, vars, process, SuccessIsStored
  <2>6. CASE up # "down"
    BY <1>2, <2>1, <2>4, <2>6
  <2> QED BY <2>5, <2>6
<1>4. CASE Attempt \/ \E r \in Clients : Request(r)
  <2>1. UNCHANGED <<lastSuccess, lastError>>
    BY <1>4 DEF Attempt, Request, controller
  <2>2. up # "down"
    <3>1. CASE Attempt
      <4>1. task
        BY <3>1 DEF Attempt
      <4> QED BY <4>1 DEF Inv, Alive
    <3> QED BY <1>4, <3>1 DEF Request
  <2> QED BY <1>2, <1>4, <2>1, <2>2, StartStep
<1>5. ASSUME NEW r \in Threads, TurnAway(r) \/ Enter(r) PROVE SuccessIsStored'
  <2>1. /\ thread[r].stage = "entering" /\ UNCHANGED <<lastSuccess, lastError>>
        /\ thread \in [Threads -> CallRecord]
    BY <1>5 DEF TurnAway, Enter, At, controller, Inv, TypeOK, CallRecord
  <2>2. \A q \in Threads \ {r} : thread'[q] = thread[q]
    BY <1>5, <2>1 DEF TurnAway, Enter, End, Go
  <2>3. up # "down"
    BY <2>1 DEF Inv, Alive
  <2>4. \A q \in At("writing") : q \in At("writing")' /\ thread'[q] = thread[q]
    BY <2>1, <2>2 DEF At
  <2> QED BY <1>2, <2>1, <2>3, <2>4
<1>6. ASSUME NEW r \in Threads, FetchSucceeds(r) PROVE SuccessIsStored'
  BY <1>6, SuccessIsWritten DEF SuccessIsStored
<1>7. ASSUME NEW r \in Threads, FetchFails(r) \/ FetchRaises(r) \/ RejectRecord(r)
      PROVE SuccessIsStored'
  <2>1. lastError' = TRUE
    BY <1>7 DEF FetchFails, FetchRaises, RejectRecord, Settle
  <2> QED BY <2>1 DEF SuccessIsStored
<1>8. ASSUME NEW r \in Threads, Store(r) PROVE SuccessIsStored'
  <2>1. /\ r \in At("writing") /\ thread[r].stage = "writing" /\ cache' = thread[r].at
        /\ thread' = [thread EXCEPT ![r] = Idle] /\ thread \in [Threads -> CallRecord]
        /\ UNCHANGED <<process, lastSuccess, lastError>>
    BY <1>8 DEF Store, At, End, controller, Inv, TypeOK, CallRecord
  <2>2. thread[r].at \in Time /\ up # "down"
    BY <2>1 DEF Inv, Timely, OnTime, Alive
  <2> SUFFICES ASSUME lastSuccess # None, ~lastError
      PROVE Holds(lastSuccess)' \/ \E q \in At("writing")' : thread'[q].at = lastSuccess
    BY <2>1 DEF SuccessIsStored
  <2>3. CASE Holds(lastSuccess)
    BY <1>0, <2>1, <2>3
  <2>4. ASSUME NEW q \in At("writing"), thread[q].at = lastSuccess, q = r PROVE Holds(lastSuccess)'
    BY <2>1, <2>2, <2>4, Bounds DEF Holds
  <2>5. ASSUME NEW q \in At("writing"), thread[q].at = lastSuccess, q # r
        PROVE \E p \in At("writing")' : thread'[p].at = lastSuccess
    BY <2>1, <2>5 DEF At
  <2> QED BY <2>2, <2>3, <2>4, <2>5 DEF SuccessIsStored
<1>9. ASSUME NEW r \in Threads, Call(r) PROVE SuccessIsStored'
  <2>1. ~WriteRaises(r)
    BY DEF WriteRaises
  <2> QED BY <1>5, <1>6, <1>7, <1>8, <1>9, <2>1 DEF Call
<1> QED BY <1>1, <1>3, <1>4, <1>9 DEF Next

\* As long as no write raises, a success that no error follows is in the file.
THEOREM SuccessIsReal ==
  ASSUME "unwritable" \notin WriteResults
  PROVE  Spec => []SuccessIsStored
<1>1. Init => SuccessIsStored
  BY DEF Init, SuccessIsStored
<1>2. Inv /\ Spaced /\ SuccessIsStored /\ [Next]_vars => SuccessIsStored'
  BY SuccessKept
<1> QED BY <1>1, <1>2, SpacedHolds, PTL DEF Spec

(***************************************************************************)
(* The scheduler's attempts keep coming.  At every instant the scheduler    *)
(* is due at, some attempt (or the start) is at most Interval + Lag + Reach *)
(* past: the one that ended its last turn, or the one that turn was skipped *)
(* for.                                                                     *)
(***************************************************************************)
Since(t, d) == \E m \in Marks : t - m <= d

Turns ==
  up = "up" =>
    /\ wake # None => /\ thread[Poller].stage = "idle"
                      /\ clock <= wake + Lag
                      /\ Since(wake, Interval + Lag + Reach)
    /\ wake = None => thread[Poller].stage # "idle"
    /\ thread[Poller].stage = "entering" => Since(thread[Poller].at, Interval + 2 * Lag + Reach)

LEMMA ReachBounds == Reach \in Nat /\ FetchTime + Stall <= Reach /\ Cooldown - 1 <= Reach
BY Bounds DEF Reach

LEMMA MarksTyped == Inv => Marks \subseteq Time
<1> SUFFICES ASSUME Inv PROVE Marks \subseteq Time
  OBVIOUS
<1>1. \A r \in Fetching : thread[r].at \in Time
  BY DEF Inv, Timely, OnTime, Fetching, At
<1>2. bootedAt \in Time /\ lastAttempt \in Time \cup {None}
  BY DEF Inv, TypeOK
<1> QED BY <1>1, <1>2 DEF Marks

LEMMA MarksTypedNext == Inv' => Marks' \subseteq Time
<1> SUFFICES ASSUME Inv' PROVE Marks' \subseteq Time
  OBVIOUS
<1>1. \A r \in Fetching' : thread'[r].at \in Time
  BY DEF Inv, Timely, OnTime, Fetching, At
<1>2. bootedAt' \in Time /\ lastAttempt' \in Time \cup {None}
  BY DEF Inv, TypeOK
<1> QED BY <1>1, <1>2 DEF Marks

\* A process that goes on serving never loses its latest mark.
LEMMA MarksAdvance ==
  ASSUME Inv, [Next]_vars, ~Boot, up' = "up", NEW m \in Marks
  PROVE  \E n \in Marks' : n >= m
<1>0. m \in Time /\ m # None /\ Marks' \subseteq Time
  BY NextInv, MarksTyped, MarksTypedNext
<1>2. bootedAt' = bootedAt
  BY DEF Next, Call, Request, TurnAway, Enter, FetchSucceeds, FetchFails, FetchRaises, Settle,
         Store, RejectRecord, WriteRaises, Attempt, Stop, Exit, Crash, Tick, vars, process
<1>3. ASSUME lastAttempt' = lastAttempt, \A q \in Fetching : q \in Fetching' /\ thread'[q] = thread[q]
      PROVE  \E n \in Marks' : n >= m
  <2>1. m \in Marks'
    BY <1>0, <1>2, <1>3 DEF Marks
  <2> QED BY <1>0, <2>1, Bounds
<1>4. CASE Attempt \/ \E r \in Clients : Request(r)
  BY <1>3, <1>4, StartStep DEF Fetching
<1>5. ASSUME NEW r \in Threads, Passive(r) PROVE \E n \in Marks' : n >= m
  BY <1>3, <1>5, PassiveStep DEF Fetching
<1>6. ASSUME NEW r \in Threads, Enter(r) PROVE \E n \in Marks' : n >= m
  <2>1. thread[r].stage = "entering" /\ ~refreshing /\ lastAttempt' = lastAttempt
    BY <1>6 DEF Enter, Rejected, At
  <2>2. Fetching = {}
    BY <2>1 DEF Inv, Alive, OneFetchAtATime, Fetching
  <2> QED BY <1>3, <2>1, <2>2
<1>7. ASSUME NEW r \in Threads, FetchSucceeds(r) \/ FetchFails(r) \/ FetchRaises(r)
      PROVE \E n \in Marks' : n >= m
  <2>1. thread[r].stage = "fetching" /\ lastAttempt' = thread[r].at
    BY <1>7 DEF FetchSucceeds, FetchFails, FetchRaises, Settle, At
  <2>2. Fetching = {r} /\ thread[r].at \in Time
    BY <2>1 DEF Inv, Alive, OneFetchAtATime, Fetching, At, Timely, OnTime
  <2>3. lastAttempt # None => lastAttempt \in Time /\ thread[r].at - lastAttempt >= Cooldown
    BY <2>1 DEF Inv, Counted, TypeOK
  <2>4. thread[r].at \in Marks' /\ bootedAt \in Marks'
    BY <1>2, <2>1, <2>2 DEF Marks, Inv, TypeOK
  <2>5. m = bootedAt \/ m = lastAttempt \/ m = thread[r].at
    BY <2>2 DEF Marks
  <2> QED BY <1>0, <2>2, <2>3, <2>4, <2>5, Bounds
<1>8. CASE Stop \/ Exit \/ Crash
  BY <1>8 DEF Stop, Exit, Crash
<1>9. CASE Tick \/ UNCHANGED vars
  <2>1. UNCHANGED <<lastAttempt, thread>>
    BY <1>9 DEF Tick, vars, process, controller
  <2> QED BY <1>3, <2>1 DEF Fetching, At
<1>10. ASSUME NEW r \in Threads, Call(r) PROVE \E n \in Marks' : n >= m
  BY <1>5, <1>6, <1>7, <1>10 DEF Call, Passive
<1> QED BY <1>4, <1>8, <1>9, <1>10 DEF Next

LEMMA SinceAdvances ==
  ASSUME Inv, [Next]_vars, ~Boot, up' = "up", NEW t \in Int, NEW u \in Int, NEW d \in Int, NEW e \in Int,
         Since(t, d), u - t <= e - d
  PROVE  \E m \in Marks' : u - m <= e
<1>1. PICK m \in Marks : t - m <= d
  BY DEF Since
<1>2. PICK n \in Marks' : n >= m
  BY <1>1, MarksAdvance
<1>3. m \in Int /\ n \in Int
  BY NextInv, MarksTyped, MarksTypedNext, Bounds
<1> QED BY <1>1, <1>2, <1>3

\* When the scheduler's turn ends, it or what it was skipped for is recent.
LEMMA TurnEnds ==
  ASSUME Inv, [Next]_vars, ~Boot, up' = "up", NEW outcome, End(Poller, outcome),
         TurnAway(Poller) \/ Store(Poller) \/ RejectRecord(Poller) \/ WriteRaises(Poller)
           \/ FetchFails(Poller) \/ FetchRaises(Poller)
  PROVE  \E m \in Marks' : clock - m <= Lag + Reach
<1>0. /\ OnTime(thread[Poller]) /\ Poller \in Threads /\ thread[Poller].due \in Nat /\ clock \in Time
      /\ lastAttempt \in Time \cup {None}
  BY DEF Inv, Timely, TypeOK
<1>1. CASE TurnAway(Poller)
  <2>1. /\ thread[Poller].at \in Int /\ clock <= thread[Poller].at + Lag
    BY <1>0, <1>1, Bounds DEF TurnAway, At, OnTime, Allowance
  <2>2. CASE refreshing
    <3>1. PICK q \in Fetching : TRUE
      BY <1>1, <2>2 DEF Inv, Alive, OneFetchAtATime, Fetching, TurnAway, At
    <3>2. /\ OnTime(thread[q]) /\ thread[q].stage = "fetching" /\ thread[q].due \in Nat
      BY <3>1 DEF Inv, Timely, TypeOK, Fetching, At
    <3>3. thread[q].at \in Int /\ clock <= thread[q].at + Lag + FetchTime
      BY <1>0, <3>2, Bounds DEF OnTime, Allowance
    <3>4. thread[q].at \in Marks
      BY <3>1, <3>2 DEF Marks, OnTime
    <3>5. PICK n \in Marks' : n >= thread[q].at
      BY <3>4, MarksAdvance
    <3>6. n \in Int
      BY NextInv, MarksTypedNext, Bounds
    <3> QED BY <1>0, <3>3, <3>5, <3>6, Bounds, ReachBounds
  <2>3. CASE Cooling(thread[Poller].at)
    <3>1. lastAttempt \in Int /\ lastAttempt # None /\ thread[Poller].at - lastAttempt < Cooldown
      BY <1>0, <2>3, Bounds DEF Cooling
    <3>2. lastAttempt \in Marks
      BY <3>1 DEF Marks
    <3>3. PICK n \in Marks' : n >= lastAttempt
      BY <3>2, MarksAdvance
    <3>4. n \in Int
      BY NextInv, MarksTypedNext, Bounds
    <3> QED BY <1>0, <2>1, <3>1, <3>3, <3>4, Bounds, ReachBounds
  <2> QED BY <1>1, <2>2, <2>3 DEF TurnAway, Rejected
<1>2. CASE Store(Poller) \/ RejectRecord(Poller) \/ WriteRaises(Poller)
  <2>1. thread[Poller].stage = "writing"
    BY <1>2 DEF Store, RejectRecord, WriteRaises, At
  <2>2. /\ thread[Poller].at \in Int /\ clock <= thread[Poller].at + Lag + FetchTime + Stall
        /\ lastAttempt # None /\ lastAttempt >= thread[Poller].at
    BY <1>0, <2>1, Bounds DEF OnTime, Allowance, Inv, Counted
  <2>3. lastAttempt \in Marks /\ lastAttempt \in Int
    BY <1>0, <2>2 DEF Marks
  <2>4. PICK n \in Marks' : n >= lastAttempt
    BY <2>3, MarksAdvance
  <2>5. n \in Int
    BY NextInv, MarksTypedNext, Bounds
  <2> QED BY <1>0, <2>2, <2>3, <2>4, <2>5, Bounds, ReachBounds
<1>3. CASE FetchFails(Poller) \/ FetchRaises(Poller)
  <2>1. thread[Poller].stage = "fetching"
    BY <1>3 DEF FetchFails, FetchRaises, Settle, At
  <2>2. /\ thread[Poller].at \in Int /\ clock <= thread[Poller].at + Lag + FetchTime
    BY <1>0, <2>1, Bounds DEF OnTime, Allowance
  <2>3. thread[Poller].at \in Marks
    BY <1>0, <2>1 DEF Marks, OnTime, Fetching, At
  <2>4. PICK n \in Marks' : n >= thread[Poller].at
    BY <2>3, MarksAdvance
  <2>5. n \in Int
    BY NextInv, MarksTypedNext, Bounds
  <2> QED BY <1>0, <2>2, <2>3, <2>4, <2>5, Bounds, ReachBounds
<1> QED BY <1>1, <1>2, <1>3

LEMMA TurnsNext ==
  ASSUME Inv, Turns, [Next]_vars
  PROVE  Turns'
<1> SUFFICES ASSUME up' = "up" PROVE Turns'
  BY DEF Turns
<1>0. /\ clock \in Time /\ wake \in Nat \cup {None} /\ Lag \in Nat /\ Interval \in Nat
      /\ Reach \in Nat /\ Initial \in Nat /\ Initial <= Interval /\ thread \in [Threads -> CallRecord]
      /\ Poller \in Threads
  BY Bounds, ReachBounds, TimeAssumption DEF Inv, TypeOK, CallRecord
<1>1. CASE Boot
  <2>1. /\ thread'[Poller].stage = "idle" /\ clock' = clock /\ bootedAt' = clock
        /\ wake' \in {clock + Interval, clock + Initial}
    BY <1>1 DEF Boot, Idle, InitialWait
  <2>2. bootedAt' \in Marks'
    BY <1>0, <2>1, Bounds DEF Marks
  <2>3. wake' # None /\ wake' - bootedAt' <= Interval + Lag + Reach /\ clock' <= wake' + Lag
    <3>1. clock + Interval # None /\ clock + Initial # None /\ clock \in Nat
      BY <1>0, Bounds
    <3>2. CASE wake' = clock + Interval
      BY <1>0, <2>1, <3>1, <3>2
    <3>3. CASE wake' = clock + Initial
      BY <1>0, <2>1, <3>1, <3>3
    <3> QED BY <2>1, <3>2, <3>3
  <2> QED BY <2>1, <2>2, <2>3 DEF Turns, Since
<1>2. ASSUME ~Boot, up = "up", wake' = wake, thread'[Poller] = thread[Poller],
             wake # None => clock' <= wake + Lag
      PROVE  Turns'
  <2>1. CASE wake # None
    <3>1. Since(wake, Interval + Lag + Reach) /\ thread[Poller].stage = "idle"
      BY <1>2, <2>1 DEF Turns
    <3>2. \E m \in Marks' : wake - m <= Interval + Lag + Reach
      BY <1>0, <1>2, <2>1, <3>1, SinceAdvances
    <3> QED BY <1>2, <2>1, <3>1, <3>2 DEF Turns, Since
  <2>2. CASE wake = None /\ thread[Poller].stage = "entering"
    <3>1. Since(thread[Poller].at, Interval + 2 * Lag + Reach) /\ thread[Poller].at \in Int
      BY <1>0, <1>2, <2>2, Bounds DEF Turns, Inv, Timely, OnTime
    <3>2. \E m \in Marks' : thread[Poller].at - m <= Interval + 2 * Lag + Reach
      BY <1>0, <1>2, <3>1, SinceAdvances
    <3> QED BY <1>2, <2>2, <3>2 DEF Turns, Since
  <2>3. CASE wake = None /\ thread[Poller].stage # "entering"
    BY <1>2, <2>3 DEF Turns
  <2> QED BY <2>1, <2>2, <2>3
<1>3. ASSUME NEW outcome, ~Boot, up = "up", End(Poller, outcome), clock' = clock,
             TurnAway(Poller) \/ Store(Poller) \/ RejectRecord(Poller) \/ WriteRaises(Poller)
               \/ FetchFails(Poller) \/ FetchRaises(Poller)
      PROVE  Turns'
  <2>1. task
    BY <1>3 DEF Inv, Alive
  <2>2. wake' = clock + Interval /\ thread'[Poller].stage = "idle"
    BY <1>0, <1>3, <2>1 DEF End, Idle
  <2>3. PICK m \in Marks' : clock - m <= Lag + Reach
    BY <1>3, TurnEnds
  <2>4. m \in Int
    BY NextInv, MarksTypedNext, Bounds
  <2>5. wake' - m <= Interval + Lag + Reach /\ wake' # None /\ clock' <= wake' + Lag
    BY <1>0, <1>3, <2>2, <2>3, <2>4
  <2> QED BY <2>2, <2>3, <2>5 DEF Turns, Since
<1>4. ASSUME ~Boot, up = "up", wake' = wake, clock' = clock, wake = None,
             thread'[Poller].stage \in {"fetching", "writing"}
      PROVE  Turns'
  BY <1>4 DEF Turns
<1>5. CASE Attempt
  <2>1. /\ wake # None /\ clock' = clock /\ wake' = None
        /\ thread'[Poller].stage = "entering" /\ thread'[Poller].at = clock
    BY <1>0, <1>5 DEF Attempt
  <2>2. up = "up" /\ ~Boot
    BY <1>5 DEF Attempt, Boot, process
  <2>3. Since(wake, Interval + Lag + Reach) /\ clock <= wake + Lag
    BY <2>1, <2>2 DEF Turns
  <2>4. \E m \in Marks' : clock - m <= Interval + 2 * Lag + Reach
    BY <1>0, <2>1, <2>2, <2>3, Bounds, SinceAdvances
  <2> QED BY <2>1, <2>4 DEF Turns, Since
<1>6. ASSUME NEW r \in Threads, Call(r) PROVE Turns'
  <2>1. up = "up" /\ ~Boot /\ clock' = clock
    BY <1>6 DEF Call, TurnAway, Enter, FetchSucceeds, FetchFails, FetchRaises, Settle, Store,
                RejectRecord, WriteRaises, process, Boot, Inv, Alive, At
  <2>2. wake # None => clock <= wake + Lag
    BY <2>1 DEF Turns
  <2>3. CASE r # Poller
    <3>1. wake' = wake /\ thread'[Poller] = thread[Poller]
      BY <1>0, <1>6, <2>3 DEF Call, TurnAway, Enter, Go, End, FetchSucceeds, FetchFails, FetchRaises,
                       Settle, Store, RejectRecord, WriteRaises, scheduler
    <3> QED BY <1>2, <2>1, <2>2, <3>1
  <2>4. CASE r = Poller
    <3>1. thread[Poller].stage # "idle"
      BY <1>6, <2>4 DEF Call, TurnAway, Enter, FetchSucceeds, FetchFails, FetchRaises, Settle, Store,
                RejectRecord, WriteRaises, At
    <3>2. wake = None
      BY <2>1, <3>1 DEF Turns
    <3>3. CASE Enter(Poller) \/ FetchSucceeds(Poller)
      <4>1. wake' = wake
        BY <3>3 DEF Enter, FetchSucceeds, scheduler
      <4>2. Go(Poller, "fetching", FetchTime) \/ Go(Poller, "writing", Stall)
        BY <3>3 DEF Enter, FetchSucceeds
      <4>3. thread'[Poller].stage \in {"fetching", "writing"}
        BY <1>0, <4>2 DEF Go
      <4> QED BY <1>4, <2>1, <3>2, <4>1, <4>3
    <3>4. CASE TurnAway(Poller)
      BY <1>3, <2>1, <3>4 DEF TurnAway
    <3>5. CASE Store(Poller)
      BY <1>3, <2>1, <3>5 DEF Store
    <3>6. CASE RejectRecord(Poller)
      BY <1>3, <2>1, <3>6 DEF RejectRecord
    <3>7. CASE WriteRaises(Poller)
      BY <1>3, <2>1, <3>7 DEF WriteRaises
    <3>8. CASE FetchFails(Poller)
      BY <1>3, <2>1, <3>8 DEF FetchFails
    <3>9. CASE FetchRaises(Poller)
      BY <1>3, <2>1, <3>9 DEF FetchRaises
    <3> QED BY <1>6, <2>4, <3>3, <3>4, <3>5, <3>6, <3>7, <3>8, <3>9 DEF Call
  <2> QED BY <2>3, <2>4
<1>7. ASSUME NEW r \in Clients, Request(r) PROVE Turns'
  <2>1. up = "up" /\ ~Boot /\ clock' = clock /\ wake' = wake /\ thread'[Poller] = thread[Poller]
    BY <1>0, <1>7 DEF Request, Boot, process, scheduler
  <2>2. wake # None => clock <= wake + Lag
    BY <2>1 DEF Turns
  <2> QED BY <1>2, <2>1, <2>2
<1>8. CASE Tick
  <2>1. up = "up" /\ ~Boot /\ wake' = wake /\ thread' = thread
    BY <1>8 DEF Tick, Boot, process, scheduler
  <2>2. wake # None => clock' <= wake + Lag
    BY <1>0, <1>8 DEF Tick
  <2> QED BY <1>2, <2>1, <2>2
<1>9. CASE UNCHANGED vars
  <2>1. up = "up" /\ wake' = wake /\ thread' = thread /\ clock' = clock /\ boots' = boots
    BY <1>9 DEF vars, process, scheduler
  <2>2. ~Boot
    BY <2>1 DEF Boot
  <2>3. wake # None => clock <= wake + Lag
    BY <2>1 DEF Turns
  <2> QED BY <1>2, <2>1, <2>2, <2>3
<1>10. CASE Stop \/ Exit \/ Crash
  BY <1>10 DEF Stop, Exit, Crash
<1> QED BY <1>1, <1>5, <1>6, <1>7, <1>8, <1>9, <1>10 DEF Next

LEMMA TurnsSuffice ==
  ASSUME Inv, Turns
  PROVE  AttemptsKeepComing
<1> SUFFICES ASSUME up = "up" PROVE \E m \in Marks : clock - m <= MaxGap
  BY DEF AttemptsKeepComing
<1>0. /\ clock \in Int /\ wake \in Nat \cup {None} /\ Lag \in Nat /\ Interval \in Nat
      /\ Reach \in Nat /\ FetchTime + Stall <= Reach /\ FetchTime \in Nat /\ Stall \in Nat
      /\ OnTime(thread[Poller]) /\ thread[Poller].due \in Nat
      /\ thread[Poller].stage \in {"idle", "entering", "fetching", "writing"}
      /\ \A m \in Marks : m \in Int
  BY Bounds, ReachBounds, MarksTyped DEF Inv, TypeOK, Timely
<1>1. CASE wake # None
  <2>1. PICK m \in Marks : wake - m <= Interval + Lag + Reach
    BY <1>1 DEF Turns, Since
  <2>2. clock <= wake + Lag
    BY <1>1 DEF Turns
  <2> QED BY <1>0, <1>1, <2>1, <2>2 DEF MaxGap
<1>2. CASE thread[Poller].stage = "entering"
  <2>1. PICK m \in Marks : thread[Poller].at - m <= Interval + 2 * Lag + Reach
    BY <1>2 DEF Turns, Since
  <2>2. clock <= thread[Poller].at + Lag /\ thread[Poller].at \in Int
    BY <1>0, <1>2, Bounds DEF OnTime, Allowance
  <2> QED BY <1>0, <2>1, <2>2 DEF MaxGap
<1>3. CASE thread[Poller].stage = "fetching"
  <2>1. clock <= thread[Poller].at + Lag + FetchTime /\ thread[Poller].at \in Int
    BY <1>0, <1>3, Bounds DEF OnTime, Allowance
  <2>2. thread[Poller].at \in Marks
    BY <1>0, <1>3, <2>1 DEF Marks, Fetching, At
  <2> QED BY <1>0, <2>1, <2>2 DEF MaxGap
<1>4. CASE thread[Poller].stage = "writing"
  <2>1. clock <= thread[Poller].at + Lag + FetchTime + Stall /\ thread[Poller].at \in Int
    BY <1>0, <1>4, Bounds DEF OnTime, Allowance
  <2>2. lastAttempt \in Marks /\ lastAttempt >= thread[Poller].at
    BY <1>4 DEF Marks, Inv, Counted
  <2> QED BY <1>0, <2>1, <2>2 DEF MaxGap
<1>5. CASE wake = None /\ thread[Poller].stage = "idle"
  BY <1>5 DEF Turns
<1> QED BY <1>0, <1>1, <1>2, <1>3, <1>4, <1>5

\* While the process serves, an attempt was made in the last MaxGap seconds.
THEOREM SchedulerKeepsTrying == Spec => []AttemptsKeepComing
<1>1. Init => Turns
  BY DEF Init, Turns
<1>2. Inv /\ Turns /\ [Next]_vars => Turns'
  BY TurnsNext
<1>3. Inv /\ Turns => AttemptsKeepComing
  BY TurnsSuffice
<1> QED BY <1>1, <1>2, <1>3, InvHolds, PTL DEF Spec

(***************************************************************************)
(* What the file holds is not stale.  When no error is reported, the last   *)
(* attempt to settle is the success reported; when a fetch is under way,    *)
(* that success was not older than MaxGap as the fetch was let in.          *)
(***************************************************************************)
Settled == {bootedAt, lastAttempt} \ {None}

Reported == up # "down" /\ ~lastError => lastSuccess = lastAttempt
Followed == up = "up" => \A r \in Fetching : \E m \in Settled : thread[r].at - m <= MaxGap

LEMMA ReportedNext ==
  ASSUME Reported, [Next]_vars
  PROVE  Reported'
<1>1. CASE Boot
  BY <1>1 DEF Boot, Reported
<1>2. ASSUME NEW r \in Threads, FetchSucceeds(r) PROVE Reported'
  BY <1>2 DEF FetchSucceeds, Settle, Reported
<1>3. ASSUME NEW r \in Threads, FetchFails(r) \/ FetchRaises(r) \/ RejectRecord(r) PROVE Reported'
  BY <1>3 DEF FetchFails, FetchRaises, RejectRecord, Settle, Reported
<1>4. ASSUME NEW r \in Threads, TurnAway(r) \/ Enter(r) \/ Store(r) \/ WriteRaises(r) PROVE Reported'
  BY <1>4 DEF TurnAway, Enter, Store, WriteRaises, controller, process, Reported
<1>5. CASE Attempt \/ Stop \/ Exit \/ Crash \/ Tick \/ UNCHANGED vars \/ \E r \in Clients : Request(r)
  BY <1>5 DEF Attempt, Stop, Exit, Crash, Tick, Request, vars, controller, process, Reported
<1> QED BY <1>1, <1>2, <1>3, <1>4, <1>5 DEF Next, Call

\* While nobody fetches, the latest mark is a settled one.
LEMMA QuietIsSettled ==
  ASSUME Inv, Turns, up = "up", Fetching = {}
  PROVE  \E m \in Settled : clock - m <= MaxGap
<1>1. AttemptsKeepComing
  BY TurnsSuffice
<1>2. Marks = Settled
  BY DEF Marks, Settled
<1> QED BY <1>1, <1>2 DEF AttemptsKeepComing

LEMMA FollowedNext ==
  ASSUME Inv, Turns, Followed, [Next]_vars
  PROVE  Followed'
<1> SUFFICES ASSUME up' = "up", NEW r \in Fetching' PROVE \E m \in Settled' : thread'[r].at - m <= MaxGap
  BY DEF Followed
<1>0. r \in Threads /\ thread'[r].stage = "fetching" /\ thread \in [Threads -> CallRecord]
  BY DEF Fetching, At, Inv, TypeOK, CallRecord
<1>1. ASSUME up = "up", r \in Fetching, thread'[r] = thread[r], UNCHANGED <<bootedAt, lastAttempt>>
      PROVE  \E m \in Settled' : thread'[r].at - m <= MaxGap
  BY <1>1 DEF Followed, Settled
<1>2. CASE Attempt \/ \E q \in Clients : Request(q)
  BY <1>1, <1>2, StartStep DEF Fetching, process
<1>3. ASSUME NEW q \in Threads, Passive(q) PROVE \E m \in Settled' : thread'[r].at - m <= MaxGap
  BY <1>1, <1>3, PassiveStep DEF Fetching, process
<1>4. ASSUME NEW q \in Threads, Enter(q) PROVE \E m \in Settled' : thread'[r].at - m <= MaxGap
  <2>1. /\ thread[q].stage = "entering" /\ ~refreshing /\ UNCHANGED <<bootedAt, lastAttempt>> /\ up = "up"
        /\ thread' = [thread EXCEPT ![q] = [stage |-> "fetching", at |-> thread[q].at, due |-> clock + FetchTime]]
    BY <1>0, <1>4 DEF Enter, Rejected, Go, At, CallRecord, process
  <2>2. Fetching = {}
    BY <2>1 DEF Inv, OneFetchAtATime, Fetching
  <2>3. r = q /\ thread'[r].at = thread[q].at
    BY <1>0, <2>1, <2>2 DEF Fetching, At
  <2>4. PICK m \in Settled : clock - m <= MaxGap
    BY <2>1, <2>2, QuietIsSettled
  <2>5. thread[q].at \in Int /\ thread[q].at <= clock /\ clock \in Int /\ m \in Int /\ MaxGap \in Int
    BY <2>1, Bounds, ReachBounds DEF Inv, Timely, OnTime, TypeOK, Settled, MaxGap
  <2> QED BY <2>1, <2>3, <2>4, <2>5 DEF Settled
<1>5. ASSUME NEW q \in Threads, FetchSucceeds(q) \/ FetchFails(q) \/ FetchRaises(q) PROVE FALSE
  <2>1. /\ q \in Fetching /\ thread[q].stage = "fetching" /\ UNCHANGED process /\ thread'[q].stage # "fetching"
    BY <1>0, <1>5 DEF FetchSucceeds, FetchFails, FetchRaises, Settle, Go, End, Idle, Fetching, At
  <2>2. r # q /\ thread'[r] = thread[r]
    BY <1>0, <1>5, <2>1 DEF FetchSucceeds, FetchFails, FetchRaises, Go, End
  <2>3. r \in Fetching /\ up # "down"
    BY <1>0, <2>1, <2>2 DEF Fetching, At, process
  <2> QED BY <2>1, <2>2, <2>3 DEF Inv, OneFetchAtATime, Fetching
<1>6. CASE Boot
  BY <1>0, <1>6 DEF Boot, Idle
<1>7. CASE Tick \/ UNCHANGED vars
  <2>1. UNCHANGED <<up, bootedAt, lastAttempt, thread>>
    BY <1>7 DEF Tick, vars, process, controller
  <2> QED BY <1>0, <1>1, <2>1 DEF Fetching, At
<1>8. CASE Stop \/ Exit \/ Crash
  BY <1>8 DEF Stop, Exit, Crash
<1>9. ASSUME NEW q \in Threads, Call(q) PROVE \E m \in Settled' : thread'[r].at - m <= MaxGap
  BY <1>3, <1>4, <1>5, <1>9 DEF Call, Passive
<1> QED BY <1>2, <1>6, <1>7, <1>8, <1>9 DEF Next

LEMMA FreshWhenFollowed ==
  ASSUME MaxGap + Lag + FetchTime <= Stale, Inv, Turns, Reported, Followed
  PROVE  CacheStaysFresh
<1> SUFFICES ASSUME up = "up", cache \in Time, cache >= bootedAt, ~lastError, lastSuccess = cache
    PROVE  clock - cache <= Stale
  BY DEF CacheStaysFresh
<1>0. /\ lastAttempt = cache /\ cache \in Int /\ clock \in Int /\ bootedAt \in Int /\ MaxGap \in Int
      /\ Stale \in Int /\ Lag \in Nat /\ FetchTime \in Nat
  BY Bounds, ReachBounds, TimeAssumption DEF Reported, Inv, TypeOK, MaxGap
<1>1. \A m \in Settled : m \in Int /\ m <= cache
  BY <1>0 DEF Settled
<1>2. CASE Fetching = {}
  <2>1. PICK m \in Settled : clock - m <= MaxGap
    BY <1>2, QuietIsSettled
  <2> QED BY <1>0, <1>1, <2>1
<1>3. CASE Fetching # {}
  <2>1. PICK r \in Fetching : TRUE
    BY <1>3
  <2>2. PICK m \in Settled : thread[r].at - m <= MaxGap
    BY <2>1 DEF Followed
  <2>3. /\ thread[r].at \in Int /\ clock <= thread[r].due /\ thread[r].due \in Int
        /\ thread[r].due <= thread[r].at + Lag + FetchTime
    BY <2>1, Bounds DEF Inv, Timely, OnTime, Allowance, Fetching, At, TypeOK
  <2> QED BY <1>0, <1>1, <2>2, <2>3
<1> QED BY <1>2, <1>3

\* If the staleness threshold covers the longest gap between two attempts and
\* one more fetch, the file is stale by its age only when an error is reported
\* or when it does not hold the success that is reported.
THEOREM StaleOnlyWithAReason ==
  ASSUME MaxGap + Lag + FetchTime <= Stale
  PROVE  Spec => []CacheStaysFresh
<1>1. Init => Turns /\ Reported /\ Followed
  BY DEF Init, Turns, Reported, Followed
<1>2. Inv /\ Turns /\ Reported /\ Followed /\ [Next]_vars => (Turns /\ Reported /\ Followed)'
  BY TurnsNext, ReportedNext, FollowedNext
<1>3. Inv /\ Turns /\ Reported /\ Followed => CacheStaysFresh
  BY FreshWhenFollowed
<1> QED BY <1>1, <1>2, <1>3, InvHolds, PTL DEF Spec
==============================================================================
