----------------------- MODULE GitHubRateLimitProofs -----------------------
(***************************************************************************)
(* Theorems about GitHubRateLimit, for every number of threads, tasks and  *)
(* timers and for every length of the window, the cooldown and the grace   *)
(* period.                                                                 *)
(***************************************************************************)
EXTENDS GitHubRateLimit, TLAPS

USE NoneAssumption, CallerAssumption DEF Callers, Time, Resources

LEMMA Bounds ==
  /\ MaxTime \in Nat /\ Cooldown \in Nat /\ Grace \in Nat /\ Early \in Nat /\ Copies \in Nat
  /\ Window \in 1 .. MaxTime /\ Copies > 0
  /\ Malformed \in BOOLEAN /\ Unparsable \in BOOLEAN
BY BoundAssumption

\* _select_auto_refresh_target_reset returns one of the resets it was given.
LEMMA TargetTyped ==
  ASSUME NEW rep \in Report
  PROVE  Target(rep) \in Resets \cup {None}
<1> DEFINE S == {rep[r] : r \in Resources} \ {None}
<1>1. S \subseteq {rep["core"], rep["graphql"]} /\ S \subseteq Resets
  BY DEF Report
<1>2. CASE S = {}
  BY <1>2 DEF Target
<1>3. CASE S # {}
  <2>1. \A t \in S : t \in Int
    BY <1>1, Bounds DEF Resets
  <2>2. PICK s \in S : \A u \in {rep["core"], rep["graphql"]} : u \in S => s <= u
    <3>1. rep["core"] \in S \/ rep["graphql"] \in S
      BY <1>1, <1>3
    <3> HIDE DEF S
    <3> QED BY <2>1, <3>1
  <2>3. \A u \in S : s <= u
    BY <1>1, <2>2
  <2>4. Target(rep) \in S
    BY <1>3, <2>3 DEF Target
  <2> QED BY <1>1, <2>4
<1> QED BY <1>2, <1>3

LEMMA IdleTyped == Idle \in Call
BY Bounds DEF Idle, Call

LEMMA ReconciledTyped ==
  ASSUME NEW s \in Schedule, NEW rep \in Report
  PROVE  Reconciled(s, rep) \in Schedule
BY TargetTyped DEF Reconciled, Schedule

LEMMA ConsumedTyped ==
  ASSUME NEW s \in Schedule, NEW t \in Resets \cup {None}
  PROVE  Consumed(s, t) \in Schedule
BY DEF Consumed, Schedule

\* A pending schedule names a reset that was not attempted last.
Sound(s) == s.pending => s.reset # None /\ s.reset # s.attempted

LEMMA ReconciledSound ==
  ASSUME NEW s \in Schedule, Sound(s), NEW rep \in Report
  PROVE  Sound(Reconciled(s, rep))
BY TargetTyped DEF Reconciled, Schedule, Sound

LEMMA ConsumedSound ==
  ASSUME NEW s \in Schedule, NEW t
  PROVE  Sound(Consumed(s, t)) /\ ~Consumed(s, t).pending
BY DEF Consumed, Schedule, Sound

\* A schedule that is sound has its next attempt at an instant of the clock.
LEMMA NextTyped ==
  ASSUME NEW s \in Schedule, Sound(s), s.pending
  PROVE  NextAt(s) \in Time
BY Bounds DEF Schedule, Sound, NextAt, Resets

(***************************************************************************)
(* The inductive invariant.                                                *)
(***************************************************************************)
\* An exhausted window leaves room for the refresh after it (the bound of Spend).
Bounded == \A r \in Resources : window[r].empty => window[r].reset \in Resets

\* Whoever is past the lock with a gh call has the flag up, and is alone.
Exclusive ==
  /\ Fetching # {} => refreshing
  /\ \A c, d \in Fetching : c = d

\* What the locals of a call are when it is in each of its steps.
Locals ==
  \A c \in Callers :
    /\ call[c].at \in {"called", "fetching"} => call[c].now \in Time /\ call[c].now <= clock
    /\ call[c].at = "arming" => call[c].next \in Time
    /\ call[c].at = "fetching" /\ c \in AutoTasks =>
         call[c].target \in Resets /\ clock >= call[c].target + Grace

\* The cooldown's clock is the last manual refresh, or that refresh is under way.
Cool ==
  /\ ~refreshing => lastAttempt = lastManual
  /\ \A c \in Fetching : IF c \in Clients THEN lastManual = call[c].now
                                          ELSE lastAttempt = lastManual

Inv == TypeOK /\ Bounded /\ Exclusive /\ Locals /\ Cool /\ Sound(schedule)

LEMMA InitInv == Init => Inv
<1> SUFFICES ASSUME Init PROVE Inv
  OBVIOUS
<1>1. TypeOK /\ Bounded
  <2>1. 1 .. Window \subseteq Time
    BY Bounds
  <2>2. [reset : 1 .. Window, empty : {FALSE}] \subseteq [reset : Time, empty : BOOLEAN]
    BY <2>1
  <2>3. window \in [Resources -> [reset : Time, empty : BOOLEAN]]
    BY <2>2 DEF Init
  <2>4. \A r \in Resources : window[r].empty = FALSE
    BY DEF Init
  <2>5. schedule \in Schedule
    BY DEF Init, Schedule
  <2>6. call \in [Callers -> Call]
    BY IdleTyped DEF Init
  <2>7. clock \in Time /\ timers \in [Time -> 0 .. Copies]
    BY Bounds DEF Init
  <2>8. Bounded
    BY <2>4 DEF Bounded
  <2>9. TypeOK
    BY <2>3, <2>5, <2>6, <2>7 DEF Init, TypeOK
  <2> QED BY <2>8, <2>9
<1>2. \A c \in Callers : call[c].at = "idle"
  BY DEF Init, Idle
<1>3. Exclusive /\ Locals /\ Cool
  BY <1>2 DEF Init, Exclusive, Locals, Cool, Fetching
<1>4. Sound(schedule)
  BY DEF Init, Sound
<1> QED BY <1>1, <1>3, <1>4 DEF Inv

(***************************************************************************)
(* Every step preserves it.  A step rewrites the locals of one call at     *)
(* most: the two lemmas say what that does to the calls and to Fetching.   *)
(***************************************************************************)
LEMMA CallUpdated ==
  ASSUME TypeOK, NEW c \in Callers, NEW r \in Call, call' = [call EXCEPT ![c] = r]
  PROVE  /\ call' \in [Callers -> Call] /\ call'[c] = r
         /\ \A d \in Callers : d # c => call'[d] = call[d]
BY DEF TypeOK

LEMMA FetchingUpdated ==
  ASSUME TypeOK, NEW c \in Callers, NEW r \in Call, call' = [call EXCEPT ![c] = r]
  PROVE  Fetching' = IF r.at = "fetching" THEN Fetching \cup {c} ELSE Fetching \ {c}
BY CallUpdated DEF Fetching

\* The clock and GitHub: nothing of the controller or of a call changes.
LEMMA EnvironmentInv ==
  ASSUME Inv, Tick \/ \E r \in Resources : Spend(r) \/ Reset(r)
  PROVE  Inv'
<1>1. UNCHANGED <<controller, timers, call, lastManual>>
  BY DEF Tick, Spend, Reset
<1>2. clock' \in Time /\ clock' >= clock
  BY Bounds DEF Inv, TypeOK, Tick, Spend, Reset
<1>3. window' \in [Resources -> [reset : Time, empty : BOOLEAN]] /\ Bounded'
  <2>1. CASE Tick
    BY <2>1 DEF Inv, TypeOK, Tick, Bounded, Resets
  <2>2. ASSUME NEW r \in Resources, Spend(r) PROVE <1>3!:
    BY <2>2 DEF Inv, TypeOK, Spend, Bounded, Resets
  <2>3. ASSUME NEW r \in Resources, Reset(r) PROVE <1>3!:
    <3>1. clock + Window \in Time
      BY <2>3, Bounds DEF Inv, TypeOK, Reset
    <3> QED BY <2>3, <3>1 DEF Inv, TypeOK, Reset, Bounded, Resets
  <2> QED BY <2>1, <2>2, <2>3
<1>4. TypeOK'
  BY <1>1, <1>2, <1>3 DEF Inv, TypeOK, controller
<1>5. Exclusive' /\ Cool' /\ Sound(schedule)'
  BY <1>1 DEF Inv, Exclusive, Cool, Fetching, Sound, controller
<1>6. Locals'
  <2> SUFFICES ASSUME NEW c \in Callers
      PROVE /\ call[c].at \in {"called", "fetching"} => call[c].now \in Time /\ call[c].now <= clock'
            /\ call[c].at = "arming" => call[c].next \in Time
            /\ call[c].at = "fetching" /\ c \in AutoTasks =>
                 call[c].target \in Resets /\ clock' >= call[c].target + Grace
    BY <1>1 DEF Locals, Resets
  <2> QED BY <1>2, Bounds DEF Inv, TypeOK, Locals, Resets
<1> QED BY <1>3, <1>4, <1>5, <1>6 DEF Inv

\* A call that gets or loses its locals without holding or taking the flag.
LEMMA LocalStepInv ==
  ASSUME Inv, NEW c \in Callers, c \notin Fetching, NEW r \in Call,
         call' = [call EXCEPT ![c] = r], r.at # "fetching",
         r.at = "called" => r.now = clock, r.at = "arming" => r.next \in Time,
         timers' \in [Time -> 0 .. Copies],
         UNCHANGED <<clock, window, refreshing, lastAttempt, report, lastManual>>,
         schedule' \in Schedule, Sound(schedule')
  PROVE  Inv'
<1>1. call' \in [Callers -> Call] /\ call'[c] = r
      /\ \A d \in Callers : d # c => call'[d] = call[d]
  BY CallUpdated DEF Inv
<1>2. Fetching' = Fetching
  <2>1. TypeOK
    BY DEF Inv
  <2>2. Fetching' = Fetching \ {c}
    BY <2>1, FetchingUpdated
  <2> QED BY <2>2
<1>3. TypeOK' /\ Bounded'
  BY <1>1 DEF Inv, TypeOK, Bounded, Resets
<1>4. Exclusive'
  BY <1>2 DEF Inv, Exclusive
<1>5. Locals'
  BY <1>1 DEF Inv, Locals, TypeOK, Resets
<1>6. Cool'
  BY <1>1, <1>2 DEF Inv, Cool, Fetching
<1>7. Sound(schedule)'
  BY DEF Sound
<1> QED BY <1>3, <1>4, <1>5, <1>6, <1>7 DEF Inv

LEMMA RequestInv ==
  ASSUME Inv, NEW c \in Callers, Request(c)
  PROVE  Inv'
<1> DEFINE r == [Idle EXCEPT !.at = "called", !.now = clock]
<1>1. r \in Call /\ r.at = "called" /\ r.now = clock
  BY IdleTyped DEF Inv, TypeOK, Call, Idle
<1>2. call' = [call EXCEPT ![c] = r] /\ c \notin Fetching
  BY DEF Request, Fetching
<1>3. UNCHANGED <<clock, window, controller, timers, lastManual>>
  BY DEF Request
<1> HIDE DEF r
<1> QED BY <1>1, <1>2, <1>3, LocalStepInv DEF Inv, TypeOK, controller, Sound

LEMMA TimerFiresInv ==
  ASSUME Inv, NEW c \in Callers, NEW t \in Time, TimerFires(t, c)
  PROVE  Inv'
<1> DEFINE r == [Idle EXCEPT !.at = "called", !.now = clock]
<1>1. r \in Call /\ r.at = "called" /\ r.now = clock
  BY IdleTyped DEF Inv, TypeOK, Call, Idle
<1>2. call' = [call EXCEPT ![c] = r] /\ c \notin Fetching
  BY DEF TimerFires, Fetching
<1>3. UNCHANGED <<clock, window, controller, lastManual>>
  BY DEF TimerFires
<1>4. timers' \in [Time -> 0 .. Copies]
  BY Bounds DEF TimerFires, Inv, TypeOK
<1> HIDE DEF r
<1> QED BY <1>1, <1>2, <1>3, <1>4, LocalStepInv DEF Inv, TypeOK, controller, Sound

LEMMA ArmTyped ==
  ASSUME Inv, NEW c \in Callers, Arm(c)
  PROVE  timers' \in [Time -> 0 .. Copies]
<1> DEFINE due == IF call[c].next <= clock THEN clock ELSE call[c].next
<1>1. due \in Time
  BY DEF Inv, TypeOK, Locals, Arm
<1>2. timers' = IF timers[due] < Copies THEN [timers EXCEPT ![due] = @ + 1] ELSE timers
  BY DEF Arm, ArmTimer
<1> HIDE DEF due
<1> QED BY <1>1, <1>2, Bounds DEF Inv, TypeOK

LEMMA ArmInv ==
  ASSUME Inv, NEW c \in Callers, Arm(c)
  PROVE  Inv'
<1>1. Idle \in Call /\ Idle.at = "idle"
  BY IdleTyped DEF Idle
<1>2. call' = [call EXCEPT ![c] = Idle] /\ c \notin Fetching
  BY DEF Arm, Fetching
<1>3. UNCHANGED <<clock, window, controller, lastManual>>
  BY DEF Arm
<1> QED BY <1>1, <1>2, <1>3, ArmTyped, LocalStepInv DEF Inv, TypeOK, controller, Sound

\* A call that takes the flag and starts gh.
LEMMA TakesFlagInv ==
  ASSUME Inv, NEW c \in Callers, ~refreshing, call[c].at = "called", NEW r \in Call,
         call' = [call EXCEPT ![c] = r], r.at = "fetching", r.now = call[c].now,
         c \in AutoTasks => r.target \in Resets /\ clock >= r.target + Grace,
         refreshing' = TRUE, lastManual' = IF c \in Clients THEN r.now ELSE lastManual,
         UNCHANGED <<clock, window, lastAttempt, report, schedule, timers>>
  PROVE  Inv'
<1>1. call' \in [Callers -> Call] /\ call'[c] = r
      /\ \A d \in Callers : d # c => call'[d] = call[d]
  BY CallUpdated DEF Inv
<1>2. Fetching' = {c}
  <2>1. TypeOK /\ Fetching = {}
    BY DEF Inv, Exclusive
  <2> QED BY <2>1, FetchingUpdated
<1>3. r.now \in Time /\ r.now <= clock
  BY DEF Inv, Locals
<1>4. TypeOK' /\ Bounded'
  BY <1>1, <1>3 DEF Inv, TypeOK, Bounded, Resets
<1>5. Exclusive'
  BY <1>2 DEF Exclusive
<1>6. Locals'
  BY <1>1, <1>3 DEF Inv, Locals, TypeOK, Resets
<1>7. Cool'
  BY <1>1, <1>2 DEF Inv, Cool
<1>8. Sound(schedule)'
  BY DEF Inv, Sound
<1> QED BY <1>4, <1>5, <1>6, <1>7, <1>8 DEF Inv

LEMMA EnterRefreshInv ==
  ASSUME Inv, NEW c \in Callers, EnterRefresh(c)
  PROVE  Inv'
<1>1. CASE Rejected(c)
  <2>1. Idle \in Call /\ Idle.at = "idle"
    BY IdleTyped DEF Idle
  <2>2. call' = [call EXCEPT ![c] = Idle] /\ c \notin Fetching
    BY <1>1 DEF EnterRefresh, Fetching
  <2>3. UNCHANGED <<clock, window, controller, timers, lastManual>>
    BY <1>1 DEF EnterRefresh, controller
  <2> QED BY <2>1, <2>2, <2>3, LocalStepInv DEF Inv, TypeOK, controller, Sound
<1>2. CASE ~Rejected(c)
  <2> DEFINE r == [call[c] EXCEPT !.at = "fetching"]
  <2>1. call[c] \in Call /\ call[c].at = "called" /\ c \in Clients /\ c \notin AutoTasks
    BY DEF Inv, TypeOK, EnterRefresh
  <2>2. r \in Call /\ r.at = "fetching" /\ r.now = call[c].now
    BY <2>1 DEF Call
  <2>3. call' = [call EXCEPT ![c] = r] /\ refreshing' = TRUE /\ lastManual' = call[c].now
    BY <1>2 DEF EnterRefresh, Inv, TypeOK
  <2>4. ~refreshing /\ UNCHANGED <<clock, window, lastAttempt, report, schedule, timers>>
    BY <1>2 DEF EnterRefresh, Rejected
  <2> HIDE DEF r
  <2> QED BY <2>1, <2>2, <2>3, <2>4, TakesFlagInv DEF Inv, TypeOK
<1> QED BY <1>1, <1>2

LEMMA EnterAutoInv ==
  ASSUME Inv, NEW c \in Callers, EnterAuto(c)
  PROVE  Inv'
<1> USE DEF Busy
<1>1. /\ call[c] \in Call /\ call[c].at = "called" /\ c \in AutoTasks /\ c \notin Clients
      /\ c \notin Fetching
      /\ UNCHANGED <<clock, window, lastAttempt, report, timers, lastManual>>
  BY DEF Inv, TypeOK, EnterAuto, Fetching
<1>2. Idle \in Call /\ Idle.at = "idle"
  BY IdleTyped DEF Idle
<1>3. CASE Due(c) /\ ~refreshing
  <2> DEFINE r == [call[c] EXCEPT !.at = "fetching", !.target = schedule.reset]
  <2>1. schedule \in Schedule /\ schedule.reset \in Resets /\ call[c].now \in Time /\ call[c].now <= clock
    BY <1>1, <1>3 DEF Inv, TypeOK, Schedule, Sound, Due, Locals
  <2>2. clock >= schedule.reset + Grace
    BY <1>3, <2>1, Bounds DEF Due, NextAt, Resets, Inv, TypeOK
  <2>3. r \in Call /\ r.at = "fetching" /\ r.now = call[c].now /\ r.target = schedule.reset
    BY <1>1, <2>1 DEF Call
  <2>4. call' = [call EXCEPT ![c] = r]
    BY <1>1, <1>3 DEF EnterAuto, Inv, TypeOK
  <2>5. refreshing' = TRUE /\ UNCHANGED schedule
    BY <1>3 DEF EnterAuto
  <2> HIDE DEF r
  <2> QED BY <1>1, <1>3, <2>1, <2>2, <2>3, <2>4, <2>5, TakesFlagInv
<1>4. CASE ~(Due(c) /\ ~refreshing)
  <2>1. call' = [call EXCEPT ![c] = Idle] /\ UNCHANGED refreshing
    BY <1>4 DEF EnterAuto
  <2>2. schedule' = schedule \/ schedule' = Consumed(schedule, schedule.reset)
    BY <1>4 DEF EnterAuto
  <2>3. schedule' \in Schedule /\ Sound(schedule')
    <3>1. schedule \in Schedule /\ Sound(schedule) /\ schedule.reset \in Resets \cup {None}
      BY DEF Inv, TypeOK, Schedule
    <3> QED BY <2>2, <3>1, ConsumedTyped, ConsumedSound
  <2> QED BY <1>1, <1>2, <2>1, <2>3, LocalStepInv DEF Inv, TypeOK
<1> QED BY <1>3, <1>4

\* A gh call that ended, its outcome written under the lock.
LEMMA ReleasesFlagInv ==
  ASSUME Inv, NEW c \in Fetching, NEW r \in Call,
         call' = [call EXCEPT ![c] = r], r.at \in {"idle", "arming"},
         r.at = "arming" => r.next \in Time,
         refreshing' = FALSE, CountAttempt(c),
         report' \in Report \cup {None}, schedule' \in Schedule, Sound(schedule'),
         UNCHANGED <<clock, window, timers, lastManual>>
  PROVE  Inv'
<1>1. c \in Callers /\ TypeOK /\ Fetching = {c}
  BY DEF Inv, Exclusive, Fetching
<1>2. call' \in [Callers -> Call] /\ call'[c] = r
      /\ \A d \in Callers : d # c => call'[d] = call[d]
  BY <1>1, CallUpdated
<1>3. Fetching' = {}
  BY <1>1, FetchingUpdated
<1>4. lastAttempt' = lastManual
  BY <1>1 DEF Inv, Cool, CountAttempt
<1>5. TypeOK' /\ Bounded'
  BY <1>2, <1>4 DEF Inv, TypeOK, Bounded, Resets
<1>6. Exclusive' /\ Cool'
  BY <1>3, <1>4 DEF Exclusive, Cool
<1>7. Locals'
  BY <1>2 DEF Inv, Locals, TypeOK, Resets
<1>8. Sound(schedule)'
  BY DEF Sound
<1> QED BY <1>5, <1>6, <1>7, <1>8 DEF Inv

\* The schedule as an outcome finds it.
LEMMA AttemptedSound ==
  ASSUME Inv, NEW c \in Fetching
  PROVE  Attempted(c) \in Schedule /\ Sound(Attempted(c))
<1>1. CASE c \in AutoTasks
  <2>1. call[c].target \in Resets /\ schedule \in Schedule
    BY <1>1 DEF Inv, TypeOK, Locals, Fetching
  <2> QED BY <1>1, <2>1, ConsumedTyped, ConsumedSound DEF Attempted
<1>2. CASE c \notin AutoTasks
  BY <1>2 DEF Attempted, Inv, TypeOK
<1> QED BY <1>1, <1>2

LEMMA ReturnInv ==
  ASSUME Inv, NEW c \in Fetching, NEW s \in Schedule, Sound(s),
         Return(c, s), schedule' = s,
         refreshing' = FALSE, CountAttempt(c), report' \in Report \cup {None},
         UNCHANGED <<clock, window, timers, lastManual>>
  PROVE  Inv'
<1> DEFINE r == IF s.pending THEN [Idle EXCEPT !.at = "arming", !.next = NextAt(s)] ELSE Idle
<1>1. s.pending => NextAt(s) \in Time
  BY NextTyped
<1>2. r \in Call /\ r.at \in {"idle", "arming"} /\ (r.at = "arming" => r.next \in Time)
  <2> HIDE DEF NextAt
  <2> QED BY <1>1, IdleTyped DEF Call, Idle
<1>3. call' = [call EXCEPT ![c] = r]
  BY DEF Return
<1> HIDE DEF r
<1> QED BY <1>2, <1>3, ReleasesFlagInv

\* What gh answers is a report.
LEMMA AnswersTyped ==
  ASSUME Inv, NEW rep \in Answers
  PROVE  rep \in Report
<1>1. \A r \in Resources : Truth[r] \in Resets \cup {None}
  BY DEF Inv, Bounded, Truth
<1> QED BY <1>1 DEF Answers, Report

LEMMA OutcomeInv ==
  ASSUME Inv, NEW c \in Callers,
         \/ \E rep \in Answers : FetchSucceeds(c, rep)
         \/ FetchFails(c) \/ FetchRaises(c)
  PROVE  Inv'
<1>1. ASSUME NEW rep \in Answers, FetchSucceeds(c, rep) PROVE Inv'
  <2> DEFINE s == Reconciled(Attempted(c), rep)
  <2>1. c \in Fetching /\ rep \in Report
    BY <1>1, AnswersTyped DEF FetchSucceeds
  <2>2. s \in Schedule /\ Sound(s)
    BY <2>1, AttemptedSound, ReconciledTyped, ReconciledSound
  <2>3. /\ Return(c, s) /\ schedule' = s /\ report' = rep
        /\ refreshing' = FALSE /\ CountAttempt(c)
        /\ UNCHANGED <<clock, window, timers, lastManual>>
    BY <1>1 DEF FetchSucceeds, CountAttempt, Return
  <2> HIDE DEF s
  <2> QED BY <2>1, <2>2, <2>3, ReturnInv
<1>2. CASE FetchFails(c)
  <2>1. c \in Fetching
    BY <1>2 DEF FetchFails
  <2>2. /\ Return(c, Attempted(c)) /\ schedule' = Attempted(c)
        /\ refreshing' = FALSE /\ CountAttempt(c)
        /\ UNCHANGED <<clock, window, timers, lastManual>>
    BY <1>2 DEF FetchFails, Return
  <2>3. report' \in Report \cup {None}
    BY <1>2 DEF FetchFails, Inv, TypeOK
  <2> QED BY <2>1, <2>2, <2>3, AttemptedSound, ReturnInv
<1>3. CASE FetchRaises(c)
  <2>1. c \in Fetching
    BY <1>3 DEF FetchRaises
  <2>2. /\ schedule' = Attempted(c) /\ call' = [call EXCEPT ![c] = Idle]
        /\ refreshing' = FALSE /\ CountAttempt(c)
        /\ UNCHANGED <<clock, window, timers, lastManual>>
    BY <1>3 DEF FetchRaises
  <2>3. report' \in Report \cup {None}
    BY <1>3 DEF FetchRaises, Inv, TypeOK
  <2>4. Idle \in Call /\ Idle.at = "idle"
    BY IdleTyped DEF Idle
  <2> QED BY <2>1, <2>2, <2>3, <2>4, AttemptedSound, ReleasesFlagInv
<1> QED BY <1>1, <1>2, <1>3

LEMMA ReportRaisesInv ==
  ASSUME Inv, NEW c \in Callers, ReportRaises(c)
  PROVE  Inv'
<1>1. TypeOK /\ c \in Fetching /\ Idle \in Call /\ Idle.at = "idle"
  BY IdleTyped DEF Inv, ReportRaises, Idle
<1>2. /\ call' = [call EXCEPT ![c] = Idle]
      /\ UNCHANGED <<clock, window, controller, timers, lastManual>>
  BY DEF ReportRaises
<1>3. call' \in [Callers -> Call] /\ call'[c] = Idle
      /\ \A d \in Callers : d # c => call'[d] = call[d]
  BY <1>1, <1>2, CallUpdated
<1>4. Fetching' = {} /\ refreshing'
  <2>1. Fetching = {c} /\ refreshing
    BY <1>1 DEF Inv, Exclusive
  <2> QED BY <1>1, <1>2, <2>1, FetchingUpdated DEF controller
<1>5. TypeOK' /\ Bounded' /\ Sound(schedule)'
  BY <1>2, <1>3 DEF Inv, TypeOK, Bounded, Resets, controller, Sound
<1>6. Exclusive' /\ Cool'
  BY <1>4 DEF Exclusive, Cool
<1>7. Locals'
  BY <1>1, <1>2, <1>3 DEF Inv, Locals, TypeOK, Resets
<1> QED BY <1>5, <1>6, <1>7 DEF Inv

LEMMA StutterInv == ASSUME Inv, UNCHANGED vars PROVE Inv'
BY DEF Inv, vars, controller, TypeOK, Bounded, Exclusive, Fetching, Locals, Cool, Sound, Resets

LEMMA NextInv == Inv /\ [Next]_vars => Inv'
<1> SUFFICES ASSUME Inv, [Next]_vars PROVE Inv'
  OBVIOUS
<1>1. CASE Tick \/ \E r \in Resources : Spend(r) \/ Reset(r)
  BY <1>1, EnvironmentInv
<1>2. ASSUME NEW c \in Callers, Request(c) PROVE Inv'
  BY <1>2, RequestInv
<1>3. ASSUME NEW c \in Callers, EnterRefresh(c) PROVE Inv'
  BY <1>3, EnterRefreshInv
<1>4. ASSUME NEW c \in Callers, EnterAuto(c) PROVE Inv'
  BY <1>4, EnterAutoInv
<1>5. ASSUME NEW c \in Callers, NEW t \in Time, TimerFires(t, c) PROVE Inv'
  BY <1>5, TimerFiresInv
<1>6. ASSUME NEW c \in Callers, Arm(c) PROVE Inv'
  BY <1>6, ArmInv
<1>7. ASSUME NEW c \in Callers,
             FetchFails(c) \/ FetchRaises(c) \/ \E rep \in Answers : FetchSucceeds(c, rep)
      PROVE Inv'
  BY <1>7, OutcomeInv
<1>8. ASSUME NEW c \in Callers, ReportRaises(c) PROVE Inv'
  BY <1>8, ReportRaisesInv
<1>9. CASE UNCHANGED vars
  BY <1>9, StutterInv
<1> QED BY <1>1, <1>2, <1>3, <1>4, <1>5, <1>6, <1>7, <1>8, <1>9 DEF Next

LEMMA Invariance == Spec => []Inv
<1> QED BY InitInv, NextInv, PTL DEF Spec

(***************************************************************************)
(* The theorems that need nothing more.                                    *)
(***************************************************************************)
\* Every variable keeps its type.
THEOREM TypeCorrect == Spec => []TypeOK
<1>1. Inv => TypeOK
  BY DEF Inv
<1> QED BY <1>1, Invariance, PTL

\* refresh() writes _last_attempt_at on every way out, so that between calls the
\* cooldown counts from the last manual refresh that was let in.
THEOREM CooldownCountsEveryAttempt == Spec => []CooldownSeesEveryAttempt
<1>1. Inv => CooldownSeesEveryAttempt
  BY DEF Inv, Cool, CooldownSeesEveryAttempt
<1> QED BY <1>1, Invariance, PTL

\* Manual refreshes are let in no less than DEFAULT_COOLDOWN_SECONDS apart,
\* whatever came of them and whatever ran automatically in between.
THEOREM ManualRefreshesKeepTheCooldown == Spec => ManualRefreshesAreApart
<1>1. ASSUME Inv, Next, lastManual' # lastManual, lastManual # None
      PROVE  lastManual' >= lastManual + Cooldown
  <2>1. PICK c \in Callers : EnterRefresh(c)
    BY <1>1 DEF Next, Tick, Spend, Reset, Request, EnterRefresh, EnterAuto, TimerFires, Arm,
                FetchSucceeds, FetchFails, FetchRaises, ReportRaises
  <2>2. ~Rejected(c) /\ lastManual' = call[c].now /\ call[c].at = "called"
    BY <1>1, <2>1 DEF EnterRefresh
  <2>3. lastAttempt = lastManual /\ ~(call[c].now - lastAttempt < Cooldown)
    BY <1>1, <2>2 DEF Inv, Cool, Rejected, Cooling
  <2>4. call[c].now \in Time /\ lastManual \in Time
    BY <1>1, <2>2 DEF Inv, Locals, TypeOK
  <2> QED BY <2>2, <2>3, <2>4, Bounds
<1>2. Inv /\ [Next]_vars => [lastManual' # lastManual /\ lastManual # None
                               => lastManual' >= lastManual + Cooldown]_vars
  BY <1>1
<1> QED BY <1>2, Invariance, PTL DEF Spec, ManualRefreshesAreApart

\* A timer armed for an earlier schedule cannot make gh run before its reset.
THEOREM AutoRunsOnlyAfterReset == Spec => []AutoRunsAfterReset
<1>1. Inv => AutoRunsAfterReset
  BY DEF Inv, Locals, AutoRunsAfterReset
<1> QED BY <1>1, Invariance, PTL

\* Manual and automatic refreshes exclude one another, whatever raises.
THEOREM FetchesAreSerial == Spec => []OneFetchAtATime
<1>1. Inv => OneFetchAtATime
  BY DEF Inv, Exclusive, OneFetchAtATime
<1> QED BY <1>1, Invariance, PTL

\* The reset attempted last is never pending again.
THEOREM NoRetryOfTheSameReset == Spec => []PendingIsNew
<1>1. Inv => PendingIsNew
  BY DEF Inv, Sound, PendingIsNew
<1> QED BY <1>1, Invariance, PTL

(***************************************************************************)
(* What is pending is what the last report says.  No strengthening is      *)
(* needed: an attempt is noted only together with the end of the schedule. *)
(***************************************************************************)
LEMMA CurrentKept ==
  ASSUME PendingIsCurrent, UNCHANGED report,
         schedule' = schedule \/ ~schedule'.pending
  PROVE  PendingIsCurrent'
BY DEF PendingIsCurrent, Target

\* The schedule as the attempt leaves it, reconciled with the new report.
LEMMA CurrentReconciled ==
  ASSUME NEW s \in Schedule, NEW rep \in Report, report' = rep, schedule' = Reconciled(s, rep)
  PROVE  PendingIsCurrent'
<1>1. CASE Target(rep) = None
  BY <1>1 DEF PendingIsCurrent, Reconciled, Schedule
<1>2. CASE Target(rep) # None /\ Target(rep) = s.attempted
  <2>1. schedule' = s
    BY <1>2 DEF Reconciled
  <2>2. rep # None
    BY ReportAssumption
  <2>3. Target(report)' = Target(rep)
    BY DEF Target
  <2> QED BY <1>2, <2>1, <2>2, <2>3 DEF PendingIsCurrent
<1>3. CASE Target(rep) # None /\ Target(rep) # s.attempted
  <2>1. schedule' = [s EXCEPT !.pending = TRUE, !.reset = Target(rep)]
    BY <1>3 DEF Reconciled
  <2>2. rep # None
    BY ReportAssumption
  <2>3. Target(report)' = Target(rep)
    BY DEF Target
  <2>4. schedule'.reset = Target(rep)
    BY <2>1 DEF Schedule
  <2> QED BY <1>3, <2>2, <2>3, <2>4 DEF PendingIsCurrent
<1> QED BY <1>1, <1>2, <1>3

LEMMA CurrentNext == Inv /\ PendingIsCurrent /\ [Next]_vars => PendingIsCurrent'
<1> SUFFICES ASSUME Inv, PendingIsCurrent, [Next]_vars PROVE PendingIsCurrent'
  OBVIOUS
<1>1. ASSUME NEW c \in Callers, NEW rep \in Answers, FetchSucceeds(c, rep) PROVE PendingIsCurrent'
  <2>1. rep \in Report
    BY AnswersTyped
  <2>2. schedule \in Schedule /\ call[c] \in Call /\ c \in Fetching
    BY <1>1 DEF Inv, TypeOK, FetchSucceeds
  <2>3. Attempted(c) \in Schedule
    BY <2>2, ConsumedTyped DEF Attempted, Call
  <2>4. report' = rep /\ schedule' = Reconciled(Attempted(c), rep)
    BY <1>1 DEF FetchSucceeds
  <2> QED BY <2>1, <2>3, <2>4, CurrentReconciled
<1>2. ASSUME NEW c \in Callers, FetchFails(c) \/ FetchRaises(c) PROVE PendingIsCurrent'
  <2>1. UNCHANGED report /\ schedule' = Attempted(c)
    BY <1>2 DEF FetchFails, FetchRaises
  <2>2. schedule' = schedule \/ ~schedule'.pending
    BY <2>1 DEF Attempted, Consumed, Inv, TypeOK, Schedule
  <2> QED BY <2>1, <2>2, CurrentKept
<1>3. ASSUME NEW c \in Callers, EnterAuto(c) PROVE PendingIsCurrent'
  <2>1. UNCHANGED report /\ (schedule' = schedule \/ schedule' = Consumed(schedule, schedule.reset))
    BY <1>3 DEF EnterAuto
  <2>2. schedule' = schedule \/ ~schedule'.pending
    BY <2>1 DEF Consumed, Inv, TypeOK, Schedule
  <2> QED BY <2>1, <2>2, CurrentKept
<1>4. CASE UNCHANGED <<report, schedule>>
  BY <1>4, CurrentKept
<1>5. ASSUME NEW c \in Callers, Request(c) \/ EnterRefresh(c) \/ Arm(c) \/ ReportRaises(c)
      PROVE  UNCHANGED <<report, schedule>>
  BY <1>5 DEF Request, EnterRefresh, Arm, ReportRaises, controller
<1>6. ASSUME NEW c \in Callers, NEW t \in Time, TimerFires(t, c) PROVE UNCHANGED <<report, schedule>>
  BY <1>6 DEF TimerFires, controller
<1>7. ASSUME NEW r \in Resources, Spend(r) \/ Reset(r) PROVE UNCHANGED <<report, schedule>>
  BY <1>7 DEF Spend, Reset, controller
<1>8. Tick \/ UNCHANGED vars => UNCHANGED <<report, schedule>>
  BY DEF Tick, vars, controller
<1> QED BY <1>1, <1>2, <1>3, <1>4, <1>5, <1>6, <1>7, <1>8 DEF Next

\* What is pending is the earliest reset of the last report, or that report
\* still shows the reset attempted last.
THEOREM PendingFollowsReport == Spec => []PendingIsCurrent
<1>1. Init => PendingIsCurrent
  BY DEF Init, PendingIsCurrent
<1> QED BY <1>1, CurrentNext, Invariance, PTL DEF Spec

(***************************************************************************)
(* The flag comes down again, if building a report never raises.           *)
(***************************************************************************)
Flagged == refreshing => Fetching # {}

LEMMA FlaggedStep ==
  ASSUME ~Unparsable, Inv, Flagged, [Next]_vars
  PROVE  Flagged'
<1> SUFFICES ASSUME refreshing' PROVE \E c \in Callers : call'[c].at = "fetching"
  BY DEF Flagged, Fetching
<1>1. call \in [Callers -> Call]
  BY DEF Inv, TypeOK
<1>2. ASSUME NEW c \in Callers, EnterRefresh(c), ~Rejected(c)
      PROVE  call'[c].at = "fetching"
  BY <1>1, <1>2 DEF EnterRefresh, Call
<1>3. ASSUME NEW c \in Callers, EnterAuto(c), Due(c), ~Busy
      PROVE  call'[c].at = "fetching"
  BY <1>1, <1>3 DEF EnterAuto, Call
<1>4. ASSUME refreshing, \E c \in Callers : \/ Request(c) \/ (EnterRefresh(c) /\ Rejected(c))
                                            \/ (EnterAuto(c) /\ ~(Due(c) /\ ~Busy))
                                            \/ Arm(c) \/ \E t \in Time : TimerFires(t, c)
      PROVE  \E d \in Callers : call'[d].at = "fetching"
  <2>1. PICK d \in Callers : call[d].at = "fetching"
    BY <1>4 DEF Flagged, Fetching
  <2>2. PICK c \in Callers : \/ Request(c) \/ (EnterRefresh(c) /\ Rejected(c))
                             \/ (EnterAuto(c) /\ ~(Due(c) /\ ~Busy))
                             \/ Arm(c) \/ \E t \in Time : TimerFires(t, c)
    BY <1>4
  <2>3. call[c].at # "fetching"
    BY <2>2 DEF Request, EnterRefresh, EnterAuto, Arm, TimerFires
  <2>4. \E r : call' = [call EXCEPT ![c] = r]
    BY <2>2 DEF Request, EnterRefresh, EnterAuto, Arm, TimerFires
  <2> QED BY <1>1, <2>1, <2>3, <2>4
<1>5. CASE UNCHANGED <<refreshing, call>>
  BY <1>5 DEF Flagged, Fetching
<1>6. ASSUME NEW c \in Callers,
             \/ Request(c) \/ EnterRefresh(c) \/ EnterAuto(c) \/ Arm(c)
             \/ \E t \in Time : TimerFires(t, c)
      PROVE  \E d \in Callers : call'[d].at = "fetching"
  <2>1. CASE refreshing
    <3>1. EnterRefresh(c) => (EnterRefresh(c) /\ Rejected(c))
      BY <2>1 DEF Rejected
    <3>2. EnterAuto(c) => (EnterAuto(c) /\ ~(Due(c) /\ ~Busy))
      BY <2>1 DEF Busy
    <3> QED BY <1>4, <1>6, <2>1, <3>1, <3>2
  <2>2. CASE ~refreshing
    <3>1. EnterRefresh(c) => ~Rejected(c)
      BY <2>2 DEF EnterRefresh
    <3>2. EnterAuto(c) => Due(c) /\ ~Busy
      BY <2>2 DEF EnterAuto
    <3>3. ~(Request(c) \/ Arm(c) \/ \E t \in Time : TimerFires(t, c))
      BY <2>2 DEF Request, Arm, TimerFires, controller
    <3> QED BY <1>2, <1>3, <1>6, <3>1, <3>2, <3>3
  <2> QED BY <2>1, <2>2
<1>7. ASSUME \E c \in Callers : \/ FetchFails(c) \/ FetchRaises(c) \/ ReportRaises(c)
                                \/ \E rep \in Answers : FetchSucceeds(c, rep)
      PROVE  FALSE
  BY <1>7 DEF FetchSucceeds, FetchFails, FetchRaises, ReportRaises
<1>8. (Tick \/ (\E r \in Resources : Spend(r) \/ Reset(r)) \/ UNCHANGED vars)
        => UNCHANGED <<refreshing, call>>
  BY DEF Tick, Spend, Reset, vars, controller
<1> QED BY <1>5, <1>6, <1>7, <1>8 DEF Next

\* `_refreshing` is up only while a gh call is under way, if no report raises.
THEOREM FlagComesDown ==
  ASSUME ~Unparsable
  PROVE  Spec => []~Stuck
<1>1. Init => Flagged
  BY DEF Init, Flagged
<1>2. Inv /\ Flagged /\ [Next]_vars => Flagged'
  BY FlaggedStep
<1>3. Flagged => ~Stuck
  BY DEF Flagged, Stuck
<1> QED BY <1>1, <1>2, <1>3, Invariance, PTL DEF Spec

(***************************************************************************)
(* A pending refresh keeps its timer, if timers do not fire early and      *)
(* building a report never raises.                                         *)
(***************************************************************************)
\* What a pending schedule can rely on: a timer, or one of the calls.
Timed == \E t \in Time : timers[t] > 0 /\ t >= NextAt(schedule)
Carries(c) ==
  \/ c \in AutoTasks /\ call[c].at = "called" /\ call[c].now >= NextAt(schedule)
  \/ c \in AutoTasks /\ call[c].at = "fetching" /\ call[c].target = schedule.reset
  \/ call[c].at = "arming" /\ call[c].next = NextAt(schedule)

LEMMA CoverSplit == PendingHasTimer <=> (schedule.pending => Timed \/ \E c \in Callers : Carries(c))
BY DEF PendingHasTimer, Covered, Timed, Carries

LEMMA CoverSplitNext ==
  PendingHasTimer' <=> (schedule'.pending => Timed' \/ \E c \in Callers : Carries(c)')
BY DEF PendingHasTimer, Covered, Timed, Carries, NextAt

\* A step that keeps the schedule and the timers and rewrites a call that
\* carries nothing leaves the cover in place.
LEMMA CoverKept ==
  ASSUME Inv, PendingHasTimer, NEW c \in Callers, NEW r, ~(schedule.pending /\ Carries(c)),
         call' = [call EXCEPT ![c] = r], UNCHANGED schedule,
         \A t \in Time : timers[t] > 0 => timers'[t] > 0
  PROVE  PendingHasTimer'
<1>1. \A d \in Callers : d # c => call'[d] = call[d]
  BY DEF Inv, TypeOK
<1>2. ASSUME schedule.pending PROVE Timed' \/ \E d \in Callers : Carries(d)'
  <2>1. CASE Timed
    BY <2>1 DEF Timed, NextAt
  <2>2. ASSUME NEW d \in Callers, Carries(d) PROVE Carries(d)'
    <3>1. d # c
      BY <1>2, <2>2
    <3> QED BY <1>1, <2>2, <3>1 DEF Carries, NextAt
  <2> QED BY <1>2, <2>1, <2>2, CoverSplit
<1> QED BY <1>2, CoverSplitNext

LEMMA CoverEnvironment ==
  ASSUME PendingHasTimer, UNCHANGED <<timers, call, schedule>>
  PROVE  PendingHasTimer'
BY DEF PendingHasTimer, Covered, NextAt

\* Due or late, a timer hands its schedule to the task that it starts.
LEMMA CoverTimerFires ==
  ASSUME Early = 0, Inv, PendingHasTimer, NEW c \in Callers, NEW t \in Time, TimerFires(t, c)
  PROVE  PendingHasTimer'
<1> DEFINE r == [Idle EXCEPT !.at = "called", !.now = clock]
<1>1. /\ call \in [Callers -> Call] /\ timers \in [Time -> 0 .. Copies]
      /\ clock \in Time /\ schedule \in Schedule
  BY DEF Inv, TypeOK
<1>2. c \in AutoTasks /\ call[c].at = "idle" /\ timers[t] > 0 /\ clock >= t
  BY Bounds, <1>1 DEF TimerFires
<1>3. call' = [call EXCEPT ![c] = r] /\ timers' = [timers EXCEPT ![t] = @ - 1]
      /\ UNCHANGED schedule
  BY DEF TimerFires, controller
<1>4. r.at = "called" /\ r.now = clock
  BY DEF Idle
<1> HIDE DEF r
<1>5. call'[c] = r /\ \A d \in Callers : d # c => call'[d] = call[d]
  BY <1>1, <1>3
<1>6. ASSUME schedule.pending PROVE Timed' \/ \E d \in Callers : Carries(d)'
  <2>1. NextAt(schedule) \in Time
    BY <1>6, NextTyped DEF Inv, TypeOK
  <2>2. CASE t >= NextAt(schedule)
    <3>1. Carries(c)'
      BY <1>1, <1>2, <1>3, <1>4, <1>5, <2>1, <2>2, Bounds DEF Carries, NextAt
    <3> QED BY <3>1
  <2>3. CASE Timed /\ ~(t >= NextAt(schedule))
    BY <1>1, <1>3, <2>3 DEF Timed, NextAt
  <2>4. ASSUME NEW d \in Callers, Carries(d) PROVE Carries(d)'
    <3>1. d # c
      BY <1>2, <2>4 DEF Carries
    <3> QED BY <1>3, <1>5, <2>4, <3>1 DEF Carries, NextAt
  <2> QED BY <1>6, <2>2, <2>3, <2>4, CoverSplit
<1> QED BY <1>3, <1>6, CoverSplitNext

\* The caller of a snapshot arms a timer that is not before the snapshot's time.
LEMMA CoverArm ==
  ASSUME Inv, PendingHasTimer, NEW c \in Callers, Arm(c)
  PROVE  PendingHasTimer'
<1> DEFINE due == IF call[c].next <= clock THEN clock ELSE call[c].next
<1>1. /\ due \in Time /\ due >= call[c].next /\ call[c].next \in Time
      /\ timers \in [Time -> 0 .. Copies]
  BY Bounds DEF Inv, TypeOK, Locals, Arm
<1>2. timers' = IF timers[due] < Copies THEN [timers EXCEPT ![due] = @ + 1] ELSE timers
  BY DEF Arm, ArmTimer
<1>3. call' = [call EXCEPT ![c] = Idle] /\ UNCHANGED schedule /\ call[c].at = "arming"
  BY DEF Arm, controller
<1> HIDE DEF due
<1>4. timers'[due] > 0 /\ \A t \in Time : timers[t] > 0 => timers'[t] > 0
  BY <1>1, <1>2, Bounds
<1>5. CASE schedule.pending /\ Carries(c)
  <2>1. Timed'
    BY <1>1, <1>3, <1>4, <1>5 DEF Timed, Carries, NextAt
  <2> QED BY <2>1, CoverSplitNext
<1>6. CASE ~(schedule.pending /\ Carries(c))
  BY <1>3, <1>4, <1>6, CoverKept
<1> QED BY <1>5, <1>6

LEMMA CoverEnterAuto ==
  ASSUME Inv, PendingHasTimer, NEW c \in Callers, EnterAuto(c)
  PROVE  PendingHasTimer'
<1> USE DEF Busy
<1>1. /\ call \in [Callers -> Call] /\ schedule \in Schedule /\ c \in AutoTasks
      /\ call[c].at = "called" /\ UNCHANGED timers
  BY DEF Inv, TypeOK, EnterAuto
<1>2. CASE ~Due(c)
  <2>1. call' = [call EXCEPT ![c] = Idle] /\ UNCHANGED schedule
    BY <1>2 DEF EnterAuto
  <2>2. ~(schedule.pending /\ Carries(c))
    BY <1>1, <1>2 DEF Carries, Due
  <2> QED BY <1>1, <2>1, <2>2, CoverKept
<1>3. CASE Due(c) /\ refreshing
  <2>1. ~schedule'.pending
    BY <1>1, <1>3, ConsumedSound DEF EnterAuto
  <2> QED BY <2>1 DEF PendingHasTimer
<1>4. CASE Due(c) /\ ~refreshing
  <2>1. call'[c].at = "fetching" /\ call'[c].target = schedule.reset /\ UNCHANGED schedule
    BY <1>1, <1>4 DEF EnterAuto, Call
  <2>2. Carries(c)'
    BY <1>1, <2>1 DEF Carries
  <2> QED BY <2>2, CoverSplitNext
<1> QED BY <1>2, <1>3, <1>4

\* A call that returns a snapshot carries whatever the outcome left pending.
LEMMA CoverReturn ==
  ASSUME Inv, NEW c \in Callers, Return(c, schedule')
  PROVE  PendingHasTimer'
<1> SUFFICES ASSUME schedule'.pending PROVE Carries(c)'
  BY CoverSplitNext
<1>1. call'[c] = [Idle EXCEPT !.at = "arming", !.next = NextAt(schedule')]
  BY DEF Return, Inv, TypeOK
<1>2. call'[c].at = "arming" /\ call'[c].next = NextAt(schedule')
  BY <1>1 DEF Idle
<1> QED BY <1>2 DEF Carries, NextAt

LEMMA CoverRaises ==
  ASSUME Inv, PendingHasTimer, NEW c \in Callers, FetchRaises(c)
  PROVE  PendingHasTimer'
<1>1. schedule' = Attempted(c) /\ call' = [call EXCEPT ![c] = Idle] /\ UNCHANGED timers
      /\ call[c].at = "fetching"
  BY DEF FetchRaises, Fetching
<1>2. CASE c \in AutoTasks
  <2>1. ~schedule'.pending
    BY <1>1, <1>2, ConsumedSound DEF Attempted, Inv, TypeOK
  <2> QED BY <2>1 DEF PendingHasTimer
<1>3. CASE c \notin AutoTasks
  <2>1. UNCHANGED schedule /\ ~Carries(c)
    BY <1>1, <1>3 DEF Attempted, Carries
  <2> QED BY <1>1, <2>1, CoverKept
<1> QED BY <1>2, <1>3

LEMMA CoverNext ==
  ASSUME Early = 0, ~Unparsable, Inv, PendingHasTimer, [Next]_vars
  PROVE  PendingHasTimer'
<1>1. CASE Tick \/ (\E r \in Resources : Spend(r) \/ Reset(r)) \/ UNCHANGED vars
  BY <1>1, CoverEnvironment DEF Tick, Spend, Reset, vars, controller
<1>2. ASSUME NEW c \in Callers, Request(c) PROVE PendingHasTimer'
  BY <1>2, CoverKept DEF Request, Carries, controller
<1>3. ASSUME NEW c \in Callers, EnterRefresh(c) PROVE PendingHasTimer'
  <2>1. c \in Clients /\ c \notin AutoTasks /\ call[c].at = "called" /\ UNCHANGED <<schedule, timers>>
    BY <1>3 DEF EnterRefresh
  <2>2. \E r : call' = [call EXCEPT ![c] = r]
    BY <1>3 DEF EnterRefresh
  <2>3. ~Carries(c)
    BY <2>1 DEF Carries
  <2> QED BY <2>1, <2>2, <2>3, CoverKept
<1>4. ASSUME NEW c \in Callers, EnterAuto(c) PROVE PendingHasTimer'
  BY <1>4, CoverEnterAuto
<1>5. ASSUME NEW c \in Callers, NEW t \in Time, TimerFires(t, c) PROVE PendingHasTimer'
  BY <1>5, CoverTimerFires
<1>6. ASSUME NEW c \in Callers, Arm(c) PROVE PendingHasTimer'
  BY <1>6, CoverArm
<1>7. ASSUME NEW c \in Callers, FetchFails(c) \/ \E rep \in Answers : FetchSucceeds(c, rep)
      PROVE  PendingHasTimer'
  <2>1. Return(c, schedule')
    BY <1>7 DEF FetchFails, FetchSucceeds
  <2> QED BY <2>1, CoverReturn
<1>8. ASSUME NEW c \in Callers, FetchRaises(c) PROVE PendingHasTimer'
  BY <1>8, CoverRaises
<1>9. ~\E c \in Callers : ReportRaises(c)
  BY DEF ReportRaises
<1> QED BY <1>1, <1>2, <1>3, <1>4, <1>5, <1>6, <1>7, <1>8, <1>9 DEF Next

\* A pending automatic refresh always has something that will run it.
THEOREM PendingKeepsItsTimer ==
  ASSUME Early = 0, ~Unparsable
  PROVE  Spec => []PendingHasTimer
<1>1. Init => PendingHasTimer
  BY DEF Init, PendingHasTimer
<1>2. Inv /\ PendingHasTimer /\ [Next]_vars => PendingHasTimer'
  BY CoverNext
<1> QED BY <1>1, <1>2, Invariance, PTL DEF Spec
============================================================================
