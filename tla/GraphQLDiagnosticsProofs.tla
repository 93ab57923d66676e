---------------------- MODULE GraphQLDiagnosticsProofs ----------------------
EXTENDS GraphQLDiagnostics, FiniteSetTheorems, TLAPS

OpTyped == op \in [Procs -> OpState]

(***************************************************************************)
(* What the pure functions return.                                         *)
(***************************************************************************)
LEMMA GraphqlDeltaType ==
  ASSUME NEW previous \in Resource \cup {None}, NEW current \in Resource
  PROVE  /\ GraphqlDelta(previous, current).outcome
              \in {"ok", "no_previous", "reset_boundary", "counter_regression"}
         /\ GraphqlDelta(previous, current).delta \in (0 .. Limit) \cup {None}
  BY NoneAssumption, BoundAssumption DEF GraphqlDelta, Resource

LEMMA AttributionType ==
  ASSUME NEW outcome \in {"ok", "no_previous", "reset_boundary", "counter_regression", "fetch_failed"},
         NEW active
  PROVE  Attribution(outcome, active) \in
           {"UNATTRIBUTED", "SINGLE_ACTIVITY_CORRELATION", "OVERLAPPING_ACTIVITIES",
            "RESET_BOUNDARY", "COUNTER_REGRESSION", "FETCH_FAILED"}
  BY DEF Attribution

LEMMA SessionTotalType ==
  ASSUME NEW first \in Resource, NEW last \in Resource
  PROVE  SessionTotal(first, last) \in (0 .. Limit) \cup {None}
  BY NoneAssumption, BoundAssumption DEF SessionTotal, Resource

LEMMA EndedType ==
  ASSUME NEW row \in SessionRow, NEW status \in Terminal,
         NEW at \in Time \cup {None}, NEW last \in Resource \cup {None}
  PROVE  /\ Ended(row, status, at, last) \in SessionRow
         /\ Ended(row, status, at, last).status = status
         /\ Ended(row, status, at, last).user = row.user
<1>1. row.start \in Resource
  BY DEF SessionRow
<1>2. last # None => SessionTotal(row.start, last) \in (0 .. Limit) \cup {None} /\ last.used \in (0 .. Limit) \cup {None}
  BY <1>1, SessionTotalType DEF Resource
<1> DEFINE e == IF last = None THEN None ELSE last.used
           t == IF last = None THEN None ELSE SessionTotal(row.start, last)
<1>3. e \in (0 .. Limit) \cup {None} /\ t \in (0 .. Limit) \cup {None}
  BY <1>2
<1>4. Ended(row, status, at, last) =
        [row EXCEPT !.status = status, !.endedAt = at, !.usedEnd = e, !.total = t]
  BY DEF Ended
<1> HIDE DEF e, t
<1>5. QED
  BY <1>3, <1>4 DEF SessionRow

LEMMA ClassifiedType ==
  ASSUME OpTyped, cursor \in Resource \cup {None}, NEW p \in Procs, op[p].at \in Time, NEW res \in Resource
  PROVE  Classified(p, res) \in SampleRow
<1> DEFINE d == GraphqlDelta(cursor, res)
<1>1. /\ d.outcome \in {"ok", "no_previous", "reset_boundary", "counter_regression"}
      /\ d.delta \in (0 .. Limit) \cup {None}
  BY GraphqlDeltaType
<1>2. Attribution(d.outcome, ActiveCount(p)) \in
        {"UNATTRIBUTED", "SINGLE_ACTIVITY_CORRELATION", "OVERLAPPING_ACTIVITIES",
         "RESET_BOUNDARY", "COUNTER_REGRESSION", "FETCH_FAILED"}
  BY <1>1, AttributionType
<1>3. op[p].sid \in SessionIds \cup {None}
  BY DEF OpTyped, OpState
<1> HIDE DEF d
<1>4. res.used \in (0 .. Limit) \cup {None} /\ res.win \in (0 .. MaxWindow) \cup {None}
  BY DEF Resource
<1>5. Classified(p, res) = [at |-> op[p].at, used |-> res.used, win |-> res.win, delta |-> d.delta,
         status |-> d.outcome, attr |-> Attribution(d.outcome, ActiveCount(p)), trigger |-> op[p].sid]
  BY DEF Classified, d
<1>6. QED
  BY <1>1, <1>2, <1>3, <1>4, <1>5 DEF SampleRow

LEMMA FailedSampleType ==
  ASSUME OpTyped, NEW p \in Procs, op[p].at \in Time
  PROVE  FailedSample(p) \in SampleRow
<1>1. Attribution("fetch_failed", ActiveCount(p)) = "FETCH_FAILED"
  BY DEF Attribution
<1>2. op[p].sid \in SessionIds \cup {None}
  BY DEF OpTyped, OpState
<1>3. QED
  BY <1>1, <1>2 DEF FailedSample, SampleRow

(***************************************************************************)
(* Types.                                                                  *)
(***************************************************************************)

\* What a step may rely on in the locals of an operation: a fetch has read
\* the clock, and whoever writes a sample has one.
Ready ==
  \A p \in Procs : /\ op[p].pc = "fetch" => op[p].at \in Time
                   /\ op[p].pc \in {"create", "close", "persist"} => op[p].row \in SampleRow

LEMMA IdleType == Idle \in OpState /\ Asleep \in OpState /\ Idle.pc = "idle" /\ Asleep.pc = "asleep"
  BY DEF Idle, Asleep, OpState

\* A process gets a new record of locals, the others keep theirs.
LEMMA OpStep ==
  ASSUME OpTyped, Ready, NEW p \in Procs, NEW o \in OpState,
         o.pc = "fetch" => o.at \in Time,
         o.pc \in {"create", "close", "persist"} => o.row \in SampleRow,
         op' = [op EXCEPT ![p] = o]
  PROVE  OpTyped' /\ Ready'
  BY DEF OpTyped, Ready

LEMMA GotoType ==
  ASSUME OpTyped, Ready, NEW p \in Procs,
         NEW pc \in {"identity", "persist", "end", "settle", "autostop"},
         pc = "persist" => op[p].row \in SampleRow, Goto(p, pc)
  PROVE  OpTyped' /\ Ready'
<1>1. [op[p] EXCEPT !.pc = pc] \in OpState
  BY DEF OpTyped, OpState
<1>2. op' = [op EXCEPT ![p] = [op[p] EXCEPT !.pc = pc]]
  BY DEF OpTyped, Goto
<1>3. [op[p] EXCEPT !.pc = pc].pc = pc /\ [op[p] EXCEPT !.pc = pc].row = op[p].row
  BY DEF OpTyped, OpState
<1>4. QED
  BY <1>1, <1>2, <1>3, OpStep

LEMMA LeaveType ==
  ASSUME OpTyped, Ready, NEW p \in Procs, Leave(p) \/ LeaveStarting(p) \/ LeaveStopping(p)
  PROVE  OpTyped' /\ Ready'
  BY IdleType DEF Leave, LeaveStarting, LeaveStopping, OpTyped, Ready

LEMMA StartOp ==
  ASSUME TypeOK, Ready, NEW c \in Clients, StartStep(c)
  PROVE  OpTyped' /\ Ready'
<1> OpTyped /\ c \in Procs
  BY DEF TypeOK, OpTyped, Procs
<1>1. CASE StartSession(c)
  BY <1>1, GotoType DEF StartSession
<1>2. CASE IdentityFetched(c) /\ ~Leave(c)
  <2> DEFINE o == [op[c] EXCEPT !.pc = "fetch", !.user = account, !.at = now, !.seen = Active]
  <2>1. op' = [op EXCEPT ![c] = o]
    BY <1>2 DEF IdentityFetched, OpTyped
  <2>2. o \in OpState /\ o.pc = "fetch" /\ o.at \in Time
    BY DEF TypeOK, OpTyped, OpState, Active
  <2> HIDE DEF o
  <2>3. QED
    BY <2>1, <2>2, OpStep
<1>3. CASE Leave(c)
  BY <1>3, LeaveType
<1>4. QED
  BY <1>1, <1>2, <1>3 DEF StartStep, IdentityFailed

LEMMA StopOp ==
  ASSUME TypeOK, Ready, NEW c \in Clients, NEW s \in SessionIds, StopSession(c, s)
  PROVE  OpTyped' /\ Ready'
<1> OpTyped /\ c \in Procs
  BY DEF TypeOK, OpTyped, Procs
<1>1. CASE Stoppable(s)
  <2> DEFINE o == [op[c] EXCEPT !.pc = "fetch", !.sid = s, !.at = now, !.seen = Active]
  <2>1. op' = [op EXCEPT ![c] = o]
    BY <1>1 DEF StopSession, OpTyped
  <2>2. o \in OpState /\ o.pc = "fetch" /\ o.at \in Time
    BY DEF TypeOK, OpTyped, OpState, Active
  <2> HIDE DEF o
  <2>3. QED
    BY <2>1, <2>2, OpStep
<1>2. CASE ~Stoppable(s)
  BY <1>2, GotoType DEF StopSession
<1>3. QED
  BY <1>1, <1>2

LEMMA FetchOp ==
  ASSUME TypeOK, Ready, NEW p \in Procs, FetchStep(p)
  PROVE  OpTyped' /\ Ready' /\ cursor' \in Resource \cup {None}
<1> OpTyped
  BY DEF TypeOK, OpTyped
<1>1. op[p].at \in Time
  BY DEF FetchStep, Fetched, FetchedUnusable, FetchFailed, Ready
<1>2. AfterFetch(p) \in {"create", "persist"}
  BY DEF AfterFetch
<1>3. ASSUME NEW res \in Resource \cup {None}, NEW row \in SampleRow,
             op' = [op EXCEPT ![p].pc = AfterFetch(p), ![p].res = res, ![p].row = row]
      PROVE  OpTyped' /\ Ready'
  <2> DEFINE o == [op[p] EXCEPT !.pc = AfterFetch(p), !.res = res, !.row = row]
  <2>1. op' = [op EXCEPT ![p] = o]
    BY <1>3 DEF OpTyped
  <2>2. o \in OpState /\ o.pc # "fetch" /\ o.row \in SampleRow
    BY <1>2 DEF OpTyped, OpState
  <2> HIDE DEF o
  <2>3. QED
    BY <2>1, <2>2, OpStep
<1>4. ASSUME NEW res \in Resource, SampleTaken(p, res)
      PROVE  OpTyped' /\ Ready' /\ cursor' \in Resource \cup {None}
  <2>1. Classified(p, res) \in SampleRow
    BY <1>1, ClassifiedType DEF TypeOK
  <2>2. QED
    BY <2>1, <1>3, <1>4 DEF SampleTaken
<1>5. CASE Fetched(p)
  <2>1. quota[account] \in Resource
    BY DEF TypeOK, Resource
  <2>2. QED
    BY <1>4, <1>5, <2>1 DEF Fetched
<1>6. CASE FetchedUnusable(p)
  <2>1. Unusable \in Resource
    BY DEF Unusable, Resource
  <2>2. QED
    BY <1>4, <1>6, <2>1 DEF FetchedUnusable
<1>7. CASE FetchFailed(p)
  <2>1. FailedSample(p) \in SampleRow
    BY <1>1, FailedSampleType
  <2>2. QED
    BY <2>1, <1>3, <1>7 DEF FetchFailed
<1>8. QED
  BY <1>5, <1>6, <1>7 DEF FetchStep

LEMMA CommitOp ==
  ASSUME TypeOK, Ready, NEW p \in Procs, CommitStep(p)
  PROVE  OpTyped' /\ Ready'
<1> OpTyped
  BY DEF TypeOK, OpTyped
<1>1. CASE CreateSession(p)
  <2>1. PICK s \in SessionIds :
          op' = [op EXCEPT ![p].sid = s, ![p].row.trigger = s, ![p].pc = AfterCreate(op[p].res)]
    BY <1>1 DEF CreateSession
  <2>2. op[p].row \in SampleRow /\ op[p] \in OpState
    BY <1>1 DEF CreateSession, Ready, OpTyped
  <2> DEFINE row == [op[p].row EXCEPT !.trigger = s]
             o   == [op[p] EXCEPT !.sid = s, !.row = row, !.pc = AfterCreate(op[p].res)]
  <2>3. row \in SampleRow
    BY <2>2 DEF SampleRow
  <2>4. op' = [op EXCEPT ![p] = o]
    BY <2>1, <2>2 DEF OpTyped, OpState
  <2> HIDE DEF row
  <2>5. AfterCreate(op[p].res) \in {"close", "persist"}
    BY DEF AfterCreate
  <2>6. o \in OpState /\ o.pc # "fetch" /\ o.row = row
    BY <2>2, <2>3, <2>5 DEF OpState
  <2> HIDE DEF o
  <2>7. QED
    BY <2>3, <2>4, <2>6, OpStep
<1>2. CASE CloseExhausted(p)
  BY <1>2, GotoType DEF CloseExhausted, Ready
<1>3. CASE EndSession(p)
  BY <1>3, GotoType DEF EndSession
<1>4. CASE Settle(p)
  BY <1>4, LeaveType DEF Settle
<1>5. CASE PersistSample(p)
  BY <1>5, LeaveType, GotoType DEF PersistSample
<1>6. QED
  BY <1>1, <1>2, <1>3, <1>4, <1>5 DEF CommitStep

LEMMA TickOp ==
  ASSUME TypeOK, Ready, TickStep
  PROVE  OpTyped' /\ Ready'
<1> OpTyped /\ Sampler \in Procs
  BY DEF TypeOK, OpTyped, Procs
<1>1. CASE Tick /\ ~LeaveStopping(Sampler)
  <2> DEFINE o == [op[Sampler] EXCEPT !.pc = "fetch", !.at = now, !.seen = Active]
  <2>1. op' = [op EXCEPT ![Sampler] = o]
    BY <1>1 DEF Tick, OpTyped
  <2>2. o \in OpState /\ o.pc = "fetch" /\ o.at \in Time
    BY DEF TypeOK, OpTyped, OpState, Active
  <2> HIDE DEF o
  <2>3. QED
    BY <2>1, <2>2, OpStep
<1>2. CASE Leave(Sampler) \/ LeaveStopping(Sampler)
  BY <1>2, LeaveType
<1>3. CASE \E s \in SessionIds : AutoStop(s)
  BY <1>3 DEF AutoStop, memory, OpTyped, Ready
<1>4. QED
  BY <1>1, <1>2, <1>3 DEF TickStep, TickDone

LEMMA OpTypes ==
  ASSUME TypeOK, Ready, [Next]_vars
  PROVE  OpTyped' /\ Ready'
<1> OpTyped
  BY DEF TypeOK, OpTyped
<1>1. CASE ProcessExit
  BY <1>1, IdleType DEF ProcessExit, OpTyped, Ready
<1>2. CASE UNCHANGED op
  BY <1>2 DEF OpTyped, Ready
<1>3. Boot \/ Reconcile \/ World \/ UNCHANGED vars => UNCHANGED op
  BY DEF Boot, Reconcile, BootDone, ReconcileSession, World, ClockTick, Consume, WindowReset, SwitchAccount,
     memory, vars
<1>4. ASSUME NEW p \in Procs, CommitFails(p)
      PROVE  OpTyped' /\ Ready'
  BY <1>4, LeaveType DEF CommitFails
<1>5. QED
  BY <1>1, <1>2, <1>3, <1>4, StartOp, StopOp, FetchOp, CommitOp, TickOp DEF Next

LEMMA CursorType ==
  ASSUME TypeOK, Ready, [Next]_vars
  PROVE  cursor' \in Resource \cup {None}
<1>1. UNCHANGED cursor => cursor' \in Resource \cup {None}
  BY DEF TypeOK
<1>2. ASSUME NEW c \in Clients, StartStep(c) PROVE UNCHANGED cursor
  BY <1>2 DEF StartStep, StartSession, IdentityFetched, IdentityFailed
<1>3. ASSUME NEW c \in Clients, NEW s \in SessionIds, StopSession(c, s) PROVE UNCHANGED cursor
  BY <1>3 DEF StopSession
<1>4. ASSUME NEW p \in Procs, CommitStep(p) \/ CommitFails(p) PROVE UNCHANGED cursor
  BY <1>4 DEF CommitStep, CommitFails, CreateSession, CloseExhausted, EndSession, Settle, PersistSample
<1>5. TickStep => UNCHANGED cursor
  BY DEF TickStep, Tick, TickDone, AutoStop, memory
<1>6. Boot \/ Reconcile \/ World \/ UNCHANGED vars => UNCHANGED cursor
  BY DEF Boot, Reconcile, BootDone, ReconcileSession, World, ClockTick, Consume, WindowReset, SwitchAccount,
     memory, vars
<1>7. ProcessExit => cursor' \in Resource \cup {None}
  BY DEF ProcessExit
<1>8. QED
  BY <1>1, <1>2, <1>3, <1>4, <1>5, <1>6, <1>7, FetchOp DEF Next

LEMMA TableTypes ==
  ASSUME TypeOK, Ready, [Next]_vars
  PROVE  sessions' \in [SessionIds -> SessionRow] /\ samples' \in Seq(SampleRow)
<1> DEFINE Typed == sessions' \in [SessionIds -> SessionRow] /\ samples' \in Seq(SampleRow)
<1> OpTyped /\ sessions \in [SessionIds -> SessionRow] /\ samples \in Seq(SampleRow)
  BY DEF TypeOK, OpTyped
<1>1. UNCHANGED tables => Typed
  BY DEF tables
<1>2. ASSUME NEW c \in Clients, StartStep(c) PROVE UNCHANGED tables
  BY <1>2 DEF StartStep, StartSession, IdentityFetched, IdentityFailed
<1>3. ASSUME NEW c \in Clients, NEW s \in SessionIds, StopSession(c, s) PROVE UNCHANGED tables
  BY <1>3 DEF StopSession
<1>4. ASSUME NEW p \in Procs, FetchStep(p) \/ CommitFails(p) \/ Settle(p) PROVE UNCHANGED tables
  BY <1>4 DEF FetchStep, Fetched, FetchedUnusable, FetchFailed, CommitFails, Settle
<1>5. ASSUME NEW p \in Procs, CreateSession(p) PROVE Typed
  <2> DEFINE row == [Unused EXCEPT !.status = IF Exhausted(op[p].res) THEN "EXHAUSTED" ELSE "ACTIVE",
                                   !.user = op[p].user, !.startedAt = op[p].at,
                                   !.start = IF op[p].res = None THEN Unusable ELSE op[p].res]
  <2>1. PICK s \in SessionIds : sessions' = [sessions EXCEPT ![s] = row]
    BY <1>5 DEF CreateSession
  <2>2. op[p].user \in Accounts \cup {None} /\ op[p].at \in Time \cup {None} /\ op[p].res \in Resource \cup {None}
    BY DEF OpTyped, OpState
  <2>3. Unusable \in Resource
    BY DEF Unusable, Resource
  <2>4. row \in SessionRow
    BY <2>2, <2>3 DEF SessionRow, Unused, Terminal
  <2> HIDE DEF row
  <2>5. QED
    BY <1>5, <2>1, <2>4 DEF CreateSession
<1>6. ASSUME NEW s \in SessionIds, NEW status \in Terminal, NEW at \in Time \cup {None},
             NEW last \in Resource \cup {None},
             sessions' = [sessions EXCEPT ![s] = Ended(@, status, at, last)], UNCHANGED samples
      PROVE  Typed
  <2>1. Ended(sessions[s], status, at, last) \in SessionRow
    BY EndedType
  <2>2. QED
    BY <1>6, <2>1
<1>7. ASSUME NEW p \in Procs, NEW s \in SessionIds \cup {None}, NEW status \in Terminal, NEW at \in Time \cup {None},
             NEW last \in Resource \cup {None},
             sessions' = [sessions EXCEPT ![s] = Ended(@, status, at, last)], UNCHANGED samples
      PROVE  Typed
  <2>1. CASE s \in SessionIds
    BY <1>6, <1>7, <2>1
  <2>2. CASE s \notin SessionIds
    BY <1>7, <2>2
  <2>3. QED
    BY <2>1, <2>2
<1>8. ASSUME NEW p \in Procs, CloseExhausted(p) \/ EndSession(p) PROVE Typed
  <2>1. op[p].sid \in SessionIds \cup {None} /\ op[p].at \in Time \cup {None} /\ op[p].res \in Resource \cup {None}
    BY DEF OpTyped, OpState
  <2>2. CASE CloseExhausted(p)
    BY <1>7, <2>1, <2>2 DEF CloseExhausted, Terminal
  <2>3. CASE EndSession(p)
    BY <1>7, <2>1, <2>3 DEF EndSession, Terminal
  <2>4. QED
    BY <1>8, <2>2, <2>3
<1>9. ASSUME NEW p \in Procs, PersistSample(p) PROVE Typed
  <2>1. op[p].row \in SampleRow
    BY <1>9 DEF PersistSample, Ready
  <2>2. QED
    BY <1>9, <2>1 DEF PersistSample
<1>10. ASSUME NEW s \in SessionIds, AutoStop(s) PROVE Typed
  <2>1. op[Sampler].at \in Time \cup {None} /\ op[Sampler].res \in Resource \cup {None}
    BY DEF OpTyped, OpState, Procs
  <2>2. PICK status \in Terminal : sessions' = [sessions EXCEPT ![s] = Ended(@, status, op[Sampler].at, op[Sampler].res)]
    BY <1>10 DEF AutoStop, Terminal
  <2>3. QED
    BY <1>6, <1>10, <2>1, <2>2 DEF AutoStop
<1>11. ASSUME NEW s \in SessionIds, ReconcileSession(s) PROVE Typed
  BY <1>6, <1>11 DEF ReconcileSession, Terminal, TypeOK
<1>12. Tick \/ TickDone \/ ProcessExit \/ Boot \/ BootDone \/ World \/ UNCHANGED vars => UNCHANGED tables
  BY DEF Tick, TickDone, ProcessExit, Boot, BootDone, World, ClockTick, Consume, WindowReset, SwitchAccount, vars
<1> HIDE DEF Typed
<1>13. Typed
  BY <1>1, <1>2, <1>3, <1>4, <1>5, <1>8, <1>9, <1>10, <1>11, <1>12
     DEF Next, CommitStep, TickStep, Reconcile
<1>14. QED
  BY <1>13 DEF Typed

LEMMA Bounds == {MaxSessions, Limit, MaxWindow, MaxTime, Period} \subseteq Nat
  BY BoundAssumption

LEMMA BoundTypes == MaxTime \in Nat /\ Period \in Nat /\ Limit \in Nat /\ MaxWindow \in Nat
  BY Bounds

LEMMA LockTypes ==
  ASSUME TypeOK, [Next]_vars
  PROVE  holder' \in Procs \cup {None} /\ wake' \in Time
<1> DEFINE Typed == holder' \in Procs \cup {None} /\ wake' \in Time
<1>1. NextWake \in Time
  <2>1. now \in 0 .. MaxTime
    BY DEF TypeOK, Time
  <2>2. QED
    BY <2>1, BoundTypes DEF NextWake, Time
<1>2. UNCHANGED <<holder, wake>> => Typed
  BY DEF TypeOK
<1>3. ASSUME NEW p \in Procs, Leave(p) \/ LeaveStarting(p) \/ LeaveStopping(p) PROVE Typed
  BY <1>1, <1>3 DEF Leave, LeaveStarting, LeaveStopping, TypeOK
<1>4. ASSUME NEW p \in Procs, Acquire(p), UNCHANGED wake PROVE Typed
  BY <1>4 DEF Acquire, TypeOK
<1>5. Clients \subseteq Procs /\ Sampler \in Procs
  BY DEF Procs
<1>6. ASSUME NEW c \in Clients, StartStep(c) PROVE Typed
  BY <1>2, <1>3, <1>4, <1>5, <1>6 DEF StartStep, StartSession, IdentityFetched, IdentityFailed
<1>7. ASSUME NEW c \in Clients, NEW s \in SessionIds, StopSession(c, s) PROVE Typed
  BY <1>4, <1>5, <1>7 DEF StopSession
<1>8. ASSUME NEW p \in Procs, FetchStep(p) PROVE Typed
  BY <1>2, <1>8 DEF FetchStep, Fetched, FetchedUnusable, FetchFailed
<1>9. ASSUME NEW p \in Procs, CommitStep(p) \/ CommitFails(p) PROVE Typed
  BY <1>2, <1>3, <1>9 DEF CommitStep, CommitFails, CreateSession, CloseExhausted, EndSession, Settle, PersistSample
<1>10. TickStep => Typed
  BY <1>2, <1>3, <1>5 DEF TickStep, Tick, TickDone, AutoStop, memory, TypeOK
<1>11. ProcessExit => Typed
  BY DEF ProcessExit, TypeOK
<1>12. Boot \/ Reconcile \/ World \/ UNCHANGED vars => Typed
  BY <1>2 DEF Boot, Reconcile, BootDone, ReconcileSession, World, ClockTick, Consume, WindowReset, SwitchAccount,
     memory, vars
<1>13. QED
  BY <1>6, <1>7, <1>8, <1>9, <1>10, <1>11, <1>12 DEF Next

LEMMA WorldTypes ==
  ASSUME TypeOK, [Next]_vars
  PROVE  /\ now' \in Time /\ account' \in Accounts
         /\ quota' \in [Accounts -> [used : 0 .. Limit, win : 0 .. MaxWindow]]
         /\ proc' \in {"up", "down", "booting"} /\ bootAt' \in Time
<1> DEFINE Typed == /\ now' \in Time /\ account' \in Accounts
                    /\ quota' \in [Accounts -> [used : 0 .. Limit, win : 0 .. MaxWindow]]
                    /\ proc' \in {"up", "down", "booting"} /\ bootAt' \in Time
<1>1. UNCHANGED <<external, proc, bootAt>> => Typed
  BY DEF TypeOK, external
<1>2. ASSUME NEW c \in Clients, StartStep(c) PROVE Typed
  BY <1>1, <1>2 DEF StartStep, StartSession, IdentityFetched, IdentityFailed
<1>3. ASSUME NEW c \in Clients, NEW s \in SessionIds, StopSession(c, s) PROVE Typed
  BY <1>1, <1>3 DEF StopSession
<1>4. ASSUME NEW p \in Procs, FetchStep(p) PROVE Typed
  BY <1>1, <1>4 DEF FetchStep, Fetched, FetchedUnusable, FetchFailed
<1>5. ASSUME NEW p \in Procs, CommitStep(p) \/ CommitFails(p) PROVE Typed
  BY <1>1, <1>5 DEF CommitStep, CommitFails, CreateSession, CloseExhausted, EndSession, Settle, PersistSample
<1>6. TickStep \/ UNCHANGED vars => Typed
  BY <1>1 DEF TickStep, Tick, TickDone, AutoStop, vars
<1>7. ProcessExit \/ Boot \/ Reconcile => Typed
  BY DEF ProcessExit, Boot, Reconcile, BootDone, ReconcileSession, external, TypeOK
<1>8. ClockTick => Typed
  <2> SUFFICES ASSUME ClockTick PROVE Typed
    OBVIOUS
  <2>1. now \in 0 .. MaxTime /\ now' = now + 1 /\ now < MaxTime
    BY DEF TypeOK, Time, ClockTick
  <2>2. now' \in Time
    BY <2>1, BoundTypes DEF Time
  <2>3. QED
    BY <2>2 DEF ClockTick, TypeOK
<1>9. ASSUME NEW a \in Accounts, Consume(a) PROVE Typed
  <2>1. quota[a] \in [used : 0 .. Limit, win : 0 .. MaxWindow]
    BY DEF TypeOK
  <2>2. [quota[a] EXCEPT !.used = @ + 1] \in [used : 0 .. Limit, win : 0 .. MaxWindow]
    BY <1>9, <2>1, BoundAssumption DEF Consume
  <2>3. QED
    BY <1>9, <2>2 DEF Consume, TypeOK
<1>10. ASSUME NEW a \in Accounts, WindowReset(a) PROVE Typed
  <2>1. quota[a] \in [used : 0 .. Limit, win : 0 .. MaxWindow]
    BY DEF TypeOK
  <2>2. [used |-> 0, win |-> quota[a].win + 1] \in [used : 0 .. Limit, win : 0 .. MaxWindow]
    BY <1>10, <2>1, BoundAssumption DEF WindowReset
  <2>3. QED
    BY <1>10, <2>2 DEF WindowReset, TypeOK
<1>11. ASSUME NEW a \in Accounts, SwitchAccount(a) PROVE Typed
  BY <1>11 DEF SwitchAccount, TypeOK
<1>12. QED
  BY <1>2, <1>3, <1>4, <1>5, <1>6, <1>7, <1>8, <1>9, <1>10, <1>11 DEF Next, World

LEMMA FaultTypes ==
  ASSUME TypeOK, [Next]_vars
  PROVE  faults' \in 0 .. MaxFaults
<1> DEFINE Typed == faults' \in 0 .. MaxFaults
<1>1. UNCHANGED faults => Typed
  BY DEF TypeOK
<1> faults \in 0 .. MaxFaults
  BY DEF TypeOK
<1>2. \A kind : Fault(kind) => Typed
  BY BoundAssumption DEF Fault
<1>3. ASSUME NEW c \in Clients, StartStep(c) PROVE Typed
  BY <1>1, <1>2, <1>3 DEF StartStep, StartSession, IdentityFetched, IdentityFailed
<1>4. ASSUME NEW c \in Clients, NEW s \in SessionIds, StopSession(c, s) PROVE Typed
  BY <1>1, <1>4 DEF StopSession
<1>5. ASSUME NEW p \in Procs, FetchStep(p) PROVE Typed
  BY <1>1, <1>2, <1>5 DEF FetchStep, Fetched, FetchedUnusable, FetchFailed
<1>6. ASSUME NEW p \in Procs, CommitStep(p) \/ CommitFails(p) PROVE Typed
  BY <1>1, <1>2, <1>6 DEF CommitStep, CommitFails, CreateSession, CloseExhausted, EndSession, Settle, PersistSample
<1>7. TickStep \/ Boot \/ Reconcile \/ UNCHANGED vars => Typed
  BY <1>1 DEF TickStep, Tick, TickDone, AutoStop, Boot, Reconcile, BootDone, ReconcileSession, vars
<1>8. ProcessExit => Typed
  BY <1>2 DEF ProcessExit
<1>9. World => Typed
  <2>1. ASSUME NEW a \in Accounts, SwitchAccount(a) PROVE Typed
    BY <1>2, <2>1 DEF SwitchAccount
  <2>2. QED
    BY <1>1, <2>1 DEF World, ClockTick, Consume, WindowReset
<1>10. QED
  BY <1>3, <1>4, <1>5, <1>6, <1>7, <1>8, <1>9 DEF Next

TypeInv == TypeOK /\ Ready

LEMMA TypeInit == Init => TypeInv
<1>1. ASSUME Init PROVE op \in [Procs -> OpState] /\ Ready
  BY <1>1, IdleType DEF Init, Ready
<1>2. ASSUME Init PROVE sessions \in [SessionIds -> SessionRow]
  <2>1. Unused \in SessionRow
    BY DEF Unused, SessionRow, Unusable, Resource
  <2>2. QED
    BY <1>2, <2>1 DEF Init
<1>3. QED
  BY <1>1, <1>2, BoundAssumption DEF Init, TypeInv, TypeOK, Time

LEMMA TypeStep == TypeInv /\ [Next]_vars => TypeInv'
<1> SUFFICES ASSUME TypeInv, [Next]_vars PROVE TypeInv'
  OBVIOUS
<1>1. TypeOK /\ Ready
  BY DEF TypeInv
<1>2. QED
  BY <1>1, OpTypes, CursorType, TableTypes, LockTypes, WorldTypes, FaultTypes DEF TypeInv, TypeOK, OpTyped

\* Every variable keeps its type in every reachable state.
THEOREM TypeCorrect == Spec => []TypeOK
<1>1. TypeInv => TypeOK
  BY DEF TypeInv
<1>2. QED
  BY <1>1, TypeInit, TypeStep, PTL DEF Spec

(***************************************************************************)
(* The operation lock.                                                     *)
(***************************************************************************)

\* An operation that is past the lock is the holder of the lock.
WorkersHoldLock == \A p \in Procs : Working(p) => holder = p

\* What a step of one process leaves alone: the operations of the others.
Elsewhere(p) == \A q \in Procs : q # p => op'[q] = op[q]

LEMMA LeaveLock ==
  ASSUME OpTyped, NEW p \in Procs, Leave(p) \/ LeaveStarting(p) \/ LeaveStopping(p),
         WorkersHoldLock, holder \in {p, None}
  PROVE  WorkersHoldLock'
  BY NoneAssumption, ProcessAssumption
  DEF OpTyped, WorkersHoldLock, Working, Leave, LeaveStarting, LeaveStopping, Idle, Asleep, Procs

LEMMA KeepLock ==
  ASSUME NEW p \in Procs, Elsewhere(p), WorkersHoldLock, holder \in {p, None}, holder' = p
  PROVE  WorkersHoldLock'
<1>1. None \notin Procs
  BY NoneAssumption DEF Procs
<1>2. QED
  BY <1>1 DEF Elsewhere, WorkersHoldLock, Working

LEMMA StartLock ==
  ASSUME OpTyped, WorkersHoldLock, NEW c \in Clients, StartStep(c)
  PROVE  WorkersHoldLock'
<1> c \in Procs
  BY DEF Procs
<1>1. CASE StartSession(c)
  <2>1. Elsewhere(c)
    BY <1>1 DEF StartSession, Goto, OpTyped, Elsewhere
  <2>2. QED
    BY <1>1, <2>1, KeepLock DEF StartSession, Acquire
<1>2. CASE IdentityFetched(c) \/ IdentityFailed(c)
  <2>1. holder = c
    BY <1>2 DEF IdentityFetched, IdentityFailed, Working, WorkersHoldLock
  <2>2. CASE Leave(c)
    BY <2>1, <2>2, LeaveLock
  <2>3. CASE ~Leave(c)
    <3>1. Elsewhere(c) /\ holder' = c
      BY <1>2, <2>1, <2>3 DEF IdentityFetched, IdentityFailed, OpTyped, Elsewhere
    <3>2. QED
      BY <2>1, <3>1, KeepLock
  <2>4. QED
    BY <2>2, <2>3
<1>3. QED
  BY <1>1, <1>2 DEF StartStep

LEMMA FetchLock ==
  ASSUME OpTyped, WorkersHoldLock, NEW p \in Procs, FetchStep(p)
  PROVE  WorkersHoldLock' /\ holder = p /\ holder' = p /\ Elsewhere(p)
<1>1. holder = p
  BY DEF FetchStep, Fetched, FetchedUnusable, FetchFailed, Working, WorkersHoldLock
<1>2. Elsewhere(p) /\ holder' = p
  BY <1>1 DEF FetchStep, Fetched, FetchedUnusable, FetchFailed, SampleTaken, OpTyped, Elsewhere
<1>3. QED
  BY <1>1, <1>2, KeepLock

LEMMA CommitLock ==
  ASSUME OpTyped, WorkersHoldLock, NEW p \in Procs, CommitStep(p) \/ CommitFails(p)
  PROVE  WorkersHoldLock' /\ holder = p
<1>1. holder = p
  BY DEF CommitStep, CommitFails, CreateSession, CloseExhausted, EndSession, Settle, PersistSample,
     Working, WorkersHoldLock
<1>2. CASE Leave(p) \/ LeaveStarting(p) \/ LeaveStopping(p)
  BY <1>1, <1>2, LeaveLock
<1>3. ASSUME NEW pc, Goto(p, pc), UNCHANGED holder PROVE WorkersHoldLock'
  <2>1. Elsewhere(p)
    BY <1>3 DEF Goto, OpTyped, Elsewhere
  <2>2. QED
    BY <1>1, <1>3, <2>1, KeepLock
<1>4. CASE CreateSession(p)
  <2>1. Elsewhere(p)
    BY <1>4 DEF CreateSession, OpTyped, Elsewhere
  <2>2. QED
    BY <1>1, <1>4, <2>1, KeepLock DEF CreateSession
<1>5. QED
  BY <1>1, <1>2, <1>3, <1>4 DEF CommitStep, CommitFails, CloseExhausted, EndSession, Settle, PersistSample

LEMMA TickLock ==
  ASSUME OpTyped, WorkersHoldLock, TickStep
  PROVE  WorkersHoldLock'
<1> Sampler \in Procs
  BY DEF Procs
<1>1. CASE Tick
  <2>1. CASE LeaveStopping(Sampler)
    BY <1>1, <2>1, LeaveLock DEF Tick
  <2>2. CASE ~LeaveStopping(Sampler)
    <3>1. Elsewhere(Sampler) /\ holder' = Sampler
      BY <1>1, <2>2 DEF Tick, OpTyped, Elsewhere
    <3>2. QED
      BY <1>1, <3>1, KeepLock DEF Tick
  <2>3. QED
    BY <2>1, <2>2
<1>2. CASE TickDone
  <2>1. holder = Sampler
    BY <1>2 DEF TickDone, Working, WorkersHoldLock
  <2>2. QED
    BY <1>2, <2>1, LeaveLock DEF TickDone
<1>3. CASE \E s \in SessionIds : AutoStop(s)
  BY <1>3 DEF AutoStop, memory, WorkersHoldLock, Working
<1>4. QED
  BY <1>1, <1>2, <1>3 DEF TickStep

LEMMA StopLock ==
  ASSUME OpTyped, WorkersHoldLock, NEW c \in Clients, NEW s \in SessionIds, StopSession(c, s)
  PROVE  WorkersHoldLock'
<1>1. Elsewhere(c)
  BY DEF StopSession, Goto, OpTyped, Elsewhere
<1>2. QED
  BY <1>1, KeepLock DEF StopSession, Acquire, Procs

LEMMA LockStep ==
  ASSUME OpTyped, WorkersHoldLock, [Next]_vars
  PROVE  WorkersHoldLock'
<1>1. ProcessExit => WorkersHoldLock'
  BY IdleType DEF ProcessExit, WorkersHoldLock, Working
<1>2. Boot \/ Reconcile \/ World \/ UNCHANGED vars => UNCHANGED <<holder, op>>
  BY DEF Boot, Reconcile, BootDone, ReconcileSession, World, ClockTick, Consume, WindowReset, SwitchAccount,
     memory, vars
<1>3. UNCHANGED <<holder, op>> => WorkersHoldLock'
  BY DEF WorkersHoldLock, Working
<1>4. QED
  BY <1>1, <1>2, <1>3, StartLock, StopLock, FetchLock, CommitLock, TickLock DEF Next

\* For any number of concurrent requests, accounts and sessions, and whatever
\* fails: no two gh calls of the feature overlap.
THEOREM CallsAreSerial == Spec => []OneCallInFlight
<1> DEFINE Inv == TypeInv /\ WorkersHoldLock
<1>1. Init => Inv
  <2>1. Init => WorkersHoldLock
    BY IdleType DEF Init, WorkersHoldLock, Working
  <2>2. QED
    BY <2>1, TypeInit
<1>2. Inv /\ [Next]_vars => Inv'
  <2>1. TypeInv => OpTyped
    BY DEF TypeInv, TypeOK, OpTyped
  <2>2. QED
    BY <2>1, TypeStep, LockStep
<1>3. Inv => OneCallInFlight
  BY DEF WorkersHoldLock, OneCallInFlight, CallingGh, Working
<1>4. QED
  BY <1>1, <1>2, <1>3, PTL DEF Spec

(***************************************************************************)
(* The session table.  Whoever holds the lock knows about it what it read, *)
(* since nobody else writes it in the meantime.                            *)
(***************************************************************************)

\* The lock is only held while the process serves requests.
HeldWhileUp == holder # None => proc = "up"

\* What the operation of a client may rely on.
Phase(c) ==
  /\ op[c].pc = "idle" => op[c].user = None
  /\ op[c].pc = "identity" => op[c].user = None
  /\ op[c].pc \in {"create", "close"} => op[c].user # None
  /\ op[c].pc \in {"fetch", "create"} /\ op[c].user # None
       => \A s \in Active : sessions[s].user = op[c].user
  /\ op[c].pc = "close" => /\ op[c].sid \in SessionIds /\ sessions[op[c].sid].status = "EXHAUSTED"
                           /\ sessions[op[c].sid].endedAt = None
  /\ op[c].pc = "end" \/ (op[c].pc \in {"fetch", "persist"} /\ op[c].user = None)
       => op[c].sid \in Active
Phases == \A c \in Clients : Phase(c)

\* A row that is not closed has no end.
NoEarlyEnd == \A s \in SessionIds : sessions[s].status \in {"unused", "ACTIVE"} => sessions[s].endedAt = None

TableInv == TypeInv /\ WorkersHoldLock /\ HeldWhileUp /\ Phases /\ NoEarlyEnd /\ OneAccountActive

\* The three ways a step writes the table.
Write(s, row) == sessions' = [sessions EXCEPT ![s] = row]

Entered(s, row) ==
  /\ Fresh(s) /\ row.user \in Accounts /\ \A t \in Active : sessions[t].user = row.user
  /\ row.status \in {"ACTIVE", "EXHAUSTED"} /\ row.endedAt = None
Closed(s, row) == s \in Active /\ row.status \in Terminal /\ row.user = sessions[s].user
Completed(s, row) ==
  /\ sessions[s].status = "EXHAUSTED" /\ sessions[s].endedAt = None
  /\ row.status = "EXHAUSTED" /\ row.user = sessions[s].user

TableStep ==
  \/ UNCHANGED sessions
  \/ \E s \in SessionIds, row \in SessionRow :
       Write(s, row) /\ (Entered(s, row) \/ Closed(s, row) \/ Completed(s, row))

LEMMA EndedWrites ==
  ASSUME TypeOK, NEW s \in SessionIds, NEW status \in Terminal, NEW at \in Time \cup {None},
         NEW last \in Resource \cup {None},
         sessions' = [sessions EXCEPT ![s] = Ended(@, status, at, last)]
  PROVE  \E row \in SessionRow : Write(s, row) /\ row.status = status /\ row.user = sessions[s].user
<1>1. sessions[s] \in SessionRow
  BY DEF TypeOK
<1>2. Ended(sessions[s], status, at, last) \in SessionRow
  BY <1>1, EndedType
<1>3. Write(s, Ended(sessions[s], status, at, last))
  BY DEF Write
<1>4. QED
  BY <1>1, <1>2, <1>3, EndedType

LEMMA CreateWrites ==
  ASSUME TableInv, NEW c \in Procs, c # Sampler, CreateSession(c)
  PROVE  TableStep
<1> DEFINE row == [Unused EXCEPT !.status = IF Exhausted(op[c].res) THEN "EXHAUSTED" ELSE "ACTIVE",
                                 !.user = op[c].user, !.startedAt = op[c].at,
                                 !.start = IF op[c].res = None THEN Unusable ELSE op[c].res]
<1> c \in Clients
  BY DEF Procs
<1>1. PICK s \in SessionIds : Fresh(s) /\ sessions' = [sessions EXCEPT ![s] = row]
  BY DEF CreateSession
<1>2. /\ op[c].user \in Accounts \cup {None} /\ op[c].at \in Time \cup {None}
      /\ op[c].res \in Resource \cup {None}
  BY DEF TableInv, TypeInv, TypeOK, OpState
<1>3. op[c].user # None /\ \A t \in Active : sessions[t].user = op[c].user
  BY DEF CreateSession, TableInv, Phases, Phase
<1>4. Unusable \in Resource
  BY DEF Unusable, Resource
<1>5. /\ row \in SessionRow /\ row.user = op[c].user /\ row.status \in {"ACTIVE", "EXHAUSTED"}
      /\ row.endedAt = None
  BY <1>2, <1>4 DEF SessionRow, Unused, Terminal
<1> HIDE DEF row
<1>6. Entered(s, row)
  BY <1>1, <1>2, <1>3, <1>5 DEF Entered
<1>7. QED
  BY <1>1, <1>5, <1>6 DEF TableStep, Write

LEMMA TableWrites ==
  ASSUME TableInv, [Next]_vars
  PROVE  TableStep
<1> TypeOK /\ OpTyped
  BY DEF TableInv, TypeInv, TypeOK, OpTyped
<1>1. ASSUME NEW c \in Clients, StartStep(c) PROVE UNCHANGED sessions
  BY <1>1 DEF StartStep, StartSession, IdentityFetched, IdentityFailed, tables
<1>2. ASSUME NEW c \in Clients, NEW s \in SessionIds, StopSession(c, s) PROVE UNCHANGED sessions
  BY <1>2 DEF StopSession, tables
<1>3. ASSUME NEW p \in Procs, FetchStep(p) \/ CommitFails(p) \/ Settle(p) \/ PersistSample(p) PROVE UNCHANGED sessions
  BY <1>3 DEF FetchStep, Fetched, FetchedUnusable, FetchFailed, CommitFails, Settle, PersistSample, tables
<1>4. ASSUME NEW p \in Procs, p # Sampler, CloseExhausted(p) \/ EndSession(p) PROVE TableStep
  <2>1. /\ op[p].sid \in SessionIds \cup {None} /\ op[p].at \in Time \cup {None}
        /\ op[p].res \in Resource \cup {None} /\ Phase(p)
    BY <1>4 DEF OpTyped, OpState, TableInv, Phases, Procs
  <2>2. CASE CloseExhausted(p)
    <3>1. /\ op[p].sid \in SessionIds /\ sessions[op[p].sid].status = "EXHAUSTED"
          /\ sessions[op[p].sid].endedAt = None
      BY <2>1, <2>2 DEF CloseExhausted, Phase
    <3>2. PICK row \in SessionRow :
            Write(op[p].sid, row) /\ row.status = "EXHAUSTED" /\ row.user = sessions[op[p].sid].user
      BY <2>1, <2>2, <3>1, EndedWrites DEF CloseExhausted, Terminal
    <3>3. QED
      BY <3>1, <3>2 DEF TableStep, Completed
  <2>3. CASE EndSession(p)
    <3>1. op[p].sid \in Active /\ op[p].sid \in SessionIds
      BY <2>1, <2>3 DEF EndSession, Phase, Active
    <3>2. PICK row \in SessionRow :
            Write(op[p].sid, row) /\ row.status = "STOPPED" /\ row.user = sessions[op[p].sid].user
      BY <2>1, <2>3, <3>1, EndedWrites DEF EndSession, Terminal
    <3>3. QED
      BY <3>1, <3>2 DEF TableStep, Closed, Terminal
  <2>4. QED
    BY <1>4, <2>2, <2>3
<1>5. ASSUME NEW s \in SessionIds, AutoStop(s) PROVE TableStep
  <2>1. op[Sampler].at \in Time \cup {None} /\ op[Sampler].res \in Resource \cup {None}
    BY DEF OpTyped, OpState, Procs
  <2>2. PICK status \in Terminal : sessions' = [sessions EXCEPT ![s] = Ended(@, status, op[Sampler].at, op[Sampler].res)]
    BY <1>5 DEF AutoStop, Terminal
  <2>3. s \in Active
    BY <1>5 DEF AutoStop, Due
  <2>4. PICK row \in SessionRow : Write(s, row) /\ row.status = status /\ row.user = sessions[s].user
    BY <2>1, <2>2, EndedWrites
  <2>5. QED
    BY <2>3, <2>4 DEF TableStep, Closed
<1>6. ASSUME NEW s \in SessionIds, ReconcileSession(s) PROVE TableStep
  <2>1. PICK row \in SessionRow : Write(s, row) /\ row.status = "ABORTED" /\ row.user = sessions[s].user
    BY <1>6, EndedWrites DEF ReconcileSession, TypeOK, Terminal
  <2>2. QED
    BY <1>6, <2>1 DEF TableStep, Closed, Terminal, ReconcileSession
<1>7. Tick \/ TickDone \/ ProcessExit \/ Boot \/ BootDone \/ World \/ UNCHANGED vars => UNCHANGED sessions
  BY DEF Tick, TickDone, ProcessExit, Boot, BootDone, World, ClockTick, Consume, WindowReset, SwitchAccount,
     tables, vars
<1>8. UNCHANGED sessions => TableStep
  BY DEF TableStep
<1>9. QED
  BY <1>1, <1>2, <1>3, <1>4, <1>5, <1>6, <1>7, <1>8, CreateWrites DEF Next, CommitStep, TickStep, Reconcile

LEMMA AccountStep ==
  ASSUME TableInv, TableStep
  PROVE  OneAccountActive' /\ NoEarlyEnd'
<1> sessions \in [SessionIds -> SessionRow] /\ NoEarlyEnd /\ OneAccountActive
  BY DEF TableInv, TypeInv, TypeOK
<1>1. CASE UNCHANGED sessions
  BY <1>1 DEF OneAccountActive, NoEarlyEnd, Active
<1>2. ASSUME NEW s \in SessionIds, NEW row \in SessionRow, Write(s, row),
             Entered(s, row) \/ Closed(s, row) \/ Completed(s, row)
      PROVE  OneAccountActive' /\ NoEarlyEnd'
  <2>1. sessions'[s] = row /\ \A t \in SessionIds : t # s => sessions'[t] = sessions[t]
    BY <1>2 DEF Write
  <2>2. NoEarlyEnd'
    BY <1>2, <2>1 DEF NoEarlyEnd, Entered, Closed, Completed, Terminal
  <2>3. OneAccountActive'
    BY <1>2, <2>1 DEF OneAccountActive, Active, Entered, Closed, Completed, Terminal
  <2>4. QED
    BY <2>2, <2>3
<1>3. QED
  BY <1>1, <1>2 DEF TableStep

LEMMA HeldStep ==
  ASSUME TypeOK, HeldWhileUp, WorkersHoldLock, [Next]_vars
  PROVE  HeldWhileUp'
<1> OpTyped
  BY DEF TypeOK, OpTyped
<1>1. holder' = None => HeldWhileUp'
  BY DEF HeldWhileUp
<1>2. UNCHANGED <<holder, proc>> => HeldWhileUp'
  BY DEF HeldWhileUp
<1>3. proc' = "up" => HeldWhileUp'
  BY DEF HeldWhileUp
<1>4. ASSUME NEW c \in Clients, StartStep(c) PROVE HeldWhileUp'
  BY <1>1, <1>2, <1>3, <1>4 DEF StartStep, StartSession, IdentityFetched, IdentityFailed, Acquire, Leave
<1>5. ASSUME NEW c \in Clients, NEW s \in SessionIds, StopSession(c, s) PROVE HeldWhileUp'
  BY <1>3, <1>5 DEF StopSession, Acquire
<1>6. ASSUME NEW p \in Procs, FetchStep(p) PROVE HeldWhileUp'
  BY <1>2, <1>6 DEF FetchStep, Fetched, FetchedUnusable, FetchFailed
<1>7. ASSUME NEW p \in Procs, CommitStep(p) \/ CommitFails(p) PROVE HeldWhileUp'
  BY <1>1, <1>2, <1>7 DEF CommitStep, CommitFails, CreateSession, CloseExhausted, EndSession, Settle, PersistSample,
     Leave, LeaveStarting, LeaveStopping
<1>8. TickStep => HeldWhileUp'
  BY <1>1, <1>2, <1>3 DEF TickStep, Tick, TickDone, AutoStop, memory, Leave, LeaveStopping
<1>9. ProcessExit \/ BootDone => HeldWhileUp'
  BY <1>1, <1>3 DEF ProcessExit, BootDone
<1>10. Boot => HeldWhileUp'
  BY DEF Boot, HeldWhileUp, memory
<1>11. World \/ UNCHANGED vars \/ (\E s \in SessionIds : ReconcileSession(s)) => HeldWhileUp'
  BY <1>2 DEF World, ClockTick, Consume, WindowReset, SwitchAccount, ReconcileSession, memory, vars
<1>12. QED
  BY <1>4, <1>5, <1>6, <1>7, <1>8, <1>9, <1>10, <1>11 DEF Next, Reconcile

\* A client whose operation does not move keeps its phase if it has none, or
\* if nobody writes the table.
LEMMA PhaseKept ==
  ASSUME NEW c \in Clients, Phase(c), op'[c] = op[c], ~Working(c) \/ UNCHANGED sessions
  PROVE  Phase(c)'
  BY DEF Phase, Working, Active

LEMMA PhaseLeft ==
  ASSUME NEW c \in Clients, op'[c] = Idle
  PROVE  Phase(c)'
  BY DEF Phase, Idle

LEMMA LeaveOp ==
  ASSUME OpTyped, NEW p \in Procs, Leave(p) \/ LeaveStarting(p) \/ LeaveStopping(p), NEW c \in Clients
  PROVE  IF c = p THEN op'[c] = Idle ELSE op'[c] = op[c]
  BY ProcessAssumption DEF OpTyped, Procs, Leave, LeaveStarting, LeaveStopping

\* A client that is not the holder is not working.
LEMMA Bystander ==
  ASSUME WorkersHoldLock, NEW c \in Clients, holder # c
  PROVE  ~Working(c)
  BY DEF WorkersHoldLock, Procs

LEMMA PhaseStart ==
  ASSUME TableInv, NEW a \in Clients, StartStep(a), NEW c \in Clients
  PROVE  Phase(c)'
<1> OpTyped /\ Phase(c) /\ Phase(a) /\ a \in Procs /\ c \in Procs /\ WorkersHoldLock
  BY DEF TableInv, TypeInv, TypeOK, OpTyped, Phases, Procs
<1>0. UNCHANGED sessions
  BY DEF StartStep, StartSession, IdentityFetched, IdentityFailed, tables
<1>1. CASE StartSession(a)
  <2>1. CASE c = a
    BY <1>1, <2>1 DEF StartSession, Goto, OpTyped, OpState, Phase
  <2>2. CASE c # a
    <3>1. op'[c] = op[c]
      BY <1>1, <2>2 DEF StartSession, Goto, OpTyped
    <3>2. QED
      BY <1>0, <3>1, PhaseKept
  <2>3. QED
    BY <2>1, <2>2
<1>2. CASE Leave(a)
  BY <1>0, <1>2, LeaveOp, PhaseLeft, PhaseKept
<1>3. CASE IdentityFetched(a) /\ ~Leave(a)
  <2>1. CASE c = a
    <3>1. op'[c] = [op[c] EXCEPT !.pc = "fetch", !.user = account, !.at = now, !.seen = Active]
      BY <1>3, <2>1 DEF IdentityFetched, OpTyped
    <3>2. account # None
      BY NoneAssumption DEF TableInv, TypeInv, TypeOK
    <3>3. op'[c].pc = "fetch" /\ op'[c].user = account
      BY <3>1 DEF OpTyped, OpState
    <3>4. \A s \in Active : sessions[s].user = account
      BY <1>3 DEF IdentityFetched, SameAccount
    <3>5. QED
      BY <1>0, <3>2, <3>3, <3>4 DEF Phase, Active
  <2>2. CASE c # a
    <3>1. op'[c] = op[c]
      BY <1>3, <2>2 DEF IdentityFetched, OpTyped
    <3>2. QED
      BY <1>0, <3>1, PhaseKept
  <2>3. QED
    BY <2>1, <2>2
<1>4. QED
  BY <1>1, <1>2, <1>3 DEF StartStep, IdentityFailed

LEMMA PhaseStop ==
  ASSUME TableInv, NEW a \in Clients, NEW s \in SessionIds, StopSession(a, s), NEW c \in Clients
  PROVE  Phase(c)'
<1> OpTyped /\ Phase(c) /\ a \in Procs /\ c \in Procs
  BY DEF TableInv, TypeInv, TypeOK, OpTyped, Phases, Procs
<1>1. UNCHANGED sessions /\ op[a].pc = "idle"
  BY DEF StopSession, tables
<1>2. CASE c = a
  <2>1. CASE Stoppable(s)
    <3>1. op'[c] = [op[c] EXCEPT !.pc = "fetch", !.sid = s, !.at = now, !.seen = Active]
      BY <1>2, <2>1 DEF StopSession, OpTyped
    <3>2. op'[c].pc = "fetch" /\ op'[c].sid = s /\ op'[c].user = None
      BY <1>1, <1>2, <3>1 DEF OpTyped, OpState, Phase
    <3>3. QED
      BY <1>1, <2>1, <3>2 DEF Phase, Stoppable, Active
  <2>2. CASE ~Stoppable(s)
    <3>1. op'[c].pc = "settle"
      BY <1>2, <2>2 DEF StopSession, Goto, OpTyped, OpState
    <3>2. QED
      BY <3>1 DEF Phase
  <2>3. QED
    BY <2>1, <2>2
<1>3. CASE c # a
  <2>1. op'[c] = op[c]
    BY <1>3 DEF StopSession, Goto, OpTyped
  <2>2. QED
    BY <1>1, <2>1, PhaseKept
<1>4. QED
  BY <1>2, <1>3

LEMMA PhaseFetch ==
  ASSUME TableInv, NEW p \in Procs, FetchStep(p), NEW c \in Clients
  PROVE  Phase(c)'
<1> OpTyped /\ Phase(c) /\ c \in Procs /\ WorkersHoldLock
  BY DEF TableInv, TypeInv, TypeOK, OpTyped, Phases, Procs
<1>1. UNCHANGED sessions /\ op[p].pc = "fetch"
  BY DEF FetchStep, Fetched, FetchedUnusable, FetchFailed, tables
<1>2. CASE c = p
  <2>1. op'[c].pc = AfterFetch(c) /\ op'[c].sid = op[c].sid /\ op'[c].user = op[c].user
    BY <1>2 DEF FetchStep, Fetched, FetchedUnusable, FetchFailed, SampleTaken, OpTyped, OpState
  <2>2. c # Sampler
    BY ProcessAssumption
  <2>3. CASE op[c].user = None
    <3>1. op[c].sid \in Active
      BY <1>1, <1>2, <2>3 DEF Phase
    <3>2. op[c].sid # None
      BY <3>1, NoneAssumption DEF Active, SessionIds
    <3>3. AfterFetch(c) = "persist"
      BY <3>2 DEF AfterFetch
    <3>4. QED
      BY <1>1, <2>1, <2>3, <3>1, <3>3 DEF Phase, Active
  <2>4. CASE op[c].user # None
    <3>1. AfterFetch(c) \in {"create", "persist"} /\ \A s \in Active : sessions[s].user = op[c].user
      BY <1>1, <1>2, <2>4 DEF Phase, AfterFetch
    <3>2. QED
      BY <1>1, <2>1, <2>4, <3>1 DEF Phase, Active
  <2>5. QED
    BY <2>3, <2>4
<1>3. CASE c # p
  BY <1>1, <1>3, FetchLock, PhaseKept DEF Elsewhere
<1>4. QED
  BY <1>2, <1>3

LEMMA PhaseCommit ==
  ASSUME TableInv, NEW p \in Procs, CommitStep(p) \/ CommitFails(p), NEW c \in Clients
  PROVE  Phase(c)'
<1> OpTyped /\ Phase(c) /\ c \in Procs /\ WorkersHoldLock
  BY DEF TableInv, TypeInv, TypeOK, OpTyped, Phases, Procs
<1>1. holder = p
  BY CommitLock
<1>2. CASE c # p
  <2>1. ~Working(c)
    BY <1>1, <1>2, Bystander
  <2>2. op'[c] = op[c]
    BY <1>2, LeaveOp
       DEF CommitStep, CommitFails, CreateSession, CloseExhausted, EndSession, Settle, PersistSample, Goto, OpTyped
  <2>3. QED
    BY <2>1, <2>2, PhaseKept
<1>3. CASE c = p /\ (Leave(p) \/ LeaveStarting(p) \/ LeaveStopping(p))
  BY <1>3, LeaveOp, PhaseLeft
<1>4. CASE c = p /\ CreateSession(p)
  <2>1. PICK s \in SessionIds : /\ Fresh(s) /\ op' = [op EXCEPT ![p].sid = s, ![p].row.trigger = s, ![p].pc = AfterCreate(op[p].res)]
          /\ sessions' = [sessions EXCEPT ![s] =
               [Unused EXCEPT !.status = IF Exhausted(op[p].res) THEN "EXHAUSTED" ELSE "ACTIVE",
                              !.user = op[p].user, !.startedAt = op[p].at,
                              !.start = IF op[p].res = None THEN Unusable ELSE op[p].res]]
    BY <1>4 DEF CreateSession
  <2>2. op'[c].pc = AfterCreate(op[c].res) /\ op'[c].user = op[c].user /\ op'[c].sid = s
    BY <1>4, <2>1 DEF OpTyped, OpState
  <2>3. op[c].user # None
    BY <1>4 DEF CreateSession, Phase
  <2>4. CASE Exhausted(op[c].res)
    <3>1. sessions'[s].status = "EXHAUSTED" /\ sessions'[s].endedAt = None
      BY <1>4, <2>1, <2>4 DEF Unused, TableInv, TypeInv, TypeOK
    <3>2. QED
      BY <2>2, <2>3, <2>4, <3>1 DEF Phase, AfterCreate
  <2>5. CASE ~Exhausted(op[c].res)
    BY <2>2, <2>3, <2>5 DEF Phase, AfterCreate
  <2>6. QED
    BY <2>4, <2>5
<1>5. CASE c = p /\ (CloseExhausted(p) \/ EndSession(p))
  <2>1. op'[c].pc \in {"persist", "settle"} /\ op'[c].user = op[c].user
    BY <1>5 DEF CloseExhausted, EndSession, Goto, OpTyped, OpState
  <2>2. op'[c].pc = "persist" => op[c].user # None
    BY <1>5 DEF CloseExhausted, EndSession, Goto, OpTyped, OpState, Phase
  <2>3. QED
    BY <2>1, <2>2 DEF Phase
<1>6. CASE c = p /\ PersistSample(p) /\ Goto(p, "end") /\ ~Starting(p)
  <2>1. op[c].sid \in Active /\ UNCHANGED sessions
    BY <1>6, ProcessAssumption DEF PersistSample, Phase, Starting
  <2>2. op'[c].pc = "end" /\ op'[c].sid = op[c].sid
    BY <1>6 DEF Goto, OpTyped, OpState
  <2>3. QED
    BY <2>1, <2>2 DEF Phase, Active
<1>7. c # Sampler
  BY ProcessAssumption
<1>8. QED
  BY <1>2, <1>3, <1>4, <1>5, <1>6, <1>7 DEF CommitStep, CommitFails, Settle, PersistSample

LEMMA PhaseTick ==
  ASSUME TableInv, TickStep, NEW c \in Clients
  PROVE  Phase(c)'
<1> OpTyped /\ Phase(c) /\ c \in Procs /\ Sampler \in Procs /\ WorkersHoldLock /\ c # Sampler
  BY ProcessAssumption DEF TableInv, TypeInv, TypeOK, OpTyped, Phases, Procs
<1>1. op'[c] = op[c]
  BY LeaveOp DEF TickStep, Tick, TickDone, AutoStop, OpTyped, memory
<1>2. ~Working(c) \/ UNCHANGED sessions
  <2>1. CASE Tick \/ TickDone
    BY <2>1 DEF Tick, TickDone, tables
  <2>2. ASSUME NEW s \in SessionIds, AutoStop(s) PROVE ~Working(c)
    <3>1. holder = Sampler
      BY <2>2 DEF AutoStop, WorkersHoldLock, Working
    <3>2. QED
      BY <3>1, Bystander
  <2>3. QED
    BY <2>1, <2>2 DEF TickStep
<1>3. QED
  BY <1>1, <1>2, PhaseKept

LEMMA PhaseStep ==
  ASSUME TableInv, [Next]_vars
  PROVE  Phases'
<1> SUFFICES ASSUME NEW c \in Clients PROVE Phase(c)'
  BY DEF Phases
<1> Phase(c) /\ c \in Procs
  BY DEF TableInv, Phases, Procs
<1>1. ProcessExit => Phase(c)'
  BY PhaseLeft DEF ProcessExit
<1>2. ASSUME NEW s \in SessionIds, ReconcileSession(s) PROVE Phase(c)'
  <2>1. holder = None
    BY <1>2 DEF ReconcileSession, TableInv, HeldWhileUp
  <2>2. ~Working(c)
    BY <2>1, NoneAssumption, Bystander DEF TableInv
  <2>3. QED
    BY <1>2, <2>2, PhaseKept DEF ReconcileSession, memory
<1>3. Boot \/ BootDone \/ World \/ UNCHANGED vars => Phase(c)'
  BY PhaseKept DEF Boot, BootDone, World, ClockTick, Consume, WindowReset, SwitchAccount, memory, tables, vars
<1>4. QED
  BY <1>1, <1>2, <1>3, PhaseStart, PhaseStop, PhaseFetch, PhaseCommit, PhaseTick DEF Next, Reconcile

LEMMA TableInit == Init => TableInv
<1> SUFFICES ASSUME Init PROVE TableInv
  OBVIOUS
<1>1. TypeInv
  BY TypeInit
<1>2. WorkersHoldLock /\ Phases
  BY IdleType DEF Init, WorkersHoldLock, Working, Phases, Phase, Idle, Procs
<1>3. HeldWhileUp /\ NoEarlyEnd /\ OneAccountActive
  BY DEF Init, HeldWhileUp, NoEarlyEnd, OneAccountActive, Active, Unused
<1>4. QED
  BY <1>1, <1>2, <1>3 DEF TableInv

LEMMA TableInvStep == TableInv /\ [Next]_vars => TableInv'
<1> SUFFICES ASSUME TableInv, [Next]_vars PROVE TableInv'
  OBVIOUS
<1>1. TypeOK /\ OpTyped /\ TypeInv /\ WorkersHoldLock /\ HeldWhileUp
  BY DEF TableInv, TypeInv, TypeOK, OpTyped
<1>2. QED
  BY <1>1, TypeStep, LockStep, HeldStep, PhaseStep, TableWrites, AccountStep DEF TableInv

\* The sessions that are active together belong to one account, however the
\* user switches `gh` between accounts and whatever fails.
THEOREM AccountsAreNotMixed == Spec => []OneAccountActive
<1>1. TableInv => OneAccountActive
  BY DEF TableInv
<1>2. QED
  BY <1>1, TableInit, TableInvStep, PTL DEF Spec

\* No step reopens a closed session or changes the row of one that has its
\* end.
THEOREM ClosedStaysClosed == Spec => ClosedIsFinal
<1> DEFINE Final == \A s \in SessionIds :
       /\ sessions[s].status \in Terminal => sessions'[s].status = sessions[s].status
       /\ sessions[s].endedAt # None => sessions'[s] = sessions[s]
<1>1. TableInv /\ [Next]_vars => Final
  <2> SUFFICES ASSUME TableInv, [Next]_vars PROVE Final
    OBVIOUS
  <2>1. sessions \in [SessionIds -> SessionRow] /\ NoEarlyEnd
    BY DEF TableInv, TypeInv, TypeOK
  <2>2. TableStep
    BY TableWrites
  <2>3. CASE UNCHANGED sessions
    BY <2>3
  <2>4. ASSUME NEW s \in SessionIds, NEW row \in SessionRow, Write(s, row),
               Entered(s, row) \/ Closed(s, row) \/ Completed(s, row)
        PROVE  Final
    <3>1. sessions'[s] = row /\ \A t \in SessionIds : t # s => sessions'[t] = sessions[t]
      BY <2>1, <2>4 DEF Write
    <3>2. sessions[s].endedAt = None
      BY <2>1, <2>4 DEF Entered, Closed, Completed, NoEarlyEnd, Fresh, Stored, Active
    <3>3. sessions[s].status \in Terminal => row.status = sessions[s].status
      BY <2>4 DEF Entered, Closed, Completed, Fresh, Stored, Active, Terminal
    <3>4. QED
      BY <3>1, <3>2, <3>3
  <2>5. QED
    BY <2>2, <2>3, <2>4 DEF TableStep
<1>2. QED
  BY <1>1, TableInit, TableInvStep, PTL DEF Spec, ClosedIsFinal

\* The session table implements the ledger.
THEOREM TableIsALedger == Spec => ImplementsLedger
<1> DEFINE state == [s \in SessionIds |-> CASE s \in Active -> "open"
                                            [] s \in Stored \ Active -> "closed"
                                            [] OTHER -> "blank"]
           owner == [s \in SessionIds |-> sessions[s].user]
<1>1. Init => Ledger!Init
  <2> SUFFICES ASSUME Init PROVE Ledger!Init
    OBVIOUS
  <2>1. state = [s \in SessionIds |-> "blank"] /\ owner = [s \in SessionIds |-> None]
    BY DEF Init, Active, Stored, Unused
  <2>2. QED
    BY <2>1 DEF Ledger!Init, Ledger!Numbers, SessionIds
<1>2. TableInv /\ [Next]_vars => [Ledger!Next]_(Ledger!vars)
  <2> SUFFICES ASSUME TableInv, [Next]_vars PROVE [Ledger!Next]_(Ledger!vars)
    OBVIOUS
  <2>1. sessions \in [SessionIds -> SessionRow]
    BY DEF TableInv, TypeInv, TypeOK
  <2>2. TableStep
    BY TableWrites
  <2>3. CASE UNCHANGED sessions
    BY <2>3 DEF Ledger!vars, Active, Stored
  <2>4. ASSUME NEW s \in SessionIds, NEW row \in SessionRow, Write(s, row),
               Entered(s, row) \/ Closed(s, row) \/ Completed(s, row)
        PROVE  [Ledger!Next]_(Ledger!vars)
    <3>1. sessions'[s] = row /\ \A t \in SessionIds : t # s => sessions'[t] = sessions[t]
      BY <2>1, <2>4 DEF Write
    <3>2. \A t \in SessionIds : t # s => state'[t] = state[t] /\ owner'[t] = owner[t]
      BY <3>1 DEF Active, Stored
    <3>3. CASE Completed(s, row)
      <4>1. state'[s] = state[s] /\ owner'[s] = owner[s]
        BY <3>1, <3>3 DEF Completed, Active, Stored
      <4>2. UNCHANGED <<state, owner>>
        BY <3>2, <4>1
      <4>3. QED
        BY <4>2 DEF Ledger!vars
    <3>4. CASE Closed(s, row)
      <4>1. state[s] = "open" /\ state'[s] = "closed" /\ owner'[s] = owner[s]
        BY <3>1, <3>4 DEF Closed, Active, Stored, Terminal
      <4>2. state' = [state EXCEPT ![s] = "closed"] /\ UNCHANGED owner
        BY <3>2, <4>1
      <4>3. Ledger!Close(s)
        BY <4>1, <4>2 DEF Ledger!Close
      <4>4. QED
        BY <4>3 DEF Ledger!Next, Ledger!Numbers, SessionIds
    <3>5. CASE Entered(s, row)
      <4> DEFINE how == IF row.status = "ACTIVE" THEN "open" ELSE "closed"
      <4>1. state'[s] = how /\ owner'[s] = row.user
        BY <3>1, <3>5 DEF Entered, Active, Stored
      <4> HIDE DEF how
      <4>2. state' = [state EXCEPT ![s] = how] /\ owner' = [owner EXCEPT ![s] = row.user]
        BY <3>2, <4>1
      <4>3. state[s] = "blank" /\ \A t \in SessionIds : t < s => state[t] # "blank"
        BY <3>5 DEF Entered, Fresh, Active, Stored
      <4>4. \A t \in SessionIds : state[t] = "open" => owner[t] = row.user
        BY <3>5 DEF Entered, Active, Stored
      <4>5. Ledger!Enter(s, row.user, how)
        BY <4>2, <4>3, <4>4 DEF Ledger!Enter, Ledger!NextFree, Ledger!Numbers, SessionIds
      <4>6. row.user \in Accounts /\ how \in {"open", "closed"}
        BY <3>5 DEF Entered, how
      <4>7. Ledger!Open(s, row.user) \/ Ledger!Record(s, row.user)
        <5>1. CASE row.status = "ACTIVE"
          BY <4>5, <5>1 DEF Ledger!Open, how
        <5>2. CASE row.status # "ACTIVE"
          BY <4>5, <5>2 DEF Ledger!Record, how
        <5>3. QED
          BY <5>1, <5>2
      <4>8. s \in Ledger!Numbers
        BY DEF Ledger!Numbers, SessionIds
      <4>9. QED
        BY <4>6, <4>7, <4>8 DEF Ledger!Next
    <3>6. QED
      BY <2>4, <3>3, <3>4, <3>5
  <2>5. QED
    BY <2>2, <2>3, <2>4 DEF TableStep
<1>3. QED
  BY <1>1, <1>2, TableInit, TableInvStep, PTL DEF Spec, ImplementsLedger, Ledger!Spec

(***************************************************************************)
(* The natural numbers.  The library states induction for an operator; a   *)
(* set will do, because an injection of a finite set into a smaller one    *)
(* does not exist.                                                         *)
(***************************************************************************)
LEMMA Induction ==
  ASSUME NEW P \in SUBSET Nat, 0 \in P, \A n \in P : n + 1 \in P
  PROVE  P = Nat
<1> SUFFICES ASSUME NEW n \in Nat \ P PROVE FALSE
  OBVIOUS
<1> DEFINE S == (0 .. n) \ P
           f == [x \in S |-> x - 1]
<1>1. IsFiniteSet(S)
  <2>1. 0 \in Int /\ n \in Int
    OBVIOUS
  <2>2. IsFiniteSet(0 .. n)
    BY <2>1, FS_Interval
  <2> QED BY <2>2, FS_Difference
<1>2. n \in S
  OBVIOUS
<1>3. f \in [S -> S \ {n}]
  <2>1. ASSUME NEW x \in S PROVE x - 1 \in S \ {n}
    <3>1. x # 0 /\ x \in 0 .. n /\ x \notin P
      OBVIOUS
    <3>2. x - 1 \in 0 .. n /\ x - 1 # n /\ x - 1 \in Nat
      BY <3>1
    <3>3. x - 1 \notin P
      BY <3>1, <3>2
    <3> QED BY <3>2, <3>3
  <2> QED BY <2>1
<1>4. \A x, y \in S : f[x] = f[y] => x = y
  OBVIOUS
<1> HIDE DEF S, f
<1>5. /\ IsFiniteSet(S \ {n}) /\ Cardinality(S \ {n}) = Cardinality(S) - 1
      /\ Cardinality(S) \in Nat
  BY <1>1, <1>2, FS_RemoveElement, FS_CardinalityType
<1> QED BY <1>1, <1>3, <1>4, <1>5, FS_PigeonHole

LEMMA Least ==
  ASSUME NEW T \in SUBSET Nat, T # {}
  PROVE  \E m \in T : \A k \in T : m <= k
<1> SUFFICES ASSUME \A m \in T : \E k \in T : k < m PROVE FALSE
  OBVIOUS
<1> DEFINE P == {n \in Nat : \A k \in T : n <= k}
<1>1. 0 \in P
  OBVIOUS
<1>2. \A n \in P : n + 1 \in P
  <2> SUFFICES ASSUME NEW n \in P, NEW k \in T PROVE n + 1 <= k
    OBVIOUS
  <2>1. PICK j \in T : j < k
    OBVIOUS
  <2>2. n <= j /\ n \in Nat /\ j \in Nat /\ k \in Nat
    BY <2>1
  <2> QED BY <2>1, <2>2
<1>3. P = Nat
  <2> HIDE DEF P
  <2>1. P \in SUBSET Nat
    BY DEF P
  <2> QED BY <1>1, <1>2, <2>1, Induction
<1>4. PICK t \in T : TRUE
  OBVIOUS
<1>5. t + 1 \in P
  BY <1>3
<1> QED BY <1>5

(***************************************************************************)
(* The running total of the deltas: what its recursion says, and that a    *)
(* sample more leaves the totals before it alone.                          *)
(***************************************************************************)
LEMMA DeltaTyped ==
  ASSUME samples \in Seq(SampleRow), NEW i \in DOMAIN samples
  PROVE  Delta(i) \in Nat
<1>1. samples[i] \in SampleRow
  OBVIOUS
<1>2. samples[i].delta \in (0 .. Limit) \cup {None}
  BY <1>1 DEF SampleRow
<1> QED BY <1>2, BoundTypes DEF Delta

\* The totals of the first n samples, as a function.
Totals(n, g) ==
  /\ g \in [0 .. n -> Nat] /\ g[0] = 0
  /\ \A k \in 1 .. n : g[k] = g[k - 1] + Delta(k)

LEMMA TotalsExist ==
  ASSUME samples \in Seq(SampleRow), NEW n \in 0 .. Len(samples)
  PROVE  \E g : Totals(n, g)
<1> DEFINE P == {m \in Nat : m <= Len(samples) => \E g : Totals(m, g)}
<1>0. Len(samples) \in Nat
  OBVIOUS
<1>1. 0 \in P
  <2>1. Totals(0, [k \in 0 .. 0 |-> 0])
    BY DEF Totals
  <2> QED BY <2>1
<1>2. ASSUME NEW m \in P PROVE m + 1 \in P
  <2> SUFFICES ASSUME m + 1 <= Len(samples) PROVE \E g : Totals(m + 1, g)
    OBVIOUS
  <2>1. PICK g : Totals(m, g)
    BY <1>0
  <2> DEFINE h == [k \in 0 .. (m + 1) |-> IF k = m + 1 THEN g[m] + Delta(m + 1) ELSE g[k]]
  <2>2. Delta(m + 1) \in Nat
    BY <1>0, DeltaTyped
  <2>3. h \in [0 .. (m + 1) -> Nat] /\ h[0] = 0
    BY <2>1, <2>2 DEF Totals
  <2>4. ASSUME NEW k \in 1 .. (m + 1) PROVE h[k] = h[k - 1] + Delta(k)
    <3>1. CASE k = m + 1
      BY <3>1
    <3>2. CASE k # m + 1
      <4>1. k \in 1 .. m /\ k - 1 \in 0 .. m
        BY <3>2
      <4> QED BY <2>1, <4>1 DEF Totals
    <3> QED BY <3>1, <3>2
  <2>5. Totals(m + 1, h)
    BY <2>3, <2>4 DEF Totals
  <2> QED BY <2>5
<1>3. P = Nat
  <2> HIDE DEF P
  <2>1. P \in SUBSET Nat
    BY DEF P
  <2> QED BY <1>1, <1>2, <2>1, Induction
<1> QED BY <1>0, <1>3

LEMMA RunningIs ==
  ASSUME samples \in Seq(SampleRow)
  PROVE  Totals(Len(samples), Running)
<1>0. Len(samples) \in Nat
  OBVIOUS
<1>1. PICK g : Totals(Len(samples), g)
  BY <1>0, TotalsExist
<1> DEFINE Rec(f) == [n \in 0 .. Len(samples) |-> IF n = 0 THEN 0 ELSE f[n - 1] + Delta(n)]
<1>2. g = Rec(g)
  <2>1. ASSUME NEW n \in 0 .. Len(samples) PROVE g[n] = IF n = 0 THEN 0 ELSE g[n - 1] + Delta(n)
    <3>1. CASE n = 0
      BY <1>1, <3>1 DEF Totals
    <3>2. CASE n # 0
      BY <1>0, <1>1, <3>2 DEF Totals
    <3> QED BY <3>1, <3>2
  <2>2. g \in [0 .. Len(samples) -> Nat]
    BY <1>1 DEF Totals
  <2> QED BY <2>1, <2>2
<1>3. Running = CHOOSE f : f = Rec(f)
  BY DEF Running
<1>4. Running = Rec(Running)
  <2> HIDE DEF Rec
  <2> QED BY <1>2, <1>3
<1>5. \A n \in 0 .. Len(samples) : Running[n] = IF n = 0 THEN 0 ELSE Running[n - 1] + Delta(n)
  BY <1>4
<1> DEFINE P == {n \in Nat : n <= Len(samples) => Running[n] = g[n]}
<1>6. 0 \in P
  BY <1>0, <1>1, <1>5 DEF Totals
<1>7. ASSUME NEW n \in P PROVE n + 1 \in P
  <2> SUFFICES ASSUME n + 1 <= Len(samples) PROVE Running[n + 1] = g[n + 1]
    OBVIOUS
  <2>1. Running[n] = g[n] /\ n + 1 \in 0 .. Len(samples) /\ n + 1 # 0 /\ (n + 1) - 1 = n
        /\ n + 1 \in 1 .. Len(samples)
    BY <1>0
  <2>2. Running[n + 1] = Running[n] + Delta(n + 1)
    BY <1>5, <2>1
  <2>3. g[n + 1] = g[n] + Delta(n + 1)
    BY <1>1, <2>1 DEF Totals
  <2> QED BY <2>1, <2>2, <2>3
<1>8. P = Nat
  <2> HIDE DEF P
  <2>1. P \in SUBSET Nat
    BY DEF P
  <2> QED BY <1>6, <1>7, <2>1, Induction
<1>9. Running = g
  <2>1. DOMAIN Running = 0 .. Len(samples) /\ Running = [n \in DOMAIN Running |-> Running[n]]
    BY <1>4
  <2>2. \A n \in 0 .. Len(samples) : Running[n] = g[n]
    BY <1>0, <1>8
  <2> QED BY <1>1, <2>1, <2>2 DEF Totals
<1> QED BY <1>1, <1>9

\* The same, one step on.
LEMMA RunningNext == (samples \in Seq(SampleRow) => Totals(Len(samples), Running))'
<1>1. samples \in Seq(SampleRow) => Totals(Len(samples), Running)
  BY RunningIs
<1> QED BY <1>1, PTL

(***************************************************************************)
(* The timeline.  As long as nobody switches accounts, what the samples    *)
(* report only moves forward, and so do the cursor and whatever an         *)
(* operation carries; a delta is measured from a counter that no earlier   *)
(* sample is ahead of.                                                     *)
(***************************************************************************)
\* A counter reading without a hole, and one that does not follow another.
Whole(a) == a.used # None => a.win # None
Below(a, b) ==
  a.used # None /\ b.used # None => a.win < b.win \/ (a.win = b.win /\ a.used <= b.used)

\* What a delta is the difference to.
Base(row) == [used |-> row.used - row.delta, win |-> row.win]

\* The delta of a row that comes after the first n samples.
Measured(row, n) ==
  /\ row.status = "ok" => /\ None \notin {row.used, row.win, row.delta} /\ row.delta <= row.used
                          /\ \A i \in 1 .. n : Below(samples[i], Base(row))
  /\ row.status # "ok" => row.delta = None

Reading(p)  == op[p].pc \in {"fetch", "create", "close", "persist"}
Carrying(p) == op[p].pc \in {"create", "close", "persist"}

\* A row that is not older than the first n samples, nor ahead of the world.
Fits(row, n) ==
  /\ row.at <= now /\ Whole(row) /\ Below(row, quota[account]) /\ Measured(row, n)
  /\ \A i \in 1 .. n : samples[i].at <= row.at /\ Below(samples[i], row)

InOrder == \A i \in DOMAIN samples : Fits(samples[i], i - 1)

CursorInOrder ==
  cursor # None => /\ Whole(cursor) /\ Below(cursor, quota[account])
                   /\ \A i \in DOMAIN samples : Below(samples[i], cursor)

OpInOrder(p) ==
  /\ Reading(p) => op[p].at <= now /\ \A i \in DOMAIN samples : samples[i].at <= op[p].at
  /\ Carrying(p) => /\ Fits(op[p].row, Len(samples)) /\ op[p].row.at = op[p].at
                    /\ cursor # None => Below(op[p].row, cursor)

TimelineInv == InOrder /\ CursorInOrder /\ \A p \in Procs : OpInOrder(p)

\* The user stays logged in to one account.
NoSwitch == "switch" \notin Faults

\* Nothing a step of the world, or of a process that neither reads nor stores
\* a sample, does to the timeline.
Later ==
  now <= now' /\ (NoSwitch => account' = account /\ Below(quota[account], quota'[account]))

SameReading(a, b) ==
  a.at = b.at /\ a.used = b.used /\ a.win = b.win /\ a.delta = b.delta /\ a.status = b.status

Kept(p) ==
  \/ ~Reading(p)'
  \/ op'[p].pc = "fetch" /\ (op'[p].at = now \/ (op[p].pc = "fetch" /\ op'[p].at = op[p].at))
  \/ Carrying(p)' /\ Carrying(p) /\ op'[p].at = op[p].at /\ SameReading(op'[p].row, op[p].row)

Quiet == UNCHANGED samples /\ cursor' \in {cursor, None} /\ Later /\ \A p \in Procs : Kept(p)

\* A sample is classified, and a sample is stored; nobody else is past the lock.
Taken(p) ==
  /\ op[p].pc = "fetch" /\ UNCHANGED <<now, account, quota, samples>>
  /\ op'[p].at = op[p].at /\ Carrying(p)' /\ \A q \in Procs \ {p} : ~Reading(q)'
  /\ \/ cursor' = None /\ op'[p].row = FailedSample(p)
     \/ \E res \in {quota[account], Unusable} : cursor' = res /\ op'[p].row = Classified(p, res)

Persisted(p) ==
  /\ op[p].pc = "persist" /\ UNCHANGED <<now, account, quota, cursor>>
  /\ samples' = Append(samples, op[p].row) /\ \A q \in Procs : ~Reading(q)'

LEMMA QuotaTyped ==
  ASSUME TypeOK
  PROVE  /\ account \in Accounts /\ quota[account].used \in 0 .. Limit /\ quota[account].win \in 0 .. MaxWindow
         /\ quota[account] \in Resource /\ quota[account].used # None /\ quota[account].win # None
<1>1. quota[account] \in [used : 0 .. Limit, win : 0 .. MaxWindow]
  BY DEF TypeOK
<1>2. quota[account].used \in 0 .. Limit /\ quota[account].win \in 0 .. MaxWindow
  BY <1>1
<1> QED BY <1>1, <1>2, NoneAssumption DEF TypeOK, Resource

LEMMA LaterIfSame ==
  ASSUME TypeOK, UNCHANGED <<now, account, quota>>
  PROVE  Later
<1>1. now \in Nat
  BY BoundTypes DEF TypeOK, Time
<1> QED BY <1>1, QuotaTyped, BoundTypes DEF Later, Below

LEMMA KeptIfSame ==
  ASSUME NEW p \in Procs, op'[p] = op[p]
  PROVE  Kept(p)
BY DEF Kept, Reading, Carrying, SameReading

LEMMA KeptIfLeft ==
  ASSUME OpTyped, NEW p \in Procs, Leave(p) \/ LeaveStarting(p) \/ LeaveStopping(p), NEW q \in Procs
  PROVE  Kept(q) /\ (~Reading(q) => ~Reading(q)')  /\ ~Reading(p)'
<1>1. op'[q] \in {op[q], Idle, Asleep} /\ op'[p] \in {Idle, Asleep}
  BY DEF OpTyped, Leave, LeaveStarting, LeaveStopping
<1> QED BY <1>1, IdleType DEF Kept, Reading, Carrying, SameReading

LEMMA KeptIfGone ==
  ASSUME OpTyped, NEW p \in Procs, NEW pc, Goto(p, pc), pc \notin {"fetch", "create", "close"},
         pc = "persist" => op[p].pc = "close", NEW q \in Procs
  PROVE  Kept(q)
<1>1. op' = [op EXCEPT ![p] = [op[p] EXCEPT !.pc = pc]]
  BY DEF Goto, OpTyped
<1>2. CASE q # p
  BY <1>1, <1>2, KeptIfSame DEF OpTyped
<1>3. CASE q = p
  <2>1. op'[p].pc = pc /\ op'[p].at = op[p].at /\ op'[p].row = op[p].row
    BY <1>1 DEF OpTyped, OpState
  <2> QED BY <1>3, <2>1 DEF Kept, Reading, Carrying, SameReading
<1> QED BY <1>2, <1>3

LEMMA TimelineWorld ==
  ASSUME TypeOK, World
  PROVE  Quiet
<1> op' = op /\ samples' = samples /\ cursor' = cursor
  BY DEF World, ClockTick, Consume, WindowReset, SwitchAccount, memory, tables
<1>0. /\ now \in Nat /\ account \in Accounts
      /\ quota[account].used \in Nat /\ quota[account].win \in Nat
  BY QuotaTyped, BoundTypes DEF TypeOK, Time
<1>1. ASSUME ClockTick PROVE Later
  <2>1. now' = now + 1 /\ account' = account /\ quota' = quota
    BY <1>1 DEF ClockTick
  <2> QED BY <1>0, <2>1 DEF Later, Below
<1>2. ASSUME NEW a \in Accounts, Consume(a) PROVE Later
  <2>1. quota \in [Accounts -> [used : 0 .. Limit, win : 0 .. MaxWindow]]
    BY DEF TypeOK
  <2>2. \/ quota'[account] = quota[account]
        \/ quota'[account].used = quota[account].used + 1 /\ quota'[account].win = quota[account].win
    BY <1>0, <1>2, <2>1 DEF Consume
  <2> QED BY <1>0, <1>2, <2>2 DEF Consume, Later, Below
<1>3. ASSUME NEW a \in Accounts, WindowReset(a) PROVE Later
  <2>1. quota \in [Accounts -> [used : 0 .. Limit, win : 0 .. MaxWindow]]
    BY DEF TypeOK
  <2>2. \/ quota'[account] = quota[account]
        \/ quota'[account].win = quota[account].win + 1
    BY <1>0, <1>3, <2>1 DEF WindowReset
  <2> QED BY <1>0, <1>3, <2>2 DEF WindowReset, Later, Below
<1>4. ASSUME NEW a \in Accounts, SwitchAccount(a) PROVE Later
  BY <1>0, <1>4 DEF SwitchAccount, Fault, NoSwitch, Later
<1>5. Later
  <2>1. CASE \E a \in Accounts : Consume(a) \/ WindowReset(a) \/ SwitchAccount(a)
    <3>1. PICK a \in Accounts : Consume(a) \/ WindowReset(a) \/ SwitchAccount(a)
      BY <2>1
    <3> QED BY <1>2, <1>3, <1>4, <3>1
  <2> QED BY <1>1, <2>1 DEF World
<1> QED BY <1>5, KeptIfSame DEF Quiet

LEMMA TimelineFetch ==
  ASSUME TypeOK, WorkersHoldLock, NEW p \in Procs, FetchStep(p)
  PROVE  Taken(p)
<1> OpTyped
  BY DEF TypeOK, OpTyped
<1>1. /\ op[p].pc = "fetch" /\ UNCHANGED <<now, account, quota, samples>>
  BY DEF FetchStep, Fetched, FetchedUnusable, FetchFailed, external, tables
<1>2. ASSUME NEW res, NEW row, op' = [op EXCEPT ![p].pc = AfterFetch(p), ![p].res = res, ![p].row = row]
      PROVE  op'[p].at = op[p].at /\ Carrying(p)' /\ op'[p].row = row
  <2>1. op'[p] = [op[p] EXCEPT !.pc = AfterFetch(p), !.res = res, !.row = row]
    BY <1>2 DEF OpTyped
  <2> QED BY <2>1 DEF OpTyped, OpState, Carrying, AfterFetch
<1>3. \A q \in Procs \ {p} : ~Reading(q)'
  <2>1. WorkersHoldLock' /\ holder' = p
    BY FetchLock
  <2> QED BY <2>1 DEF WorkersHoldLock, Working, Reading
<1>4. CASE FetchFailed(p)
  BY <1>1, <1>2, <1>3, <1>4 DEF FetchFailed, Taken
<1>5. ASSUME NEW res \in {quota[account], Unusable}, SampleTaken(p, res) PROVE Taken(p)
  BY <1>1, <1>2, <1>3, <1>5 DEF SampleTaken, Taken
<1> QED BY <1>4, <1>5 DEF FetchStep, Fetched, FetchedUnusable

LEMMA TimelineCommit ==
  ASSUME TypeInv, WorkersHoldLock, NEW p \in Procs, CommitStep(p) \/ CommitFails(p)
  PROVE  Quiet \/ Persisted(p)
<1> OpTyped /\ TypeOK
  BY DEF TypeInv, TypeOK, OpTyped
<1>1. UNCHANGED <<now, account, quota, cursor>>
  BY DEF CommitStep, CommitFails, CreateSession, CloseExhausted, EndSession, Settle, PersistSample, external
<1>2. Later
  BY <1>1, LaterIfSame
<1>3. CASE PersistSample(p)
  <2>1. op[p].pc = "persist" /\ samples' = Append(samples, op[p].row)
    BY <1>3 DEF PersistSample
  <2>2. holder = p
    BY <2>1 DEF WorkersHoldLock, Working
  <2>3. p \notin {None} /\ \A q \in Procs \ {p} : ~Reading(q)
    BY <2>2, NoneAssumption DEF WorkersHoldLock, Working, Reading, Procs
  <2>4. ASSUME NEW q \in Procs PROVE ~Reading(q)'
    <3>1. CASE Leave(p) \/ LeaveStarting(p) \/ LeaveStopping(p)
      BY <2>3, <3>1, KeptIfLeft
    <3>2. ASSUME NEW pc \in {"end", "autostop"}, Goto(p, pc) PROVE ~Reading(q)'
      <4>1. op' = [op EXCEPT ![p] = [op[p] EXCEPT !.pc = pc]]
        BY <3>2 DEF Goto, OpTyped
      <4>2. op'[p].pc = pc /\ (q # p => op'[q] = op[q])
        BY <4>1 DEF OpTyped, OpState
      <4> QED BY <2>3, <4>2 DEF Reading
    <3> QED BY <1>3, <3>1, <3>2 DEF PersistSample
  <2> QED BY <1>1, <2>1, <2>4 DEF Persisted
<1>4. CASE CreateSession(p)
  <2>1. PICK s \in SessionIds :
          op' = [op EXCEPT ![p].sid = s, ![p].row.trigger = s, ![p].pc = AfterCreate(op[p].res)]
    BY <1>4 DEF CreateSession
  <2> DEFINE o == [op[p] EXCEPT !.sid = s, !.row = [op[p].row EXCEPT !.trigger = s], !.pc = AfterCreate(op[p].res)]
  <2>0. op[p] \in OpState /\ op[p].row \in SampleRow /\ op[p].pc = "create" /\ UNCHANGED samples
    BY <1>4 DEF CreateSession, TypeInv, Ready, OpTyped
  <2>2. op' = [op EXCEPT ![p] = o]
    BY <2>0, <2>1 DEF OpTyped, OpState
  <2>3. /\ o.at = op[p].at /\ o.pc \in {"close", "persist"} /\ o.row = [op[p].row EXCEPT !.trigger = s]
    BY <2>0 DEF OpState, AfterCreate
  <2>4. SameReading(o.row, op[p].row)
    BY <2>0, <2>3 DEF SameReading, SampleRow
  <2> HIDE DEF o
  <2>5. ASSUME NEW q \in Procs PROVE Kept(q)
    <3>1. CASE q = p
      BY <2>0, <2>2, <2>3, <2>4, <3>1 DEF Kept, Carrying, OpTyped
    <3>2. CASE q # p
      BY <2>2, <3>2, KeptIfSame DEF OpTyped
    <3> QED BY <3>1, <3>2
  <2> QED BY <1>1, <1>2, <2>0, <2>5 DEF Quiet
<1>5. CASE CloseExhausted(p) \/ EndSession(p)
  <2>1. \A q \in Procs : Kept(q)
    BY <1>5, KeptIfGone DEF CloseExhausted, EndSession
  <2>2. UNCHANGED samples
    BY <1>5 DEF CloseExhausted, EndSession
  <2> QED BY <1>1, <1>2, <2>1, <2>2 DEF Quiet
<1>6. CASE Settle(p) \/ CommitFails(p)
  <2>1. \A q \in Procs : Kept(q)
    BY <1>6, KeptIfLeft DEF Settle, CommitFails
  <2>2. UNCHANGED samples
    BY <1>6 DEF Settle, CommitFails, tables
  <2> QED BY <1>1, <1>2, <2>1, <2>2 DEF Quiet
<1> QED BY <1>3, <1>4, <1>5, <1>6 DEF CommitStep

LEMMA TimelineSteps ==
  ASSUME TypeInv, WorkersHoldLock, [Next]_vars
  PROVE  Quiet \/ \E p \in Procs : Taken(p) \/ Persisted(p)
<1> TypeOK /\ OpTyped /\ Sampler \in Procs /\ Clients \subseteq Procs
  BY DEF TypeInv, TypeOK, OpTyped, Procs
<1>1. ASSUME NEW c \in Clients, StartStep(c) PROVE Quiet
  <2>1. UNCHANGED <<now, account, quota, cursor, samples>>
    BY <1>1 DEF StartStep, StartSession, IdentityFetched, IdentityFailed, external, tables
  <2>2. ASSUME NEW q \in Procs PROVE Kept(q)
    <3>1. CASE StartSession(c)
      BY <3>1, KeptIfGone DEF StartSession
    <3>2. CASE Leave(c)
      BY <3>2, KeptIfLeft
    <3>3. CASE IdentityFetched(c) /\ ~Leave(c)
      <4>1. op' = [op EXCEPT ![c] = [op[c] EXCEPT !.pc = "fetch", !.user = account, !.at = now, !.seen = Active]]
        BY <3>3 DEF IdentityFetched, OpTyped
      <4>2. op'[c].pc = "fetch" /\ op'[c].at = now /\ (q # c => op'[q] = op[q])
        BY <4>1 DEF OpTyped, OpState
      <4> QED BY <4>2, KeptIfSame DEF Kept
    <3> QED BY <1>1, <3>1, <3>2, <3>3 DEF StartStep, IdentityFailed
  <2> QED BY <2>1, <2>2, LaterIfSame DEF Quiet
<1>2. ASSUME NEW c \in Clients, NEW s \in SessionIds, StopSession(c, s) PROVE Quiet
  <2>1. UNCHANGED <<now, account, quota, cursor, samples>>
    BY <1>2 DEF StopSession, external, tables
  <2>2. ASSUME NEW q \in Procs PROVE Kept(q)
    <3>1. CASE Stoppable(s)
      <4>1. op' = [op EXCEPT ![c] = [op[c] EXCEPT !.pc = "fetch", !.sid = s, !.at = now, !.seen = Active]]
        BY <1>2, <3>1 DEF StopSession, OpTyped
      <4>2. op'[c].pc = "fetch" /\ op'[c].at = now /\ (q # c => op'[q] = op[q])
        BY <4>1 DEF OpTyped, OpState
      <4> QED BY <4>2, KeptIfSame DEF Kept
    <3>2. CASE ~Stoppable(s)
      BY <1>2, <3>2, KeptIfGone DEF StopSession
    <3> QED BY <3>1, <3>2
  <2> QED BY <2>1, <2>2, LaterIfSame DEF Quiet
<1>3. CASE TickStep
  <2>1. UNCHANGED <<now, account, quota, cursor, samples>>
    BY <1>3 DEF TickStep, Tick, TickDone, AutoStop, external, tables, memory
  <2>2. ASSUME NEW q \in Procs PROVE Kept(q)
    <3>1. CASE Tick /\ ~LeaveStopping(Sampler)
      <4>1. op' = [op EXCEPT ![Sampler] = [op[Sampler] EXCEPT !.pc = "fetch", !.at = now, !.seen = Active]]
        BY <3>1 DEF Tick, OpTyped
      <4>2. op'[Sampler].pc = "fetch" /\ op'[Sampler].at = now /\ (q # Sampler => op'[q] = op[q])
        BY <4>1 DEF OpTyped, OpState
      <4> QED BY <4>2, KeptIfSame DEF Kept
    <3>2. CASE Leave(Sampler) \/ LeaveStopping(Sampler)
      BY <3>2, KeptIfLeft
    <3>3. CASE \E s \in SessionIds : AutoStop(s)
      BY <3>3, KeptIfSame DEF AutoStop, memory
    <3> QED BY <1>3, <3>1, <3>2, <3>3 DEF TickStep, Tick, TickDone
  <2> QED BY <2>1, <2>2, LaterIfSame DEF Quiet
<1>4. CASE ProcessExit
  <2>1. \A q \in Procs : ~Reading(q)'
    BY <1>4, IdleType DEF ProcessExit, Reading
  <2>2. UNCHANGED <<now, account, quota, samples>> /\ cursor' = None
    BY <1>4 DEF ProcessExit, external, tables
  <2> QED BY <2>1, <2>2, LaterIfSame DEF Quiet, Kept
<1>5. CASE Boot \/ Reconcile \/ UNCHANGED vars
  <2>1. UNCHANGED <<now, account, quota, cursor, samples, op>>
    BY <1>5 DEF Boot, Reconcile, BootDone, ReconcileSession, external, memory, tables, vars
  <2> QED BY <2>1, LaterIfSame, KeptIfSame DEF Quiet
<1> QED BY <1>1, <1>2, <1>3, <1>4, <1>5, TimelineWorld, TimelineFetch, TimelineCommit DEF Next

\* What the types say of readings, and how they compare.
Counter(a) == a.used \in Nat \cup {None} /\ a.win \in Nat \cup {None}

LEMMA CounterTypes ==
  ASSUME TypeInv
  PROVE  /\ \A i \in DOMAIN samples : samples[i] \in SampleRow /\ Counter(samples[i]) /\ samples[i].at \in Nat
         /\ cursor # None => Counter(cursor)
         /\ Counter(Unusable) /\ Counter(quota[account])
         /\ \A p \in Procs : Carrying(p) => /\ op[p].row \in SampleRow /\ Counter(op[p].row)
                                            /\ op[p].row.at \in Nat
<1>0. TypeOK /\ Ready
  BY DEF TypeInv
<1>1. \A row \in SampleRow : Counter(row) /\ row.at \in Nat
  BY BoundTypes DEF SampleRow, Counter, Time
<1>2. \A res \in Resource : Counter(res)
  BY BoundTypes DEF Resource, Counter
<1>3. \A i \in DOMAIN samples : samples[i] \in SampleRow
  BY <1>0 DEF TypeOK
<1>4. cursor # None => cursor \in Resource
  BY <1>0 DEF TypeOK
<1>5. Unusable \in Resource /\ quota[account] \in Resource
  BY <1>0, QuotaTyped DEF Unusable, Resource
<1>6. \A p \in Procs : Carrying(p) => op[p].row \in SampleRow
  BY <1>0 DEF Ready, Carrying
<1> QED BY <1>1, <1>2, <1>3, <1>4, <1>5, <1>6

LEMMA BelowTrans ==
  ASSUME NEW a, NEW b, NEW c, Counter(a), Counter(b), Counter(c), Whole(a), Whole(c),
         b.used # None, b.win # None, Below(a, b), Below(b, c)
  PROVE  Below(a, c)
BY NoneAssumption DEF Counter, Whole, Below

LEMMA BelowLater ==
  ASSUME NoSwitch, TypeOK, TypeOK', Later, NEW a, Counter(a), Whole(a), Below(a, quota[account])
  PROVE  Below(a, quota'[account'])
<1>1. /\ Counter(quota[account]) /\ quota[account].used # None /\ quota[account].win # None
  BY QuotaTyped, BoundTypes DEF Counter
<1>2. account' \in Accounts /\ quota' \in [Accounts -> [used : 0 .. Limit, win : 0 .. MaxWindow]]
  BY DEF TypeOK
<1>3. quota'[account'].used \in 0 .. Limit /\ quota'[account'].win \in 0 .. MaxWindow
  BY <1>2
<1>4. Counter(quota'[account']) /\ Whole(quota'[account'])
  BY <1>3, BoundTypes, NoneAssumption DEF Counter, Whole
<1> QED BY <1>1, <1>4, BelowTrans DEF Later

LEMMA TimelineQuiet ==
  ASSUME NoSwitch, TypeInv, TypeInv', TimelineInv, Quiet
  PROVE  TimelineInv'
<1>0. TypeOK /\ TypeOK' /\ now \in Nat /\ now' \in Nat /\ now <= now' /\ samples' = samples
  BY BoundTypes DEF TypeInv, TypeOK, Time, Quiet, Later
<1>1. \A i \in DOMAIN samples : Fits(samples[i], i - 1)
  BY DEF TimelineInv, InOrder
<1>2. \A i \in DOMAIN samples : Below(samples[i], quota'[account'])
  BY <1>0, <1>1, CounterTypes, BelowLater DEF Fits, Quiet
<1>3. \A i \in DOMAIN samples : samples[i].at <= now /\ samples[i].at \in Nat
  BY <1>1, CounterTypes DEF Fits
<1>4. InOrder'
  <2> SUFFICES ASSUME NEW i \in DOMAIN samples PROVE Fits(samples[i], i - 1)'
    BY <1>0 DEF InOrder
  <2>1. Fits(samples[i], i - 1) /\ Below(samples[i], quota'[account']) /\ samples[i].at <= now'
    BY <1>0, <1>1, <1>2, <1>3
  <2> QED BY <1>0, <2>1 DEF Fits, Measured
<1>5. CursorInOrder'
  <2> SUFFICES ASSUME cursor # None, cursor' = cursor
        PROVE Whole(cursor) /\ Below(cursor, quota'[account']) /\ \A i \in DOMAIN samples : Below(samples[i], cursor)
    BY <1>0 DEF CursorInOrder, Quiet
  <2>1. CursorInOrder
    BY DEF TimelineInv
  <2> QED BY <1>0, <2>1, CounterTypes, BelowLater DEF CursorInOrder, Quiet
<1>6. ASSUME NEW p \in Procs PROVE OpInOrder(p)'
  <2>1. OpInOrder(p)
    BY DEF TimelineInv
  <2>2. CASE ~Reading(p)'
    BY <2>2 DEF OpInOrder, Reading, Carrying
  <2>3. CASE op'[p].pc = "fetch" /\ op'[p].at = now
    BY <1>0, <1>3, <2>3 DEF OpInOrder, Reading, Carrying
  <2>4. CASE op'[p].pc = "fetch" /\ op[p].pc = "fetch" /\ op'[p].at = op[p].at
    <3>1. op[p].at \in Nat
      BY <2>4, BoundTypes DEF TypeInv, Ready, Time
    <3> QED BY <1>0, <2>1, <2>4, <3>1 DEF OpInOrder, Reading, Carrying
  <2>5. CASE Carrying(p)' /\ Carrying(p) /\ op'[p].at = op[p].at /\ SameReading(op'[p].row, op[p].row)
    <3> DEFINE row == op[p].row
    <3>1. /\ Fits(row, Len(samples)) /\ row.at = op[p].at /\ row.at \in Nat /\ Counter(row)
          /\ op[p].at <= now /\ \A i \in DOMAIN samples : samples[i].at <= op[p].at
          /\ cursor # None => Below(row, cursor)
      BY <2>1, <2>5, CounterTypes DEF OpInOrder, Reading, Carrying
    <3>2. Below(row, quota'[account']) /\ row.at <= now'
      BY <1>0, <3>1, BelowLater DEF Fits, Quiet
    <3> HIDE DEF row
    <3>3. SameReading(op'[p].row, row)
      BY <2>5 DEF row
    <3>4. Fits(op[p].row, Len(samples))'
      BY <1>0, <3>1, <3>2, <3>3 DEF Fits, Measured, Base, Whole, Below, SameReading
    <3>5. cursor' # None => Below(op'[p].row, cursor')
      BY <3>1, <3>3 DEF Quiet, Below, SameReading
    <3> QED BY <1>0, <2>5, <3>1, <3>2, <3>3, <3>4, <3>5 DEF OpInOrder, SameReading
  <2> QED BY <2>2, <2>3, <2>4, <2>5 DEF Quiet, Kept
<1> QED BY <1>4, <1>5, <1>6 DEF TimelineInv

\* A classified sample fits at the end of the timeline.
LEMMA ClassifiedFits ==
  ASSUME TypeInv, TimelineInv, NEW p \in Procs, op[p].pc = "fetch",
         NEW res \in {quota[account], Unusable}
  PROVE  /\ Fits(Classified(p, res), Len(samples)) /\ Whole(res) /\ Below(res, quota[account])
         /\ Below(Classified(p, res), res) /\ Classified(p, res).at = op[p].at
         /\ \A i \in DOMAIN samples : Below(samples[i], res)
<1> DEFINE d == GraphqlDelta(cursor, res)
           row == Classified(p, res)
<1>0. /\ TypeOK /\ OpInOrder(p) /\ InOrder /\ CursorInOrder /\ Len(samples) \in Nat
      /\ op[p].at \in Nat /\ DOMAIN samples = 1 .. Len(samples)
  BY BoundTypes DEF TypeInv, TypeOK, TimelineInv, Ready, Time
<1>1. /\ row.at = op[p].at /\ row.used = res.used /\ row.win = res.win /\ row.status = d.outcome
      /\ row.delta = d.delta
  BY DEF Classified
<1>2. /\ quota[account].used \in Nat /\ quota[account].win \in Nat
      /\ Unusable.used = None /\ Unusable.win = None
  BY <1>0, QuotaTyped, BoundTypes DEF Unusable
<1>3. Whole(res) /\ Below(res, quota[account]) /\ Below(row, res) /\ Whole(row) /\ Below(row, quota[account])
  BY <1>1, <1>2, NoneAssumption DEF Whole, Below
<1>4. ASSUME NEW i \in DOMAIN samples PROVE Below(samples[i], res) /\ samples[i].at <= op[p].at
  BY <1>0, <1>2, <1>4 DEF InOrder, Fits, Below, OpInOrder, Reading
<1>5. \A i \in DOMAIN samples : Below(samples[i], row)
  BY <1>1, <1>4 DEF Below
<1>6. Measured(row, Len(samples))
  <2>1. CASE d.outcome = "ok"
    <3>1. /\ cursor # None /\ cursor.used # None /\ cursor.win # None /\ res.used # None /\ res.win # None
          /\ cursor.win = res.win /\ ~(res.used < cursor.used) /\ d.delta = res.used - cursor.used
      BY <2>1 DEF GraphqlDelta
    <3>2. cursor.used \in Nat /\ res.used \in Nat
      BY <1>2, <3>1, CounterTypes DEF Counter
    <3>3. row.used - row.delta = cursor.used /\ row.delta \in Nat /\ row.delta <= row.used
      BY <1>1, <3>1, <3>2
    <3>4. Base(row) = [used |-> cursor.used, win |-> cursor.win]
      BY <1>1, <3>1, <3>3 DEF Base
    <3>5. \A i \in DOMAIN samples : Below(samples[i], Base(row))
      BY <1>0, <3>1, <3>4 DEF CursorInOrder, Below
    <3> HIDE DEF row, d
    <3> QED BY <1>0, <1>1, <2>1, <3>1, <3>3, <3>5, NoneAssumption DEF Measured
  <2>2. CASE d.outcome # "ok"
    <3>1. d.delta = None
      BY <2>2 DEF GraphqlDelta
    <3> HIDE DEF row, d
    <3> QED BY <1>1, <2>2, <3>1 DEF Measured
  <2> QED BY <2>1, <2>2
<1> HIDE DEF row, d
<1>7. row.at <= now
  BY <1>0, <1>1 DEF OpInOrder, Reading
<1>8. Fits(row, Len(samples))
  BY <1>0, <1>1, <1>3, <1>4, <1>5, <1>6, <1>7 DEF Fits
<1> QED BY <1>1, <1>3, <1>4, <1>8 DEF row

LEMMA FailedFits ==
  ASSUME TypeInv, TimelineInv, NEW p \in Procs, op[p].pc = "fetch"
  PROVE  Fits(FailedSample(p), Len(samples)) /\ FailedSample(p).at = op[p].at
<1>1. OpInOrder(p) /\ DOMAIN samples = 1 .. Len(samples)
  BY DEF TypeInv, TypeOK, TimelineInv
<1> DEFINE row == FailedSample(p)
<1>2. /\ row.at = op[p].at /\ row.used = None /\ row.win = None /\ row.status = "fetch_failed" /\ row.delta = None
  BY DEF FailedSample
<1> HIDE DEF row
<1>3. Fits(row, Len(samples))
  BY <1>1, <1>2 DEF Fits, Whole, Below, Measured, OpInOrder, Reading
<1> QED BY <1>2, <1>3 DEF row

LEMMA TimelineTaken ==
  ASSUME TypeInv, TypeInv', TimelineInv, NEW p \in Procs, Taken(p)
  PROVE  TimelineInv'
<1>0. /\ op[p].pc = "fetch" /\ UNCHANGED <<now, account, quota, samples>> /\ op'[p].at = op[p].at
      /\ Carrying(p)' /\ \A q \in Procs \ {p} : ~Reading(q)'
  BY DEF Taken
<1>1. /\ InOrder /\ OpInOrder(p) /\ op[p].at <= now /\ \A i \in DOMAIN samples : samples[i].at <= op[p].at
  BY <1>0 DEF TimelineInv, OpInOrder, Reading
<1>2. InOrder'
  BY <1>0, <1>1 DEF InOrder, Fits, Measured
<1>3. ASSUME NEW row, Fits(row, Len(samples)), row.at = op[p].at, op'[p].row = row,
             cursor' # None => /\ Whole(cursor') /\ Below(cursor', quota[account]) /\ Below(row, cursor')
                               /\ \A i \in DOMAIN samples : Below(samples[i], cursor')
      PROVE  TimelineInv'
  <2>1. CursorInOrder'
    BY <1>0, <1>3 DEF CursorInOrder
  <2>2. Fits(op[p].row, Len(samples))'
    BY <1>0, <1>3 DEF Fits, Measured
  <2>3. OpInOrder(p)'
    BY <1>0, <1>1, <1>3, <2>2 DEF OpInOrder
  <2>4. \A q \in Procs \ {p} : OpInOrder(q)'
    BY <1>0 DEF OpInOrder, Reading, Carrying
  <2> QED BY <1>2, <2>1, <2>3, <2>4 DEF TimelineInv
<1>4. CASE cursor' = None /\ op'[p].row = FailedSample(p)
  BY <1>0, <1>3, <1>4, FailedFits
<1>5. ASSUME NEW res \in {quota[account], Unusable}, cursor' = res, op'[p].row = Classified(p, res)
      PROVE  TimelineInv'
  BY <1>0, <1>3, <1>5, ClassifiedFits
<1> QED BY <1>4, <1>5 DEF Taken

LEMMA TimelinePersisted ==
  ASSUME TypeInv, TypeInv', TimelineInv, NEW p \in Procs, Persisted(p)
  PROVE  TimelineInv'
<1> DEFINE n == Len(samples)
           row == op[p].row
<1>0. /\ op[p].pc = "persist" /\ UNCHANGED <<now, account, quota, cursor>>
      /\ samples' = Append(samples, row) /\ \A q \in Procs : ~Reading(q)'
      /\ n \in Nat /\ samples \in Seq(SampleRow) /\ row \in SampleRow
  BY CounterTypes DEF Persisted, TypeInv, TypeOK, Carrying
<1>1. Fits(row, n) /\ (cursor # None => Below(row, cursor))
  BY <1>0 DEF TimelineInv, OpInOrder, Carrying
<1>2. InOrder /\ CursorInOrder
  BY DEF TimelineInv
<1> HIDE DEF row
<1>3. /\ DOMAIN samples = 1 .. n /\ DOMAIN samples' = 1 .. (n + 1)
      /\ samples'[n + 1] = row /\ \A i \in 1 .. n : samples'[i] = samples[i]
  BY <1>0
<1> HIDE DEF n
<1>4. InOrder'
  <2> SUFFICES ASSUME NEW i \in 1 .. (n + 1) PROVE Fits(samples[i], i - 1)'
    BY <1>3 DEF InOrder
  <2>1. CASE i = n + 1
    <3>1. i - 1 = n /\ samples'[i] = row
      BY <1>0, <1>3, <2>1
    <3>2. /\ row.at <= now /\ Whole(row) /\ Below(row, quota[account])
          /\ \A k \in 1 .. n : samples'[k].at <= row.at /\ Below(samples'[k], row)
      BY <1>1, <1>3 DEF Fits
    <3>3. Measured(samples[i], i - 1)'
      <4>1. Measured(row, n)
        BY <1>1 DEF Fits
      <4> QED BY <1>3, <3>1, <4>1 DEF Measured, Base, Below
    <3> QED BY <1>0, <3>1, <3>2, <3>3 DEF Fits
  <2>2. CASE i # n + 1
    <3>1. i \in 1 .. n /\ samples'[i] = samples[i] /\ Fits(samples[i], i - 1)
      BY <1>0, <1>2, <1>3, <2>2 DEF InOrder
    <3>2. \A j \in 1 .. (i - 1) : samples'[j] = samples[j]
      BY <1>0, <1>3, <3>1
    <3> QED BY <1>0, <3>1, <3>2 DEF Fits, Measured
  <2> QED BY <2>1, <2>2
<1>5. CursorInOrder'
  <2> SUFFICES ASSUME cursor # None
        PROVE  /\ Whole(cursor) /\ Below(cursor, quota[account])
               /\ \A i \in 1 .. (n + 1) : Below(samples'[i], cursor)
    BY <1>0, <1>3 DEF CursorInOrder
  <2>1. /\ Whole(cursor) /\ Below(cursor, quota[account])
        /\ \A i \in 1 .. n : Below(samples[i], cursor)
    BY <1>2, <1>3 DEF CursorInOrder
  <2>2. ASSUME NEW i \in 1 .. (n + 1) PROVE Below(samples'[i], cursor)
    BY <1>0, <1>1, <1>3, <2>1
  <2> QED BY <2>1, <2>2
<1>6. \A q \in Procs : OpInOrder(q)'
  BY <1>0 DEF OpInOrder, Reading, Carrying
<1> QED BY <1>4, <1>5, <1>6 DEF TimelineInv

LEMMA TimelineStep ==
  ASSUME NoSwitch, TypeInv, WorkersHoldLock, TimelineInv, [Next]_vars
  PROVE  TimelineInv'
BY TypeStep, TimelineSteps, TimelineQuiet, TimelineTaken, TimelinePersisted

LEMMA TimelineInit == Init => TimelineInv
<1> SUFFICES ASSUME Init PROVE TimelineInv
  OBVIOUS
<1>1. InOrder /\ CursorInOrder
  BY DEF Init, InOrder, CursorInOrder
<1>2. \A p \in Procs : ~Reading(p) /\ ~Carrying(p)
  BY IdleType DEF Init, Reading, Carrying
<1> QED BY <1>1, <1>2 DEF TimelineInv, OpInOrder

LEMMA RunningAppend ==
  ASSUME samples \in Seq(SampleRow), NEW row \in SampleRow, samples' = Append(samples, row)
  PROVE  /\ \A k \in 0 .. Len(samples) : Running[k] \in Nat /\ Running'[k] = Running[k]
         /\ Running'[Len(samples) + 1] =
              Running[Len(samples)] + IF row.delta = None THEN 0 ELSE row.delta
<1> SUFFICES ASSUME NEW n \in Nat, n = Len(samples)
      PROVE  /\ \A k \in 0 .. n : Running[k] \in Nat /\ Running'[k] = Running[k]
             /\ Running'[n + 1] = Running[n] + IF row.delta = None THEN 0 ELSE row.delta
  OBVIOUS
<1>0. Len(samples') = n + 1 /\ samples' \in Seq(SampleRow)
  OBVIOUS
<1>1. samples'[n + 1] = row /\ \A k \in 1 .. n : samples'[k] = samples[k]
  OBVIOUS
<1>2. /\ Running \in [0 .. n -> Nat] /\ Running[0] = 0
      /\ \A k \in 1 .. n : Running[k] = Running[k - 1] + Delta(k)
  BY RunningIs DEF Totals
<1>3. /\ Running' \in [0 .. n + 1 -> Nat] /\ Running'[0] = 0
      /\ \A k \in 1 .. n + 1 : Running'[k] = Running'[k - 1] + Delta(k)'
  <2>1. (Totals(Len(samples), Running))'
    BY <1>0, RunningNext
  <2> QED BY <1>0, <2>1 DEF Totals
<1>4. \A k \in 1 .. n : Delta(k)' = Delta(k)
  BY <1>1 DEF Delta
<1>5. Delta(n + 1)' = IF row.delta = None THEN 0 ELSE row.delta
  BY <1>1 DEF Delta
<1> DEFINE P == {k \in Nat : k <= n => Running'[k] = Running[k]}
<1>6. 0 \in P
  BY <1>2, <1>3
<1>7. ASSUME NEW k \in P PROVE k + 1 \in P
  <2> SUFFICES ASSUME k + 1 <= n PROVE Running'[k + 1] = Running[k + 1]
    OBVIOUS
  <2>1. k + 1 \in 1 .. n /\ k + 1 \in 1 .. n + 1 /\ (k + 1) - 1 = k /\ Running'[k] = Running[k]
    BY <1>0
  <2>2. Running[k + 1] = Running[k] + Delta(k + 1)
    BY <1>2, <2>1
  <2>3. Running'[k + 1] = Running'[k] + Delta(k + 1)'
    BY <1>3, <2>1
  <2> QED BY <1>4, <2>1, <2>2, <2>3
<1>8. P = Nat
  <2> HIDE DEF P
  <2>1. P \in SUBSET Nat
    BY DEF P
  <2> QED BY <1>6, <1>7, <2>1, Induction
<1>9. \A k \in 0 .. n : Running[k] \in Nat /\ Running'[k] = Running[k]
  <2>1. \A k \in Nat : k <= n => Running'[k] = Running[k]
    BY <1>8
  <2> QED BY <1>2, <2>1
<1>10. Running'[n + 1] = Running'[n] + Delta(n + 1)'
  <2>1. n + 1 \in 1 .. n + 1 /\ (n + 1) - 1 = n
    BY <1>0
  <2> QED BY <1>3, <2>1
<1> QED BY <1>5, <1>9, <1>10

(***************************************************************************)
(* Nothing is counted twice.  Below a reading of its window that no sample *)
(* since is ahead of, the deltas add up to less than the counter moved;    *)
(* the reading a new delta is measured from is one.                        *)
(***************************************************************************)
Readings == [used : Nat, win : Nat]
Ahead(r, i, j) == r.win = samples[i].win /\ \A k \in i .. j : Below(samples[k], r)

SumsBelow ==
  \A i \in DOMAIN samples : \A j \in i .. Len(samples) : \A r \in Readings :
    samples[i].used # None /\ Ahead(r, i, j) => SumOfDeltas(i, j) <= r.used - samples[i].used

LEMMA SumsInit == Init => SumsBelow
BY DEF Init, SumsBelow

LEMMA SumsSame ==
  ASSUME SumsBelow, UNCHANGED samples
  PROVE  SumsBelow'
<1>1. Running' = Running
  BY DEF Running, Delta
<1> QED BY <1>1 DEF SumsBelow, Ahead, SumOfDeltas, Below

LEMMA SumsPersisted ==
  ASSUME TypeInv, TimelineInv, SumsBelow, NEW p \in Procs, Persisted(p)
  PROVE  SumsBelow'
<1> DEFINE n == Len(samples)
           row == op[p].row
           d == IF row.delta = None THEN 0 ELSE row.delta
<1>0. /\ op[p].pc = "persist" /\ samples' = Append(samples, row)
      /\ n \in Nat /\ samples \in Seq(SampleRow) /\ row \in SampleRow /\ Fits(row, n) /\ Counter(row)
  BY CounterTypes DEF Persisted, TypeInv, TypeOK, Carrying, TimelineInv, OpInOrder
<1>1. /\ DOMAIN samples = 1 .. n /\ Len(samples') = n + 1 /\ DOMAIN samples' = 1 .. (n + 1)
      /\ samples'[n + 1] = row /\ \A i \in 1 .. n : samples'[i] = samples[i]
  BY <1>0
<1>2. /\ \A k \in 0 .. n : Running[k] \in Nat /\ Running'[k] = Running[k]
      /\ Running'[n + 1] = Running[n] + d
  <2> HIDE DEF row
  <2> QED BY <1>0, RunningAppend
<1>3. \A i \in 1 .. n : Counter(samples[i])
  BY <1>1, CounterTypes
<1> HIDE DEF row, n
<1>4. d \in Nat
  BY <1>0, BoundTypes DEF SampleRow
<1> HIDE DEF d
<1> SUFFICES ASSUME NEW i \in 1 .. (n + 1), NEW j \in i .. (n + 1), NEW r \in Readings,
                    samples'[i].used # None, r.win = samples'[i].win,
                    \A k \in i .. j : Below(samples'[k], r)
             PROVE  Running'[j] - Running'[i] <= r.used - samples'[i].used
  BY <1>1 DEF SumsBelow, Ahead, SumOfDeltas
<1>5. r.used \in Nat /\ r.win \in Nat /\ r.used # None /\ r.win # None
  BY NoneAssumption DEF Readings
<1>6. CASE j <= n
  <2>1. i \in 1 .. n /\ j \in i .. n /\ i \in 0 .. n /\ j \in 0 .. n
    BY <1>0, <1>6
  <2>2. Ahead(r, i, j) /\ samples'[i] = samples[i]
    <3>1. \A k \in i .. j : samples'[k] = samples[k]
      BY <1>0, <1>1, <2>1
    <3> QED BY <2>1, <3>1 DEF Ahead
  <2>3. Running[j] - Running[i] <= r.used - samples[i].used
    BY <1>1, <2>1, <2>2 DEF SumsBelow, SumOfDeltas, n
  <2> QED BY <1>2, <2>1, <2>2, <2>3
<1>7. CASE j = n + 1 /\ i = n + 1
  <2>1. Below(row, r) /\ samples'[i] = row
    BY <1>0, <1>1, <1>7
  <2>2. row.used \in Nat /\ row.used <= r.used
    BY <1>0, <1>5, <2>1 DEF Counter, Below
  <2>3. Running'[n + 1] \in Nat
    <3>1. n \in 0 .. n
      BY <1>0
    <3> QED BY <1>2, <1>4, <3>1
  <2> QED BY <1>5, <1>7, <2>1, <2>2, <2>3
<1>8. CASE j = n + 1 /\ i # n + 1
  <2>1. i \in 1 .. n /\ n \in i .. n /\ i \in 0 .. n /\ n \in 0 .. n /\ samples'[i] = samples[i]
    BY <1>0, <1>1, <1>8
  <2>2. Below(row, r) /\ \A k \in i .. n : Below(samples[k], r)
    <3>1. n + 1 \in i .. j /\ \A k \in i .. n : k \in i .. j /\ samples'[k] = samples[k]
      BY <1>0, <1>1, <1>8
    <3> QED BY <1>1, <3>1
  <2>3. /\ Running'[j] - Running'[i] = (Running[n] - Running[i]) + d
        /\ Running[n] \in Nat /\ Running[i] \in Nat /\ samples[i].used \in Nat /\ samples[i].win \in Nat
    BY <1>2, <1>3, <1>4, <1>5, <1>8, <2>1 DEF Counter
  <2>4. \A q \in Readings : Ahead(q, i, n) => Running[n] - Running[i] <= q.used - samples[i].used
    BY <1>1, <2>1 DEF SumsBelow, SumOfDeltas, n
  <2>5. CASE row.status # "ok"
    <3>1. d = 0
      BY <1>0, <2>5 DEF Fits, Measured, d
    <3>2. Ahead(r, i, n)
      BY <2>1, <2>2 DEF Ahead
    <3> QED BY <1>5, <2>1, <2>3, <2>4, <3>1, <3>2
  <2>6. CASE row.status = "ok"
    <3> DEFINE b == Base(row)
    <3>1. /\ row.used \in Nat /\ row.win \in Nat /\ d = row.delta /\ d <= row.used
          /\ row.used # None /\ row.win # None /\ \A k \in 1 .. n : Below(samples[k], b)
      BY <1>0, <2>6 DEF Fits, Measured, Counter, d
    <3>2. b.used = row.used - d /\ b.win = row.win /\ b \in Readings
      BY <1>4, <3>1 DEF Base, Readings
    <3>3. row.win = samples[i].win
      <4>1. Below(samples[i], row)
        BY <1>0, <2>1 DEF Fits
      <4> QED BY <1>5, <2>1, <2>2, <2>3, <3>1, <4>1 DEF Below
    <3> HIDE DEF b
    <3>4. Ahead(b, i, n)
      BY <2>1, <3>1, <3>2, <3>3 DEF Ahead
    <3>5. Running[n] - Running[i] <= (row.used - d) - samples[i].used
      BY <2>4, <3>2, <3>4
    <3>6. row.used <= r.used
      BY <1>5, <2>1, <2>2, <3>1, <3>3 DEF Below
    <3> QED BY <1>4, <1>5, <2>1, <2>3, <3>1, <3>5, <3>6
  <2> QED BY <2>5, <2>6
<1>9. j <= n \/ (j = n + 1 /\ i = n + 1) \/ (j = n + 1 /\ i # n + 1)
  BY <1>0
<1> QED BY <1>6, <1>7, <1>8, <1>9

SumsInv == TypeInv /\ WorkersHoldLock /\ TimelineInv /\ SumsBelow

LEMMA SumsStep ==
  ASSUME NoSwitch, SumsInv, [Next]_vars
  PROVE  SumsInv'
<1>0. OpTyped
  BY DEF SumsInv, TypeInv, TypeOK, OpTyped
<1>1. ASSUME Quiet \/ \E p \in Procs : Taken(p) PROVE SumsBelow'
  <2>1. samples' = samples
    BY <1>1 DEF Quiet, Taken
  <2> QED BY <2>1, SumsSame DEF SumsInv
<1>2. SumsBelow'
  BY <1>1, TimelineSteps, SumsPersisted DEF SumsInv
<1>3. TypeInv' /\ WorkersHoldLock' /\ TimelineInv'
  BY <1>0, TypeStep, LockStep, TimelineStep DEF SumsInv
<1> QED BY <1>2, <1>3 DEF SumsInv

LEMMA SumsBound ==
  ASSUME SumsInv
  PROVE  NothingCountedTwice
<1> SUFFICES ASSUME NEW i \in DOMAIN samples, NEW j \in DOMAIN samples, i < j,
                    samples[i].used # None, samples[j].used # None, samples[i].win = samples[j].win
             PROVE  SumOfDeltas(i, j) <= samples[j].used - samples[i].used
  BY DEF NothingCountedTwice
<1> DEFINE r == [used |-> samples[j].used, win |-> samples[j].win]
<1>1. /\ samples \in Seq(SampleRow) /\ Len(samples) \in Nat /\ Counter(samples[j])
      /\ Fits(samples[j], j - 1)
  BY CounterTypes DEF SumsInv, TypeInv, TypeOK, TimelineInv, InOrder
<1>2. r \in Readings /\ r.win # None
  BY <1>1 DEF Fits, Whole, Counter, Readings
<1>3. j \in i .. Len(samples) /\ i \in Nat /\ j \in Nat
  BY <1>1
<1>4. \A k \in i .. j : Below(samples[k], r)
  <2> SUFFICES ASSUME NEW k \in i .. j PROVE Below(samples[k], r)
    OBVIOUS
  <2>1. CASE k = j
    BY <1>2, <2>1 DEF Below, Readings
  <2>2. CASE k # j
    <3>1. k \in 1 .. (j - 1)
      BY <1>1, <1>3, <2>2
    <3> QED BY <1>1, <3>1 DEF Fits, Below
  <2> QED BY <2>1, <2>2
<1>5. Ahead(r, i, j)
  BY <1>4 DEF Ahead
<1> HIDE DEF r
<1>6. SumOfDeltas(i, j) <= r.used - samples[i].used
  BY <1>2, <1>3, <1>5 DEF SumsInv, SumsBelow
<1> QED BY <1>6 DEF r

LEMMA SumsInitially == Init => SumsInv
<1>1. Init => WorkersHoldLock
  BY IdleType DEF Init, WorkersHoldLock, Working
<1> QED BY <1>1, TypeInit, TimelineInit, SumsInit DEF SumsInv

\* Whatever gh call, commit or restart fails, no consumption is counted
\* twice, as long as the user stays logged in to one account: `gh api
\* rate_limit` (_take_and_classify_sample) reports the account of the moment.
THEOREM NothingIsCountedTwice ==
  ASSUME NoSwitch
  PROVE  Spec => []NothingCountedTwice
<1>1. SumsInv /\ [Next]_vars => SumsInv'
  BY SumsStep
<1>2. SumsInv => NothingCountedTwice
  BY SumsBound
<1> QED BY <1>1, <1>2, SumsInitially, PTL DEF Spec

(***************************************************************************)
(* What a measurement is made of: the deltas follow one another, a session *)
(* begins with the sample that opened it, and its total is the difference  *)
(* to the sample that closed it.                                           *)
(***************************************************************************)
SameCounter(a, b) == a.used = b.used /\ a.win = b.win

\* A row that goes on from the last sample of the timeline.
Continues(row) ==
  row.status = "ok" =>
    /\ samples # <<>> /\ samples[Len(samples)].used # None /\ samples[Len(samples)].win = row.win
    /\ row.delta = row.used - samples[Len(samples)].used

\* The cursor is the last sample, or the one about to be stored.
CursorIsLast ==
  cursor # None /\ (\A p \in Procs : ~Carrying(p))
    => samples # <<>> /\ SameCounter(samples[Len(samples)], cursor)
RowIsNext(p) ==
  Carrying(p) => Continues(op[p].row) /\ (cursor # None => SameCounter(op[p].row, cursor))

ChainInv == DeltasAreContiguous /\ CursorIsLast /\ \A p \in Procs : RowIsNext(p)

\* The first sample of a session is the one its row was created from.
Opens(f, s) ==
  /\ f \in DOMAIN samples /\ samples[f].trigger = s /\ \A i \in 1 .. (f - 1) : samples[i].trigger # s
  /\ samples[f].at = sessions[s].startedAt /\ SameCounter(samples[f], sessions[s].start)
Opened(s)   == \E f \in DOMAIN samples : Opens(f, s)
Unopened(s) == \A i \in DOMAIN samples : samples[i].trigger # s

\* The start of session s has still to store that sample.
Starts(c, s) == op[c].pc \in {"close", "persist"} /\ op[c].user # None /\ op[c].sid = s

OpenInv ==
  /\ \A s \in SessionIds : Unopened(s) \/ (s \in Stored /\ Opened(s))
  /\ \A s \in Active : ~Exhausted(sessions[s].start)
  /\ proc = "up" => \A s \in Active : Opened(s) \/ \E c \in Clients : Starts(c, s)

\* What an operation knows of the session it works on and the sample it took.
Result(p)  == IF op[p].res = None THEN Unusable ELSE op[p].res
Knowing(p) == Carrying(p) \/ op[p].pc \in {"end", "autostop"}
Unbound(p) ==
  p = Sampler \/ op[p].pc \in {"idle", "identity"} \/ (op[p].pc = "fetch" /\ op[p].user # None)
    => op[p].sid = None

Handed(p) ==
  /\ Unbound(p)
  /\ Knowing(p) => /\ op[p].row.trigger = op[p].sid /\ op[p].row.at = op[p].at
                   /\ SameCounter(op[p].row, Result(p))
  /\ op[p].pc \in {"end", "autostop"} => samples # <<>> /\ samples[Len(samples)] = op[p].row
  /\ p # Sampler /\ op[p].pc \in {"close", "persist"} /\ op[p].user # None =>
       /\ op[p].sid \in Stored /\ Unopened(op[p].sid)
       /\ sessions[op[p].sid].startedAt = op[p].at /\ sessions[op[p].sid].start = Result(p)
  /\ op[p].pc = "close" => Exhausted(op[p].res)
  /\ op[p].pc = "end" => \E f \in 1 .. (Len(samples) - 1) : Opens(f, op[p].sid)

\* The sample a total was taken from.
Closes(k, s) ==
  /\ k \in DOMAIN samples /\ \E f \in 1 .. (k - 1) : Opens(f, s)
  /\ samples[k].at = sessions[s].endedAt /\ samples[k].used = sessions[s].usedEnd
  /\ samples[k].win = sessions[s].start.win
  /\ samples[k].trigger = IF sessions[s].status = "STOPPED" THEN s ELSE None

Accounted(s) ==
  sessions[s].total # None =>
    /\ None \notin {sessions[s].start.used, sessions[s].usedEnd}
    /\ sessions[s].start.used <= sessions[s].usedEnd
    /\ sessions[s].total = sessions[s].usedEnd - sessions[s].start.used
    /\ IF Exhausted(sessions[s].start)
       THEN /\ sessions[s].endedAt = sessions[s].startedAt /\ sessions[s].endedAt \in Time
            /\ sessions[s].total = 0
       ELSE \E k \in DOMAIN samples : Closes(k, s)

MeasureInv ==
  /\ ChainInv /\ OpenInv
  /\ \A s \in SessionIds : Accounted(s)
  /\ \A p \in Procs : Handed(p)

CommitsSucceed == "db" \notin Faults

\* A process that neither takes nor stores a sample in a step that leaves
\* both tables alone.
Calm(p) ==
  \/ op'[p] = op[p]
  \/ /\ ~Carrying(p) /\ Unbound(p)'
     /\ op'[p].pc \in {"idle", "asleep", "identity", "fetch", "settle"}

Still ==
  /\ samples' = samples /\ sessions' = sessions
  /\ \/ cursor' = cursor /\ (proc' = "up" => proc = "up" \/ Active = {}) /\ \A p \in Procs : Calm(p)
     \/ cursor' = None /\ proc' = "down" /\ \A p \in Procs : op'[p] = Idle

LEMMA SameTables ==
  ASSUME samples' = samples, sessions' = sessions
  PROVE  /\ \A s \in SessionIds : /\ Opened(s)' <=> Opened(s)
                                  /\ Unopened(s)' <=> Unopened(s)
                                  /\ Accounted(s)' <=> Accounted(s)
         /\ \A f, s : Opens(f, s)' <=> Opens(f, s)
         /\ DeltasAreContiguous' <=> DeltasAreContiguous
         /\ Stored' = Stored /\ Active' = Active
<1>1. \A f, s : Opens(f, s)' <=> Opens(f, s)
  BY DEF Opens, SameCounter
<1>2. \A s : (Opened(s)' <=> Opened(s)) /\ (Unopened(s)' <=> Unopened(s))
  BY <1>1 DEF Opened, Unopened
<1>3. \A k, s : Closes(k, s)' <=> Closes(k, s)
  BY <1>1 DEF Closes
<1>4. \A s \in SessionIds : Accounted(s)' <=> Accounted(s)
  BY <1>3 DEF Accounted, Exhausted
<1>5. DeltasAreContiguous' <=> DeltasAreContiguous
  BY DEF DeltasAreContiguous
<1>6. Stored' = Stored /\ Active' = Active
  BY DEF Stored, Active
<1> QED BY <1>1, <1>2, <1>4, <1>5, <1>6

LEMMA MeasureStill ==
  ASSUME MeasureInv, Still
  PROVE  MeasureInv'
<1>0. samples' = samples /\ sessions' = sessions
  BY DEF Still
<1>1. \A p \in Procs : Carrying(p)' => Carrying(p) /\ op'[p] = op[p] /\ cursor' = cursor
  BY <1>0, IdleType DEF Still, Calm, Carrying
<1>2. cursor' # None => cursor' = cursor /\ \A p \in Procs : Carrying(p) => Carrying(p)'
  BY DEF Still, Calm, Carrying
<1>3. ChainInv'
  <2>1. DeltasAreContiguous'
    BY <1>0, SameTables DEF MeasureInv, ChainInv
  <2>2. CursorIsLast'
    BY <1>0, <1>2 DEF MeasureInv, ChainInv, CursorIsLast, SameCounter
  <2>3. \A p \in Procs : RowIsNext(p)'
    BY <1>0, <1>1 DEF MeasureInv, ChainInv, RowIsNext, Continues, SameCounter
  <2> QED BY <2>1, <2>2, <2>3 DEF ChainInv
<1>4. OpenInv'
  <2>1. proc' = "up" => proc = "up" \/ Active = {}
    BY DEF Still
  <2>2. proc' = "up" => \A c \in Clients, s \in SessionIds : Starts(c, s) => Starts(c, s)'
    BY DEF Still, Calm, Starts, Carrying, Procs
  <2>3. \A s \in SessionIds : (Opened(s)' <=> Opened(s)) /\ (Unopened(s)' <=> Unopened(s))
    BY <1>0, SameTables
  <2>4. Stored' = Stored /\ Active' = Active /\ Active \subseteq SessionIds
    BY <1>0, SameTables DEF Active
  <2>5. \A s \in Active : ~Exhausted(sessions[s].start)'
    BY <1>0 DEF MeasureInv, OpenInv, Exhausted
  <2> QED BY <2>1, <2>2, <2>3, <2>4, <2>5 DEF MeasureInv, OpenInv
<1>5. \A s \in SessionIds : Accounted(s)'
  BY <1>0, SameTables DEF MeasureInv
<1>6. ASSUME NEW p \in Procs PROVE Handed(p)'
  <2>1. CASE op'[p] = op[p]
    <3>1. \A f, s : Opens(f, s)' <=> Opens(f, s)
      BY <1>0, SameTables
    <3>2. Handed(p)
      BY DEF MeasureInv
    <3> QED BY <1>0, <2>1, <3>1, <3>2
        DEF Handed, Unbound, Knowing, Carrying, Result, SameCounter, Unopened, Stored, Exhausted
  <2>2. CASE Unbound(p)' /\ op'[p].pc \in {"idle", "asleep", "identity", "fetch", "settle"}
    BY <2>2 DEF Handed, Knowing, Carrying
  <2>3. CASE op'[p] = Idle
    <3>1. op'[p].pc = "idle" /\ op'[p].sid = None
      BY <2>3 DEF Idle
    <3> QED BY <3>1 DEF Handed, Unbound, Knowing, Carrying
  <2> QED BY <2>1, <2>2, <2>3 DEF Still, Calm
<1> QED BY <1>3, <1>4, <1>5, <1>6 DEF MeasureInv

LEMMA MeasureTaken ==
  ASSUME TypeInv, WorkersHoldLock, MeasureInv, NEW p \in Procs, FetchStep(p)
  PROVE  MeasureInv'
<1> OpTyped /\ TypeOK
  BY DEF TypeInv, TypeOK, OpTyped
<1>0. /\ op[p].pc = "fetch" /\ samples' = samples /\ sessions' = sessions /\ proc' = proc
      /\ \A q \in Procs \ {p} : op'[q] = op[q]
  BY FetchLock DEF FetchStep, Fetched, FetchedUnusable, FetchFailed, external, tables, Elsewhere
<1>1. \A q \in Procs : ~Knowing(q) /\ (q # p => ~Working(q))
  BY <1>0, FetchLock DEF WorkersHoldLock, Working, Knowing, Carrying
<1>2. PICK res, row :
        /\ op' = [op EXCEPT ![p].pc = AfterFetch(p), ![p].res = res, ![p].row = row]
        /\ \/ res = None /\ cursor' = None /\ row = FailedSample(p)
           \/ res \in {quota[account], Unusable} /\ cursor' = res /\ row = Classified(p, res)
  BY DEF FetchStep, Fetched, FetchedUnusable, FetchFailed, SampleTaken
<1>3. op'[p] = [op[p] EXCEPT !.pc = AfterFetch(p), !.res = res, !.row = row]
  BY <1>2 DEF OpTyped
<1>4. /\ op'[p].pc = AfterFetch(p) /\ op'[p].sid = op[p].sid /\ op'[p].user = op[p].user
      /\ op'[p].at = op[p].at /\ op'[p].res = res /\ op'[p].row = row
      /\ op'[p].pc \in {"create", "persist"}
  BY <1>3 DEF OpTyped, OpState, AfterFetch
<1>5. /\ row.at = op[p].at /\ row.trigger = op[p].sid
      /\ SameCounter(row, IF res = None THEN Unusable ELSE res)
      /\ cursor' # None => SameCounter(row, cursor')
  <2>1. CASE res = None /\ cursor' = None /\ row = FailedSample(p)
    BY <2>1 DEF FailedSample, SameCounter, Unusable
  <2>2. CASE res \in {quota[account], Unusable} /\ cursor' = res /\ row = Classified(p, res)
    <3>1. quota[account] \in Resource /\ Unusable \in Resource
      BY QuotaTyped DEF Unusable, Resource
    <3>2. res # None
      BY <2>2, <3>1, ResourceAssumption
    <3> QED BY <2>2, <3>2 DEF Classified, SameCounter
  <2> QED BY <1>2, <2>1, <2>2
<1>6. Continues(row)
  <2>1. CASE row = FailedSample(p)
    BY <2>1 DEF FailedSample, Continues
  <2>2. CASE row = Classified(p, res)
    <3> DEFINE d == GraphqlDelta(cursor, res)
    <3>1. row.status = d.outcome /\ row.delta = d.delta /\ row.used = res.used /\ row.win = res.win
      BY <2>2 DEF Classified
    <3>2. d.outcome = "ok" => /\ cursor # None /\ cursor.used # None /\ cursor.win = res.win
                              /\ d.delta = res.used - cursor.used
      BY DEF GraphqlDelta
    <3> HIDE DEF d
    <3>3. cursor # None => samples # <<>> /\ SameCounter(samples[Len(samples)], cursor)
      BY <1>1 DEF MeasureInv, ChainInv, CursorIsLast, Knowing
    <3> QED BY <3>1, <3>2, <3>3 DEF Continues, SameCounter
  <2> QED BY <1>2, <2>1, <2>2
<1>7. ChainInv'
  <2>1. DeltasAreContiguous'
    BY <1>0, SameTables DEF MeasureInv, ChainInv
  <2>2. CursorIsLast'
    BY <1>4 DEF CursorIsLast, Carrying
  <2>3. RowIsNext(p)'
    BY <1>0, <1>4, <1>5, <1>6 DEF RowIsNext, Continues, SameCounter
  <2>4. \A q \in Procs \ {p} : RowIsNext(q)'
    BY <1>0, <1>1 DEF RowIsNext, Knowing, Carrying
  <2> QED BY <2>1, <2>2, <2>3, <2>4 DEF ChainInv
<1>8. OpenInv'
  <2>1. \A c \in Clients, s \in SessionIds : ~Starts(c, s)
    BY <1>1 DEF Starts, Procs, Knowing, Carrying
  <2>2. \A s \in SessionIds : (Opened(s)' <=> Opened(s)) /\ (Unopened(s)' <=> Unopened(s))
    BY <1>0, SameTables
  <2>3. Stored' = Stored /\ Active' = Active /\ Active \subseteq SessionIds
    BY <1>0, SameTables DEF Active
  <2>4. \A s \in Active : ~Exhausted(sessions[s].start)'
    BY <1>0 DEF MeasureInv, OpenInv, Exhausted
  <2> QED BY <1>0, <2>1, <2>2, <2>3, <2>4 DEF MeasureInv, OpenInv
<1>9. \A s \in SessionIds : Accounted(s)'
  BY <1>0, SameTables DEF MeasureInv
<1>10. ASSUME NEW q \in Procs PROVE Handed(q)'
  <2>1. Handed(q)
    BY DEF MeasureInv
  <2>2. CASE q # p
    <3>1. \A f, s : Opens(f, s)' <=> Opens(f, s)
      BY <1>0, SameTables
    <3> QED BY <1>0, <2>1, <2>2, <3>1
        DEF Handed, Unbound, Knowing, Carrying, Result, SameCounter, Unopened, Stored, Exhausted
  <2>3. CASE q = p
    <3>1. Unbound(q)'
      BY <1>0, <1>4, <2>1, <2>3 DEF Handed, Unbound
    <3>2. q # Sampler /\ op'[q].user # None => op'[q].pc = "create"
      BY <1>0, <1>4, <2>1, <2>3 DEF Handed, Unbound, AfterFetch
    <3>3. SameCounter(op[q].row, Result(q))'
      BY <1>4, <1>5, <2>3 DEF SameCounter, Result, Unusable
    <3> QED BY <1>4, <1>5, <2>3, <3>1, <3>2, <3>3 DEF Handed
  <2> QED BY <2>2, <2>3
<1> QED BY <1>7, <1>8, <1>9, <1>10 DEF MeasureInv

\* The session row is written: nobody else has a sample, and no sample
\* mentions the session yet.
LEMMA MeasureCreated ==
  ASSUME TypeInv, WorkersHoldLock, Phases, MeasureInv, NEW p \in Procs, p # Sampler, CreateSession(p)
  PROVE  MeasureInv'
<1> OpTyped /\ TypeOK /\ p \in Clients
  BY DEF TypeInv, TypeOK, OpTyped, Procs
<1>1. PICK s \in SessionIds :
        /\ Fresh(s)
        /\ sessions' = [sessions EXCEPT ![s] =
             [Unused EXCEPT !.status = IF Exhausted(op[p].res) THEN "EXHAUSTED" ELSE "ACTIVE",
                            !.user = op[p].user, !.startedAt = op[p].at,
                            !.start = IF op[p].res = None THEN Unusable ELSE op[p].res]]
        /\ op' = [op EXCEPT ![p].sid = s, ![p].row.trigger = s, ![p].pc = AfterCreate(op[p].res)]
  BY DEF CreateSession
<1>2. /\ op[p].pc = "create" /\ samples' = samples /\ cursor' = cursor /\ proc' = proc
      /\ op[p].row \in SampleRow /\ op[p] \in OpState /\ op[p].user # None
  BY DEF CreateSession, TypeInv, Ready, OpTyped, Phases, Phase
<1>3. /\ op'[p].sid = s /\ op'[p].pc = AfterCreate(op[p].res) /\ op'[p].pc \in {"close", "persist"}
      /\ op'[p].user = op[p].user /\ op'[p].at = op[p].at /\ op'[p].res = op[p].res
      /\ op'[p].row = [op[p].row EXCEPT !.trigger = s]
      /\ \A q \in Procs \ {p} : op'[q] = op[q]
  BY <1>1, <1>2 DEF OpTyped, OpState, AfterCreate
<1>4. op'[p].row.trigger = s /\ SameReading(op'[p].row, op[p].row) /\ op'[p].row.win = op[p].row.win
  BY <1>2, <1>3 DEF SampleRow, SameReading
<1>5. /\ sessions'[s].startedAt = op[p].at /\ sessions'[s].start = Result(p) /\ sessions'[s].total = None
      /\ sessions'[s].status = IF Exhausted(op[p].res) THEN "EXHAUSTED" ELSE "ACTIVE"
      /\ \A t \in SessionIds \ {s} : sessions'[t] = sessions[t]
  BY <1>1 DEF TypeOK, Unused, Result
<1>6. \A q \in Procs \ {p} : ~Working(q)
  <2>1. holder = p
    BY <1>2 DEF WorkersHoldLock, Working
  <2> QED BY <2>1 DEF WorkersHoldLock
<1>7. s \notin Stored /\ Unopened(s)
  BY <1>1 DEF Fresh, MeasureInv, OpenInv
<1>8. /\ Stored' = Stored \cup {s} /\ Active' \subseteq Active \cup {s} /\ Active \subseteq Stored
      /\ s \in Active' => ~Exhausted(op[p].res)
  BY <1>5, <1>7 DEF Stored, Active
<1>9. \A t \in SessionIds \ {s} : /\ \A f : Opens(f, t)' <=> Opens(f, t)
                                  /\ Opened(t)' <=> Opened(t)
  BY <1>2, <1>5 DEF Opens, Opened, SameCounter
<1>10. \A t : Unopened(t)' <=> Unopened(t)
  BY <1>2 DEF Unopened
<1>11. ChainInv'
  <2>1. DeltasAreContiguous'
    BY <1>2 DEF MeasureInv, ChainInv, DeltasAreContiguous
  <2>2. CursorIsLast'
    BY <1>3 DEF CursorIsLast, Carrying
  <2>3. RowIsNext(p)'
    <3>1. RowIsNext(p)
      BY DEF MeasureInv, ChainInv
    <3> QED BY <1>2, <1>4, <3>1 DEF RowIsNext, Continues, SameCounter, SameReading, Carrying
  <2>4. \A q \in Procs \ {p} : RowIsNext(q)'
    BY <1>3, <1>6 DEF RowIsNext, Working, Carrying
  <2> QED BY <2>1, <2>2, <2>3, <2>4 DEF ChainInv
<1>12. OpenInv'
  <2>1. \A t \in SessionIds : Unopened(t)' \/ (t \in Stored' /\ Opened(t)')
    BY <1>7, <1>8, <1>9, <1>10 DEF MeasureInv, OpenInv
  <2>2. ASSUME NEW t \in Active' PROVE ~Exhausted(sessions'[t].start)
    <3>1. CASE t = s
      <4>1. ~Exhausted(op[p].res) /\ ~Exhausted(Unusable)
        BY <1>8, <2>2, <3>1, NoneAssumption, BoundTypes DEF Exhausted, Unusable
      <4> QED BY <1>5, <3>1, <4>1 DEF Result
    <3>2. CASE t # s
      BY <1>5, <1>8, <2>2, <3>2 DEF MeasureInv, OpenInv, Active
    <3> QED BY <3>1, <3>2
  <2>3. ASSUME proc' = "up", NEW t \in Active' PROVE Opened(t)' \/ \E c \in Clients : Starts(c, t)'
    <3>1. CASE t = s
      BY <1>2, <1>3, <3>1 DEF Starts
    <3>2. CASE t # s
      <4>1. Opened(t) \/ \E c \in Clients : Starts(c, t)
        BY <1>2, <1>8, <2>3, <3>2 DEF MeasureInv, OpenInv
      <4>2. \A c \in Clients : ~Starts(c, t)
        BY <1>2, <1>6 DEF Starts, Working, Procs
      <4> QED BY <1>8, <1>9, <2>3, <3>2, <4>1, <4>2 DEF Active
    <3> QED BY <3>1, <3>2
  <2> QED BY <2>1, <2>2, <2>3 DEF OpenInv, Exhausted
<1>13. ASSUME NEW t \in SessionIds PROVE Accounted(t)'
  <2>1. CASE t = s
    BY <1>5, <2>1 DEF Accounted
  <2>2. CASE t # s
    <3>1. sessions'[t] = sessions[t] /\ \A k : Closes(k, t)' <=> Closes(k, t)
      BY <1>2, <1>5, <1>9, <2>2 DEF Closes
    <3>2. Accounted(t)
      BY DEF MeasureInv
    <3> QED BY <1>2, <3>1, <3>2 DEF Accounted, Exhausted
  <2> QED BY <2>1, <2>2
<1>14. ASSUME NEW q \in Procs PROVE Handed(q)'
  <2>1. Handed(q)
    BY DEF MeasureInv
  <2>2. CASE q # p
    <3>1. op'[q] = op[q] /\ op[q].pc \in {"idle", "asleep"}
      BY <1>3, <1>6, <2>2 DEF Working
    <3> QED BY <2>1, <3>1 DEF Handed, Unbound, Knowing, Carrying
  <2>3. CASE q = p
    <3>1. /\ op[q].row.at = op[q].at /\ SameCounter(op[q].row, Result(q))
      BY <1>2, <2>1, <2>3 DEF Handed, Knowing, Carrying
    <3>2. Result(q)' = Result(q)
      BY <1>3, <2>3 DEF Result, Unusable
    <3>3. op'[q].row.at = op'[q].at /\ SameCounter(op'[q].row, Result(q)')
      BY <1>3, <1>4, <2>3, <3>1, <3>2 DEF SameCounter, SameReading
    <3>4. op'[q].pc = "close" => Exhausted(op'[q].res)
      BY <1>3, <2>3 DEF AfterCreate
    <3> QED BY <1>3, <1>4, <1>5, <1>7, <1>8, <1>10, <2>3, <3>2, <3>3, <3>4
        DEF Handed, Unbound, Knowing, Carrying, SameCounter, Exhausted
  <2> QED BY <2>2, <2>3
<1> QED BY <1>11, <1>12, <1>13, <1>14 DEF MeasureInv

LEMMA ChainSame ==
  ASSUME ChainInv, samples' = samples, cursor' = cursor,
         \A q \in Procs : (Carrying(q)' <=> Carrying(q)) /\ (Carrying(q) => op'[q].row = op[q].row)
  PROVE  ChainInv'
<1>1. DeltasAreContiguous'
  BY DEF ChainInv, DeltasAreContiguous
<1>2. CursorIsLast'
  BY DEF ChainInv, CursorIsLast, SameCounter
<1>3. \A q \in Procs : RowIsNext(q)'
  BY DEF ChainInv, RowIsNext, Continues, SameCounter
<1> QED BY <1>1, <1>2, <1>3 DEF ChainInv

LEMMA HandedSame ==
  ASSUME NEW q \in Procs, Handed(q), op'[q] = op[q], op[q].pc # "end", samples' = samples,
         Stored' = Stored,
         \A t \in Stored : /\ sessions'[t].startedAt = sessions[t].startedAt
                           /\ sessions'[t].start = sessions[t].start
  PROVE  Handed(q)'
<1>1. Unbound(q)' /\ (Knowing(q)' <=> Knowing(q)) /\ Result(q)' = Result(q)
  BY DEF Handed, Unbound, Knowing, Carrying, Result, Unusable
<1>2. \A t : Unopened(t)' <=> Unopened(t)
  BY DEF Unopened
<1> QED BY <1>1, <1>2 DEF Handed, SameCounter, Exhausted

\* A session row is closed: its end comes from a sample on the timeline, and
\* nothing is forgotten of its beginning.
LEMMA SessionEnded ==
  ASSUME TypeOK, MeasureInv, NEW s \in SessionIds, s \in Stored, NEW status \in Terminal,
         NEW at \in Time \cup {None}, NEW last \in Resource \cup {None},
         sessions' = [sessions EXCEPT ![s] = Ended(@, status, at, last)],
         samples' = samples, proc' = proc,
         \A c \in Clients, t \in Active : Starts(c, t) => Starts(c, t)',
         last # None =>
           IF Exhausted(sessions[s].start)
           THEN at = sessions[s].startedAt /\ at \in Time /\ last = sessions[s].start
           ELSE \E k \in DOMAIN samples :
                  /\ \E f \in 1 .. (k - 1) : Opens(f, s)
                  /\ samples[k].at = at /\ SameCounter(samples[k], last)
                  /\ samples[k].trigger = IF status = "STOPPED" THEN s ELSE None
  PROVE  /\ OpenInv' /\ \A t \in SessionIds : Accounted(t)'
         /\ Stored' = Stored
         /\ \A t \in Stored : /\ sessions'[t].startedAt = sessions[t].startedAt
                              /\ sessions'[t].start = sessions[t].start
<1>0. sessions[s] \in SessionRow /\ sessions \in [SessionIds -> SessionRow]
  BY DEF TypeOK
<1>1. /\ sessions'[s].status = status /\ sessions'[s].endedAt = at
      /\ sessions'[s].startedAt = sessions[s].startedAt /\ sessions'[s].start = sessions[s].start
      /\ sessions'[s].usedEnd = IF last = None THEN None ELSE last.used
      /\ sessions'[s].total   = IF last = None THEN None ELSE SessionTotal(sessions[s].start, last)
      /\ \A t \in SessionIds \ {s} : sessions'[t] = sessions[t]
  BY <1>0 DEF Ended, SessionRow
<1>2. \A t \in SessionIds : /\ sessions'[t].startedAt = sessions[t].startedAt
                            /\ sessions'[t].start = sessions[t].start
  BY <1>1
<1>3. Stored' = Stored /\ Active' \subseteq Active /\ s \notin Active' /\ Stored \subseteq SessionIds
  BY <1>1 DEF Stored, Active, Terminal
<1>4. \A f : \A t \in SessionIds : Opens(f, t)' <=> Opens(f, t)
  BY <1>2 DEF Opens, SameCounter
<1>5. \A t \in SessionIds : (Unopened(t)' <=> Unopened(t)) /\ (Opened(t)' <=> Opened(t))
  BY <1>4 DEF Unopened, Opened
<1>6. OpenInv'
  <2>1. \A t \in SessionIds : Unopened(t)' \/ (t \in Stored' /\ Opened(t)')
    BY <1>3, <1>5 DEF MeasureInv, OpenInv
  <2>2. \A t \in Active' : ~Exhausted(sessions'[t].start)
    BY <1>2, <1>3 DEF MeasureInv, OpenInv, Active
  <2>3. proc' = "up" => \A t \in Active' : Opened(t)' \/ \E c \in Clients : Starts(c, t)'
    BY <1>3, <1>5 DEF MeasureInv, OpenInv, Active
  <2> QED BY <2>1, <2>2, <2>3 DEF OpenInv, Exhausted
<1>7. ASSUME NEW t \in SessionIds, t # s PROVE Accounted(t)'
  <2>1. sessions'[t] = sessions[t] /\ \A k : Closes(k, t)' <=> Closes(k, t)
    BY <1>1, <1>4, <1>7 DEF Closes
  <2>2. Accounted(t)
    BY DEF MeasureInv
  <2> QED BY <2>1, <2>2 DEF Accounted, Exhausted
<1>8. Accounted(s)'
  <2> SUFFICES ASSUME sessions'[s].total # None PROVE Accounted(s)'
    BY DEF Accounted
  <2> DEFINE first == sessions[s].start
  <2>1. /\ last # None /\ None \notin {first.used, last.used} /\ first.win = last.win
        /\ ~(last.used < first.used) /\ sessions'[s].total = last.used - first.used
        /\ sessions'[s].usedEnd = last.used
    BY <1>1 DEF SessionTotal
  <2>2. first \in Resource /\ last \in Resource
    BY <1>0, <2>1 DEF SessionRow
  <2>3. first.used \in Nat /\ last.used \in Nat /\ first.used <= last.used
    BY <2>1, <2>2, BoundTypes DEF Resource
  <2>4. sessions'[s].start = first /\ sessions'[s].status = status /\ sessions'[s].endedAt = at
    BY <1>1
  <2> HIDE DEF first
  <2>5. CASE Exhausted(first)
    <3>1. at = sessions[s].startedAt /\ at \in Time /\ last = first
      BY <2>1, <2>5 DEF first
    <3>2. sessions'[s].total = 0
      BY <2>1, <2>3, <3>1
    <3> QED BY <1>2, <2>1, <2>3, <2>4, <2>5, <3>1, <3>2 DEF Accounted, Exhausted
  <2>6. CASE ~Exhausted(first)
    <3>1. PICK k \in DOMAIN samples :
            /\ \E f \in 1 .. (k - 1) : Opens(f, s)
            /\ samples[k].at = at /\ SameCounter(samples[k], last)
            /\ samples[k].trigger = IF status = "STOPPED" THEN s ELSE None
      BY <2>1, <2>6 DEF first
    <3>2. Closes(k, s)'
      BY <1>4, <2>1, <2>4, <3>1 DEF Closes, SameCounter
    <3>3. \E i \in DOMAIN samples' : Closes(i, s)'
      BY <3>2
    <3> QED BY <2>1, <2>3, <2>4, <2>6, <3>3 DEF Accounted, Exhausted
  <2> QED BY <2>5, <2>6
<1> QED BY <1>2, <1>3, <1>6, <1>7, <1>8

LEMMA MeasureClosedExhausted ==
  ASSUME TableInv, MeasureInv, NEW p \in Procs, p # Sampler, CloseExhausted(p)
  PROVE  MeasureInv'
<1> /\ OpTyped /\ TypeOK /\ TypeInv /\ p \in Clients /\ WorkersHoldLock
  BY DEF TableInv, TypeInv, TypeOK, OpTyped, Procs
<1>1. /\ op[p].pc = "close" /\ samples' = samples /\ cursor' = cursor /\ proc' = proc
      /\ op[p].user # None /\ op[p].sid \in SessionIds /\ op[p] \in OpState
  BY DEF CloseExhausted, TableInv, Phases, Phase, OpTyped
<1>2. op' = [op EXCEPT ![p] = [op[p] EXCEPT !.pc = "persist"]]
  BY DEF CloseExhausted, Goto, OpTyped
<1>3. /\ op'[p].pc = "persist" /\ op'[p].sid = op[p].sid /\ op'[p].user = op[p].user
      /\ op'[p].at = op[p].at /\ op'[p].res = op[p].res /\ op'[p].row = op[p].row
      /\ \A q \in Procs \ {p} : op'[q] = op[q]
  BY <1>1, <1>2 DEF OpTyped, OpState
<1>4. \A q \in Procs \ {p} : ~Working(q)
  <2>1. holder = p
    BY <1>1 DEF WorkersHoldLock, Working
  <2> QED BY <2>1 DEF WorkersHoldLock
<1>5. ChainInv'
  BY <1>1, <1>3, ChainSame DEF MeasureInv, Carrying
<1>6. /\ op[p].sid \in Stored /\ Unopened(op[p].sid) /\ sessions[op[p].sid].startedAt = op[p].at
      /\ sessions[op[p].sid].start = Result(p) /\ Exhausted(op[p].res)
  BY <1>1 DEF MeasureInv, Handed
<1>7. PICK s \in SessionIds, at \in Time \cup {None}, last \in Resource \cup {None} :
        s = op[p].sid /\ at = op[p].at /\ last = op[p].res
  BY <1>1 DEF OpState
<1> at \in Time
  <2>1. op[p].row \in SampleRow /\ op[p].row.at = op[p].at
    BY <1>1 DEF TypeInv, Ready, MeasureInv, Handed, Knowing, Carrying
  <2> QED BY <1>7, <2>1 DEF SampleRow
<1>8. /\ sessions' = [sessions EXCEPT ![s] = Ended(@, "EXHAUSTED", at, last)]
      /\ s \in Stored /\ at = sessions[s].startedAt /\ last = sessions[s].start /\ last # None
      /\ Exhausted(sessions[s].start)
  BY <1>6, <1>7 DEF CloseExhausted, Result, Exhausted
<1>9. \A c \in Clients, t \in Active : Starts(c, t) => Starts(c, t)'
  BY <1>1, <1>3, <1>4 DEF Starts, Working, Procs
<1>10. /\ OpenInv' /\ \A t \in SessionIds : Accounted(t)'
       /\ Stored' = Stored
       /\ \A t \in Stored : /\ sessions'[t].startedAt = sessions[t].startedAt
                            /\ sessions'[t].start = sessions[t].start
  <2>1. "EXHAUSTED" \in Terminal
    BY DEF Terminal
  <2> QED BY <1>1, <1>8, <1>9, <2>1, SessionEnded
<1>11. ASSUME NEW q \in Procs PROVE Handed(q)'
  <2>1. Handed(q)
    BY DEF MeasureInv
  <2>2. CASE q # p
    BY <1>1, <1>3, <1>4, <1>10, <2>1, <2>2, HandedSame DEF Working
  <2>3. CASE q = p
    <3>1. /\ op[q].row.trigger = op[q].sid /\ op[q].row.at = op[q].at /\ SameCounter(op[q].row, Result(q))
      BY <1>1, <2>1, <2>3 DEF Handed, Knowing, Carrying
    <3>2. Result(q)' = Result(q)
      BY <1>3, <2>3 DEF Result, Unusable
    <3>3. Unopened(op[q].sid)'
      BY <1>1, <1>3, <1>6, <2>3 DEF Unopened
    <3>4. /\ op'[q].sid \in Stored' /\ sessions'[op'[q].sid].startedAt = op'[q].at
          /\ sessions'[op'[q].sid].start = Result(q)'
      BY <1>3, <1>6, <1>10, <2>3, <3>2
    <3>5. SameCounter(op[q].row, Result(q))'
      BY <1>3, <2>3, <3>1, <3>2 DEF SameCounter
    <3> QED BY <1>3, <2>3, <3>1, <3>3, <3>4, <3>5 DEF Handed, Unbound
  <2> QED BY <2>2, <2>3
<1> QED BY <1>5, <1>10, <1>11 DEF MeasureInv

LEMMA MeasureStopped ==
  ASSUME TableInv, MeasureInv, NEW p \in Procs, p # Sampler, EndSession(p)
  PROVE  MeasureInv'
<1> /\ OpTyped /\ TypeOK /\ TypeInv /\ p \in Clients /\ WorkersHoldLock
  BY DEF TableInv, TypeInv, TypeOK, OpTyped, Procs
<1>1. /\ op[p].pc = "end" /\ samples' = samples /\ cursor' = cursor /\ proc' = proc
      /\ op[p].sid \in Active /\ op[p] \in OpState
  BY DEF EndSession, TableInv, Phases, Phase, OpTyped
<1>2. op' = [op EXCEPT ![p] = [op[p] EXCEPT !.pc = "settle"]]
  BY DEF EndSession, Goto, OpTyped
<1>3. op'[p].pc = "settle" /\ \A q \in Procs \ {p} : op'[q] = op[q]
  BY <1>1, <1>2 DEF OpTyped, OpState
<1>4. \A q \in Procs \ {p} : ~Working(q)
  <2>1. holder = p
    BY <1>1 DEF WorkersHoldLock, Working
  <2> QED BY <2>1 DEF WorkersHoldLock
<1>5. ChainInv'
  BY <1>1, <1>3, ChainSame DEF MeasureInv, Carrying
<1>6. PICK s \in SessionIds, at \in Time \cup {None}, last \in Resource \cup {None} :
        s = op[p].sid /\ at = op[p].at /\ last = op[p].res
  BY <1>1 DEF OpState, Active
<1>7. /\ sessions' = [sessions EXCEPT ![s] = Ended(@, "STOPPED", at, last)]
      /\ s \in Stored /\ ~Exhausted(sessions[s].start)
  BY <1>1, <1>6 DEF EndSession, MeasureInv, OpenInv, Active, Stored
<1>8. last # None => \E k \in DOMAIN samples :
        /\ \E f \in 1 .. (k - 1) : Opens(f, s)
        /\ samples[k].at = at /\ SameCounter(samples[k], last) /\ samples[k].trigger = s
  <2> SUFFICES ASSUME last # None
        PROVE  /\ Len(samples) \in DOMAIN samples /\ \E f \in 1 .. (Len(samples) - 1) : Opens(f, s)
               /\ samples[Len(samples)].at = at /\ SameCounter(samples[Len(samples)], last)
               /\ samples[Len(samples)].trigger = s
    OBVIOUS
  <2>1. Handed(p)
    BY DEF MeasureInv
  <2>2. samples # <<>> /\ samples[Len(samples)] = op[p].row /\ \E f \in 1 .. (Len(samples) - 1) : Opens(f, s)
    BY <1>1, <1>6, <2>1 DEF Handed
  <2>3. op[p].row.trigger = s /\ op[p].row.at = at /\ SameCounter(op[p].row, last)
    BY <1>1, <1>6, <2>1 DEF Handed, Knowing, Result
  <2>4. Len(samples) \in DOMAIN samples
    BY <2>2 DEF TypeOK
  <2> QED BY <2>2, <2>3, <2>4
<1>9. \A c \in Clients, t \in Active : Starts(c, t) => Starts(c, t)'
  BY <1>1, <1>4 DEF Starts, Working, Procs
<1>10. /\ OpenInv' /\ \A t \in SessionIds : Accounted(t)'
       /\ Stored' = Stored
       /\ \A t \in Stored : /\ sessions'[t].startedAt = sessions[t].startedAt
                            /\ sessions'[t].start = sessions[t].start
  <2>1. "STOPPED" \in Terminal
    BY DEF Terminal
  <2> QED BY <1>1, <1>7, <1>8, <1>9, <2>1, SessionEnded
<1>11. ASSUME NEW q \in Procs PROVE Handed(q)'
  <2>1. CASE q # p
    BY <1>1, <1>3, <1>4, <1>10, <2>1, HandedSame DEF Working, MeasureInv
  <2>2. CASE q = p
    BY <1>3, <2>2 DEF Handed, Unbound, Knowing, Carrying
  <2> QED BY <2>1, <2>2
<1> QED BY <1>5, <1>10, <1>11 DEF MeasureInv

\* While nobody starts a session, the active ones have their first sample.
LEMMA ActiveOpened ==
  ASSUME WorkersHoldLock, HeldWhileUp, OpenInv, NEW p \in Procs, Working(p),
         p = Sampler \/ ~(op[p].pc \in {"close", "persist"} /\ op[p].user # None),
         NEW s \in Active
  PROVE  Opened(s)
<1>1. holder = p /\ p # None
  BY NoneAssumption DEF WorkersHoldLock, Procs
<1>2. proc = "up"
  BY <1>1 DEF HeldWhileUp
<1>3. \A c \in Clients : ~Starts(c, s)
  BY <1>1, ProcessAssumption DEF Starts, WorkersHoldLock, Working, Procs
<1> QED BY <1>2, <1>3 DEF OpenInv

LEMMA MeasureAutoStopped ==
  ASSUME TableInv, MeasureInv, NEW s \in SessionIds, AutoStop(s)
  PROVE  MeasureInv'
<1> /\ OpTyped /\ TypeOK /\ TypeInv /\ Sampler \in Procs /\ WorkersHoldLock /\ HeldWhileUp
  BY DEF TableInv, TypeInv, TypeOK, OpTyped, Procs
<1>1. /\ op[Sampler].pc = "autostop" /\ samples' = samples /\ cursor' = cursor /\ proc' = proc /\ op' = op
      /\ s \in Active /\ op[Sampler] \in OpState
  BY DEF AutoStop, memory, Due, OpTyped
<1>2. ChainInv'
  BY <1>1, ChainSame DEF MeasureInv, Carrying
<1>3. PICK at \in Time \cup {None}, last \in Resource \cup {None} :
        at = op[Sampler].at /\ last = op[Sampler].res
  BY <1>1 DEF OpState
<1>4. PICK status \in {"AUTO_STOPPED", "EXHAUSTED"} :
        sessions' = [sessions EXCEPT ![s] = Ended(@, status, at, last)]
  BY <1>3 DEF AutoStop
<1>5. s \in Stored /\ ~Exhausted(sessions[s].start)
  BY <1>1 DEF MeasureInv, OpenInv, Active, Stored
<1>6. last # None => \E k \in DOMAIN samples :
        /\ \E f \in 1 .. (k - 1) : Opens(f, s)
        /\ samples[k].at = at /\ SameCounter(samples[k], last) /\ samples[k].trigger = None
  <2> SUFFICES ASSUME last # None
        PROVE  /\ Len(samples) \in DOMAIN samples /\ \E f \in 1 .. (Len(samples) - 1) : Opens(f, s)
               /\ samples[Len(samples)].at = at /\ SameCounter(samples[Len(samples)], last)
               /\ samples[Len(samples)].trigger = None
    OBVIOUS
  <2>1. Handed(Sampler) /\ OpenInv
    BY DEF MeasureInv
  <2>2. samples # <<>> /\ samples[Len(samples)] = op[Sampler].row
    BY <1>1, <2>1 DEF Handed
  <2>3. op[Sampler].row.trigger = None /\ op[Sampler].row.at = at /\ SameCounter(op[Sampler].row, last)
    BY <1>1, <1>3, <2>1 DEF Handed, Knowing, Result, Unbound
  <2>4. Len(samples) \in DOMAIN samples /\ DOMAIN samples = 1 .. Len(samples) /\ Len(samples) \in Nat
    BY <2>2 DEF TypeOK
  <2>5. Opened(s)
    BY <1>1, <2>1, ActiveOpened DEF Working
  <2>6. PICK f \in DOMAIN samples : Opens(f, s)
    BY <2>5 DEF Opened
  <2>7. f # Len(samples)
    BY <2>2, <2>3, <2>6, NoneAssumption DEF Opens, SessionIds
  <2> QED BY <2>2, <2>3, <2>4, <2>6, <2>7
<1>7. \A c \in Clients, t \in Active : Starts(c, t) => Starts(c, t)'
  BY <1>1 DEF Starts
<1>8. /\ OpenInv' /\ \A t \in SessionIds : Accounted(t)'
      /\ Stored' = Stored
      /\ \A t \in Stored : /\ sessions'[t].startedAt = sessions[t].startedAt
                           /\ sessions'[t].start = sessions[t].start
  <2>1. status \in Terminal /\ status # "STOPPED"
    BY DEF Terminal
  <2> QED BY <1>1, <1>4, <1>5, <1>6, <1>7, <2>1, SessionEnded
<1>9. ASSUME NEW q \in Procs PROVE Handed(q)'
  <2>1. op[q].pc # "end"
    BY <1>1 DEF WorkersHoldLock, Working
  <2> QED BY <1>1, <1>8, <2>1, HandedSame DEF MeasureInv
<1> QED BY <1>2, <1>8, <1>9 DEF MeasureInv

LEMMA MeasureReconciled ==
  ASSUME TableInv, MeasureInv, NEW s \in SessionIds, ReconcileSession(s)
  PROVE  MeasureInv'
<1> /\ OpTyped /\ TypeOK /\ TypeInv /\ WorkersHoldLock /\ HeldWhileUp
  BY DEF TableInv, TypeInv, TypeOK, OpTyped
<1>1. /\ samples' = samples /\ cursor' = cursor /\ proc' = proc /\ op' = op /\ proc = "booting"
      /\ s \in Stored /\ bootAt \in Time
      /\ sessions' = [sessions EXCEPT ![s] = Ended(@, "ABORTED", bootAt, None)]
  BY DEF ReconcileSession, memory, Active, Stored, TypeOK
<1>2. ChainInv'
  BY <1>1, ChainSame DEF MeasureInv, Carrying
<1>3. \A c \in Clients, t \in Active : Starts(c, t) => Starts(c, t)'
  BY <1>1 DEF Starts
<1>4. PICK at \in Time \cup {None} : at = bootAt
  BY <1>1
<1>5. /\ OpenInv' /\ \A t \in SessionIds : Accounted(t)'
      /\ Stored' = Stored
      /\ \A t \in Stored : /\ sessions'[t].startedAt = sessions[t].startedAt
                           /\ sessions'[t].start = sessions[t].start
  <2>1. "ABORTED" \in Terminal
    BY DEF Terminal
  <2> QED BY <1>1, <1>3, <1>4, <2>1, SessionEnded
<1>6. ASSUME NEW q \in Procs PROVE Handed(q)'
  <2>1. op[q].pc # "end"
    BY <1>1, NoneAssumption DEF HeldWhileUp, WorkersHoldLock, Working, Procs
  <2> QED BY <1>1, <1>5, <2>1, HandedSame DEF MeasureInv
<1> QED BY <1>2, <1>5, <1>6 DEF MeasureInv

\* A sample is stored.
LEMMA MeasurePersisted ==
  ASSUME TableInv, MeasureInv, NEW p \in Procs, PersistSample(p)
  PROVE  MeasureInv'
<1> /\ OpTyped /\ TypeOK /\ TypeInv /\ WorkersHoldLock /\ HeldWhileUp /\ Phases
  BY DEF TableInv, TypeInv, TypeOK, OpTyped
<1>1. /\ op[p].pc = "persist" /\ sessions' = sessions /\ cursor' = cursor /\ proc' = proc
      /\ op[p].row \in SampleRow /\ op[p] \in OpState
  BY DEF PersistSample, TypeInv, Ready, OpTyped
<1>2. PICK n \in Nat, row \in SampleRow :
        n = Len(samples) /\ row = op[p].row /\ samples' = Append(samples, row)
  BY <1>1 DEF PersistSample, TypeOK
<1>3. /\ DOMAIN samples = 1 .. n /\ DOMAIN samples' = 1 .. (n + 1) /\ Len(samples') = n + 1
      /\ samples'[n + 1] = row /\ \A i \in 1 .. n : samples'[i] = samples[i]
      /\ samples' # <<>> /\ samples # <<>> <=> n # 0
  BY <1>2 DEF TypeOK
<1>4. \A q \in Procs \ {p} : ~Working(q) /\ (op'[q] = op[q] \/ op'[q] \in {Idle, Asleep})
  <2>1. holder = p
    BY <1>1 DEF WorkersHoldLock, Working
  <2> QED BY <2>1 DEF WorkersHoldLock, PersistSample, Goto, Leave, LeaveStarting, OpTyped
<1>5. \/ op'[p] \in {Idle, Asleep}
      \/ p # Sampler /\ op[p].user = None /\ op'[p].pc = "end"
      \/ p = Sampler /\ op'[p].pc = "autostop"
  BY DEF PersistSample, Goto, Leave, LeaveStarting, OpTyped, OpState, Starting
<1>6. op'[p] \notin {Idle, Asleep} => /\ op'[p].sid = op[p].sid /\ op'[p].at = op[p].at
                                      /\ op'[p].res = op[p].res /\ op'[p].row = op[p].row
  BY <1>1 DEF PersistSample, Goto, Leave, LeaveStarting, OpTyped, OpState
<1>7. \A q \in Procs : ~Carrying(q)'
  BY <1>4, <1>5, IdleType DEF Carrying, Working
<1>8. /\ row.trigger = op[p].sid /\ row.at = op[p].at /\ SameCounter(row, Result(p))
      /\ p = Sampler => op[p].sid = None
  BY <1>1, <1>2 DEF MeasureInv, Handed, Knowing, Carrying, Unbound
<1>9. ChainInv'
  <2>1. ChainInv /\ Continues(row) /\ (cursor # None => SameCounter(row, cursor))
    BY <1>1, <1>2 DEF MeasureInv, ChainInv, RowIsNext, Carrying
  <2>2. DeltasAreContiguous'
    <3> SUFFICES ASSUME NEW i \in 1 .. (n + 1), samples'[i].status = "ok"
          PROVE  /\ i > 1 /\ samples'[i - 1].used # None /\ samples'[i - 1].win = samples'[i].win
                 /\ samples'[i].delta = samples'[i].used - samples'[i - 1].used
      BY <1>3 DEF DeltasAreContiguous
    <3>1. CASE i = n + 1
      <4>1. n # 0 /\ samples[n].used # None /\ samples[n].win = row.win
            /\ row.delta = row.used - samples[n].used
        BY <1>2, <1>3, <2>1, <3>1 DEF Continues
      <4>2. n \in 1 .. n /\ i - 1 = n /\ i > 1
        BY <3>1, <4>1
      <4>3. samples'[i - 1] = samples[n] /\ samples'[i] = row
        BY <1>3, <3>1, <4>2
      <4> QED BY <4>1, <4>2, <4>3
    <3>2. CASE i # n + 1
      <4>1. i \in 1 .. n
        BY <3>2
      <4>2. /\ i > 1 /\ samples[i - 1].used # None /\ samples[i - 1].win = samples[i].win
            /\ samples[i].delta = samples[i].used - samples[i - 1].used
        BY <1>3, <2>1, <4>1 DEF ChainInv, DeltasAreContiguous
      <4>3. i - 1 \in 1 .. n
        BY <4>1, <4>2
      <4> QED BY <1>3, <4>1, <4>2, <4>3
    <3> QED BY <3>1, <3>2
  <2>3. CursorIsLast'
    BY <1>1, <1>3, <2>1 DEF CursorIsLast, SameCounter
  <2>4. \A q \in Procs : RowIsNext(q)'
    BY <1>7 DEF RowIsNext
  <2> QED BY <2>2, <2>3, <2>4 DEF ChainInv
<1>10. Stored' = Stored /\ Active' = Active /\ Active \subseteq Stored /\ Stored \subseteq SessionIds
  BY <1>1 DEF Stored, Active
<1>11. \A f, t : Opens(f, t) => Opens(f, t)'
  <2> SUFFICES ASSUME NEW f, NEW t, Opens(f, t) PROVE Opens(f, t)'
    OBVIOUS
  <2>1. f \in 1 .. n /\ f \in 1 .. (n + 1) /\ samples'[f] = samples[f]
    BY <1>3 DEF Opens
  <2>2. \A i \in 1 .. (f - 1) : samples'[i] = samples[i]
    BY <1>3, <2>1
  <2> QED BY <1>1, <1>3, <2>1, <2>2 DEF Opens, SameCounter
<1>12. \A t : Opened(t) => Opened(t)'
  <2>1. DOMAIN samples \subseteq DOMAIN samples'
    BY <1>3
  <2> QED BY <1>11, <2>1 DEF Opened
<1>13. ASSUME NEW s, s = op[p].sid, p # Sampler, op[p].user # None PROVE s \in Stored /\ Opened(s)'
  <2>1. s \in Stored /\ Unopened(s) /\ sessions[s].startedAt = op[p].at /\ sessions[s].start = Result(p)
    BY <1>1, <1>13 DEF MeasureInv, Handed
  <2>2. n + 1 \in DOMAIN samples' /\ samples'[n + 1].trigger = s
    BY <1>3, <1>8, <1>13
  <2>3. \A i \in 1 .. n : samples'[i].trigger # s
    BY <1>3, <2>1 DEF Unopened
  <2>4. samples'[n + 1].at = sessions'[s].startedAt /\ SameCounter(samples'[n + 1], sessions'[s].start)
    BY <1>1, <1>3, <1>8, <2>1
  <2>5. PICK m : m = n + 1
    OBVIOUS
  <2>6. Opens(m, s)'
    BY <2>2, <2>3, <2>4, <2>5 DEF Opens, SameCounter
  <2> QED BY <2>1, <2>2, <2>5, <2>6 DEF Opened
<1>14. ASSUME NEW s, s = op[p].sid, p # Sampler, op[p].user = None PROVE s \in Active /\ Opened(s)
  <2>1. p \in Clients /\ Phase(p)
    BY <1>14 DEF Procs, Phases
  <2>2. s \in Active
    BY <1>1, <1>14, <2>1 DEF Phase
  <2> QED BY <1>1, <1>14, <2>2, ActiveOpened DEF Working, MeasureInv
<1>15. ASSUME NEW s \in SessionIds, s = op[p].sid PROVE s \in Stored /\ Opened(s)'
  <2>1. p # Sampler
    BY <1>8, <1>15, NoneAssumption DEF SessionIds
  <2> QED BY <1>10, <1>12, <1>13, <1>14, <1>15, <2>1
<1>16. ASSUME NEW s, s # op[p].sid, Unopened(s) PROVE Unopened(s)'
  BY <1>3, <1>8, <1>16 DEF Unopened
<1>17. OpenInv'
  <2>1. ASSUME NEW s \in SessionIds PROVE Unopened(s)' \/ (s \in Stored' /\ Opened(s)')
    <3>1. Unopened(s) \/ (s \in Stored /\ Opened(s))
      BY DEF MeasureInv, OpenInv
    <3> QED BY <1>10, <1>12, <1>15, <1>16, <3>1
  <2>2. \A s \in Active : ~Exhausted(sessions[s].start)'
    BY <1>1 DEF MeasureInv, OpenInv, Exhausted
  <2>3. ASSUME proc' = "up", NEW s \in Active PROVE Opened(s)'
    <3>1. CASE \E c \in Clients : Starts(c, s)
      <4>1. PICK c \in Clients : Starts(c, s)
        BY <3>1
      <4>2. c = p /\ s = op[p].sid
        BY <1>4, <4>1 DEF Starts, Working, Procs
      <4> QED BY <1>10, <1>15, <4>2
    <3>2. CASE Opened(s)
      BY <1>12, <3>2
    <3> QED BY <1>1, <2>3, <3>1, <3>2 DEF MeasureInv, OpenInv
  <2> QED BY <1>10, <2>1, <2>2, <2>3 DEF OpenInv
<1>18. ASSUME NEW s \in SessionIds PROVE Accounted(s)'
  <2>1. Accounted(s) /\ sessions'[s] = sessions[s]
    BY <1>1 DEF MeasureInv
  <2>2. ASSUME NEW k, Closes(k, s) PROVE Closes(k, s)' /\ k \in DOMAIN samples'
    <3>1. k \in 1 .. n /\ k \in 1 .. (n + 1) /\ samples'[k] = samples[k]
      BY <1>3, <2>2 DEF Closes
    <3>2. \E f \in 1 .. (k - 1) : Opens(f, s)'
      BY <1>11, <2>2 DEF Closes
    <3> QED BY <1>3, <2>1, <2>2, <3>1, <3>2 DEF Closes
  <2> QED BY <2>1, <2>2 DEF Accounted, Exhausted
<1>19. ASSUME NEW q \in Procs PROVE Handed(q)'
  <2>1. Handed(q)
    BY DEF MeasureInv
  <2>2. CASE op'[q] \in {Idle, Asleep}
    <3>1. op'[q].pc \in {"idle", "asleep"} /\ op'[q].sid = None
      BY <2>2 DEF Idle, Asleep
    <3> QED BY <3>1 DEF Handed, Unbound, Knowing, Carrying
  <2>3. CASE q # p /\ op'[q] = op[q]
    <3>1. op[q].pc \in {"idle", "asleep"}
      BY <1>4, <2>3 DEF Working
    <3> QED BY <2>1, <2>3, <3>1 DEF Handed, Unbound, Knowing, Carrying
  <2>4. CASE q = p /\ op'[q] \notin {Idle, Asleep}
    <3>1. /\ op'[p].sid = op[p].sid /\ op'[p].at = op[p].at /\ op'[p].res = op[p].res /\ op'[p].row = row
      BY <1>2, <1>6, <2>4
    <3>2. SameCounter(row, Result(p)')
      BY <1>8, <3>1 DEF Result, Unusable, SameCounter
    <3>3. samples'[Len(samples')] = row /\ samples' # <<>>
      BY <1>3
    <3>4. CASE op'[p].pc = "end"
      <4>1. p # Sampler /\ op[p].user = None
        BY <1>5, <2>4, <3>4
      <4>2. PICK s : s = op[p].sid
        OBVIOUS
      <4>3. \E f \in 1 .. (Len(samples') - 1) : Opens(f, s)'
        <5>1. PICK f \in 1 .. n : Opens(f, s)
          BY <1>3, <1>14, <4>1, <4>2 DEF Opened
        <5>2. f \in 1 .. (Len(samples') - 1)
          BY <1>3
        <5> QED BY <1>11, <5>1, <5>2
      <4>4. \E f \in 1 .. (Len(samples') - 1) : Opens(f, op[p].sid)'
        <5>1. op'[p].sid = s
          BY <3>1, <4>2
        <5> QED BY <4>3, <5>1 DEF Opens, SameCounter
      <4> QED BY <1>8, <2>4, <3>1, <3>2, <3>3, <3>4, <4>1, <4>4 DEF Handed, Unbound, SameCounter
    <3>5. CASE op'[p].pc = "autostop"
      BY <1>5, <1>8, <2>4, <3>1, <3>2, <3>3, <3>5 DEF Handed, Unbound, SameCounter
    <3> QED BY <1>5, <2>4, <3>4, <3>5
  <2> QED BY <1>4, <2>2, <2>3, <2>4
<1> QED BY <1>9, <1>17, <1>18, <1>19 DEF MeasureInv

LEMMA CalmIfSame ==
  ASSUME NEW q \in Procs, op'[q] = op[q]
  PROVE  Calm(q)
BY DEF Calm

LEMMA CalmIfLeft ==
  ASSUME OpTyped, WorkersHoldLock, NEW p \in Procs, holder \in {p, None}, ~Carrying(p),
         Leave(p) \/ LeaveStarting(p) \/ LeaveStopping(p), NEW q \in Procs
  PROVE  Calm(q)
<1>1. op'[q] \in {op[q], Idle, Asleep}
  BY DEF OpTyped, Leave, LeaveStarting, LeaveStopping
<1>2. ~Carrying(q)
  BY NoneAssumption DEF WorkersHoldLock, Working, Carrying, Procs
<1>3. Idle.pc = "idle" /\ Asleep.pc = "asleep" /\ Idle.sid = None /\ Asleep.sid = None
  BY DEF Idle, Asleep
<1> QED BY <1>1, <1>2, <1>3 DEF Calm, Unbound

\* Everything but a sample, a commit of a session row and a restart's
\* reconciliation of one.
LEMMA StillSteps ==
  ASSUME CommitsSucceed, TableInv, MeasureInv, [Next]_vars
  PROVE  \/ Still
         \/ \E p \in Procs : FetchStep(p) \/ PersistSample(p)
         \/ \E p \in Procs \ {Sampler} : CreateSession(p) \/ CloseExhausted(p) \/ EndSession(p)
         \/ \E s \in SessionIds : AutoStop(s) \/ ReconcileSession(s)
<1> /\ OpTyped /\ TypeOK /\ WorkersHoldLock /\ Phases /\ Sampler \in Procs /\ Clients \subseteq Procs
  BY DEF TableInv, TypeInv, TypeOK, OpTyped, Procs
<1>0. \A p \in Procs : Unbound(p)
  BY DEF MeasureInv, Handed
<1>1. ASSUME NEW c \in Clients, StartStep(c) PROVE Still
  <2>1. UNCHANGED <<proc, cursor, samples, sessions>> /\ op[c].pc \in {"idle", "identity"}
    BY <1>1 DEF StartStep, StartSession, IdentityFetched, IdentityFailed, external, tables
  <2>2. ASSUME NEW q \in Procs PROVE Calm(q)
    <3>1. CASE StartSession(c)
      <4>1. op' = [op EXCEPT ![c] = [op[c] EXCEPT !.pc = "identity"]]
        BY <3>1 DEF StartSession, Goto, OpTyped
      <4>2. op'[c].pc = "identity" /\ op'[c].sid = None /\ (q # c => op'[q] = op[q])
        BY <1>0, <3>1, <4>1 DEF StartSession, OpTyped, OpState, Unbound
      <4> QED BY <2>1, <4>2 DEF Calm, Unbound, Carrying
    <3>2. CASE Leave(c)
      <4>1. holder \in {c, None}
        BY <1>1, <3>2 DEF StartStep, StartSession, IdentityFetched, IdentityFailed, Acquire, WorkersHoldLock, Working
      <4> QED BY <2>1, <3>2, <4>1, CalmIfLeft DEF Carrying
    <3>3. CASE IdentityFetched(c) /\ ~Leave(c)
      <4>1. op' = [op EXCEPT ![c] = [op[c] EXCEPT !.pc = "fetch", !.user = account, !.at = now, !.seen = Active]]
        BY <3>3 DEF IdentityFetched, OpTyped
      <4>2. op'[c].pc = "fetch" /\ op'[c].sid = None /\ (q # c => op'[q] = op[q])
        BY <1>0, <3>3, <4>1 DEF IdentityFetched, OpTyped, OpState, Unbound
      <4> QED BY <2>1, <4>2 DEF Calm, Unbound, Carrying
    <3> QED BY <1>1, <3>1, <3>2, <3>3 DEF StartStep, IdentityFailed
  <2> QED BY <2>1, <2>2 DEF Still
<1>2. ASSUME NEW c \in Clients, NEW s \in SessionIds, StopSession(c, s) PROVE Still
  <2>1. UNCHANGED <<proc, cursor, samples, sessions>> /\ op[c].pc = "idle"
    BY <1>2 DEF StopSession, external, tables
  <2>2. op[c].user = None /\ c # Sampler
    BY <2>1, ProcessAssumption DEF Phases, Phase
  <2>3. ASSUME NEW q \in Procs PROVE Calm(q)
    <3>1. CASE Stoppable(s)
      <4>1. op' = [op EXCEPT ![c] = [op[c] EXCEPT !.pc = "fetch", !.sid = s, !.at = now, !.seen = Active]]
        BY <1>2, <3>1 DEF StopSession, OpTyped
      <4>2. op'[c].pc = "fetch" /\ op'[c].user = None /\ (q # c => op'[q] = op[q])
        BY <2>2, <4>1 DEF OpTyped, OpState
      <4> QED BY <2>1, <2>2, <4>2 DEF Calm, Unbound, Carrying
    <3>2. CASE ~Stoppable(s)
      <4>1. op' = [op EXCEPT ![c] = [op[c] EXCEPT !.pc = "settle"]]
        BY <1>2, <3>2 DEF StopSession, Goto, OpTyped
      <4>2. op'[c].pc = "settle" /\ (q # c => op'[q] = op[q])
        BY <4>1 DEF OpTyped, OpState
      <4> QED BY <2>1, <2>2, <4>2 DEF Calm, Unbound, Carrying
    <3> QED BY <3>1, <3>2
  <2> QED BY <2>1, <2>3 DEF Still
<1>3. ASSUME NEW c \in Procs, Settle(c) PROVE Still
  <2>1. UNCHANGED <<proc, cursor, samples, sessions>> /\ op[c].pc = "settle" /\ holder = c
    BY <1>3 DEF Settle, tables, WorkersHoldLock, Working
  <2> QED BY <1>3, <2>1, CalmIfLeft DEF Still, Settle, Carrying
<1>4. CASE Tick \/ TickDone
  <2>1. UNCHANGED <<proc, cursor, samples, sessions>> /\ op[Sampler].pc \in {"asleep", "autostop"}
    BY <1>4 DEF Tick, TickDone, external, tables
  <2>2. holder \in {Sampler, None}
    BY <1>4 DEF Tick, TickDone, WorkersHoldLock, Working
  <2>3. ASSUME NEW q \in Procs PROVE Calm(q)
    <3>1. CASE Leave(Sampler) \/ LeaveStopping(Sampler)
      BY <2>1, <2>2, <3>1, CalmIfLeft DEF Carrying
    <3>2. CASE Tick /\ ~LeaveStopping(Sampler)
      <4>1. op' = [op EXCEPT ![Sampler] = [op[Sampler] EXCEPT !.pc = "fetch", !.at = now, !.seen = Active]]
        BY <3>2 DEF Tick, OpTyped
      <4>2. op'[Sampler].pc = "fetch" /\ op'[Sampler].sid = None /\ (q # Sampler => op'[q] = op[q])
        BY <1>0, <4>1 DEF OpTyped, OpState, Unbound
      <4> QED BY <2>1, <4>2 DEF Calm, Unbound, Carrying
    <3> QED BY <1>4, <3>1, <3>2 DEF Tick, TickDone
  <2> QED BY <2>1, <2>3 DEF Still
<1>5. CASE ProcessExit
  <2>1. UNCHANGED <<samples, sessions>> /\ cursor' = None /\ proc' = "down" /\ \A q \in Procs : op'[q] = Idle
    BY <1>5 DEF ProcessExit, tables
  <2> QED BY <2>1 DEF Still
<1>6. CASE Boot \/ BootDone \/ World \/ UNCHANGED vars
  <2>1. /\ UNCHANGED <<cursor, samples, sessions, op>>
        /\ proc' = "up" => proc = "up" \/ Active = {}
    BY <1>6 DEF Boot, BootDone, World, ClockTick, Consume, WindowReset, SwitchAccount, memory, tables, vars
  <2> QED BY <2>1, CalmIfSame DEF Still
<1>7. \A p \in Procs : ~CommitFails(p)
  BY DEF CommitFails, Fault, CommitsSucceed
<1> QED BY <1>1, <1>2, <1>3, <1>4, <1>5, <1>6, <1>7 DEF Next, CommitStep, TickStep, Reconcile

LEMMA MeasureStep ==
  ASSUME CommitsSucceed, TableInv, MeasureInv, [Next]_vars
  PROVE  MeasureInv'
<1>1. TypeInv /\ WorkersHoldLock /\ Phases
  BY DEF TableInv
<1> QED BY <1>1, StillSteps, MeasureStill, MeasureTaken, MeasureCreated, MeasurePersisted,
           MeasureClosedExhausted, MeasureStopped, MeasureAutoStopped, MeasureReconciled

LEMMA MeasureInit == Init => MeasureInv
<1> SUFFICES ASSUME Init PROVE MeasureInv
  OBVIOUS
<1>1. samples = <<>> /\ cursor = None /\ DOMAIN samples = {} /\ \A p \in Procs : op[p] = Idle
  BY DEF Init
<1>2. Stored = {} /\ Active = {} /\ \A s \in SessionIds : sessions[s].total = None
  BY DEF Init, Stored, Active, Unused
<1>3. ChainInv
  BY <1>1, IdleType DEF ChainInv, DeltasAreContiguous, CursorIsLast, RowIsNext, Carrying
<1>4. OpenInv
  BY <1>1, <1>2 DEF OpenInv, Unopened
<1>5. \A s \in SessionIds : Accounted(s)
  BY <1>2 DEF Accounted
<1>6. Idle.pc = "idle" /\ Idle.sid = None
  BY DEF Idle
<1>7. \A p \in Procs : Handed(p)
  BY <1>1, <1>6 DEF Handed, Unbound, Knowing, Carrying
<1> QED BY <1>3, <1>4, <1>5, <1>7 DEF MeasureInv

(***************************************************************************)
(* What the shown numbers say of one another.                              *)
(***************************************************************************)
LEMMA EarliestIs ==
  ASSUME NEW S \in SUBSET Nat, S # {}
  PROVE  Earliest(S) \in S /\ \A j \in S : Earliest(S) <= j
<1>1. \E i \in S : \A j \in S : i <= j
  BY Least
<1> QED BY <1>1 DEF Earliest

\* Over samples that all have a delta the deltas add up to the difference.
LEMMA Telescopes ==
  ASSUME TypeOK, InOrder, DeltasAreContiguous, NEW i \in DOMAIN samples, NEW j \in i .. Len(samples),
         samples[i].used # None, \A k \in (i + 1) .. j : samples[k].status = "ok"
  PROVE  SumOfDeltas(i, j) = samples[j].used - samples[i].used
<1> DEFINE n == Len(samples)
<1>0. /\ samples \in Seq(SampleRow) /\ n \in Nat /\ DOMAIN samples = 1 .. n /\ i \in 1 .. n /\ j \in 1 .. n
  BY DEF TypeOK
<1>1. /\ Running \in [0 .. n -> Nat] /\ \A k \in 1 .. n : Running[k] = Running[k - 1] + Delta(k)
  BY <1>0, RunningIs DEF Totals
<1>2. \A k \in 1 .. n : samples[k].used \in Nat \cup {None}
  <2> SUFFICES ASSUME NEW k \in 1 .. n PROVE samples[k].used \in Nat \cup {None}
    OBVIOUS
  <2>1. samples[k] \in SampleRow
    BY <1>0
  <2> QED BY <2>1, BoundTypes DEF SampleRow
<1> HIDE DEF n
<1> DEFINE Tele(k) == /\ samples[k].used \in Nat
                      /\ Running[k] - Running[i] = samples[k].used - samples[i].used
           P == {m \in Nat : i + m <= j => Tele(i + m)}
<1>3. Tele(i)
  BY <1>0, <1>1, <1>2
<1>4. ASSUME NEW k \in 1 .. n, NEW h \in 1 .. n, h = k - 1, samples[k].status = "ok", Tele(h) PROVE Tele(k)
  <2>1. PICK x \in Nat, y \in Nat, u \in Nat, v \in Nat :
          x = Running[i] /\ y = Running[h] /\ u = samples[i].used /\ v = samples[h].used
    <3>1. i \in 0 .. n /\ h \in 0 .. n
      BY <1>0
    <3>2. Running[i] \in Nat /\ Running[h] \in Nat
      BY <1>1, <3>1
    <3>3. samples[i].used \in Nat /\ samples[h].used \in Nat
      BY <1>0, <1>2, <1>4
    <3> QED BY <3>2, <3>3
  <2>2. y - x = v - u
    BY <1>4, <2>1
  <2>3. Running[k] = y + Delta(k)
    BY <1>1, <1>4, <2>1
  <2>4. samples[k].used # None /\ samples[k].delta # None
    BY <1>0, <1>4 DEF InOrder, Fits, Measured
  <2>5. PICK w \in Nat : w = samples[k].used
    BY <1>2, <2>4
  <2>6. Delta(k) = w - v
    BY <1>0, <1>4, <2>1, <2>4, <2>5 DEF DeltasAreContiguous, Delta
  <2>7. (y + (w - v)) - x = w - u
    BY <2>2
  <2> QED BY <2>1, <2>3, <2>5, <2>6, <2>7
<1> HIDE DEF Tele
<1>5. 0 \in P
  <2>1. i + 0 = i
    BY <1>0
  <2> QED BY <1>3, <2>1
<1>6. ASSUME NEW m \in P PROVE m + 1 \in P
  <2> SUFFICES ASSUME i + (m + 1) <= j PROVE Tele(i + (m + 1))
    OBVIOUS
  <2>1. PICK k \in Nat : k = i + (m + 1)
    BY <1>0
  <2>2. k \in (i + 1) .. j /\ k \in 1 .. n /\ k - 1 = i + m /\ k - 1 \in 1 .. n /\ i + m <= j
    BY <1>0, <2>1
  <2>3. Tele(k - 1) /\ samples[k].status = "ok"
    BY <2>2
  <2> QED BY <1>4, <2>1, <2>2, <2>3
<1>7. P = Nat
  <2> HIDE DEF P
  <2>1. P \in SUBSET Nat
    BY DEF P
  <2> QED BY <1>5, <1>6, <2>1, Induction
<1>8. PICK m \in Nat : i + m = j
  <2>1. j - i \in Nat /\ i + (j - i) = j
    BY <1>0
  <2> QED BY <2>1
<1>9. Tele(j)
  <2>1. i + m <= j
    BY <1>0, <1>8
  <2> QED BY <1>7, <1>8, <2>1
<1> QED BY <1>9 DEF SumOfDeltas, Tele

AddsUpInv == SumsInv /\ TableInv /\ MeasureInv

\* The sample a session was opened with.
LEMMA OpeningIs ==
  ASSUME AddsUpInv, NEW s \in SessionIds, OpeningSample(s) # 0
  PROVE  Opens(OpeningSample(s), s)
<1> DEFINE S == {i \in DOMAIN samples : samples[i].trigger = s}
<1>1. samples \in Seq(SampleRow) /\ S \in SUBSET Nat /\ OpeningSample(s) = Earliest(S)
  BY DEF AddsUpInv, TableInv, TypeInv, TypeOK, OpeningSample
<1>2. S # {}
  BY <1>1 DEF Earliest
<1>3. Opened(s)
  BY <1>2 DEF AddsUpInv, MeasureInv, OpenInv, Unopened
<1>4. PICK f \in DOMAIN samples : Opens(f, s)
  BY <1>3 DEF Opened
<1>5. Earliest(S) \in S /\ \A j \in S : Earliest(S) <= j
  BY <1>1, <1>2, EarliestIs
<1>6. f \in S /\ f \in Nat /\ DOMAIN samples \subseteq Nat
  BY <1>1, <1>4 DEF Opens
<1>7. ~(Earliest(S) < f)
  <2> SUFFICES ASSUME Earliest(S) < f PROVE FALSE
    OBVIOUS
  <2>1. Earliest(S) \in 1 .. (f - 1)
    BY <1>1, <1>5, <1>6
  <2> QED BY <1>4, <1>5, <2>1 DEF Opens
<1>8. Earliest(S) = f
  <2>1. Earliest(S) <= f /\ Earliest(S) \in Nat
    BY <1>1, <1>5, <1>6
  <2> HIDE DEF S
  <2> QED BY <1>6, <1>7, <2>1
<1> QED BY <1>1, <1>4, <1>8

\* A measured session lies between two samples of one quota window.
Spans(f, c, s) ==
  /\ f \in DOMAIN samples /\ c \in DOMAIN samples /\ f < c
  /\ samples[f].at = sessions[s].startedAt /\ samples[c].at = sessions[s].endedAt
  /\ samples[f].used \in Nat /\ samples[c].used \in Nat /\ samples[f].win \in Nat
  /\ samples[f].win = samples[c].win
  /\ sessions[s].total = samples[c].used - samples[f].used

LEMMA SessionSpan ==
  ASSUME AddsUpInv, NEW s \in SessionIds, sessions[s].total # None, ~Exhausted(sessions[s].start)
  PROVE  Spans(OpeningSample(s), ClosingSample(s), s)
<1> DEFINE n == Len(samples)
           f == OpeningSample(s)
           trigger == IF sessions[s].status = "STOPPED" THEN s ELSE None
           S == {i \in DOMAIN samples :
                   /\ i > f /\ samples[i].at = sessions[s].endedAt
                   /\ samples[i].used = sessions[s].usedEnd /\ samples[i].trigger = trigger}
           c == Earliest(S)
<1>0. /\ samples \in Seq(SampleRow) /\ n \in Nat /\ DOMAIN samples = 1 .. n /\ InOrder /\ TypeInv
  BY DEF AddsUpInv, TableInv, TypeInv, TypeOK, SumsInv, TimelineInv
<1>1. /\ None \notin {sessions[s].start.used, sessions[s].usedEnd}
      /\ sessions[s].total = sessions[s].usedEnd - sessions[s].start.used
      /\ \E k \in DOMAIN samples : Closes(k, s)
  BY DEF AddsUpInv, MeasureInv, Accounted
<1>2. PICK k \in DOMAIN samples : Closes(k, s)
  BY <1>1
<1>3. PICK g \in 1 .. (k - 1) : Opens(g, s)
  BY <1>2 DEF Closes
<1>4. ClosingSample(s) = c
  BY DEF ClosingSample
<1>5. f # 0
  <2> DEFINE T == {i \in DOMAIN samples : samples[i].trigger = s}
  <2>1. g \in T /\ T \in SUBSET Nat /\ 0 \notin T
    BY <1>0, <1>3 DEF Opens
  <2> HIDE DEF T
  <2>2. Earliest(T) \in T
    BY <2>1, EarliestIs
  <2> QED BY <2>1, <2>2 DEF OpeningSample, T
<1>6. Opens(f, s)
  BY <1>5, OpeningIs
<1>7. f = g
  <2>1. f \in Nat /\ g \in Nat /\ samples[f].trigger = s /\ samples[g].trigger = s
    BY <1>0, <1>3, <1>6 DEF Opens
  <2>2. ~(f < g) /\ ~(g < f)
    BY <1>0, <1>3, <1>6, <2>1 DEF Opens
  <2> QED BY <2>1, <2>2
<1>8. k \in S
  BY <1>0, <1>2, <1>3, <1>7 DEF Closes
<1>9. c \in S /\ c <= k
  <2>1. S \in SUBSET Nat
    BY <1>0
  <2> HIDE DEF S
  <2> QED BY <1>8, <2>1, EarliestIs
<1> HIDE DEF f, c
<1>10. /\ f \in 1 .. n /\ c \in 1 .. n /\ f < c /\ k \in 1 .. n
       /\ samples[c].at = sessions[s].endedAt /\ samples[c].used = sessions[s].usedEnd
       /\ samples[f].at = sessions[s].startedAt /\ samples[f].used = sessions[s].start.used
       /\ samples[f].win = sessions[s].start.win
       /\ samples[k].used = sessions[s].usedEnd /\ samples[k].win = sessions[s].start.win
  BY <1>0, <1>2, <1>6, <1>9 DEF Opens, SameCounter, Closes
<1> HIDE DEF S, n
<1>11. \A i \in {f, c, k} : samples[i].used \in Nat /\ samples[i].win \in Nat
  <2> SUFFICES ASSUME NEW i \in {f, c, k} PROVE samples[i].used \in Nat /\ samples[i].win \in Nat
    OBVIOUS
  <2>1. samples[i].used # None /\ i \in 1 .. n
    BY <1>1, <1>10
  <2>2. Counter(samples[i]) /\ Whole(samples[i])
    BY <1>0, <2>1, CounterTypes DEF InOrder, Fits
  <2> QED BY <2>1, <2>2 DEF Counter, Whole
<1>12. samples[f].win = samples[c].win
  <2>1. Below(samples[f], samples[c])
    <3>1. f \in 1 .. (c - 1)
      BY <1>10
    <3> QED BY <1>0, <1>10, <3>1 DEF InOrder, Fits
  <2>2. c = k \/ Below(samples[c], samples[k])
    <3>1. c = k \/ c \in 1 .. (k - 1)
      BY <1>9, <1>10
    <3> QED BY <1>0, <1>10, <3>1 DEF InOrder, Fits
  <2>3. samples[f].win <= samples[c].win /\ samples[c].win <= samples[k].win
    BY <1>11, <2>1, <2>2, NoneAssumption DEF Below
  <2> QED BY <1>10, <1>11, <2>3
<1>13. Spans(f, c, s)
  BY <1>0, <1>1, <1>10, <1>11, <1>12 DEF Spans
<1> QED BY <1>4, <1>13 DEF f

LEMMA TotalsAgree ==
  ASSUME AddsUpInv
  PROVE  TotalAgreesWithSamples
<1>0. /\ samples \in Seq(SampleRow) /\ TypeOK /\ InOrder /\ DeltasAreContiguous /\ NothingCountedTwice
      /\ Len(samples) \in Nat /\ DOMAIN samples = 1 .. Len(samples)
  BY SumsBound DEF AddsUpInv, TableInv, TypeInv, TypeOK, SumsInv, TimelineInv, MeasureInv, ChainInv
<1> SUFFICES ASSUME NEW s \in SessionIds, sessions[s].total # None, OpeningSample(s) # 0
             PROVE  /\ SumOfDeltas(OpeningSample(s), ClosingSample(s)) <= sessions[s].total
                    /\ (\A i \in (OpeningSample(s) + 1) .. ClosingSample(s) : samples[i].status = "ok")
                         => SumOfDeltas(OpeningSample(s), ClosingSample(s)) = sessions[s].total
  BY DEF TotalAgreesWithSamples
<1>1. CASE Exhausted(sessions[s].start)
  <2>1. ClosingSample(s) = OpeningSample(s) /\ sessions[s].total = 0
    BY <1>1 DEF ClosingSample, AddsUpInv, MeasureInv, Accounted
  <2>2. OpeningSample(s) \in DOMAIN samples
    BY OpeningIs DEF Opens
  <2>3. Running[OpeningSample(s)] \in Nat
    <3>1. OpeningSample(s) \in 0 .. Len(samples)
      BY <1>0, <2>2
    <3> QED BY <1>0, <3>1, RunningIs DEF Totals
  <2> QED BY <2>1, <2>3 DEF SumOfDeltas
<1>2. CASE ~Exhausted(sessions[s].start)
  <2>1. PICK f, c : f = OpeningSample(s) /\ c = ClosingSample(s) /\ Spans(f, c, s)
    BY <1>2, SessionSpan
  <2>2. /\ f \in DOMAIN samples /\ c \in DOMAIN samples /\ f < c /\ c \in f .. Len(samples)
        /\ samples[f].used # None /\ samples[c].used # None /\ samples[f].win = samples[c].win
        /\ sessions[s].total = samples[c].used - samples[f].used
    BY <1>0, <2>1, NoneAssumption DEF Spans
  <2>3. SumOfDeltas(f, c) <= samples[c].used - samples[f].used
    BY <1>0, <2>2 DEF NothingCountedTwice
  <2>4. (\A i \in (f + 1) .. c : samples[i].status = "ok")
          => SumOfDeltas(f, c) = samples[c].used - samples[f].used
    BY <1>0, <2>2, Telescopes
  <2> QED BY <2>1, <2>2, <2>3, <2>4
<1> QED BY <1>1, <1>2

LEMMA WorstIsWithin ==
  ASSUME AddsUpInv
  PROVE  WorstIntervalWithinTotal
<1>0. /\ samples \in Seq(SampleRow) /\ TypeInv /\ TypeOK /\ InOrder /\ DeltasAreContiguous
      /\ Len(samples) \in Nat /\ DOMAIN samples = 1 .. Len(samples)
  BY DEF AddsUpInv, TableInv, TypeInv, TypeOK, SumsInv, TimelineInv, MeasureInv, ChainInv
<1> SUFFICES ASSUME NEW s \in SessionIds, sessions[s].total # None,
                    \A i \in DOMAIN samples : samples[i].at = sessions[s].endedAt => i <= ClosingSample(s),
                    NEW j \in DOMAIN samples, samples[j].status = "ok",
                    sessions[s].startedAt < samples[j].at, samples[j].at <= sessions[s].endedAt
             PROVE  samples[j].delta <= sessions[s].total
  BY DEF WorstIntervalWithinTotal, IntervalDeltas
<1>1. samples[j].at \in Nat /\ Counter(samples[j])
  BY <1>0, CounterTypes
<1>2. CASE Exhausted(sessions[s].start)
  <2>1. sessions[s].endedAt = sessions[s].startedAt /\ sessions[s].endedAt \in Time
    BY <1>2 DEF AddsUpInv, MeasureInv, Accounted
  <2> QED BY <1>1, <2>1, BoundTypes DEF Time
<1>3. CASE ~Exhausted(sessions[s].start)
  <2>1. PICK f, c : f = OpeningSample(s) /\ c = ClosingSample(s) /\ Spans(f, c, s)
    BY <1>3, SessionSpan
  <2>2. /\ f \in DOMAIN samples /\ c \in DOMAIN samples /\ f < c /\ j \in Nat /\ f \in Nat /\ c \in Nat
        /\ samples[f].used \in Nat /\ samples[c].used \in Nat /\ samples[f].win \in Nat
        /\ samples[f].win = samples[c].win /\ sessions[s].total = samples[c].used - samples[f].used
        /\ samples[f].at < samples[j].at /\ samples[j].at <= samples[c].at
    BY <1>0, <2>1 DEF Spans
  <2>3. samples[f].at \in Nat /\ samples[c].at \in Nat
    BY <1>0, <2>2, CounterTypes
  <2>4. \A a, b \in DOMAIN samples : a < b => samples[a].at <= samples[b].at /\ Below(samples[a], samples[b])
    <3> SUFFICES ASSUME NEW a \in DOMAIN samples, NEW b \in DOMAIN samples, a < b
                 PROVE  samples[a].at <= samples[b].at /\ Below(samples[a], samples[b])
      OBVIOUS
    <3>1. a \in 1 .. (b - 1)
      BY <1>0
    <3> QED BY <1>0, <3>1 DEF InOrder, Fits
  <2>5. f < j
    <3>1. ~(j < f) /\ j # f
      BY <1>1, <2>2, <2>3, <2>4
    <3> QED BY <2>2, <3>1
  <2>6. j <= c
    <3>1. CASE samples[j].at = samples[c].at
      BY <2>1, <3>1 DEF Spans
    <3>2. CASE samples[j].at # samples[c].at
      <4>1. ~(c < j)
        BY <1>1, <2>2, <2>3, <2>4, <3>2
      <4> QED BY <2>2, <4>1
    <3> QED BY <3>1, <3>2
  <2>7. PICK h \in DOMAIN samples : h = j - 1 /\ f <= h /\ h < j
    BY <1>0, <2>2, <2>5
  <2>8. /\ samples[h].used # None /\ samples[h].win = samples[j].win /\ samples[j].used # None
        /\ samples[j].delta = samples[j].used - samples[h].used
    BY <1>0, <2>7 DEF DeltasAreContiguous, InOrder, Fits, Measured
  <2>9. Counter(samples[h]) /\ Whole(samples[h])
    BY <1>0, CounterTypes DEF InOrder, Fits
  <2>10. samples[h].used \in Nat /\ samples[j].used \in Nat /\ samples[h].win \in Nat
    BY <1>1, <2>8, <2>9 DEF Counter, Whole
  <2>11. (f = h \/ Below(samples[f], samples[h])) /\ (j = c \/ Below(samples[j], samples[c]))
    BY <2>2, <2>4, <2>6, <2>7
  <2>12. samples[f].win <= samples[h].win /\ samples[h].win <= samples[f].win
    BY <2>2, <2>8, <2>10, <2>11, NoneAssumption DEF Below
  <2>13. samples[f].win = samples[h].win
    BY <2>2, <2>10, <2>12
  <2>14. samples[f].used <= samples[h].used /\ samples[j].used <= samples[c].used
    BY <2>2, <2>8, <2>10, <2>11, <2>13, NoneAssumption DEF Below
  <2> QED BY <2>2, <2>8, <2>10, <2>14
<1> QED BY <1>2, <1>3

\* The deltas, totals and worst intervals the diagnostics show agree with one
\* another whichever gh calls fail and whenever the process exits, as long as
\* commits go through (a session row is written before its closing sample is
\* read back, stop_session and _scheduled_tick) and the login stays.
THEOREM MeasurementsAddUp ==
  ASSUME NoSwitch, CommitsSucceed
  PROVE  Spec => []MeasurementAddsUp
<1>1. Init => AddsUpInv
  BY SumsInitially, TableInit, MeasureInit DEF AddsUpInv
<1>2. AddsUpInv /\ [Next]_vars => AddsUpInv'
  BY SumsStep, TableInvStep, MeasureStep DEF AddsUpInv
<1>3. AddsUpInv => MeasurementAddsUp
  BY TotalsAgree, WorstIsWithin DEF MeasurementAddsUp, AddsUpInv, MeasureInv, ChainInv
<1> QED BY <1>1, <1>2, <1>3, PTL DEF Spec

(***************************************************************************)
(* The polls.  The sampler sleeps a period after every tick, and a sampler *)
(* that is started anew sleeps one first: whatever it stored before is at  *)
(* least a period older than its next reading of the clock.                *)
(***************************************************************************)
Timed(i) == samples[i].trigger = None
Apart(a, b) == b = MaxTime \/ b - a >= Period

\* Every sample of the sampler is a period before the instant t.
AllApart(t) == \A i \in DOMAIN samples : Timed(i) => Apart(samples[i].at, t)

\* A client stores a sample that names the session it is about.
Told(p) == op[p].pc \in {"close", "persist"} => op[p].row.trigger # None

\* An operation that has read the clock dates its sample by that reading.
Dated(p) == Reading(p) => op[p].at \in Time /\ op[p].at <= now /\ (Carrying(p) => op[p].row.at = op[p].at)

PollInv ==
  /\ \A i \in DOMAIN samples : samples[i].at <= now
  /\ \A i, j \in DOMAIN samples : i < j /\ Timed(i) /\ Timed(j) => Apart(samples[i].at, samples[j].at)
  /\ \A p \in Procs : Dated(p)
  /\ \A c \in Clients : Told(c)
  /\ op[Sampler].pc = "asleep" => AllApart(wake)
  /\ Reading(Sampler) => AllApart(op[Sampler].at)

\* What the loop of the sampler does.
SamplerMoves ==
  /\ op'[Sampler].pc = "asleep" => \/ op[Sampler].pc = "asleep" /\ wake' = wake
                                   \/ wake' = NextWake /\ now' = now
  /\ op'[Sampler].pc = "fetch" => \/ op[Sampler].pc = "fetch" /\ op'[Sampler].at = op[Sampler].at
                                  \/ op[Sampler].pc = "asleep" /\ now >= wake /\ op'[Sampler].at = now
  /\ Carrying(Sampler)' => Reading(Sampler) /\ op'[Sampler].at = op[Sampler].at

LEMMA RestMoves ==
  ASSUME OpTyped, NEW p \in Procs, Leave(p) \/ LeaveStarting(p) \/ LeaveStopping(p), now' = now
  PROVE  SamplerMoves
<1>1. Idle.pc = "idle" /\ Asleep.pc = "asleep" /\ Sampler \in Procs
  BY DEF Idle, Asleep, Procs
<1>2. \/ op'[Sampler] = Idle
      \/ op'[Sampler] = op[Sampler] /\ wake' = wake
      \/ op'[Sampler] = Asleep /\ wake' = NextWake
  BY <1>1 DEF Leave, LeaveStarting, LeaveStopping, OpTyped
<1> QED BY <1>1, <1>2 DEF SamplerMoves, Carrying, Reading

LEMMA SameMoves ==
  ASSUME op'[Sampler] = op[Sampler], wake' = wake
  PROVE  SamplerMoves
BY DEF SamplerMoves, Carrying, Reading

LEMMA GotoMoves ==
  ASSUME OpTyped, NEW p \in Procs, NEW pc, Goto(p, pc), wake' = wake,
         p = Sampler => pc \notin {"asleep", "fetch", "create", "close", "persist"}
  PROVE  SamplerMoves
<1>1. op' = [op EXCEPT ![p] = [op[p] EXCEPT !.pc = pc]] /\ Sampler \in Procs
  BY DEF Goto, OpTyped, Procs
<1>2. CASE p = Sampler
  <2>1. op'[Sampler].pc = pc
    BY <1>1, <1>2 DEF OpTyped, OpState
  <2> QED BY <1>2, <2>1 DEF SamplerMoves, Carrying
<1>3. CASE p # Sampler
  BY <1>1, <1>3, SameMoves DEF OpTyped
<1> QED BY <1>2, <1>3

LEMMA SamplerSteps ==
  ASSUME TypeInv, [Next]_vars
  PROVE  SamplerMoves
<1> OpTyped /\ Sampler \in Procs /\ Clients \subseteq Procs /\ Sampler \notin Clients
  BY ProcessAssumption DEF TypeInv, TypeOK, OpTyped, Procs
<1>1. ASSUME NEW c \in Clients, StartStep(c) PROVE SamplerMoves
  <2>1. CASE StartSession(c)
    BY <2>1, GotoMoves DEF StartSession
  <2>2. CASE Leave(c)
    BY <1>1, <2>2, RestMoves DEF StartStep, StartSession, IdentityFetched, IdentityFailed, external
  <2>3. CASE IdentityFetched(c) /\ ~Leave(c)
    BY <2>3, SameMoves DEF IdentityFetched, OpTyped
  <2> QED BY <1>1, <2>1, <2>2, <2>3 DEF StartStep, IdentityFailed
<1>2. ASSUME NEW c \in Clients, NEW s \in SessionIds, StopSession(c, s) PROVE SamplerMoves
  BY <1>2, SameMoves DEF StopSession, Goto, OpTyped
<1>3. ASSUME NEW p \in Procs, FetchStep(p) PROVE SamplerMoves
  <2>1. PICK res, row : op' = [op EXCEPT ![p].pc = AfterFetch(p), ![p].res = res, ![p].row = row]
    BY <1>3 DEF FetchStep, Fetched, FetchedUnusable, FetchFailed, SampleTaken
  <2>2. wake' = wake /\ op[p].pc = "fetch"
    BY <1>3 DEF FetchStep, Fetched, FetchedUnusable, FetchFailed
  <2>3. CASE p = Sampler
    <3>1. op'[p] = [op[p] EXCEPT !.pc = AfterFetch(p), !.res = res, !.row = row]
      BY <2>1 DEF OpTyped
    <3>2. op'[p].pc = AfterFetch(p) /\ op'[p].at = op[p].at /\ AfterFetch(p) = "persist"
      BY <2>3, <3>1 DEF OpTyped, OpState, AfterFetch
    <3> QED BY <2>2, <2>3, <3>2 DEF SamplerMoves, Reading
  <2>4. CASE p # Sampler
    BY <2>1, <2>2, <2>4, SameMoves DEF OpTyped
  <2> QED BY <2>3, <2>4
<1>4. ASSUME NEW p \in Procs, CommitStep(p) \/ CommitFails(p) PROVE SamplerMoves
  <2>1. now' = now
    BY <1>4 DEF CommitStep, CommitFails, CreateSession, CloseExhausted, EndSession, Settle, PersistSample, external
  <2>2. CASE Leave(p) \/ LeaveStarting(p) \/ LeaveStopping(p)
    BY <2>1, <2>2, RestMoves
  <2>3. CASE p # Sampler /\ (CreateSession(p) \/ CloseExhausted(p) \/ EndSession(p))
    BY <2>3, SameMoves DEF CreateSession, CloseExhausted, EndSession, Goto, OpTyped
  <2>4. CASE PersistSample(p) /\ wake' = wake /\ (Goto(p, "end") \/ Goto(p, "autostop"))
    BY <2>4, GotoMoves
  <2> QED BY <1>4, <2>2, <2>3, <2>4 DEF CommitStep, CommitFails, Settle, PersistSample
<1>5. CASE TickStep
  <2>1. now' = now
    BY <1>5 DEF TickStep, Tick, TickDone, AutoStop, external
  <2>2. CASE Leave(Sampler) \/ LeaveStopping(Sampler)
    BY <2>1, <2>2, RestMoves
  <2>3. CASE Tick /\ ~LeaveStopping(Sampler)
    <3>1. op' = [op EXCEPT ![Sampler] = [op[Sampler] EXCEPT !.pc = "fetch", !.at = now, !.seen = Active]]
      BY <2>3 DEF Tick, OpTyped
    <3>2. op'[Sampler].pc = "fetch" /\ op'[Sampler].at = now
      BY <3>1 DEF OpTyped, OpState
    <3> QED BY <2>3, <3>2 DEF Tick, SamplerMoves, Carrying
  <2>4. CASE \E s \in SessionIds : AutoStop(s)
    BY <2>4, SameMoves DEF AutoStop, memory
  <2> QED BY <1>5, <2>2, <2>3, <2>4 DEF TickStep, Tick, TickDone
<1>6. CASE ProcessExit
  BY <1>6, IdleType DEF ProcessExit, SamplerMoves, Carrying
<1>7. CASE Boot \/ Reconcile \/ World \/ UNCHANGED vars
  <2>1. UNCHANGED <<op, wake>>
    BY <1>7 DEF Boot, Reconcile, BootDone, ReconcileSession, World, ClockTick, Consume, WindowReset, SwitchAccount,
       memory, vars
  <2> QED BY <2>1, SameMoves
<1> QED BY <1>1, <1>2, <1>3, <1>4, <1>5, <1>6, <1>7 DEF Next

LEMMA ToldIfLeft ==
  ASSUME OpTyped, NEW p \in Procs, Leave(p) \/ LeaveStarting(p) \/ LeaveStopping(p), NEW c \in Procs, Told(c)
  PROVE  Told(c)'
<1>1. op'[c] \in {op[c], Idle, Asleep}
  BY DEF OpTyped, Leave, LeaveStarting, LeaveStopping
<1> QED BY <1>1, IdleType DEF Told

LEMMA ToldIfGone ==
  ASSUME OpTyped, NEW p \in Procs, NEW pc, Goto(p, pc), pc # "close",
         pc = "persist" => op[p].pc = "close", NEW c \in Procs, Told(c)
  PROVE  Told(c)'
<1>1. op' = [op EXCEPT ![p] = [op[p] EXCEPT !.pc = pc]]
  BY DEF Goto, OpTyped
<1>2. CASE c # p
  BY <1>1, <1>2 DEF OpTyped, Told
<1>3. CASE c = p
  <2>1. op'[p].pc = pc /\ op'[p].row = op[p].row
    BY <1>1 DEF OpTyped, OpState
  <2> QED BY <1>3, <2>1 DEF Told
<1> QED BY <1>2, <1>3

LEMMA ToldFetched ==
  ASSUME TypeInv, NEW p \in Procs, FetchStep(p), NEW c \in Clients, Told(c)
  PROVE  Told(c)'
<1>1. PICK res, row :
        /\ op' = [op EXCEPT ![p].pc = AfterFetch(p), ![p].res = res, ![p].row = row]
        /\ row = FailedSample(p) \/ row = Classified(p, res)
  BY DEF FetchStep, Fetched, FetchedUnusable, FetchFailed, SampleTaken
<1>2. row.trigger = op[p].sid
  BY <1>1 DEF FailedSample, Classified
<1>3. op' = [op EXCEPT ![p] = [op[p] EXCEPT !.pc = AfterFetch(p), !.res = res, !.row = row]]
  BY <1>1 DEF TypeInv, TypeOK
<1>4. CASE c # p
  BY <1>3, <1>4 DEF TypeInv, TypeOK, Told, Procs
<1>5. CASE c = p
  <2>1. op'[p].pc = AfterFetch(p) /\ op'[p].row = row
    BY <1>3 DEF TypeInv, TypeOK, OpState
  <2> QED BY <1>2, <1>5, <2>1, ProcessAssumption DEF Told, AfterFetch
<1> QED BY <1>4, <1>5

LEMMA ToldCommitted ==
  ASSUME TypeInv, NEW p \in Procs, CommitStep(p) \/ CommitFails(p), NEW c \in Clients, Told(c)
  PROVE  Told(c)'
<1> OpTyped /\ c \in Procs
  BY DEF TypeInv, TypeOK, OpTyped, Procs
<1>1. CASE CreateSession(p)
  <2>1. PICK s \in SessionIds :
          op' = [op EXCEPT ![p].sid = s, ![p].row.trigger = s, ![p].pc = AfterCreate(op[p].res)]
    BY <1>1 DEF CreateSession
  <2>2. op[p] \in OpState /\ op[p].row \in SampleRow
    BY <1>1 DEF CreateSession, TypeInv, Ready, OpTyped
  <2>3. op' = [op EXCEPT ![p] = [op[p] EXCEPT !.sid = s, !.row = [op[p].row EXCEPT !.trigger = s],
                                              !.pc = AfterCreate(op[p].res)]]
    BY <2>1, <2>2 DEF OpTyped, OpState
  <2>4. CASE c # p
    BY <2>3, <2>4 DEF OpTyped, Told
  <2>5. CASE c = p
    <3>1. op'[p].row = [op[p].row EXCEPT !.trigger = s]
      BY <2>3 DEF OpTyped, OpState
    <3>2. op'[p].row.trigger = s
      BY <2>2, <3>1 DEF SampleRow
    <3> QED BY <2>5, <3>2, NoneAssumption DEF Told, SessionIds
  <2> QED BY <2>4, <2>5
<1>2. CASE CloseExhausted(p) \/ EndSession(p) \/ (PersistSample(p) /\ (Goto(p, "end") \/ Goto(p, "autostop")))
  BY <1>2, ToldIfGone DEF CloseExhausted, EndSession
<1>3. CASE Leave(p) \/ LeaveStarting(p) \/ LeaveStopping(p)
  BY <1>3, ToldIfLeft
<1> QED BY <1>1, <1>2, <1>3 DEF CommitStep, CommitFails, Settle, PersistSample

LEMMA ToldStep ==
  ASSUME TypeInv, [Next]_vars, NEW c \in Clients, Told(c)
  PROVE  Told(c)'
<1> OpTyped /\ Sampler \in Procs /\ Clients \subseteq Procs /\ c \in Procs /\ c # Sampler
  BY ProcessAssumption DEF TypeInv, TypeOK, OpTyped, Procs
<1>1. ASSUME NEW d \in Clients, StartStep(d) PROVE Told(c)'
  <2>1. CASE StartSession(d)
    BY <2>1, ToldIfGone DEF StartSession
  <2>2. CASE Leave(d)
    BY <2>2, ToldIfLeft
  <2>3. CASE IdentityFetched(d) /\ ~Leave(d)
    <3>1. op' = [op EXCEPT ![d] = [op[d] EXCEPT !.pc = "fetch", !.user = account, !.at = now, !.seen = Active]]
      BY <2>3 DEF IdentityFetched, OpTyped
    <3>2. op'[d].pc = "fetch" /\ (c # d => op'[c] = op[c])
      BY <3>1 DEF OpTyped, OpState
    <3> QED BY <3>2 DEF Told
  <2> QED BY <1>1, <2>1, <2>2, <2>3 DEF StartStep, IdentityFailed
<1>2. ASSUME NEW d \in Clients, NEW s \in SessionIds, StopSession(d, s) PROVE Told(c)'
  <2>1. CASE Stoppable(s)
    <3>1. op' = [op EXCEPT ![d] = [op[d] EXCEPT !.pc = "fetch", !.sid = s, !.at = now, !.seen = Active]]
      BY <1>2, <2>1 DEF StopSession, OpTyped
    <3>2. op'[d].pc = "fetch" /\ (c # d => op'[c] = op[c])
      BY <3>1 DEF OpTyped, OpState
    <3> QED BY <3>2 DEF Told
  <2>2. CASE ~Stoppable(s)
    BY <1>2, <2>2, ToldIfGone DEF StopSession
  <2> QED BY <2>1, <2>2
<1>3. CASE TickStep
  <2>1. CASE Tick /\ ~LeaveStopping(Sampler)
    BY <2>1 DEF Tick, OpTyped, Told
  <2>2. CASE Leave(Sampler) \/ LeaveStopping(Sampler)
    BY <2>2, ToldIfLeft
  <2>3. CASE \E s \in SessionIds : AutoStop(s)
    BY <2>3 DEF AutoStop, memory, Told
  <2> QED BY <1>3, <2>1, <2>2, <2>3 DEF TickStep, Tick, TickDone
<1>4. CASE ProcessExit
  BY <1>4, IdleType DEF ProcessExit, Told
<1>5. CASE Boot \/ Reconcile \/ World \/ UNCHANGED vars
  <2>1. op' = op
    BY <1>5 DEF Boot, Reconcile, BootDone, ReconcileSession, World, ClockTick, Consume, WindowReset, SwitchAccount,
       memory, vars
  <2> QED BY <2>1 DEF Told
<1> QED BY <1>1, <1>2, <1>3, <1>4, <1>5, ToldFetched, ToldCommitted DEF Next

LEMMA PollTypes ==
  ASSUME TypeInv
  PROVE  /\ now \in 0 .. MaxTime /\ wake \in 0 .. MaxTime /\ MaxTime \in Nat /\ Period \in Nat
         /\ samples \in Seq(SampleRow) /\ Len(samples) \in Nat
         /\ \A i \in DOMAIN samples : samples[i] \in SampleRow /\ samples[i].at \in 0 .. MaxTime
<1>1. samples \in Seq(SampleRow) /\ now \in Time /\ wake \in Time
  BY DEF TypeInv, TypeOK
<1>2. \A i \in DOMAIN samples : samples[i] \in SampleRow
  BY <1>1
<1> QED BY <1>1, <1>2, BoundTypes DEF Time, SampleRow

\* Whatever is on the timeline is a period before the next end of a sleep
\* that begins now, and stays so until the sleep has ended.
LEMMA SleepApart ==
  ASSUME TypeInv, NEW a \in 0 .. MaxTime
  PROVE  /\ a <= now => Apart(a, NextWake)
         /\ Apart(a, wake) /\ now >= wake => Apart(a, now)
BY PollTypes DEF Apart, NextWake

LEMMA DatedStep ==
  ASSUME TypeInv, TypeInv', Quiet \/ \E p \in Procs : Taken(p) \/ Persisted(p),
         NEW q \in Procs, \A p \in Procs : Dated(p)
  PROVE  Dated(q)'
<1>1. now \in Time /\ now' \in Time /\ Dated(q) /\ op[q] \in OpState
  BY DEF TypeInv, TypeOK
<1>2. ASSUME now <= now' PROVE now <= now' /\ \A t \in Time : t <= now => t <= now'
  BY <1>1, <1>2, BoundTypes DEF Time
<1>3. CASE Quiet
  <2>1. Kept(q) /\ now <= now'
    BY <1>3 DEF Quiet, Later
  <2>5. Dated(q) => (Reading(q) => op[q].at \in Time /\ op[q].at <= now')
    BY <1>2, <2>1 DEF Dated
  <2>2. CASE op'[q].pc = "fetch" /\ op'[q].at = now
    BY <1>1, <2>1, <2>2 DEF Dated, Carrying
  <2>3. CASE op'[q].pc = "fetch" /\ op[q].pc = "fetch" /\ op'[q].at = op[q].at
    BY <1>1, <2>3, <2>5 DEF Dated, Reading, Carrying
  <2>4. CASE Carrying(q)' /\ Carrying(q) /\ op'[q].at = op[q].at /\ SameReading(op'[q].row, op[q].row)
    BY <1>1, <2>4, <2>5 DEF Dated, Reading, Carrying, SameReading
  <2> QED BY <2>1, <2>2, <2>3, <2>4 DEF Kept, Dated
<1>4. ASSUME NEW p \in Procs, Taken(p) PROVE Dated(q)'
  <2>1. op[p].pc = "fetch" /\ now' = now /\ op'[p].at = op[p].at /\ op'[p].row.at = op[p].at /\ (q # p => ~Reading(q)')
    BY <1>4 DEF Taken, FailedSample, Classified
  <2> QED BY <1>1, <2>1 DEF Dated, Reading
<1>5. ASSUME NEW p \in Procs, Persisted(p) PROVE Dated(q)'
  BY <1>5 DEF Persisted, Dated
<1> QED BY <1>3, <1>4, <1>5

\* The sampler after a step that stores nothing.
LEMMA SleepStep ==
  ASSUME TypeInv, PollInv, SamplerMoves, samples' = samples
  PROVE  /\ op'[Sampler].pc = "asleep" => AllApart(wake')
         /\ Reading(Sampler)' => AllApart(op'[Sampler].at)
<1>1. \A i \in DOMAIN samples : samples[i].at \in 0 .. MaxTime /\ samples[i].at <= now
  BY PollTypes DEF PollInv
<1>2. AllApart(NextWake) /\ (AllApart(wake) /\ now >= wake => AllApart(now))
  BY <1>1, SleepApart DEF AllApart
<1>3. op'[Sampler].pc = "asleep" => AllApart(wake')
  BY <1>2 DEF PollInv, SamplerMoves
<1>4. ASSUME op'[Sampler].pc = "fetch" PROVE AllApart(op'[Sampler].at)
  BY <1>2, <1>4 DEF PollInv, SamplerMoves, Reading
<1>5. ASSUME Carrying(Sampler)' PROVE AllApart(op'[Sampler].at)
  BY <1>5 DEF PollInv, SamplerMoves
<1> QED BY <1>3, <1>4, <1>5 DEF Reading, Carrying

LEMMA PollKept ==
  ASSUME TypeInv, TypeInv', PollInv, SamplerMoves, [Next]_vars, Quiet \/ \E p \in Procs : Taken(p)
  PROVE  PollInv'
<1>1. samples' = samples /\ now <= now'
  BY PollTypes DEF Quiet, Taken, Later
<1>2. \A i \in DOMAIN samples : samples[i].at <= now'
  <2>1. /\ now \in 0 .. MaxTime /\ MaxTime \in Nat
        /\ \A i \in DOMAIN samples : samples[i].at \in 0 .. MaxTime /\ samples[i].at <= now
    BY PollTypes DEF PollInv
  <2>2. now' \in 0 .. MaxTime
    BY DEF TypeInv, TypeOK, Time
  <2> QED BY <1>1, <2>1, <2>2
<1>3. \A p \in Procs : Dated(p)'
  BY DatedStep DEF PollInv
<1>4. \A c \in Clients : Told(c)'
  BY ToldStep DEF PollInv
<1>5. /\ op'[Sampler].pc = "asleep" => AllApart(wake)'
      /\ Reading(Sampler)' => AllApart(op[Sampler].at)'
  BY <1>1, SleepStep DEF AllApart, Timed
<1>6. \A i, j \in DOMAIN samples' :
         i < j /\ Timed(i)' /\ Timed(j)' => Apart(samples'[i].at, samples'[j].at)
  BY <1>1 DEF PollInv, Timed
<1> QED BY <1>1, <1>2, <1>3, <1>4, <1>5, <1>6 DEF PollInv, Apart

LEMMA PollPersisted ==
  ASSUME TypeInv, TypeInv', PollInv, SamplerMoves, [Next]_vars, NEW p \in Procs, Persisted(p)
  PROVE  PollInv'
<1> DEFINE n == Len(samples)
           row == op[p].row
<1>0. /\ op[p].pc = "persist" /\ now' = now /\ samples' = Append(samples, row) /\ \A q \in Procs : ~Reading(q)'
      /\ n \in Nat /\ samples \in Seq(SampleRow) /\ row \in SampleRow
  BY PollTypes DEF Persisted, TypeInv, Ready
<1>1. Reading(p) /\ Carrying(p) /\ Dated(p) /\ Sampler \in Procs
  BY <1>0 DEF PollInv, Reading, Carrying, Procs
<1>2. row.at <= now /\ row.at = op[p].at /\ row.at \in 0 .. MaxTime
  BY <1>1 DEF Dated, Time
<1>3. p # Sampler => row.trigger # None
  BY <1>0 DEF PollInv, Told, Procs
<1>4. p = Sampler => AllApart(row.at)
  BY <1>1, <1>2 DEF PollInv
<1> HIDE DEF row
<1>5. /\ DOMAIN samples = 1 .. n /\ DOMAIN samples' = 1 .. (n + 1)
      /\ samples'[n + 1] = row /\ \A i \in 1 .. n : samples'[i] = samples[i]
  BY <1>0
<1> HIDE DEF n
<1>6. \A i \in 1 .. (n + 1) : samples'[i].at <= now /\ samples'[i].at \in 0 .. MaxTime
  BY <1>0, <1>2, <1>5, PollTypes DEF PollInv
<1>7. ASSUME NEW i \in 1 .. (n + 1), NEW j \in 1 .. (n + 1), i < j, Timed(i)', Timed(j)'
      PROVE  Apart(samples'[i].at, samples'[j].at)
  <2>1. i \in 1 .. n /\ samples'[i] = samples[i] /\ Timed(i)
    BY <1>0, <1>5, <1>7 DEF Timed
  <2>2. CASE j = n + 1
    BY <1>3, <1>4, <1>5, <1>7, <2>1, <2>2 DEF AllApart, Timed
  <2>3. CASE j # n + 1
    <3>1. j \in 1 .. n /\ samples'[j] = samples[j] /\ Timed(j)
      BY <1>0, <1>5, <1>7, <2>3 DEF Timed
    <3> QED BY <1>5, <1>7, <2>1, <3>1 DEF PollInv
  <2> QED BY <2>2, <2>3
<1>8. op'[Sampler].pc = "asleep" => AllApart(wake)'
  <2> SUFFICES ASSUME op'[Sampler].pc = "asleep", NEW i \in 1 .. (n + 1), Timed(i)'
               PROVE  Apart(samples'[i].at, wake')
    BY <1>5 DEF AllApart, Apart
  <2>1. CASE wake' = NextWake
    BY <1>6, <2>1, SleepApart
  <2>2. CASE op[Sampler].pc = "asleep" /\ wake' = wake
    <3>1. i # n + 1
      BY <1>0, <1>3, <1>5, <2>2 DEF Timed
    <3>2. i \in 1 .. n /\ samples'[i] = samples[i] /\ Timed(i)
      BY <1>0, <1>5, <3>1 DEF Timed
    <3> QED BY <1>5, <2>2, <3>2 DEF PollInv, AllApart
  <2> QED BY <2>1, <2>2 DEF SamplerMoves
<1>9. \A c \in Clients : Told(c)'
  BY ToldStep DEF PollInv
<1>10. \A q \in Procs : Dated(q)'
  BY <1>0 DEF Dated
<1> QED BY <1>0, <1>1, <1>5, <1>6, <1>7, <1>8, <1>9, <1>10 DEF PollInv, Apart

LEMMA PollStep ==
  ASSUME TypeInv, WorkersHoldLock, PollInv, [Next]_vars
  PROVE  PollInv'
<1>1. TypeInv' /\ SamplerMoves
  BY TypeStep, SamplerSteps
<1> QED BY <1>1, TimelineSteps, PollKept, PollPersisted

LEMMA PollInit == Init => PollInv
<1> SUFFICES ASSUME Init PROVE PollInv
  OBVIOUS
<1>1. samples = <<>> /\ Sampler \in Procs /\ Clients \subseteq Procs /\ \A p \in Procs : op[p].pc = "idle"
  BY IdleType DEF Init, Procs
<1> QED BY <1>1 DEF PollInv, Dated, Told, Reading, AllApart

\* Timed samples are at least an interval apart however many sessions run and
\* however often the sampler is stopped and started again (start, stop and
\* _run of GithubGraphqlDiagnosticsSampler sleep before each tick), whichever
\* calls and commits fail and whenever the process exits.
THEOREM PollsAreSpaced == Spec => []OnePollPerPeriod
<1> DEFINE I == TypeInv /\ WorkersHoldLock /\ PollInv
<1>1. Init => I
  BY SumsInitially, PollInit DEF SumsInv
<1>2. I /\ [Next]_vars => I'
  <2> SUFFICES ASSUME I, [Next]_vars PROVE I'
    OBVIOUS
  <2>1. OpTyped
    BY DEF TypeInv, TypeOK, OpTyped
  <2> QED BY <2>1, TypeStep, LockStep, PollStep
<1>3. I => OnePollPerPeriod
  <2> SUFFICES ASSUME I, NEW i \in DOMAIN samples, NEW j \in DOMAIN samples, i < j, Timed(i), Timed(j)
               PROVE  samples[j].at = MaxTime \/ samples[j].at - samples[i].at >= Period
    BY DEF OnePollPerPeriod, Timed
  <2> QED BY DEF PollInv, Apart
<1> HIDE DEF I
<1> QED BY <1>1, <1>2, <1>3, PTL DEF Spec

(***************************************************************************)
(* The sampler task.  Whoever holds the lock is about to make good what is *)
(* not so yet: a start that has stored its row and a stop that has ended   *)
(* the last one.                                                           *)
(***************************************************************************)
\* A start whose row is active and whose sampler has still to be started.
Pending(c) == op[c].pc = "persist" /\ Starting(c) /\ ~Exhausted(op[c].res)

TrackInv ==
  /\ op[Sampler].pc \in {"idle", "asleep", "fetch", "persist", "autostop"}
  /\ proc # "up" => op[Sampler].pc = "idle"
  /\ op[Sampler].pc \in {"fetch", "persist"} => Active # {}
  /\ op[Sampler].pc = "asleep" /\ Active = {} => \E c \in Clients : op[c].pc = "settle"
  /\ op[Sampler].pc = "idle" /\ proc = "up" /\ Active # {} => \E c \in Clients : Pending(c)
  /\ \A c \in Clients : Pending(c) => Active # {}

\* While one client works, nobody else owes the sampler anything.
LEMMA NobodyElse ==
  ASSUME WorkersHoldLock, NEW c \in Clients, holder \in {c, None}
  PROVE  /\ \A d \in Clients : op[d].pc = "settle" \/ Pending(d) => d = c
         /\ op[Sampler].pc \notin {"fetch", "persist", "autostop"}
<1>1. Sampler \in Procs /\ Clients \subseteq Procs /\ c # Sampler /\ None \notin Procs
  BY ProcessAssumption, NoneAssumption DEF Procs
<1> QED BY <1>1 DEF WorkersHoldLock, Working, Pending

\* A client that owes the sampler nothing goes on to where it still does not.
LEMMA TrackMoved ==
  ASSUME TrackInv, NEW c \in Clients, Elsewhere(c), sessions' = sessions, proc' = proc,
         op[c].pc # "settle", ~Pending(c), ~Pending(c)'
  PROVE  TrackInv'
<1>1. op'[Sampler] = op[Sampler] /\ \A d \in Clients : d # c => op'[d] = op[d]
  BY ProcessAssumption DEF Elsewhere, Procs
<1>2. Active' = Active
  BY DEF Active
<1>3. \A d \in Clients : /\ Pending(d)' <=> Pending(d)
                         /\ op[d].pc = "settle" => op'[d].pc = "settle"
  BY <1>1 DEF Pending, Starting
<1> QED BY <1>1, <1>2, <1>3 DEF TrackInv

\* A step that leaves the sampler with the sessions it should have, and
\* nobody who owes it anything.
LEMMA TrackSettled ==
  ASSUME op'[Sampler].pc \in {"idle", "asleep"}, proc' # "up" => op'[Sampler].pc = "idle",
         proc' = "up" => (op'[Sampler].pc = "asleep" <=> Active' # {}),
         \A d \in Clients : ~Pending(d)'
  PROVE  TrackInv'
BY DEF TrackInv

LEMMA LeavePc ==
  ASSUME OpTyped, NEW p \in Procs, NEW q \in Procs
  PROVE  /\ Leave(p) => op'[q] = IF q = p THEN (IF p = Sampler THEN Asleep ELSE Idle) ELSE op[q]
         /\ LeaveStopping(p) => op'[q] = IF q \in {p, Sampler} THEN Idle ELSE op[q]
         /\ LeaveStarting(p) /\ p # Sampler =>
              op'[q] = IF q = p THEN Idle ELSE IF q = Sampler /\ op[q].pc = "idle" THEN Asleep ELSE op[q]
<1> Sampler \in Procs
  BY DEF Procs
<1> QED BY DEF OpTyped, Leave, LeaveStarting, LeaveStopping

LEMMA TrackStarted ==
  ASSUME TableInv, TrackInv, NEW c \in Clients,
         StartStep(c) \/ \E s \in SessionIds : StopSession(c, s)
  PROVE  TrackInv'
<1> OpTyped /\ WorkersHoldLock /\ c \in Procs /\ c # Sampler
  BY ProcessAssumption DEF TableInv, TypeInv, TypeOK, OpTyped, Procs
<1>1. UNCHANGED <<sessions, proc>> /\ op[c].pc \in {"idle", "identity"}
  BY DEF StartStep, StartSession, IdentityFetched, IdentityFailed, StopSession, tables
<1>2. ~Pending(c)
  BY <1>1 DEF Pending
<1>3. ASSUME Elsewhere(c), op'[c].pc \in {"idle", "identity", "fetch", "settle"} PROVE TrackInv'
  BY <1>1, <1>2, <1>3, TrackMoved DEF Pending
<1>4. CASE Leave(c)
  BY <1>3, <1>4, LeavePc, IdleType DEF Elsewhere
<1>5. ASSUME NEW pc \in {"identity", "settle"}, Goto(c, pc) PROVE TrackInv'
  <2>1. op' = [op EXCEPT ![c] = [op[c] EXCEPT !.pc = pc]]
    BY <1>5 DEF Goto, OpTyped
  <2>2. op'[c].pc = pc /\ Elsewhere(c)
    BY <2>1 DEF OpTyped, OpState, Elsewhere
  <2> QED BY <1>3, <2>2
<1>6. CASE IdentityFetched(c) /\ ~Leave(c)
  <2>1. op' = [op EXCEPT ![c] = [op[c] EXCEPT !.pc = "fetch", !.user = account, !.at = now, !.seen = Active]]
    BY <1>6 DEF IdentityFetched, OpTyped
  <2>2. op'[c].pc = "fetch" /\ Elsewhere(c)
    BY <2>1 DEF OpTyped, OpState, Elsewhere
  <2> QED BY <1>3, <2>2
<1>7. ASSUME NEW s \in SessionIds, StopSession(c, s), Stoppable(s) PROVE TrackInv'
  <2>1. op' = [op EXCEPT ![c] = [op[c] EXCEPT !.pc = "fetch", !.sid = s, !.at = now, !.seen = Active]]
    BY <1>7 DEF StopSession, OpTyped
  <2>2. op'[c].pc = "fetch" /\ Elsewhere(c)
    BY <2>1 DEF OpTyped, OpState, Elsewhere
  <2> QED BY <1>3, <2>2
<1> QED BY <1>4, <1>5, <1>6, <1>7 DEF StartStep, StartSession, IdentityFailed, StopSession

LEMMA TrackFetched ==
  ASSUME TableInv, TrackInv, NEW p \in Procs, Unbound(p), FetchStep(p)
  PROVE  TrackInv'
<1> OpTyped /\ WorkersHoldLock
  BY DEF TableInv, TypeInv, TypeOK, OpTyped
<1>1. Elsewhere(p) /\ UNCHANGED <<sessions, proc>> /\ op[p].pc = "fetch"
  BY FetchLock DEF FetchStep, Fetched, FetchedUnusable, FetchFailed, tables
<1>2. op'[p].pc = AfterFetch(p) /\ op'[p].user = op[p].user
  <2>1. PICK res, row : op' = [op EXCEPT ![p].pc = AfterFetch(p), ![p].res = res, ![p].row = row]
    BY DEF FetchStep, Fetched, FetchedUnusable, FetchFailed, SampleTaken
  <2>2. op'[p] = [op[p] EXCEPT !.pc = AfterFetch(p), !.res = res, !.row = row]
    BY <2>1 DEF OpTyped
  <2> QED BY <2>2 DEF OpTyped, OpState
<1>3. CASE p = Sampler
  <2>1. op'[Sampler].pc = "persist" /\ Active' = Active /\ \A d \in Clients : op'[d] = op[d]
    BY <1>1, <1>2, <1>3, ProcessAssumption DEF AfterFetch, Active, Elsewhere, Procs
  <2> QED BY <1>1, <1>3, <2>1 DEF TrackInv, Pending, Starting
<1>4. CASE p # Sampler
  <2>1. p \in Clients /\ ~Pending(p)
    BY <1>1, <1>4 DEF Procs, Pending
  <2>2. ~Pending(p)'
    BY <1>1, <1>2, <1>4 DEF Pending, Starting, AfterFetch, Unbound
  <2> QED BY <1>1, <2>1, <2>2, TrackMoved
<1> QED BY <1>3, <1>4

\* How a row that is written changes who is active.
LEMMA WriteActive ==
  ASSUME TypeOK, NEW s \in SessionIds, NEW row, sessions' = [sessions EXCEPT ![s] = row]
  PROVE  Active' = IF row.status = "ACTIVE" THEN Active \cup {s} ELSE Active \ {s}
<1>1. sessions'[s] = row /\ \A t \in SessionIds : t # s => sessions'[t] = sessions[t]
  BY DEF TypeOK
<1> QED BY <1>1 DEF Active

LEMMA TrackCommitted ==
  ASSUME TableInv, TrackInv, NEW p \in Procs, p # Sampler, op[p].pc = "close" => Exhausted(op[p].res),
         CreateSession(p) \/ CloseExhausted(p) \/ EndSession(p) \/ Settle(p)
  PROVE  TrackInv'
<1> /\ OpTyped /\ TypeOK /\ WorkersHoldLock /\ HeldWhileUp /\ Phase(p) /\ p \in Clients /\ Sampler \in Procs
    /\ sessions \in [SessionIds -> SessionRow]
  BY DEF TableInv, TypeInv, TypeOK, OpTyped, Procs, Phases
<1>0. /\ holder = p /\ proc' = proc /\ proc = "up" /\ op[Sampler].pc \in {"idle", "asleep"}
      /\ \A d \in Clients : op[d].pc = "settle" \/ Pending(d) => d = p
  <2>1. holder = p /\ proc' = proc
    BY CommitLock DEF CommitStep, CreateSession, CloseExhausted, EndSession, Settle
  <2> QED BY <2>1, NobodyElse, NoneAssumption DEF HeldWhileUp, TrackInv, Procs
<1>1. CASE CreateSession(p)
  <2> DEFINE row == [Unused EXCEPT !.status = IF Exhausted(op[p].res) THEN "EXHAUSTED" ELSE "ACTIVE",
                                   !.user = op[p].user, !.startedAt = op[p].at,
                                   !.start = IF op[p].res = None THEN Unusable ELSE op[p].res]
  <2>1. PICK s \in SessionIds :
          /\ op' = [op EXCEPT ![p].sid = s, ![p].row.trigger = s, ![p].pc = AfterCreate(op[p].res)]
          /\ sessions' = [sessions EXCEPT ![s] = row] /\ s \notin Active
    BY <1>1 DEF CreateSession, Fresh, Stored, Active
  <2>2. op'[p] = [op[p] EXCEPT !.sid = s, !.row = [op[p].row EXCEPT !.trigger = s], !.pc = AfterCreate(op[p].res)]
    BY <2>1 DEF OpTyped, OpState
  <2>3. op'[p].pc = AfterCreate(op[p].res) /\ op'[p].res = op[p].res /\ op'[p].user = op[p].user
    BY <2>2 DEF OpTyped, OpState
  <2>4. Active' = IF Exhausted(op[p].res) THEN Active ELSE Active \cup {s}
    <3>1. row.status = IF Exhausted(op[p].res) THEN "EXHAUSTED" ELSE "ACTIVE"
      BY DEF Unused
    <3> HIDE DEF row
    <3> QED BY <2>1, <3>1, WriteActive
  <2>5. \A q \in Procs : q # p => op'[q] = op[q]
    BY <2>1 DEF OpTyped
  <2>6. op[p].pc = "create" /\ op[p].user # None
    BY <1>1 DEF CreateSession, Phase
  <2>7. Pending(p)' <=> ~Exhausted(op[p].res)
    BY <2>3, <2>6 DEF Pending, Starting, AfterCreate, Exhausted
  <2>8. op'[Sampler] = op[Sampler] /\ ~Pending(p) /\ \A d \in Clients : d # p => ~Pending(d)'
    BY <1>0, <2>5, <2>6, ProcessAssumption DEF Pending, Starting, Procs
  <2> QED BY <1>0, <2>4, <2>6, <2>7, <2>8 DEF TrackInv
<1>2. CASE CloseExhausted(p) \/ EndSession(p)
  <2>1. PICK pc \in {"persist", "settle"} :
           /\ Goto(p, pc) /\ op[p].pc = (IF pc = "persist" THEN "close" ELSE "end")
           /\ \E at, last, status : /\ status \in Terminal
                /\ sessions' = [sessions EXCEPT ![op[p].sid] = Ended(@, status, at, last)]
    BY <1>2 DEF CloseExhausted, EndSession, Terminal
  <2>2. op[p].sid \in SessionIds /\ (pc = "persist" => op[p].sid \notin Active)
    BY <2>1 DEF Phase, Active
  <2>3. Active' = Active \ {op[p].sid}
    <3>1. PICK at, last, status : status \in Terminal /\ sessions' = [sessions EXCEPT ![op[p].sid] = Ended(@, status, at, last)]
      BY <2>1
    <3>2. sessions[op[p].sid] \in SessionRow
      BY <2>2
    <3>3. Ended(sessions[op[p].sid], status, at, last).status = status
      BY <3>2 DEF Ended, SessionRow
    <3>4. sessions' = [sessions EXCEPT ![op[p].sid] = Ended(sessions[op[p].sid], status, at, last)]
      BY <3>1
    <3> QED BY <2>2, <3>1, <3>3, <3>4, WriteActive DEF Terminal
  <2>4. op' = [op EXCEPT ![p] = [op[p] EXCEPT !.pc = pc]]
    BY <2>1 DEF Goto, OpTyped
  <2>5. op'[p].pc = pc /\ op'[p].res = op[p].res /\ \A q \in Procs : q # p => op'[q] = op[q]
    BY <2>4 DEF OpTyped, OpState
  <2>6. op'[Sampler] = op[Sampler] /\ ~Pending(p) /\ \A d \in Clients : d # p => ~Pending(d)'
    BY <1>0, <2>1, <2>5, ProcessAssumption DEF Pending, Starting, Procs
  <2>7. CASE pc = "settle"
    <3>1. ~Pending(p)'
      BY <2>5, <2>7 DEF Pending
    <3> QED BY <1>0, <2>3, <2>5, <2>6, <2>7, <3>1 DEF TrackInv
  <2>8. CASE pc = "persist"
    <3>1. Active' = Active /\ op[p].pc = "close"
      BY <2>1, <2>2, <2>3, <2>8
    <3>2. ~Pending(p)'
      BY <2>5, <3>1 DEF Pending
    <3> QED BY <1>0, <2>5, <2>6, <2>8, <3>1, <3>2 DEF TrackInv
  <2> QED BY <2>7, <2>8
<1>3. CASE Settle(p)
  <2>1. op[p].pc = "settle" /\ Active' = Active
    BY <1>3 DEF Settle, tables, Active
  <2>2. \A d \in Clients : ~Pending(d) /\ ~Pending(d)'
    <3> TAKE d \in Clients
    <3>1. op'[d] \in {op[d], Idle} /\ ~Pending(d)
      BY <1>0, <1>3, <2>1, LeavePc DEF Settle, Pending, Procs
    <3> QED BY <3>1, IdleType DEF Pending, Starting
  <2>3. CASE Active = {}
    BY <1>0, <1>3, <2>1, <2>2, <2>3, LeavePc, IdleType, TrackSettled DEF Settle
  <2>4. CASE Active # {}
    BY <1>0, <1>3, <2>1, <2>2, <2>4, LeavePc, TrackSettled DEF Settle, TrackInv
  <2> QED BY <2>3, <2>4
<1> QED BY <1>1, <1>2, <1>3

LEMMA TrackPersisted ==
  ASSUME TableInv, TrackInv, NEW p \in Procs, PersistSample(p)
  PROVE  TrackInv'
<1> OpTyped /\ TypeOK /\ WorkersHoldLock /\ HeldWhileUp /\ Sampler \in Procs
  BY DEF TableInv, TypeInv, TypeOK, OpTyped, Procs
<1>0. op[p].pc = "persist" /\ holder = p /\ proc' = proc /\ proc = "up" /\ Active' = Active
  <2>1. op[p].pc = "persist" /\ proc' = proc /\ sessions' = sessions
    BY DEF PersistSample
  <2> QED BY <2>1, NoneAssumption DEF WorkersHoldLock, Working, HeldWhileUp, Procs, Active
<1>1. ASSUME NEW pc \in {"end", "autostop"}, Goto(p, pc) PROVE op'[p].pc = pc /\ Elsewhere(p)
  <2>1. op' = [op EXCEPT ![p] = [op[p] EXCEPT !.pc = pc]]
    BY <1>1 DEF Goto, OpTyped
  <2> QED BY <2>1 DEF OpTyped, OpState, Elsewhere
<1>2. CASE p = Sampler
  <2>1. Active # {} /\ \A d \in Clients : ~Pending(d) /\ d # Sampler
    BY <1>0, <1>2, ProcessAssumption, NoneAssumption DEF TrackInv, WorkersHoldLock, Working, Pending, Procs
  <2>2. op'[Sampler].pc \in {"autostop", "asleep"} /\ \A d \in Clients : op'[d] = op[d]
    BY <1>1, <1>2, LeavePc, IdleType, ProcessAssumption DEF PersistSample, Elsewhere, Procs, Starting
  <2> QED BY <1>0, <2>1, <2>2 DEF TrackInv, Pending, Starting
<1>3. CASE p # Sampler
  <2>1. p \in Clients /\ op[Sampler].pc \in {"idle", "asleep"} /\ \A d \in Clients : d # p => ~Pending(d) /\ op[d].pc # "settle"
    BY <1>0, <1>3, NobodyElse DEF Procs, TrackInv
  <2>2. op'[p].pc \in {"idle", "end"} /\ \A d \in Clients : d # p => op'[d] = op[d]
    BY <1>1, <1>3, <2>1, LeavePc, IdleType, ProcessAssumption DEF PersistSample, Elsewhere, Procs
  <2>3. \A d \in Clients : ~Pending(d)'
    BY <2>1, <2>2 DEF Pending, Starting
  <2>4. CASE Pending(p)
    <3>1. Active # {} /\ LeaveStarting(p)
      BY <1>0, <1>3, <2>1, <2>4 DEF TrackInv, Pending, PersistSample, Starting
    <3>2. op'[Sampler].pc = "asleep"
      BY <1>3, <2>1, <3>1, LeavePc, IdleType
    <3> QED BY <1>0, <2>3, <3>1, <3>2, TrackSettled
  <2>5. CASE ~Pending(p)
    <3>1. op'[Sampler] = op[Sampler]
      BY <1>0, <1>1, <1>3, <2>5, LeavePc DEF PersistSample, Pending, Elsewhere
    <3>2. op[Sampler].pc = "asleep" <=> Active # {}
      BY <1>0, <2>1, <2>5 DEF TrackInv
    <3> QED BY <1>0, <2>1, <2>3, <3>1, <3>2, TrackSettled
  <2> QED BY <2>4, <2>5
<1> QED BY <1>2, <1>3

LEMMA TrackTicked ==
  ASSUME TableInv, TrackInv, TickStep
  PROVE  TrackInv'
<1> OpTyped /\ TypeOK /\ WorkersHoldLock /\ HeldWhileUp /\ Sampler \in Procs /\ Sampler \notin Clients
  BY ProcessAssumption DEF TableInv, TypeInv, TypeOK, OpTyped, Procs
<1>0. holder \in {Sampler, None} /\ proc' = proc
  BY DEF TickStep, Tick, TickDone, AutoStop, WorkersHoldLock, Working
<1>1. \A d \in Clients : ~Pending(d)
  BY <1>0, NoneAssumption DEF WorkersHoldLock, Working, Pending, Procs
<1>2. proc = "up"
  BY NoneAssumption DEF TickStep, Tick, TickDone, AutoStop, TrackInv
<1>3. CASE Tick \/ TickDone
  <2>1. Active' = Active
    BY <1>3 DEF Tick, TickDone, tables, Active
  <2>2. \A d \in Clients : op'[d] = op[d]
    BY <1>3, LeavePc DEF Tick, TickDone, OpTyped, Procs
  <2>3. \A d \in Clients : ~Pending(d)'
    BY <1>1, <2>2 DEF Pending, Starting
  <2>4. CASE Active = {}
    BY <1>0, <1>2, <1>3, <2>1, <2>3, <2>4, LeavePc, IdleType, TrackSettled DEF Tick, TickDone
  <2>5. CASE Active # {} /\ TickDone
    BY <1>0, <1>2, <2>1, <2>3, <2>5, LeavePc, IdleType, TrackSettled DEF TickDone
  <2>6. CASE Active # {} /\ Tick
    <3>1. op' = [op EXCEPT ![Sampler] = [op[Sampler] EXCEPT !.pc = "fetch", !.at = now, !.seen = Active]]
      BY <2>6 DEF Tick, OpTyped
    <3>2. op'[Sampler].pc = "fetch"
      BY <3>1 DEF OpTyped, OpState
    <3> QED BY <1>0, <1>2, <2>1, <2>3, <2>6, <3>2 DEF TrackInv
  <2> QED BY <1>3, <2>4, <2>5, <2>6
<1>4. CASE \E s \in SessionIds : AutoStop(s)
  <2>1. op' = op /\ op[Sampler].pc = "autostop"
    BY <1>4 DEF AutoStop, memory
  <2>2. \A d \in Clients : ~Pending(d)'
    BY <1>1, <2>1 DEF Pending, Starting
  <2> QED BY <1>0, <1>2, <2>1, <2>2 DEF TrackInv
<1> QED BY <1>3, <1>4 DEF TickStep

LEMMA TrackStep ==
  ASSUME CommitsSucceed, TableInv, MeasureInv, TrackInv, [Next]_vars
  PROVE  TrackInv'
<1>0. Sampler \in Procs /\ Clients \subseteq Procs /\ (\A p \in Procs : Unbound(p)) /\ OpTyped /\ WorkersHoldLock /\ HeldWhileUp
  BY DEF Procs, MeasureInv, Handed, TableInv, TypeInv, TypeOK, OpTyped
<1>1. ASSUME proc # "up", NEW c \in Clients PROVE ~Pending(c)
  BY <1>0, <1>1, NoneAssumption DEF Pending, WorkersHoldLock, Working, HeldWhileUp, Procs
<1>2. CASE ProcessExit
  <2>1. proc' = "down" /\ \A p \in Procs : op'[p] = Idle
    BY <1>2 DEF ProcessExit
  <2> QED BY <1>0, <2>1, IdleType, TrackSettled DEF Pending
<1>3. CASE Boot \/ BootDone \/ World \/ UNCHANGED vars
  <2>1. /\ UNCHANGED <<sessions, op>>
        /\ proc' = proc \/ (proc # "up" /\ (proc' = "up" => Active = {}))
    BY <1>3 DEF Boot, BootDone, World, ClockTick, Consume, WindowReset, SwitchAccount, memory, tables, vars
  <2>2. Active' = Active /\ \A c \in Clients : Pending(c)' <=> Pending(c)
    BY <2>1 DEF Active, Pending, Starting
  <2> QED BY <1>1, <2>1, <2>2 DEF TrackInv
<1>4. ASSUME NEW s \in SessionIds, ReconcileSession(s) PROVE TrackInv'
  <2>1. proc' = proc /\ proc = "booting" /\ op' = op
    BY <1>4 DEF ReconcileSession, memory
  <2>2. \A d \in Clients : ~Pending(d)'
    BY <1>1, <2>1 DEF Pending, Starting
  <2> QED BY <2>1, <2>2, TrackSettled DEF TrackInv
<1>5. \A p \in Procs : ~CommitFails(p) /\ (op[p].pc = "close" => Exhausted(op[p].res))
  BY DEF CommitFails, Fault, CommitsSucceed, MeasureInv, Handed
<1> QED BY <1>0, <1>2, <1>3, <1>4, <1>5, TrackStarted, TrackFetched, TrackCommitted, TrackPersisted, TrackTicked
       DEF Next, CommitStep, Reconcile

LEMMA TrackInit == Init => TrackInv
<1> SUFFICES ASSUME Init PROVE TrackInv
  OBVIOUS
<1>1. Active = {} /\ Sampler \in Procs /\ Clients \subseteq Procs /\ \A p \in Procs : op[p].pc = "idle"
  BY IdleType DEF Init, Active, Unused, Procs
<1> QED BY <1>1 DEF TrackInv, Pending

\* The sampler task exists exactly while a session is active, whichever gh
\* calls fail and whenever the process exits, as long as commits go through:
\* start_session starts the sampler only after its last commit.
THEOREM SamplerIsThereWhenNeeded ==
  ASSUME CommitsSucceed
  PROVE  Spec => []SamplerTracksActive
<1> DEFINE I == TableInv /\ MeasureInv /\ TrackInv
<1>1. Init => I
  BY TableInit, MeasureInit, TrackInit
<1>2. I /\ [Next]_vars => I'
  BY TableInvStep, MeasureStep, TrackStep
<1>3. I => SamplerTracksActive
  <2> SUFFICES ASSUME I, proc = "up", holder = None PROVE Active # {} <=> op[Sampler].pc # "idle"
    BY DEF SamplerTracksActive
  <2>1. \A p \in Procs : ~Working(p)
    BY NoneAssumption DEF TableInv, WorkersHoldLock, Procs
  <2> QED BY <2>1 DEF TrackInv, Working, Pending, Procs
<1> HIDE DEF I
<1> QED BY <1>1, <1>2, <1>3, PTL DEF Spec

(***************************************************************************)
(* Rows and timeline.  Commits go through and the process stays up: then   *)
(* every operation ends the way it has begun.  The timeline is in the      *)
(* order of the clock, an operation knows the sessions around the instant  *)
(* it has read, and no later one changes who was there.                    *)
(***************************************************************************)
NoExit == "exit" \notin Faults

ClockInv ==
  /\ \A i, j \in DOMAIN samples : i <= j => samples[i].at <= samples[j].at
  /\ \A i \in DOMAIN samples : samples[i].at <= now
  /\ \A p \in Procs : Dated(p) /\ (Reading(p) => \A i \in DOMAIN samples : samples[i].at <= op[p].at)

RowsDated ==
  \A s \in Stored : /\ sessions[s].startedAt \in Time /\ sessions[s].startedAt <= now
                    /\ sessions[s].endedAt # None => sessions[s].endedAt \in Time /\ sessions[s].endedAt <= now

\* One of the first n samples names the session s.
Named(s, n) == \E f \in 1 .. n : samples[f].trigger = s

\* A closed session without an end is about to get one, one without a sample
\* is about to store it, and one that a measurement closed has that sample.
Closing(c, s) == op[c].pc = "close" /\ op[c].sid = s
Ends(k, s) ==
  /\ k \in DOMAIN samples /\ Named(s, k - 1)
  /\ samples[k].at = sessions[s].endedAt /\ samples[k].used = sessions[s].usedEnd
  /\ samples[k].trigger = IF sessions[s].status = "STOPPED" THEN s ELSE None
EndInv    == \A s \in Stored \ Active : sessions[s].endedAt = None => \E c \in Clients : Closing(c, s)
BeginInv  == \A s \in Stored : Named(s, Len(samples)) \/ \E c \in Clients : Starts(c, s)
FinishInv == \A s \in SessionIds :
               sessions[s].status \in {"STOPPED", "AUTO_STOPPED"} => \E k \in DOMAIN samples : Ends(k, s)

\* The sessions of S are there at the instant t, and no other one is there
\* both before and after it.
Around(t, S) ==
  /\ \A s \in S : /\ s \in Stored /\ sessions[s].startedAt <= t
                  /\ sessions[s].endedAt = None \/ t <= sessions[s].endedAt
  /\ \A s \in Stored \ S : \/ t <= sessions[s].startedAt
                           \/ sessions[s].endedAt # None /\ sessions[s].endedAt <= t

Counted(attr, S) ==
  /\ attr = "UNATTRIBUTED" => Cardinality(S) = 0
  /\ attr = "SINGLE_ACTIVITY_CORRELATION" => Cardinality(S) = 1
  /\ attr = "OVERLAPPING_ACTIVITIES" => Cardinality(S) >= 2

Sees(p) ==
  /\ Reading(p) => Around(op[p].at, op[p].seen) /\ \A s \in op[p].seen : Named(s, Len(samples))
  /\ Carrying(p) => Counted(op[p].row.attr, op[p].seen)

Seen(i) == \E S \in SUBSET SessionIds :
  Around(samples[i].at, S) /\ Counted(samples[i].attr, S) /\ \A s \in S : Named(s, i - 1)

MatchInv ==
  /\ proc = "up" /\ ClockInv /\ RowsDated /\ EndInv /\ BeginInv /\ FinishInv
  /\ \A p \in Procs : Sees(p)
  /\ \A i \in DOMAIN samples : Seen(i)

(***************************************************************************)
(* The steps: a session row is entered, or gets its end.                   *)
(***************************************************************************)
RowWritten(s) == \A t \in SessionIds \ {s} : sessions'[t] = sessions[t]

SameSight(p) ==
  op'[p].sid = op[p].sid /\ op'[p].user = op[p].user /\ op'[p].at = op[p].at /\ op'[p].seen = op[p].seen

Enters(p, s) ==
  /\ op[p].pc = "create" /\ s \in SessionIds \ Stored /\ RowWritten(s) /\ samples' = samples
  /\ sessions'[s].status \in {"ACTIVE", "EXHAUSTED"}
  /\ sessions'[s].startedAt = op[p].at /\ sessions'[s].endedAt = None
  /\ op'[p].pc = IF sessions'[s].status = "EXHAUSTED" THEN "close" ELSE "persist"
  /\ op'[p].sid = s /\ op'[p].user = op[p].user /\ op[p].user # None
  /\ op'[p].at = op[p].at /\ op'[p].seen = op[p].seen /\ op'[p].row.attr = op[p].row.attr
  /\ p \in Clients /\ Elsewhere(p)

Finishes(p, s) ==
  /\ s \in Stored /\ sessions[s].status \in {"ACTIVE", "EXHAUSTED"} /\ RowWritten(s) /\ samples' = samples
  /\ sessions'[s].startedAt = sessions[s].startedAt /\ sessions'[s].endedAt = op[p].at
  /\ sessions'[s].usedEnd = Result(p).used
  /\ \/ /\ p \in Clients /\ op[p].pc = "close" /\ op'[p].pc = "persist" /\ s = op[p].sid /\ SameSight(p)
        /\ op'[p].row = op[p].row /\ sessions'[s].status = "EXHAUSTED"
     \/ /\ p \in Clients /\ op[p].pc = "end" /\ op'[p].pc = "settle" /\ s = op[p].sid
        /\ sessions'[s].status = "STOPPED"
     \/ /\ p = Sampler /\ op[p].pc = "autostop" /\ op'[p] = op[p]
        /\ s \in Active /\ sessions'[s].status \in {"AUTO_STOPPED", "EXHAUSTED"}
  /\ Elsewhere(p)

LEMMA EndedRow ==
  ASSUME NEW row \in SessionRow, NEW status, NEW at, NEW last
  PROVE  /\ Ended(row, status, at, last).status = status /\ Ended(row, status, at, last).startedAt = row.startedAt
         /\ Ended(row, status, at, last).endedAt = at
         /\ Ended(row, status, at, last).usedEnd = IF last = None THEN None ELSE last.used
<1> DEFINE e == IF last = None THEN None ELSE last.used
           t == IF last = None THEN None ELSE SessionTotal(row.start, last)
<1>1. Ended(row, status, at, last) = [row EXCEPT !.status = status, !.endedAt = at, !.usedEnd = e, !.total = t]
  BY DEF Ended
<1> HIDE DEF t
<1> QED BY <1>1 DEF SessionRow

LEMMA CreateEnters ==
  ASSUME TableInv, NEW p \in Procs, p # Sampler, CreateSession(p)
  PROVE  \E s \in SessionIds : Enters(p, s)
<1> OpTyped /\ TypeOK /\ p \in Clients /\ Phase(p)
  BY DEF TableInv, TypeInv, TypeOK, OpTyped, Procs, Phases
<1> DEFINE row == [Unused EXCEPT !.status = IF Exhausted(op[p].res) THEN "EXHAUSTED" ELSE "ACTIVE",
                                 !.user = op[p].user, !.startedAt = op[p].at,
                                 !.start = IF op[p].res = None THEN Unusable ELSE op[p].res]
<1>1. PICK s \in SessionIds :
        /\ op' = [op EXCEPT ![p].sid = s, ![p].row.trigger = s, ![p].pc = AfterCreate(op[p].res)]
        /\ sessions' = [sessions EXCEPT ![s] = row] /\ s \notin Stored
  BY DEF CreateSession, Fresh
<1>2. op[p].pc = "create" /\ samples' = samples /\ op[p] \in OpState /\ op[p].row \in SampleRow
  BY DEF CreateSession, TableInv, TypeInv, Ready, OpTyped
<1>3. /\ row.status = IF Exhausted(op[p].res) THEN "EXHAUSTED" ELSE "ACTIVE"
      /\ row.startedAt = op[p].at /\ row.endedAt = None
  BY DEF Unused
<1> HIDE DEF row
<1>4. sessions'[s] = row /\ RowWritten(s)
  BY <1>1 DEF RowWritten, TypeOK
<1>5. op'[p] = [op[p] EXCEPT !.sid = s, !.row = [op[p].row EXCEPT !.trigger = s], !.pc = AfterCreate(op[p].res)]
  BY <1>1, <1>2 DEF OpTyped, OpState
<1>6. /\ op'[p].pc = AfterCreate(op[p].res) /\ op'[p].sid = s /\ op'[p].user = op[p].user
      /\ op'[p].at = op[p].at /\ op'[p].seen = op[p].seen /\ op'[p].row = [op[p].row EXCEPT !.trigger = s]
  BY <1>2, <1>5 DEF OpState
<1>7. op'[p].row.attr = op[p].row.attr
  BY <1>2, <1>6 DEF SampleRow
<1>8. op[p].user # None
  BY <1>2 DEF Phase
<1>9. Elsewhere(p)
  BY <1>1 DEF Elsewhere, OpTyped
<1> QED BY <1>1, <1>2, <1>3, <1>4, <1>6, <1>7, <1>8, <1>9 DEF Enters, AfterCreate

LEMMA EndFinishes ==
  ASSUME TableInv, NEW p \in Procs, p # Sampler, CloseExhausted(p) \/ EndSession(p)
  PROVE  \E s \in SessionIds : Finishes(p, s)
<1> OpTyped /\ TypeOK /\ p \in Clients /\ Phase(p)
  BY DEF TableInv, TypeInv, TypeOK, OpTyped, Procs, Phases
<1>1. PICK pc \in {"persist", "settle"}, status \in {"EXHAUSTED", "STOPPED"}, s \in SessionIds :
        /\ s = op[p].sid /\ s \in Stored /\ sessions[s].status \in {"ACTIVE", "EXHAUSTED"} /\ Goto(p, pc)
        /\ sessions' = [sessions EXCEPT ![s] = Ended(@, status, op[p].at, op[p].res)] /\ samples' = samples
        /\ \/ op[p].pc = "close" /\ pc = "persist" /\ status = "EXHAUSTED"
           \/ op[p].pc = "end" /\ pc = "settle" /\ status = "STOPPED"
  BY DEF CloseExhausted, EndSession, Phase, Active, Stored
<1>2. op' = [op EXCEPT ![p] = [op[p] EXCEPT !.pc = pc]]
  BY <1>1 DEF Goto, OpTyped
<1>3. op'[p].pc = pc /\ SameSight(p) /\ op'[p].row = op[p].row /\ Elsewhere(p)
  BY <1>2 DEF OpTyped, OpState, SameSight, Elsewhere
<1>4. sessions[s] \in SessionRow
  BY DEF TypeOK
<1>5. sessions'[s] = Ended(sessions[s], status, op[p].at, op[p].res) /\ RowWritten(s)
  BY <1>1 DEF RowWritten, TypeOK
<1>6. /\ sessions'[s].status = status /\ sessions'[s].startedAt = sessions[s].startedAt
      /\ sessions'[s].endedAt = op[p].at /\ sessions'[s].usedEnd = Result(p).used
  BY <1>4, <1>5, EndedRow DEF Result, Unusable
<1> QED BY <1>1, <1>3, <1>5, <1>6 DEF Finishes

LEMMA AutoStopFinishes ==
  ASSUME TableInv, NEW s \in SessionIds, AutoStop(s)
  PROVE  Finishes(Sampler, s)
<1> TypeOK
  BY DEF TableInv, TypeInv
<1>1. /\ op[Sampler].pc = "autostop" /\ samples' = samples /\ op' = op
      /\ s \in Active /\ s \in Stored /\ sessions[s].status = "ACTIVE"
  BY DEF AutoStop, memory, Due, Active, Stored
<1>2. PICK status \in {"AUTO_STOPPED", "EXHAUSTED"} :
        sessions' = [sessions EXCEPT ![s] = Ended(@, status, op[Sampler].at, op[Sampler].res)]
  BY DEF AutoStop
<1>3. sessions[s] \in SessionRow
  BY DEF TypeOK
<1>4. sessions'[s] = Ended(sessions[s], status, op[Sampler].at, op[Sampler].res) /\ RowWritten(s)
  BY <1>2 DEF RowWritten, TypeOK
<1>5. /\ sessions'[s].status = status /\ sessions'[s].startedAt = sessions[s].startedAt
      /\ sessions'[s].endedAt = op[Sampler].at /\ sessions'[s].usedEnd = Result(Sampler).used
  BY <1>3, <1>4, EndedRow DEF Result, Unusable
<1> QED BY <1>1, <1>4, <1>5 DEF Finishes, Elsewhere

LEMMA StaysUp ==
  ASSUME NoExit, proc = "up", [Next]_vars
  PROVE  proc' = "up"
<1>1. ~ProcessExit /\ ~Boot /\ ~Reconcile
  BY DEF ProcessExit, Fault, NoExit, Boot, Reconcile, BootDone, ReconcileSession
<1>2. ASSUME NEW c \in Clients, StartStep(c) \/ \E s \in SessionIds : StopSession(c, s) PROVE proc' = "up"
  BY <1>2 DEF StartStep, StartSession, IdentityFetched, IdentityFailed, StopSession
<1>3. ASSUME NEW p \in Procs, FetchStep(p) \/ CommitStep(p) \/ CommitFails(p) PROVE proc' = "up"
  BY <1>3 DEF FetchStep, Fetched, FetchedUnusable, FetchFailed, CommitStep, CommitFails, CreateSession, CloseExhausted,
     EndSession, Settle, PersistSample
<1>4. TickStep \/ World \/ UNCHANGED vars => proc' = "up"
  BY DEF TickStep, Tick, TickDone, AutoStop, World, ClockTick, Consume, WindowReset, SwitchAccount, vars
<1> QED BY <1>1, <1>2, <1>3, <1>4 DEF Next

\* An operation that begins a fetch has just read the clock and the sessions.
Looks(p) ==
  op'[p].pc = "fetch" =>
    \/ op'[p] = op[p]
    \/ /\ op[p].pc \in {"idle", "identity", "asleep"} /\ holder \in {p, None} /\ now' = now
       /\ op'[p].at = now /\ op'[p].seen = Active

StillUp ==
  /\ samples' = samples /\ sessions' = sessions
  /\ \A p \in Procs : Looks(p) /\ (op'[p] = op[p] \/ (~Carrying(p) /\ ~Carrying(p)'))

LEMMA LooksIfGone ==
  ASSUME OpTyped, NEW p \in Procs, NEW pc, Goto(p, pc), pc # "fetch", NEW q \in Procs
  PROVE  Looks(q)
<1>1. op' = [op EXCEPT ![p] = [op[p] EXCEPT !.pc = pc]]
  BY DEF Goto, OpTyped
<1>2. op'[p].pc = pc /\ (q # p => op'[q] = op[q])
  BY <1>1 DEF OpTyped, OpState
<1> QED BY <1>2 DEF Looks

LEMMA LooksIfLeft ==
  ASSUME OpTyped, NEW p \in Procs, Leave(p) \/ LeaveStarting(p) \/ LeaveStopping(p), NEW q \in Procs
  PROVE  Looks(q)
<1>1. op'[q] \in {op[q], Idle, Asleep}
  BY DEF OpTyped, Leave, LeaveStarting, LeaveStopping
<1> QED BY <1>1, IdleType DEF Looks

LEMMA LooksStep ==
  ASSUME TableInv, MeasureInv, [Next]_vars, NEW q \in Procs
  PROVE  Looks(q)
<1> OpTyped /\ WorkersHoldLock /\ Sampler \in Procs /\ Clients \subseteq Procs
  BY DEF TableInv, TypeInv, TypeOK, OpTyped, Procs
<1>1. ASSUME NEW c \in Clients, StartStep(c) PROVE Looks(q)
  <2>1. CASE StartSession(c)
    BY <2>1, LooksIfGone DEF StartSession
  <2>2. CASE Leave(c)
    BY <2>2, LooksIfLeft
  <2>3. CASE IdentityFetched(c) /\ ~Leave(c)
    <3>1. op' = [op EXCEPT ![c] = [op[c] EXCEPT !.pc = "fetch", !.user = account, !.at = now, !.seen = Active]]
      BY <2>3 DEF IdentityFetched, OpTyped
    <3>2. op'[c].at = now /\ op'[c].seen = Active /\ (q # c => op'[q] = op[q])
      BY <3>1 DEF OpTyped, OpState
    <3>3. op[c].pc = "identity" /\ holder = c /\ now' = now
      BY <2>3 DEF IdentityFetched, external, WorkersHoldLock, Working
    <3> QED BY <3>2, <3>3 DEF Looks
  <2> QED BY <1>1, <2>1, <2>2, <2>3 DEF StartStep, IdentityFailed
<1>2. ASSUME NEW c \in Clients, NEW s \in SessionIds, StopSession(c, s) PROVE Looks(q)
  <2>1. CASE Stoppable(s)
    <3>1. op' = [op EXCEPT ![c] = [op[c] EXCEPT !.pc = "fetch", !.sid = s, !.at = now, !.seen = Active]]
      BY <1>2, <2>1 DEF StopSession, OpTyped
    <3>2. op'[c].at = now /\ op'[c].seen = Active /\ (q # c => op'[q] = op[q])
      BY <3>1 DEF OpTyped, OpState
    <3>3. op[c].pc = "idle" /\ holder = None /\ now' = now
      BY <1>2 DEF StopSession, Acquire, external
    <3> QED BY <3>2, <3>3 DEF Looks
  <2>2. CASE ~Stoppable(s)
    BY <1>2, <2>2, LooksIfGone DEF StopSession
  <2> QED BY <2>1, <2>2
<1>3. ASSUME NEW p \in Procs, FetchStep(p) PROVE Looks(q)
  <2>1. PICK res, row : op' = [op EXCEPT ![p].pc = AfterFetch(p), ![p].res = res, ![p].row = row]
    BY <1>3 DEF FetchStep, Fetched, FetchedUnusable, FetchFailed, SampleTaken
  <2>2. op' = [op EXCEPT ![p] = [op[p] EXCEPT !.pc = AfterFetch(p), !.res = res, !.row = row]]
    BY <2>1 DEF OpTyped
  <2>3. op'[p].pc = AfterFetch(p) /\ (q # p => op'[q] = op[q])
    BY <2>2 DEF OpTyped, OpState
  <2> QED BY <2>3 DEF Looks, AfterFetch
<1>4. ASSUME NEW p \in Procs, CommitStep(p) \/ CommitFails(p) PROVE Looks(q)
  <2>1. CASE p # Sampler /\ CreateSession(p)
    <3>1. PICK s \in SessionIds : Enters(p, s)
      BY <2>1, CreateEnters
    <3> QED BY <3>1 DEF Enters, Elsewhere, Looks
  <2>2. CASE Leave(p) \/ LeaveStarting(p) \/ LeaveStopping(p)
    BY <2>2, LooksIfLeft
  <2>3. ASSUME NEW pc \in {"end", "autostop", "persist", "settle"}, Goto(p, pc) PROVE Looks(q)
    BY <2>3, LooksIfGone
  <2> QED BY <1>4, <2>1, <2>2, <2>3
          DEF CommitStep, CommitFails, CloseExhausted, EndSession, Settle, PersistSample
<1>5. CASE TickStep
  <2>1. CASE Tick /\ ~LeaveStopping(Sampler)
    <3>1. op' = [op EXCEPT ![Sampler] = [op[Sampler] EXCEPT !.pc = "fetch", !.at = now, !.seen = Active]]
      BY <2>1 DEF Tick, OpTyped
    <3>2. op'[Sampler].at = now /\ op'[Sampler].seen = Active /\ (q # Sampler => op'[q] = op[q])
      BY <3>1 DEF OpTyped, OpState
    <3>3. op[Sampler].pc = "asleep" /\ holder = None /\ now' = now
      BY <2>1 DEF Tick, external
    <3> QED BY <3>2, <3>3 DEF Looks
  <2>2. CASE Leave(Sampler) \/ LeaveStopping(Sampler)
    BY <2>2, LooksIfLeft
  <2>3. CASE \E s \in SessionIds : AutoStop(s)
    BY <2>3 DEF AutoStop, memory, Looks
  <2> QED BY <1>5, <2>1, <2>2, <2>3 DEF TickStep, Tick, TickDone
<1>6. CASE ProcessExit
  BY <1>6, IdleType DEF ProcessExit, Looks
<1>7. CASE Boot \/ Reconcile \/ World \/ UNCHANGED vars
  BY <1>7 DEF Boot, Reconcile, BootDone, ReconcileSession, World, ClockTick, Consume, WindowReset, SwitchAccount,
     memory, vars, Looks
<1> QED BY <1>1, <1>2, <1>3, <1>4, <1>5, <1>6, <1>7 DEF Next

LEMMA MatchSteps ==
  ASSUME NoExit, CommitsSucceed, TableInv, MeasureInv, proc = "up", [Next]_vars
  PROVE  \/ StillUp
         \/ \E p \in Procs : FetchStep(p) \/ (PersistSample(p) /\ Persisted(p))
         \/ \E p \in Procs, s \in SessionIds : Enters(p, s) \/ Finishes(p, s)
<1>1. CASE Still
  <2>1. samples' = samples /\ sessions' = sessions /\ \A p \in Procs : Calm(p)
    BY <1>1, StaysUp DEF Still
  <2> QED BY <2>1, LooksStep DEF StillUp, Calm, Carrying
<1>2. ASSUME NEW p \in Procs, PersistSample(p) PROVE Persisted(p)
  <2>1. Quiet \/ Persisted(p)
    BY <1>2, TimelineCommit DEF TableInv, CommitStep
  <2>2. samples' # samples
    BY <1>2 DEF PersistSample, TableInv, TypeInv, TypeOK
  <2> QED BY <2>1, <2>2 DEF Quiet
<1>3. \A s \in SessionIds : ~ReconcileSession(s)
  BY DEF ReconcileSession
<1> QED BY <1>1, <1>2, <1>3, StillSteps, CreateEnters, EndFinishes, AutoStopFinishes DEF Procs

(***************************************************************************)
(* The clock.                                                              *)
(***************************************************************************)
LEMMA NowStep ==
  ASSUME TypeInv, WorkersHoldLock, [Next]_vars
  PROVE  now <= now'
<1>1. now \in Nat
  BY BoundTypes DEF TypeInv, TypeOK, Time
<1> QED BY <1>1, TimelineSteps DEF Quiet, Later, Taken, Persisted

\* Whoever writes does so at an instant that no sample is later than.
LEMMA WriterIsLast ==
  ASSUME TypeInv, ClockInv, NEW p \in Procs, Handed(p),
         op[p].pc \in {"create", "close", "persist", "end", "autostop"}
  PROVE  op[p].at \in Time /\ op[p].at <= now /\ \A i \in DOMAIN samples : samples[i].at <= op[p].at
<1>1. CASE Reading(p)
  BY <1>1 DEF ClockInv, Dated
<1>2. CASE ~Reading(p)
  <2>1. samples # <<>> /\ samples[Len(samples)].at = op[p].at
    BY <1>2 DEF Handed, Knowing, Reading
  <2>2. Len(samples) \in DOMAIN samples /\ \A i \in DOMAIN samples : i <= Len(samples)
    BY <2>1 DEF TypeInv, TypeOK
  <2>3. samples[Len(samples)].at \in Time
    BY <2>2, PollTypes DEF Time
  <2> QED BY <2>1, <2>2, <2>3 DEF ClockInv
<1> QED BY <1>1, <1>2

LEMMA ClockQuiet ==
  ASSUME TypeInv, TypeInv', ClockInv, Quiet \/ \E p \in Procs : Taken(p)
  PROVE  ClockInv'
<1>1. samples' = samples
  BY DEF Quiet, Taken
<1>2. now \in 0 .. MaxTime /\ now' \in 0 .. MaxTime /\ MaxTime \in Nat /\ now <= now'
  <2>1. now' \in Time
    BY DEF TypeInv, TypeOK
  <2> QED BY <2>1, PollTypes DEF Quiet, Taken, Later, Time
<1>3. \A i \in DOMAIN samples : samples[i].at \in 0 .. MaxTime /\ samples[i].at <= now
  BY PollTypes DEF ClockInv
<1>4. \A i \in DOMAIN samples : samples[i].at <= now'
  BY <1>2, <1>3
<1>5. \A q \in Procs : Dated(q)'
  BY DatedStep DEF ClockInv
<1>6. ASSUME NEW q \in Procs, Reading(q)', NEW i \in DOMAIN samples PROVE samples[i].at <= op'[q].at
  <2>1. CASE Quiet
    <3>1. Kept(q)
      BY <2>1 DEF Quiet
    <3>2. op'[q].at = now \/ (Reading(q) /\ op'[q].at = op[q].at)
      BY <1>6, <3>1 DEF Kept, Reading, Carrying
    <3> QED BY <1>3, <3>2 DEF ClockInv
  <2>2. ASSUME NEW p \in Procs, Taken(p) PROVE samples[i].at <= op'[q].at
    <3>1. q = p /\ op[p].pc = "fetch" /\ op'[p].at = op[p].at
      BY <1>6, <2>2 DEF Taken
    <3> QED BY <3>1 DEF ClockInv, Reading
  <2> QED BY <2>1, <2>2
<1> QED BY <1>1, <1>4, <1>5, <1>6 DEF ClockInv

LEMMA ClockPersisted ==
  ASSUME TypeInv, TypeInv', ClockInv, NEW p \in Procs, Persisted(p)
  PROVE  ClockInv'
<1> DEFINE n == Len(samples)
           row == op[p].row
<1>0. /\ op[p].pc = "persist" /\ now' = now /\ samples' = Append(samples, row) /\ \A q \in Procs : ~Reading(q)'
      /\ n \in Nat /\ samples \in Seq(SampleRow) /\ row \in SampleRow
  BY PollTypes DEF Persisted, TypeInv, Ready
<1>1. Dated(p) /\ \A i \in DOMAIN samples : samples[i].at <= op[p].at
  BY <1>0 DEF ClockInv, Reading
<1>2. row.at <= now /\ row.at \in 0 .. MaxTime /\ \A i \in DOMAIN samples : samples[i].at <= row.at
  BY <1>0, <1>1 DEF Dated, Time, Reading, Carrying
<1> HIDE DEF row
<1>3. /\ DOMAIN samples = 1 .. n /\ DOMAIN samples' = 1 .. (n + 1)
      /\ samples'[n + 1] = row /\ \A i \in 1 .. n : samples'[i] = samples[i]
  BY <1>0
<1> HIDE DEF n
<1>4. \A i \in 1 .. (n + 1) : samples'[i].at <= now
  BY <1>0, <1>2, <1>3 DEF ClockInv
<1>5. ASSUME NEW i \in 1 .. (n + 1), NEW j \in 1 .. (n + 1), i <= j PROVE samples'[i].at <= samples'[j].at
  <2>1. CASE j = n + 1 /\ i = n + 1
    BY <1>2, <1>3, <2>1, BoundTypes
  <2>2. CASE j = n + 1 /\ i # n + 1
    BY <1>0, <1>2, <1>3, <2>2
  <2>3. CASE j # n + 1
    <3>1. i \in 1 .. n /\ j \in 1 .. n
      BY <1>0, <1>5, <2>3
    <3> QED BY <1>3, <1>5, <3>1 DEF ClockInv
  <2> QED BY <2>1, <2>2, <2>3
<1>6. \A q \in Procs : Dated(q)'
  BY <1>0 DEF Dated
<1> QED BY <1>0, <1>3, <1>4, <1>5, <1>6 DEF ClockInv

LEMMA ClockStep ==
  ASSUME TypeInv, WorkersHoldLock, ClockInv, [Next]_vars
  PROVE  ClockInv'
BY TypeStep, TimelineSteps, ClockQuiet, ClockPersisted

(***************************************************************************)
(* The rows.                                                               *)
(***************************************************************************)
\* What a step makes of the table.
LEMMA RowSets ==
  ASSUME TRUE
  PROVE  /\ sessions' = sessions => Stored' = Stored /\ Active' = Active
         /\ \A p \in Procs, s \in SessionIds : Enters(p, s) \/ Finishes(p, s) =>
              /\ Stored' = Stored \cup {s}
              /\ \A t \in SessionIds \ {s} : (t \in Active' <=> t \in Active) /\ sessions'[t] = sessions[t]
              /\ s \in Active' <=> sessions'[s].status = "ACTIVE"
<1>1. sessions' = sessions => Stored' = Stored /\ Active' = Active
  BY DEF Stored, Active
<1>2. ASSUME NEW p \in Procs, NEW s \in SessionIds, Enters(p, s) \/ Finishes(p, s)
      PROVE  /\ Stored' = Stored \cup {s}
             /\ \A t \in SessionIds \ {s} : (t \in Active' <=> t \in Active) /\ sessions'[t] = sessions[t]
             /\ s \in Active' <=> sessions'[s].status = "ACTIVE"
  <2>1. (\A t \in SessionIds \ {s} : sessions'[t] = sessions[t]) /\ sessions'[s].status # "unused"
    BY <1>2 DEF Enters, Finishes, RowWritten
  <2> QED BY <2>1 DEF Stored, Active
<1> QED BY <1>1, <1>2

LEMMA OneWorks ==
  ASSUME WorkersHoldLock, NEW p \in Procs, NEW q \in Procs, Working(p), Working(q)
  PROVE  p = q
BY DEF WorkersHoldLock

LEMMA RowsDatedStep ==
  ASSUME NoExit, CommitsSucceed, TableInv, MeasureInv, MatchInv, [Next]_vars
  PROVE  RowsDated'
<1>0. /\ now \in Nat /\ now' \in Nat /\ now <= now' /\ \A t \in Time : t \in Nat
      /\ TypeInv /\ WorkersHoldLock
  <2>1. TypeInv /\ TypeInv' /\ WorkersHoldLock
    BY TypeStep DEF TableInv
  <2>2. now \in Time /\ now' \in Time
    BY <2>1 DEF TypeInv, TypeOK
  <2> QED BY <2>1, <2>2, NowStep, BoundTypes DEF Time
<1>1. ASSUME NEW t \in Time, t <= now PROVE t <= now'
  BY <1>0, <1>1
<1>2. ASSUME sessions' = sessions PROVE RowsDated'
  BY <1>1, <1>2, RowSets DEF RowsDated, MatchInv
<1>3. ASSUME NEW p \in Procs, NEW s \in SessionIds, Enters(p, s) \/ Finishes(p, s) PROVE RowsDated'
  <2>1. op[p].at \in Time /\ op[p].at <= now
    <3>1. op[p].pc \in {"create", "close", "persist", "end", "autostop"} /\ Handed(p) /\ ClockInv
      BY <1>3 DEF Enters, Finishes, MeasureInv, MatchInv
    <3> QED BY <1>0, <3>1, WriterIsLast
  <2>2. op[p].at <= now'
    BY <1>1, <2>1
  <2>3. /\ sessions'[s].startedAt = op[p].at \/ (s \in Stored /\ sessions'[s].startedAt = sessions[s].startedAt)
        /\ sessions'[s].endedAt \in {None, op[p].at}
    BY <1>3 DEF Enters, Finishes
  <2>4. /\ sessions'[s].startedAt \in Time /\ sessions'[s].startedAt <= now'
        /\ sessions'[s].endedAt # None => sessions'[s].endedAt \in Time /\ sessions'[s].endedAt <= now'
    BY <1>1, <2>1, <2>2, <2>3 DEF RowsDated, MatchInv
  <2>5. ASSUME NEW t \in Stored, t # s
        PROVE /\ sessions'[t].startedAt \in Time /\ sessions'[t].startedAt <= now'
              /\ sessions'[t].endedAt # None => sessions'[t].endedAt \in Time /\ sessions'[t].endedAt <= now'
    <3>1. sessions'[t] = sessions[t]
      BY <1>3, <2>5, RowSets DEF Stored
    <3> QED BY <1>1, <2>5, <3>1 DEF RowsDated, MatchInv
  <2>6. Stored' = Stored \cup {s}
    BY <1>3, RowSets
  <2> QED BY <2>4, <2>5, <2>6 DEF RowsDated
<1> QED BY <1>2, <1>3, MatchSteps
        DEF StillUp, FetchStep, Fetched, FetchedUnusable, FetchFailed, PersistSample, tables, MatchInv

LEMMA EndStep ==
  ASSUME NoExit, CommitsSucceed, TableInv, MeasureInv, MatchInv, [Next]_vars
  PROVE  EndInv'
<1>0. TypeInv /\ WorkersHoldLock /\ EndInv /\ Clients \subseteq Procs
  BY DEF TableInv, MatchInv, Procs
<1>1. CASE StillUp
  <2>1. \A c \in Clients, s \in Stored : Closing(c, s) => Closing(c, s)'
    BY <1>0, <1>1 DEF StillUp, Closing, Carrying
  <2>2. sessions' = sessions
    BY <1>1 DEF StillUp
  <2> QED BY <1>0, <2>1, <2>2, RowSets DEF EndInv
<1>2. ASSUME NEW p \in Procs, FetchStep(p) \/ PersistSample(p) PROVE EndInv'
  <2>1. sessions' = sessions /\ op[p].pc \in {"fetch", "persist"}
    BY <1>2 DEF FetchStep, Fetched, FetchedUnusable, FetchFailed, PersistSample, tables
  <2>2. \A c \in Clients, s \in Stored : ~Closing(c, s)
    BY <1>0, <2>1, OneWorks DEF Closing, Working
  <2> QED BY <1>0, <2>1, <2>2, RowSets DEF EndInv
<1>3. ASSUME NEW p \in Procs, NEW s \in SessionIds, Enters(p, s) PROVE EndInv'
  <2>1. \A c \in Clients, t \in Stored : ~Closing(c, t)
    BY <1>0, <1>3, OneWorks DEF Closing, Working, Enters
  <2>2. sessions'[s].status = "ACTIVE" \/ Closing(p, s)'
    BY <1>3 DEF Enters, Closing
  <2> QED BY <1>0, <1>3, <2>1, <2>2, RowSets DEF EndInv, Enters, Stored
<1>4. ASSUME NEW p \in Procs, NEW s \in SessionIds, Finishes(p, s) PROVE EndInv'
  <2>1. \A c \in Clients, t \in Stored : Closing(c, t) => t = s
    BY <1>0, <1>4, OneWorks, ProcessAssumption DEF Closing, Working, Finishes
  <2>2. op[p].at # None
    <3>1. op[p].pc \in {"create", "close", "persist", "end", "autostop"} /\ Handed(p) /\ ClockInv
      BY <1>4 DEF Finishes, MeasureInv, MatchInv
    <3> QED BY <1>0, <3>1, WriterIsLast, NoneAssumption, BoundTypes DEF Time
  <2>3. sessions'[s].endedAt # None
    BY <1>4, <2>2 DEF Finishes
  <2> QED BY <1>0, <1>4, <2>1, <2>3, RowSets DEF EndInv, Stored
<1> QED BY <1>1, <1>2, <1>3, <1>4, MatchSteps DEF MatchInv

\* A sample more names who was named before, and who it names itself.
LEMMA NamedAppend ==
  ASSUME TypeInv, NEW p \in Procs, PersistSample(p)
  PROVE  /\ Len(samples') = Len(samples) + 1 /\ Len(samples) \in Nat
         /\ DOMAIN samples = 1 .. Len(samples) /\ DOMAIN samples' = 1 .. (Len(samples) + 1)
         /\ \A k \in 1 .. Len(samples) : samples'[k] = samples[k]
         /\ samples'[Len(samples) + 1] = op[p].row
         /\ \A s, n : n \in 0 .. Len(samples) /\ Named(s, n) => Named(s, n)'
         /\ \A s : Named(s, Len(samples)) \/ op[p].row.trigger = s => Named(s, Len(samples))'
<1> DEFINE n == Len(samples)
<1>1. samples \in Seq(SampleRow) /\ n \in Nat /\ samples' = Append(samples, op[p].row) /\ op[p].row \in SampleRow
  BY PollTypes DEF PersistSample, TypeInv, Ready
<1>2. /\ Len(samples') = n + 1 /\ DOMAIN samples = 1 .. n /\ DOMAIN samples' = 1 .. (n + 1)
      /\ (\A k \in 1 .. n : samples'[k] = samples[k]) /\ samples'[n + 1] = op[p].row
  BY <1>1
<1> HIDE DEF n
<1>3. \A s, m : m \in 0 .. n /\ Named(s, m) => Named(s, m)'
  <2> SUFFICES ASSUME NEW s, NEW m \in 0 .. n, Named(s, m) PROVE Named(s, m)'
    OBVIOUS
  <2>1. PICK f \in 1 .. m : samples[f].trigger = s
    BY DEF Named
  <2>2. f \in 1 .. n
    BY <1>1
  <2> QED BY <1>2, <2>1, <2>2 DEF Named
<1>4. \A s : Named(s, n) \/ op[p].row.trigger = s => \E f \in 1 .. (n + 1) : samples'[f].trigger = s
  <2> SUFFICES ASSUME NEW s, Named(s, n) \/ op[p].row.trigger = s
               PROVE  \E f \in 1 .. (n + 1) : samples'[f].trigger = s
    OBVIOUS
  <2>1. CASE op[p].row.trigger = s
    BY <1>1, <1>2, <2>1
  <2>2. CASE Named(s, n)
    <3>1. PICK f \in 1 .. n : samples[f].trigger = s
      BY <2>2 DEF Named
    <3>2. f \in 1 .. (n + 1) /\ samples'[f] = samples[f]
      BY <1>1, <1>2, <3>1
    <3> QED BY <3>1, <3>2
  <2> QED BY <2>1, <2>2
<1> QED BY <1>1, <1>2, <1>3, <1>4 DEF n, Named

LEMMA BeginStep ==
  ASSUME NoExit, CommitsSucceed, TableInv, MeasureInv, MatchInv, [Next]_vars
  PROVE  BeginInv'
<1>0. TypeInv /\ WorkersHoldLock /\ BeginInv /\ Clients \subseteq Procs
  BY DEF TableInv, MatchInv, Procs
<1>1. samples' = samples => \A s : Named(s, Len(samples))' <=> Named(s, Len(samples))
  BY DEF Named
<1>2. CASE StillUp
  <2>1. \A c \in Clients, s \in Stored : Starts(c, s) => Starts(c, s)'
    BY <1>0, <1>2 DEF StillUp, Starts, Carrying
  <2>2. sessions' = sessions /\ samples' = samples
    BY <1>2 DEF StillUp
  <2> QED BY <1>0, <1>1, <2>1, <2>2, RowSets DEF BeginInv
<1>3. ASSUME NEW p \in Procs, FetchStep(p) PROVE BeginInv'
  <2>1. sessions' = sessions /\ op[p].pc = "fetch" /\ samples' = samples
    BY <1>3 DEF FetchStep, Fetched, FetchedUnusable, FetchFailed, tables
  <2>2. \A c \in Clients, s \in Stored : ~Starts(c, s)
    BY <1>0, <2>1, OneWorks DEF Starts, Working
  <2> QED BY <1>0, <1>1, <2>1, <2>2, RowSets DEF BeginInv
<1>4. ASSUME NEW p \in Procs, PersistSample(p) PROVE BeginInv'
  <2>1. sessions' = sessions /\ op[p].pc = "persist"
    BY <1>4 DEF PersistSample
  <2>2. op[p].row.trigger = op[p].sid
    BY <2>1 DEF MeasureInv, Handed, Knowing, Carrying
  <2>3. \A c \in Clients, s \in Stored : Starts(c, s) => op[p].sid = s
    BY <1>0, <2>1, OneWorks DEF Starts, Working
  <2>4. \A s \in Stored : Named(s, Len(samples)) \/ op[p].row.trigger = s
    BY <1>0, <2>2, <2>3 DEF BeginInv
  <2>5. \A s \in Stored : Named(s, Len(samples))'
    BY <1>0, <1>4, <2>4, NamedAppend
  <2> QED BY <2>1, <2>5, RowSets DEF BeginInv
<1>5. ASSUME NEW p \in Procs, NEW s \in SessionIds, Enters(p, s) PROVE BeginInv'
  <2>1. \A c \in Clients, t \in Stored : ~Starts(c, t)
    BY <1>0, <1>5, OneWorks DEF Starts, Working, Enters
  <2>2. p \in Clients /\ Starts(p, s)' /\ samples' = samples
    BY <1>5 DEF Enters, Starts
  <2> QED BY <1>0, <1>1, <1>5, <2>1, <2>2, RowSets DEF BeginInv
<1>6. ASSUME NEW p \in Procs, NEW s \in SessionIds, Finishes(p, s) PROVE BeginInv'
  <2>1. \A c \in Clients, t \in Stored : Starts(c, t) => Starts(c, t)'
    <3> SUFFICES ASSUME NEW c \in Clients, NEW t \in Stored, Starts(c, t) PROVE Starts(c, t)'
      OBVIOUS
    <3>1. c = p
      BY <1>0, <1>6, OneWorks DEF Starts, Working, Finishes
    <3> QED BY <1>6, <3>1, ProcessAssumption DEF Starts, Finishes, SameSight
  <2>2. samples' = samples /\ s \in Stored
    BY <1>6 DEF Finishes
  <2>3. Stored' = Stored
    BY <1>6, <2>2, RowSets
  <2> QED BY <1>0, <1>1, <2>1, <2>2, <2>3 DEF BeginInv
<1> QED BY <1>2, <1>3, <1>4, <1>5, <1>6, MatchSteps DEF MatchInv

LEMMA FinishStep ==
  ASSUME NoExit, CommitsSucceed, TableInv, MeasureInv, MatchInv, [Next]_vars
  PROVE  FinishInv'
<1> PICK n \in Nat : n = Len(samples) /\ DOMAIN samples = 1 .. n
  BY PollTypes DEF TableInv
<1>0. /\ TypeInv /\ WorkersHoldLock /\ FinishInv /\ BeginInv /\ Clients \subseteq Procs
  BY DEF TableInv, MatchInv, Procs
<1>1. ASSUME NEW t \in SessionIds, samples' = samples, sessions'[t] = sessions[t], NEW k, Ends(k, t) PROVE Ends(k, t)'
  BY <1>1 DEF Ends, Named
<1>2. CASE samples' = samples /\ sessions' = sessions
  BY <1>0, <1>1, <1>2 DEF FinishInv
<1>3. ASSUME NEW p \in Procs, PersistSample(p) PROVE FinishInv'
  <2>1. sessions' = sessions
    BY <1>3 DEF PersistSample
  <2>2. ASSUME NEW t \in SessionIds, NEW k, Ends(k, t) PROVE k \in DOMAIN samples' /\ Ends(k, t)'
    <3>1. k \in 1 .. n /\ k \in 1 .. (n + 1) /\ k - 1 \in 0 .. n /\ Named(t, k - 1)
      BY <1>0, <2>2 DEF Ends
    <3>2. Named(t, k - 1)' /\ samples'[k] = samples[k] /\ DOMAIN samples' = 1 .. (n + 1)
      BY <1>0, <1>3, <3>1, NamedAppend
    <3> QED BY <2>1, <2>2, <3>1, <3>2 DEF Ends
  <2> QED BY <1>0, <2>1, <2>2 DEF FinishInv
<1>4. ASSUME NEW p \in Procs, NEW s \in SessionIds, Enters(p, s) PROVE FinishInv'
  BY <1>0, <1>1, <1>4, RowSets DEF FinishInv, Enters
<1>5. ASSUME NEW p \in Procs, NEW s \in SessionIds, Finishes(p, s) PROVE FinishInv'
  <2>0. samples' = samples /\ Handed(p)
    BY <1>5 DEF Finishes, MeasureInv
  <2>1. ASSUME op[p].pc \in {"end", "autostop"} PROVE Ends(n, s)' /\ n \in DOMAIN samples'
    <3>1. samples # <<>> /\ samples[n] = op[p].row /\ op[p].row.trigger = op[p].sid
      BY <2>0, <2>1 DEF Handed, Knowing
    <3>2. n \in DOMAIN samples /\ n # 0
      BY <1>0, <3>1, PollTypes
    <3>3. op[p].row.at = op[p].at /\ op[p].row.used = Result(p).used
      BY <2>0, <2>1 DEF Handed, Knowing, SameCounter
    <3>4. Named(s, n - 1) /\ op[p].row.trigger = IF sessions'[s].status = "STOPPED" THEN s ELSE None
      <4>1. CASE op[p].pc = "end"
        <5>1. s = op[p].sid /\ sessions'[s].status = "STOPPED"
          BY <1>5, <4>1 DEF Finishes
        <5> QED BY <2>0, <3>1, <4>1, <5>1 DEF Handed, Opens, Named
      <4>2. CASE op[p].pc = "autostop"
        <5>1. p = Sampler /\ s \in Stored /\ sessions'[s].status # "STOPPED"
          BY <1>5, <4>2 DEF Finishes
        <5>2. op[p].sid = None /\ s # None
          BY <2>0, <5>1, NoneAssumption DEF Handed, Unbound, SessionIds
        <5>3. \A c \in Clients : ~Starts(c, s)
          BY <1>0, <4>2, OneWorks DEF Starts, Working
        <5>4. PICK f \in 1 .. n : samples[f].trigger = s
          BY <1>0, <5>1, <5>3 DEF BeginInv, Named
        <5>5. f # n
          BY <3>1, <5>2, <5>4
        <5>6. f \in 1 .. (n - 1)
          BY <1>0, <5>5
        <5> QED BY <3>1, <5>1, <5>2, <5>4, <5>6 DEF Named
      <4> QED BY <2>1, <4>1, <4>2
    <3>5. sessions'[s].endedAt = op[p].at /\ sessions'[s].usedEnd = Result(p).used
      BY <1>5 DEF Finishes
    <3> QED BY <2>0, <3>1, <3>2, <3>3, <3>4, <3>5 DEF Ends, Named
  <2>2. op[p].pc \in {"end", "autostop"} \/ sessions'[s].status = "EXHAUSTED"
    BY <1>5 DEF Finishes
  <2> QED BY <1>0, <1>1, <1>5, <2>0, <2>1, <2>2, RowSets DEF FinishInv
<1> QED BY <1>2, <1>3, <1>4, <1>5, MatchSteps
        DEF StillUp, FetchStep, Fetched, FetchedUnusable, FetchFailed, tables, MatchInv

(***************************************************************************)
(* Who was there.                                                          *)
(***************************************************************************)
\* A row that is written later tells nothing new of an earlier instant.
LEMMA AroundStep ==
  ASSUME TableInv, RowsDated, NEW p \in Procs, NEW s \in SessionIds, Enters(p, s) \/ Finishes(p, s),
         op[p].at \in Time
  PROVE  \A t \in Time, S \in SUBSET SessionIds : t <= op[p].at /\ Around(t, S) => Around(t, S)'
<1> SUFFICES ASSUME NEW t \in Time, NEW S \in SUBSET SessionIds, t <= op[p].at, Around(t, S)
             PROVE  Around(t, S)'
  OBVIOUS
<1>1. Stored' = Stored \cup {s} /\ \A u \in Stored \ {s} : sessions'[u] = sessions[u]
  <2>1. Stored \subseteq SessionIds
    BY DEF Stored
  <2> QED BY <2>1, RowSets
<1>2. None \notin Time
  BY NoneAssumption, BoundTypes DEF Time
<1>3. CASE Enters(p, s)
  <2>1. s \notin Stored /\ sessions'[s].startedAt = op[p].at
    BY <1>3 DEF Enters
  <2> QED BY <1>1, <2>1 DEF Around
<1>4. CASE Finishes(p, s)
  <2>1. /\ s \in Stored /\ sessions'[s].startedAt = sessions[s].startedAt /\ sessions'[s].endedAt = op[p].at
    BY <1>4 DEF Finishes
  <2>2. sessions[s].endedAt = None
    <3>1. s \in Active \/ (p \in Clients /\ s = op[p].sid /\ op[p].pc \in {"close", "end"})
      BY <1>4 DEF Finishes
    <3> QED BY <3>1 DEF TableInv, NoEarlyEnd, Phases, Phase, Active
  <2> QED BY <1>1, <1>2, <2>1, <2>2 DEF Around
<1> QED BY <1>3, <1>4

\* The sessions that are active between two operations are those around now.
LEMMA AroundNow ==
  ASSUME TableInv, MatchInv, NEW q \in Procs, op[q].pc \in {"idle", "identity", "asleep"}, holder \in {q, None}
  PROVE  Around(now, Active) /\ \A s \in Active : Named(s, Len(samples))
<1>1. \A c \in Clients : op[c].pc \notin {"close", "persist"}
  BY NoneAssumption DEF TableInv, WorkersHoldLock, Working, Procs
<1>2. \A c \in Clients, s \in SessionIds : ~Closing(c, s) /\ ~Starts(c, s)
  BY <1>1 DEF Closing, Starts
<1>3. Active \subseteq Stored /\ Stored \subseteq SessionIds
  BY DEF Active, Stored
<1>4. \A s \in Active : sessions[s].endedAt = None /\ sessions[s].startedAt <= now
  BY <1>3 DEF TableInv, NoEarlyEnd, Active, MatchInv, RowsDated
<1>5. \A s \in Stored \ Active : sessions[s].endedAt # None /\ sessions[s].endedAt <= now
  BY <1>2, <1>3 DEF MatchInv, EndInv, RowsDated
<1>6. \A s \in Active : Named(s, Len(samples))
  BY <1>2, <1>3 DEF MatchInv, BeginInv
<1> QED BY <1>3, <1>4, <1>5, <1>6 DEF Around

\* A sample is attributed by how many sessions its operation knows of.
LEMMA CountedFetch ==
  ASSUME NEW S \in SUBSET SessionIds, NEW outcome \in
           {"ok", "no_previous", "reset_boundary", "counter_regression", "fetch_failed"}
  PROVE  Counted(Attribution(outcome, Cardinality(S)), S)
<1>1. IsFiniteSet(SessionIds)
  BY FS_Interval, Bounds DEF SessionIds
<1>2. Cardinality(S) \in Nat
  BY <1>1, FS_Subset, FS_CardinalityType
<1> DEFINE n == Cardinality(S)
<1> HIDE DEF n
<1>3. n \in Nat
  BY <1>2 DEF n
<1>4. LET a == Attribution(outcome, n) IN
      /\ a = "UNATTRIBUTED" => n = 0
      /\ a = "SINGLE_ACTIVITY_CORRELATION" => n = 1
      /\ a = "OVERLAPPING_ACTIVITIES" => n >= 2
  BY <1>3 DEF Attribution
<1> QED BY <1>4 DEF Counted, n

LEMMA SightFetched ==
  ASSUME TableInv, MatchInv, NEW p \in Procs, FetchStep(p)
  PROVE  Sees(p)'
<1> OpTyped /\ TypeInv /\ TypeOK
  BY DEF TableInv, TypeInv, TypeOK, OpTyped
<1>1. /\ op[p].pc = "fetch" /\ sessions' = sessions /\ samples' = samples /\ cursor \in Resource \cup {None}
      /\ op[p].seen \in SUBSET SessionIds
  BY DEF FetchStep, Fetched, FetchedUnusable, FetchFailed, tables, TypeOK, OpState
<1>2. Around(op[p].at, op[p].seen) /\ \A s \in op[p].seen : Named(s, Len(samples))
  BY <1>1 DEF MatchInv, Sees, Reading
<1>3. ActiveCount(p) = Cardinality(op[p].seen)
  <2>1. ActiveAt(op[p].seen, op[p].at) = op[p].seen
    BY <1>2 DEF ActiveAt, Around
  <2> QED BY <2>1 DEF ActiveCount
<1>4. PICK res, row :
        /\ op' = [op EXCEPT ![p].pc = AfterFetch(p), ![p].res = res, ![p].row = row]
        /\ row = FailedSample(p) \/ (res \in {quota[account], Unusable} /\ row = Classified(p, res))
  BY DEF FetchStep, Fetched, FetchedUnusable, FetchFailed, SampleTaken
<1>5. PICK outcome \in {"ok", "no_previous", "reset_boundary", "counter_regression", "fetch_failed"} :
        row.attr = Attribution(outcome, ActiveCount(p))
  <2>1. CASE row = FailedSample(p)
    BY <2>1 DEF FailedSample
  <2>2. CASE res \in {quota[account], Unusable} /\ row = Classified(p, res)
    <3>1. res \in Resource
      BY <2>2, QuotaTyped DEF Unusable, Resource
    <3>2. GraphqlDelta(cursor, res).outcome \in {"ok", "no_previous", "reset_boundary", "counter_regression"}
      BY <1>1, <3>1, GraphqlDeltaType
    <3>3. row.attr = Attribution(GraphqlDelta(cursor, res).outcome, ActiveCount(p))
      BY <2>2 DEF Classified
    <3> QED BY <3>2, <3>3
  <2> QED BY <1>4, <2>1, <2>2
<1>6. op' = [op EXCEPT ![p] = [op[p] EXCEPT !.pc = AfterFetch(p), !.res = res, !.row = row]]
  BY <1>4 DEF OpTyped
<1>7. op'[p].at = op[p].at /\ op'[p].seen = op[p].seen /\ op'[p].row = row
  BY <1>6 DEF OpTyped, OpState
<1>8. Counted(row.attr, op[p].seen)
  BY <1>1, <1>3, <1>5, CountedFetch
<1>9. Around(op[p].at, op[p].seen)'
  BY <1>1, <1>2, <1>7 DEF Around, Stored
<1>10. \A s \in op'[p].seen : Named(s, Len(samples))'
  BY <1>1, <1>2, <1>7 DEF Named
<1> QED BY <1>7, <1>8, <1>9, <1>10 DEF Sees, Counted

LEMMA SeesSame ==
  ASSUME NEW q \in Procs, Sees(q), op'[q] = op[q], sessions' = sessions, samples' = samples
  PROVE  Sees(q)'
BY DEF Sees, Reading, Carrying, Around, Stored, Counted, Named

LEMMA SightStep ==
  ASSUME NoExit, CommitsSucceed, TableInv, MeasureInv, MatchInv, [Next]_vars, NEW q \in Procs
  PROVE  Sees(q)'
<1>0. /\ TypeInv /\ WorkersHoldLock /\ Sees(q) /\ op[q].seen \in SUBSET SessionIds
      /\ Sampler \in Procs /\ Clients \subseteq Procs
  BY DEF TableInv, MatchInv, TypeInv, TypeOK, OpState, Procs
<1>1. CASE StillUp
  <2>1. samples' = samples /\ sessions' = sessions /\ Looks(q)
    BY <1>1 DEF StillUp
  <2>2. CASE op'[q] = op[q]
    BY <1>0, <2>1, <2>2, SeesSame
  <2>3. CASE op'[q] # op[q]
    <3>1. ~Carrying(q)'
      BY <1>1, <2>3 DEF StillUp
    <3>2. CASE op'[q].pc = "fetch"
      <4>1. /\ op[q].pc \in {"idle", "identity", "asleep"} /\ holder \in {q, None}
            /\ op'[q].at = now /\ op'[q].seen = Active
        BY <2>1, <2>3, <3>2 DEF Looks
      <4>2. Around(now, Active) /\ \A s \in Active : Named(s, Len(samples))
        BY <4>1, AroundNow
      <4>3. Around(op[q].at, op[q].seen)'
        BY <2>1, <4>1, <4>2 DEF Around, Stored
      <4>4. \A s \in op'[q].seen : Named(s, Len(samples))'
        BY <2>1, <4>1, <4>2 DEF Named
      <4> QED BY <3>1, <4>3, <4>4 DEF Sees
    <3>3. CASE op'[q].pc # "fetch"
      BY <3>1, <3>3 DEF Sees, Reading, Carrying
    <3> QED BY <3>2, <3>3
  <2> QED BY <2>2, <2>3
<1>2. ASSUME NEW p \in Procs, FetchStep(p) PROVE Sees(q)'
  <2>1. CASE q = p
    BY <1>2, <2>1, SightFetched
  <2>2. CASE q # p
    <3>1. op'[q] = op[q]
      BY <1>0, <1>2, <2>2, FetchLock DEF Elsewhere, TypeInv, TypeOK, OpTyped
    <3> QED BY <1>0, <1>2, <3>1, SeesSame DEF FetchStep, Fetched, FetchedUnusable, FetchFailed, tables
  <2> QED BY <2>1, <2>2
<1>3. ASSUME NEW p \in Procs, Persisted(p) PROVE Sees(q)'
  BY <1>3 DEF Persisted, Sees, Reading, Carrying
<1>4. ASSUME NEW p \in Procs, NEW s \in SessionIds, Enters(p, s) \/ Finishes(p, s) PROVE Sees(q)'
  <2>0. Working(p) /\ samples' = samples
    BY <1>4 DEF Enters, Finishes, Working
  <2>1. CASE q # p
    <3>1. op'[q] = op[q]
      BY <1>4, <2>1 DEF Enters, Finishes, Elsewhere
    <3>2. ~Reading(q)'
      BY <1>0, <2>0, <2>1, <3>1, OneWorks DEF Reading, Working
    <3> QED BY <3>2 DEF Sees, Reading, Carrying
  <2>2. CASE q = p /\ Reading(p)'
    <3>1. /\ Carrying(p) /\ Reading(p) /\ op'[p].at = op[p].at /\ op'[p].seen = op[p].seen
          /\ op'[p].row.attr = op[p].row.attr
      BY <1>4, <2>2 DEF Enters, Finishes, SameSight, Reading, Carrying
    <3>2. PICK t \in Time, S \in SUBSET SessionIds : t = op[p].at /\ S = op[p].seen
      BY <1>0, <2>2, <3>1 DEF MatchInv, ClockInv, Dated
    <3>3. Around(t, S) /\ (\A u \in S : Named(u, Len(samples))) /\ Counted(op[p].row.attr, S)
      BY <1>0, <2>2, <3>1, <3>2 DEF Sees
    <3>4. t <= op[p].at
      BY <3>2, BoundTypes DEF Time
    <3>5. Around(t, S)'
      BY <1>4, <3>2, <3>3, <3>4, AroundStep DEF MatchInv
    <3>6. Around(op[p].at, op[p].seen)'
      BY <3>1, <3>2, <3>5 DEF Around
    <3>7. \A u \in op'[p].seen : Named(u, Len(samples))'
      BY <2>0, <3>1, <3>2, <3>3 DEF Named
    <3> QED BY <2>2, <3>1, <3>2, <3>3, <3>6, <3>7 DEF Sees, Counted
  <2> QED BY <2>1, <2>2 DEF Sees, Reading, Carrying
<1> QED BY <1>1, <1>2, <1>3, <1>4, MatchSteps DEF MatchInv

LEMMA SeenStep ==
  ASSUME NoExit, CommitsSucceed, TableInv, MeasureInv, MatchInv, [Next]_vars
  PROVE  \A i \in DOMAIN samples' : Seen(i)'
<1> PICK n \in Nat : n = Len(samples) /\ DOMAIN samples = 1 .. n
  BY PollTypes DEF TableInv
<1>0. TypeInv /\ \A i \in DOMAIN samples : samples[i].at \in Time
  BY PollTypes DEF TableInv, Time
<1>1. ASSUME samples' = samples, sessions' = sessions, NEW i \in DOMAIN samples PROVE Seen(i)'
  <2>1. PICK S \in SUBSET SessionIds :
          Around(samples[i].at, S) /\ Counted(samples[i].attr, S) /\ \A s \in S : Named(s, i - 1)
    BY DEF MatchInv, Seen
  <2>2. Around(samples[i].at, S)' /\ Counted(samples[i].attr, S)' /\ \A s \in S : Named(s, i - 1)'
    BY <1>1, <2>1 DEF Around, Counted, Named, Stored
  <2> QED BY <2>2 DEF Seen
<1>2. ASSUME NEW p \in Procs, NEW s \in SessionIds, Enters(p, s) \/ Finishes(p, s), NEW i \in DOMAIN samples
      PROVE  Seen(i)'
  <2>0. samples' = samples
    BY <1>2 DEF Enters, Finishes
  <2>1. PICK S \in SUBSET SessionIds :
          Around(samples[i].at, S) /\ Counted(samples[i].attr, S) /\ \A u \in S : Named(u, i - 1)
    BY DEF MatchInv, Seen
  <2>2. PICK t \in Time : t = samples[i].at
    BY <1>0
  <2>3. op[p].at \in Time /\ t <= op[p].at
    <3>1. op[p].pc \in {"create", "close", "persist", "end", "autostop"} /\ Handed(p) /\ ClockInv
      BY <1>2 DEF Enters, Finishes, MeasureInv, MatchInv
    <3> QED BY <1>0, <2>2, <3>1, WriterIsLast
  <2>4. Around(t, S)'
    BY <1>2, <2>1, <2>2, <2>3, AroundStep DEF MatchInv
  <2>5. Around(samples[i].at, S)' /\ Counted(samples[i].attr, S)' /\ \A u \in S : Named(u, i - 1)'
    BY <2>0, <2>1, <2>2, <2>4 DEF Around, Counted, Named
  <2> QED BY <2>5 DEF Seen
<1>3. ASSUME NEW p \in Procs, PersistSample(p), Persisted(p), NEW i \in DOMAIN samples' PROVE Seen(i)'
  <2>0. /\ sessions' = sessions /\ op[p].pc = "persist" /\ DOMAIN samples' = 1 .. (n + 1)
        /\ samples'[n + 1] = op[p].row /\ \A k \in 1 .. n : samples'[k] = samples[k]
    BY <1>0, <1>3, NamedAppend DEF PersistSample
  <2>1. CASE i = n + 1
    <3>1. PICK S \in SUBSET SessionIds : S = op[p].seen
      BY <1>0 DEF TypeInv, TypeOK, OpState
    <3>2. /\ Around(op[p].at, S) /\ (\A s \in S : Named(s, n)) /\ Counted(op[p].row.attr, S)
          /\ op[p].row.at = op[p].at
      BY <2>0, <3>1 DEF MatchInv, Sees, Reading, Carrying, ClockInv, Dated
    <3>3. \A s \in S : Named(s, n)'
      BY <1>0, <1>3, <3>2, NamedAppend
    <3>4. Around(samples[i].at, S)'
      BY <2>0, <2>1, <3>2 DEF Around, Stored
    <3>5. Counted(samples[i].attr, S)' /\ i - 1 = n
      BY <2>0, <2>1, <3>2 DEF Counted
    <3> QED BY <3>3, <3>4, <3>5 DEF Seen
  <2>2. CASE i # n + 1
    <3>1. i \in 1 .. n /\ i - 1 \in 0 .. n /\ samples'[i] = samples[i]
      BY <2>0, <2>2
    <3>2. PICK S \in SUBSET SessionIds :
            Around(samples[i].at, S) /\ Counted(samples[i].attr, S) /\ \A s \in S : Named(s, i - 1)
      BY <3>1 DEF MatchInv, Seen
    <3>3. \A s \in S : Named(s, i - 1)'
      BY <1>0, <1>3, <3>1, <3>2, NamedAppend
    <3>4. Around(samples[i].at, S)' /\ Counted(samples[i].attr, S)'
      BY <2>0, <3>1, <3>2 DEF Around, Counted, Stored
    <3> QED BY <3>3, <3>4 DEF Seen
  <2> QED BY <2>1, <2>2
<1> QED BY <1>1, <1>2, <1>3, MatchSteps
        DEF StillUp, FetchStep, Fetched, FetchedUnusable, FetchFailed, tables, MatchInv, Enters, Finishes

LEMMA MatchStep ==
  ASSUME NoExit, CommitsSucceed, TableInv, MeasureInv, MatchInv, [Next]_vars
  PROVE  MatchInv'
<1>1. proc' = "up"
  BY StaysUp DEF MatchInv
<1>2. ClockInv'
  BY ClockStep DEF TableInv, MatchInv
<1>3. RowsDated' /\ EndInv' /\ BeginInv' /\ FinishInv'
  BY RowsDatedStep, EndStep, BeginStep, FinishStep
<1>4. \A p \in Procs : Sees(p)'
  BY SightStep
<1>5. \A i \in DOMAIN samples' : Seen(i)'
  BY SeenStep
<1> QED BY <1>1, <1>2, <1>3, <1>4, <1>5 DEF MatchInv

LEMMA MatchInit == Init => MatchInv
<1> SUFFICES ASSUME Init PROVE MatchInv
  OBVIOUS
<1>1. proc = "up" /\ samples = <<>> /\ DOMAIN samples = {} /\ \A p \in Procs : op[p].pc = "idle"
  BY IdleType DEF Init
<1>2. Stored = {} /\ \A s \in SessionIds : sessions[s].status = "unused"
  BY DEF Init, Stored, Unused
<1>3. ClockInv
  BY <1>1 DEF ClockInv, Dated, Reading
<1>4. RowsDated /\ EndInv /\ BeginInv
  BY <1>2 DEF RowsDated, EndInv, BeginInv
<1>5. FinishInv
  BY <1>2 DEF FinishInv
<1>6. \A p \in Procs : Sees(p)
  BY <1>1 DEF Sees, Reading, Carrying
<1> QED BY <1>1, <1>3, <1>4, <1>5, <1>6 DEF MatchInv

(***************************************************************************)
(* What the invariant says of the rows when no operation is under way.     *)
(***************************************************************************)
LEMMA NobodyWorks ==
  ASSUME WorkersHoldLock, holder = None, NEW c \in Clients
  PROVE  \A s : ~Closing(c, s) /\ ~Starts(c, s)
<1>1. ~Working(c)
  BY NoneAssumption DEF WorkersHoldLock, Procs
<1> QED BY <1>1 DEF Working, Closing, Starts

LEMMA EndsAreKnown ==
  ASSUME TableInv, MatchInv
  PROVE  NoEndMeansActive
<1> SUFFICES ASSUME holder = None, NEW s \in Stored PROVE sessions[s].endedAt = None <=> s \in Active
  BY DEF NoEndMeansActive
<1>1. s \in Active => sessions[s].endedAt = None
  BY DEF TableInv, NoEarlyEnd, Active
<1>2. s \notin Active => sessions[s].endedAt # None
  BY NobodyWorks DEF TableInv, MatchInv, EndInv
<1> QED BY <1>1, <1>2

\* The opening sample of a session is not later than any that names it.
LEMMA OpeningIsFirst ==
  ASSUME TypeOK, NEW s, NEW n \in 0 .. Len(samples), Named(s, n)
  PROVE  OpeningSample(s) \in 1 .. n
<1> DEFINE I == {i \in DOMAIN samples : samples[i].trigger = s}
<1>1. Len(samples) \in Nat /\ DOMAIN samples = 1 .. Len(samples)
  BY DEF TypeOK
<1>2. PICK f \in 1 .. n : samples[f].trigger = s
  BY DEF Named
<1>3. f \in I /\ I \in SUBSET Nat /\ I \subseteq 1 .. Len(samples)
  BY <1>1, <1>2
<1> HIDE DEF I
<1>4. Earliest(I) \in I /\ Earliest(I) <= f
  BY <1>3, EarliestIs
<1> QED BY <1>1, <1>3, <1>4 DEF OpeningSample, I

LEMMA NothingIsMissing ==
  ASSUME TableInv, MatchInv
  PROVE  SessionsHaveTheirSamples
<1> SUFFICES ASSUME holder = None, NEW s \in Stored
             PROVE  /\ OpeningSample(s) # 0
                    /\ sessions[s].status \in {"STOPPED", "AUTO_STOPPED"} => ClosingSample(s) # 0
  BY DEF SessionsHaveTheirSamples
<1> PICK n \in Nat : n = Len(samples) /\ DOMAIN samples = 1 .. n
  BY PollTypes DEF TableInv
<1>0. TypeOK
  BY DEF TableInv, TypeInv
<1>1. Named(s, Len(samples))
  BY NobodyWorks DEF TableInv, MatchInv, BeginInv
<1>2. OpeningSample(s) # 0
  BY <1>0, <1>1, OpeningIsFirst
<1>3. ASSUME sessions[s].status \in {"STOPPED", "AUTO_STOPPED"}, ~Exhausted(sessions[s].start) PROVE ClosingSample(s) # 0
  <2>1. PICK k \in DOMAIN samples : Ends(k, s)
    BY <1>3 DEF MatchInv, FinishInv, Stored
  <2>2. k - 1 \in 0 .. Len(samples) /\ Named(s, k - 1)
    BY <2>1 DEF Ends
  <2>3. OpeningSample(s) \in 1 .. (k - 1)
    BY <1>0, <2>2, OpeningIsFirst
  <2> DEFINE C == {i \in DOMAIN samples :
                     /\ i > OpeningSample(s) /\ samples[i].at = sessions[s].endedAt
                     /\ samples[i].used = sessions[s].usedEnd
                     /\ samples[i].trigger = IF sessions[s].status = "STOPPED" THEN s ELSE None}
  <2>4. k \in C
    BY <2>1, <2>3 DEF Ends
  <2>5. C \in SUBSET Nat /\ 0 \notin C
    OBVIOUS
  <2>6. ClosingSample(s) = Earliest(C)
    BY <1>3 DEF ClosingSample
  <2> HIDE DEF C
  <2> QED BY <2>4, <2>5, <2>6, EarliestIs
<1> QED BY <1>2, <1>3 DEF ClosingSample

LEMMA AttributionAgrees ==
  ASSUME TableInv, MatchInv
  PROVE  AttributionMatchesSessions
<1> SUFFICES ASSUME NEW i \in DOMAIN samples
             PROVE  LET strict == Cardinality(StrictlyWithin(samples[i].at))
                        loose  == Cardinality({s \in Within(samples[i].at) : OpeningSample(s) # i})
                    IN /\ samples[i].attr = "UNATTRIBUTED" => strict = 0
                       /\ samples[i].attr = "SINGLE_ACTIVITY_CORRELATION" => strict <= 1 /\ loose >= 1
                       /\ samples[i].attr = "OVERLAPPING_ACTIVITIES" => loose >= 2
  BY DEF AttributionMatchesSessions
<1> PICK n \in Nat : n = Len(samples) /\ DOMAIN samples = 1 .. n
  BY PollTypes DEF TableInv
<1> DEFINE t == samples[i].at
           strict == StrictlyWithin(t)
           loose  == {s \in Within(t) : OpeningSample(s) # i}
<1>0. TypeOK
  BY DEF TableInv, TypeInv
<1>1. t \in Nat /\ \A u \in Time : u \in Nat
  BY PollTypes, BoundTypes DEF TableInv, Time
<1>2. PICK S \in SUBSET SessionIds :
        Around(t, S) /\ Counted(samples[i].attr, S) /\ \A s \in S : Named(s, i - 1)
  BY DEF MatchInv, Seen
<1>3. \A s \in Stored : sessions[s].startedAt \in Nat /\ (sessions[s].endedAt # None => sessions[s].endedAt \in Nat)
  BY <1>1 DEF MatchInv, RowsDated
<1> HIDE DEF t
<1>4. strict \subseteq S
  BY <1>1, <1>2, <1>3 DEF StrictlyWithin, Around
<1>5. S \subseteq loose
  <2> SUFFICES ASSUME NEW s \in S PROVE s \in loose
    OBVIOUS
  <2>1. s \in Within(t)
    BY <1>1, <1>2, <1>3 DEF Around, Within, ActiveAt
  <2>2. i - 1 \in 0 .. Len(samples) /\ Named(s, i - 1)
    BY <1>2
  <2>3. OpeningSample(s) \in 1 .. (i - 1)
    BY <1>0, <2>2, OpeningIsFirst
  <2> QED BY <2>1, <2>3
<1>6. IsFiniteSet(SessionIds) /\ strict \subseteq SessionIds /\ loose \subseteq SessionIds
  <2>1. IsFiniteSet(SessionIds)
    BY BoundAssumption, FS_Interval DEF SessionIds
  <2>2. strict \subseteq Stored /\ loose \subseteq Stored /\ Stored \subseteq SessionIds
    BY DEF StrictlyWithin, Within, ActiveAt, Stored
  <2> QED BY <2>1, <2>2
<1> HIDE DEF strict, loose
<1>7. /\ Cardinality(strict) <= Cardinality(S) /\ Cardinality(S) <= Cardinality(loose)
      /\ Cardinality(strict) \in Nat /\ Cardinality(S) \in Nat /\ Cardinality(loose) \in Nat
  BY <1>4, <1>5, <1>6, FS_Subset, FS_CardinalityType
<1> QED BY <1>2, <1>7 DEF Counted, strict, loose, t

\* As long as commits go through and the process stays up, the session rows
\* and the timeline say the same, whatever gh calls fail and however starts,
\* stops and ticks interleave: start_session, stop_session and _scheduled_tick
\* read the clock and the active sessions under the lock, and everything
\* they write is of that instant.
THEOREM RowsAndTimelineAgree ==
  ASSUME NoExit, CommitsSucceed
  PROVE  Spec => []RowsMatchTimeline
<1> DEFINE I == TableInv /\ MeasureInv /\ MatchInv
<1>1. Init => I
  BY TableInit, MeasureInit, MatchInit
<1>2. I /\ [Next]_vars => I'
  BY TableInvStep, MeasureStep, MatchStep
<1>3. I => RowsMatchTimeline
  BY AttributionAgrees, EndsAreKnown, NothingIsMissing DEF RowsMatchTimeline
<1> HIDE DEF I
<1> QED BY <1>1, <1>2, <1>3, PTL DEF Spec

=============================================================================
