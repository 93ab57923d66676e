---------------------------- MODULE CollectorRuns ----------------------------
(***************************************************************************)
(* POST /api/collect/{vendor}: the daily limit, the run that is recorded,  *)
(* the vendor's answer and the import of its records, for requests of one  *)
(* vendor (other vendors have counts and import keys of their own).        *)
(*                                                                         *)
(* Every request has a database session.  Its reads take no lock and see   *)
(* what is committed; its first flush takes SQLite's write lock, which it  *)
(* keeps until it commits or rolls back.  The session does not autoflush:  *)
(* the import row of an inserted record stays pending, where no lookup     *)
(* sees it, until the next flush.                                          *)
(***************************************************************************)
EXTENDS Naturals, Sequences, FiniteSets

CONSTANTS
  Requests,     \* requests that may be under way together
  Keys, Values, \* import identities and reported values
  None,
  Batches,      \* what collect() may return
  MaxCalls,     \* max_collector_calls_per_day
  MaxRuns,      \* bound: runs recorded
  MaxDay        \* bound: days

Record == [kind : {"kept"}, key : Keys, val : Values]
          \cup [kind : {"invalid", "unsupported"}, key : {None}, val : {None}]

ASSUME NoneAssumption  == None \notin Keys \cup Values \cup Requests
ASSUME BatchAssumption == Batches \subseteq Seq(Record)
ASSUME RequestAssumption == IsFiniteSet(Requests) /\ Requests # {}
ASSUME BoundAssumption == {MaxCalls, MaxRuns, MaxDay} \subseteq Nat

VARIABLES
  day,
  runs,     \* the table of CollectorRuns, with the keys that each was to import
  imports,  \* committed CollectorImports, each with the UsageRecord it stands for
  writer,   \* whose session holds the write lock, or None
  draft,    \* the imports as the writer's open transaction has them
  op        \* where each request is, and what its locals and its session hold

vars == <<day, runs, imports, writer, draft, op>>

Days == 0 .. MaxDay
Run == [day : Days, called : BOOLEAN, keys : SUBSET Keys,
        status : {"started", "success", "failed", "blocked"}]
Row == [key : Keys, scheme : {"legacy", "current"}, val : Values, run : 0 .. MaxRuns]
Op  == [at : {"idle", "create", "collect", "plan", "lookup", "legacy", "write", "finish"},
        dry : BOOLEAN,
        status : {"started", "success", "failed", "blocked"},  \* the end the run is to have
        run : 0 .. MaxRuns,
        batch : Seq(Record),     \* the records still to import
        found : Nat,             \* the import row the first of them matched, or 0
        same : BOOLEAN,          \* whether that row had the record's value
        pending : Seq(Row),      \* added and not flushed
        known : SUBSET Keys]     \* history: keys imported when the records came in

Idle == [at |-> "idle", dry |-> FALSE, status |-> "started", run |-> 0, batch |-> <<>>,
         found |-> 0, same |-> FALSE, pending |-> <<>>, known |-> {}]

Set(t, o) == op' = [op EXCEPT ![t] = o]

KeysOf(batch) == {batch[i].key : i \in {j \in DOMAIN batch : batch[j].kind = "kept"}}
Current(rows) == {rows[i].key : i \in {j \in DOMAIN rows : rows[j].scheme = "current"}}

View(t)      == IF writer = t THEN draft ELSE imports
MayWrite(t)  == writer \in {None, t}
Rows(t, key, scheme) == {i \in DOMAIN View(t) : View(t)[i].key = key /\ View(t)[i].scheme = scheme}

\* uq_collector_imports_import_key
Unique(rows) ==
  \A i, j \in DOMAIN rows :
    rows[i].key = rows[j].key /\ rows[i].scheme = rows[j].scheme => i = j

(***************************************************************************)
(* The daily limit and the run.                                            *)
(***************************************************************************)
RunsToday == {r \in DOMAIN runs : runs[r].day = day}

\* MUTANT: one more than the limit is let through.
OverLimitLate == Cardinality(RunsToday) > MaxCalls
\* assert_collector_daily_limit_not_exceeded, which counts runs of any status.
OverLimit == Cardinality(RunsToday) >= MaxCalls

\* A disabled collector is refused before its runs are counted.
Ask(t, dry, disabled) ==
  /\ op[t].at = "idle"
  /\ Set(t, [Idle EXCEPT !.at = "create", !.dry = dry,
                         !.status = IF disabled \/ OverLimit THEN "blocked" ELSE "started"])
  /\ UNCHANGED <<day, runs, imports, writer, draft>>

CreateRun(t) ==
  /\ op[t].at = "create" /\ writer = None /\ Len(runs) < MaxRuns
  /\ runs' = Append(runs, [day |-> day, called |-> FALSE, keys |-> {},
                           status |-> "started"])
  /\ Set(t, [op[t] EXCEPT !.run = Len(runs'),
                          !.at = IF op[t].status = "blocked" THEN "finish" ELSE "collect"])
  /\ UNCHANGED <<day, imports, writer, draft>>

\* A missing credential, found before any call to the vendor.
NotConfigured(t) ==
  /\ op[t].at = "collect"
  /\ Set(t, [op[t] EXCEPT !.at = "finish", !.status = "blocked"])
  /\ UNCHANGED <<day, runs, imports, writer, draft>>

Collect(t, batch) ==
  /\ op[t].at = "collect"
  /\ \/ /\ op[t].dry
        /\ runs' = [runs EXCEPT ![op[t].run].called = TRUE]
        /\ Set(t, [op[t] EXCEPT !.at = "plan"])
     \/ /\ ~op[t].dry
        /\ runs' = [runs EXCEPT ![op[t].run].called = TRUE, ![op[t].run].keys = KeysOf(batch)]
        /\ Set(t, [op[t] EXCEPT !.at = "lookup", !.batch = batch, !.known = Current(imports)])
  /\ UNCHANGED <<day, imports, writer, draft>>

\* An HTTP error, no network, or an exception while the answer is normalised.
CollectFails(t) ==
  /\ op[t].at = "collect"
  /\ runs' = [runs EXCEPT ![op[t].run].called = TRUE]
  /\ Set(t, [op[t] EXCEPT !.at = "finish", !.status = "failed"])
  /\ UNCHANGED <<day, imports, writer, draft>>

(***************************************************************************)
(* The import, record by record.                                           *)
(***************************************************************************)
First(t) == Head(op[t].batch)
Looking(t) == op[t].at = "lookup" /\ op[t].batch # <<>>

Done(t) == [op[t] EXCEPT !.at = "lookup", !.batch = Tail(@), !.found = 0, !.same = FALSE]
Failed(t) == [op[t] EXCEPT !.at = "finish", !.status = "failed", !.batch = <<>>, !.found = 0,
                           !.same = FALSE, !.pending = <<>>]

\* MUTANT: what was flushed so far is committed before the run fails.
RollbackHalf(t) ==
  /\ Set(t, Failed(t))
  /\ imports' = View(t)
  /\ IF writer = t THEN writer' = None /\ draft' = <<>> ELSE UNCHANGED <<writer, draft>>
\* MUTANT: the session is left as it is.
RollbackNothing(t) == Set(t, Failed(t)) /\ UNCHANGED <<imports, writer, draft>>
\* `except Exception`: db.rollback() and CollectorImportError.
Rollback(t) ==
  /\ Set(t, Failed(t))
  /\ UNCHANGED imports
  /\ IF writer = t THEN writer' = None /\ draft' = <<>> ELSE UNCHANGED <<writer, draft>>

RejectRecord(t) ==
  /\ Looking(t) /\ First(t).kind = "invalid"
  /\ Rollback(t)
  /\ UNCHANGED <<day, runs>>

SkipRecord(t) ==
  /\ Looking(t) /\ First(t).kind = "unsupported"
  /\ Set(t, Done(t))
  /\ UNCHANGED <<day, runs, imports, writer, draft>>

\* MUTANT: the current key is not looked up.
CurrentRowsIgnored(t) == {}
CurrentRows(t) == Rows(t, First(t).key, "current")

\* The row found and its value are read one after the other; rows never go away, so
\* nothing can tell that from reading both with the value.
FindCurrent(t) ==
  /\ Looking(t) /\ First(t).kind = "kept"
  /\ \/ /\ CurrentRows(t) = {}
        /\ Set(t, [op[t] EXCEPT !.at = "legacy"])
     \/ \E i \in CurrentRows(t) :
          Set(t, IF View(t)[i].val = First(t).val THEN Done(t)
                 ELSE [op[t] EXCEPT !.at = "write", !.found = i])
  /\ UNCHANGED <<day, runs, imports, writer, draft>>

\* MUTANT: legacy keys are not looked up.
LegacyRowsIgnored(t) == {}
LegacyRows(t) == Rows(t, First(t).key, "legacy")

FindLegacy(t) ==
  /\ op[t].at = "legacy"
  /\ \/ /\ LegacyRows(t) = {}
        /\ Set(t, [op[t] EXCEPT !.at = "write"])
     \/ \E i \in LegacyRows(t) :
          Set(t, [op[t] EXCEPT !.at = "write", !.found = i,
                               !.same = View(t)[i].val = First(t).val])
  /\ UNCHANGED <<day, runs, imports, writer, draft>>

\* The row of a record that was found, as the flush leaves it.
Rewritten(t, row) ==
  IF op[t].same THEN [row EXCEPT !.scheme = "current"]
  ELSE [row EXCEPT !.scheme = "current", !.val = First(t).val, !.run = op[t].run]

\* The rows after db.flush(), which also inserts what was pending; of a new record
\* it inserts the UsageRecord, and the import row is pending from then on.
Flushed(t) ==
  LET rows == View(t) \o op[t].pending
  IN  IF op[t].found = 0 THEN rows ELSE [rows EXCEPT ![op[t].found] = Rewritten(t, @)]
Pending(t) ==
  IF op[t].found # 0 THEN <<>>
  ELSE <<[key |-> First(t).key, scheme |-> "current", val |-> First(t).val, run |-> op[t].run]>>

Write(t) ==
  /\ op[t].at = "write" /\ MayWrite(t)
  /\ \/ /\ Unique(Flushed(t))
        /\ writer' = t /\ draft' = Flushed(t)
        /\ Set(t, [Done(t) EXCEPT !.pending = Pending(t)])
        /\ UNCHANGED imports
     \/ ~Unique(Flushed(t)) /\ Rollback(t)
  /\ UNCHANGED <<day, runs>>

\* The first flush waits five seconds for another's lock and gives up.
WriteLocked(t) ==
  /\ op[t].at = "write" /\ ~MayWrite(t)
  /\ Rollback(t)
  /\ UNCHANGED <<day, runs>>

Imported(t) == op[t].at = "lookup" /\ op[t].batch = <<>>

\* A session without anything to flush commits without the lock.
Commit(t) ==
  /\ Imported(t)
  /\ \/ /\ writer = t /\ Unique(View(t) \o op[t].pending)
        /\ imports' = View(t) \o op[t].pending
        /\ writer' = None /\ draft' = <<>>
        /\ Set(t, [op[t] EXCEPT !.at = "finish", !.status = "success", !.pending = <<>>])
     \/ /\ writer = t /\ ~Unique(View(t) \o op[t].pending)
        /\ Rollback(t)
     \/ /\ writer # t
        /\ Set(t, [op[t] EXCEPT !.at = "finish", !.status = "success"])
        /\ UNCHANGED <<imports, writer, draft>>
  /\ UNCHANGED <<day, runs>>

\* plan_normalized_records: the records of a dry run are looked up and reported,
\* and nothing is written.
Plan(t) ==
  /\ op[t].at = "plan"
  /\ Set(t, [op[t] EXCEPT !.at = "finish", !.status = "success"])
  /\ UNCHANGED <<day, runs, imports, writer, draft>>

(***************************************************************************)
(* The end of the run, in a commit of its own.                             *)
(***************************************************************************)
Finish(t) ==
  /\ op[t].at = "finish" /\ writer = None
  /\ runs' = [runs EXCEPT ![op[t].run].status = op[t].status]
  /\ Set(t, Idle)
  /\ UNCHANGED <<day, imports, writer, draft>>

\* Nothing catches a locked database there: the run stays as it is.
RunLocked(t) ==
  /\ op[t].at \in {"create", "finish"} /\ ~MayWrite(t)
  /\ Set(t, Idle)
  /\ UNCHANGED <<day, runs, imports, writer, draft>>

\* The process is killed; SQLite rolls the open transaction back.
Crash ==
  /\ op' = [t \in Requests |-> Idle]
  /\ writer' = None /\ draft' = <<>>
  /\ UNCHANGED <<day, runs, imports>>

NewDay ==
  /\ day < MaxDay /\ day' = day + 1
  /\ UNCHANGED <<runs, imports, writer, draft, op>>

\* The table is empty, or holds rows of an earlier version or of earlier runs.
Init ==
  /\ day = 0 /\ runs = <<>> /\ writer = None /\ draft = <<>>
  /\ imports \in {<<>>} \cup {<<r>> : r \in [key : Keys, scheme : {"legacy", "current"},
                                             val : Values, run : {0}]}
  /\ op = [t \in Requests |-> Idle]

Step(t) ==
  \/ CreateRun(t) \/ NotConfigured(t) \/ CollectFails(t) \/ RejectRecord(t) \/ SkipRecord(t)
  \/ FindCurrent(t) \/ FindLegacy(t) \/ Write(t) \/ WriteLocked(t) \/ Commit(t) \/ Plan(t)
  \/ Finish(t) \/ RunLocked(t)
  \/ \E batch \in Batches : Collect(t, batch)

Next ==
  \/ \E t \in Requests, dry, disabled \in BOOLEAN : Ask(t, dry, disabled)
  \/ \E t \in Requests : Step(t)
  \/ Crash \/ NewDay

Spec == Init /\ [][Next]_vars

(***************************************************************************)
(* Properties.                                                             *)
(***************************************************************************)
TypeOK ==
  /\ day \in Days /\ writer \in Requests \cup {None}
  /\ runs \in Seq(Run) /\ Len(runs) <= MaxRuns
  /\ imports \in Seq(Row) /\ draft \in Seq(Row)
  /\ op \in [Requests -> Op]

\* An import identity has one row, whatever scheme its key is written in and
\* whoever imports it at the same time: usage is never counted twice.
OneRecordPerIdentity == \A i, j \in DOMAIN imports : imports[i].key = imports[j].key => i = j

\* An import is all or nothing, at any instant and after any failure: a row names a
\* run that was to import it and has not failed, and a run that wrote a row, or ended
\* well, has left a row for everything it was to import.  A dry run imports nothing.
Wrote(r) == {imports[i].key : i \in {j \in DOMAIN imports : imports[j].run = r}}
BatchesAreAtomic ==
  \A r \in DOMAIN runs :
    /\ Wrote(r) \subseteq runs[r].keys
    /\ Wrote(r) # {} => runs[r].status \in {"started", "success"}
    /\ Wrote(r) # {} \/ runs[r].status = "success" => runs[r].keys \subseteq Current(imports)

\* Requests count the runs before they record their own, so the limit can be
\* passed, but only by those that were under way together.
LimitIsNearlyKept ==
  \A d \in Days :
    Cardinality({r \in DOMAIN runs : runs[r].day = d /\ runs[r].called})
      < MaxCalls + Cardinality(Requests)

\* An import does not fail over what it could have been told is there: when the unique
\* key stops it, the key was not in the table when the records came in and is there
\* now, brought by another import or by a row of its own that comes twice.
FailuresHaveAReason ==
  [][\A t \in Requests :
       op[t].at \in {"write", "lookup"} /\ op'[t].at = "finish" /\ op'[t].status = "failed"
         => \/ ~MayWrite(t)
            \/ op[t].batch # <<>> /\ First(t).kind = "invalid"
            \/ \E i \in DOMAIN op[t].pending :
                 op[t].pending[i].key \in Current(View(t)) \ op[t].known]_vars

\* Whatever stops an import, its session lets go of the write lock: only an import
\* that is under way has it, or every later request would find the database locked.
LockIsReleased ==
  /\ writer # None => op[writer].at \in {"lookup", "legacy", "write"}
  /\ \A t \in Requests : op[t].pending # <<>> => writer = t

\* tests/test_collector_importer.py: a record that comes twice in one batch is saved
\* once and does not fail the import.
RepeatsAreSavedOnce ==
  [][\A t \in Requests : Imported(t) /\ writer = t => op'[t].status # "failed"]_vars
==============================================================================
