------------------------ MODULE CollectorRunsProofs ------------------------
(***************************************************************************)
(* Proofs about CollectorRuns, for any number of requests and whatever the *)
(* vendor returns.                                                         *)
(*                                                                         *)
(* Nobody adds a legacy key, so what a lookup did not find under a legacy  *)
(* key stays away; what it did not find under a current key is checked     *)
(* again by the unique key when the row is flushed.  The invariant IInv    *)
(* says this of the rows that a request sees, its own draft or the table.  *)
(* On top of it, AInv accounts for the records of a run one by one, from   *)
(* the batch to the table, and LimitInv counts the runs of a day that      *)
(* call the vendor together with the requests still to be recorded.        *)
(***************************************************************************)
EXTENDS CollectorRuns, SequenceTheorems, FiniteSetTheorems, TLAPS

Distinct(rows)   == \A i, j \in DOMAIN rows : rows[i].key = rows[j].key => i = j
LegacyKeys(rows) == {rows[i].key : i \in {j \in DOMAIN rows : rows[j].scheme = "legacy"}}

\* What is pending is a new identity, for the table and for the lookups so far.
Fresh(o, rows) ==
  /\ Len(o.pending) <= 1
  /\ \A i \in DOMAIN o.pending :
       /\ o.pending[i].scheme = "current"
       /\ o.pending[i].key \notin LegacyKeys(rows) \cup o.known

\* What a request's lookups have told it fits the rows that it sees.
Fits(o, rows, writes) ==
  /\ writes => o.at \in {"lookup", "legacy", "write"}
  /\ o.pending # <<>> => writes
  /\ o.at \in {"legacy", "write"} => o.batch # <<>> /\ Head(o.batch).kind = "kept"
  /\ o.at \in {"lookup", "legacy", "write"} => o.known \subseteq Current(rows)
  /\ o.at = "legacy" \/ (o.at = "write" /\ o.found = 0) => Head(o.batch).key \notin o.known
  /\ o.at = "write" /\ o.found = 0 => Head(o.batch).key \notin LegacyKeys(rows)
  /\ Fresh(o, rows)

TableFits ==
  /\ Distinct(imports)
  /\ writer # None => /\ Distinct(draft)
                      /\ LegacyKeys(draft) \subseteq LegacyKeys(imports)
                      /\ Current(imports) \subseteq Current(draft)

IInv == TypeOK /\ TableFits /\ \A t \in Requests : Fits(op[t], View(t), writer = t)

-----------------------------------------------------------------------------
LEMMA IdleTyped == Idle \in Op /\ Idle.pending = <<>> /\ Idle.at = "idle"
BY BoundAssumption, EmptySeq DEF Idle, Op

LEMMA IdleFits == \A rows : Fits(Idle, rows, FALSE)
BY IdleTyped DEF Fits, Fresh, Idle

LEMMA InitHolds == Init => IInv
<1> SUFFICES ASSUME Init PROVE IInv
  OBVIOUS
<1>1. imports \in Seq(Row) /\ Distinct(imports)
  <2>1. CASE imports = <<>>
    BY <2>1, EmptySeq DEF Distinct
  <2>2. CASE imports # <<>>
    <3>1. PICK r \in [key : Keys, scheme : {"legacy", "current"}, val : Values, run : {0}] :
             imports = <<r>>
      BY <2>2 DEF Init
    <3>2. r \in Row
      BY BoundAssumption DEF Row
    <3> QED BY <3>1, <3>2 DEF Distinct
  <2> QED BY <2>1, <2>2
<1>2. TypeOK
  BY <1>1, IdleTyped, BoundAssumption, EmptySeq DEF Init, TypeOK, Days
<1>3. TableFits
  BY <1>1 DEF Init, TableFits
<1>4. \A t \in Requests : Fits(op[t], View(t), writer = t)
  BY IdleFits, NoneAssumption DEF Init
<1> QED BY <1>2, <1>3, <1>4 DEF IInv

-----------------------------------------------------------------------------
(* Tables.                                                                 *)

\* A flush appends new identities and may rewrite rows, whose keys it keeps: what
\* the unique key lets through has one row for every identity.
LEMMA FlushKeeps ==
  ASSUME NEW rows \in Seq(Row), NEW added \in Seq(Row), NEW new \in Seq(Row),
         Distinct(rows), Len(added) <= 1,
         \A i \in DOMAIN added : /\ added[i].scheme = "current"
                                 /\ added[i].key \notin LegacyKeys(rows),
         Len(new) = Len(rows) + Len(added),
         \A i \in DOMAIN new : /\ new[i].key = (rows \o added)[i].key
                               /\ new[i].scheme \in {(rows \o added)[i].scheme, "current"}
  PROVE  /\ LegacyKeys(new) \subseteq LegacyKeys(rows)
         /\ Current(rows) \subseteq Current(new)
         /\ Unique(new) => Distinct(new)
         /\ added = <<>> => Unique(new)
<1> DEFINE all == rows \o added
<1>1. /\ DOMAIN rows = 1 .. Len(rows) /\ DOMAIN new = 1 .. Len(new)
      /\ DOMAIN added = 1 .. Len(added) /\ Len(rows) \in Nat /\ Len(added) \in Nat
  BY LenProperties
<1>2. \A i \in DOMAIN new :
        /\ i \in DOMAIN rows => all[i] = rows[i]
        /\ i \notin DOMAIN rows => i = Len(rows) + 1 /\ all[i] = added[1] /\ 1 \in DOMAIN added
  BY <1>1, ConcatProperties
<1>3. DOMAIN rows \subseteq DOMAIN new
  BY <1>1
<1> HIDE DEF all
<1>4. \A i \in DOMAIN new : new[i].key = all[i].key /\ new[i].scheme \in {all[i].scheme, "current"}
  BY DEF all
<1>5. ASSUME NEW i \in DOMAIN new, new[i].scheme = "legacy"
      PROVE  i \in DOMAIN rows /\ rows[i].scheme = "legacy" /\ rows[i].key = new[i].key
  BY <1>2, <1>4, <1>5
<1>6. LegacyKeys(new) \subseteq LegacyKeys(rows)
  BY <1>5 DEF LegacyKeys
<1>7. Current(rows) \subseteq Current(new)
  BY <1>2, <1>3, <1>4 DEF Current
<1>8. ASSUME Unique(new) PROVE Distinct(new)
  <2> SUFFICES ASSUME NEW i \in DOMAIN new, NEW j \in DOMAIN new, new[i].key = new[j].key
               PROVE  i = j
    BY DEF Distinct
  <2>1. CASE i \in DOMAIN rows /\ j \in DOMAIN rows
    BY <2>1, <1>2, <1>4 DEF Distinct
  <2>2. CASE i \notin DOMAIN rows /\ j \notin DOMAIN rows
    BY <2>2, <1>2
  <2>3. ASSUME NEW a \in DOMAIN new, NEW b \in DOMAIN new, new[a].key = new[b].key,
               a \in DOMAIN rows, b \notin DOMAIN rows
        PROVE  a = b
    <3>1. new[b].scheme = "current" /\ new[b].key \notin LegacyKeys(rows)
      BY <2>3, <1>2, <1>4
    <3>2. new[a].scheme # "legacy"
      BY <2>3, <3>1, <1>5 DEF LegacyKeys
    <3>3. rows[a] \in Row /\ new[a] \in Row
      BY <2>3, ElementOfSeq, <1>1
    <3>4. new[a].scheme = "current"
      BY <3>2, <3>3 DEF Row
    <3> QED BY <2>3, <3>1, <3>4, <1>8 DEF Unique
  <2> QED BY <2>1, <2>2, <2>3
<1>9. ASSUME added = <<>> PROVE Unique(new)
  <2>1. DOMAIN added = {}
    BY <1>9
  <2>2. \A i \in DOMAIN new : i \in DOMAIN rows /\ new[i].key = rows[i].key
    BY <2>1, <1>2, <1>4
  <2> QED BY <2>2 DEF Unique, Distinct
<1> QED BY <1>6, <1>7, <1>8, <1>9

LEMMA KeysTyped ==
  ASSUME NEW rows \in Seq(Row)
  PROVE  Current(rows) \subseteq Keys
<1>1. \A i \in DOMAIN rows : rows[i] \in Row
  BY ElementOfSeq, LenProperties
<1>2. \A i \in DOMAIN rows : rows[i].key \in Keys
  BY <1>1 DEF Row
<1> QED BY <1>2 DEF Current

LEMMA RunUpdated ==
  ASSUME NEW rs \in Seq(Run), NEW k, NEW r \in Run
  PROVE  [rs EXCEPT ![k] = r] \in Seq(Run) /\ Len([rs EXCEPT ![k] = r]) = Len(rs)
<1>1. CASE k \in 1 .. Len(rs)
  BY <1>1, ExceptSeq
<1>2. CASE k \notin 1 .. Len(rs)
  <2>1. [rs EXCEPT ![k] = r] = rs
    BY <1>2, LenProperties
  <2> QED BY <2>1
<1> QED BY <1>1, <1>2

-----------------------------------------------------------------------------
(* The ways in which a step changes the tables.                            *)

\* Days and runs, which no other part of the invariant looks at.
Logged == day' \in Days /\ runs' \in Seq(Run) /\ Len(runs') <= MaxRuns

\* Fits holds of every request but t because it sees what it saw, or a table with
\* fewer legacy and more current keys.
LEMMA FitsMore ==
  ASSUME NEW o, NEW rows, NEW new, NEW w \in BOOLEAN, Fits(o, rows, w),
         LegacyKeys(new) \subseteq LegacyKeys(rows), Current(rows) \subseteq Current(new)
  PROVE  Fits(o, new, w)
BY DEF Fits, Fresh

LEMMA LocalStep ==
  ASSUME IInv, NEW t \in Requests, NEW o \in Op, Fits(o, View(t), writer = t), Set(t, o),
         UNCHANGED <<imports, writer, draft>>, Logged
  PROVE  IInv'
<1>1. TypeOK'
  BY DEF IInv, TypeOK, Set, Logged
<1>2. TableFits'
  BY DEF IInv, TableFits
<1>3. ASSUME NEW u \in Requests PROVE Fits(op[u], View(u), writer = u)'
  <2>1. View(u)' = View(u) /\ (writer = u)' = (writer = u)
    BY DEF View
  <2>2. op'[u] = IF u = t THEN o ELSE op[u]
    BY DEF IInv, TypeOK, Set
  <2>3. Fits(op'[u], View(u), writer = u)
    BY <2>2 DEF IInv
  <2> QED BY <2>1, <2>3
<1> QED BY <1>1, <1>2, <1>3 DEF IInv

\* A session that lets go of the lock, if it has it, and of its draft.
LEMMA ReleaseStep ==
  ASSUME IInv, NEW t \in Requests, NEW o \in Op, Set(t, o), \A rows : Fits(o, rows, FALSE),
         UNCHANGED imports, Logged,
         IF writer = t THEN writer' = None /\ draft' = <<>> ELSE UNCHANGED <<writer, draft>>
  PROVE  IInv'
<1>0. t # None
  BY NoneAssumption
<1>1. TypeOK'
  BY EmptySeq DEF IInv, TypeOK, Set, Logged
<1>2. TableFits'
  BY DEF IInv, TableFits
<1>3. ASSUME NEW u \in Requests PROVE Fits(op[u], View(u), writer = u)'
  <2>1. CASE u = t
    <3>1. op'[u] = o /\ writer' # u
      BY <2>1, <1>0 DEF IInv, TypeOK, Set
    <3> QED BY <3>1
  <2>2. CASE u # t
    <3>1. op'[u] = op[u] /\ (writer' = u) = (writer = u) /\ View(u)' = View(u)
      BY <2>2, NoneAssumption DEF IInv, TypeOK, Set, View
    <3>2. Fits(op[u], View(u), writer = u)
      BY DEF IInv
    <3>3. Fits(op'[u], View(u)', writer' = u)
      BY <3>1, <3>2
    <3> QED BY <3>3
  <2> QED BY <2>1, <2>2
<1> QED BY <1>1, <1>2, <1>3 DEF IInv

\* A flush: t has the lock, and the rows that it sees are new.
LEMMA FlushStep ==
  ASSUME IInv, NEW t \in Requests, NEW o \in Op, NEW new \in Seq(Row), Set(t, o),
         MayWrite(t), writer' = t, draft' = new, UNCHANGED imports, Logged,
         Distinct(new), LegacyKeys(new) \subseteq LegacyKeys(View(t)),
         Current(View(t)) \subseteq Current(new), Fits(o, new, TRUE)
  PROVE  IInv'
<1>0. t # None
  BY NoneAssumption
<1>1. TypeOK'
  BY DEF IInv, TypeOK, Set, Logged
<1>2. TableFits'
  BY <1>0 DEF IInv, TableFits, View, MayWrite
<1>3. ASSUME NEW u \in Requests PROVE Fits(op[u], View(u), writer = u)'
  <2>1. CASE u = t
    <3>1. op'[u] = o /\ View(u)' = new /\ (writer' = u) = TRUE
      BY <2>1 DEF IInv, TypeOK, Set, View
    <3>2. Fits(op'[u], View(u)', writer' = u)
      BY <3>1
    <3> QED BY <3>2
  <2>2. CASE u # t
    <3>1. op'[u] = op[u] /\ (writer' = u) = (writer = u) /\ View(u)' = View(u)
      BY <2>2, NoneAssumption DEF IInv, TypeOK, Set, View, MayWrite
    <3>2. Fits(op[u], View(u), writer = u)
      BY DEF IInv
    <3>3. Fits(op'[u], View(u)', writer' = u)
      BY <3>1, <3>2
    <3> QED BY <3>3
  <2> QED BY <2>1, <2>2
<1> QED BY <1>1, <1>2, <1>3 DEF IInv

\* A commit: what t drafted is the table, and nobody has the lock.
LEMMA CommitStep ==
  ASSUME IInv, NEW t \in Requests, NEW o \in Op, NEW new \in Seq(Row), Set(t, o),
         writer = t, writer' = None, draft' = <<>>, imports' = new, Logged,
         Distinct(new), LegacyKeys(new) \subseteq LegacyKeys(draft),
         Current(draft) \subseteq Current(new), \A rows : Fits(o, rows, FALSE)
  PROVE  IInv'
<1>0. t # None
  BY NoneAssumption
<1>1. TypeOK'
  BY EmptySeq DEF IInv, TypeOK, Set, Logged
<1>2. TableFits'
  BY DEF TableFits
<1>3. LegacyKeys(new) \subseteq LegacyKeys(imports) /\ Current(imports) \subseteq Current(new)
  BY <1>0 DEF IInv, TableFits
<1>4. ASSUME NEW u \in Requests PROVE Fits(op[u], View(u), writer = u)'
  <2>0. (writer' = u) = FALSE /\ View(u)' = new
    BY NoneAssumption DEF View
  <2>1. CASE u = t
    <3>1. op'[u] = o
      BY <2>1 DEF IInv, TypeOK, Set
    <3>2. Fits(op'[u], View(u)', writer' = u)
      BY <2>0, <3>1
    <3> QED BY <3>2
  <2>2. CASE u # t
    <3>1. op'[u] = op[u] /\ (writer = u) = FALSE /\ View(u) = imports
      BY <2>2 DEF IInv, TypeOK, Set, View
    <3>2. Fits(op[u], imports, FALSE)
      BY <3>1 DEF IInv
    <3>3. Fits(op[u], new, FALSE)
      BY <3>2, <1>3, FitsMore
    <3>4. Fits(op'[u], View(u)', writer' = u)
      BY <2>0, <3>1, <3>3
    <3> QED BY <3>4
  <2> QED BY <2>1, <2>2
<1> QED BY <1>1, <1>2, <1>4 DEF IInv

-----------------------------------------------------------------------------
(* The steps of a request.                                                 *)

LEMMA Locals ==
  ASSUME IInv, NEW t \in Requests
  PROVE  /\ op[t] \in Op /\ Fits(op[t], View(t), writer = t)
         /\ runs \in Seq(Run) /\ Len(runs) <= MaxRuns /\ day \in Days /\ View(t) \in Seq(Row)
         /\ op[t].batch \in Seq(Record) /\ op[t].pending \in Seq(Row)
BY DEF IInv, TypeOK, View, Op

LEMMA FirstTyped ==
  ASSUME IInv, NEW t \in Requests, op[t].batch # <<>>
  PROVE  /\ First(t) \in Record /\ Tail(op[t].batch) \in Seq(Record)
         /\ First(t).kind = "kept" => First(t).key \in Keys /\ First(t).val \in Values
<1>1. op[t].batch \in Seq(Record)
  BY Locals
<1>2. First(t) \in Record /\ Tail(op[t].batch) \in Seq(Record)
  BY <1>1, HeadTailProperties DEF First
<1> QED BY <1>2 DEF Record

\* A request that does not write has nothing pending, and is anywhere it likes.
LEMMA Quiet ==
  ASSUME IInv, NEW t \in Requests, writer # t
  PROVE  op[t].pending = <<>>
BY Locals DEF Fits

LEMMA OutsideIsQuiet ==
  ASSUME IInv, NEW t \in Requests, op[t].at \notin {"lookup", "legacy", "write"}
  PROVE  writer # t /\ op[t].pending = <<>>
BY Locals DEF Fits

LEMMA FitsAnyTable ==
  ASSUME NEW o, o.pending = <<>>, o.at \notin {"lookup", "legacy", "write"}
  PROVE  \A rows : Fits(o, rows, FALSE)
BY DEF Fits, Fresh

LEMMA AskStep ==
  ASSUME IInv, NEW t \in Requests, NEW dry \in BOOLEAN, NEW disabled \in BOOLEAN,
         Ask(t, dry, disabled)
  PROVE  IInv'
<1> DEFINE o == [Idle EXCEPT !.at = "create", !.dry = dry,
                             !.status = IF disabled \/ OverLimit THEN "blocked" ELSE "started"]
<1>1. Set(t, o) /\ op[t].at = "idle" /\ UNCHANGED <<day, runs, imports, writer, draft>>
  BY DEF Ask
<1>2. o \in Op /\ o.pending = <<>> /\ o.at = "create"
  BY IdleTyped DEF Op, Idle
<1> HIDE DEF o
<1>3. \A rows : Fits(o, rows, FALSE)
  BY <1>2, FitsAnyTable
<1>4. Fits(o, View(t), writer = t) /\ Logged
  BY <1>1, <1>3, OutsideIsQuiet, Locals DEF Logged
<1> QED BY <1>1, <1>2, <1>4, LocalStep

\* A step that goes to o, outside the import, and changes no table of imports.
LEMMA OutsideStep ==
  ASSUME IInv, NEW t \in Requests, NEW o \in Op, Set(t, o), Logged, writer # t,
         o.pending = <<>>, o.at \notin {"lookup", "legacy", "write"},
         UNCHANGED <<imports, writer, draft>>
  PROVE  IInv'
BY FitsAnyTable, LocalStep

LEMMA RunSteps ==
  ASSUME IInv, NEW t \in Requests,
         CreateRun(t) \/ NotConfigured(t) \/ CollectFails(t) \/ Plan(t) \/ Finish(t) \/ RunLocked(t)
  PROVE  IInv'
<1>0. /\ op[t] \in Op /\ runs \in Seq(Run) /\ Len(runs) <= MaxRuns /\ day \in Days
      /\ MaxRuns \in Nat
  BY Locals, BoundAssumption
<1>1. op[t].at \notin {"lookup", "legacy", "write"}
  BY DEF CreateRun, NotConfigured, CollectFails, Plan, Finish, RunLocked
<1>2. writer # t /\ op[t].pending = <<>>
  BY <1>1, OutsideIsQuiet
<1>3. CASE CreateRun(t)
  <2> DEFINE r == [day |-> day, called |-> FALSE, keys |-> {}, status |-> "started"]
             o == [op[t] EXCEPT !.run = Len(runs'),
                                !.at = IF op[t].status = "blocked" THEN "finish" ELSE "collect"]
  <2>1. r \in Run
    BY <1>0 DEF Run
  <2>2. /\ Set(t, o) /\ runs' = Append(runs, r) /\ Len(runs) < MaxRuns
        /\ UNCHANGED <<day, imports, writer, draft>>
    BY <1>3 DEF CreateRun
  <2>3. runs' \in Seq(Run) /\ Len(runs') = Len(runs) + 1 /\ Len(runs) \in Nat
    <3> HIDE DEF r
    <3> QED BY <1>0, <2>1, <2>2, AppendProperties, LenProperties
  <2>4. Logged /\ Len(runs') \in 0 .. MaxRuns
    BY <1>0, <2>2, <2>3 DEF Logged
  <2>5. o \in Op /\ o.pending = <<>> /\ o.at \in {"finish", "collect"}
    BY <1>0, <1>2, <2>4 DEF Op
  <2> HIDE DEF o
  <2> QED BY <1>2, <2>2, <2>4, <2>5, OutsideStep
<1>4. CASE NotConfigured(t)
  <2> DEFINE o == [op[t] EXCEPT !.at = "finish", !.status = "blocked"]
  <2>1. Set(t, o) /\ Logged /\ UNCHANGED <<imports, writer, draft>>
    BY <1>0, <1>4 DEF NotConfigured, Logged
  <2>2. o \in Op /\ o.pending = <<>> /\ o.at = "finish"
    BY <1>0, <1>2 DEF Op
  <2> HIDE DEF o
  <2> QED BY <1>2, <2>1, <2>2, OutsideStep
<1>5. CASE CollectFails(t)
  <2> DEFINE o == [op[t] EXCEPT !.at = "finish", !.status = "failed"]
  <2>1. Set(t, o) /\ UNCHANGED <<day, imports, writer, draft>>
    BY <1>5 DEF CollectFails
  <2>2. runs' \in Seq(Run) /\ Len(runs') = Len(runs)
    <3> DEFINE k == op[t].run
               r == [runs[k] EXCEPT !.called = TRUE]
    <3>1. runs' = [runs EXCEPT ![k] = r]
      BY <1>5 DEF CollectFails
    <3>2. CASE k \in 1 .. Len(runs)
      <4>0. runs[k] \in Run
        BY <1>0, <3>2, ElementOfSeq
      <4>1. r \in Run
        BY <4>0 DEF Run
      <4> HIDE DEF k, r
      <4> QED BY <1>0, <3>1, <4>1, RunUpdated
    <3>3. CASE k \notin 1 .. Len(runs)
      <4> HIDE DEF k, r
      <4>1. runs' = runs
        BY <1>0, <3>1, <3>3, LenProperties
      <4> QED BY <1>0, <4>1
    <3> QED BY <3>2, <3>3
  <2>3. Logged
    BY <1>0, <2>1, <2>2 DEF Logged
  <2>4. o \in Op /\ o.pending = <<>> /\ o.at = "finish"
    BY <1>0, <1>2 DEF Op
  <2> HIDE DEF o
  <2> QED BY <1>2, <2>1, <2>3, <2>4, OutsideStep
<1>6. CASE Plan(t)
  <2> DEFINE o == [op[t] EXCEPT !.at = "finish", !.status = "success"]
  <2>1. Set(t, o) /\ Logged /\ UNCHANGED <<imports, writer, draft>>
    BY <1>0, <1>6 DEF Plan, Logged
  <2>2. o \in Op /\ o.pending = <<>> /\ o.at = "finish"
    BY <1>0, <1>2 DEF Op
  <2> HIDE DEF o
  <2> QED BY <1>2, <2>1, <2>2, OutsideStep
<1>7. CASE Finish(t)
  <2>1. Set(t, Idle) /\ UNCHANGED <<day, imports, writer, draft>>
    BY <1>7 DEF Finish
  <2>2. runs' \in Seq(Run) /\ Len(runs') = Len(runs)
    <3> DEFINE k == op[t].run
               r == [runs[k] EXCEPT !.status = op[t].status]
    <3>1. runs' = [runs EXCEPT ![k] = r]
      BY <1>7 DEF Finish
    <3>2. CASE k \in 1 .. Len(runs)
      <4>1. op[t].status \in {"started", "success", "failed", "blocked"}
        BY <1>0 DEF Op
      <4>0. runs[k] \in Run
        BY <1>0, <3>2, ElementOfSeq
      <4>2. r \in Run
        BY <4>0, <4>1 DEF Run
      <4> HIDE DEF k, r
      <4> QED BY <1>0, <3>1, <4>2, RunUpdated
    <3>3. CASE k \notin 1 .. Len(runs)
      <4> HIDE DEF k, r
      <4>1. runs' = runs
        BY <1>0, <3>1, <3>3, LenProperties
      <4> QED BY <1>0, <4>1
    <3> QED BY <3>2, <3>3
  <2>3. Logged
    BY <1>0, <2>1, <2>2 DEF Logged
  <2> QED BY <1>2, <2>1, <2>3, IdleTyped, OutsideStep
<1>8. CASE RunLocked(t)
  <2>1. Set(t, Idle) /\ Logged /\ UNCHANGED <<imports, writer, draft>>
    BY <1>0, <1>8 DEF RunLocked, Logged
  <2> QED BY <1>2, <2>1, IdleTyped, OutsideStep
<1> QED BY <1>3, <1>4, <1>5, <1>6, <1>7, <1>8

LEMMA CollectStep ==
  ASSUME IInv, NEW t \in Requests, NEW batch \in Batches, Collect(t, batch)
  PROVE  IInv'
<1> DEFINE keys == KeysOf(batch)
           plan == [op[t] EXCEPT !.at = "plan"]
           take == [op[t] EXCEPT !.at = "lookup", !.batch = batch, !.known = Current(imports)]
<1>0. /\ op[t] \in Op /\ runs \in Seq(Run) /\ Len(runs) <= MaxRuns /\ day \in Days
      /\ imports \in Seq(Row) /\ batch \in Seq(Record)
  BY Locals, BatchAssumption DEF IInv, TypeOK
<1>1. op[t].at = "collect" /\ writer # t /\ op[t].pending = <<>>
  BY OutsideIsQuiet DEF Collect
<1>2. \A i \in DOMAIN batch : batch[i] \in Record
  BY <1>0, ElementOfSeq, LenProperties
<1>3. keys \subseteq Keys
  <2>1. \A i \in DOMAIN batch : batch[i].kind = "kept" => batch[i].key \in Keys
    BY <1>2 DEF Record
  <2> QED BY <2>1 DEF KeysOf
<1>4. UNCHANGED <<day, imports, writer, draft>>
  BY DEF Collect
<1>5. Logged
  <2> DEFINE k == op[t].run
             r == [runs[k] EXCEPT !.called = TRUE]
             q == [runs[k] EXCEPT !.called = TRUE, !.keys = keys]
  <2>1. runs' = [runs EXCEPT ![k] = r] \/ runs' = [runs EXCEPT ![k] = q]
    <3>1. \/ runs' = [runs EXCEPT ![op[t].run].called = TRUE]
          \/ runs' = [runs EXCEPT ![op[t].run].called = TRUE, ![op[t].run].keys = keys]
      BY DEF Collect
    <3>2. CASE runs' = [runs EXCEPT ![op[t].run].called = TRUE]
      BY <3>2
    <3>3. CASE runs' = [runs EXCEPT ![op[t].run].called = TRUE, ![op[t].run].keys = keys]
      <4> HIDE DEF keys
      <4> QED BY <3>3, <1>0
    <3> QED BY <3>1, <3>2, <3>3
  <2>2. CASE k \in 1 .. Len(runs)
    <3>1. runs[k] \in Run
      BY <1>0, <2>2, ElementOfSeq
    <3>2. r \in Run /\ q \in Run
      <4> HIDE DEF keys
      <4> QED BY <1>3, <3>1 DEF Run
    <3>3. runs' \in Seq(Run) /\ Len(runs') = Len(runs)
      <4> HIDE DEF k, r, q
      <4>1. [runs EXCEPT ![k] = r] \in Seq(Run) /\ Len([runs EXCEPT ![k] = r]) = Len(runs)
        BY <1>0, <3>2, RunUpdated
      <4>2. [runs EXCEPT ![k] = q] \in Seq(Run) /\ Len([runs EXCEPT ![k] = q]) = Len(runs)
        BY <1>0, <3>2, RunUpdated
      <4> QED BY <2>1, <4>1, <4>2
    <3> QED BY <1>0, <1>4, <3>3 DEF Logged
  <2>3. CASE k \notin 1 .. Len(runs)
    <3> HIDE DEF k, r, q
    <3>1. runs' = runs
      BY <1>0, <2>1, <2>3, LenProperties
    <3> QED BY <1>0, <1>4, <3>1 DEF Logged
  <2> QED BY <2>2, <2>3
<1>6. CASE Set(t, plan)
  <2>1. plan \in Op /\ plan.pending = <<>> /\ plan.at = "plan"
    BY <1>0, <1>1 DEF Op
  <2> HIDE DEF plan
  <2> QED BY <1>1, <1>4, <1>5, <1>6, <2>1, OutsideStep
<1>7. CASE Set(t, take)
  <2>1. Current(imports) \subseteq Keys
    BY <1>0, KeysTyped
  <2>2. /\ take \in Op /\ take.pending = <<>> /\ take.at = "lookup"
        /\ take.known = Current(imports)
    BY <1>0, <1>1, <2>1 DEF Op
  <2> HIDE DEF take
  <2>3. View(t) = imports /\ (writer = t) = FALSE
    BY <1>1 DEF View
  <2>4. Fits(take, imports, FALSE)
    BY <2>2 DEF Fits, Fresh
  <2>5. Fits(take, View(t), writer = t)
    BY <2>3, <2>4
  <2> QED BY <1>4, <1>5, <1>7, <2>2, <2>5, LocalStep
<1>8. Set(t, plan) \/ Set(t, take)
  BY DEF Collect
<1> QED BY <1>6, <1>7, <1>8

LEMMA DoneTyped ==
  ASSUME IInv, NEW t \in Requests, op[t].batch # <<>>
  PROVE  /\ Done(t) \in Op /\ Done(t).at = "lookup"
         /\ Done(t).pending = op[t].pending /\ Done(t).known = op[t].known
<1>1. op[t] \in Op /\ Tail(op[t].batch) \in Seq(Record)
  BY Locals, FirstTyped
<1> QED BY <1>1 DEF Done, Op

\* A record is done with and leaves nothing to write.
LEMMA DoneStep ==
  ASSUME IInv, NEW t \in Requests, op[t].batch # <<>>, op[t].at = "lookup",
         Set(t, Done(t)), UNCHANGED <<day, runs, imports, writer, draft>>
  PROVE  IInv'
<1>1. Logged
  BY Locals DEF Logged
<1>2. Fits(Done(t), View(t), writer = t)
  BY Locals, DoneTyped DEF Fits, Fresh
<1> QED BY <1>1, <1>2, DoneTyped, LocalStep

\* The import goes on with its first record, at another place.
LEMMA DecideStep ==
  ASSUME IInv, NEW t \in Requests, NEW o \in Op, Set(t, o),
         UNCHANGED <<day, runs, imports, writer, draft>>,
         op[t].at \in {"lookup", "legacy"}, op[t].batch # <<>>, First(t).kind = "kept",
         o.at \in {"legacy", "write"}, o.batch = op[t].batch, o.pending = op[t].pending,
         o.known = op[t].known,
         o.at = "legacy" \/ o.found = 0 => First(t).key \notin op[t].known,
         o.at = "write" /\ o.found = 0 => First(t).key \notin LegacyKeys(View(t))
  PROVE  IInv'
<1>1. Logged
  BY Locals DEF Logged
<1>2. Fits(op[t], View(t), writer = t)
  BY Locals
<1>3. Fits(o, View(t), writer = t)
  BY <1>2 DEF Fits, Fresh, First
<1> QED BY <1>1, <1>3, LocalStep

LEMMA FindSteps ==
  ASSUME IInv, NEW t \in Requests, SkipRecord(t) \/ FindCurrent(t) \/ FindLegacy(t)
  PROVE  IInv'
<1>0. /\ op[t] \in Op /\ Fits(op[t], View(t), writer = t) /\ View(t) \in Seq(Row)
      /\ DOMAIN View(t) = 1 .. Len(View(t)) /\ Len(View(t)) \in Nat
  BY Locals, LenProperties
<1>1. UNCHANGED <<day, runs, imports, writer, draft>>
  BY DEF SkipRecord, FindCurrent, FindLegacy
<1>2. CASE SkipRecord(t)
  BY <1>1, <1>2, DoneStep DEF SkipRecord, Looking
<1>3. CASE FindCurrent(t)
  <2>0. op[t].at = "lookup" /\ op[t].batch # <<>> /\ First(t).kind = "kept"
    BY <1>3 DEF FindCurrent, Looking
  <2>1. CASE CurrentRows(t) = {} /\ Set(t, [op[t] EXCEPT !.at = "legacy"])
    <3> DEFINE o == [op[t] EXCEPT !.at = "legacy"]
    <3>1. /\ o \in Op /\ o.at = "legacy" /\ o.batch = op[t].batch
          /\ o.pending = op[t].pending /\ o.known = op[t].known
      BY <1>0 DEF Op
    <3>2. First(t).key \notin Current(View(t))
      BY <2>1 DEF CurrentRows, Rows, Current
    <3>3. First(t).key \notin op[t].known
      BY <1>0, <2>0, <3>2 DEF Fits
    <3> HIDE DEF o
    <3>4. Set(t, o)
      BY <2>1 DEF o
    <3> QED BY <1>1, <2>0, <3>1, <3>3, <3>4, DecideStep
  <2>2. CASE Set(t, Done(t))
    BY <1>1, <2>0, <2>2, DoneStep
  <2>3. ASSUME NEW i \in CurrentRows(t), Set(t, [op[t] EXCEPT !.at = "write", !.found = i])
        PROVE  IInv'
    <3> DEFINE o == [op[t] EXCEPT !.at = "write", !.found = i]
    <3>1. i \in Nat \ {0}
      BY <1>0, <2>3 DEF CurrentRows, Rows
    <3>2. /\ o \in Op /\ o.at = "write" /\ o.batch = op[t].batch
          /\ o.pending = op[t].pending /\ o.known = op[t].known /\ o.found # 0
      BY <1>0, <3>1 DEF Op
    <3> HIDE DEF o
    <3>3. Set(t, o)
      BY <2>3 DEF o
    <3> QED BY <1>1, <2>0, <3>2, <3>3, DecideStep
  <2> QED BY <1>3, <2>1, <2>2, <2>3 DEF FindCurrent
<1>4. CASE FindLegacy(t)
  <2>0. /\ op[t].at = "legacy" /\ op[t].batch # <<>> /\ First(t).kind = "kept"
        /\ First(t).key \notin op[t].known
    BY <1>0, <1>4 DEF FindLegacy, Fits, First
  <2>1. CASE LegacyRows(t) = {} /\ Set(t, [op[t] EXCEPT !.at = "write"])
    <3> DEFINE o == [op[t] EXCEPT !.at = "write"]
    <3>1. /\ o \in Op /\ o.at = "write" /\ o.batch = op[t].batch
          /\ o.pending = op[t].pending /\ o.known = op[t].known
      BY <1>0 DEF Op
    <3>2. First(t).key \notin LegacyKeys(View(t))
      BY <2>1 DEF LegacyRows, Rows, LegacyKeys
    <3> HIDE DEF o
    <3>3. Set(t, o)
      BY <2>1 DEF o
    <3> QED BY <1>1, <2>0, <3>1, <3>2, <3>3, DecideStep
  <2>2. ASSUME NEW i \in LegacyRows(t),
               Set(t, [op[t] EXCEPT !.at = "write", !.found = i,
                                    !.same = View(t)[i].val = First(t).val])
        PROVE  IInv'
    <3> DEFINE same == View(t)[i].val = First(t).val
               o == [op[t] EXCEPT !.at = "write", !.found = i, !.same = same]
    <3>1. i \in Nat \ {0} /\ same \in BOOLEAN
      BY <1>0, <2>2 DEF LegacyRows, Rows
    <3>4. Set(t, o)
      BY <2>2
    <3> HIDE DEF same
    <3>2. /\ o \in Op /\ o.at = "write" /\ o.batch = op[t].batch
          /\ o.pending = op[t].pending /\ o.known = op[t].known /\ o.found # 0
      BY <1>0, <3>1 DEF Op
    <3> HIDE DEF o
    <3> QED BY <1>1, <2>0, <3>2, <3>4, DecideStep
  <2> QED BY <1>4, <2>1, <2>2 DEF FindLegacy
<1> QED BY <1>2, <1>3, <1>4

-----------------------------------------------------------------------------
(* The steps that flush, commit or roll back.                              *)

LEMMA RollbackStep ==
  ASSUME IInv, NEW t \in Requests, Rollback(t), UNCHANGED <<day, runs>>
  PROVE  IInv'
<1>1. op[t] \in Op /\ Logged
  BY Locals DEF Logged
<1>2. Failed(t) \in Op /\ Failed(t).pending = <<>> /\ Failed(t).at = "finish"
  BY <1>1, EmptySeq DEF Failed, Op
<1>3. \A rows : Fits(Failed(t), rows, FALSE)
  BY <1>2, FitsAnyTable
<1> QED BY <1>1, <1>2, <1>3, ReleaseStep DEF Rollback

\* What a request sees has one row for every identity, and what it has pending is new.
LEMMA ViewFits ==
  ASSUME IInv, NEW t \in Requests
  PROVE  /\ View(t) \in Seq(Row) /\ op[t].pending \in Seq(Row)
         /\ Distinct(View(t)) /\ Len(op[t].pending) <= 1
         /\ \A i \in DOMAIN op[t].pending :
              /\ op[t].pending[i].scheme = "current"
              /\ op[t].pending[i].key \notin LegacyKeys(View(t))
              /\ op[t].pending[i].key \notin op[t].known
<1>1. Distinct(View(t))
  BY NoneAssumption DEF IInv, TableFits, View
<1> QED BY <1>1, Locals DEF Fits, Fresh

\* Row by row, what a flush leaves of what the session had and of what was pending.
LEMMA FlushedRows ==
  ASSUME IInv, NEW t \in Requests, op[t].at = "write"
  PROVE  /\ Flushed(t) \in Seq(Row)
         /\ Len(Flushed(t)) = Len(View(t)) + Len(op[t].pending)
         /\ \A i \in DOMAIN Flushed(t) :
              LET row == (View(t) \o op[t].pending)[i]
              IN  /\ Flushed(t)[i].key = row.key
                  /\ Flushed(t)[i].scheme \in {row.scheme, "current"}
                  /\ i = op[t].found => Flushed(t)[i].scheme = "current"
                  /\ \/ Flushed(t)[i].run = row.run
                     \/ i = op[t].found /\ Flushed(t)[i].run = op[t].run
<1> DEFINE rows == View(t) \o op[t].pending
<1>0. /\ op[t].batch # <<>> /\ First(t).kind = "kept" /\ op[t] \in Op
      /\ View(t) \in Seq(Row) /\ op[t].pending \in Seq(Row)
  BY Locals DEF Fits, First
<1>1. rows \in Seq(Row) /\ Len(rows) = Len(View(t)) + Len(op[t].pending)
  BY <1>0, ConcatProperties
<1>2. ASSUME NEW row \in Row
      PROVE  /\ Rewritten(t, row) \in Row /\ Rewritten(t, row).key = row.key
             /\ Rewritten(t, row).scheme = "current"
             /\ Rewritten(t, row).run \in {row.run, op[t].run}
  <2>1. First(t).val \in Values /\ op[t].run \in 0 .. MaxRuns
    BY <1>0, FirstTyped DEF Op
  <2> QED BY <2>1 DEF Rewritten, Row
<1>3. /\ Flushed(t) \in Seq(Row) /\ Len(Flushed(t)) = Len(rows)
      /\ \A i \in DOMAIN Flushed(t) :
           /\ Flushed(t)[i].key = rows[i].key
           /\ Flushed(t)[i].scheme \in {rows[i].scheme, "current"}
           /\ i = op[t].found => Flushed(t)[i].scheme = "current"
           /\ \/ Flushed(t)[i].run = rows[i].run
              \/ i = op[t].found /\ Flushed(t)[i].run = op[t].run
  <2>1. CASE op[t].found = 0
    <3>1. Flushed(t) = rows
      BY <2>1 DEF Flushed
    <3>2. 0 \notin DOMAIN rows
      <4> HIDE DEF rows
      <4> QED BY <1>1, LenProperties
    <3> QED BY <1>1, <2>1, <3>1, <3>2
  <2>2. CASE op[t].found # 0
    <3> DEFINE k == op[t].found
               r == Rewritten(t, rows[k])
    <3>1. Flushed(t) = [rows EXCEPT ![k] = r]
      BY <2>2 DEF Flushed
    <3>2. CASE k \in 1 .. Len(rows)
      <4>1. rows[k] \in Row
        <5> HIDE DEF rows
        <5> QED BY <1>1, <3>2, ElementOfSeq
      <4>2. /\ r \in Row /\ r.key = rows[k].key /\ r.scheme = "current"
            /\ r.run \in {rows[k].run, op[t].run}
        BY <4>1, <1>2
      <4>5. k = op[t].found
        OBVIOUS
      <4> HIDE DEF rows, k, r
      <4>3. /\ Flushed(t) \in Seq(Row) /\ Len(Flushed(t)) = Len(rows)
            /\ \A i \in 1 .. Len(rows) : Flushed(t)[i] = IF i = k THEN r ELSE rows[i]
        BY <1>1, <3>1, <3>2, <4>2, ExceptSeq
      <4>4. DOMAIN Flushed(t) = 1 .. Len(rows)
        BY <4>3, LenProperties
      <4> QED BY <4>2, <4>3, <4>4, <4>5
    <3>3. CASE k \notin 1 .. Len(rows)
      <4>5. k = op[t].found
        OBVIOUS
      <4> HIDE DEF rows, k, r
      <4>1. Flushed(t) = rows /\ DOMAIN rows = 1 .. Len(rows)
        BY <1>1, <3>1, <3>3, LenProperties
      <4> QED BY <1>1, <3>3, <4>1, <4>5
    <3> QED BY <3>2, <3>3
  <2> QED BY <2>1, <2>2
<1>4. Len(Flushed(t)) = Len(View(t)) + Len(op[t].pending)
  BY <1>1, <1>3
<1> QED BY <1>3, <1>4

LEMMA FlushedFits ==
  ASSUME IInv, NEW t \in Requests, op[t].at = "write"
  PROVE  /\ Flushed(t) \in Seq(Row)
         /\ LegacyKeys(Flushed(t)) \subseteq LegacyKeys(View(t))
         /\ Current(View(t)) \subseteq Current(Flushed(t))
         /\ Unique(Flushed(t)) => Distinct(Flushed(t))
         /\ op[t].pending = <<>> => Unique(Flushed(t))
<1> DEFINE added == op[t].pending
           new == Flushed(t)
<1>1. /\ View(t) \in Seq(Row) /\ added \in Seq(Row) /\ Distinct(View(t)) /\ Len(added) <= 1
      /\ \A i \in DOMAIN added : /\ added[i].scheme = "current"
                                 /\ added[i].key \notin LegacyKeys(View(t))
  BY ViewFits
<1>2. /\ new \in Seq(Row) /\ Len(new) = Len(View(t)) + Len(added)
      /\ \A i \in DOMAIN new : /\ new[i].key = (View(t) \o added)[i].key
                               /\ new[i].scheme \in {(View(t) \o added)[i].scheme, "current"}
  BY FlushedRows
<1> HIDE DEF added, new
<1>3. /\ LegacyKeys(new) \subseteq LegacyKeys(View(t))
      /\ Current(View(t)) \subseteq Current(new)
      /\ Unique(new) => Distinct(new)
      /\ added = <<>> => Unique(new)
  BY <1>1, <1>2, FlushKeeps
<1> QED BY <1>2, <1>3 DEF added, new

LEMMA WriteStep ==
  ASSUME IInv, NEW t \in Requests, Write(t) \/ WriteLocked(t)
  PROVE  IInv'
<1>1. CASE WriteLocked(t)
  BY <1>1, RollbackStep DEF WriteLocked
<1>2. CASE Write(t) /\ Rollback(t)
  BY <1>2, RollbackStep DEF Write
<1>3. CASE Write(t) /\ ~Rollback(t)
  <2> DEFINE o == [Done(t) EXCEPT !.pending = Pending(t)]
             new == Flushed(t)
  <2>0. /\ op[t].at = "write" /\ MayWrite(t) /\ Unique(new) /\ writer' = t /\ draft' = new
        /\ Set(t, o) /\ UNCHANGED <<imports, day, runs>>
    BY <1>3 DEF Write
  <2>1. /\ new \in Seq(Row) /\ LegacyKeys(new) \subseteq LegacyKeys(View(t))
        /\ Current(View(t)) \subseteq Current(new) /\ Distinct(new)
    BY <2>0, FlushedFits
  <2>2. /\ op[t] \in Op /\ Fits(op[t], View(t), writer = t) /\ Logged
        /\ op[t].batch # <<>> /\ First(t).kind = "kept"
    BY <2>0, Locals DEF Fits, First, Logged
  <2>3. First(t).key \in Keys /\ First(t).val \in Values /\ op[t].run \in 0 .. MaxRuns
    BY <2>2, FirstTyped DEF Op
  <2>4. /\ Pending(t) \in Seq(Row) /\ Len(Pending(t)) <= 1
        /\ \A i \in DOMAIN Pending(t) : /\ op[t].found = 0
                                        /\ Pending(t)[i].scheme = "current"
                                        /\ Pending(t)[i].key = First(t).key
    <3>1. CASE op[t].found # 0
      <4>1. Pending(t) = <<>>
        BY <3>1 DEF Pending
      <4> QED BY <4>1, EmptySeq
    <3>2. CASE op[t].found = 0
      <4> DEFINE r == [key |-> First(t).key, scheme |-> "current", val |-> First(t).val,
                       run |-> op[t].run]
      <4>1. r \in Row /\ r.scheme = "current" /\ r.key = First(t).key
        BY <2>3 DEF Row
      <4>2. Pending(t) = <<r>>
        BY <3>2 DEF Pending
      <4> HIDE DEF r
      <4> QED BY <3>2, <4>1, <4>2
    <3> QED BY <3>1, <3>2
  <2>5. o \in Op /\ o.at = "lookup" /\ o.pending = Pending(t) /\ o.known = op[t].known
    BY <2>2, <2>4, DoneTyped DEF Op
  <2>6. op[t].found = 0 => First(t).key \notin LegacyKeys(View(t)) \cup op[t].known
    BY <2>0, <2>2 DEF Fits, First
  <2>7. op[t].known \subseteq Current(View(t))
    BY <2>0, <2>2 DEF Fits
  <2> HIDE DEF o, new
  <2>8. Fits(o, new, TRUE)
    BY <2>1, <2>4, <2>5, <2>6, <2>7 DEF Fits, Fresh
  <2> QED BY <2>0, <2>1, <2>2, <2>5, <2>8, FlushStep
<1> QED BY <1>1, <1>2, <1>3

LEMMA JoinedFits ==
  ASSUME IInv, NEW t \in Requests
  PROVE  /\ View(t) \o op[t].pending \in Seq(Row)
         /\ LegacyKeys(View(t) \o op[t].pending) \subseteq LegacyKeys(View(t))
         /\ Current(View(t)) \subseteq Current(View(t) \o op[t].pending)
         /\ Unique(View(t) \o op[t].pending) => Distinct(View(t) \o op[t].pending)
         /\ op[t].pending = <<>> => Unique(View(t) \o op[t].pending)
<1> DEFINE added == op[t].pending
           joined == View(t) \o added
<1>0. /\ View(t) \in Seq(Row) /\ added \in Seq(Row) /\ Distinct(View(t)) /\ Len(added) <= 1
      /\ \A i \in DOMAIN added : /\ added[i].scheme = "current"
                                 /\ added[i].key \notin LegacyKeys(View(t))
  BY ViewFits
<1> HIDE DEF added
<1>1. joined \in Seq(Row) /\ Len(joined) = Len(View(t)) + Len(added)
  BY <1>0, ConcatProperties
<1>2. \A i \in DOMAIN joined : /\ joined[i].key = (View(t) \o added)[i].key
                               /\ joined[i].scheme \in {(View(t) \o added)[i].scheme, "current"}
  OBVIOUS
<1> HIDE DEF joined
<1>3. /\ LegacyKeys(joined) \subseteq LegacyKeys(View(t))
      /\ Current(View(t)) \subseteq Current(joined)
      /\ Unique(joined) => Distinct(joined)
      /\ added = <<>> => Unique(joined)
  BY <1>0, <1>1, <1>2, FlushKeeps
<1> QED BY <1>1, <1>3 DEF joined, added

LEMMA ImportEnds ==
  ASSUME IInv, NEW t \in Requests, Commit(t) \/ RejectRecord(t)
  PROVE  IInv'
<1>0. op[t] \in Op /\ Logged
  <2>1. UNCHANGED <<day, runs>>
    BY DEF Commit, RejectRecord
  <2> QED BY <2>1, Locals DEF Logged
<1>1. CASE RejectRecord(t) \/ (Commit(t) /\ Rollback(t))
  BY <1>1, RollbackStep DEF Commit, RejectRecord
<1>2. CASE Commit(t) /\ writer = t /\ ~Rollback(t)
  <2> DEFINE o == [op[t] EXCEPT !.at = "finish", !.status = "success", !.pending = <<>>]
             new == View(t) \o op[t].pending
  <2>1. Set(t, o) /\ imports' = new /\ writer' = None /\ draft' = <<>> /\ Unique(new)
    BY <1>2 DEF Commit
  <2>2. o \in Op /\ o.pending = <<>> /\ o.at = "finish"
    BY <1>0, EmptySeq DEF Op
  <2>3. /\ new \in Seq(Row) /\ Distinct(new) /\ LegacyKeys(new) \subseteq LegacyKeys(View(t))
        /\ Current(View(t)) \subseteq Current(new)
    BY <2>1, JoinedFits
  <2>4. View(t) = draft
    BY <1>2 DEF View
  <2> HIDE DEF o, new
  <2>5. \A rows : Fits(o, rows, FALSE)
    BY <2>2, FitsAnyTable
  <2> QED BY <1>0, <1>2, <2>1, <2>2, <2>3, <2>4, <2>5, CommitStep
<1>3. CASE Commit(t) /\ writer # t
  <2> DEFINE o == [op[t] EXCEPT !.at = "finish", !.status = "success"]
  <2>1. Set(t, o) /\ UNCHANGED <<imports, writer, draft>>
    BY <1>3 DEF Commit
  <2>2. o \in Op /\ o.pending = <<>> /\ o.at = "finish"
    BY <1>0, <1>3, Quiet DEF Op
  <2> HIDE DEF o
  <2> QED BY <1>0, <1>3, <2>1, <2>2, OutsideStep
<1> QED BY <1>1, <1>2, <1>3

LEMMA StepHolds == IInv /\ [Next]_vars => IInv'
<1> SUFFICES ASSUME IInv, [Next]_vars PROVE IInv'
  OBVIOUS
<1>1. CASE Crash
  <2>1. TypeOK'
    BY <1>1, IdleTyped, EmptySeq DEF Crash, IInv, TypeOK
  <2>2. TableFits'
    BY <1>1 DEF Crash, IInv, TableFits
  <2>3. ASSUME NEW t \in Requests PROVE Fits(op[t], View(t), writer = t)'
    <3>1. op'[t] = Idle /\ (writer' = t) = FALSE
      BY <1>1, NoneAssumption DEF Crash
    <3>2. Fits(op'[t], View(t)', writer' = t)
      BY <3>1, IdleFits
    <3> QED BY <3>2
  <2> QED BY <2>1, <2>2, <2>3 DEF IInv
<1>2. CASE NewDay \/ UNCHANGED vars
  <2>1. UNCHANGED <<runs, imports, writer, draft, op>> /\ day' \in Days
    BY <1>2, BoundAssumption DEF NewDay, vars, IInv, TypeOK, Days
  <2>2. TypeOK' /\ TableFits'
    BY <2>1 DEF IInv, TypeOK, TableFits
  <2>3. ASSUME NEW t \in Requests PROVE Fits(op[t], View(t), writer = t)'
    <3>1. op'[t] = op[t] /\ View(t)' = View(t) /\ (writer' = t) = (writer = t)
      BY <2>1 DEF View
    <3>2. Fits(op'[t], View(t)', writer' = t)
      BY <3>1 DEF IInv
    <3> QED BY <3>2
  <2> QED BY <2>2, <2>3 DEF IInv
<1>3. ASSUME NEW t \in Requests, Step(t) PROVE IInv'
  BY <1>3, RunSteps, CollectStep, FindSteps, WriteStep, ImportEnds DEF Step
<1> QED BY <1>1, <1>2, <1>3, AskStep DEF Next

(* The invariant holds of every run. *)
THEOREM InvariantHolds == Spec => []IInv
<1>1. Init => IInv
  BY InitHolds
<1>2. IInv /\ [Next]_vars => IInv'
  BY StepHolds
<1> QED BY <1>1, <1>2, PTL DEF Spec

(* Every table and every request keeps its type. *)
THEOREM TypeCorrect == Spec => []TypeOK
<1>1. IInv => TypeOK
  BY DEF IInv
<1> QED BY <1>1, InvariantHolds, PTL

(* However many requests import at once, whatever the vendor returns and
   whatever an earlier version left, usage is counted once per identity. *)
THEOREM UsageIsCountedOnce == Spec => []OneRecordPerIdentity
<1>1. IInv => OneRecordPerIdentity
  BY DEF IInv, TableFits, Distinct, OneRecordPerIdentity
<1> QED BY <1>1, InvariantHolds, PTL

(* Whoever holds the write lock is importing, and what is pending is in the
   session that holds it. *)
THEOREM NoLockIsLeftBehind == Spec => []LockIsReleased
<1>1. IInv => LockIsReleased
  BY NoneAssumption DEF IInv, TypeOK, LockIsReleased, Fits
<1> QED BY <1>1, InvariantHolds, PTL

-----------------------------------------------------------------------------
(* Why an import fails.                                                    *)

\* When at most one row is added to rows whose keys are distinct and the keys are no
\* longer distinct, the added row has the key of one of them.
LEMMA AddedTwice ==
  ASSUME NEW seen \in Seq(Row), NEW added \in Seq(Row), NEW rows \in Seq(Row),
         Distinct(seen), Len(added) <= 1, Len(rows) = Len(seen) + Len(added),
         \A i \in DOMAIN rows : rows[i].key = (seen \o added)[i].key,
         ~Unique(rows)
  PROVE  1 \in DOMAIN added /\ \E k \in DOMAIN seen : seen[k].key = added[1].key
<1>1. Len(seen) \in Nat /\ DOMAIN seen = 1 .. Len(seen)
  BY LenProperties
<1>2. Len(added) \in {0, 1} /\ DOMAIN added = 1 .. Len(added)
  <2>1. Len(added) \in Nat /\ DOMAIN added = 1 .. Len(added)
    BY LenProperties
  <2> QED BY <2>1
<1>3. DOMAIN rows = 1 .. Len(seen) + Len(added)
  BY LenProperties
<1>4. \A i \in 1 .. Len(seen) + Len(added) :
        (seen \o added)[i] = IF i <= Len(seen) THEN seen[i] ELSE added[i - Len(seen)]
  BY ConcatProperties
<1>5. \A i \in DOMAIN seen : i \in DOMAIN rows /\ rows[i].key = seen[i].key
  BY <1>1, <1>2, <1>3, <1>4
<1>6. \A i \in DOMAIN rows \ DOMAIN seen :
        1 \in DOMAIN added /\ i = Len(seen) + 1 /\ rows[i].key = added[1].key
  BY <1>1, <1>2, <1>3, <1>4
<1>7. PICK i \in DOMAIN rows, j \in DOMAIN rows : rows[i].key = rows[j].key /\ i # j
  BY DEF Unique
<1>8. CASE i \in DOMAIN seen
  <2>1. j \notin DOMAIN seen
    BY <1>5, <1>7, <1>8 DEF Distinct
  <2> QED BY <1>5, <1>6, <1>7, <1>8, <2>1
<1>9. CASE i \notin DOMAIN seen
  <2>1. j \in DOMAIN seen
    BY <1>6, <1>7, <1>9
  <2> QED BY <1>5, <1>6, <1>7, <1>9, <2>1
<1> QED BY <1>8, <1>9

\* Of rows with the keys of what a session sees and of what is pending, the one that
\* is not unique is pending, and the session sees its key in another row.
LEMMA PendingIsTaken ==
  ASSUME IInv, NEW t \in Requests, NEW rows \in Seq(Row), ~Unique(rows),
         Len(rows) = Len(View(t)) + Len(op[t].pending),
         \A i \in DOMAIN rows : rows[i].key = (View(t) \o op[t].pending)[i].key
  PROVE  \E i \in DOMAIN op[t].pending : op[t].pending[i].key \in Current(View(t)) \ op[t].known
<1>1. /\ View(t) \in Seq(Row) /\ op[t].pending \in Seq(Row) /\ Distinct(View(t))
      /\ Len(op[t].pending) <= 1
      /\ \A i \in DOMAIN op[t].pending : /\ op[t].pending[i].key \notin LegacyKeys(View(t))
                                         /\ op[t].pending[i].key \notin op[t].known
  BY ViewFits
<1>2. /\ 1 \in DOMAIN op[t].pending
      /\ \E k \in DOMAIN View(t) : View(t)[k].key = op[t].pending[1].key
  BY <1>1, AddedTwice
<1>3. PICK k \in DOMAIN View(t) : View(t)[k].key = op[t].pending[1].key
  BY <1>2
<1>4. View(t)[k] \in Row
  BY <1>1, ElementOfSeq, LenProperties
<1>5. View(t)[k].scheme \in {"legacy", "current"}
  BY <1>4 DEF Row
<1>6. op[t].pending[1].key \in Current(View(t))
  BY <1>1, <1>2, <1>3, <1>5 DEF Current, LegacyKeys
<1> QED BY <1>1, <1>2, <1>6

LEMMA NotUniqueIsPending ==
  ASSUME IInv, NEW t \in Requests,
         \/ op[t].at = "write" /\ ~Unique(Flushed(t))
         \/ ~Unique(View(t) \o op[t].pending)
  PROVE  \E i \in DOMAIN op[t].pending : op[t].pending[i].key \in Current(View(t)) \ op[t].known
<1>1. CASE op[t].at = "write" /\ ~Unique(Flushed(t))
  BY <1>1, FlushedRows, PendingIsTaken
<1>2. CASE ~Unique(View(t) \o op[t].pending)
  <2>1. View(t) \in Seq(Row) /\ op[t].pending \in Seq(Row)
    BY ViewFits
  <2>2. /\ View(t) \o op[t].pending \in Seq(Row)
        /\ Len(View(t) \o op[t].pending) = Len(View(t)) + Len(op[t].pending)
    BY <2>1, ConcatProperties
  <2> QED BY <1>2, <2>2, PendingIsTaken
<1> QED BY <1>1, <1>2

LEMMA ReasonOfStep ==
  ASSUME IInv, [Next]_vars, NEW t \in Requests, op[t].at \in {"write", "lookup"},
         op'[t].at = "finish", op'[t].status = "failed"
  PROVE  \/ ~MayWrite(t)
         \/ op[t].batch # <<>> /\ First(t).kind = "invalid"
         \/ \E i \in DOMAIN op[t].pending : op[t].pending[i].key \in Current(View(t)) \ op[t].known
<1>0. op \in [Requests -> Op] /\ op[t] \in Op
  BY DEF IInv, TypeOK
<1>1. op'[t] # op[t]
  OBVIOUS
<1>2. ~Crash /\ ~NewDay /\ ~UNCHANGED vars
  BY <1>1 DEF Crash, NewDay, vars, Idle
<1>3. ASSUME NEW u \in Requests, NEW o, Set(u, o) PROVE u = t /\ op'[t] = o
  BY <1>0, <1>1, <1>3 DEF Set
<1>4. ASSUME NEW u \in Requests, NEW dry \in BOOLEAN, NEW disabled \in BOOLEAN, Ask(u, dry, disabled)
      PROVE  FALSE
  BY <1>3, <1>4 DEF Ask
<1>5. ASSUME NEW u \in Requests, Step(u) PROVE u = t
  <2>1. \E o : Set(u, o)
    BY <1>5 DEF Step, CreateRun, NotConfigured, CollectFails, RejectRecord, SkipRecord,
                FindCurrent, FindLegacy, Write, WriteLocked, Commit, Plan, Finish, RunLocked,
                Collect, Rollback
  <2> QED BY <1>3, <2>1
<1>6. Step(t)
  BY <1>2, <1>4, <1>5 DEF Next
<1>7. CASE RejectRecord(t)
  BY <1>7 DEF RejectRecord, Looking
<1>8. CASE WriteLocked(t)
  BY <1>8 DEF WriteLocked
<1>9. CASE Write(t)
  <2>1. CASE Unique(Flushed(t))
    <3>1. op'[t] = [Done(t) EXCEPT !.pending = Pending(t)] \/ Rollback(t)
      BY <1>3, <1>9 DEF Write
    <3>2. op'[t] = [Done(t) EXCEPT !.pending = Pending(t)]
      BY <1>3, <1>9, <2>1 DEF Write
    <3>3. op'[t].at = "lookup"
      BY <1>0, <3>2 DEF Done, Op
    <3> QED BY <3>3
  <2>2. CASE ~Unique(Flushed(t))
    BY <1>9, <2>2, NotUniqueIsPending DEF Write
  <2> QED BY <2>1, <2>2
<1>10. CASE Commit(t)
  <2>1. CASE writer = t /\ ~Unique(View(t) \o op[t].pending)
    BY <2>1, NotUniqueIsPending
  <2>2. CASE ~(writer = t /\ ~Unique(View(t) \o op[t].pending))
    <3>1. \/ op'[t] = [op[t] EXCEPT !.at = "finish", !.status = "success", !.pending = <<>>]
          \/ op'[t] = [op[t] EXCEPT !.at = "finish", !.status = "success"]
      BY <1>3, <1>10, <2>2 DEF Commit
    <3>2. op'[t].status = "success"
      BY <1>0, <3>1 DEF Op
    <3> QED BY <3>2
  <2> QED BY <2>1, <2>2
<1>11. CASE SkipRecord(t) \/ FindCurrent(t)
  <2>1. \/ op'[t] = Done(t)
        \/ op'[t] = [op[t] EXCEPT !.at = "legacy"]
        \/ \E i : op'[t] = [op[t] EXCEPT !.at = "write", !.found = i]
    BY <1>3, <1>11 DEF SkipRecord, FindCurrent
  <2>2. op'[t].at \in {"lookup", "legacy", "write"}
    BY <1>0, <2>1 DEF Done, Op
  <2> QED BY <2>2
<1> QED
  BY <1>6, <1>7, <1>8, <1>9, <1>10, <1>11
     DEF Step, CreateRun, NotConfigured, CollectFails, FindLegacy, Plan, Finish, RunLocked, Collect

(* An import fails for a bad record, for the lock, or over a key that was not
   there when its records came in and is there now: another import has brought
   it meanwhile, or an earlier row of the same batch; and for nothing else. *)
THEOREM NoImportFailsForNothing == Spec => FailuresHaveAReason
<1>1. IInv /\ [Next]_vars =>
        [\A t \in Requests :
           op[t].at \in {"write", "lookup"} /\ op'[t].at = "finish" /\ op'[t].status = "failed"
             => \/ ~MayWrite(t)
                \/ op[t].batch # <<>> /\ First(t).kind = "invalid"
                \/ \E i \in DOMAIN op[t].pending :
                     op[t].pending[i].key \in Current(View(t)) \ op[t].known]_vars
  BY ReasonOfStep
<1> QED BY <1>1, InvariantHolds, PTL DEF Spec, FailuresHaveAReason

-----------------------------------------------------------------------------
(* An import is all or nothing.                                            *)

WroteIn(rows, r) == {rows[i].key : i \in {j \in DOMAIN rows : rows[j].run = r}}
Active(o) == o.at \notin {"idle", "create"}

\* A later table has the rows of the earlier one where they were, with their keys,
\* and no current key becomes a legacy one.
Extends(rows, new) ==
  /\ Len(rows) <= Len(new)
  /\ \A i \in DOMAIN rows : /\ new[i].key = rows[i].key
                            /\ rows[i].scheme = "current" => new[i].scheme = "current"

\* What a request with a run has still to do, and what it has done: the keys of the
\* run are those of the records to come, of the rows that it sees and of what it has
\* pending, and the table has nothing of the run before it is committed.
Covers(o, rs, rows, table) ==
  /\ Active(o) => o.run \in DOMAIN rs /\ rs[o.run].status = "started"
  /\ o.at \in {"collect", "plan"} => rs[o.run].keys = {} /\ WroteIn(table, o.run) = {}
  /\ o.at \in {"lookup", "legacy", "write"} =>
       /\ KeysOf(o.batch) \cup WroteIn(rows, o.run) \cup Current(o.pending)
            \subseteq rs[o.run].keys
       /\ rs[o.run].keys \subseteq KeysOf(o.batch) \cup Current(rows) \cup Current(o.pending)
       /\ WroteIn(table, o.run) = {}
       /\ \A i \in DOMAIN o.pending : o.pending[i].run = o.run
  /\ o.at # "write" => o.found = 0
  /\ o.at = "write" /\ o.found # 0 =>
       o.found \in DOMAIN rows /\ rows[o.found].key = Head(o.batch).key
  /\ o.at = "finish" => IF o.status = "success" THEN rs[o.run].keys \subseteq Current(table)
                        ELSE WroteIn(table, o.run) = {}

\* BatchesAreAtomic, of one run.
Whole(rs, table, r) ==
  /\ WroteIn(table, r) \subseteq rs[r].keys
  /\ WroteIn(table, r) # {} => rs[r].status \in {"started", "success"}
  /\ WroteIn(table, r) # {} \/ rs[r].status = "success" => rs[r].keys \subseteq Current(table)

AInv ==
  /\ \A t \in Requests : Covers(op[t], runs, View(t), imports)
  /\ \A t, u \in Requests : Active(op[t]) /\ Active(op[u]) /\ op[t].run = op[u].run => t = u
  /\ \A k \in Nat : WroteIn(imports, k) # {} => k <= Len(runs)
  /\ writer # None =>
       /\ Extends(imports, draft)
       /\ \A k \in Nat : k # op[writer].run => WroteIn(draft, k) \subseteq WroteIn(imports, k)
  /\ \A r \in DOMAIN runs : Whole(runs, imports, r)

LEMMA ExtendsReflexive == \A rows : Len(rows) \in Nat => Extends(rows, rows)
BY DEF Extends

LEMMA ExtendsKeeps ==
  ASSUME NEW rows \in Seq(Row), NEW new \in Seq(Row), Extends(rows, new)
  PROVE  Current(rows) \subseteq Current(new) /\ DOMAIN rows \subseteq DOMAIN new
<1>1. DOMAIN rows \subseteq DOMAIN new
  BY LenProperties DEF Extends
<1> QED BY <1>1 DEF Extends, Current

LEMMA CoversMore ==
  ASSUME NEW o, NEW rs, NEW rs2, NEW rows \in Seq(Row), NEW rows2 \in Seq(Row),
         NEW table \in Seq(Row), NEW table2 \in Seq(Row),
         Covers(o, rs, rows, table), DOMAIN rs \subseteq DOMAIN rs2,
         Active(o) => /\ rs2[o.run] = rs[o.run]
                      /\ WroteIn(rows2, o.run) \subseteq WroteIn(rows, o.run)
                      /\ WroteIn(table2, o.run) \subseteq WroteIn(table, o.run),
         Extends(rows, rows2), Extends(table, table2)
  PROVE  Covers(o, rs2, rows2, table2)
<1>1. /\ Current(rows) \subseteq Current(rows2) /\ DOMAIN rows \subseteq DOMAIN rows2
      /\ Current(table) \subseteq Current(table2)
  BY ExtendsKeeps
<1>2. \A i \in DOMAIN rows : rows2[i].key = rows[i].key
  BY DEF Extends
<1>3. CASE Active(o)
  BY <1>1, <1>2, <1>3 DEF Covers, Active
<1>4. CASE ~Active(o)
  BY <1>4 DEF Covers, Active
<1> QED BY <1>3, <1>4

\* A request with a run has it for itself.
LEMMA Mine ==
  ASSUME IInv, AInv, NEW t \in Requests, Active(op[t])
  PROVE  /\ op[t].run \in DOMAIN runs /\ op[t].run \in Nat /\ op[t].run <= Len(runs)
         /\ runs[op[t].run] \in Run /\ runs[op[t].run].status = "started"
         /\ \A u \in Requests : u # t /\ Active(op[u]) => op[u].run # op[t].run
         /\ Covers(op[t], runs, View(t), imports) /\ Whole(runs, imports, op[t].run)
<1>1. op[t].run \in DOMAIN runs /\ runs[op[t].run].status = "started"
  BY DEF AInv, Covers
<1>2. runs \in Seq(Run)
  BY Locals
<1>3. op[t].run \in Nat /\ op[t].run <= Len(runs) /\ runs[op[t].run] \in Run
  BY <1>1, <1>2, LenProperties, ElementOfSeq
<1> QED BY <1>1, <1>3 DEF AInv

\* A step of t that may change the run r, which no other request has, and that adds
\* nothing of any other run to the table.
LEMMA AtomicStep ==
  ASSUME IInv, IInv', AInv, NEW t \in Requests, NEW o \in Op, NEW r \in Nat, Set(t, o),
         Len(runs) <= Len(runs'),
         \A k \in DOMAIN runs : k # r => runs'[k] = runs[k],
         \A k \in DOMAIN runs' : k \in DOMAIN runs \/ k = r,
         \A u \in Requests : u # t /\ Active(op[u]) => op[u].run # r,
         Active(o) => o.run = r,
         Extends(imports, imports'),
         \A k \in Nat : k # r => WroteIn(imports', k) \subseteq WroteIn(imports, k),
         \A u \in Requests : u # t => \/ View(u)' = View(u)
                                      \/ View(u) = imports /\ View(u)' = imports',
         writer' # None =>
           /\ Extends(imports', draft')
           /\ \A k \in Nat : k # op'[writer'].run =>
                               WroteIn(draft', k) \subseteq WroteIn(imports', k),
         Covers(o, runs', View(t)', imports'),
         r \in DOMAIN runs' => Whole(runs', imports', r),
         WroteIn(imports', r) # {} => r <= Len(runs')
  PROVE  AInv'
<1>0. /\ runs \in Seq(Run) /\ runs' \in Seq(Run) /\ imports \in Seq(Row) /\ imports' \in Seq(Row)
      /\ op \in [Requests -> Op] /\ op' = [op EXCEPT ![t] = o]
  BY DEF IInv, TypeOK, Set
<1>1. DOMAIN runs \subseteq DOMAIN runs' /\ DOMAIN runs \subseteq Nat /\ DOMAIN runs' \subseteq Nat
  BY <1>0, LenProperties
<1>2. \A u \in Requests : op'[u] = IF u = t THEN o ELSE op[u]
  BY <1>0
<1>3. ASSUME NEW u \in Requests PROVE Covers(op'[u], runs', View(u)', imports')
  <2>1. CASE u = t
    BY <1>2, <2>1
  <2>2. CASE u # t
    <3>1. View(u) \in Seq(Row) /\ View(u)' \in Seq(Row)
      BY Locals DEF View, IInv, TypeOK
    <3>2. Covers(op[u], runs, View(u), imports)
      BY DEF AInv
    <3>3. Extends(View(u), View(u)')
      BY <2>2, <3>1, LenProperties, ExtendsReflexive
    <3>4. Active(op[u]) => /\ runs'[op[u].run] = runs[op[u].run]
                           /\ op[u].run \in Nat /\ op[u].run # r
      BY <2>2, Mine
    <3>5. Active(op[u]) => /\ WroteIn(View(u)', op[u].run) \subseteq WroteIn(View(u), op[u].run)
                           /\ WroteIn(imports', op[u].run) \subseteq WroteIn(imports, op[u].run)
      BY <2>2, <3>4
    <3> HIDE DEF Active
    <3>6. Covers(op[u], runs', View(u)', imports')
      BY <1>0, <1>1, <3>1, <3>2, <3>3, <3>4, <3>5, CoversMore
    <3> QED BY <1>2, <2>2, <3>6
  <2> QED BY <2>1, <2>2
<1>4. ASSUME NEW u \in Requests, NEW v \in Requests, Active(op'[u]), Active(op'[v]),
             op'[u].run = op'[v].run
      PROVE  u = v
  BY <1>2, <1>4 DEF AInv
<1>5. ASSUME NEW k \in Nat, WroteIn(imports', k) # {} PROVE k <= Len(runs')
  <2>1. CASE k = r
    BY <1>5, <2>1
  <2>2. CASE k # r
    <3>1. k <= Len(runs)
      BY <1>5, <2>2 DEF AInv
    <3> QED BY <1>0, <3>1, LenProperties
  <2> QED BY <2>1, <2>2
<1>6. ASSUME NEW k \in DOMAIN runs' PROVE Whole(runs', imports', k)
  <2>1. CASE k # r
    <3>1. k \in DOMAIN runs /\ k \in Nat /\ runs'[k] = runs[k] /\ Whole(runs, imports, k)
      BY <2>1, <1>1 DEF AInv
    <3>2. Current(imports) \subseteq Current(imports')
      BY <1>0, ExtendsKeeps
    <3>3. WroteIn(imports', k) \subseteq WroteIn(imports, k)
      BY <2>1, <3>1
    <3> QED BY <3>1, <3>2, <3>3 DEF Whole
  <2> QED BY <2>1
<1>7. \A u \in Requests : Covers(op[u], runs, View(u), imports)'
  BY <1>3
<1> QED BY <1>4, <1>5, <1>6, <1>7 DEF AInv

\* A flush adds rows of the run r and may give it rows whose keys are in K.
Leaves(rows, added, new, r, K) ==
  /\ \A i \in DOMAIN added : added[i].scheme = "current" /\ added[i].run = r
  /\ Len(new) = Len(rows) + Len(added)
  /\ \A i \in DOMAIN new :
       /\ new[i].key = (rows \o added)[i].key
       /\ new[i].scheme \in {(rows \o added)[i].scheme, "current"}
       /\ \/ new[i].run = (rows \o added)[i].run
          \/ new[i].run = r /\ new[i].key \in K

\* What the table says of the runs after it.
LEMMA FlushTells ==
  ASSUME NEW rows \in Seq(Row), NEW added \in Seq(Row), NEW new \in Seq(Row), NEW r, NEW K,
         Leaves(rows, added, new, r, K)
  PROVE  /\ Extends(rows, new)
         /\ Current(rows) \cup Current(added) \subseteq Current(new)
         /\ WroteIn(new, r) \subseteq WroteIn(rows, r) \cup Current(added) \cup K
         /\ \A k : k # r => WroteIn(new, k) \subseteq WroteIn(rows, k)
<1> DEFINE all == rows \o added
<1>0. \A i \in DOMAIN added : added[i].scheme = "current" /\ added[i].run = r
  BY DEF Leaves
<1>1. /\ Len(new) = Len(rows) + Len(added)
      /\ DOMAIN rows = 1 .. Len(rows) /\ DOMAIN new = 1 .. Len(new)
      /\ DOMAIN added = 1 .. Len(added) /\ Len(rows) \in Nat /\ Len(added) \in Nat
  BY LenProperties DEF Leaves
<1>2. \A i \in DOMAIN new :
        \/ i \in DOMAIN rows /\ all[i] = rows[i]
        \/ i - Len(rows) \in DOMAIN added /\ all[i] = added[i - Len(rows)]
  BY <1>1, ConcatProperties DEF Leaves
<1>3. DOMAIN rows \subseteq DOMAIN new /\ \A i \in DOMAIN rows : all[i] = rows[i]
  BY <1>1, ConcatProperties DEF Leaves
<1>4. \A j \in DOMAIN added : Len(rows) + j \in DOMAIN new /\ all[Len(rows) + j] = added[j]
  BY <1>1, ConcatProperties DEF Leaves
<1>5. \A i \in DOMAIN new :
        /\ new[i].key = all[i].key /\ new[i].scheme \in {all[i].scheme, "current"}
        /\ new[i].run = all[i].run \/ (new[i].run = r /\ new[i].key \in K)
  BY DEF Leaves
<1> HIDE DEF all
<1>6. Extends(rows, new)
  BY <1>1, <1>3, <1>5 DEF Extends
<1>7. Current(rows) \subseteq Current(new)
  BY <1>6, ExtendsKeeps
<1>8. Current(added) \subseteq Current(new)
  <2>1. ASSUME NEW j \in DOMAIN added, added[j].scheme = "current"
        PROVE  added[j].key \in Current(new)
    <3>1. PICK i \in DOMAIN new : all[i] = added[j]
      BY <1>4
    <3>2. new[i].scheme = "current" /\ new[i].key = added[j].key
      BY <2>1, <3>1, <1>5
    <3> QED BY <3>2 DEF Current
  <2> QED BY <2>1 DEF Current
<1>9. WroteIn(new, r) \subseteq WroteIn(rows, r) \cup Current(added) \cup K
  <2>1. ASSUME NEW i \in DOMAIN new, new[i].run = r
        PROVE  new[i].key \in WroteIn(rows, r) \cup Current(added) \cup K
    <3>1. CASE i \in DOMAIN rows /\ all[i] = rows[i]
      BY <3>1, <2>1, <1>5 DEF WroteIn
    <3>2. CASE i - Len(rows) \in DOMAIN added /\ all[i] = added[i - Len(rows)]
      BY <3>2, <2>1, <1>0, <1>5 DEF Current
    <3> QED BY <3>1, <3>2, <1>2
  <2> QED BY <2>1 DEF WroteIn
<1>10. ASSUME NEW k, k # r PROVE WroteIn(new, k) \subseteq WroteIn(rows, k)
  <2>1. ASSUME NEW i \in DOMAIN new, new[i].run = k
        PROVE  i \in DOMAIN rows /\ rows[i].run = k /\ rows[i].key = new[i].key
    BY <1>0, <1>10, <2>1, <1>2, <1>5
  <2> QED BY <2>1 DEF WroteIn
<1> QED BY <1>6, <1>7, <1>8, <1>9, <1>10

\* A step that leaves the tables of imports as they are.
LEMMA LocalAtomic ==
  ASSUME IInv, IInv', AInv, NEW t \in Requests, NEW o \in Op, NEW r \in Nat, Set(t, o),
         UNCHANGED <<imports, writer, draft>>,
         Len(runs) <= Len(runs'),
         \A k \in DOMAIN runs : k # r => runs'[k] = runs[k],
         \A k \in DOMAIN runs' : k \in DOMAIN runs \/ k = r,
         \A u \in Requests : u # t /\ Active(op[u]) => op[u].run # r,
         Active(o) => o.run = r,
         writer = t => o.run = op[t].run,
         Covers(o, runs', View(t), imports),
         r \in DOMAIN runs' => Whole(runs', imports, r)
  PROVE  AInv'
<1>1. \A u \in Requests : View(u)' = View(u)
  BY DEF View
<1>2. imports \in Seq(Row) /\ runs \in Seq(Run) /\ runs' \in Seq(Run) /\ writer \in Requests \cup {None}
      /\ op \in [Requests -> Op]
  BY DEF IInv, TypeOK
<1>3. Extends(imports, imports')
  BY <1>2, LenProperties, ExtendsReflexive
<1>4. Len(runs) \in Nat /\ Len(runs') \in Nat
  BY <1>2, LenProperties
<1>5. \A k \in Nat : WroteIn(imports, k) # {} => k <= Len(runs')
  BY <1>4 DEF AInv
<1>6. writer # None => op'[writer].run = op[writer].run
  BY <1>2 DEF Set
<1>7. writer' # None =>
        /\ Extends(imports', draft')
        /\ \A k \in Nat : k # op'[writer'].run =>
                            WroteIn(draft', k) \subseteq WroteIn(imports', k)
  BY <1>6 DEF AInv
<1>8. Covers(o, runs', View(t)', imports')
  BY <1>1
<1>9. /\ \A k \in Nat : k # r => WroteIn(imports', k) \subseteq WroteIn(imports, k)
      /\ r \in DOMAIN runs' => Whole(runs', imports', r)
      /\ WroteIn(imports', r) # {} => r <= Len(runs')
  BY <1>5
<1> QED BY <1>1, <1>3, <1>7, <1>8, <1>9, AtomicStep

LEMMA RunChanges ==
  ASSUME NEW r \in DOMAIN runs, NEW q, runs \in Seq(Run), q \in Run
  PROVE  LET rs == [runs EXCEPT ![r] = q]
         IN  /\ rs \in Seq(Run) /\ Len(rs) = Len(runs) /\ DOMAIN rs = DOMAIN runs
             /\ rs[r] = q /\ \A k \in DOMAIN runs : k # r => rs[k] = runs[k]
<1>1. r \in 1 .. Len(runs)
  BY LenProperties
<1> QED BY <1>1, ExceptSeq

\* A step that leaves the tables of imports and of runs as they are.
LEMMA StillAtomic ==
  ASSUME IInv, IInv', AInv, NEW t \in Requests, NEW o \in Op, Set(t, o),
         UNCHANGED <<runs, imports, writer, draft>>, Active(op[t]), Active(o), o.run = op[t].run,
         Covers(o, runs, View(t), imports)
  PROVE  AInv'
<1>1. /\ op[t].run \in DOMAIN runs /\ op[t].run \in Nat /\ Whole(runs, imports, op[t].run)
      /\ \A u \in Requests : u # t /\ Active(op[u]) => op[u].run # op[t].run
  BY Mine
<1>2. Len(runs) \in Nat
  BY Locals, LenProperties
<1> QED BY <1>1, <1>2, LocalAtomic

\* A step that changes its own run and leaves the tables of imports as they are.
LEMMA RunAtomic ==
  ASSUME IInv, IInv', AInv, NEW t \in Requests, NEW o \in Op, NEW q \in Run, Set(t, o),
         runs' = [runs EXCEPT ![op[t].run] = q],
         UNCHANGED <<imports, writer, draft>>, Active(op[t]), Active(o) => o.run = op[t].run,
         writer # t,
         \A rs : DOMAIN rs = DOMAIN runs /\ rs[op[t].run] = q =>
                   Covers(o, rs, View(t), imports) /\ Whole(rs, imports, op[t].run)
  PROVE  AInv'
<1>1. /\ op[t].run \in DOMAIN runs /\ op[t].run \in Nat /\ runs \in Seq(Run)
      /\ \A u \in Requests : u # t /\ Active(op[u]) => op[u].run # op[t].run
  BY Mine, Locals
<1>2. /\ Len(runs') = Len(runs) /\ DOMAIN runs' = DOMAIN runs /\ runs'[op[t].run] = q
      /\ \A k \in DOMAIN runs : k # op[t].run => runs'[k] = runs[k]
  BY <1>1, RunChanges
<1>3. Covers(o, runs', View(t), imports) /\ Whole(runs', imports, op[t].run)
  BY <1>2
<1>4. Len(runs) \in Nat /\ Len(runs) <= Len(runs')
  BY <1>1, <1>2, LenProperties
<1> QED BY <1>1, <1>2, <1>3, <1>4, LocalAtomic

LEMMA AskAtomic ==
  ASSUME IInv, IInv', AInv, NEW t \in Requests, UNCHANGED <<runs, imports, writer, draft>>,
         NEW o \in Op, Set(t, o), ~Active(o), o.found = 0,
         op[t].at \notin {"lookup", "legacy", "write"}
  PROVE  AInv'
<1>1. writer # t /\ runs \in Seq(Run)
  BY OutsideIsQuiet, Locals
<1>2. 0 \notin DOMAIN runs /\ Len(runs) \in Nat
  BY <1>1, LenProperties
<1>3. \A u \in Requests : Active(op[u]) => op[u].run # 0
  BY <1>2, Mine
<1>4. Covers(o, runs, View(t), imports)
  BY DEF Covers, Active
<1> QED BY <1>1, <1>2, <1>3, <1>4, LocalAtomic

LEMMA KeysOfFirst ==
  ASSUME NEW batch \in Seq(Record), batch # <<>>
  PROVE  KeysOf(batch) = KeysOf(Tail(batch))
                         \cup (IF Head(batch).kind = "kept" THEN {Head(batch).key} ELSE {})
<1>1. /\ DOMAIN batch = 1 .. Len(batch) /\ Len(batch) \in Nat /\ Len(batch) # 0
      /\ Head(batch) = batch[1] /\ Tail(batch) \in Seq(Record)
      /\ DOMAIN Tail(batch) = 1 .. Len(batch) - 1
      /\ \A i \in 1 .. Len(batch) - 1 : Tail(batch)[i] = batch[i + 1]
  BY HeadTailProperties, LenProperties, EmptySeq
<1>2. ASSUME NEW k \in KeysOf(batch)
      PROVE  \/ k \in KeysOf(Tail(batch))
             \/ Head(batch).kind = "kept" /\ k = Head(batch).key
  <2>1. PICK i \in DOMAIN batch : batch[i].kind = "kept" /\ k = batch[i].key
    BY DEF KeysOf
  <2>2. CASE i # 1
    <3>1. i - 1 \in DOMAIN Tail(batch) /\ Tail(batch)[i - 1] = batch[i]
      BY <1>1, <2>2
    <3> QED BY <2>1, <3>1 DEF KeysOf
  <2>3. CASE i = 1
    BY <1>1, <2>1, <2>3
  <2> QED BY <2>2, <2>3
<1>3. ASSUME NEW k \in KeysOf(Tail(batch)) PROVE k \in KeysOf(batch)
  <2>1. PICK i \in DOMAIN Tail(batch) : Tail(batch)[i].kind = "kept" /\ k = Tail(batch)[i].key
    BY DEF KeysOf
  <2>2. i + 1 \in DOMAIN batch /\ batch[i + 1] = Tail(batch)[i]
    BY <1>1
  <2> QED BY <2>1, <2>2 DEF KeysOf
<1>4. Head(batch).kind = "kept" => Head(batch).key \in KeysOf(batch)
  <2>1. 1 \in DOMAIN batch
    BY <1>1
  <2> QED BY <1>1, <2>1 DEF KeysOf
<1> QED BY <1>2, <1>3, <1>4

LEMMA CreateAtomic ==
  ASSUME IInv, IInv', AInv, NEW t \in Requests, CreateRun(t)
  PROVE  AInv'
<1> DEFINE q == [day |-> day, called |-> FALSE, keys |-> {}, status |-> "started"]
           r == Len(runs) + 1
           o == [op[t] EXCEPT !.run = Len(runs'),
                              !.at = IF op[t].status = "blocked" THEN "finish" ELSE "collect"]
<1>0. /\ op[t] \in Op /\ runs \in Seq(Run) /\ runs' \in Seq(Run) /\ day \in Days
      /\ op \in [Requests -> Op] /\ op' \in [Requests -> Op] /\ imports \in Seq(Row)
  BY Locals DEF IInv, TypeOK
<1>1. /\ op[t].at = "create" /\ runs' = Append(runs, q) /\ Set(t, o)
      /\ UNCHANGED <<imports, writer, draft>>
  BY DEF CreateRun
<1>2. q \in Run
  BY <1>0 DEF Run
<1> HIDE DEF q
<1>3. /\ Len(runs') = r /\ DOMAIN runs' = 1 .. r /\ DOMAIN runs = 1 .. Len(runs)
      /\ Len(runs) \in Nat /\ runs'[r] = q /\ \A k \in DOMAIN runs : runs'[k] = runs[k]
  BY <1>0, <1>1, <1>2, AppendProperties, LenProperties
<1>4. o = op'[t] /\ o \in Op
  BY <1>0, <1>1 DEF Set
<1>5. /\ o.run = r /\ o.at \in {"collect", "finish"} /\ o.found = 0
      /\ o.at = "finish" => o.status = "blocked"
  <2>1. op[t].found = 0
    BY <1>1 DEF AInv, Covers
  <2> QED BY <1>0, <1>3, <2>1 DEF Op
<1>6. WroteIn(imports, r) = {}
  <2>1. r \in Nat /\ ~(r <= Len(runs))
    BY <1>3
  <2> QED BY <2>1 DEF AInv
<1>7. writer # t
  BY <1>1, OutsideIsQuiet
<1>8. \A u \in Requests : u # t /\ Active(op[u]) => op[u].run # r
  BY <1>3, Mine
<1> HIDE DEF o
<1>9. Covers(o, runs', View(t), imports)
  BY <1>3, <1>5, <1>6 DEF Covers, q
<1>10. Whole(runs', imports, r)
  BY <1>3, <1>6 DEF Whole, q
<1>11. /\ r \in Nat /\ Len(runs) <= Len(runs')
       /\ \A k \in DOMAIN runs' : k \in DOMAIN runs \/ k = r
  BY <1>3
<1> HIDE DEF r
<1> QED BY <1>1, <1>3, <1>4, <1>5, <1>7, <1>8, <1>9, <1>10, <1>11, LocalAtomic

\* The end of a run that has written nothing, or has nothing left to write.
LEMMA EndsAtomic ==
  ASSUME IInv, IInv', AInv, NEW t \in Requests,
         NotConfigured(t) \/ CollectFails(t) \/ Plan(t) \/ Finish(t)
  PROVE  AInv'
<1> DEFINE r == op[t].run
<1>0. /\ op[t] \in Op /\ op \in [Requests -> Op] /\ op' \in [Requests -> Op]
      /\ op[t].at \in {"collect", "plan", "finish"}
  BY DEF IInv, TypeOK, NotConfigured, CollectFails, Plan, Finish
<1>1. Active(op[t]) /\ writer # t
  BY <1>0, OutsideIsQuiet DEF Active
<1>2. /\ r \in DOMAIN runs /\ runs[r] \in Run /\ runs[r].status = "started"
      /\ Covers(op[t], runs, View(t), imports) /\ Whole(runs, imports, r)
  BY <1>1, Mine
<1>7. op[t].found = 0
  BY <1>0, <1>2 DEF Covers
<1>3. CASE NotConfigured(t)
  <2> DEFINE o == [op[t] EXCEPT !.at = "finish", !.status = "blocked"]
  <2>1. /\ op[t].at = "collect" /\ Set(t, o) /\ o \in Op
        /\ UNCHANGED <<runs, imports, writer, draft>>
    BY <1>0, <1>3 DEF NotConfigured, Op
  <2>2. o.at = "finish" /\ o.status = "blocked" /\ o.run = r /\ Active(o) /\ o.found = 0
    BY <1>0, <1>7 DEF Op, Active
  <2> HIDE DEF o
  <2>3. Covers(o, runs, View(t), imports)
    BY <1>1, <1>2, <2>1, <2>2 DEF Covers
  <2> QED BY <1>1, <2>1, <2>2, <2>3, StillAtomic
<1>4. CASE CollectFails(t)
  <2> DEFINE o == [op[t] EXCEPT !.at = "finish", !.status = "failed"]
             q == [runs[r] EXCEPT !.called = TRUE]
  <2>1. /\ op[t].at = "collect" /\ Set(t, o) /\ o \in Op /\ runs' = [runs EXCEPT ![r] = q]
        /\ UNCHANGED <<imports, writer, draft>>
    BY <1>0, <1>4 DEF CollectFails, Op
  <2>2. o.at = "finish" /\ o.status = "failed" /\ o.run = r /\ o.found = 0
    BY <1>0, <1>7 DEF Op
  <2>3. q \in Run /\ q.status = "started" /\ q.keys = runs[r].keys
    BY <1>2 DEF Run
  <2> HIDE DEF o, q
  <2>4. \A rs : DOMAIN rs = DOMAIN runs /\ rs[r] = q =>
                  Covers(o, rs, View(t), imports) /\ Whole(rs, imports, r)
    BY <1>2, <2>1, <2>2, <2>3 DEF Covers, Whole
  <2> QED BY <1>1, <2>1, <2>2, <2>3, <2>4, RunAtomic
<1>5. CASE Plan(t)
  <2> DEFINE o == [op[t] EXCEPT !.at = "finish", !.status = "success"]
  <2>1. /\ op[t].at = "plan" /\ Set(t, o) /\ o \in Op
        /\ UNCHANGED <<runs, imports, writer, draft>>
    BY <1>0, <1>5 DEF Plan, Op
  <2>2. o.at = "finish" /\ o.status = "success" /\ o.run = r /\ Active(o) /\ o.found = 0
    BY <1>0, <1>7 DEF Op, Active
  <2> HIDE DEF o
  <2>3. Covers(o, runs, View(t), imports)
    BY <1>1, <1>2, <2>1, <2>2 DEF Covers
  <2> QED BY <1>1, <2>1, <2>2, <2>3, StillAtomic
<1>6. CASE Finish(t)
  <2> DEFINE q == [runs[r] EXCEPT !.status = op[t].status]
  <2>1. /\ op[t].at = "finish" /\ Set(t, Idle) /\ runs' = [runs EXCEPT ![r] = q]
        /\ UNCHANGED <<imports, writer, draft>>
    BY <1>6 DEF Finish
  <2>2. op[t].status \in {"started", "success", "failed", "blocked"}
    BY <1>0 DEF Op
  <2>3. q \in Run /\ q.status = op[t].status /\ q.keys = runs[r].keys
    BY <1>2, <2>2 DEF Run
  <2> HIDE DEF q
  <2>4. ~Active(Idle)
    BY IdleTyped DEF Active
  <2>5. \A rs : DOMAIN rs = DOMAIN runs /\ rs[r] = q =>
                  Covers(Idle, rs, View(t), imports) /\ Whole(rs, imports, r)
    <3>1. \A rs : Covers(Idle, rs, View(t), imports)
      BY IdleTyped DEF Covers, Active, Idle
    <3>2. \A rs : rs[r] = q => Whole(rs, imports, r)
      BY <1>2, <2>1, <2>3 DEF Covers, Whole
    <3> QED BY <3>1, <3>2
  <2> QED BY <1>1, <2>1, <2>3, <2>4, <2>5, IdleTyped, RunAtomic
<1> QED BY <1>3, <1>4, <1>5, <1>6

LEMMA CollectAtomic ==
  ASSUME IInv, IInv', AInv, NEW t \in Requests, NEW batch \in Batches, Collect(t, batch)
  PROVE  AInv'
<1> DEFINE r == op[t].run
<1>0. /\ op[t] \in Op /\ op \in [Requests -> Op] /\ op' \in [Requests -> Op]
      /\ op[t].at = "collect" /\ UNCHANGED <<imports, writer, draft>>
      /\ runs' \in Seq(Run) /\ runs \in Seq(Run) /\ batch \in Seq(Record)
  BY BatchAssumption DEF IInv, TypeOK, Collect
<1>1. Active(op[t]) /\ writer # t /\ op[t].pending = <<>>
  BY <1>0, OutsideIsQuiet DEF Active
<1>2. /\ r \in DOMAIN runs /\ runs[r] \in Run /\ runs[r].status = "started"
      /\ Covers(op[t], runs, View(t), imports) /\ Whole(runs, imports, r)
  BY <1>1, Mine
<1>3. runs[r].keys = {} /\ WroteIn(imports, r) = {} /\ View(t) = imports /\ op[t].found = 0
  BY <1>0, <1>1, <1>2 DEF Covers, View
<1>4. CASE op[t].dry
  <2> DEFINE o == [op[t] EXCEPT !.at = "plan"]
             q == [runs[r] EXCEPT !.called = TRUE]
  <2>1. Set(t, o) /\ o \in Op /\ runs' = [runs EXCEPT ![r] = q]
    BY <1>0, <1>4 DEF Collect, Op
  <2>2. o.at = "plan" /\ o.run = r /\ o.found = 0
    BY <1>0, <1>3 DEF Op
  <2>3. q \in Run /\ q.status = "started" /\ q.keys = {}
    BY <1>2, <1>3 DEF Run
  <2> HIDE DEF o, q
  <2>4. \A rs : DOMAIN rs = DOMAIN runs /\ rs[r] = q =>
                  Covers(o, rs, View(t), imports) /\ Whole(rs, imports, r)
    BY <1>2, <1>3, <2>2, <2>3 DEF Covers, Whole
  <2> QED BY <1>0, <1>1, <2>1, <2>2, <2>3, <2>4, RunAtomic
<1>5. CASE ~op[t].dry
  <2> DEFINE o == [op[t] EXCEPT !.at = "lookup", !.batch = batch, !.known = Current(imports)]
             keys == KeysOf(batch)
             q == [runs[r] EXCEPT !.called = TRUE, !.keys = keys]
  <2>1. /\ Set(t, o)
        /\ runs' = [runs EXCEPT ![r].called = TRUE, ![r].keys = keys]
    BY <1>5 DEF Collect
  <2>2. runs' = [runs EXCEPT ![r] = q]
    <3> HIDE DEF keys, r
    <3> QED BY <2>1, <1>0, <1>2
  <2>3. o = op'[t]
    BY <1>0, <2>1 DEF Set
  <2>4. /\ o.at = "lookup" /\ o.run = r /\ o.batch = batch /\ o.pending = <<>>
        /\ o.found = op[t].found /\ o \in Op
    BY <1>0, <1>1, <2>3 DEF Op
  <2>5. q.status = "started" /\ q.keys = keys
    <3> HIDE DEF keys
    <3> QED BY <1>2 DEF Run
  <2>6. q \in Run
    <3>1. \A i \in DOMAIN batch : batch[i] \in Record
      BY <1>0, ElementOfSeq, LenProperties
    <3>2. keys \subseteq Keys
      <4>1. \A i \in DOMAIN batch : batch[i].kind = "kept" => batch[i].key \in Keys
        BY <3>1 DEF Record
      <4> QED BY <4>1 DEF KeysOf
    <3> HIDE DEF keys
    <3> QED BY <1>2, <3>2 DEF Run
  <2>7. Current(<<>>) = {} /\ DOMAIN o.pending = {}
    BY <2>4 DEF Current
  <2> HIDE DEF o, q
  <2>8. \A rs : DOMAIN rs = DOMAIN runs /\ rs[r] = q =>
                  Covers(o, rs, View(t), imports) /\ Whole(rs, imports, r)
    BY <1>2, <1>3, <2>4, <2>5, <2>7 DEF Covers, Whole
  <2> QED BY <1>0, <1>1, <2>1, <2>2, <2>4, <2>6, <2>8, RunAtomic
<1> QED BY <1>4, <1>5

\* A request that is importing: what it has of its run, and what it sees.
LEMMA Importing ==
  ASSUME IInv, AInv, NEW t \in Requests, op[t].at \in {"lookup", "legacy", "write"}
  PROVE  /\ Active(op[t]) /\ op[t] \in Op /\ op \in [Requests -> Op]
         /\ op[t].run \in DOMAIN runs /\ runs[op[t].run].status = "started"
         /\ KeysOf(op[t].batch) \cup WroteIn(View(t), op[t].run) \cup Current(op[t].pending)
              \subseteq runs[op[t].run].keys
         /\ runs[op[t].run].keys
              \subseteq KeysOf(op[t].batch) \cup Current(View(t)) \cup Current(op[t].pending)
         /\ WroteIn(imports, op[t].run) = {}
         /\ \A i \in DOMAIN op[t].pending : op[t].pending[i].run = op[t].run
         /\ op[t].at # "write" => op[t].found = 0
         /\ op[t].batch \in Seq(Record) /\ View(t) \in Seq(Row) /\ imports \in Seq(Row)
<1>1. Active(op[t])
  BY DEF Active
<1>2. Covers(op[t], runs, View(t), imports) /\ op[t].run \in DOMAIN runs
  BY <1>1, Mine
<1> QED BY <1>1, <1>2, Locals DEF Covers, IInv, TypeOK

\* A record is done with, and its key is one that the request sees.
LEMMA DoneAtomic ==
  ASSUME IInv, IInv', AInv, NEW t \in Requests, op[t].at = "lookup", op[t].batch # <<>>,
         Set(t, Done(t)), UNCHANGED <<runs, imports, writer, draft>>,
         First(t).kind = "kept" => First(t).key \in Current(View(t))
  PROVE  AInv'
<1>1. /\ Done(t) \in Op /\ Done(t).at = "lookup" /\ Done(t).pending = op[t].pending
      /\ Done(t).batch = Tail(op[t].batch) /\ Done(t).run = op[t].run /\ Done(t).found = 0
  <2>1. op[t] \in Op
    BY Locals
  <2>2. Done(t) = [op[t] EXCEPT !.at = "lookup", !.batch = Tail(op[t].batch), !.found = 0,
                                !.same = FALSE]
    BY <2>1 DEF Done
  <2> QED BY <2>1, <2>2, DoneTyped DEF Op
<1>2. KeysOf(op[t].batch) = KeysOf(Tail(op[t].batch))
                            \cup (IF First(t).kind = "kept" THEN {First(t).key} ELSE {})
  BY Locals, KeysOfFirst DEF First
<1>3. Covers(Done(t), runs, View(t), imports)
  BY <1>1, <1>2, Importing DEF Covers
<1>4. Active(Done(t)) /\ Active(op[t])
  BY <1>1 DEF Active
<1> QED BY <1>1, <1>3, <1>4, StillAtomic

LEMMA FindAtomic ==
  ASSUME IInv, IInv', AInv, NEW t \in Requests, SkipRecord(t) \/ FindCurrent(t) \/ FindLegacy(t)
  PROVE  AInv'
<1>0. /\ UNCHANGED <<runs, imports, writer, draft>> /\ op[t] \in Op
      /\ op[t].at \in {"lookup", "legacy", "write"} /\ Active(op[t])
      /\ op \in [Requests -> Op] /\ op' \in [Requests -> Op]
  BY Locals DEF SkipRecord, FindCurrent, FindLegacy, Looking, Active, IInv, TypeOK
<1>1. CASE SkipRecord(t)
  BY <1>0, <1>1, DoneAtomic DEF SkipRecord, Looking
<1>2. CASE (FindCurrent(t) \/ FindLegacy(t)) /\ Set(t, Done(t))
  <2>1. CASE FindCurrent(t)
    <3>1. /\ op[t].at = "lookup" /\ op[t].batch # <<>> /\ First(t).kind = "kept"
      BY <2>1 DEF FindCurrent, Looking
    <3>2. Done(t).at = "lookup"
      BY <3>1, DoneTyped
    <3>3. op'[t].at = "lookup"
      BY <1>0, <1>2, <3>2 DEF Set
    <3>4. \A i : [op[t] EXCEPT !.at = "write", !.found = i].at = "write"
      BY <1>0 DEF Op
    <3>5. [op[t] EXCEPT !.at = "legacy"].at = "legacy"
      BY <1>0 DEF Op
    <3>6. PICK i \in CurrentRows(t) : TRUE
      BY <1>0, <2>1, <3>3, <3>5 DEF FindCurrent, Set
    <3>7. First(t).key \in Current(View(t))
      BY <3>6 DEF CurrentRows, Rows, Current
    <3> QED BY <1>0, <1>2, <3>1, <3>7, DoneAtomic
  <2>2. CASE FindLegacy(t)
    <3>1. op[t].at = "legacy" /\ op[t].batch # <<>>
      BY <2>2, Locals DEF FindLegacy, Fits
    <3>2. op'[t].at = "lookup"
      BY <1>0, <1>2, <3>1, DoneTyped DEF Set
    <3>3. op'[t].at = "write"
      <4>1. [op[t] EXCEPT !.at = "write"].at = "write"
        BY <1>0 DEF Op
      <4>2. \A i, same : [op[t] EXCEPT !.at = "write", !.found = i, !.same = same].at = "write"
        BY <1>0 DEF Op
      <4>3. ASSUME NEW i, Set(t, [op[t] EXCEPT !.at = "write", !.found = i,
                                               !.same = View(t)[i].val = First(t).val])
            PROVE  op'[t].at = "write"
        BY <1>0, <4>2, <4>3 DEF Set
      <4> QED BY <1>0, <2>2, <4>1, <4>3 DEF FindLegacy, Set
    <3> QED BY <3>2, <3>3
  <2> QED BY <1>2, <2>1, <2>2
<1>3. ASSUME NEW o, Set(t, o), o \in Op, o.batch = op[t].batch, o.pending = op[t].pending,
             o.run = op[t].run, o.at \in {"legacy", "write"}, o.at = "legacy" => o.found = 0,
             o.at = "write" /\ o.found # 0 =>
               o.found \in DOMAIN View(t) /\ View(t)[o.found].key = First(t).key
      PROVE  AInv'
  <2>1. Covers(o, runs, View(t), imports) /\ Active(o)
    BY <1>0, <1>3, Importing DEF Covers, Active, First
  <2> QED BY <1>0, <1>3, <2>1, StillAtomic
<1>4. CASE FindCurrent(t) /\ ~Set(t, Done(t))
  <2>1. CASE Set(t, [op[t] EXCEPT !.at = "legacy"])
    <3> DEFINE o == [op[t] EXCEPT !.at = "legacy"]
    <3>1. /\ o \in Op /\ o.batch = op[t].batch /\ o.pending = op[t].pending
          /\ o.run = op[t].run /\ o.at = "legacy" /\ o.found = 0
      BY <1>0, <1>4, Importing DEF Op, FindCurrent, Looking
    <3> HIDE DEF o
    <3>2. Set(t, o)
      BY <2>1 DEF o
    <3> QED BY <1>3, <3>1, <3>2
  <2>2. ASSUME NEW i \in CurrentRows(t), Set(t, [op[t] EXCEPT !.at = "write", !.found = i])
        PROVE  AInv'
    <3> DEFINE o == [op[t] EXCEPT !.at = "write", !.found = i]
    <3>1. i \in DOMAIN View(t) /\ View(t)[i].key = First(t).key
      BY <2>2 DEF CurrentRows, Rows
    <3>2. i \in Nat
      BY <3>1, Locals, LenProperties
    <3>3. /\ o \in Op /\ o.batch = op[t].batch /\ o.pending = op[t].pending
          /\ o.run = op[t].run /\ o.at = "write" /\ o.found = i
      BY <1>0, <3>2 DEF Op
    <3> HIDE DEF o
    <3>4. Set(t, o)
      BY <2>2 DEF o
    <3> QED BY <1>3, <3>1, <3>3, <3>4
  <2> QED BY <1>4, <2>1, <2>2 DEF FindCurrent
<1>5. CASE FindLegacy(t)
  <2>1. CASE Set(t, [op[t] EXCEPT !.at = "write"])
    <3> DEFINE o == [op[t] EXCEPT !.at = "write"]
    <3>1. /\ o \in Op /\ o.batch = op[t].batch /\ o.pending = op[t].pending
          /\ o.run = op[t].run /\ o.at = "write" /\ o.found = op[t].found
      BY <1>0 DEF Op
    <3>2. op[t].found = 0
      BY <1>0, <1>5, Importing DEF FindLegacy
    <3> HIDE DEF o
    <3>3. Set(t, o)
      BY <2>1 DEF o
    <3> QED BY <1>3, <3>1, <3>2, <3>3
  <2>2. ASSUME NEW i \in LegacyRows(t),
               Set(t, [op[t] EXCEPT !.at = "write", !.found = i,
                                    !.same = View(t)[i].val = First(t).val])
        PROVE  AInv'
    <3> DEFINE o == [op[t] EXCEPT !.at = "write", !.found = i,
                                  !.same = View(t)[i].val = First(t).val]
    <3>1. i \in DOMAIN View(t) /\ View(t)[i].key = First(t).key
      BY <2>2 DEF LegacyRows, Rows
    <3>4. o = op'[t]
      BY <1>0, <2>2 DEF Set
    <3>3. /\ o \in Op /\ o.batch = op[t].batch /\ o.pending = op[t].pending
          /\ o.run = op[t].run /\ o.at = "write" /\ o.found = i
      BY <1>0, <3>4 DEF Op
    <3>5. Set(t, o)
      BY <2>2
    <3> HIDE DEF o
    <3> QED BY <1>3, <3>1, <3>3, <3>5
  <2> QED BY <1>5, <2>1, <2>2 DEF FindLegacy
<1> QED BY <1>1, <1>2, <1>4, <1>5

LEMMA RollbackAtomic ==
  ASSUME IInv, IInv', AInv, NEW t \in Requests, Rollback(t), UNCHANGED <<day, runs>>,
         op[t].at \in {"lookup", "write"}
  PROVE  AInv'
<1> DEFINE r == op[t].run
           o == Failed(t)
<1>0. op[t].at \in {"lookup", "legacy", "write"} /\ t # None
  BY NoneAssumption
<1>1. /\ Active(op[t]) /\ op[t] \in Op /\ r \in DOMAIN runs /\ WroteIn(imports, r) = {}
      /\ imports \in Seq(Row)
  BY <1>0, Importing
<1>2. /\ r \in Nat /\ Whole(runs, imports, r)
      /\ \A u \in Requests : u # t /\ Active(op[u]) => op[u].run # r
  BY <1>1, Mine
<1>3. /\ Set(t, o) /\ UNCHANGED <<runs, imports>>
      /\ IF writer = t THEN writer' = None /\ draft' = <<>> ELSE UNCHANGED <<writer, draft>>
  BY DEF Rollback
<1>4. /\ o \in Op /\ o.at = "finish" /\ o.status = "failed" /\ o.run = r /\ o.found = 0
  BY <1>1, EmptySeq DEF Failed, Op
<1>5. runs[r].status = "started"
  BY <1>0, Importing
<1> HIDE DEF o, r
<1>6. Covers(o, runs', View(t)', imports')
  BY <1>1, <1>3, <1>4, <1>5 DEF Covers, Active
<1>7. \A u \in Requests : u # t => \/ View(u)' = View(u)
                                   \/ View(u) = imports /\ View(u)' = imports'
  BY <1>0, <1>3, NoneAssumption DEF View
<1>8. Extends(imports, imports') /\ Len(runs) <= Len(runs')
  BY <1>1, <1>3, LenProperties, ExtendsReflexive, Locals
<1>9. writer' # None => writer' = writer /\ writer # t /\ writer \in Requests
  BY <1>3 DEF IInv, TypeOK
<1>10. writer' # None =>
         /\ Extends(imports', draft')
         /\ \A k \in Nat : k # op'[writer'].run =>
                             WroteIn(draft', k) \subseteq WroteIn(imports', k)
  <2>1. ASSUME writer' # None PROVE op'[writer'] = op[writer] /\ draft' = draft
    BY <1>0, <1>3, <1>9, <2>1 DEF Set, IInv, TypeOK
  <2> QED BY <2>1, <1>3, <1>9 DEF AInv
<1>11. /\ \A k \in Nat : k # r => WroteIn(imports', k) \subseteq WroteIn(imports, k)
       /\ r \in DOMAIN runs' => Whole(runs', imports', r)
       /\ WroteIn(imports', r) # {} => r <= Len(runs')
       /\ \A k \in DOMAIN runs : k # r => runs'[k] = runs[k]
       /\ \A k \in DOMAIN runs' : k \in DOMAIN runs \/ k = r
  BY <1>1, <1>2, <1>3
<1> QED BY <1>2, <1>3, <1>4, <1>6, <1>7, <1>8, <1>10, <1>11, AtomicStep

LEMMA FlushAtomic ==
  ASSUME IInv, IInv', AInv, NEW t \in Requests, Write(t), ~Rollback(t)
  PROVE  AInv'
<1> DEFINE r == op[t].run
           o == [Done(t) EXCEPT !.pending = Pending(t)]
           new == Flushed(t)
           key == First(t).key
           K == IF op[t].found = 0 THEN {} ELSE {key}
<1>0. /\ op[t].at = "write" /\ MayWrite(t) /\ writer' = t /\ draft' = new
      /\ Set(t, o) /\ UNCHANGED <<imports, day, runs>> /\ t # None
  BY NoneAssumption DEF Write
<1>1. /\ Active(op[t]) /\ op[t] \in Op /\ r \in DOMAIN runs /\ runs[r].status = "started"
      /\ KeysOf(op[t].batch) \cup WroteIn(View(t), r) \cup Current(op[t].pending)
           \subseteq runs[r].keys
      /\ runs[r].keys \subseteq KeysOf(op[t].batch) \cup Current(View(t)) \cup Current(op[t].pending)
      /\ WroteIn(imports, r) = {} /\ imports \in Seq(Row) /\ View(t) \in Seq(Row)
      /\ op[t].batch \in Seq(Record) /\ op[t].pending \in Seq(Row)
      /\ op \in [Requests -> Op] /\ op' \in [Requests -> Op]
      /\ \A i \in DOMAIN op[t].pending : op[t].pending[i].run = r
  BY <1>0, Importing, Locals DEF IInv, TypeOK
<1>2. /\ r \in Nat /\ Whole(runs, imports, r) /\ Covers(op[t], runs, View(t), imports)
      /\ \A u \in Requests : u # t /\ Active(op[u]) => op[u].run # r
  BY <1>1, Mine
<1>3. op[t].batch # <<>> /\ First(t).kind = "kept"
  BY <1>0, Locals DEF Fits, First
<1>4. KeysOf(op[t].batch) = KeysOf(Tail(op[t].batch)) \cup {key}
  BY <1>1, <1>3, KeysOfFirst DEF First
<1>5. /\ o.at = "lookup" /\ o.run = r /\ o.batch = Tail(op[t].batch) /\ o.found = 0
      /\ o.pending = Pending(t) /\ o = op'[t] /\ o \in Op
  <2>1. o = op'[t]
    BY <1>0, <1>1 DEF Set
  <2>2. Done(t) = [op[t] EXCEPT !.at = "lookup", !.batch = Tail(op[t].batch), !.found = 0,
                                !.same = FALSE]
    BY <1>1 DEF Done
  <2> QED BY <1>1, <2>1, <2>2 DEF Op
<1>6. /\ op[t].found # 0 => op[t].found \in DOMAIN View(t) /\ View(t)[op[t].found].key = key
  BY <1>0, <1>2 DEF Covers, First
<1>7. /\ new \in Seq(Row) /\ Len(new) = Len(View(t)) + Len(op[t].pending)
      /\ \A i \in DOMAIN new :
           /\ new[i].key = (View(t) \o op[t].pending)[i].key
           /\ new[i].scheme \in {(View(t) \o op[t].pending)[i].scheme, "current"}
           /\ i = op[t].found => new[i].scheme = "current"
           /\ \/ new[i].run = (View(t) \o op[t].pending)[i].run
              \/ i = op[t].found /\ new[i].run = r
  BY <1>0, FlushedRows
<1>8. \A i \in DOMAIN op[t].pending : op[t].pending[i].scheme = "current"
  BY ViewFits
<1> HIDE DEF new
<1>9. \A i \in DOMAIN new : i = op[t].found => new[i].key \in K
  <2>1. 0 \notin DOMAIN new
    BY <1>7, LenProperties
  <2>2. \A i \in DOMAIN View(t) : (View(t) \o op[t].pending)[i] = View(t)[i]
    BY <1>1, ConcatProperties, LenProperties
  <2> QED BY <1>6, <1>7, <2>1, <2>2
<1>10. Pending(t) = <<>> \/ op[t].found = 0
  BY DEF Pending
<1>11. /\ Current(Pending(t)) = (IF op[t].found = 0 THEN {key} ELSE {})
       /\ \A i \in DOMAIN Pending(t) : Pending(t)[i].run = r
  <2>1. CASE op[t].found # 0
    BY <2>1 DEF Pending, Current
  <2>2. CASE op[t].found = 0
    <3> DEFINE row == [key |-> key, scheme |-> "current", val |-> First(t).val, run |-> r]
    <3>1. Pending(t) = <<row>> /\ row.key = key /\ row.scheme = "current" /\ row.run = r
      BY <2>2 DEF Pending
    <3> HIDE DEF row
    <3>2. DOMAIN <<row>> = {1} /\ <<row>>[1] = row
      OBVIOUS
    <3>3. Current(<<row>>) = {key}
      BY <3>1, <3>2 DEF Current
    <3> QED BY <2>2, <3>1, <3>2, <3>3
  <2> QED BY <2>1, <2>2
<1> HIDE DEF o, r, K, key
<1>12. /\ Extends(View(t), new)
       /\ Current(View(t)) \cup Current(op[t].pending) \subseteq Current(new)
       /\ WroteIn(new, r) \subseteq WroteIn(View(t), r) \cup Current(op[t].pending) \cup K
       /\ \A k : k # r => WroteIn(new, k) \subseteq WroteIn(View(t), k)
  <2>1. Leaves(View(t), op[t].pending, new, r, K)
    BY <1>1, <1>7, <1>8, <1>9 DEF Leaves
  <2> QED BY <1>1, <1>7, <2>1, FlushTells
<1>13. op[t].found # 0 => key \in Current(new)
  <2> SUFFICES ASSUME op[t].found # 0 PROVE key \in Current(new)
    OBVIOUS
  <2>1. op[t].found \in DOMAIN new
    BY <1>1, <1>6, <1>7, <1>12, ExtendsKeeps
  <2>2. new[op[t].found].scheme = "current"
    BY <1>7, <2>1
  <2>3. new[op[t].found].key = key
    BY <1>6, <1>12, <2>1 DEF Extends
  <2> QED BY <2>1, <2>2, <2>3 DEF Current
<1>14. View(t)' = new
  BY <1>0 DEF View
<1>15. Covers(o, runs, new, imports)
  <2>1. KeysOf(o.batch) \cup WroteIn(new, r) \cup Current(o.pending) \subseteq runs[r].keys
    BY <1>1, <1>4, <1>5, <1>11, <1>12 DEF K
  <2>2. runs[r].keys \subseteq KeysOf(o.batch) \cup Current(new) \cup Current(o.pending)
    BY <1>1, <1>4, <1>5, <1>11, <1>12, <1>13
  <2>3. \A i \in DOMAIN o.pending : o.pending[i].run = o.run
    BY <1>5, <1>11
  <2>4. o.run \in DOMAIN runs /\ runs[o.run].status = "started" /\ WroteIn(imports, o.run) = {}
    BY <1>1, <1>5
  <2> QED BY <1>5, <2>1, <2>2, <2>3, <2>4 DEF Covers
<1>16. Covers(o, runs', View(t)', imports')
  BY <1>0, <1>14, <1>15
<1>17. \A u \in Requests : u # t => \/ View(u)' = View(u)
                                    \/ View(u) = imports /\ View(u)' = imports'
  BY <1>0, NoneAssumption DEF View, MayWrite
<1>18. Extends(imports, View(t)) /\ \A k \in Nat : k # r => WroteIn(View(t), k) \subseteq WroteIn(imports, k)
  <2>1. CASE writer = t
    BY <1>0, <2>1 DEF AInv, View, r
  <2>2. CASE writer # t
    <3>1. View(t) = imports
      BY <2>2 DEF View
    <3> QED BY <1>1, <3>1, LenProperties, ExtendsReflexive
  <2> QED BY <2>1, <2>2
<1>19. Extends(imports, new)
  <2>1. DOMAIN imports \subseteq DOMAIN View(t)
    BY <1>1, <1>18, ExtendsKeeps
  <2> QED BY <1>1, <1>7, <1>12, <1>18, <2>1, LenProperties DEF Extends
<1>20. writer' # None =>
         /\ Extends(imports', draft')
         /\ \A k \in Nat : k # op'[writer'].run =>
                             WroteIn(draft', k) \subseteq WroteIn(imports', k)
  BY <1>0, <1>5, <1>12, <1>18, <1>19
<1>21. Extends(imports, imports') /\ Len(runs) <= Len(runs')
  BY <1>0, <1>1, LenProperties, ExtendsReflexive, Locals
<1>22. /\ \A k \in Nat : k # r => WroteIn(imports', k) \subseteq WroteIn(imports, k)
       /\ r \in DOMAIN runs' => Whole(runs', imports', r)
       /\ WroteIn(imports', r) # {} => r <= Len(runs')
       /\ \A k \in DOMAIN runs : k # r => runs'[k] = runs[k]
       /\ \A k \in DOMAIN runs' : k \in DOMAIN runs \/ k = r
  BY <1>0, <1>1, <1>2
<1> QED BY <1>0, <1>2, <1>5, <1>16, <1>17, <1>20, <1>21, <1>22, AtomicStep

LEMMA CommitAtomic ==
  ASSUME IInv, IInv', AInv, NEW t \in Requests, Commit(t), ~Rollback(t)
  PROVE  AInv'
<1> DEFINE r == op[t].run
<1>0. /\ op[t].at = "lookup" /\ op[t].batch = <<>> /\ UNCHANGED <<day, runs>> /\ t # None
  BY NoneAssumption DEF Commit, Imported
<1>1. /\ Active(op[t]) /\ op[t] \in Op /\ r \in DOMAIN runs /\ runs[r].status = "started"
      /\ WroteIn(View(t), r) \cup Current(op[t].pending) \subseteq runs[r].keys
      /\ runs[r].keys \subseteq KeysOf(op[t].batch) \cup Current(View(t)) \cup Current(op[t].pending)
      /\ WroteIn(imports, r) = {} /\ imports \in Seq(Row) /\ View(t) \in Seq(Row)
      /\ op[t].pending \in Seq(Row) /\ op \in [Requests -> Op] /\ op' \in [Requests -> Op]
      /\ \A i \in DOMAIN op[t].pending : op[t].pending[i].run = r
  BY <1>0, Importing, Locals DEF IInv, TypeOK
<1>2. /\ r \in Nat /\ r <= Len(runs) /\ Whole(runs, imports, r)
      /\ Covers(op[t], runs, View(t), imports)
      /\ \A u \in Requests : u # t /\ Active(op[u]) => op[u].run # r
  BY <1>1, Mine
<1>3. op[t].found = 0 /\ Len(runs) \in Nat
  BY <1>0, <1>2, Locals, LenProperties DEF Covers
<1>4. KeysOf(op[t].batch) = {}
  BY <1>0 DEF KeysOf
<1>5. CASE writer = t
  <2> DEFINE o == [op[t] EXCEPT !.at = "finish", !.status = "success", !.pending = <<>>]
             new == View(t) \o op[t].pending
  <2>1. Set(t, o) /\ imports' = new /\ writer' = None /\ draft' = <<>>
    BY <1>5 DEF Commit
  <2>2. o.at = "finish" /\ o.status = "success" /\ o.run = r /\ o.found = 0 /\ o \in Op
    BY <1>1, <1>3, EmptySeq DEF Op
  <2>3. new \in Seq(Row) /\ Len(new) = Len(View(t)) + Len(op[t].pending)
    BY <1>1, ConcatProperties
  <2>4. \A i \in DOMAIN op[t].pending : op[t].pending[i].scheme = "current"
    BY ViewFits
  <2>5. Leaves(View(t), op[t].pending, new, r, {})
    BY <1>1, <2>3, <2>4 DEF Leaves
  <2> HIDE DEF o, new
  <2>6. /\ Extends(View(t), new)
        /\ Current(View(t)) \cup Current(op[t].pending) \subseteq Current(new)
        /\ WroteIn(new, r) \subseteq WroteIn(View(t), r) \cup Current(op[t].pending) \cup {}
        /\ \A k : k # r => WroteIn(new, k) \subseteq WroteIn(View(t), k)
    BY <1>1, <2>3, <2>5, FlushTells
  <2>7. /\ Extends(imports, View(t))
        /\ \A k \in Nat : k # r => WroteIn(View(t), k) \subseteq WroteIn(imports, k)
    BY <1>0, <1>5 DEF AInv, View
  <2>8. Extends(imports, imports')
    <3>1. DOMAIN imports \subseteq DOMAIN View(t)
      BY <1>1, <2>7, ExtendsKeeps
    <3> QED BY <1>1, <2>1, <2>3, <2>6, <2>7, <3>1, LenProperties DEF Extends
  <2>9. runs[r].keys \subseteq Current(new) /\ WroteIn(new, r) \subseteq runs[r].keys
    BY <1>1, <1>4, <2>6
  <2>10. Covers(o, runs', View(t)', imports') /\ Whole(runs', imports', r)
    BY <1>0, <1>1, <2>1, <2>2, <2>9 DEF Covers, Whole, Active
  <2>11. \A u \in Requests : u # t => View(u) = imports /\ View(u)' = imports'
    BY <1>5, <2>1, NoneAssumption DEF View
  <2>12. /\ \A k \in Nat : k # r => WroteIn(imports', k) \subseteq WroteIn(imports, k)
         /\ r <= Len(runs') /\ Len(runs) <= Len(runs')
         /\ \A k \in DOMAIN runs : k # r => runs'[k] = runs[k]
         /\ \A k \in DOMAIN runs' : k \in DOMAIN runs \/ k = r
    BY <1>0, <1>2, <1>3, <2>1, <2>6, <2>7
  <2> QED BY <1>2, <2>1, <2>2, <2>8, <2>10, <2>11, <2>12, AtomicStep
<1>6. CASE writer # t
  <2> DEFINE o == [op[t] EXCEPT !.at = "finish", !.status = "success"]
  <2>1. Set(t, o) /\ UNCHANGED <<imports, writer, draft>>
    BY <1>6 DEF Commit
  <2>2. o.at = "finish" /\ o.status = "success" /\ o.run = r /\ o.found = 0 /\ o \in Op
    BY <1>1, <1>3 DEF Op
  <2>3. op[t].pending = <<>> /\ View(t) = imports
    BY <1>6, Quiet DEF View
  <2>4. Current(op[t].pending) = {}
    BY <2>3 DEF Current
  <2> HIDE DEF o
  <2>5. Covers(o, runs, View(t), imports) /\ Active(o)
    BY <1>1, <1>4, <2>2, <2>3, <2>4 DEF Covers, Active
  <2> QED BY <1>0, <1>1, <2>1, <2>2, <2>5, StillAtomic
<1> QED BY <1>5, <1>6

-----------------------------------------------------------------------------
LEMMA StepAtomic ==
  ASSUME IInv, IInv', AInv, NEW t \in Requests, Step(t)
  PROVE  AInv'
<1>1. CASE RejectRecord(t) \/ WriteLocked(t)
  <2>1. Rollback(t) /\ UNCHANGED <<day, runs>> /\ op[t].at \in {"lookup", "write"}
    BY <1>1 DEF RejectRecord, WriteLocked, Looking
  <2> QED BY <2>1, RollbackAtomic
<1>2. CASE Write(t)
  <2>1. UNCHANGED <<day, runs>> /\ op[t].at = "write"
    BY <1>2 DEF Write
  <2> QED BY <1>2, <2>1, RollbackAtomic, FlushAtomic
<1>3. CASE Commit(t)
  <2>1. UNCHANGED <<day, runs>> /\ op[t].at = "lookup"
    BY <1>3 DEF Commit, Imported
  <2> QED BY <1>3, <2>1, RollbackAtomic, CommitAtomic
<1>4. CASE RunLocked(t)
  <2>1. /\ Set(t, Idle) /\ UNCHANGED <<runs, imports, writer, draft>>
        /\ op[t].at \notin {"lookup", "legacy", "write"}
    BY <1>4 DEF RunLocked
  <2>2. ~Active(Idle) /\ Idle.found = 0
    BY DEF Active, Idle
  <2> QED BY <2>1, <2>2, IdleTyped, AskAtomic
<1> QED BY <1>1, <1>2, <1>3, <1>4, CreateAtomic, EndsAtomic, CollectAtomic, FindAtomic DEF Step

LEMMA AtomicHolds == IInv /\ IInv' /\ AInv /\ [Next]_vars => AInv'
<1> SUFFICES ASSUME IInv, IInv', AInv, [Next]_vars PROVE AInv'
  OBVIOUS
<1>1. CASE Crash
  <2>1. UNCHANGED <<runs, imports>> /\ writer' = None /\ \A t \in Requests : op'[t] = Idle
    BY <1>1 DEF Crash
  <2>2. \A rs, rows, table : Covers(Idle, rs, rows, table)
    BY IdleTyped DEF Covers, Active, Idle
  <2>3. ~Active(Idle)
    BY IdleTyped DEF Active
  <2>4. \A t \in Requests : Covers(op'[t], runs', View(t)', imports')
    BY <2>1, <2>2
  <2>5. \A t \in Requests : Covers(op[t], runs, View(t), imports)'
    BY <2>4
  <2> QED BY <2>1, <2>3, <2>5 DEF AInv
<1>2. CASE NewDay \/ UNCHANGED vars
  <2>1. UNCHANGED <<runs, imports, writer, draft, op>>
    BY <1>2 DEF NewDay, vars
  <2>2. \A t \in Requests : View(t)' = View(t)
    BY <2>1 DEF View
  <2> QED BY <2>1, <2>2 DEF AInv
<1>3. ASSUME NEW t \in Requests, NEW dry \in BOOLEAN, NEW disabled \in BOOLEAN,
             Ask(t, dry, disabled)
      PROVE  AInv'
  <2> DEFINE o == [Idle EXCEPT !.at = "create", !.dry = dry,
                               !.status = IF disabled \/ OverLimit THEN "blocked" ELSE "started"]
  <2>1. Set(t, o) /\ op[t].at = "idle" /\ UNCHANGED <<runs, imports, writer, draft>>
    BY <1>3 DEF Ask
  <2>2. o \in Op /\ o.at = "create" /\ o.found = 0
    BY IdleTyped DEF Op, Idle
  <2> HIDE DEF o
  <2>3. ~Active(o)
    BY <2>2 DEF Active
  <2> QED BY <2>1, <2>2, <2>3, AskAtomic
<1> QED BY <1>1, <1>2, <1>3, StepAtomic DEF Next

LEMMA AtomicInit == Init => AInv
<1> SUFFICES ASSUME Init PROVE AInv
  OBVIOUS
<1>1. \A rs, rows, table : Covers(Idle, rs, rows, table)
  BY IdleTyped DEF Covers, Active, Idle
<1>2. \A t \in Requests : op[t] = Idle /\ ~Active(op[t])
  BY DEF Init, Active, Idle
<1>3. \A k \in Nat : WroteIn(imports, k) # {} => k <= Len(runs)
  <2>1. \A i \in DOMAIN imports : imports[i].run = 0
    BY DEF Init
  <2>2. \A k \in Nat : WroteIn(imports, k) # {} => k = 0
    BY <2>1 DEF WroteIn
  <2>3. Len(runs) = 0
    BY DEF Init
  <2> QED BY <2>2, <2>3
<1>4. DOMAIN runs = {}
  BY DEF Init
<1> QED BY <1>1, <1>2, <1>3, <1>4 DEF AInv, Init

(* A batch is imported whole or not at all, at any instant: whatever fails, is
   locked out or is killed, a row names a run that was to import it and has not
   failed, and a run that has a row or ended well has left one for every record. *)
THEOREM ImportsAreAllOrNothing == Spec => []BatchesAreAtomic
<1>1. AInv => BatchesAreAtomic
  BY DEF AInv, Whole, WroteIn, Wrote, BatchesAreAtomic
<1> QED BY <1>1, AtomicInit, AtomicHolds, InvariantHolds, PTL DEF Spec

-----------------------------------------------------------------------------
(* The daily limit.                                                        *)

\* The runs of a day that have called the vendor or still may, and the requests that
\* were let through and have not recorded their run yet.
Calls(d) ==
  {r \in DOMAIN runs : /\ runs[r].day = d
                       /\ \/ runs[r].called
                          \/ \E t \in Requests : op[t].at = "collect" /\ op[t].run = r}
Passed == {t \in Requests : op[t].at = "create" /\ op[t].status # "blocked"}

\* Once the runs of a day have reached the limit nobody is let through any more, so
\* the runs that may call and those that are still to be recorded do not grow in
\* number together; one request at least was neither when the limit was reached.
LimitInv ==
  /\ \A r \in DOMAIN runs : runs[r].day <= day
  /\ MaxCalls = 0 => Passed = {}
  /\ \A d \in Days : d < day => Cardinality(Calls(d)) < MaxCalls + Cardinality(Requests)
  /\ \/ Cardinality(RunsToday) < MaxCalls
     \/ \A d \in Days : d = day =>
          Cardinality(Calls(d)) + Cardinality(Passed) < MaxCalls + Cardinality(Requests)

LEMMA SetsAreFinite ==
  ASSUME IInv
  PROVE  /\ \A d : IsFiniteSet(Calls(d)) /\ Cardinality(Calls(d)) \in Nat
         /\ IsFiniteSet(RunsToday) /\ Cardinality(RunsToday) \in Nat
         /\ IsFiniteSet(Passed) /\ Cardinality(Passed) \in Nat
         /\ Cardinality(Requests) \in Nat /\ Cardinality(Requests) > 0
         /\ MaxCalls \in Nat /\ day \in Nat
<1>1. /\ DOMAIN runs = 1 .. Len(runs) /\ Len(runs) \in Nat
  BY LenProperties DEF IInv, TypeOK
<1>2. IsFiniteSet(DOMAIN runs)
  BY <1>1, FS_Interval
<1>3. (\A d : Calls(d) \subseteq DOMAIN runs) /\ RunsToday \subseteq DOMAIN runs
      /\ Passed \subseteq Requests
  BY DEF Calls, RunsToday, Passed
<1>4. /\ \A d : IsFiniteSet(Calls(d)) /\ Cardinality(Calls(d)) \in Nat
      /\ IsFiniteSet(RunsToday) /\ Cardinality(RunsToday) \in Nat
  BY <1>2, <1>3, FS_Subset, FS_CardinalityType
<1>5. /\ IsFiniteSet(Passed) /\ Cardinality(Passed) \in Nat
      /\ Cardinality(Requests) \in Nat /\ Cardinality(Requests) > 0
  BY <1>3, RequestAssumption, FS_Subset, FS_CardinalityType, FS_EmptySet
<1> QED BY <1>4, <1>5, BoundAssumption DEF IInv, TypeOK, Days

LEMMA CallsAreRuns == IInv => \A d : d = day => Cardinality(Calls(d)) <= Cardinality(RunsToday)
<1>1. \A d : d = day => Calls(d) \subseteq RunsToday
  BY DEF Calls, RunsToday
<1> QED BY <1>1, SetsAreFinite, FS_Subset

\* A step that records no run and lets nobody through beyond the limit.
LEMMA LimitKept ==
  ASSUME IInv, IInv', LimitInv, UNCHANGED day,
         DOMAIN runs' = DOMAIN runs,
         \A r \in DOMAIN runs :
           /\ runs'[r].day = runs[r].day
           /\ runs'[r].called => \/ runs[r].called
                                 \/ \E t \in Requests : op[t].at = "collect" /\ op[t].run = r,
         \A t \in Requests : op'[t].at = "collect" => op[t].at = "collect" /\ op'[t].run = op[t].run,
         Passed' \subseteq Passed \/ Cardinality(RunsToday) < MaxCalls,
         MaxCalls = 0 => Passed' \subseteq Passed
  PROVE  LimitInv'
<1>1. \A d : Calls(d)' \subseteq Calls(d)
  BY DEF Calls
<1>2. RunsToday' = RunsToday
  BY DEF RunsToday
<1>3. \A d : Cardinality(Calls(d)') <= Cardinality(Calls(d))
  BY <1>1, SetsAreFinite, FS_Subset
<1>4. /\ \A d : Cardinality(Calls(d)) \in Nat /\ Cardinality(Calls(d)') \in Nat
      /\ Cardinality(RunsToday) \in Nat /\ Cardinality(Passed) \in Nat
      /\ Cardinality(Passed') \in Nat /\ IsFiniteSet(Passed)
      /\ Cardinality(Requests) \in Nat /\ MaxCalls \in Nat
  <2>1. \A d : Calls(d)' \subseteq Calls(d) /\ IsFiniteSet(Calls(d))
    BY <1>1, SetsAreFinite
  <2>2. \A d : Cardinality(Calls(d)') \in Nat
    BY <2>1, FS_Subset, FS_CardinalityType
  <2>3. Passed' \subseteq Requests
    BY DEF Passed
  <2>4. Cardinality(Passed') \in Nat
    BY <2>3, RequestAssumption, FS_Subset, FS_CardinalityType
  <2> QED BY <2>2, <2>4, SetsAreFinite
<1>5. /\ \A r \in DOMAIN runs' : runs'[r].day <= day'
      /\ MaxCalls = 0 => Passed' = {}
  BY DEF LimitInv
<1>6. \A d \in Days : d < day' => Cardinality(Calls(d)') < MaxCalls + Cardinality(Requests)
  BY <1>3, <1>4 DEF LimitInv
<1>7. \/ Cardinality(RunsToday') < MaxCalls
      \/ \A d \in Days : d = day' =>
           Cardinality(Calls(d)') + Cardinality(Passed') < MaxCalls + Cardinality(Requests)
  <2>1. CASE Cardinality(RunsToday) < MaxCalls
    BY <1>2, <2>1
  <2>2. CASE ~(Cardinality(RunsToday) < MaxCalls)
    <3>1. Cardinality(Passed') <= Cardinality(Passed)
      BY <2>2, <1>4, FS_Subset
    <3>2. \A d \in Days : d = day =>
            Cardinality(Calls(d)) + Cardinality(Passed) < MaxCalls + Cardinality(Requests)
      BY <2>2 DEF LimitInv
    <3> QED BY <3>1, <3>2, <1>3, <1>4
  <2> QED BY <2>1, <2>2
<1> QED BY <1>5, <1>6, <1>7 DEF LimitInv

LEMMA RecordedRun ==
  ASSUME IInv, IInv', AInv, LimitInv, NEW t \in Requests, CreateRun(t)
  PROVE  LimitInv'
<1> DEFINE q == [day |-> day, called |-> FALSE, keys |-> {}, status |-> "started"]
           r == Len(runs) + 1
           o == [op[t] EXCEPT !.run = Len(runs'),
                              !.at = IF op[t].status = "blocked" THEN "finish" ELSE "collect"]
<1>0. /\ op[t] \in Op /\ runs \in Seq(Run) /\ day \in Days /\ op \in [Requests -> Op]
  BY Locals DEF IInv, TypeOK
<1>1. op[t].at = "create" /\ runs' = Append(runs, q) /\ Set(t, o) /\ UNCHANGED day
  BY DEF CreateRun
<1>1a. PICK today \in Days : today = day
  BY <1>0
<1>2. q \in Run /\ q.day = day /\ q.called = FALSE
  BY <1>0 DEF Run
<1> HIDE DEF q
<1>3. /\ DOMAIN runs' = 1 .. r /\ DOMAIN runs = 1 .. Len(runs) /\ Len(runs') = r
      /\ Len(runs) \in Nat /\ runs'[r] = q /\ \A k \in DOMAIN runs : runs'[k] = runs[k]
  BY <1>0, <1>1, <1>2, AppendProperties, LenProperties
<1>4. /\ \A u \in Requests : op'[u] = IF u = t THEN o ELSE op[u]
      /\ o.run = r /\ o.at = IF op[t].status = "blocked" THEN "finish" ELSE "collect"
  BY <1>0, <1>1, <1>3 DEF Set, Op
<1>5. r \notin DOMAIN runs /\ DOMAIN runs' = DOMAIN runs \cup {r} /\ r \in Nat
  BY <1>3
<1>6. \A u \in Requests : op[u].at = "collect" => op[u].run \in DOMAIN runs
  BY Mine DEF Active
<1> HIDE DEF o, r
<1>7. /\ \A d : d # today => Calls(d)' \subseteq Calls(d)
      /\ Calls(today)' \subseteq Calls(today) \cup {r}
      /\ op[t].status = "blocked" => Calls(today)' \subseteq Calls(today)
      /\ RunsToday' = RunsToday \cup {r} /\ r \notin RunsToday /\ r \notin Calls(today)
      /\ Passed' = Passed \ {t} /\ (t \in Passed <=> op[t].status # "blocked")
  <2>1. ASSUME NEW d, NEW k \in Calls(d)', k # r PROVE k \in Calls(d)
    <3>1. k \in DOMAIN runs /\ runs'[k] = runs[k] /\ runs[k].day = d
      BY <2>1, <1>3, <1>5 DEF Calls
    <3>2. CASE runs[k].called
      BY <3>1, <3>2 DEF Calls
    <3>3. CASE ~runs[k].called
      <4>1. PICK u \in Requests : op'[u].at = "collect" /\ op'[u].run = k
        BY <2>1, <3>1, <3>3 DEF Calls
      <4>2. u # t
        BY <4>1, <1>4, <2>1
      <4> QED BY <3>1, <4>1, <4>2, <1>4 DEF Calls
    <3> QED BY <3>2, <3>3
  <2>2. ASSUME NEW d, r \in Calls(d)' PROVE d = today /\ op[t].status # "blocked"
    <3>1. d = today
      BY <1>1a, <2>2, <1>2, <1>3 DEF Calls
    <3>2. PICK u \in Requests : op'[u].at = "collect" /\ op'[u].run = r
      BY <2>2, <1>2, <1>3 DEF Calls
    <3>3. u = t
      BY <3>2, <1>4, <1>5, <1>6
    <3> QED BY <3>1, <3>2, <3>3, <1>4
  <2>3. RunsToday' = RunsToday \cup {r} /\ r \notin RunsToday /\ r \notin Calls(today)
    BY <1>1, <1>1a, <1>2, <1>3, <1>5 DEF RunsToday, Calls
  <2>4. Passed' = Passed \ {t} /\ (t \in Passed <=> op[t].status # "blocked")
    BY <1>1, <1>4 DEF Passed
  <2>5. \A d : d # today => Calls(d)' \subseteq Calls(d)
    BY <2>1, <2>2
  <2>6. Calls(today)' \subseteq Calls(today) \cup {r}
    BY <1>1, <2>1
  <2>7. op[t].status = "blocked" => Calls(today)' \subseteq Calls(today)
    BY <1>1, <2>1, <2>2
  <2> QED BY <2>3, <2>4, <2>5, <2>6, <2>7
<1>8. /\ \A d : IsFiniteSet(Calls(d)) /\ Cardinality(Calls(d)) \in Nat
      /\ \A d : Cardinality(Calls(d)') \in Nat
      /\ IsFiniteSet(RunsToday) /\ Cardinality(RunsToday) \in Nat
      /\ IsFiniteSet(Passed) /\ Cardinality(Passed) \in Nat /\ Cardinality(Passed') \in Nat
      /\ Cardinality(Requests) \in Nat /\ Cardinality(Requests) > 0 /\ MaxCalls \in Nat
      /\ day \in Nat
  <2>1. \A d : IsFiniteSet(Calls(d)) /\ IsFiniteSet(Calls(d) \cup {r})
    BY SetsAreFinite, FS_AddElement
  <2>2. \A d : Calls(d)' \subseteq Calls(d) \cup {r}
    BY <1>7
  <2>3. \A d : IsFiniteSet(Calls(d)')
    BY <2>1, <2>2, FS_Subset
  <2>4. Passed' \subseteq Passed
    BY <1>7
  <2>5. IsFiniteSet(Passed')
    BY <2>4, SetsAreFinite, FS_Subset
  <2> QED BY <2>3, <2>5, SetsAreFinite, FS_CardinalityType
<1>9. /\ \A k \in DOMAIN runs' : runs'[k].day <= day'
      /\ MaxCalls = 0 => Passed' = {}
  <2>1. day <= day
    BY <1>8
  <2> QED BY <2>1, <1>1, <1>2, <1>3, <1>5, <1>7 DEF LimitInv
<1>10. \A d \in Days : d < day' => Cardinality(Calls(d)') < MaxCalls + Cardinality(Requests)
  <2> SUFFICES ASSUME NEW d \in Days, d < day
               PROVE  Cardinality(Calls(d)') < MaxCalls + Cardinality(Requests)
    BY <1>1
  <2>1. d # today
    BY <1>8, <1>1a DEF Days
  <2>2. Cardinality(Calls(d)') <= Cardinality(Calls(d))
    BY <2>1, <1>7, <1>8, FS_Subset
  <2> QED BY <2>2, <1>8 DEF LimitInv
<1>11. /\ Cardinality(RunsToday') = Cardinality(RunsToday) + 1
       /\ Cardinality(Calls(today)') <= Cardinality(Calls(today)) + 1
       /\ op[t].status = "blocked" => Cardinality(Calls(today)') <= Cardinality(Calls(today))
       /\ Cardinality(Passed') <= Cardinality(Passed)
       /\ op[t].status # "blocked" => Cardinality(Passed') = Cardinality(Passed) - 1
  <2>1. Cardinality(RunsToday') = Cardinality(RunsToday) + 1
    BY <1>7, <1>8, FS_AddElement
  <2>2. /\ IsFiniteSet(Calls(today) \cup {r})
        /\ Cardinality(Calls(today) \cup {r}) = Cardinality(Calls(today)) + 1
    BY <1>7, <1>8, FS_AddElement
  <2>3. Cardinality(Calls(today)') <= Cardinality(Calls(today) \cup {r})
    BY <2>2, <1>7, FS_Subset
  <2>4. op[t].status = "blocked" => Cardinality(Calls(today)') <= Cardinality(Calls(today))
    BY <1>7, <1>8, FS_Subset
  <2>5. Cardinality(Passed') <= Cardinality(Passed)
    <3>1. Passed' \subseteq Passed
      BY <1>7
    <3> QED BY <3>1, <1>8, FS_Subset
  <2>6. op[t].status # "blocked" => Cardinality(Passed') = Cardinality(Passed) - 1
    BY <1>7, <1>8, FS_RemoveElement
  <2> QED BY <2>1, <2>2, <2>3, <2>4, <2>5, <2>6
<1>12. Cardinality(Passed') <= Cardinality(Requests) - 1
  <2>1. Passed' \subseteq Requests \ {t}
    BY <1>7 DEF Passed
  <2>2. /\ IsFiniteSet(Requests \ {t})
        /\ Cardinality(Requests \ {t}) = Cardinality(Requests) - 1
    BY RequestAssumption, FS_RemoveElement
  <2> QED BY <2>1, <2>2, FS_Subset
<1>13. Cardinality(Calls(today)') <= Cardinality(RunsToday')
  <2>1. Calls(today)' \subseteq RunsToday'
    BY <1>1, <1>1a DEF Calls, RunsToday
  <2>2. IsFiniteSet(RunsToday')
    BY <1>7, <1>8, FS_AddElement
  <2> QED BY <2>1, <2>2, FS_Subset
<1>14. \/ Cardinality(RunsToday') < MaxCalls
       \/ Cardinality(Calls(today)') + Cardinality(Passed') < MaxCalls + Cardinality(Requests)
  <2>1. CASE Cardinality(RunsToday) < MaxCalls
    BY <2>1, <1>8, <1>11, <1>12, <1>13
  <2>2. CASE ~(Cardinality(RunsToday) < MaxCalls)
    BY <2>2, <1>1a, <1>8, <1>11 DEF LimitInv
  <2> QED BY <2>1, <2>2
<1>15. \A d \in Days : d = day' => d = today
  BY <1>1, <1>1a
<1> QED BY <1>9, <1>10, <1>14, <1>15 DEF LimitInv

\* Where the steps of a request that has a run lead.
LEMMA GoesOn ==
  ASSUME IInv, NEW t \in Requests, Step(t), ~CreateRun(t)
  PROVE  op'[t].at \notin {"create", "collect"} /\ \A u \in Requests : u # t => op'[u] = op[u]
<1>0. op \in [Requests -> Op] /\ op[t] \in Op
  BY DEF IInv, TypeOK
<1>1. ASSUME NEW o, Set(t, o), o.at \notin {"create", "collect"}
      PROVE  op'[t].at \notin {"create", "collect"} /\ \A u \in Requests : u # t => op'[u] = op[u]
  BY <1>0, <1>1 DEF Set
<1>2. CASE RejectRecord(t) \/ WriteLocked(t) \/ (Write(t) /\ Rollback(t)) \/ (Commit(t) /\ Rollback(t))
  <2>1. Set(t, Failed(t))
    BY <1>2 DEF RejectRecord, WriteLocked, Rollback
  <2>2. Failed(t).at = "finish"
    BY <1>0 DEF Failed, Op
  <2> QED BY <1>1, <2>1, <2>2
<1>3. CASE Write(t) /\ ~Rollback(t)
  <2>1. Set(t, [Done(t) EXCEPT !.pending = Pending(t)])
    BY <1>3 DEF Write
  <2>2. [Done(t) EXCEPT !.pending = Pending(t)].at = "lookup"
    BY <1>0 DEF Done, Op
  <2> QED BY <1>1, <2>1, <2>2
<1>4. CASE NotConfigured(t) \/ CollectFails(t) \/ Plan(t) \/ (Commit(t) /\ ~Rollback(t))
  <2>1. \E o \in { [op[t] EXCEPT !.at = "finish", !.status = "blocked"],
                   [op[t] EXCEPT !.at = "finish", !.status = "failed"],
                   [op[t] EXCEPT !.at = "finish", !.status = "success"],
                   [op[t] EXCEPT !.at = "finish", !.status = "success", !.pending = <<>>] } : Set(t, o)
    BY <1>4 DEF NotConfigured, CollectFails, Plan, Commit
  <2>2. /\ [op[t] EXCEPT !.at = "finish", !.status = "blocked"].at = "finish"
        /\ [op[t] EXCEPT !.at = "finish", !.status = "failed"].at = "finish"
        /\ [op[t] EXCEPT !.at = "finish", !.status = "success"].at = "finish"
        /\ [op[t] EXCEPT !.at = "finish", !.status = "success", !.pending = <<>>].at = "finish"
    BY <1>0 DEF Op
  <2> QED BY <1>1, <2>1, <2>2
<1>5. CASE Finish(t) \/ RunLocked(t)
  BY <1>1, <1>5, IdleTyped DEF Finish, RunLocked
<1>6. CASE SkipRecord(t) \/ FindCurrent(t)
  <2>1. \/ Set(t, Done(t))
        \/ Set(t, [op[t] EXCEPT !.at = "legacy"])
        \/ \E i : Set(t, [op[t] EXCEPT !.at = "write", !.found = i])
    BY <1>6 DEF SkipRecord, FindCurrent
  <2>2. /\ Done(t).at = "lookup" /\ [op[t] EXCEPT !.at = "legacy"].at = "legacy"
        /\ \A i : [op[t] EXCEPT !.at = "write", !.found = i].at = "write"
    BY <1>0 DEF Done, Op
  <2> QED BY <1>1, <2>1, <2>2
<1>7. CASE FindLegacy(t)
  <2>1. \/ Set(t, [op[t] EXCEPT !.at = "write"])
        \/ \E i : Set(t, [op[t] EXCEPT !.at = "write", !.found = i,
                                       !.same = View(t)[i].val = First(t).val])
    BY <1>7 DEF FindLegacy
  <2>2. /\ [op[t] EXCEPT !.at = "write"].at = "write"
        /\ \A i, same : [op[t] EXCEPT !.at = "write", !.found = i, !.same = same].at = "write"
    BY <1>0 DEF Op
  <2>3. CASE Set(t, [op[t] EXCEPT !.at = "write"])
    BY <1>1, <2>2, <2>3
  <2>4. ASSUME NEW i, Set(t, [op[t] EXCEPT !.at = "write", !.found = i,
                                           !.same = View(t)[i].val = First(t).val])
        PROVE  op'[t].at \notin {"create", "collect"} /\ \A u \in Requests : u # t => op'[u] = op[u]
    <3>1. [op[t] EXCEPT !.at = "write", !.found = i,
                        !.same = View(t)[i].val = First(t).val].at = "write"
      BY <2>2
    <3> QED BY <1>1, <2>4, <3>1
  <2> QED BY <2>1, <2>3, <2>4
<1>8. ASSUME NEW batch \in Batches, Collect(t, batch)
      PROVE  op'[t].at \notin {"create", "collect"} /\ \A u \in Requests : u # t => op'[u] = op[u]
  <2>1. \/ Set(t, [op[t] EXCEPT !.at = "plan"])
        \/ Set(t, [op[t] EXCEPT !.at = "lookup", !.batch = batch, !.known = Current(imports)])
    BY <1>8 DEF Collect
  <2>2. /\ [op[t] EXCEPT !.at = "plan"].at = "plan"
        /\ [op[t] EXCEPT !.at = "lookup", !.batch = batch, !.known = Current(imports)].at = "lookup"
    BY <1>0 DEF Op
  <2> QED BY <1>1, <2>1, <2>2
<1> QED BY <1>2, <1>3, <1>4, <1>5, <1>6, <1>7, <1>8 DEF Step

LEMMA RunsAreKept ==
  ASSUME IInv, AInv, NEW t \in Requests, Step(t), ~CreateRun(t)
  PROVE  /\ DOMAIN runs' = DOMAIN runs
         /\ \A r \in DOMAIN runs :
              /\ runs'[r].day = runs[r].day
              /\ runs'[r].called => \/ runs[r].called
                                    \/ op[t].at = "collect" /\ op[t].run = r
<1>0. runs \in Seq(Run) /\ \A r \in DOMAIN runs : runs[r] \in Run
  <2>1. runs \in Seq(Run) /\ DOMAIN runs = 1 .. Len(runs)
    BY LenProperties DEF IInv, TypeOK
  <2> QED BY <2>1, ElementOfSeq
<1>1. ASSUME UNCHANGED runs
      PROVE  /\ DOMAIN runs' = DOMAIN runs
             /\ \A r \in DOMAIN runs : runs'[r].day = runs[r].day /\ (runs'[r].called => runs[r].called)
  BY <1>1
<1>2. ASSUME Active(op[t]), NEW q,
             runs' = [runs EXCEPT ![op[t].run] = q], q.day = runs[op[t].run].day,
             q.called => runs[op[t].run].called \/ op[t].at = "collect"
      PROVE  /\ DOMAIN runs' = DOMAIN runs
             /\ \A r \in DOMAIN runs :
                  /\ runs'[r].day = runs[r].day
                  /\ runs'[r].called => \/ runs[r].called
                                        \/ op[t].at = "collect" /\ op[t].run = r
  BY <1>2, Mine
<1>3. CASE Finish(t)
  <2> DEFINE q == [runs[op[t].run] EXCEPT !.status = op[t].status]
  <2>1. Active(op[t]) /\ runs' = [runs EXCEPT ![op[t].run] = q]
    BY <1>3 DEF Finish, Active
  <2>2. q.day = runs[op[t].run].day /\ q.called = runs[op[t].run].called
    BY <1>0, <2>1, Mine DEF Run
  <2> HIDE DEF q
  <2> QED BY <1>2, <2>1, <2>2
<1>4. CASE CollectFails(t) \/ \E batch \in Batches : Collect(t, batch)
  <2>1. Active(op[t]) /\ op[t].at = "collect" /\ runs[op[t].run] \in Run
    BY <1>0, <1>4, Mine DEF CollectFails, Collect, Active
  <2>2. CASE runs' = [runs EXCEPT ![op[t].run].called = TRUE]
    <3> DEFINE q == [runs[op[t].run] EXCEPT !.called = TRUE]
    <3>1. runs' = [runs EXCEPT ![op[t].run] = q] /\ q.day = runs[op[t].run].day
      BY <2>1, <2>2 DEF Run
    <3> HIDE DEF q
    <3> QED BY <1>2, <2>1, <3>1
  <2>3. ASSUME NEW keys,
               runs' = [runs EXCEPT ![op[t].run].called = TRUE, ![op[t].run].keys = keys]
        PROVE  \E q : runs' = [runs EXCEPT ![op[t].run] = q] /\ q.day = runs[op[t].run].day
    <3> DEFINE q == [runs[op[t].run] EXCEPT !.called = TRUE, !.keys = keys]
    <3>1. runs' = [runs EXCEPT ![op[t].run] = q]
      <4> DEFINE k == op[t].run
      <4> HIDE DEF k
      <4>1. runs' = [runs EXCEPT ![k].called = TRUE, ![k].keys = keys]
        BY <2>3 DEF k
      <4>2. runs' = [runs EXCEPT ![k] = [runs[k] EXCEPT !.called = TRUE, !.keys = keys]]
        BY <4>1, <1>0
      <4> QED BY <4>2 DEF k
    <3>2. q.day = runs[op[t].run].day
      BY <2>1 DEF Run
    <3> QED BY <3>1, <3>2
  <2>4. CASE \E keys : runs' = [runs EXCEPT ![op[t].run].called = TRUE, ![op[t].run].keys = keys]
    <3>1. PICK q : runs' = [runs EXCEPT ![op[t].run] = q] /\ q.day = runs[op[t].run].day
      BY <2>3, <2>4
    <3> QED BY <1>2, <2>1, <3>1
  <2> QED BY <1>4, <2>2, <2>4 DEF CollectFails, Collect
<1>5. CASE /\ ~Finish(t) /\ ~CollectFails(t) /\ ~\E batch \in Batches : Collect(t, batch)
  <2>1. UNCHANGED runs
    BY <1>5 DEF Step, NotConfigured, RejectRecord, SkipRecord, FindCurrent, FindLegacy,
                Write, WriteLocked, Commit, Plan, RunLocked
  <2> QED BY <1>1, <2>1
<1> QED BY <1>3, <1>4, <1>5

LEMMA LimitHolds == IInv /\ IInv' /\ AInv /\ LimitInv /\ [Next]_vars => LimitInv'
<1> SUFFICES ASSUME IInv, IInv', AInv, LimitInv, [Next]_vars PROVE LimitInv'
  OBVIOUS
<1>0. /\ op \in [Requests -> Op] /\ runs \in Seq(Run) /\ DOMAIN runs = 1 .. Len(runs)
  BY LenProperties DEF IInv, TypeOK
<1>6. \A r \in DOMAIN runs : runs[r].day \in Nat /\ runs[r].day <= day
  <2>1. \A r \in DOMAIN runs : runs[r] \in Run
    BY <1>0, ElementOfSeq
  <2> QED BY <2>1 DEF Run, Days, LimitInv
<1>1. CASE Crash
  <2>1. UNCHANGED <<day, runs>> /\ \A t \in Requests : op'[t].at = "idle"
    BY <1>1 DEF Crash, Idle
  <2>2. Passed' = {}
    BY <2>1 DEF Passed
  <2> QED BY <2>1, <2>2, LimitKept
<1>2. CASE UNCHANGED vars
  <2>1. UNCHANGED <<day, runs, op>>
    BY <1>2 DEF vars
  <2>2. Passed' = Passed
    BY <2>1 DEF Passed
  <2> QED BY <2>1, <2>2, LimitKept
<1>3. CASE NewDay
  <2>1. UNCHANGED <<runs, op>> /\ day' = day + 1 /\ day \in Nat
    BY <1>3, SetsAreFinite DEF NewDay
  <2>2. \A d : Calls(d)' = Calls(d)
    BY <2>1 DEF Calls, Passed
  <2>9. Passed' = Passed
    BY <2>1 DEF Passed
  <2>3. RunsToday' = {} /\ \A d : d = day' => Calls(d) = {}
    <3>1. \A r \in DOMAIN runs : runs[r].day # day + 1
      BY <1>6, <2>1
    <3> QED BY <2>1, <3>1 DEF RunsToday, Calls
  <2>4. \A r \in DOMAIN runs' : runs'[r].day <= day'
    BY <1>6, <2>1
  <2>5. \A d : d = day => Cardinality(Calls(d)) < MaxCalls + Cardinality(Requests)
    BY CallsAreRuns, SetsAreFinite DEF LimitInv, IInv, TypeOK
  <2>6. \A d \in Days : d < day' => Cardinality(Calls(d)') < MaxCalls + Cardinality(Requests)
    <3> SUFFICES ASSUME NEW d \in Days, d < day'
                 PROVE  Cardinality(Calls(d)) < MaxCalls + Cardinality(Requests)
      BY <2>2
    <3>1. d < day \/ d = day
      BY <2>1 DEF Days
    <3> QED BY <3>1, <2>5 DEF LimitInv
  <2>7. Cardinality(RunsToday') = 0 /\ Cardinality({}) = 0 /\ \A d : d = day' => Calls(d)' = {}
    BY <2>1, <2>2, <2>3, FS_EmptySet
  <2>8. \/ Cardinality(RunsToday') < MaxCalls
        \/ \A d \in Days : d = day' =>
             Cardinality(Calls(d)') + Cardinality(Passed') < MaxCalls + Cardinality(Requests)
    <3>1. CASE MaxCalls = 0
      <4>1. Passed' = {}
        BY <2>9, <3>1 DEF LimitInv
      <4> QED BY <2>7, <4>1, SetsAreFinite
    <3>2. CASE MaxCalls # 0
      BY <2>7, <3>2, SetsAreFinite
    <3> QED BY <3>1, <3>2
  <2> QED BY <2>4, <2>6, <2>8, <2>9 DEF LimitInv
<1>4. ASSUME NEW t \in Requests, NEW dry \in BOOLEAN, NEW disabled \in BOOLEAN,
             Ask(t, dry, disabled)
      PROVE  LimitInv'
  <2>1. /\ op[t].at = "idle" /\ UNCHANGED <<day, runs>>
        /\ Set(t, [Idle EXCEPT !.at = "create", !.dry = dry,
                                !.status = IF disabled \/ OverLimit THEN "blocked" ELSE "started"])
    BY <1>4 DEF Ask
  <2>2. op'[t].at = "create" /\ op'[t].status = IF disabled \/ OverLimit THEN "blocked" ELSE "started"
    BY <1>0, <2>1 DEF Set, Idle
  <2>3. \A u \in Requests : u # t => op'[u] = op[u]
    BY <1>0, <2>1 DEF Set
  <2>4. Passed' \subseteq Passed \/ ~OverLimit
    BY <2>2, <2>3 DEF Passed
  <2>5. ~OverLimit => Cardinality(RunsToday) < MaxCalls /\ MaxCalls # 0
    BY SetsAreFinite DEF OverLimit
  <2>6. /\ Passed' \subseteq Passed \/ Cardinality(RunsToday) < MaxCalls
        /\ MaxCalls = 0 => Passed' \subseteq Passed
    BY <2>4, <2>5
  <2> QED BY <2>1, <2>2, <2>3, <2>6, LimitKept
<1>5. ASSUME NEW t \in Requests, Step(t), ~CreateRun(t) PROVE LimitInv'
  <2>1. UNCHANGED day
    BY <1>5 DEF Step, NotConfigured, CollectFails, RejectRecord, SkipRecord,
                FindCurrent, FindLegacy, Write, WriteLocked, Commit, Plan, Finish, RunLocked,
                Collect
  <2>2. op'[t].at \notin {"create", "collect"} /\ \A u \in Requests : u # t => op'[u] = op[u]
    BY <1>5, GoesOn
  <2>3. /\ DOMAIN runs' = DOMAIN runs
        /\ \A r \in DOMAIN runs :
             /\ runs'[r].day = runs[r].day
             /\ runs'[r].called => \/ runs[r].called
                                   \/ \E u \in Requests : op[u].at = "collect" /\ op[u].run = r
    BY <1>5, RunsAreKept
  <2>4. \A u \in Requests : op'[u].at = "collect" => op[u].at = "collect" /\ op'[u].run = op[u].run
    BY <2>2
  <2>5. Passed' \subseteq Passed
    BY <2>2 DEF Passed
  <2> QED BY <2>1, <2>3, <2>4, <2>5, LimitKept
<1> QED BY <1>1, <1>2, <1>3, <1>4, <1>5, RecordedRun DEF Next, Step

LEMMA LimitInit == Init => LimitInv
<1> SUFFICES ASSUME Init PROVE LimitInv
  OBVIOUS
<1>1. Passed = {} /\ DOMAIN runs = {} /\ day = 0
  BY DEF Init, Passed, Idle
<1>2. RunsToday = {} /\ \A d : Calls(d) = {}
  BY <1>1 DEF RunsToday, Calls
<1>3. Cardinality({}) = 0 /\ Cardinality(Requests) > 0 /\ Cardinality(Requests) \in Nat
  BY RequestAssumption, FS_EmptySet, FS_CardinalityType
<1>4. \A d \in Days : ~(d < day)
  BY <1>1 DEF Days
<1>5. /\ Cardinality(Passed) = 0 /\ \A d : Cardinality(Calls(d)) = 0
      /\ MaxCalls \in Nat
  BY <1>1, <1>2, <1>3, BoundAssumption
<1> QED BY <1>1, <1>3, <1>4, <1>5 DEF LimitInv

LEMMA LimitFollows == IInv /\ LimitInv => LimitIsNearlyKept
<1> SUFFICES ASSUME IInv, LimitInv, NEW d \in Days
             PROVE  Cardinality({r \in DOMAIN runs : runs[r].day = d /\ runs[r].called})
                      < MaxCalls + Cardinality(Requests)
  BY DEF LimitIsNearlyKept
<1> DEFINE called == {r \in DOMAIN runs : runs[r].day = d /\ runs[r].called}
<1>1. called \subseteq Calls(d)
  BY DEF Calls
<1>2. /\ Cardinality(called) <= Cardinality(Calls(d)) /\ Cardinality(called) \in Nat
      /\ Cardinality(Calls(d)) \in Nat
  BY <1>1, SetsAreFinite, FS_Subset, FS_CardinalityType
<1> HIDE DEF called
<1>3. CASE d < day
  BY <1>2, <1>3, SetsAreFinite DEF LimitInv, called
<1>4. CASE d = day
  BY <1>2, <1>4, SetsAreFinite, CallsAreRuns DEF LimitInv, called
<1>5. CASE d > day
  <2>1. \A r \in DOMAIN runs : runs[r].day \in Nat /\ runs[r].day <= day
    <3>1. runs \in Seq(Run) /\ DOMAIN runs = 1 .. Len(runs)
      BY LenProperties DEF IInv, TypeOK
    <3>2. \A r \in DOMAIN runs : runs[r] \in Run
      BY <3>1, ElementOfSeq
    <3> QED BY <3>2 DEF Run, Days, LimitInv
  <2>2. called = {}
    BY <2>1, <1>5, SetsAreFinite DEF called, Days
  <2> QED BY <2>2, FS_EmptySet, SetsAreFinite DEF called
<1> QED BY <1>3, <1>4, <1>5, SetsAreFinite DEF Days, called

(* The vendor is called at most MaxCalls times a day, and once more for each
   further request that was under way when the limit was reached; the count
   starts anew with the day, whoever was let through on the day before. *)
THEOREM DailyLimitIsNearlyKept == Spec => []LimitIsNearlyKept
<1>1. Spec => [](IInv /\ AInv)
  BY AtomicInit, AtomicHolds, InvariantHolds, PTL DEF Spec
<1>2. IInv /\ IInv' /\ AInv /\ LimitInv /\ [Next]_vars => LimitInv'
  BY LimitHolds
<1> QED BY <1>1, <1>2, LimitInit, LimitFollows, InvariantHolds, PTL DEF Spec
=============================================================================
