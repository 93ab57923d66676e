----------------------------- MODULE UsageLimits -----------------------------
(***************************************************************************)
(* One limit, the usage recorded against it, and the requests on it.       *)
(*                                                                         *)
(* GET /api/dashboard moves next_reset_at of the row it has read past the  *)
(* present, sums the usage since the reset before, and commits at its end; *)
(* PUT /api/limits reads the row and writes the columns it finds changed;  *)
(* the seed, at a start or from POST /api/seed, empties a row that it      *)
(* takes for a default.  All run with a session of their own.              *)
(*                                                                         *)
(* Time is the wall clock of APP_TIMEZONE, which is what SQLite keeps of a *)
(* date.  Months alternate between Long and Short units.                   *)
(***************************************************************************)
EXTENDS Integers, FiniteSets

CONSTANTS
  Clients,     \* concurrent requests
  Payloads,    \* bodies of POST and PUT /api/limits
  Ids,         \* usage records
  None,
  SampleName, SampleMax,   \* an old default that is known by both
  VendorName,              \* one that is known by its name ("Gemini", "Claude")
  ManualName,              \* the model name that replaces it
  Offset,      \* APP_TIMEZONE minus UTC
  Long, Short, \* lengths of a month
  MaxTime, MaxEdits, Skew  \* bounds: clock, edits, how far off a given date is

Columns == {"model_name", "max_value", "reset_interval_type", "reset_interval_value",
            "next_reset_at"}
Kinds == {"edit", "dashboard", "seed"}
Types == {"days", "months", "manual"}   \* "days" for hours, days and weeks

ASSUME CalendarAssumption == Short \in Nat \ {0} /\ Long \in Nat /\ Long >= Short
ASSUME PayloadAssumption ==
  \A p \in Payloads : /\ DOMAIN p = Columns \cup {"utc"}
                      /\ p.utc \in BOOLEAN
                      /\ p.reset_interval_type \in Types
                      /\ p.reset_interval_value \in Nat
                      /\ p.next_reset_at \in Int \cup {None}
ASSUME BoundsAssumption ==
  /\ None \notin Int /\ Offset \in Int
  /\ MaxTime \in Nat /\ MaxEdits \in Nat /\ Skew \in Nat

VARIABLES
  row,       \* the limit
  records,   \* [id, at] of its usage_records
  doing,     \* what every client's request in progress is
  writes,    \* the columns that it is going to write
  aim,       \* the row that the body of a PUT in progress asks for
  now,
  edits,     \* number of edits
  intended,  \* history: the row of the last edit committed
  passed,    \* history: who has overtaken a request in progress since it read
  crossed,   \* history: who had overtaken the writers of the row
  counted    \* history: the records and periods of the dashboards shown

requests == <<doing, writes, aim, passed>>
history == <<intended, crossed, counted>>
vars == <<row, records, requests, now, edits, history>>

(* A function whose columns have values that a limit may have. *)
FitsALimit(w) ==
  /\ "reset_interval_type" \in DOMAIN w => w["reset_interval_type"] \in Types
  /\ "reset_interval_value" \in DOMAIN w => w["reset_interval_value"] \in Nat
  /\ "next_reset_at" \in DOMAIN w => w["next_reset_at"] \in Int \cup {None}

IsLimit(r) == r = [c \in Columns |-> r[c]] /\ FitsALimit(r)

TypeOK ==
  /\ IsLimit(row) /\ IsLimit(intended)
  /\ records \subseteq [id : Ids, at : Int]
  /\ counted \subseteq [id : Ids, start : Int, shown : Int]
  /\ doing \in [Clients -> {"nothing"} \cup Kinds]
  /\ DOMAIN writes = Clients /\ DOMAIN aim = Clients
  /\ \A c \in Clients : /\ DOMAIN writes[c] \subseteq Columns /\ FitsALimit(writes[c])
                        /\ doing[c] = "edit" => IsLimit(aim[c])
  /\ now \in 0 .. MaxTime /\ edits \in 0 .. MaxEdits
  /\ passed \in [Clients -> SUBSET Kinds]
  /\ crossed \subseteq Kinds

-----------------------------------------------------------------------------
(* The calendar, and relativedelta: a day that the month lacks becomes its  *)
(* last.                                                                    *)

Length(m) == IF m % 2 = 0 THEN Long ELSE Short
FirstOf(m) == (m \div 2) * (Long + Short) + (IF m % 2 = 0 THEN 0 ELSE Long)
MonthOf(t) ==
  2 * (t \div (Long + Short)) + (IF t % (Long + Short) < Long THEN 0 ELSE 1)
DayOf(t) == t - FirstOf(MonthOf(t))

AddMonths(t, n) ==
  LET m == MonthOf(t) + n
  IN  FirstOf(m) + (IF DayOf(t) < Length(m) THEN DayOf(t) ELSE Length(m) - 1)

Value(r) == IF r.reset_interval_value < 1 THEN 1 ELSE r.reset_interval_value
Recurs(r) == r.next_reset_at # None /\ r.reset_interval_type # "manual"

AddInterval(t, r, multiplier) ==
  LET n == Value(r) * multiplier
  IN  IF r.reset_interval_type = "months" THEN AddMonths(t, n) ELSE t + n

(* Mutant: a reset at this very moment is not due yet. *)
AdvanceLate(r, time) ==
  LET Reset[t \in Int] == IF t < time THEN Reset[AddInterval(t, r, 1)] ELSE t
  IN  IF Recurs(r) THEN Reset[r.next_reset_at] ELSE r.next_reset_at

(* From any reset to the first one, counted one from the other, after the time. *)
Onward(r, time) ==
  LET Reset[t \in Int] == IF t <= time THEN Reset[AddInterval(t, r, 1)] ELSE t
  IN  Reset

Advance(r, time) ==
  IF Recurs(r) THEN Onward(r, time)[r.next_reset_at] ELSE r.next_reset_at

PeriodStart(r, time) == IF Recurs(r) THEN AddInterval(Advance(r, time), r, -1) ELSE None

Used(r, time) ==
  {u.id : u \in {w \in records : Recurs(r) => w.at >= PeriodStart(r, time)}}

-----------------------------------------------------------------------------
(* What SQLite keeps of a date: the clock of the zone it was sent in. *)
Stored(time, utc) == IF time # None /\ utc THEN time - Offset ELSE time

Wanted(p) ==
  [c \in Columns |-> IF c = "next_reset_at" THEN Stored(p.next_reset_at, p.utc) ELSE p[c]]

(* A column is written when its value differs from the one read, and a date
   with a zone differs from every date that was read. *)
EditWrites(r, p) ==
  [c \in {d \in Columns : \/ Wanted(p)[d] # r[d]
                          \/ d = "next_reset_at" /\ p.utc /\ p.next_reset_at # None}
     |-> Wanted(p)[c]]

(* Mutant: the dashboard writes back the whole row it has read. *)
WholeRow(r) == [r EXCEPT !["next_reset_at"] = Advance(r, now)]

(* The moved date has a zone, so that it differs even when it has not moved. *)
ResetWrites(r) == [c \in {d \in {"next_reset_at"} : Recurs(r)} |-> Advance(r, now)]

Kept(r, w) == [c \in Columns |-> IF c \in DOMAIN w THEN w[c] ELSE r[c]]

(* The name is that of a default among its service's limits of its type.  The
   service has no earlier row of the new name, so that what is emptied is not
   removed as a duplicate. *)
LooksLegacy(r) ==
  r.model_name = VendorName \/ (r.model_name = SampleName /\ r.max_value = SampleMax)

Normalised(r) ==
  [model_name |-> ManualName, max_value |-> None, reset_interval_type |-> "manual",
   reset_interval_value |-> 1, next_reset_at |-> None]

SeedWrites(r) == [c \in {d \in Columns : Normalised(r)[d] # r[d]} |-> Normalised(r)[c]]

Init ==
  /\ \E p \in Payloads : row = Wanted(p)
  /\ records = {}
  /\ doing = [c \in Clients |-> "nothing"]
  /\ writes = [c \in Clients |-> <<>>]
  /\ aim = [c \in Clients |-> None]
  /\ now = 0
  /\ edits = 0
  /\ intended = row
  /\ passed = [c \in Clients |-> {}]
  /\ crossed = {}
  /\ counted = {}

-----------------------------------------------------------------------------
Begin(c, request, w, target) ==
  /\ doing[c] = "nothing"
  /\ doing' = [doing EXCEPT ![c] = request]
  /\ writes' = [writes EXCEPT ![c] = w]
  /\ aim' = [aim EXCEPT ![c] = target]
  /\ UNCHANGED <<row, records, passed, now, intended, crossed>>

Dashboard(c) ==
  /\ Begin(c, "dashboard", ResetWrites(row), None)
  /\ counted' = counted \cup
       {[id |-> i, start |-> PeriodStart(row, now), shown |-> now] :
          i \in {j \in Used(row, now) : Recurs(row)}}
  /\ UNCHANGED edits

Edit(c, p) ==
  /\ edits < MaxEdits /\ p.reset_interval_value >= 1
  /\ Begin(c, "edit", EditWrites(row, p), Wanted(p))
  /\ edits' = edits + 1
  /\ UNCHANGED counted

(* POST /api/seed, or the lifespan of a second launch, has read a row that it
   will empty.  Without such a row it writes nothing. *)
Seed(c) ==
  /\ LooksLegacy(row)
  /\ Begin(c, "seed", SeedWrites(row), None)
  /\ UNCHANGED <<edits, counted>>

(* The request of c ends, and has overtaken those that run. *)
Leave(c, kinds) ==
  /\ doing' = [doing EXCEPT ![c] = "nothing"]
  /\ writes' = [writes EXCEPT ![c] = <<>>]
  /\ aim' = [aim EXCEPT ![c] = None]
  /\ passed' = [d \in Clients |->
                   IF d = c \/ doing[d] = "nothing" THEN {} ELSE passed[d] \cup kinds]
  /\ UNCHANGED <<records, now, edits>>

CommitEdit(c) ==
  /\ doing[c] = "edit"
  /\ row' = Kept(row, writes[c])
  /\ intended' = aim[c]
  /\ crossed' = passed[c]
  /\ counted' = {}
  /\ Leave(c, {"edit"})

CommitDashboard(c) ==
  /\ doing[c] = "dashboard"
  /\ row' = Kept(row, writes[c])
  /\ Leave(c, IF DOMAIN writes[c] = {} THEN {} ELSE {"dashboard"})
  /\ IF passed[c] = {} \/ DOMAIN writes[c] = {}
       THEN UNCHANGED history
       ELSE /\ crossed' = crossed \cup {"dashboard"}
            /\ counted' = {}
            /\ UNCHANGED intended

CommitSeed(c) ==
  /\ doing[c] = "seed"
  /\ row' = Kept(row, writes[c])
  /\ crossed' = IF "edit" \in passed[c] THEN crossed \cup {"seed"} ELSE crossed
  /\ counted' = {}
  /\ Leave(c, {"seed"})
  /\ UNCHANGED intended

(* The commit fails and the session is rolled back. *)
Fail(c) ==
  /\ doing[c] # "nothing"
  /\ Leave(c, {})
  /\ UNCHANGED <<row, history>>

(* Add or adjust, now or with a date of the client's. *)
AddUsage(id) ==
  /\ \A u \in records : u.id # id
  /\ \E at \in now - Skew .. now + Skew : records' = records \cup {[id |-> id, at |-> at]}
  /\ UNCHANGED <<row, requests, now, edits, history>>

(* A restart drops the requests, and the lifespan runs the seed. *)
Restart ==
  /\ doing' = [c \in Clients |-> "nothing"]
  /\ writes' = [c \in Clients |-> <<>>]
  /\ aim' = [c \in Clients |-> None]
  /\ passed' = [c \in Clients |-> {}]
  /\ IF LooksLegacy(row)
       THEN row' = Normalised(row) /\ counted' = {}
       ELSE UNCHANGED <<row, counted>>
  /\ UNCHANGED <<records, now, edits, intended, crossed>>

Tick ==
  /\ now < MaxTime
  /\ now' = now + 1
  /\ UNCHANGED <<row, records, requests, edits, history>>

Next ==
  \/ \E c \in Clients : \/ Dashboard(c) \/ CommitDashboard(c) \/ CommitEdit(c)
                        \/ Seed(c) \/ CommitSeed(c) \/ Fail(c)
                        \/ \E p \in Payloads : Edit(c, p)
  \/ \E id \in Ids : AddUsage(id)
  \/ Restart \/ Tick

Spec == Init /\ [][Next]_vars

-----------------------------------------------------------------------------
(* What a clean-up leaves of a limit that it takes for a default.  A dashboard
   that had read the row before may write a date onto it. *)
IsEmptied(r) ==
  /\ \A c \in Columns \ {"next_reset_at"} : row[c] = Normalised(r)[c]
  /\ "dashboard" \in crossed \/ row.next_reset_at = None

(* The limit is what the last edit made it: no PUT and no clean-up takes
   anything of it back unless it, or the edit, had read the row before the other
   committed.  Where a dashboard has so crossed it, no more than the date is
   mixed, which otherwise only moves along the resets of the edit.  The one
   other thing that becomes of an edit is that it is emptied as a whole, and
   that only if its own values are those of an old default: by name and maximum,
   or by the name alone where the code does not look at the maximum. *)
EditsSurvive ==
  crossed \cap {"edit", "seed"} = {} =>
    \/ /\ \A c \in Columns \ {"next_reset_at"} : row[c] = intended[c]
       /\ \/ "dashboard" \in crossed
          \/ row.next_reset_at = intended.next_reset_at
          \/ \E t \in 0 .. now : row.next_reset_at = Advance(intended, t)
    \/ LooksLegacy(intended) /\ IsEmptied(intended)

(* By how much the first period after a day that a month lacks reaches back
   into the one before it: the days that are lacking. *)
Overlap(r) ==
  IF r.reset_interval_type = "months" /\ DayOf(r.next_reset_at) >= Short
    THEN DayOf(r.next_reset_at) - (Short - 1)
    ELSE 0

(* A record is counted in one period only, however often the dashboard is
   opened around a reset, unless it was dated in the future when it was
   counted, or at the end of a month that is longer than the next, by the days
   that this one lacks. *)
RecordsAreCountedOnce ==
  crossed = {} =>
    \A x, y \in counted : \A u \in records :
      x.id = u.id /\ y.id = u.id /\ x.start < y.start => u.at > x.shown - Overlap(intended)
=============================================================================
