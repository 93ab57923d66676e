------------------------------ MODULE UsageProofs ---------------------------
(***************************************************************************)
(* Proofs about what the dashboard and the compact view show of usage:     *)
(* that an edit of a limit survives the requests that run beside it and    *)
(* that a record is counted in one period, for any calendar, any limits    *)
(* and any number of requests; and that the Claude card shows one stored   *)
(* observation as a whole.                                                 *)
(***************************************************************************)
EXTENDS UsageLimits, ClaudeCard, FiniteSetTheorems, TLAPS

\* The library states induction for an operator; a set will do.
LEMMA Induction ==
  ASSUME NEW P \in SUBSET Nat, 0 \in P, \A n \in P : n + 1 \in P
  PROVE  P = Nat
<1> SUFFICES ASSUME NEW n \in Nat \ P PROVE FALSE
  OBVIOUS
<1> DEFINE S == (0 .. n) \ P
           f == [x \in S |-> x - 1]
<1>1. IsFiniteSet(S)
  <2>1. 0 \in Int /\ n \in Int
    OBVIOUS
  <2>2. IsFiniteSet(0 .. n)
    BY <2>1, FS_Interval
  <2> QED BY <2>2, FS_Difference
<1>2. n \in S
  OBVIOUS
<1>3. f \in [S -> S \ {n}]
  <2>1. ASSUME NEW x \in S PROVE x - 1 \in S \ {n}
    <3>1. x # 0 /\ x \in 0 .. n /\ x \notin P
      OBVIOUS
    <3>2. x - 1 \in 0 .. n /\ x - 1 # n /\ x - 1 \in Nat
      BY <3>1
    <3>3. x - 1 \notin P
      BY <3>1, <3>2
    <3> QED BY <3>2, <3>3
  <2> QED BY <2>1
<1>4. \A x, y \in S : f[x] = f[y] => x = y
  OBVIOUS
<1> HIDE DEF S, f
<1>5. /\ IsFiniteSet(S \ {n}) /\ Cardinality(S \ {n}) = Cardinality(S) - 1
      /\ Cardinality(S) \in Nat
  BY <1>1, <1>2, FS_RemoveElement, FS_CardinalityType
<1> QED BY <1>1, <1>3, <1>4, <1>5, FS_PigeonHole

(***************************************************************************)
(* The calendar: a date is a day of exactly one month, months follow each  *)
(* other, and adding months leads forward, and back again from a day that  *)
(* every month has.                                                        *)
(***************************************************************************)
LEMMA Divided ==
  ASSUME NEW t \in Int, NEW k \in Nat \ {0}
  PROVE  /\ t \div k \in Int /\ t % k \in 0 .. k - 1
         /\ t = (t \div k) * k + (t % k)
OBVIOUS

LEMMA Multiples ==
  ASSUME NEW i \in Int, NEW j \in Int, NEW k \in Nat, i < j
  PROVE  /\ i * k \in Int /\ j * k \in Int /\ (j - 1) * k \in Int
         /\ i * k <= (j - 1) * k /\ j * k = (j - 1) * k + k
OBVIOUS

LEMMA Halves ==
  ASSUME NEW m \in Int
  PROVE  \E j \in Int : \/ m = 2 * j /\ m % 2 = 0 /\ m \div 2 = j
                        \/ m = 2 * j + 1 /\ m % 2 = 1 /\ m \div 2 = j
<1>1. m \div 2 \in Int
  OBVIOUS
<1>2. \/ m = 2 * (m \div 2) /\ m % 2 = 0
      \/ m = 2 * (m \div 2) + 1 /\ m % 2 = 1
  OBVIOUS
<1> QED BY <1>1, <1>2

LEMMA Pair ==
  ASSUME NEW j \in Int
  PROVE  /\ FirstOf(2 * j) = j * (Long + Short) /\ Length(2 * j) = Long
         /\ FirstOf(2 * j + 1) = j * (Long + Short) + Long /\ Length(2 * j + 1) = Short
<1>1. (2 * j) \div 2 = j /\ (2 * j) % 2 = 0 /\ (2 * j + 1) \div 2 = j /\ (2 * j + 1) % 2 = 1
  OBVIOUS
<1> DEFINE K == Long + Short
<1>2. j * K \in Int
  BY CalendarAssumption
<1> QED BY <1>1, <1>2, CalendarAssumption DEF FirstOf, Length

\* The month after, whichever of the two kinds a month is.
LEMMA MonthAfter ==
  ASSUME NEW m \in Int
  PROVE  /\ FirstOf(m) \in Int /\ Length(m) \in Nat /\ Length(m) >= Short
         /\ FirstOf(m + 1) = FirstOf(m) + Length(m)
<1>1. PICK j \in Int : m = 2 * j \/ m = 2 * j + 1
  BY Halves
<1>2. j * (Long + Short) \in Int /\ (j + 1) * (Long + Short) = j * (Long + Short) + Long + Short
  BY CalendarAssumption
<1>3. CASE m = 2 * j
  BY <1>2, <1>3, Pair, CalendarAssumption
<1>4. CASE m = 2 * j + 1
  <2>1. m + 1 = 2 * (j + 1) /\ j + 1 \in Int
    BY <1>4
  <2>2. FirstOf(m + 1) = (j + 1) * (Long + Short)
    BY <2>1, Pair
  <2> QED BY <1>2, <1>4, <2>2, Pair, CalendarAssumption
<1> QED BY <1>1, <1>3, <1>4

LEMMA MonthsInOrder ==
  ASSUME NEW m \in Int, NEW n \in Int, m < n
  PROVE  FirstOf(m) + Length(m) <= FirstOf(n)
<1> DEFINE K == Long + Short
<1>0. K \in Nat
  BY CalendarAssumption
<1>1. PICK i \in Int : m = 2 * i \/ m = 2 * i + 1
  BY Halves
<1>2. PICK j \in Int : n = 2 * j \/ n = 2 * j + 1
  BY Halves
<1>3. i <= j
  BY <1>1, <1>2
<1>4. \/ FirstOf(m) + Length(m) = i * K + Long /\ m = 2 * i
      \/ FirstOf(m) + Length(m) = i * K + Long + Short /\ m = 2 * i + 1
  BY <1>1, Pair, CalendarAssumption, <1>0
<1>5. \/ FirstOf(n) = j * K /\ n = 2 * j
      \/ FirstOf(n) = j * K + Long /\ n = 2 * j + 1
  BY <1>2, Pair
<1> HIDE DEF K
<1>6. i * K \in Int /\ j * K \in Int
  BY <1>0
<1>7. CASE i = j
  BY <1>4, <1>5, <1>6, <1>7, CalendarAssumption
<1>8. CASE i < j
  <2>1. i * K <= (j - 1) * K /\ j * K = (j - 1) * K + K /\ (j - 1) * K \in Int
    BY <1>0, <1>8, Multiples
  <2>2. K = Long + Short
    BY DEF K
  <2> QED BY <1>4, <1>5, <1>6, <2>1, <2>2, CalendarAssumption
<1> QED BY <1>3, <1>7, <1>8

LEMMA InItsMonth ==
  ASSUME NEW t \in Int
  PROVE  /\ MonthOf(t) \in Int /\ DayOf(t) \in 0 .. Length(MonthOf(t)) - 1
         /\ t = FirstOf(MonthOf(t)) + DayOf(t)
<1> DEFINE K == Long + Short
           j == t \div K
           d == t % K
<1>0. K \in Nat \ {0} /\ Long \in Nat /\ Short \in Nat /\ K = Long + Short
  BY CalendarAssumption
<1>1. j \in Int /\ d \in 0 .. K - 1 /\ t = j * K + d
  BY <1>0, Divided
<1>2. MonthOf(t) = 2 * j + (IF d < Long THEN 0 ELSE 1)
  BY DEF MonthOf
<1>3. /\ FirstOf(2 * j) = j * K /\ Length(2 * j) = Long
      /\ FirstOf(2 * j + 1) = j * K + Long /\ Length(2 * j + 1) = Short
  BY <1>1, Pair
<1>4. DayOf(t) = t - FirstOf(MonthOf(t))
  BY DEF DayOf
<1> HIDE DEF K, j, d
<1>5. j * K \in Int
  BY <1>0, <1>1
<1>6. CASE d < Long
  <2>1. MonthOf(t) = 2 * j
    BY <1>1, <1>2, <1>6
  <2>2. DayOf(t) = d
    BY <1>1, <1>3, <1>4, <1>5, <2>1
  <2> QED BY <1>0, <1>1, <1>3, <1>6, <2>1, <2>2
<1>7. CASE ~(d < Long)
  <2>1. MonthOf(t) = 2 * j + 1
    BY <1>1, <1>2, <1>7
  <2>2. DayOf(t) = d - Long
    BY <1>0, <1>1, <1>3, <1>4, <1>5, <2>1
  <2>3. d - Long \in 0 .. Short - 1
    BY <1>0, <1>1, <1>7
  <2>4. t = j * K + Long + (d - Long)
    BY <1>0, <1>1, <1>5
  <2> QED BY <1>1, <1>3, <2>1, <2>2, <2>3, <2>4
<1> QED BY <1>6, <1>7

LEMMA OneMonth ==
  ASSUME NEW m \in Int, NEW d \in 0 .. Length(m) - 1
  PROVE  MonthOf(FirstOf(m) + d) = m /\ DayOf(FirstOf(m) + d) = d
<1> DEFINE t == FirstOf(m) + d
           n == MonthOf(t)
<1>1. FirstOf(m) \in Int /\ Length(m) \in Nat /\ t \in Int
  BY MonthAfter
<1>2. n \in Int /\ DayOf(t) \in 0 .. Length(n) - 1 /\ t = FirstOf(n) + DayOf(t)
  BY <1>1, InItsMonth
<1>3. FirstOf(n) \in Int /\ Length(n) \in Nat
  BY <1>2, MonthAfter
<1>4. ~(m < n)
  <2> SUFFICES ASSUME m < n PROVE FALSE
    OBVIOUS
  <2>1. FirstOf(m) + Length(m) <= FirstOf(n)
    BY <1>2, MonthsInOrder
  <2> HIDE DEF n
  <2> QED BY <1>1, <1>2, <1>3, <2>1
<1>5. ~(n < m)
  <2> SUFFICES ASSUME n < m PROVE FALSE
    OBVIOUS
  <2>1. FirstOf(n) + Length(n) <= FirstOf(m)
    BY <1>2, MonthsInOrder
  <2> HIDE DEF n
  <2> QED BY <1>1, <1>2, <1>3, <2>1
<1>6. n = m
  <2> HIDE DEF n
  <2> QED BY <1>2, <1>4, <1>5
<1>7. t = FirstOf(n) + DayOf(t) /\ DayOf(t) \in Int
  <2>1. \A k \in 0 .. Length(n) - 1 : k \in Int
    BY <1>3
  <2> QED BY <1>2, <2>1
<1>8. DayOf(t) = d
  <2> HIDE DEF n
  <2>1. FirstOf(m) + d = FirstOf(m) + DayOf(t)
    BY <1>6, <1>7
  <2> HIDE DEF t
  <2> QED BY <1>1, <1>7, <2>1
<1> QED BY <1>6, <1>8

LEMMA MonthsAdded ==
  ASSUME NEW t \in Int, NEW n \in Int
  PROVE  /\ AddMonths(t, n) \in Int /\ MonthOf(AddMonths(t, n)) = MonthOf(t) + n
         /\ \/ DayOf(AddMonths(t, n)) = DayOf(t)
            \/ DayOf(AddMonths(t, n)) \in Short - 1 .. DayOf(t)
<1> DEFINE m == MonthOf(t) + n
           d == IF DayOf(t) < Length(m) THEN DayOf(t) ELSE Length(m) - 1
<1>1. MonthOf(t) \in Int /\ DayOf(t) \in Nat
  <2>1. MonthOf(t) \in Int /\ DayOf(t) \in 0 .. Length(MonthOf(t)) - 1
    BY InItsMonth
  <2> QED BY <2>1, MonthAfter
<1>2. m \in Int /\ FirstOf(m) \in Int /\ Length(m) \in Nat /\ Length(m) >= Short
  BY <1>1, MonthAfter
<1>3. AddMonths(t, n) = FirstOf(m) + d
  BY DEF AddMonths
<1> HIDE DEF m
<1>4. d \in 0 .. Length(m) - 1 /\ (d = DayOf(t) \/ d \in Short - 1 .. DayOf(t))
  BY <1>1, <1>2, CalendarAssumption
<1>5. MonthOf(FirstOf(m) + d) = m /\ DayOf(FirstOf(m) + d) = d
  <2> HIDE DEF d
  <2> QED BY <1>2, <1>4, OneMonth
<1> QED BY <1>2, <1>3, <1>4, <1>5 DEF m

LEMMA DatesInOrder ==
  ASSUME NEW a \in Int, NEW b \in Int
  PROVE  /\ MonthOf(a) < MonthOf(b) => a < b
         /\ a <= b => MonthOf(a) <= MonthOf(b)
<1>1. /\ MonthOf(a) \in Int /\ DayOf(a) \in 0 .. Length(MonthOf(a)) - 1
      /\ a = FirstOf(MonthOf(a)) + DayOf(a)
  BY InItsMonth
<1>2. /\ MonthOf(b) \in Int /\ DayOf(b) \in 0 .. Length(MonthOf(b)) - 1
      /\ b = FirstOf(MonthOf(b)) + DayOf(b)
  BY InItsMonth
<1>3. /\ FirstOf(MonthOf(a)) \in Int /\ Length(MonthOf(a)) \in Nat
      /\ FirstOf(MonthOf(b)) \in Int /\ Length(MonthOf(b)) \in Nat
  BY <1>1, <1>2, MonthAfter
<1>4. MonthOf(a) < MonthOf(b) => FirstOf(MonthOf(a)) + Length(MonthOf(a)) <= FirstOf(MonthOf(b))
  BY <1>1, <1>2, MonthsInOrder
<1>5. MonthOf(b) < MonthOf(a) => FirstOf(MonthOf(b)) + Length(MonthOf(b)) <= FirstOf(MonthOf(a))
  BY <1>1, <1>2, MonthsInOrder
<1> QED BY <1>1, <1>2, <1>3, <1>4, <1>5

(* Adding months moves a date the way they are counted, and back to where it
   was but for the days that a month lacks. *)
LEMMA MonthsMove ==
  ASSUME NEW t \in Int, NEW n \in Nat \ {0}
  PROVE  AddMonths(t, n) > t /\ AddMonths(t, -n) < t
<1>1. n \in Int /\ -n \in Int
  OBVIOUS
<1>2. /\ AddMonths(t, n) \in Int /\ MonthOf(AddMonths(t, n)) = MonthOf(t) + n
      /\ AddMonths(t, -n) \in Int /\ MonthOf(AddMonths(t, -n)) = MonthOf(t) + (-n)
      /\ MonthOf(t) \in Int
  BY <1>1, MonthsAdded, InItsMonth
<1>3. MonthOf(t) < MonthOf(AddMonths(t, n)) /\ MonthOf(AddMonths(t, -n)) < MonthOf(t)
  BY <1>2
<1> QED BY <1>2, <1>3, DatesInOrder

LEMMA MonthsBack ==
  ASSUME NEW t \in Int, NEW n \in Int
  PROVE  LET b == AddMonths(AddMonths(t, n), -n)
         IN  /\ b \in Int /\ MonthOf(b) = MonthOf(t)
             /\ b = t \/ b \in t - (DayOf(t) - (Short - 1)) .. t
<1> DEFINE s == AddMonths(t, n)
           b == AddMonths(s, -n)
<1>1. /\ s \in Int /\ MonthOf(s) = MonthOf(t) + n
      /\ DayOf(s) = DayOf(t) \/ DayOf(s) \in Short - 1 .. DayOf(t)
  BY MonthsAdded
<1>2. /\ b \in Int /\ MonthOf(b) = MonthOf(s) + (-n)
      /\ DayOf(b) = DayOf(s) \/ DayOf(b) \in Short - 1 .. DayOf(s)
  <2> HIDE DEF s
  <2>1. -n \in Int
    OBVIOUS
  <2> QED BY <1>1, <2>1, MonthsAdded
<1>3. /\ MonthOf(t) \in Int /\ t = FirstOf(MonthOf(t)) + DayOf(t) /\ DayOf(t) \in Int
      /\ FirstOf(MonthOf(t)) \in Int
  <2>1. /\ MonthOf(t) \in Int /\ DayOf(t) \in 0 .. Length(MonthOf(t)) - 1
        /\ t = FirstOf(MonthOf(t)) + DayOf(t)
    BY InItsMonth
  <2> QED BY <2>1, MonthAfter
<1>4. b = FirstOf(MonthOf(b)) + DayOf(b)
  BY <1>2, InItsMonth
<1> HIDE DEF s, b
<1>5. MonthOf(b) = MonthOf(t)
  BY <1>1, <1>2, <1>3
<1>6. DayOf(b) = DayOf(t) \/ DayOf(b) \in Short - 1 .. DayOf(t)
  BY <1>1, <1>2, <1>3, CalendarAssumption
<1>7. b = t \/ b \in t - (DayOf(t) - (Short - 1)) .. t
  BY <1>2, <1>3, <1>4, <1>5, <1>6, CalendarAssumption
<1> QED BY <1>2, <1>5, <1>7 DEF s, b

(***************************************************************************)
(* Walking from a date to the first one after a time, in steps that only   *)
(* lead forward.                                                           *)
(***************************************************************************)
Steps == {A \in [Int -> Int] : \A t \in Int : A[t] > t}

IsWalk(F, A, time) == F = [t \in Int |-> IF t <= time THEN F[A[t]] ELSE t]

LEMMA WalkExists ==
  ASSUME NEW A \in Steps, NEW time \in Int
  PROVE  \E F : IsWalk(F, A, time)
<1> DEFINE Closed == {S \in SUBSET Int : \A u \in S : A[u] \in S}
           Orbit(t) == {s \in Int : \A S \in Closed : t \in S => s \in S}
           After(t) == {s \in Orbit(t) : s > time}
           Least(T) == CHOOSE m \in T : \A k \in T : m <= k
           F == [t \in Int |-> Least(After(t))]
<1>0. A \in [Int -> Int] /\ \A t \in Int : A[t] > t
  BY DEF Steps
<1>1. ASSUME NEW t \in Int PROVE t \in Orbit(t) /\ Orbit(t) \in Closed
  BY <1>0
<1>2. ASSUME NEW t \in Int PROVE Orbit(t) = {t} \cup Orbit(A[t])
  <2>0. A[t] \in Int
    BY <1>0
  <2>1. A[t] \in Orbit(A[t]) /\ Orbit(A[t]) \in Closed
    BY <1>1, <2>0
  <2>2. {t} \cup Orbit(A[t]) \in Closed
    <3> HIDE DEF Orbit
    <3> QED BY <2>1
  <2>3. Orbit(t) \subseteq {t} \cup Orbit(A[t])
    <3> DEFINE T == {t} \cup Orbit(A[t])
    <3>1. T \in Closed /\ t \in T
      BY <2>2
    <3> HIDE DEF T, Closed
    <3>2. Orbit(t) \subseteq T
      BY <3>1
    <3> QED BY <3>2 DEF T
  <2>4. t \in Orbit(t)
    BY <1>1
  <2>5. A[t] \in Orbit(t)
    BY <1>0
  <2>6. Orbit(A[t]) \subseteq Orbit(t)
    BY <1>0
  <2> HIDE DEF Orbit
  <2> QED BY <2>3, <2>4, <2>6
<1>3. ASSUME NEW t \in Int, t <= time PROVE After(t) = After(A[t])
  <2> HIDE DEF Orbit
  <2> QED BY <1>2, <1>3
<1>4. ASSUME NEW t \in Int, t > time PROVE Least(After(t)) = t
  <2> DEFINE S == {s \in Int : s >= t}
  <2>1. S \in Closed /\ t \in S
    BY <1>0
  <2>2. Orbit(t) \subseteq S
    <3> HIDE DEF S, Closed
    <3> QED BY <2>1
  <2>3. t \in Orbit(t)
    BY <1>1
  <2> HIDE DEF Orbit
  <2>4. t \in After(t) /\ \A k \in After(t) : k \in Int /\ t <= k
    BY <1>4, <2>2, <2>3
  <2> DEFINE T == After(t)
  <2> HIDE DEF After, T
  <2>5. Least(T) \in T /\ \A k \in T : Least(T) <= k
    BY <2>4 DEF T
  <2>6. Least(T) \in Int /\ t <= Least(T) /\ Least(T) <= t
    BY <2>4, <2>5 DEF T
  <2>7. Least(T) = t
    <3> HIDE DEF Least
    <3> QED BY <2>6
  <2> QED BY <2>7 DEF T
<1> HIDE DEF After, Least
<1>5. ASSUME NEW t \in Int PROVE F[t] = IF t <= time THEN F[A[t]] ELSE t
  <2>1. A[t] \in Int
    BY <1>0
  <2>2. CASE t <= time
    BY <1>3, <2>1, <2>2
  <2>3. CASE t > time
    BY <1>4, <2>3
  <2> QED BY <2>2, <2>3
<1>6. F = [t \in Int |-> F[t]]
  OBVIOUS
<1> HIDE DEF F
<1>7. F = [t \in Int |-> IF t <= time THEN F[A[t]] ELSE t]
  BY <1>5, <1>6
<1> QED BY <1>7 DEF IsWalk

\* What holds after the time, and of a date when it holds a step further, always holds.
LEMMA WalkInduction ==
  ASSUME NEW A \in Steps, NEW time \in Int, NEW Q \in SUBSET Int,
         \A t \in Int : t > time => t \in Q,
         \A t \in Int : t <= time /\ A[t] \in Q => t \in Q
  PROVE  Q = Int
<1> DEFINE P == {n \in Nat : \A t \in Int : time - t < n => t \in Q}
<1>0. \A t \in Int : A[t] \in Int /\ A[t] > t
  BY DEF Steps
<1>1. 0 \in P
  OBVIOUS
<1>2. ASSUME NEW n \in P PROVE n + 1 \in P
  <2> SUFFICES ASSUME NEW t \in Int, time - t < n + 1 PROVE t \in Q
    OBVIOUS
  <2>1. CASE t > time
    BY <2>1
  <2>2. CASE t <= time
    <3>1. A[t] \in Int /\ time - A[t] < n
      BY <1>0
    <3> QED BY <2>2, <3>1
  <2> QED BY <2>1, <2>2
<1>3. P = Nat
  <2> HIDE DEF P
  <2>1. P \in SUBSET Nat
    BY DEF P
  <2> QED BY <1>1, <1>2, <2>1, Induction
<1> SUFFICES ASSUME NEW t \in Int PROVE t \in Q
  OBVIOUS
<1>4. CASE t > time
  BY <1>4
<1>5. CASE t <= time
  <2>1. time - t + 1 \in Nat /\ time - t < time - t + 1
    BY <1>5
  <2>2. time - t + 1 \in P
    BY <1>3, <2>1
  <2> QED BY <2>1, <2>2
<1> QED BY <1>4, <1>5

LEMMA WalkLeadsPast ==
  ASSUME NEW A \in Steps, NEW time \in Int, NEW F, IsWalk(F, A, time), NEW t \in Int
  PROVE  F[t] \in Int /\ F[t] > time /\ F[t] >= t
<1> DEFINE Q == {s \in Int : F[s] \in Int /\ F[s] > time /\ F[s] >= s}
<1>0. \A s \in Int : A[s] \in Int /\ A[s] > s
  BY DEF Steps
<1>1. \A s \in Int : F[s] = IF s <= time THEN F[A[s]] ELSE s
  BY DEF IsWalk
<1>2. ASSUME NEW s \in Int, s > time PROVE s \in Q
  BY <1>1, <1>2
<1>3. ASSUME NEW s \in Int, s <= time, A[s] \in Q PROVE s \in Q
  BY <1>0, <1>1, <1>3
<1>4. Q = Int
  <2> HIDE DEF Q
  <2>1. Q \in SUBSET Int
    BY DEF Q
  <2> QED BY <1>2, <1>3, <2>1, WalkInduction
<1> QED BY <1>4

\* A walk to an earlier time does not leave the way to a later one.
LEMMA WalksMeet ==
  ASSUME NEW A \in Steps, NEW early \in Int, NEW late \in Int, early <= late,
         NEW E, IsWalk(E, A, early), NEW F, IsWalk(F, A, late), NEW t \in Int
  PROVE  F[E[t]] = F[t]
<1> DEFINE Q == {s \in Int : F[E[s]] = F[s]}
<1>0. \A s \in Int : A[s] \in Int
  BY DEF Steps
<1>1. \A s \in Int : /\ E[s] = IF s <= early THEN E[A[s]] ELSE s
                     /\ F[s] = IF s <= late THEN F[A[s]] ELSE s
  BY DEF IsWalk
<1>2. ASSUME NEW s \in Int, s > early PROVE s \in Q
  <2>1. E[s] = s
    BY <1>1, <1>2
  <2> QED BY <2>1
<1>3. ASSUME NEW s \in Int, s <= early, A[s] \in Q PROVE s \in Q
  <2>1. E[s] = E[A[s]] /\ F[s] = F[A[s]]
    BY <1>1, <1>3
  <2> QED BY <1>3, <2>1
<1>4. Q = Int
  <2> HIDE DEF Q
  <2>1. Q \in SUBSET Int
    BY DEF Q
  <2> QED BY <1>2, <1>3, <2>1, WalkInduction
<1> QED BY <1>4

\* The last step of a walk starts at or after its first date, at the time or before
\* it, and within every set of dates that the steps do not leave.
LEMMA LastStep ==
  ASSUME NEW A \in Steps, NEW time \in Int, NEW F, IsWalk(F, A, time), NEW t \in Int,
         NEW K \in SUBSET Int, \A s \in K : A[s] \in K, t \in K
  PROVE  F[t] = t \/ \E b \in K : t <= b /\ b <= time /\ F[t] = A[b]
<1> DEFINE Q == {s \in Int : s \in K => F[s] = s \/ \E b \in K : s <= b /\ b <= time /\ F[s] = A[b]}
<1>0. \A s \in Int : A[s] \in Int /\ A[s] > s
  BY DEF Steps
<1>1. \A s \in Int : F[s] = IF s <= time THEN F[A[s]] ELSE s
  BY DEF IsWalk
<1>2. ASSUME NEW s \in Int, s > time PROVE s \in Q
  BY <1>1, <1>2
<1>3. ASSUME NEW s \in Int, s <= time, A[s] \in Q PROVE s \in Q
  <2> SUFFICES ASSUME s \in K PROVE F[s] = s \/ \E b \in K : s <= b /\ b <= time /\ F[s] = A[b]
    OBVIOUS
  <2>1. F[s] = F[A[s]] /\ A[s] \in K /\ A[s] > s /\ A[s] \in Int
    BY <1>0, <1>1, <1>3
  <2>2. CASE F[A[s]] = A[s]
    BY <1>3, <2>1, <2>2
  <2>3. CASE \E b \in K : A[s] <= b /\ b <= time /\ F[A[s]] = A[b]
    <3>1. PICK b \in K : A[s] <= b /\ b <= time /\ F[A[s]] = A[b]
      BY <2>3
    <3>2. s <= b
      BY <2>1, <3>1
    <3> QED BY <2>1, <3>1, <3>2
  <2> QED BY <1>3, <2>1, <2>2, <2>3
<1>4. Q = Int
  <2> HIDE DEF Q
  <2>1. Q \in SUBSET Int
    BY DEF Q
  <2> QED BY <1>2, <1>3, <2>1, WalkInduction
<1> QED BY <1>4

(***************************************************************************)
(* The resets of a limit.                                                  *)
(***************************************************************************)
\* What is left of a limit without its date, and the date of a limit that has one.
SameButDate(r, q) == \A c \in Columns \ {"next_reset_at"} : r[c] = q[c]

\* The days that some month lacks to have the day of the date.
Lacking(r, t) ==
  IF r.reset_interval_type = "months" /\ DayOf(t) >= Short THEN DayOf(t) - (Short - 1) ELSE 0

\* A date moved by so many units, or months.
MovedBy(r, t, n) == IF r.reset_interval_type = "months" THEN AddMonths(t, n) ELSE t + n

LEMMA IntervalIs ==
  ASSUME NEW r, r.reset_interval_value \in Nat
  PROVE  /\ Value(r) \in Nat \ {0} /\ Value(r) \in Int /\ -Value(r) \in Int
         /\ \A t : /\ AddInterval(t, r, 1) = MovedBy(r, t, Value(r))
                   /\ AddInterval(t, r, -1) = MovedBy(r, t, -Value(r))
<1>1. Value(r) \in Nat \ {0}
  BY DEF Value
<1>2. Value(r) * 1 = Value(r) /\ Value(r) * (-1) = -Value(r) /\ -Value(r) \in Int
  BY <1>1
<1> QED BY <1>1, <1>2 DEF AddInterval, MovedBy

LEMMA IntervalMoves ==
  ASSUME NEW r, r.reset_interval_value \in Nat, NEW t \in Int
  PROVE  /\ AddInterval(t, r, 1) \in Int /\ AddInterval(t, r, 1) > t
         /\ AddInterval(t, r, -1) \in Int /\ AddInterval(t, r, -1) < t
<1> DEFINE n == Value(r)
<1>1. /\ n \in Nat \ {0} /\ n \in Int /\ -n \in Int
      /\ AddInterval(t, r, 1) = MovedBy(r, t, n) /\ AddInterval(t, r, -1) = MovedBy(r, t, -n)
  BY IntervalIs
<1> HIDE DEF n
<1>2. AddMonths(t, n) \in Int /\ AddMonths(t, -n) \in Int
  BY <1>1, MonthsAdded
<1>3. AddMonths(t, n) > t /\ AddMonths(t, -n) < t
  BY <1>1, MonthsMove
<1> QED BY <1>1, <1>2, <1>3 DEF MovedBy

LEMMA LackingTyped ==
  ASSUME NEW r, NEW t \in Int
  PROVE  Lacking(r, t) \in Nat
<1>1. DayOf(t) \in Int
  <2>1. DayOf(t) \in 0 .. Length(MonthOf(t)) - 1 /\ Length(MonthOf(t)) \in Nat
    BY InItsMonth, MonthAfter
  <2> QED BY <2>1
<1> QED BY <1>1, CalendarAssumption DEF Lacking

LEMMA IntervalBack ==
  ASSUME NEW r, r.reset_interval_value \in Nat, NEW t \in Int
  PROVE  /\ AddInterval(AddInterval(t, r, 1), r, -1) \in t - Lacking(r, t) .. t
         /\ Lacking(r, AddInterval(t, r, 1)) <= Lacking(r, t)
<1> DEFINE n == Value(r)
<1>1. /\ n \in Int /\ -n \in Int
      /\ AddInterval(t, r, 1) = MovedBy(r, t, n)
      /\ AddInterval(AddInterval(t, r, 1), r, -1) = MovedBy(r, MovedBy(r, t, n), -n)
  BY IntervalIs
<1>2. Lacking(r, t) \in Nat /\ Lacking(r, AddInterval(t, r, 1)) \in Nat
  BY LackingTyped, IntervalMoves
<1> HIDE DEF n
<1>3. CASE r.reset_interval_type = "months"
  <2> DEFINE s == AddMonths(t, n)
             b == AddMonths(s, -n)
  <2>1. /\ b \in Int /\ (b = t \/ b \in t - (DayOf(t) - (Short - 1)) .. t)
        /\ s \in Int /\ (DayOf(s) = DayOf(t) \/ DayOf(s) \in Short - 1 .. DayOf(t))
    BY <1>1, MonthsAdded, MonthsBack
  <2>2. AddInterval(t, r, 1) = s /\ AddInterval(AddInterval(t, r, 1), r, -1) = b
    BY <1>1, <1>3 DEF MovedBy
  <2>3. DayOf(t) \in Int
    <3>1. DayOf(t) \in 0 .. Length(MonthOf(t)) - 1 /\ Length(MonthOf(t)) \in Nat
      BY InItsMonth, MonthAfter
    <3> QED BY <3>1
  <2> HIDE DEF s, b
  <2>4. b \in t - Lacking(r, t) .. t
    BY <1>2, <1>3, <2>1, <2>3, CalendarAssumption DEF Lacking
  <2>5. Lacking(r, s) <= Lacking(r, t)
    BY <1>3, <2>1, <2>3, CalendarAssumption DEF Lacking
  <2> QED BY <2>2, <2>4, <2>5
<1>4. CASE r.reset_interval_type # "months"
  <2>1. Lacking(r, t) = 0 /\ Lacking(r, AddInterval(t, r, 1)) = 0
    BY <1>4 DEF Lacking
  <2> QED BY <1>1, <1>4, <2>1 DEF MovedBy
<1> QED BY <1>3, <1>4

\* An interval before one date is before where an interval on and back leads a later one.
LEMMA IntervalsInOrder ==
  ASSUME NEW r, r.reset_interval_value \in Nat, NEW t \in Int, NEW b \in Int, t <= b
  PROVE  AddInterval(t, r, -1) < AddInterval(AddInterval(b, r, 1), r, -1)
<1> DEFINE n == Value(r)
<1>1. /\ n \in Nat \ {0} /\ n \in Int /\ -n \in Int
      /\ AddInterval(t, r, -1) = MovedBy(r, t, -n)
      /\ AddInterval(AddInterval(b, r, 1), r, -1) = MovedBy(r, MovedBy(r, b, n), -n)
  BY IntervalIs
<1> HIDE DEF n
<1>2. CASE r.reset_interval_type = "months"
  <2>1. /\ AddMonths(t, -n) \in Int /\ MonthOf(AddMonths(t, -n)) = MonthOf(t) + (-n)
        /\ AddMonths(AddMonths(b, n), -n) \in Int
        /\ MonthOf(AddMonths(AddMonths(b, n), -n)) = MonthOf(b)
    BY <1>1, MonthsAdded, MonthsBack
  <2>2. MonthOf(t) <= MonthOf(b) /\ MonthOf(t) \in Int /\ MonthOf(b) \in Int
    BY DatesInOrder, InItsMonth
  <2>3. MonthOf(t) + (-n) < MonthOf(b)
    BY <1>1, <2>2
  <2> QED BY <1>1, <1>2, <2>1, <2>3, DatesInOrder DEF MovedBy
<1>3. CASE r.reset_interval_type # "months"
  BY <1>1, <1>3 DEF MovedBy
<1> QED BY <1>2, <1>3

\* One interval further.
Further(r) == [t \in Int |-> AddInterval(t, r, 1)]

LEMMA OnwardIsWalk ==
  ASSUME NEW r, r.reset_interval_value \in Nat, NEW time \in Int
  PROVE  Further(r) \in Steps /\ IsWalk(Onward(r, time), Further(r), time)
<1>1. Further(r) \in Steps
  BY IntervalMoves DEF Further, Steps
<1>2. PICK F : IsWalk(F, Further(r), time)
  BY <1>1, WalkExists
<1> DEFINE Rec(f) == [t \in Int |-> IF t <= time THEN f[AddInterval(t, r, 1)] ELSE t]
<1>3. ASSUME NEW f PROVE Rec(f) = [t \in Int |-> IF t <= time THEN f[Further(r)[t]] ELSE t]
  BY DEF Further
<1>4. F = Rec(F)
  <2> HIDE DEF Rec
  <2> QED BY <1>2, <1>3 DEF IsWalk
<1>5. Onward(r, time) = CHOOSE f : f = Rec(f)
  BY DEF Onward
<1>6. Onward(r, time) = Rec(Onward(r, time))
  <2> HIDE DEF Rec
  <2> QED BY <1>4, <1>5
<1>7. IsWalk(Onward(r, time), Further(r), time)
  <2> HIDE DEF Rec
  <2> QED BY <1>3, <1>6 DEF IsWalk
<1> QED BY <1>1, <1>7

\* A limit with a date that moves.
Moving(r) == r.reset_interval_value \in Nat /\ r.next_reset_at \in Int /\ Recurs(r)

LEMMA AdvanceLeadsPast ==
  ASSUME NEW r, Moving(r), NEW time \in Int
  PROVE  /\ Advance(r, time) \in Int /\ Advance(r, time) > time
         /\ AddInterval(Advance(r, time), r, -1) \in Int
<1>1. Advance(r, time) = Onward(r, time)[r.next_reset_at]
  BY DEF Advance, Moving
<1>2. Advance(r, time) \in Int /\ Advance(r, time) > time
  BY <1>1, OnwardIsWalk, WalkLeadsPast DEF Moving
<1> QED BY <1>2, IntervalMoves DEF Moving

\* Two limits that differ in their date only have the same resets.
LEMMA SameResets ==
  ASSUME NEW r, NEW q, SameButDate(q, r)
  PROVE  /\ q.reset_interval_value = r.reset_interval_value
         /\ q.reset_interval_type = r.reset_interval_type
         /\ \A t, n : AddInterval(t, q, n) = AddInterval(t, r, n)
         /\ Further(q) = Further(r)
<1>1. /\ q.reset_interval_value = r.reset_interval_value
      /\ q.reset_interval_type = r.reset_interval_type
  BY DEF SameButDate, Columns
<1>2. Value(q) = Value(r)
  BY <1>1 DEF Value
<1>3. \A t, n : AddInterval(t, q, n) = AddInterval(t, r, n)
  BY <1>1, <1>2 DEF AddInterval
<1> QED BY <1>1, <1>3 DEF Further

LEMMA AdvanceIsFromDate ==
  ASSUME NEW r, Moving(r), NEW q, SameButDate(q, r), q.next_reset_at = r.next_reset_at,
         NEW time \in Int
  PROVE  Moving(q) /\ Advance(q, time) = Advance(r, time)
<1>1. Moving(q)
  BY SameResets DEF Moving, Recurs
<1> DEFINE E == Onward(q, time)
           F == Onward(r, time)
           A == Further(r)
<1>2. A \in Steps /\ IsWalk(E, A, time) /\ IsWalk(F, A, time) /\ r.next_reset_at \in Int
  BY <1>1, OnwardIsWalk, SameResets DEF Moving
<1>3. Advance(q, time) = E[r.next_reset_at] /\ Advance(r, time) = F[r.next_reset_at]
  BY <1>1 DEF Advance, Moving
<1> HIDE DEF E, F, A
<1>4. /\ E[r.next_reset_at] \in Int /\ E[r.next_reset_at] > time
      /\ F[E[r.next_reset_at]] = F[r.next_reset_at]
  BY <1>2, WalkLeadsPast, WalksMeet
<1>5. F[E[r.next_reset_at]] = E[r.next_reset_at]
  BY <1>2, <1>4 DEF IsWalk
<1> QED BY <1>1, <1>3, <1>4, <1>5

(* A date moved twice is where the later of the two times moves it. *)
LEMMA AdvanceTwice ==
  ASSUME NEW r, Moving(r), NEW first \in Int, NEW second \in Int,
         NEW q, SameButDate(q, r), q.next_reset_at = Advance(r, first)
  PROVE  /\ Moving(q)
         /\ first <= second => Advance(q, second) = Advance(r, second)
         /\ second <= first => Advance(q, second) = Advance(r, first)
<1>0. None \notin Int
  BY BoundsAssumption
<1>1. Advance(r, first) \in Int /\ Advance(r, first) > first
  BY AdvanceLeadsPast
<1>2. Moving(q)
  BY <1>0, <1>1, SameResets DEF Moving, Recurs
<1> DEFINE E == Onward(r, first)
           F == Onward(r, second)
           G == Onward(q, second)
           A == Further(r)
           d == r.next_reset_at
<1>3. /\ A \in Steps /\ IsWalk(E, A, first) /\ IsWalk(F, A, second) /\ IsWalk(G, A, second)
      /\ d \in Int
  BY <1>2, OnwardIsWalk, SameResets DEF Moving
<1>4. /\ Advance(r, first) = E[d] /\ Advance(r, second) = F[d]
      /\ Advance(q, second) = G[E[d]]
  BY <1>2 DEF Advance, Moving
<1> HIDE DEF E, F, G, A, d
<1>5. CASE first <= second
  <2>1. G[E[d]] = G[d] /\ F[d] \in Int /\ F[d] > second /\ G[F[d]] = G[d]
    BY <1>3, <1>5, WalksMeet, WalkLeadsPast
  <2>2. G[F[d]] = F[d]
    BY <1>3, <2>1 DEF IsWalk
  <2>3. Advance(q, second) = Advance(r, second)
    BY <1>4, <2>1, <2>2
  <2>4. CASE second <= first
    <3>1. first = second
      BY <1>5, <2>4
    <3> QED BY <1>2, <2>3, <3>1
  <2> QED BY <1>2, <2>3, <2>4
<1>6. CASE ~(first <= second)
  <2>1. E[d] \in Int /\ ~(E[d] <= second)
    BY <1>1, <1>4, <1>6
  <2>2. G[E[d]] = E[d]
    BY <1>3, <2>1 DEF IsWalk
  <2> QED BY <1>2, <1>4, <1>6, <2>2
<1> QED BY <1>5, <1>6

(* The period that the dashboard counts in is the one it is opened in: once
   the stored date has come, however long ago, the present is not before the
   start of the period and before its end, also where a month lacks the day. *)
THEOREM NowIsInThePeriod ==
  ASSUME NEW r, IsLimit(r), Recurs(r), NEW time \in Int, r.next_reset_at <= time
  PROVE  time \in PeriodStart(r, time) .. Advance(r, time) - 1
<1> DEFINE d == r.next_reset_at
           F == Onward(r, time)
           A == Further(r)
<1>0. r.reset_interval_value \in Nat /\ d \in Int /\ Moving(r)
  BY DEF IsLimit, FitsALimit, Columns, Recurs, Moving
<1>1. /\ A \in Steps /\ IsWalk(F, A, time)
      /\ \A s \in Int : A[s] = AddInterval(s, r, 1) /\ A[s] \in Int
  BY <1>0, OnwardIsWalk, IntervalMoves DEF Further
<1>2. /\ Advance(r, time) = F[d] /\ Advance(r, time) \in Int /\ Advance(r, time) > time
      /\ PeriodStart(r, time) = AddInterval(F[d], r, -1) /\ PeriodStart(r, time) \in Int
  BY <1>0, AdvanceLeadsPast DEF Advance, PeriodStart
<1> HIDE DEF F, A, d
<1>3. F[d] = d \/ \E b \in Int : d <= b /\ b <= time /\ F[d] = A[b]
  <2> DEFINE K == Int
  <2>1. K \in SUBSET Int /\ d \in K /\ \A s \in K : A[s] \in K
    BY <1>0, <1>1
  <2> HIDE DEF K
  <2>2. F[d] = d \/ \E b \in K : d <= b /\ b <= time /\ F[d] = A[b]
    BY <1>0, <1>1, <2>1, LastStep
  <2> QED BY <2>2 DEF K
<1>4. F[d] # d
  BY <1>0, <1>2 DEF d
<1>5. PICK b \in Int : b <= time /\ F[d] = A[b]
  BY <1>3, <1>4
<1>6. AddInterval(A[b], r, -1) <= b
  <2>1. AddInterval(A[b], r, -1) \in b - Lacking(r, b) .. b /\ Lacking(r, b) \in Nat
    BY <1>0, <1>1, <1>5, IntervalBack, LackingTyped
  <2> QED BY <2>1
<1> QED BY <1>2, <1>5, <1>6

(* The period that ends at a moved date starts where the last step was made
   from, or by so many days earlier as a month lacks: after any date that had
   been moved less far, but for these, and after the period that this one ends. *)
LEMMA PeriodsFollow ==
  ASSUME NEW r, Moving(r), NEW early \in Int, NEW late \in Int, early <= late,
         Advance(r, late) # Advance(r, early)
  PROVE  LET start == AddInterval(Advance(r, late), r, -1)
         IN  /\ start \in Advance(r, early) - Overlap(r) .. late
             /\ AddInterval(Advance(r, early), r, -1) < start
<1> DEFINE E == Onward(r, early)
           F == Onward(r, late)
           A == Further(r)
           d == r.next_reset_at
           most == Overlap(r)
           K == {t \in Int : Lacking(r, t) <= most}
<1>0. most = Lacking(r, d) /\ most \in Nat /\ d \in Int /\ r.reset_interval_value \in Nat
  BY LackingTyped DEF Moving, Overlap, Lacking
<1>1. A \in Steps /\ IsWalk(E, A, early) /\ IsWalk(F, A, late) /\ d \in K
  BY <1>0, OnwardIsWalk
<1>2. Advance(r, early) = E[d] /\ Advance(r, late) = F[d]
  BY DEF Advance, Moving
<1> HIDE DEF most
<1>3. ASSUME NEW s \in K
      PROVE  /\ A[s] \in K /\ A[s] = AddInterval(s, r, 1)
             /\ AddInterval(A[s], r, -1) \in s - most .. s
  <2>1. A[s] = AddInterval(s, r, 1) /\ A[s] \in Int /\ s \in Int
    BY <1>0, IntervalMoves DEF Further
  <2>2. /\ AddInterval(A[s], r, -1) \in s - Lacking(r, s) .. s
        /\ Lacking(r, A[s]) <= Lacking(r, s)
    BY <1>0, <2>1, IntervalBack
  <2>3. Lacking(r, s) \in Nat /\ Lacking(r, A[s]) \in Nat /\ Lacking(r, s) <= most
    BY <2>1, LackingTyped
  <2> HIDE DEF A
  <2> QED BY <1>0, <2>1, <2>2, <2>3
<1>4. K \in SUBSET Int
  OBVIOUS
<1> HIDE DEF E, F, A, d, K
<1>5. E[d] \in Int /\ E[d] \in K
  <2>1. E[d] = d \/ \E b \in K : E[d] = A[b]
    BY <1>0, <1>1, <1>3, <1>4, LastStep
  <2> QED BY <1>1, <1>3, <1>4, <2>1
<1>6. F[E[d]] = F[d]
  BY <1>0, <1>1, WalksMeet
<1>7. F[E[d]] = E[d] \/ \E b \in K : E[d] <= b /\ b <= late /\ F[E[d]] = A[b]
  BY <1>1, <1>3, <1>4, <1>5, LastStep
<1>8. PICK b \in K : E[d] <= b /\ b <= late /\ F[d] = A[b]
  BY <1>2, <1>6, <1>7
<1> DEFINE start == AddInterval(A[b], r, -1)
<1>9. b \in Int /\ A[b] = AddInterval(b, r, 1) /\ start \in b - most .. b
  BY <1>3, <1>4, <1>8
<1>10. AddInterval(E[d], r, -1) < start
  BY <1>0, <1>5, <1>8, <1>9, IntervalsInOrder
<1> HIDE DEF start
<1>11. start \in E[d] - most .. late
  BY <1>0, <1>5, <1>8, <1>9
<1> QED BY <1>2, <1>8, <1>10, <1>11 DEF start, most

(***************************************************************************)
(* The invariant.                                                          *)
(***************************************************************************)
DistinctRecords == \A u, w \in records : u.id = w.id => u = w

(* What an edit does not write is as it asks for, unless it has been overtaken. *)
EditsInProgress ==
  \A c \in Clients : doing[c] = "edit" =>
    /\ \A d \in DOMAIN writes[c] : writes[c][d] = aim[c][d]
    /\ passed[c] \cap {"edit", "seed"} = {} =>
         \A d \in Columns \ DOMAIN writes[c] :
           d # "next_reset_at" \/ passed[c] = {} => row[d] = aim[c][d]

(* A dashboard writes the date only, moved from the one in the row unless it
   has been overtaken. *)
DashboardsInProgress ==
  \A c \in Clients : doing[c] = "dashboard" =>
    /\ DOMAIN writes[c] \subseteq {"next_reset_at"}
    /\ passed[c] = {} /\ DOMAIN writes[c] # {} =>
         /\ Recurs(row)
         /\ \E t \in 0 .. now : writes[c]["next_reset_at"] = Advance(row, t)

(* A clean-up that no edit has overtaken has a default before it, and what it
   does not write is empty already, but for the date that a dashboard leaves. *)
SeedsInProgress ==
  \A c \in Clients : doing[c] = "seed" =>
    /\ \A d \in DOMAIN writes[c] : writes[c][d] = Normalised(row)[d]
    /\ "edit" \notin passed[c] /\ crossed \cap {"edit", "seed"} = {} =>
         /\ LooksLegacy(intended)
         /\ \A d \in Columns \ DOMAIN writes[c] :
              row[d] = Normalised(row)[d] \/ (d = "next_reset_at" /\ "dashboard" \in crossed)

(* The row is that of the last edit, with its date moved. *)
Intact ==
  /\ SameButDate(row, intended)
  /\ \/ "dashboard" \in crossed
     \/ row.next_reset_at = intended.next_reset_at
     \/ \E t \in 0 .. now : row.next_reset_at = Advance(intended, t)

(* The row was taken for a default. *)
Emptied == LooksLegacy(intended) /\ IsEmptied(intended)

RowIsIntended == crossed \cap {"edit", "seed"} = {} => Intact \/ Emptied

(* The periods shown are those of the last edit, and the records counted in
   them are there. *)
CountedInPeriods ==
  crossed = {} =>
    \A y \in counted :
      /\ Recurs(intended) /\ y.shown \in 0 .. now
      /\ y.start = AddInterval(Advance(intended, y.shown), intended, -1)
      /\ \E u \in records : u.id = y.id /\ u.at >= y.start

IInv ==
  /\ TypeOK /\ DistinctRecords
  /\ EditsInProgress /\ DashboardsInProgress /\ SeedsInProgress
  /\ RowIsIntended /\ CountedInPeriods

LEMMA LimitTypes ==
  ASSUME NEW r, IsLimit(r)
  PROVE  /\ r.reset_interval_type \in Types /\ r.reset_interval_value \in Nat
         /\ r.next_reset_at \in Int \cup {None} /\ DOMAIN r = Columns
         /\ Recurs(r) => Moving(r)
<1>1. DOMAIN r = Columns
  BY DEF IsLimit
<1> QED BY <1>1 DEF IsLimit, FitsALimit, Columns, Moving, Recurs

LEMMA KeptIsLimit ==
  ASSUME NEW r, IsLimit(r), NEW w, DOMAIN w \subseteq Columns, FitsALimit(w)
  PROVE  /\ IsLimit(Kept(r, w))
         /\ \A c \in Columns : Kept(r, w)[c] = IF c \in DOMAIN w THEN w[c] ELSE r[c]
         /\ DOMAIN w = {} => Kept(r, w) = r
<1> DEFINE k == Kept(r, w)
<1>1. k = [c \in Columns |-> IF c \in DOMAIN w THEN w[c] ELSE r[c]]
  BY DEF Kept
<1>2. DOMAIN k = Columns /\ \A c \in Columns : k[c] = IF c \in DOMAIN w THEN w[c] ELSE r[c]
  BY <1>1
<1>3. k = [c \in Columns |-> k[c]]
  BY <1>1
<1>4. FitsALimit(k)
  <2> HIDE DEF k
  <2> QED BY <1>2, LimitTypes DEF FitsALimit, Columns
<1>5. DOMAIN w = {} => k = r
  BY <1>1 DEF IsLimit
<1> QED BY <1>2, <1>3, <1>4, <1>5 DEF IsLimit

LEMMA WantedIsLimit ==
  ASSUME NEW p \in Payloads
  PROVE  IsLimit(Wanted(p))
<1> DEFINE r == Wanted(p)
<1>1. r = [c \in Columns |-> IF c = "next_reset_at" THEN Stored(p.next_reset_at, p.utc) ELSE p[c]]
  BY DEF Wanted
<1>2. DOMAIN r = Columns /\ r = [c \in Columns |-> r[c]]
  BY <1>1
<1>3. Stored(p.next_reset_at, p.utc) \in Int \cup {None}
  BY PayloadAssumption, BoundsAssumption DEF Stored
<1>4. /\ r["next_reset_at"] = Stored(p.next_reset_at, p.utc)
      /\ r["reset_interval_type"] = p.reset_interval_type
      /\ r["reset_interval_value"] = p.reset_interval_value
  BY <1>1 DEF Columns
<1>5. FitsALimit(r)
  <2> HIDE DEF r
  <2> QED BY <1>3, <1>4, PayloadAssumption DEF FitsALimit
<1> QED BY <1>2, <1>5 DEF IsLimit

LEMMA NormalisedIsLimit ==
  ASSUME NEW r
  PROVE  /\ IsLimit(Normalised(r)) /\ ~Recurs(Normalised(r))
         /\ Normalised(r)["next_reset_at"] = None /\ Normalised(r)["reset_interval_type"] = "manual"
         /\ \A q : Normalised(q) = Normalised(r)
<1> DEFINE n == Normalised(r)
<1>1. /\ n.reset_interval_type = "manual" /\ n.reset_interval_value = 1
      /\ n.next_reset_at = None
  BY DEF Normalised
<1>2. n = [c \in Columns |-> n[c]]
  BY DEF Normalised, Columns
<1>0. \A q : Normalised(q) = n
  BY DEF Normalised
<1> HIDE DEF n
<1>3. FitsALimit(n)
  BY <1>1 DEF FitsALimit, Types
<1> QED BY <1>0, <1>1, <1>2, <1>3 DEF IsLimit, Recurs, n

LEMMA SeedWritesFit ==
  ASSUME NEW r, IsLimit(r)
  PROVE  LET w == SeedWrites(r)
         IN  /\ DOMAIN w \subseteq Columns /\ FitsALimit(w)
             /\ \A d \in DOMAIN w : w[d] = Normalised(r)[d]
             /\ \A d \in Columns \ DOMAIN w : r[d] = Normalised(r)[d]
<1> DEFINE w == SeedWrites(r)
           n == Normalised(r)
           D == {d \in Columns : n[d] # r[d]}
<1>1. w = [c \in D |-> n[c]]
  BY DEF SeedWrites
<1>2. IsLimit(n)
  BY NormalisedIsLimit
<1> HIDE DEF n
<1>3. DOMAIN w = D /\ \A d \in D : w[d] = n[d]
  BY <1>1
<1>4. D \subseteq Columns /\ \A d \in Columns \ D : r[d] = n[d]
  OBVIOUS
<1> HIDE DEF w, D
<1>5. FitsALimit(w)
  BY <1>2, <1>3, <1>4, LimitTypes DEF FitsALimit
<1> QED BY <1>3, <1>4, <1>5 DEF w, n

(* A row that has been emptied does not recur, whatever date is on it. *)
LEMMA EmptiedDoesNotRecur == Emptied => ~Recurs(row)
<1> SUFFICES ASSUME Emptied PROVE row["reset_interval_type"] = "manual"
  BY DEF Recurs
<1> QED BY NormalisedIsLimit DEF Emptied, IsEmptied, Columns

LEMMA EditWritesFit ==
  ASSUME NEW r, IsLimit(r), NEW p \in Payloads
  PROVE  LET w == EditWrites(r, p)
         IN  /\ DOMAIN w \subseteq Columns /\ FitsALimit(w)
             /\ \A d \in DOMAIN w : w[d] = Wanted(p)[d]
             /\ \A d \in Columns \ DOMAIN w : r[d] = Wanted(p)[d]
<1> DEFINE w == EditWrites(r, p)
           D == {d \in Columns : \/ Wanted(p)[d] # r[d]
                                 \/ d = "next_reset_at" /\ p.utc /\ p.next_reset_at # None}
<1>1. w = [c \in D |-> Wanted(p)[c]]
  BY DEF EditWrites
<1>2. DOMAIN w = D /\ \A d \in D : w[d] = Wanted(p)[d]
  BY <1>1
<1>3. D \subseteq Columns /\ \A d \in Columns \ D : r[d] = Wanted(p)[d]
  OBVIOUS
<1>4. IsLimit(Wanted(p))
  BY WantedIsLimit
<1> HIDE DEF w, D
<1>5. FitsALimit(w)
  BY <1>2, <1>3, <1>4, LimitTypes DEF FitsALimit
<1> QED BY <1>2, <1>3, <1>5 DEF w

LEMMA ResetWritesFit ==
  ASSUME NEW r, IsLimit(r), now \in Int
  PROVE  LET w == ResetWrites(r)
         IN  /\ DOMAIN w = {d \in {"next_reset_at"} : Recurs(r)} /\ FitsALimit(w)
             /\ Recurs(r) => w["next_reset_at"] = Advance(r, now)
<1> DEFINE w == ResetWrites(r)
           D == {d \in {"next_reset_at"} : Recurs(r)}
<1>1. w = [c \in D |-> Advance(r, now)]
  BY DEF ResetWrites
<1>2. DOMAIN w = D /\ (Recurs(r) => w["next_reset_at"] = Advance(r, now))
  BY <1>1
<1>3. Recurs(r) => Advance(r, now) \in Int
  BY LimitTypes, AdvanceLeadsPast
<1> HIDE DEF w
<1>4. FitsALimit(w)
  BY <1>2, <1>3 DEF FitsALimit
<1> QED BY <1>2, <1>4 DEF w

(* The date of a limit that is intact is that of the edit, moved. *)
LEMMA DateIsMoved ==
  ASSUME NEW r, IsLimit(r), NEW q, IsLimit(q), Recurs(q), SameButDate(q, r), NEW n \in Nat,
         \/ q.next_reset_at = r.next_reset_at
         \/ \E t \in 0 .. n : q.next_reset_at = Advance(r, t),
         NEW time \in 0 .. n
  PROVE  /\ Moving(r) /\ \E t \in 0 .. n : Advance(q, time) = Advance(r, t)
         /\ time = n => Advance(q, time) = Advance(r, time)
<1>0. Moving(q) /\ SameButDate(r, q) /\ q.next_reset_at \in Int /\ q.next_reset_at # None
  BY LimitTypes DEF SameButDate, Moving, Recurs
<1>1. CASE q.next_reset_at = r.next_reset_at
  <2>1. Moving(r) /\ Advance(r, time) = Advance(q, time)
    BY <1>0, <1>1, AdvanceIsFromDate
  <2> QED BY <2>1
<1>2. ASSUME q.next_reset_at # r.next_reset_at,
             NEW t \in 0 .. n, q.next_reset_at = Advance(r, t)
      PROVE  /\ Moving(r) /\ \E s \in 0 .. n : Advance(q, time) = Advance(r, s)
             /\ time = n => Advance(q, time) = Advance(r, time)
  <2>1. Recurs(r)
    BY <1>2 DEF Advance
  <2>2. Moving(r)
    BY <2>1, LimitTypes
  <2>3. /\ t <= time => Advance(q, time) = Advance(r, time)
        /\ time <= t => Advance(q, time) = Advance(r, t)
    <3>1. t \in Int /\ time \in Int
      OBVIOUS
    <3> QED BY <1>2, <2>2, <3>1, AdvanceTwice
  <2>4. t <= time \/ (time <= t /\ time # n)
    OBVIOUS
  <2> QED BY <2>2, <2>3, <2>4
<1> QED BY <1>1, <1>2

LEMMA InitHolds == Init => IInv
<1> SUFFICES ASSUME Init PROVE IInv
  OBVIOUS
<1>1. IsLimit(row) /\ intended = row
  BY WantedIsLimit DEF Init
<1>2. DOMAIN <<>> = {}
  OBVIOUS
<1>3. TypeOK
  BY <1>1, <1>2, BoundsAssumption DEF Init, TypeOK, FitsALimit
<1>4. DistinctRecords /\ EditsInProgress /\ DashboardsInProgress /\ SeedsInProgress /\ CountedInPeriods
  BY DEF Init, DistinctRecords, EditsInProgress, DashboardsInProgress, SeedsInProgress, CountedInPeriods
<1>5. RowIsIntended
  BY <1>1 DEF Init, RowIsIntended, Intact, SameButDate
<1> QED BY <1>3, <1>4, <1>5 DEF IInv

-----------------------------------------------------------------------------
\* A request begins: what it does to the rest of the state.
LEMMA BeginTypes ==
  ASSUME TypeOK, NEW c \in Clients, NEW request \in Kinds, NEW w, NEW target,
         Begin(c, request, w, target), DOMAIN w \subseteq Columns, FitsALimit(w),
         request = "edit" => IsLimit(target)
  PROVE  /\ doing' \in [Clients -> {"nothing"} \cup Kinds]
         /\ DOMAIN writes' = Clients /\ DOMAIN aim' = Clients
         /\ \A d \in Clients : /\ DOMAIN writes'[d] \subseteq Columns /\ FitsALimit(writes'[d])
                               /\ doing'[d] = "edit" => IsLimit(aim'[d])
         /\ doing'[c] = request /\ writes'[c] = w /\ aim'[c] = target
         /\ \A d \in Clients \ {c} :
              doing'[d] = doing[d] /\ writes'[d] = writes[d] /\ aim'[d] = aim[d]
<1>1. /\ doing' = [doing EXCEPT ![c] = request] /\ writes' = [writes EXCEPT ![c] = w]
      /\ aim' = [aim EXCEPT ![c] = target]
  BY DEF Begin
<1>2. /\ doing' \in [Clients -> {"nothing"} \cup Kinds]
      /\ DOMAIN writes' = Clients /\ DOMAIN aim' = Clients
  BY <1>1 DEF TypeOK
<1>3. /\ doing'[c] = request /\ writes'[c] = w /\ aim'[c] = target
      /\ \A d \in Clients \ {c} : doing'[d] = doing[d] /\ writes'[d] = writes[d] /\ aim'[d] = aim[d]
  BY <1>1 DEF TypeOK
<1> QED BY <1>2, <1>3 DEF TypeOK

LEMMA LeaveTypes ==
  ASSUME TypeOK, NEW c \in Clients, NEW kinds \in SUBSET Kinds, Leave(c, kinds)
  PROVE  /\ doing' \in [Clients -> {"nothing"} \cup Kinds]
         /\ DOMAIN writes' = Clients /\ DOMAIN aim' = Clients
         /\ passed' \in [Clients -> SUBSET Kinds]
         /\ \A d \in Clients : /\ DOMAIN writes'[d] \subseteq Columns /\ FitsALimit(writes'[d])
                               /\ doing'[d] = "edit" => IsLimit(aim'[d])
         /\ doing'[c] = "nothing" /\ UNCHANGED <<records, now, edits>>
         /\ \A d \in Clients \ {c} :
              /\ doing'[d] = doing[d] /\ writes'[d] = writes[d] /\ aim'[d] = aim[d]
              /\ doing[d] # "nothing" => passed'[d] = passed[d] \cup kinds
<1>1. /\ doing' = [doing EXCEPT ![c] = "nothing"] /\ writes' = [writes EXCEPT ![c] = <<>>]
      /\ aim' = [aim EXCEPT ![c] = None] /\ UNCHANGED <<records, now, edits>>
      /\ passed' = [d \in Clients |->
                      IF d = c \/ doing[d] = "nothing" THEN {} ELSE passed[d] \cup kinds]
  BY DEF Leave
<1>2. /\ doing' \in [Clients -> {"nothing"} \cup Kinds]
      /\ DOMAIN writes' = Clients /\ DOMAIN aim' = Clients
  BY <1>1 DEF TypeOK
<1>3. passed' \in [Clients -> SUBSET Kinds]
  BY <1>1 DEF TypeOK
<1>4. /\ doing'[c] = "nothing" /\ writes'[c] = <<>>
      /\ \A d \in Clients \ {c} :
           /\ doing'[d] = doing[d] /\ writes'[d] = writes[d] /\ aim'[d] = aim[d]
           /\ doing[d] # "nothing" => passed'[d] = passed[d] \cup kinds
  BY <1>1 DEF TypeOK
<1>5. DOMAIN <<>> = {}
  OBVIOUS
<1>6. \A d \in Clients : /\ DOMAIN writes'[d] \subseteq Columns /\ FitsALimit(writes'[d])
                         /\ doing'[d] = "edit" => IsLimit(aim'[d])
  BY <1>4, <1>5 DEF TypeOK, FitsALimit
<1> QED BY <1>1, <1>2, <1>3, <1>4, <1>6

(***************************************************************************)
(* Every step keeps it.                                                    *)
(***************************************************************************)
LEMMA DashboardStep ==
  ASSUME IInv, NEW c \in Clients, Dashboard(c)
  PROVE  IInv'
<1> DEFINE w == ResetWrites(row)
           new == {[id |-> i, start |-> PeriodStart(row, now), shown |-> now] :
                     i \in {j \in Used(row, now) : Recurs(row)}}
<1>0. TypeOK /\ now \in Int /\ now \in Nat /\ IsLimit(row) /\ IsLimit(intended)
  BY BoundsAssumption DEF IInv, TypeOK
<1>1. /\ Begin(c, "dashboard", w, None) /\ counted' = counted \cup new
      /\ UNCHANGED <<row, records, passed, now, intended, crossed, edits>>
  BY DEF Dashboard, Begin
<1>2. /\ DOMAIN w = {d \in {"next_reset_at"} : Recurs(row)} /\ FitsALimit(w)
      /\ Recurs(row) => w["next_reset_at"] = Advance(row, now)
  BY <1>0, ResetWritesFit
<1> HIDE DEF w
<1>3. DOMAIN w \subseteq Columns
  BY <1>2 DEF Columns
<1>4. /\ doing' \in [Clients -> {"nothing"} \cup Kinds]
      /\ DOMAIN writes' = Clients /\ DOMAIN aim' = Clients
      /\ \A d \in Clients : /\ DOMAIN writes'[d] \subseteq Columns /\ FitsALimit(writes'[d])
                            /\ doing'[d] = "edit" => IsLimit(aim'[d])
      /\ doing'[c] = "dashboard" /\ writes'[c] = w /\ aim'[c] = None
      /\ \A d \in Clients \ {c} : doing'[d] = doing[d] /\ writes'[d] = writes[d] /\ aim'[d] = aim[d]
  <2>1. "dashboard" \in Kinds
    BY DEF Kinds
  <2> QED BY <1>0, <1>1, <1>2, <1>3, <2>1, BeginTypes
<1>5. ASSUME NEW y \in new
      PROVE  /\ Recurs(row) /\ y.shown = now /\ y.start = AddInterval(Advance(row, now), row, -1)
             /\ y \in [id : Ids, start : Int, shown : Int]
             /\ \E u \in records : u.id = y.id /\ u.at >= y.start
  <2>1. PICK i \in Used(row, now) :
          Recurs(row) /\ y = [id |-> i, start |-> PeriodStart(row, now), shown |-> now]
    OBVIOUS
  <2>2. PICK u \in records : u.id = i /\ u.at >= PeriodStart(row, now)
    BY <2>1 DEF Used
  <2>3. PeriodStart(row, now) = AddInterval(Advance(row, now), row, -1)
    BY <2>1 DEF PeriodStart
  <2>4. PeriodStart(row, now) \in Int
    BY <1>0, <2>1, <2>3, LimitTypes, AdvanceLeadsPast
  <2>5. i \in Ids
    BY <1>0, <2>2 DEF TypeOK
  <2> QED BY <1>0, <2>1, <2>2, <2>3, <2>4, <2>5
<1> HIDE DEF new
<1>6. TypeOK'
  <2>1. counted' \subseteq [id : Ids, start : Int, shown : Int]
    BY <1>0, <1>1, <1>5 DEF TypeOK
  <2> QED BY <1>0, <1>1, <1>4, <2>1 DEF TypeOK, IsLimit, FitsALimit
<1>7. DistinctRecords'
  BY <1>1 DEF IInv, DistinctRecords
<1>8. EditsInProgress'
  BY <1>1, <1>4 DEF IInv, EditsInProgress
<1>9. DashboardsInProgress'
  <2> SUFFICES ASSUME NEW d \in Clients, doing'[d] = "dashboard"
               PROVE  /\ DOMAIN writes'[d] \subseteq {"next_reset_at"}
                      /\ passed[d] = {} /\ DOMAIN writes'[d] # {} =>
                           /\ Recurs(row)
                           /\ \E t \in 0 .. now : writes'[d]["next_reset_at"] = Advance(row, t)
    BY <1>1 DEF DashboardsInProgress
  <2>1. CASE d = c
    BY <1>0, <1>2, <1>4, <2>1
  <2>2. CASE d # c
    BY <1>4, <2>2 DEF IInv, DashboardsInProgress
  <2> QED BY <2>1, <2>2
<1>10. SeedsInProgress'
  BY <1>1, <1>4 DEF IInv, SeedsInProgress
<1>11. RowIsIntended'
  BY <1>1 DEF IInv, RowIsIntended, Intact, Emptied, IsEmptied
<1>12. CountedInPeriods'
  <2> SUFFICES ASSUME crossed = {}, NEW y \in counted'
               PROVE  /\ Recurs(intended) /\ y.shown \in 0 .. now
                      /\ y.start = AddInterval(Advance(intended, y.shown), intended, -1)
                      /\ \E u \in records : u.id = y.id /\ u.at >= y.start
    BY <1>1 DEF CountedInPeriods
  <2>1. CASE y \in counted
    BY <2>1 DEF IInv, CountedInPeriods
  <2>2. CASE y \in new
    <3>1. Recurs(row) /\ Intact
      BY <1>5, <2>2, EmptiedDoesNotRecur DEF IInv, RowIsIntended
    <3>2. Moving(intended) /\ Advance(row, now) = Advance(intended, now)
      BY <1>0, <3>1, DateIsMoved DEF Intact
    <3>3. AddInterval(Advance(row, now), row, -1)
            = AddInterval(Advance(intended, now), intended, -1)
      BY <3>1, <3>2, SameResets DEF Intact
    <3> QED BY <1>0, <1>5, <2>2, <3>2, <3>3 DEF Moving
  <2> QED BY <1>1, <2>1, <2>2
<1> QED BY <1>6, <1>7, <1>8, <1>9, <1>10, <1>11, <1>12 DEF IInv

LEMMA EditStep ==
  ASSUME IInv, NEW c \in Clients, NEW p \in Payloads, Edit(c, p)
  PROVE  IInv'
<1> DEFINE w == EditWrites(row, p)
           target == Wanted(p)
<1>0. TypeOK /\ IsLimit(row)
  BY DEF IInv, TypeOK
<1>1. /\ Begin(c, "edit", w, target) /\ edits < MaxEdits /\ edits' = edits + 1
      /\ UNCHANGED <<row, records, passed, now, intended, crossed, counted>>
  BY DEF Edit, Begin
<1>2. /\ DOMAIN w \subseteq Columns /\ FitsALimit(w) /\ IsLimit(target)
      /\ \A d \in DOMAIN w : w[d] = target[d]
      /\ \A d \in Columns \ DOMAIN w : row[d] = target[d]
  BY <1>0, EditWritesFit, WantedIsLimit
<1> HIDE DEF w, target
<1>3. /\ doing' \in [Clients -> {"nothing"} \cup Kinds]
      /\ DOMAIN writes' = Clients /\ DOMAIN aim' = Clients
      /\ \A d \in Clients : /\ DOMAIN writes'[d] \subseteq Columns /\ FitsALimit(writes'[d])
                            /\ doing'[d] = "edit" => IsLimit(aim'[d])
      /\ doing'[c] = "edit" /\ writes'[c] = w /\ aim'[c] = target
      /\ \A d \in Clients \ {c} : doing'[d] = doing[d] /\ writes'[d] = writes[d] /\ aim'[d] = aim[d]
  <2>1. "edit" \in Kinds
    BY DEF Kinds
  <2> QED BY <1>0, <1>1, <1>2, <2>1, BeginTypes
<1>4. TypeOK'
  <2>1. edits' \in 0 .. MaxEdits
    BY <1>0, <1>1, BoundsAssumption DEF TypeOK
  <2> QED BY <1>0, <1>1, <1>3, <2>1 DEF TypeOK, IsLimit, FitsALimit
<1>5. DistinctRecords'
  BY <1>1 DEF IInv, DistinctRecords
<1>6. EditsInProgress'
  <2> SUFFICES ASSUME NEW d \in Clients, doing'[d] = "edit"
               PROVE  /\ \A x \in DOMAIN writes'[d] : writes'[d][x] = aim'[d][x]
                      /\ passed[d] \cap {"edit", "seed"} = {} =>
                           \A x \in Columns \ DOMAIN writes'[d] :
                             x # "next_reset_at" \/ passed[d] = {} => row[x] = aim'[d][x]
    BY <1>1 DEF EditsInProgress
  <2>1. CASE d = c
    BY <1>2, <1>3, <2>1
  <2>2. CASE d # c
    BY <1>3, <2>2 DEF IInv, EditsInProgress
  <2> QED BY <2>1, <2>2
<1>7. DashboardsInProgress'
  BY <1>1, <1>3 DEF IInv, DashboardsInProgress
<1>10. SeedsInProgress'
  BY <1>1, <1>3 DEF IInv, SeedsInProgress
<1>8. RowIsIntended'
  BY <1>1 DEF IInv, RowIsIntended, Intact, Emptied, IsEmptied
<1>9. CountedInPeriods'
  BY <1>1 DEF IInv, CountedInPeriods
<1> QED BY <1>4, <1>5, <1>6, <1>7, <1>8, <1>9, <1>10 DEF IInv

LEMMA CommitEditStep ==
  ASSUME IInv, NEW c \in Clients, CommitEdit(c)
  PROVE  IInv'
<1>0. /\ TypeOK /\ IsLimit(row) /\ IsLimit(aim[c]) /\ doing[c] = "edit"
      /\ DOMAIN writes[c] \subseteq Columns /\ FitsALimit(writes[c])
      /\ passed[c] \subseteq Kinds
  BY DEF IInv, TypeOK, CommitEdit
<1>1. /\ Leave(c, {"edit"}) /\ row' = Kept(row, writes[c]) /\ intended' = aim[c]
      /\ crossed' = passed[c] /\ counted' = {}
  BY DEF CommitEdit
<1>2. /\ IsLimit(row')
      /\ \A x \in Columns : row'[x] = IF x \in DOMAIN writes[c] THEN writes[c][x] ELSE row[x]
  BY <1>0, <1>1, KeptIsLimit
<1>3. /\ doing' \in [Clients -> {"nothing"} \cup Kinds]
      /\ DOMAIN writes' = Clients /\ DOMAIN aim' = Clients
      /\ passed' \in [Clients -> SUBSET Kinds]
      /\ \A d \in Clients : /\ DOMAIN writes'[d] \subseteq Columns /\ FitsALimit(writes'[d])
                            /\ doing'[d] = "edit" => IsLimit(aim'[d])
      /\ doing'[c] = "nothing" /\ UNCHANGED <<records, now, edits>>
      /\ \A d \in Clients \ {c} :
           /\ doing'[d] = doing[d] /\ writes'[d] = writes[d] /\ aim'[d] = aim[d]
           /\ doing[d] # "nothing" => passed'[d] = passed[d] \cup {"edit"}
  <2>1. {"edit"} \in SUBSET Kinds
    BY DEF Kinds
  <2> QED BY <1>0, <1>1, <2>1, LeaveTypes
<1>4. TypeOK'
  <2>1. IsLimit(row)' /\ IsLimit(intended)'
    BY <1>0, <1>1, <1>2 DEF IsLimit, FitsALimit
  <2> QED BY <1>0, <1>1, <1>3, <2>1 DEF TypeOK, IsLimit, FitsALimit
<1>5. DistinctRecords'
  BY <1>3 DEF IInv, DistinctRecords
<1>6. EditsInProgress'
  BY <1>3 DEF IInv, EditsInProgress
<1>7. DashboardsInProgress'
  BY <1>3 DEF IInv, DashboardsInProgress
<1>10. SeedsInProgress'
  <2> SUFFICES ASSUME NEW d \in Clients, doing'[d] = "seed"
               PROVE  "edit" \in passed'[d] /\ \A x \in DOMAIN writes'[d] : writes'[d][x] = Normalised(row')[x]
    BY DEF SeedsInProgress
  <2>1. Normalised(row') = Normalised(row)
    BY NormalisedIsLimit
  <2> QED BY <1>3, <2>1 DEF IInv, SeedsInProgress
<1>8. RowIsIntended'
  <2> SUFFICES ASSUME passed[c] \cap {"edit", "seed"} = {} PROVE Intact'
    BY <1>1 DEF RowIsIntended
  <2>1. /\ \A x \in DOMAIN writes[c] : writes[c][x] = aim[c][x]
        /\ \A x \in Columns \ DOMAIN writes[c] :
             x # "next_reset_at" \/ passed[c] = {} => row[x] = aim[c][x]
    BY <1>0 DEF IInv, EditsInProgress
  <2>2. \A x \in Columns : x # "next_reset_at" \/ passed[c] = {} => row'[x] = aim[c][x]
    BY <1>2, <2>1
  <2>3. passed[c] = {} \/ "dashboard" \in passed[c]
    BY <1>0 DEF Kinds
  <2>4. SameButDate(row', intended')
    BY <1>1, <2>2 DEF SameButDate
  <2>5. "dashboard" \in crossed' \/ row'["next_reset_at"] = intended'["next_reset_at"]
    BY <1>1, <2>2, <2>3 DEF Columns
  <2> QED BY <2>4, <2>5 DEF Intact, SameButDate
<1>9. CountedInPeriods'
  BY <1>1 DEF CountedInPeriods
<1> QED BY <1>4, <1>5, <1>6, <1>7, <1>8, <1>9, <1>10 DEF IInv

\* A request ends that has changed nothing of the limit: Fail, or a dashboard
\* without a date to move.
LEMMA LeaveStep ==
  ASSUME IInv, NEW c \in Clients, Leave(c, {}), UNCHANGED <<row, intended, crossed, counted>>
  PROVE  IInv'
<1>1. /\ doing' \in [Clients -> {"nothing"} \cup Kinds]
      /\ DOMAIN writes' = Clients /\ DOMAIN aim' = Clients
      /\ passed' \in [Clients -> SUBSET Kinds]
      /\ \A d \in Clients : /\ DOMAIN writes'[d] \subseteq Columns /\ FitsALimit(writes'[d])
                            /\ doing'[d] = "edit" => IsLimit(aim'[d])
      /\ doing'[c] = "nothing" /\ UNCHANGED <<records, now, edits>>
      /\ \A d \in Clients \ {c} :
           /\ doing'[d] = doing[d] /\ writes'[d] = writes[d] /\ aim'[d] = aim[d]
           /\ doing[d] # "nothing" => passed'[d] = passed[d] \cup {}
  <2>1. {} \in SUBSET Kinds /\ TypeOK
    BY DEF IInv
  <2> QED BY <2>1, LeaveTypes
<1>2. ASSUME NEW d \in Clients, doing'[d] # "nothing"
      PROVE  /\ doing'[d] = doing[d] /\ writes'[d] = writes[d] /\ aim'[d] = aim[d]
             /\ passed'[d] = passed[d]
  BY <1>1, <1>2
<1>3. TypeOK'
  BY <1>1 DEF IInv, TypeOK, IsLimit, FitsALimit
<1>4. DistinctRecords'
  BY <1>1 DEF IInv, DistinctRecords
<1>5. EditsInProgress'
  <2> SUFFICES ASSUME NEW d \in Clients, doing'[d] = "edit"
               PROVE  /\ \A x \in DOMAIN writes'[d] : writes'[d][x] = aim'[d][x]
                      /\ passed'[d] \cap {"edit", "seed"} = {} =>
                           \A x \in Columns \ DOMAIN writes'[d] :
                             x # "next_reset_at" \/ passed'[d] = {} => row[x] = aim'[d][x]
    BY DEF EditsInProgress
  <2> QED BY <1>2 DEF IInv, EditsInProgress
<1>6. DashboardsInProgress'
  <2> SUFFICES ASSUME NEW d \in Clients, doing'[d] = "dashboard"
               PROVE  /\ DOMAIN writes'[d] \subseteq {"next_reset_at"}
                      /\ passed'[d] = {} /\ DOMAIN writes'[d] # {} =>
                           /\ Recurs(row)
                           /\ \E t \in 0 .. now : writes'[d]["next_reset_at"] = Advance(row, t)
    BY <1>1 DEF DashboardsInProgress
  <2> QED BY <1>2 DEF IInv, DashboardsInProgress
<1>9. SeedsInProgress'
  BY <1>2 DEF IInv, SeedsInProgress
<1>7. RowIsIntended'
  BY <1>1 DEF IInv, RowIsIntended, Intact, Emptied, IsEmptied
<1>8. CountedInPeriods'
  BY <1>1 DEF IInv, CountedInPeriods
<1> QED BY <1>3, <1>4, <1>5, <1>6, <1>7, <1>8, <1>9 DEF IInv

LEMMA CommitDashboardStep ==
  ASSUME IInv, NEW c \in Clients, CommitDashboard(c)
  PROVE  IInv'
<1> DEFINE w == writes[c]
<1>0. /\ TypeOK /\ IsLimit(row) /\ IsLimit(intended) /\ doing[c] = "dashboard"
      /\ DOMAIN w \subseteq Columns /\ FitsALimit(w) /\ now \in Nat
      /\ DOMAIN w \subseteq {"next_reset_at"}
      /\ passed[c] = {} /\ DOMAIN w # {} =>
           /\ Recurs(row)
           /\ \E t \in 0 .. now : w["next_reset_at"] = Advance(row, t)
  BY BoundsAssumption DEF IInv, TypeOK, CommitDashboard, DashboardsInProgress
<1>1. /\ row' = Kept(row, w) /\ Leave(c, IF DOMAIN w = {} THEN {} ELSE {"dashboard"})
      /\ IF passed[c] = {} \/ DOMAIN w = {}
           THEN UNCHANGED <<intended, crossed, counted>>
           ELSE crossed' = crossed \cup {"dashboard"} /\ counted' = {} /\ UNCHANGED intended
  BY DEF CommitDashboard, history
<1>2. /\ IsLimit(row')
      /\ \A x \in Columns : row'[x] = IF x \in DOMAIN w THEN w[x] ELSE row[x]
      /\ DOMAIN w = {} => row' = row
  BY <1>0, <1>1, KeptIsLimit
<1> HIDE DEF w
<1>3. CASE DOMAIN w = {}
  BY <1>1, <1>2, <1>3, LeaveStep
<1>4. CASE DOMAIN w # {}
  <2>0. DOMAIN w = {"next_reset_at"}
    BY <1>0, <1>4
  <2>1. /\ doing' \in [Clients -> {"nothing"} \cup Kinds]
        /\ DOMAIN writes' = Clients /\ DOMAIN aim' = Clients
        /\ passed' \in [Clients -> SUBSET Kinds]
        /\ \A d \in Clients : /\ DOMAIN writes'[d] \subseteq Columns /\ FitsALimit(writes'[d])
                              /\ doing'[d] = "edit" => IsLimit(aim'[d])
        /\ doing'[c] = "nothing" /\ UNCHANGED <<records, now, edits>>
        /\ \A d \in Clients \ {c} :
             /\ doing'[d] = doing[d] /\ writes'[d] = writes[d] /\ aim'[d] = aim[d]
             /\ doing[d] # "nothing" => passed'[d] = passed[d] \cup {"dashboard"}
    <3>1. {"dashboard"} \in SUBSET Kinds /\ Leave(c, {"dashboard"})
      BY <1>1, <1>4 DEF Kinds
    <3> QED BY <1>0, <3>1, LeaveTypes
  <2>2. SameButDate(row', row) /\ row'["next_reset_at"] = w["next_reset_at"]
    BY <1>2, <2>0 DEF SameButDate, Columns
  <2>3. ASSUME NEW d \in Clients, doing'[d] # "nothing"
        PROVE  /\ doing'[d] = doing[d] /\ writes'[d] = writes[d] /\ aim'[d] = aim[d]
               /\ passed'[d] = passed[d] \cup {"dashboard"}
    BY <2>1, <2>3
  <2>4. /\ intended' = intended /\ (crossed' = crossed \/ crossed' = crossed \cup {"dashboard"})
        /\ passed[c] # {} => "dashboard" \in crossed'
        /\ passed[c] = {} => crossed' = crossed
        /\ counted' = counted \/ counted' = {}
    BY <1>1, <1>4
  <2>5. TypeOK'
    <3>1. IsLimit(row)' /\ IsLimit(intended)'
      BY <1>0, <1>2, <2>4 DEF IsLimit, FitsALimit
    <3>2. crossed' \subseteq Kinds
      BY <1>0, <2>4 DEF TypeOK, Kinds
    <3>3. counted' \subseteq [id : Ids, start : Int, shown : Int]
      BY <1>0, <2>4 DEF TypeOK
    <3> QED BY <1>0, <2>1, <3>1, <3>2, <3>3 DEF TypeOK, IsLimit, FitsALimit
  <2>6. DistinctRecords'
    BY <2>1 DEF IInv, DistinctRecords
  <2>7. EditsInProgress'
    <3> SUFFICES ASSUME NEW d \in Clients, doing'[d] = "edit"
                 PROVE  /\ \A x \in DOMAIN writes'[d] : writes'[d][x] = aim'[d][x]
                        /\ passed'[d] \cap {"edit", "seed"} = {} =>
                             \A x \in Columns \ DOMAIN writes'[d] :
                               x # "next_reset_at" \/ passed'[d] = {} => row'[x] = aim'[d][x]
      BY DEF EditsInProgress
    <3>1. /\ doing[d] = "edit" /\ writes'[d] = writes[d] /\ aim'[d] = aim[d]
          /\ passed'[d] \cap {"edit", "seed"} = {} => passed[d] \cap {"edit", "seed"} = {}
          /\ passed'[d] # {}
      BY <2>3
    <3>2. \A x \in Columns : x # "next_reset_at" => row'[x] = row[x]
      BY <1>2, <2>0
    <3> QED BY <3>1, <3>2 DEF IInv, EditsInProgress
  <2>8. DashboardsInProgress'
    <3> SUFFICES ASSUME NEW d \in Clients, doing'[d] = "dashboard"
                 PROVE  DOMAIN writes'[d] \subseteq {"next_reset_at"} /\ passed'[d] # {}
      BY DEF DashboardsInProgress
    <3> QED BY <2>3 DEF IInv, DashboardsInProgress
  <2>11. SeedsInProgress'
    <3> SUFFICES ASSUME NEW d \in Clients, doing'[d] = "seed"
                 PROVE  /\ \A x \in DOMAIN writes'[d] : writes'[d][x] = Normalised(row')[x]
                        /\ "edit" \notin passed'[d] /\ crossed' \cap {"edit", "seed"} = {} =>
                             /\ LooksLegacy(intended')
                             /\ \A x \in Columns \ DOMAIN writes'[d] :
                                  \/ row'[x] = Normalised(row')[x]
                                  \/ x = "next_reset_at" /\ "dashboard" \in crossed'
      BY DEF SeedsInProgress
    <3>1. /\ doing[d] = "seed" /\ writes'[d] = writes[d]
          /\ "edit" \notin passed'[d] => "edit" \notin passed[d]
          /\ crossed' \cap {"edit", "seed"} = {} => crossed \cap {"edit", "seed"} = {}
          /\ "dashboard" \in crossed => "dashboard" \in crossed'
      BY <2>3, <2>4
    <3>2. Normalised(row') = Normalised(row) /\ Normalised(row)["next_reset_at"] = None
      BY NormalisedIsLimit
    <3>3. \A x \in Columns : x # "next_reset_at" => row'[x] = row[x]
      BY <1>2, <2>0
    <3>4. passed[c] = {} => row["next_reset_at"] # None
      BY <1>0, <1>4 DEF Recurs
    <3> QED BY <2>4, <3>1, <3>2, <3>3, <3>4 DEF IInv, SeedsInProgress
  <2>9. RowIsIntended'
    <3> SUFFICES ASSUME crossed' \cap {"edit", "seed"} = {} PROVE (Intact \/ Emptied)'
      BY DEF RowIsIntended
    <3>0. CASE Emptied
      <4>1. passed[c] # {}
        BY <1>0, <1>4, <3>0, EmptiedDoesNotRecur
      <4>2. \A x \in Columns \ {"next_reset_at"} : row'[x] = Normalised(intended)[x]
        BY <2>2, <3>0 DEF Emptied, IsEmptied, SameButDate
      <4> QED BY <2>4, <3>0, <4>1, <4>2 DEF Emptied, IsEmptied
    <3> SUFFICES ASSUME Intact PROVE Intact'
      BY <2>4, <3>0 DEF IInv, RowIsIntended
    <3>1. Intact
      OBVIOUS
    <3>2. SameButDate(row', intended')
      BY <2>2, <2>4, <3>1 DEF Intact, SameButDate
    <3>3. \/ "dashboard" \in crossed'
          \/ \E t \in 0 .. now : row'["next_reset_at"] = Advance(intended, t)
      <4> SUFFICES ASSUME "dashboard" \notin crossed'
                   PROVE  \E t \in 0 .. now : row'["next_reset_at"] = Advance(intended, t)
        OBVIOUS
      <4>1. passed[c] = {} /\ "dashboard" \notin crossed
        BY <2>4
      <4>2. PICK t \in 0 .. now : Recurs(row) /\ w["next_reset_at"] = Advance(row, t)
        BY <1>0, <1>4, <4>1
      <4>3. /\ SameButDate(row, intended)
            /\ \/ row.next_reset_at = intended.next_reset_at
               \/ \E s \in 0 .. now : row.next_reset_at = Advance(intended, s)
        BY <3>1, <4>1 DEF Intact
      <4>4. \E s \in 0 .. now : Advance(row, t) = Advance(intended, s)
        BY <1>0, <4>2, <4>3, DateIsMoved
      <4> QED BY <2>2, <4>2, <4>4
    <3> QED BY <2>1, <2>4, <3>2, <3>3 DEF Intact, SameButDate
  <2>10. CountedInPeriods'
    <3>1. CASE passed[c] = {}
      BY <1>1, <2>1, <3>1 DEF IInv, CountedInPeriods
    <3>2. CASE passed[c] # {}
      BY <2>4, <3>2 DEF CountedInPeriods
    <3> QED BY <3>1, <3>2
  <2> QED BY <2>5, <2>6, <2>7, <2>8, <2>9, <2>10, <2>11 DEF IInv
<1> QED BY <1>3, <1>4

LEMMA SeedStep ==
  ASSUME IInv, NEW c \in Clients, Seed(c)
  PROVE  IInv'
<1> DEFINE w == SeedWrites(row)
<1>0. TypeOK /\ IsLimit(row) /\ IsLimit(intended)
  BY DEF IInv, TypeOK
<1>1. /\ Begin(c, "seed", w, None) /\ LooksLegacy(row)
      /\ UNCHANGED <<row, records, passed, now, intended, crossed, counted, edits>>
  BY DEF Seed, Begin
<1>2. /\ DOMAIN w \subseteq Columns /\ FitsALimit(w)
      /\ \A d \in DOMAIN w : w[d] = Normalised(row)[d]
      /\ \A d \in Columns \ DOMAIN w : row[d] = Normalised(row)[d]
  BY <1>0, SeedWritesFit
<1> HIDE DEF w
<1>3. /\ doing' \in [Clients -> {"nothing"} \cup Kinds]
      /\ DOMAIN writes' = Clients /\ DOMAIN aim' = Clients
      /\ \A d \in Clients : /\ DOMAIN writes'[d] \subseteq Columns /\ FitsALimit(writes'[d])
                            /\ doing'[d] = "edit" => IsLimit(aim'[d])
      /\ doing'[c] = "seed" /\ writes'[c] = w /\ aim'[c] = None
      /\ \A d \in Clients \ {c} : doing'[d] = doing[d] /\ writes'[d] = writes[d] /\ aim'[d] = aim[d]
  <2>1. "seed" \in Kinds
    BY DEF Kinds
  <2> QED BY <1>0, <1>1, <1>2, <2>1, BeginTypes
<1>4. TypeOK'
  BY <1>0, <1>1, <1>3 DEF TypeOK, IsLimit, FitsALimit
<1>5. DistinctRecords'
  BY <1>1 DEF IInv, DistinctRecords
<1>6. EditsInProgress' /\ DashboardsInProgress'
  BY <1>1, <1>3 DEF IInv, EditsInProgress, DashboardsInProgress
<1>7. crossed \cap {"edit", "seed"} = {} => LooksLegacy(intended)
  BY <1>1 DEF IInv, RowIsIntended, Intact, Emptied, SameButDate, LooksLegacy, Columns
<1>8. SeedsInProgress'
  <2> SUFFICES ASSUME NEW d \in Clients, doing'[d] = "seed"
               PROVE  /\ \A x \in DOMAIN writes'[d] : writes'[d][x] = Normalised(row)[x]
                      /\ "edit" \notin passed[d] /\ crossed \cap {"edit", "seed"} = {} =>
                           /\ LooksLegacy(intended)
                           /\ \A x \in Columns \ DOMAIN writes'[d] :
                                \/ row[x] = Normalised(row)[x]
                                \/ x = "next_reset_at" /\ "dashboard" \in crossed
    BY <1>1 DEF SeedsInProgress
  <2>1. CASE d = c
    BY <1>2, <1>3, <1>7, <2>1
  <2>2. CASE d # c
    BY <1>3, <2>2 DEF IInv, SeedsInProgress
  <2> QED BY <2>1, <2>2
<1>9. RowIsIntended'
  BY <1>1 DEF IInv, RowIsIntended, Intact, Emptied, IsEmptied
<1>10. CountedInPeriods'
  BY <1>1 DEF IInv, CountedInPeriods
<1> QED BY <1>4, <1>5, <1>6, <1>8, <1>9, <1>10 DEF IInv

LEMMA CommitSeedStep ==
  ASSUME IInv, NEW c \in Clients, CommitSeed(c)
  PROVE  IInv'
<1> DEFINE w == writes[c]
           n == Normalised(row)
<1>0. /\ TypeOK /\ IsLimit(row) /\ IsLimit(intended) /\ doing[c] = "seed"
      /\ DOMAIN w \subseteq Columns /\ FitsALimit(w) /\ crossed \subseteq Kinds
      /\ \A x \in DOMAIN w : w[x] = n[x]
      /\ "edit" \notin passed[c] /\ crossed \cap {"edit", "seed"} = {} =>
           /\ LooksLegacy(intended)
           /\ \A x \in Columns \ DOMAIN w :
                row[x] = n[x] \/ (x = "next_reset_at" /\ "dashboard" \in crossed)
  BY DEF IInv, TypeOK, CommitSeed, SeedsInProgress
<1>1. /\ row' = Kept(row, w) /\ Leave(c, {"seed"}) /\ counted' = {} /\ intended' = intended
      /\ crossed' = IF "edit" \in passed[c] THEN crossed \cup {"seed"} ELSE crossed
  BY DEF CommitSeed
<1>2. /\ IsLimit(row')
      /\ \A x \in Columns : row'[x] = IF x \in DOMAIN w THEN w[x] ELSE row[x]
  BY <1>0, <1>1, KeptIsLimit
<1>3. /\ n["next_reset_at"] = None /\ Normalised(row') = n /\ Normalised(intended) = n
  BY NormalisedIsLimit
<1> HIDE DEF w, n
<1>4. /\ doing' \in [Clients -> {"nothing"} \cup Kinds]
      /\ DOMAIN writes' = Clients /\ DOMAIN aim' = Clients
      /\ passed' \in [Clients -> SUBSET Kinds]
      /\ \A d \in Clients : /\ DOMAIN writes'[d] \subseteq Columns /\ FitsALimit(writes'[d])
                            /\ doing'[d] = "edit" => IsLimit(aim'[d])
      /\ doing'[c] = "nothing" /\ UNCHANGED <<records, now, edits>>
      /\ \A d \in Clients \ {c} :
           /\ doing'[d] = doing[d] /\ writes'[d] = writes[d] /\ aim'[d] = aim[d]
           /\ doing[d] # "nothing" => passed'[d] = passed[d] \cup {"seed"}
  <2>1. {"seed"} \in SUBSET Kinds
    BY DEF Kinds
  <2> QED BY <1>0, <1>1, <2>1, LeaveTypes
<1>5. TypeOK'
  <2>1. IsLimit(row)' /\ IsLimit(intended)'
    BY <1>0, <1>1, <1>2 DEF IsLimit, FitsALimit
  <2>2. crossed' \subseteq Kinds
    BY <1>0, <1>1 DEF Kinds
  <2> QED BY <1>0, <1>1, <1>4, <2>1, <2>2 DEF TypeOK, IsLimit, FitsALimit
<1>6. DistinctRecords'
  BY <1>4 DEF IInv, DistinctRecords
<1>7. EditsInProgress' /\ DashboardsInProgress'
  <2>1. ASSUME NEW d \in Clients, doing'[d] # "nothing"
        PROVE  /\ doing'[d] = doing[d] /\ writes'[d] = writes[d] /\ aim'[d] = aim[d]
               /\ "seed" \in passed'[d]
    BY <1>4, <2>1
  <2>2. EditsInProgress'
    <3> SUFFICES ASSUME NEW d \in Clients, doing'[d] = "edit"
                 PROVE  /\ \A x \in DOMAIN writes'[d] : writes'[d][x] = aim'[d][x]
                        /\ passed'[d] \cap {"edit", "seed"} # {}
      BY DEF EditsInProgress
    <3> QED BY <2>1 DEF IInv, EditsInProgress
  <2>3. DashboardsInProgress'
    <3> SUFFICES ASSUME NEW d \in Clients, doing'[d] = "dashboard"
                 PROVE  DOMAIN writes'[d] \subseteq {"next_reset_at"} /\ passed'[d] # {}
      BY DEF DashboardsInProgress
    <3> QED BY <2>1 DEF IInv, DashboardsInProgress
  <2> QED BY <2>2, <2>3
<1>8. SeedsInProgress'
  <2> SUFFICES ASSUME NEW d \in Clients, doing'[d] = "seed"
               PROVE  /\ \A x \in DOMAIN writes'[d] : writes'[d][x] = n[x]
                      /\ "edit" \notin passed'[d] /\ crossed' \cap {"edit", "seed"} = {} =>
                           /\ LooksLegacy(intended')
                           /\ \A x \in Columns \ DOMAIN writes'[d] :
                                row'[x] = n[x] \/ (x = "next_reset_at" /\ "dashboard" \in crossed')
    BY <1>3 DEF SeedsInProgress
  <2>1. /\ doing[d] = "seed" /\ writes'[d] = writes[d]
        /\ "edit" \notin passed'[d] => "edit" \notin passed[d]
        /\ crossed' \cap {"edit", "seed"} = {} => crossed' = crossed
    BY <1>1, <1>4
  <2>2. \A x \in Columns : row'[x] = n[x] \/ row'[x] = row[x]
    BY <1>0, <1>2
  <2> QED BY <1>1, <2>1, <2>2 DEF IInv, SeedsInProgress, n
<1>9. RowIsIntended'
  <2> SUFFICES ASSUME crossed' \cap {"edit", "seed"} = {} PROVE Emptied'
    BY DEF RowIsIntended
  <2>1. "edit" \notin passed[c] /\ crossed' = crossed
    BY <1>1
  <2>2. \A x \in Columns : row'[x] = n[x] \/ (x = "next_reset_at" /\ "dashboard" \in crossed)
    BY <1>0, <1>2, <2>1
  <2>3. "next_reset_at" \in Columns
    BY DEF Columns
  <2>4. Normalised(intended') = n /\ LooksLegacy(intended')
    BY <1>0, <1>1, <1>3, <2>1
  <2> QED BY <1>3, <2>1, <2>2, <2>3, <2>4 DEF Emptied, IsEmptied
<1>10. CountedInPeriods'
  BY <1>1 DEF CountedInPeriods
<1> QED BY <1>5, <1>6, <1>7, <1>8, <1>9, <1>10 DEF IInv

LEMMA AddUsageStep ==
  ASSUME IInv, NEW id \in Ids, AddUsage(id)
  PROVE  IInv'
<1>0. TypeOK /\ now \in Int
  BY BoundsAssumption DEF IInv, TypeOK
<1>1. PICK at \in now - Skew .. now + Skew : records' = records \cup {[id |-> id, at |-> at]}
  BY DEF AddUsage
<1>2. /\ at \in Int /\ \A u \in records : u.id # id
      /\ UNCHANGED <<row, doing, writes, aim, passed, now, edits, intended, crossed, counted>>
  BY <1>0, BoundsAssumption DEF AddUsage, requests, history
<1>3. TypeOK'
  BY <1>0, <1>1, <1>2 DEF TypeOK, IsLimit, FitsALimit
<1>4. DistinctRecords'
  BY <1>1, <1>2 DEF IInv, DistinctRecords
<1>5. EditsInProgress' /\ DashboardsInProgress' /\ SeedsInProgress'
  BY <1>2 DEF IInv, EditsInProgress, DashboardsInProgress, SeedsInProgress
<1>6. RowIsIntended'
  BY <1>2 DEF IInv, RowIsIntended, Intact, Emptied, IsEmptied
<1>7. CountedInPeriods'
  BY <1>1, <1>2 DEF IInv, CountedInPeriods
<1> QED BY <1>3, <1>4, <1>5, <1>6, <1>7 DEF IInv

LEMMA RestartStep ==
  ASSUME IInv, Restart
  PROVE  IInv'
<1>0. TypeOK
  BY DEF IInv
<1>1. /\ doing' = [c \in Clients |-> "nothing"] /\ writes' = [c \in Clients |-> <<>>]
      /\ aim' = [c \in Clients |-> None] /\ passed' = [c \in Clients |-> {}]
      /\ IF LooksLegacy(row) THEN row' = Normalised(row) /\ counted' = {}
                             ELSE UNCHANGED <<row, counted>>
      /\ UNCHANGED <<records, now, edits, intended, crossed>>
  BY DEF Restart
<1>2. TypeOK'
  <2>1. IsLimit(row')
    BY <1>0, <1>1, NormalisedIsLimit DEF TypeOK
  <2>2. DOMAIN <<>> = {}
    OBVIOUS
  <2>3. counted' \subseteq [id : Ids, start : Int, shown : Int]
    BY <1>0, <1>1 DEF TypeOK
  <2> QED BY <1>0, <1>1, <2>1, <2>2, <2>3 DEF TypeOK, IsLimit, FitsALimit
<1>3. DistinctRecords'
  BY <1>1 DEF IInv, DistinctRecords
<1>4. EditsInProgress' /\ DashboardsInProgress' /\ SeedsInProgress'
  BY <1>1 DEF EditsInProgress, DashboardsInProgress, SeedsInProgress
<1>5. RowIsIntended'
  <2> SUFFICES ASSUME crossed \cap {"edit", "seed"} = {} PROVE (Intact \/ Emptied)'
    BY <1>1 DEF RowIsIntended
  <2>1. Intact \/ Emptied
    BY DEF IInv, RowIsIntended
  <2>2. CASE LooksLegacy(row)
    <3>1. LooksLegacy(intended)
      BY <2>1, <2>2 DEF Intact, Emptied, SameButDate, LooksLegacy, Columns
    <3>2. row' = Normalised(intended') /\ row'["next_reset_at"] = None /\ LooksLegacy(intended')
      BY <1>1, <2>2, <3>1, NormalisedIsLimit
    <3> QED BY <3>2 DEF Emptied, IsEmptied
  <2>3. CASE ~LooksLegacy(row)
    <3>1. row' = row
      BY <1>1, <2>3
    <3>2. Intact => Intact'
      BY <1>1, <3>1 DEF Intact
    <3>3. Emptied => Emptied'
      BY <1>1, <3>1 DEF Emptied, IsEmptied
    <3> QED BY <2>1, <3>2, <3>3
  <2> QED BY <2>2, <2>3
<1>6. CountedInPeriods'
  BY <1>1 DEF IInv, CountedInPeriods
<1> QED BY <1>2, <1>3, <1>4, <1>5, <1>6 DEF IInv

LEMMA TickStep ==
  ASSUME IInv, Tick
  PROVE  IInv'
<1>0. TypeOK /\ now \in Nat
  BY BoundsAssumption DEF IInv, TypeOK
<1>1. /\ now' = now + 1 /\ now < MaxTime
      /\ UNCHANGED <<row, records, doing, writes, aim, passed, edits, intended, crossed, counted>>
  BY DEF Tick, requests, history
<1>2. 0 .. now \subseteq 0 .. now'
  BY <1>0, <1>1
<1>3. TypeOK'
  <2>1. now' \in 0 .. MaxTime
    BY <1>0, <1>1, BoundsAssumption DEF TypeOK
  <2> QED BY <1>0, <1>1, <2>1 DEF TypeOK, IsLimit, FitsALimit
<1>4. DistinctRecords' /\ EditsInProgress' /\ SeedsInProgress'
  BY <1>1 DEF IInv, DistinctRecords, EditsInProgress, SeedsInProgress
<1>5. DashboardsInProgress'
  BY <1>1, <1>2 DEF IInv, DashboardsInProgress
<1>6. RowIsIntended'
  BY <1>1, <1>2 DEF IInv, RowIsIntended, Intact, Emptied, IsEmptied
<1>7. CountedInPeriods'
  BY <1>1, <1>2 DEF IInv, CountedInPeriods
<1> QED BY <1>3, <1>4, <1>5, <1>6, <1>7 DEF IInv

LEMMA StepHolds == IInv /\ [Next]_vars => IInv'
<1> SUFFICES ASSUME IInv, [Next]_vars PROVE IInv'
  OBVIOUS
<1>1. ASSUME NEW c \in Clients, Fail(c) PROVE IInv'
  <2>1. Leave(c, {}) /\ UNCHANGED <<row, intended, crossed, counted>>
    BY <1>1 DEF Fail, history
  <2> QED BY <2>1, LeaveStep
<1>2. CASE UNCHANGED vars
  BY <1>2 DEF vars, requests, history, IInv, TypeOK, IsLimit, FitsALimit, DistinctRecords,
              EditsInProgress, DashboardsInProgress, SeedsInProgress, RowIsIntended, Intact,
              Emptied, IsEmptied,
              CountedInPeriods
<1> QED BY <1>1, <1>2, DashboardStep, EditStep, CommitEditStep, CommitDashboardStep,
           SeedStep, CommitSeedStep,
           AddUsageStep, RestartStep, TickStep DEF Next

(* What is known of a limit, of the requests in progress on it and of what was
   counted, in every state. *)
THEOREM InvariantHolds == Spec => []IInv
<1>1. IInv /\ [Next]_vars => IInv'
  BY StepHolds
<1> QED BY <1>1, InitHolds, PTL DEF Spec

(* What an edit has set survives: no PUT and no clean-up takes any of it back
   unless one of the two had read the row before the other committed, only the
   date is mixed with that of a dashboard, and what is emptied has the values of
   an old default, whoever entered them. *)
THEOREM EditsAreKept == Spec => []EditsSurvive
<1>1. IInv => EditsSurvive
  BY DEF IInv, RowIsIntended, Intact, Emptied, SameButDate, EditsSurvive
<1> QED BY <1>1, InvariantHolds, PTL

(* Of two periods of the same limit that a dashboard has shown, the later
   starts after the earlier was shown, but for the days that a month lacks. *)
LEMMA PeriodsAreDisjoint ==
  ASSUME IInv, crossed = {}, NEW x \in counted, NEW y \in counted, NEW u \in records,
         x.id = u.id, y.id = u.id, x.start < y.start
  PROVE  u.at > x.shown - Overlap(intended)
<1> DEFINE end(z) == Advance(intended, z.shown)
           most == Overlap(intended)
<1>0. TypeOK /\ now \in Nat /\ u.at \in Int
  BY BoundsAssumption DEF IInv, TypeOK
<1>1. ASSUME NEW z \in counted
      PROVE  /\ z.shown \in Int /\ z.start \in Int /\ z.start = AddInterval(end(z), intended, -1)
             /\ end(z) \in Int /\ end(z) > z.shown
  <2>1. /\ z.shown \in 0 .. now /\ z.start = AddInterval(end(z), intended, -1)
        /\ Recurs(intended)
    BY DEF IInv, CountedInPeriods
  <2>2. Moving(intended) /\ z.shown \in Int
    BY <1>0, <2>1, LimitTypes DEF TypeOK
  <2>3. end(z) \in Int /\ end(z) > z.shown /\ z.start \in Int
    BY <2>1, <2>2, AdvanceLeadsPast
  <2> QED BY <2>1, <2>2, <2>3
<1>2. Moving(intended)
  BY <1>0, LimitTypes DEF IInv, CountedInPeriods, TypeOK
<1>3. u.at >= y.start
  BY DEF IInv, CountedInPeriods, DistinctRecords
<1>4. most \in Nat
  BY <1>2, LackingTyped DEF Moving, Overlap, Lacking
<1> HIDE DEF end, most
<1>5. end(x) # end(y)
  BY <1>1
<1>6. ASSUME NEW a \in counted, NEW b \in counted, a.shown <= b.shown, end(b) # end(a)
      PROVE  b.start \in end(a) - most .. b.shown /\ a.start < b.start
  BY <1>1, <1>2, <1>6, PeriodsFollow DEF end, most
<1>7. CASE x.shown <= y.shown
  <2>1. y.start >= end(x) - most
    BY <1>1, <1>4, <1>5, <1>6, <1>7
  <2> QED BY <1>0, <1>1, <1>3, <1>4, <2>1 DEF most
<1>8. CASE ~(x.shown <= y.shown)
  <2>1. y.start < x.start
    BY <1>1, <1>5, <1>6, <1>8
  <2> QED BY <1>1, <2>1
<1> QED BY <1>7, <1>8

(* A record is counted in one period only, however often the dashboard is
   opened around a reset, however far the clock has gone on between, and
   whichever of the dashboards writes the date it has moved; where a month lacks
   the day of the reset, two periods share no more than the days lacking. *)
THEOREM RecordsCountOnce == Spec => []RecordsAreCountedOnce
<1>1. IInv => RecordsAreCountedOnce
  BY PeriodsAreDisjoint DEF RecordsAreCountedOnce
<1> QED BY <1>1, InvariantHolds, PTL

(***************************************************************************)
(* The Claude card, ClaudeUsage: it shows one stored observation as a      *)
(* whole, for any number of writers and of overlapping loads, whatever is  *)
(* written between the two answers of a load.                              *)
(***************************************************************************)
CONSTANTS Writers, Extracted, Loads, Bad, MaxWrites, MaxFailures, MaxSteps
VARIABLES clock, file, pending, answers, written, failures, steps

Claude == INSTANCE ClaudeUsage WITH now <- clock, writes <- written

\* What a load is told, and what a card shows: a stored record, or why there is none.
Reply ==
  [source : {"none"},
   status : {"empty", "waiting", "failed", "not_observed", "invalid_cache"}]
    \cup [source : Claude!Sources, status : {"ok"}, record : stored]

CardInv ==
  /\ file \in [Claude!Sources -> stored \cup {None, Bad}]
  /\ \A w \in Writers : pending[w] # None => pending[w].source \in Claude!Sources
  /\ DOMAIN pending = Writers
  /\ answers \in [Loads -> {None} \cup [Claude!Sources -> Reply]]
  /\ card \in Reply

-----------------------------------------------------------------------------
LEMMA CardInit == Claude!Init => CardInv
BY DEF Claude!Init, CardInv, Reply, Claude!Unavailable

LEMMA ObserveStep ==
  ASSUME CardInv, NEW w \in Writers, Claude!Observe(w)
  PROVE  CardInv'
<1>1. PICK o \in Claude!Observations : pending' = [pending EXCEPT ![w] = o]
  BY DEF Claude!Observe
<1>2. o.source \in Claude!Sources
  BY DEF Claude!Observations, Claude!Observation, Claude!Sources
<1>3. UNCHANGED <<file, answers, card, stored>>
  BY DEF Claude!Observe
<1> QED BY <1>1, <1>2, <1>3 DEF CardInv, Reply

LEMMA StoreStep ==
  ASSUME CardInv, NEW w \in Writers, Claude!Store(w)
  PROVE  CardInv'
<1>1. pending[w].source \in Claude!Sources
  BY DEF CardInv, Claude!Store
<1>2. /\ stored' = stored \cup {pending[w].record} /\ UNCHANGED <<answers, card>>
      /\ file' = [file EXCEPT ![pending[w].source] = pending[w].record]
      /\ pending' = [pending EXCEPT ![w] = None]
  BY DEF Claude!Store
<1>3. file' \in [Claude!Sources -> stored' \cup {None, Bad}]
  BY <1>1, <1>2 DEF CardInv
<1>4. /\ DOMAIN pending' = Writers
      /\ \A v \in Writers : pending'[v] # None => pending'[v].source \in Claude!Sources
  BY <1>2 DEF CardInv
<1>5. Reply \subseteq Reply'
  BY <1>2 DEF Reply
<1>6. answers' \in [Loads -> {None} \cup [Claude!Sources -> Reply']] /\ card' \in Reply'
  BY <1>2, <1>5 DEF CardInv
<1> QED BY <1>3, <1>4, <1>6 DEF CardInv

LEMMA SnapshotIsReply ==
  ASSUME CardInv, NEW s \in Claude!Sources
  PROVE  Claude!Snapshot(s) \in Reply
<1>1. file[s] \in stored \cup {None, Bad}
  BY DEF CardInv
<1>2. \/ Claude!Snapshot(s) \in {Claude!Unavailable("not_observed"),
                                 Claude!Unavailable("invalid_cache")}
      \/ Claude!Snapshot(s) = Claude!Shown(s, file[s]) /\ file[s] \notin {None, Bad}
  BY <1>1 DEF Claude!Snapshot
<1> QED BY <1>1, <1>2 DEF Claude!Unavailable, Claude!Shown, Reply

\* A load hears something about one source.
LEMMA HearStep ==
  ASSUME CardInv, NEW l \in Loads, NEW s \in Claude!Sources, NEW a \in Reply, answers[l] # None,
         answers' = [answers EXCEPT ![l][s] = a], UNCHANGED <<file, pending, card, stored>>
  PROVE  CardInv'
<1>1. answers[l] \in [Claude!Sources -> Reply]
  BY DEF CardInv
<1>2. [answers[l] EXCEPT ![s] = a] \in [Claude!Sources -> Reply]
  BY <1>1
<1>3. answers' = [answers EXCEPT ![l] = [answers[l] EXCEPT ![s] = a]]
  BY DEF CardInv
<1>4. answers' \in [Loads -> {None} \cup [Claude!Sources -> Reply]]
  BY <1>2, <1>3 DEF CardInv
<1>5. Reply' = Reply
  BY DEF Reply
<1> QED BY <1>4, <1>5 DEF CardInv

LEMMA LoadSteps ==
  ASSUME CardInv, NEW l \in Loads,
         \/ Claude!Begin(l) \/ Claude!Render(l)
         \/ \E s \in Claude!Sources :
              Claude!Answer(l, s) \/ Claude!AnswerUnread(l, s) \/ Claude!Fail(l, s)
  PROVE  CardInv'
<1>0. UNCHANGED <<file, pending, stored>> /\ Reply' = Reply
  <2>1. UNCHANGED <<file, pending, stored>>
    BY DEF Claude!Begin, Claude!Render, Claude!Answer, Claude!AnswerUnread, Claude!Fail
  <2> QED BY <2>1 DEF Reply
<1>1. CASE Claude!Begin(l)
  <2>1. [s \in Claude!Sources |-> Claude!Waiting] \in [Claude!Sources -> Reply]
    BY DEF Claude!Waiting, Reply
  <2>2. answers' \in [Loads -> {None} \cup [Claude!Sources -> Reply]] /\ card' = card
    BY <1>1, <2>1 DEF Claude!Begin, CardInv
  <2> QED BY <1>0, <2>2 DEF CardInv
<1>2. ASSUME NEW s \in Claude!Sources, Claude!Answer(l, s) PROVE CardInv'
  <2>1. /\ answers[l] # None /\ answers' = [answers EXCEPT ![l][s] = Claude!Snapshot(s)]
        /\ card' = card
    BY <1>2 DEF Claude!Answer
  <2> QED BY <1>0, <2>1, SnapshotIsReply, HearStep
<1>3. ASSUME NEW s \in Claude!Sources, Claude!Fail(l, s) PROVE CardInv'
  <2>1. Claude!Failed \in Reply
    BY DEF Claude!Failed, Reply
  <2>2. /\ answers[l] # None /\ answers' = [answers EXCEPT ![l][s] = Claude!Failed]
        /\ card' = card
    BY <1>3 DEF Claude!Fail
  <2> QED BY <1>0, <2>1, <2>2, HearStep
<1>4. ASSUME NEW s \in Claude!Sources, Claude!AnswerUnread(l, s) PROVE CardInv'
  <2>1. Claude!Unavailable("invalid_cache") \in Reply
    BY DEF Claude!Unavailable, Reply
  <2>2. /\ answers[l] # None /\ card' = card
        /\ answers' = [answers EXCEPT ![l][s] = Claude!Unavailable("invalid_cache")]
    BY <1>4 DEF Claude!AnswerUnread
  <2> QED BY <1>0, <2>1, <2>2, HearStep
<1>5. CASE Claude!Render(l)
  <2> DEFINE auto == answers[l]["auto"]
             manual == answers[l]["manual"]
  <2>1. auto \in Reply /\ manual \in Reply
    BY <1>5 DEF Claude!Render, CardInv, Claude!Sources
  <2>2. Claude!Resolved(auto, manual) \in Reply
    <3>1. \/ Claude!Resolved(auto, manual) \in {auto, manual}
          \/ Claude!Resolved(auto, manual) \in {Claude!Unavailable("invalid_cache"),
                                                Claude!Unavailable("not_observed")}
      BY DEF Claude!Resolved
    <3>2. {Claude!Unavailable("invalid_cache"), Claude!Unavailable("not_observed")} \subseteq Reply
      BY DEF Claude!Unavailable, Reply
    <3> QED BY <2>1, <3>1, <3>2
  <2>3. Claude!Failed \in Reply
    BY DEF Claude!Failed, Reply
  <2>4. card' \in Reply
    BY <1>5, <2>2, <2>3 DEF Claude!Render
  <2>5. answers' \in [Loads -> {None} \cup [Claude!Sources -> Reply]]
    BY <1>5 DEF Claude!Render, CardInv
  <2> QED BY <1>0, <2>4, <2>5 DEF CardInv
<1> QED BY <1>1, <1>2, <1>3, <1>4, <1>5

LEMMA CardStep == CardInv /\ [Claude!Next]_(Claude!vars) => CardInv'
<1> SUFFICES ASSUME CardInv, [Claude!Next]_(Claude!vars) PROVE CardInv'
  OBVIOUS
<1>1. ASSUME NEW w \in Writers, Claude!GiveUp(w) PROVE CardInv'
  BY <1>1 DEF Claude!GiveUp, CardInv, Reply
<1>2. CASE Claude!Clock \/ UNCHANGED Claude!vars
  BY <1>2 DEF Claude!Clock, Claude!vars, CardInv, Reply
<1> QED BY <1>1, <1>2, ObserveStep, StoreStep, LoadSteps DEF Claude!Next

(* Every record that a load was told, or that the card shows, was stored. *)
THEOREM CardInvariantHolds == Claude!Spec => []CardInv
<1>1. CardInv /\ [Claude!Next]_(Claude!vars) => CardInv'
  BY CardStep
<1> QED BY <1>1, CardInit, PTL DEF Claude!Spec

(* The card never mixes two observations: what it shows of the status line or
   of a manual entry is one record, stored as a whole, whatever is written
   between the two GETs of a load. *)
THEOREM CardsAreWhole == Claude!Spec => []OneObservationIsShown
<1>1. CardInv => OneObservationIsShown
  BY DEF CardInv, Reply, Claude!Sources, OneObservationIsShown
<1> QED BY <1>1, CardInvariantHolds, PTL
=============================================================================
