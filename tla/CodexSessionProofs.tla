------------------------- MODULE CodexSessionProofs -------------------------
(***************************************************************************)
(* Proofs about CodexSession, for any timeouts, any answers and however    *)
(* many lines codex prints.                                                *)
(***************************************************************************)
EXTENDS CodexSession, SequenceTheorems, FiniteSetTheorems, TLAPS

Typed ==
  /\ phase \in {"idle", "initialize", "rateLimits", "close", "terminate", "kill", "done"}
  /\ now \in Nat /\ deadline \in Nat
  /\ child \in {"none", "running", "gone"}
  /\ printed \in Seq(Lines)
  /\ taken \in 0 .. Len(printed)

\* The latest instant at which each wait may end.
Latest ==
  [initialize |-> InitializeTimeout,
   rateLimits |-> InitializeTimeout + RateLimitsTimeout,
   close      |-> InitializeTimeout + RateLimitsTimeout + ShutdownTimeout,
   terminate  |-> InitializeTimeout + RateLimitsTimeout + 2 * ShutdownTimeout,
   kill       |-> InitializeTimeout + RateLimitsTimeout + 3 * ShutdownTimeout]

InTime ==
  /\ phase = "idle" => now = 0
  /\ phase \in DOMAIN Latest => now <= deadline /\ deadline <= Latest[phase]
  /\ phase = "done" => now <= Latest.kill

\* Nothing comes of a session that is not over.
NoEarlySuccess == phase \in {"idle", "initialize", "rateLimits"} => outcome.windows = {}

\* How far the shutdown has come.
Shutdown ==
  /\ phase = "idle" => child = "none"
  /\ phase = "close" => asked = {"close"}
  /\ phase = "terminate" => asked = {"close", "terminate"}
  /\ phase = "kill" => EverythingIsTried
  /\ NoProcessIsForgotten

\* Line i is the first answer to the first request, and it is a result.
Opens(i) ==
  /\ printed[i] = [id |-> 1, body |-> "result"]
  /\ \A k \in 1 .. i - 1 : printed[k].id # 1

Conversation ==
  /\ phase = "initialize" => \A k \in 1 .. taken : printed[k].id # 1
  /\ phase = "rateLimits" =>
       \E i \in 1 .. taken : Opens(i) /\ \A k \in i + 1 .. taken : printed[k].id # 2
  /\ phase = "idle" => taken = 0
  /\ TakesTheAwaitedAnswer

IInv == Typed /\ InTime /\ NoEarlySuccess /\ Shutdown /\ Conversation

-----------------------------------------------------------------------------
LEMMA FailureIsEmpty == \A e : Failure(e).windows = {}
BY DEF Failure

LEMMA InitHolds == Init => IInv
<1> SUFFICES ASSUME Init PROVE IInv
  OBVIOUS
<1>1. Typed /\ InTime
  BY EmptySeq, TimeoutAssumption DEF Init, Typed, InTime, Latest
<1>2. NoEarlySuccess /\ Shutdown /\ Conversation
  BY FailureIsEmpty
     DEF Init, NoEarlySuccess, Shutdown, NoProcessIsForgotten, Conversation, TakesTheAwaitedAnswer
<1> QED BY <1>1, <1>2 DEF IInv

\* The properties of what codex has printed do not change as it prints more.
LEMMA OutputStep ==
  ASSUME IInv, Output
  PROVE  IInv'
<1>1. PICK line \in Lines : printed' = Append(printed, line)
  BY DEF Output
<1>2. UNCHANGED <<phase, now, deadline, child, taken, eof, outcome, result, asked>>
  BY DEF Output
<1>3. /\ printed' \in Seq(Lines) /\ Len(printed') = Len(printed) + 1 /\ Len(printed) \in Nat
      /\ \A k \in 1 .. Len(printed) : printed'[k] = printed[k]
  BY <1>1, AppendProperties, LenProperties DEF IInv, Typed
<1>4. Typed'
  BY <1>2, <1>3 DEF IInv, Typed
<1>5. \A k \in 1 .. taken : k \in 1 .. Len(printed) /\ printed'[k] = printed[k]
  BY <1>3 DEF IInv, Typed
<1>6. taken \in Nat
  BY <1>3 DEF IInv, Typed
<1>7. \A i \in 1 .. taken : Opens(i) => Opens(i)'
  BY <1>5, <1>6 DEF Opens
<1>8. TakesTheAwaitedAnswer'
  BY <1>2, <1>5, <1>6 DEF IInv, Conversation, TakesTheAwaitedAnswer
<1>9. phase = "rateLimits" =>
        \E i \in 1 .. taken : Opens(i)' /\ \A k \in i + 1 .. taken : printed'[k].id # 2
  BY <1>5, <1>6, <1>7 DEF IInv, Conversation
<1>10. Conversation'
  BY <1>2, <1>5, <1>8, <1>9 DEF IInv, Conversation
<1> QED BY <1>2, <1>4, <1>10
        DEF IInv, InTime, NoEarlySuccess, Shutdown, EverythingIsTried, NoProcessIsForgotten

\* The session ends in the wait for `for', having taken n lines.
LEMMA EndStep ==
  ASSUME IInv, NEW fetched, SessionEnds(fetched), phase \in {"idle", "initialize", "rateLimits"},
         UNCHANGED <<now, stream>>, child' \in {"none", "running", "gone"},
         taken' \in taken .. Len(printed),
         fetched.windows = {} \/ (TakesTheAwaitedAnswer' /\ phase = "rateLimits")
  PROVE  IInv'
<1>1. /\ outcome' = fetched /\ phase' = "close" /\ deadline' = now + ShutdownTimeout
      /\ now' = now /\ printed' = printed /\ asked' = {"close"}
  BY DEF SessionEnds, Waits, stream
<1>2. /\ now \in Nat /\ {InitializeTimeout, RateLimitsTimeout, ShutdownTimeout} \subseteq Nat
      /\ Len(printed) \in Nat
  BY TimeoutAssumption, LenProperties DEF IInv, Typed
<1>3. Typed'
  BY <1>1, <1>2 DEF IInv, Typed
<1>4. now <= InitializeTimeout + RateLimitsTimeout
  BY <1>2 DEF IInv, Typed, InTime, Latest
<1>5. InTime'
  BY <1>1, <1>2, <1>4 DEF InTime, Latest
<1>6. NoEarlySuccess' /\ Shutdown'
  BY <1>1 DEF IInv, NoEarlySuccess, Shutdown, NoProcessIsForgotten
<1>7. Conversation'
  BY <1>1 DEF Conversation, TakesTheAwaitedAnswer
<1> QED BY <1>3, <1>5, <1>6, <1>7 DEF IInv

LEMMA FetchStep ==
  ASSUME IInv, Fetch
  PROVE  IInv'
<1>0. /\ phase = "idle" /\ now' = now /\ printed' = printed /\ taken' = taken /\ eof' = eof
      /\ now = 0 /\ taken = 0 /\ Len(printed) \in Nat
      /\ {InitializeTimeout, RateLimitsTimeout, ShutdownTimeout} \subseteq Nat
  BY TimeoutAssumption, LenProperties DEF Fetch, stream, IInv, Typed, InTime, Conversation
<1>1. ASSUME NEW e, result' = Failure(e), phase' = "done", UNCHANGED <<deadline, child, outcome, asked>>
      PROVE  IInv'
  <2>1. Typed' /\ InTime'
    BY <1>0, <1>1 DEF IInv, Typed, InTime, Latest
  <2>2. NoEarlySuccess' /\ Shutdown' /\ Conversation'
    BY <1>0, <1>1, FailureIsEmpty
       DEF IInv, NoEarlySuccess, Shutdown, NoProcessIsForgotten, Conversation, TakesTheAwaitedAnswer
  <2> QED BY <2>1, <2>2 DEF IInv
<1>2. CASE /\ child' = "running" /\ Waits("initialize", InitializeTimeout)
           /\ UNCHANGED <<outcome, result, asked>>
  <2>1. Typed' /\ InTime'
    BY <1>0, <1>2 DEF Waits, IInv, Typed, InTime, Latest
  <2>2. NoEarlySuccess' /\ Shutdown' /\ Conversation'
    BY <1>0, <1>2 DEF Waits, IInv, NoEarlySuccess, Shutdown, NoProcessIsForgotten, Conversation,
                      TakesTheAwaitedAnswer
  <2> QED BY <2>1, <2>2 DEF IInv
<1>3. CASE SendFails
  <2>1. UNCHANGED <<now, stream>> /\ taken' \in taken .. Len(printed)
    BY <1>0, <1>3 DEF stream
  <2> QED BY <1>0, <1>3, <2>1, FailureIsEmpty, EndStep DEF SendFails
<1> QED BY <1>1, <1>2, <1>3 DEF Fetch

LEMMA GiveUpStep ==
  ASSUME IInv, GiveUp
  PROVE  IInv'
<1>1. taken' \in taken .. Len(printed) /\ UNCHANGED <<now, stream>>
  BY LenProperties DEF GiveUp, IInv, Typed
<1>2. child' \in {"none", "running", "gone"} /\ phase \in {"initialize", "rateLimits"}
  BY DEF GiveUp, IInv, Typed
<1> QED BY <1>1, <1>2, FailureIsEmpty, EndStep DEF GiveUp

LEMMA ReceiveStep ==
  ASSUME IInv, Receive
  PROVE  IInv'
<1> DEFINE line == printed[taken + 1]
<1>0. /\ phase \in {"initialize", "rateLimits"} /\ taken' = taken + 1 /\ taken < Len(printed)
      /\ now <= deadline /\ UNCHANGED <<now, stream>>
  BY DEF Receive
<1>1. /\ taken \in Nat /\ Len(printed) \in Nat /\ now \in Nat /\ deadline \in Nat
      /\ {InitializeTimeout, RateLimitsTimeout, ShutdownTimeout} \subseteq Nat
  BY TimeoutAssumption, LenProperties DEF IInv, Typed
<1>2. line \in Lines
  BY <1>0, <1>1, ElementOfSeq DEF IInv, Typed
<1>3. taken' \in taken .. Len(printed) /\ printed' = printed /\ now' = now
  BY <1>0, <1>1 DEF stream
<1>4. child \in {"none", "running", "gone"}
  BY DEF IInv, Typed
<1>5. ASSUME NEW e, SessionEnds(Failure(e)), child' \in {child, "gone"}
      PROVE  IInv'
  BY <1>0, <1>3, <1>4, <1>5, FailureIsEmpty, EndStep
<1>6. CASE line.body # "scalar" /\ ~Matches(line) /\ Skip
  <2>1. /\ UNCHANGED <<phase, deadline, child, outcome, result, asked, printed, now>>
        /\ taken' = taken + 1
    BY <1>0, <1>3, <1>6 DEF Skip
  <2>2. Typed' /\ InTime' /\ NoEarlySuccess' /\ Shutdown'
    BY <1>0, <1>1, <2>1 DEF IInv, Typed, InTime, NoEarlySuccess, Shutdown, NoProcessIsForgotten
  <2>3. phase = "initialize" => \A k \in 1 .. taken + 1 : printed[k].id # 1
    BY <1>1, <1>6 DEF Matches, Awaited, IInv, Conversation
  <2>4. phase = "rateLimits" =>
          \E i \in 1 .. taken + 1 : Opens(i) /\ \A k \in i + 1 .. taken + 1 : printed[k].id # 2
    BY <1>1, <1>6 DEF Matches, Awaited, IInv, Conversation
  <2>5. TakesTheAwaitedAnswer'
    BY <1>0, <2>1 DEF IInv, NoEarlySuccess, TakesTheAwaitedAnswer
  <2>6. \A i : Opens(i)' = Opens(i)
    BY <2>1 DEF Opens
  <2>7. Conversation'
    BY <1>0, <2>1, <2>3, <2>4, <2>5, <2>6 DEF Conversation
  <2> QED BY <2>2, <2>7 DEF IInv
<1>7. CASE line.body # "scalar" /\ Matches(line) /\ Answered(line)
  <2>1. CASE phase = "initialize" /\ line.body = "error"
    BY <1>5, <1>7, <2>1 DEF Answered
  <2>2. CASE phase = "initialize" /\ line.body = "result"
    <3>1. CASE SendFails
      BY <1>5, <3>1 DEF SendFails
    <3>2. CASE Waits("rateLimits", RateLimitsTimeout) /\ UNCHANGED <<child, outcome, result, asked>>
      <4>1. /\ phase' = "rateLimits" /\ deadline' = now + RateLimitsTimeout
            /\ UNCHANGED <<child, outcome, result, asked>>
        BY <3>2 DEF Waits
      <4>2. now <= InitializeTimeout
        BY <1>1, <2>2 DEF IInv, InTime, Latest
      <4>3. Typed' /\ InTime' /\ NoEarlySuccess' /\ Shutdown'
        BY <1>0, <1>1, <1>3, <2>2, <4>1, <4>2
           DEF IInv, Typed, InTime, Latest, NoEarlySuccess, Shutdown, NoProcessIsForgotten
      <4>4. line = [id |-> 1, body |-> "result"]
        BY <1>2, <1>7, <2>2 DEF Matches, Awaited, Lines
      <4>5. Opens(taken + 1)
        BY <1>1, <2>2, <4>4 DEF Opens, IInv, Conversation
      <4>6. \A i : Opens(i)' = Opens(i)
        BY <1>3 DEF Opens
      <4>7. TakesTheAwaitedAnswer'
        BY <2>2, <4>1 DEF IInv, NoEarlySuccess, TakesTheAwaitedAnswer
      <4>8. \E i \in 1 .. taken + 1 : Opens(i) /\ \A k \in i + 1 .. taken + 1 : printed[k].id # 2
        <5>1. taken + 1 \in 1 .. taken + 1 /\ \A k \in taken + 1 + 1 .. taken + 1 : FALSE
          BY <1>1
        <5> QED BY <4>5, <5>1
      <4>9. Conversation'
        BY <1>0, <1>3, <4>1, <4>6, <4>7, <4>8 DEF Conversation
      <4> QED BY <4>3, <4>9 DEF IInv
    <3> QED BY <1>7, <2>2, <3>1, <3>2 DEF Answered
  <2>3. CASE phase = "rateLimits" /\ line.body = "error"
    BY <1>5, <1>7, <2>3 DEF Answered
  <2>4. CASE phase = "rateLimits" /\ line.body = "result"
    <3>1. PICK answer \in Answers : SessionEnds(Projected(answer)) /\ UNCHANGED child
      BY <1>7, <2>4 DEF Answered
    <3>2. line = [id |-> 2, body |-> "result"]
      BY <1>2, <1>7, <2>4 DEF Matches, Awaited, Lines
    <3>3. PICK i \in 1 .. taken : Opens(i) /\ \A k \in i + 1 .. taken : printed[k].id # 2
      BY <2>4 DEF IInv, Conversation
    <3>4. /\ i \in 1 .. taken + 1 /\ i < taken + 1
          /\ printed[i] = [id |-> 1, body |-> "result"]
          /\ \A k \in 1 .. i - 1 : printed[k].id # 1
          /\ \A k \in i + 1 .. (taken + 1) - 1 : printed[k].id # 2
      BY <1>1, <3>3 DEF Opens
    <3>5. TakesTheAwaitedAnswer'
      <4>1. taken' = taken + 1 /\ taken + 1 \in 1 .. taken + 1
        BY <1>0, <1>1
      <4> QED BY <1>3, <3>2, <3>4, <4>1 DEF TakesTheAwaitedAnswer
    <3> QED BY <1>0, <1>3, <1>4, <2>4, <3>1, <3>5, EndStep
  <2> QED BY <1>7, <2>1, <2>2, <2>3, <2>4 DEF Answered
<1>8. CASE line.body = "scalar" /\ SessionEnds(Failure("unknown_error")) /\ UNCHANGED child
  BY <1>5, <1>8
<1> QED BY <1>6, <1>7, <1>8 DEF Receive

LEMMA ShutdownSteps ==
  ASSUME IInv, Confirmed \/ Terminate \/ Kill \/ KillTimesOut
  PROVE  IInv'
<1>0. /\ now \in Nat /\ deadline \in Nat /\ UNCHANGED <<now, stream, child, taken, outcome>>
      /\ {InitializeTimeout, RateLimitsTimeout, ShutdownTimeout} \subseteq Nat
      /\ phase \in {"close", "terminate", "kill"}
  BY TimeoutAssumption DEF IInv, Typed, Confirmed, Terminate, Kill, KillTimesOut, Return
<1>1. ASSUME Return, child = "gone" \/ EverythingIsTried', child # "gone" => child' = child
      PROVE  IInv'
  <2>1. phase' = "done" /\ result' = Returned /\ UNCHANGED deadline
    BY <1>1 DEF Return
  <2>2. Typed' /\ InTime'
    BY <1>0, <2>1 DEF stream, IInv, Typed, InTime, Latest
  <2>3. NoEarlySuccess' /\ Shutdown' /\ Conversation'
    BY <1>0, <1>1, <2>1
       DEF stream, IInv, NoEarlySuccess, Shutdown, NoProcessIsForgotten, Returned, Conversation,
           TakesTheAwaitedAnswer
  <2> QED BY <2>2, <2>3 DEF IInv
<1>2. ASSUME phase' \in {"terminate", "kill"}, Waits(phase', ShutdownTimeout), UNCHANGED result,
             now = deadline, phase = "close" \/ (phase = "terminate" /\ phase' = "kill"),
             phase' = "terminate" => asked' = {"close", "terminate"},
             phase' = "kill" => EverythingIsTried'
      PROVE  IInv'
  <2>1. deadline' = now + ShutdownTimeout
    BY <1>2 DEF Waits
  <2>2. Typed'
    BY <1>0, <1>2, <2>1 DEF stream, IInv, Typed
  <2>3. InTime'
    BY <1>0, <1>2, <2>1 DEF IInv, InTime, Latest
  <2>4. NoEarlySuccess' /\ Shutdown' /\ Conversation'
    BY <1>0, <1>2 DEF stream, IInv, NoEarlySuccess, Shutdown, NoProcessIsForgotten, Conversation,
                      TakesTheAwaitedAnswer
  <2> QED BY <2>2, <2>3, <2>4 DEF IInv
<1>3. CASE Confirmed
  BY <1>1, <1>3 DEF Confirmed
<1>4. CASE Terminate
  <2>1. asked' = {"close", "terminate"} /\ phase' = "terminate"
    BY <1>4 DEF Terminate, Waits, IInv, Shutdown
  <2> QED BY <1>2, <1>4, <2>1 DEF Terminate
<1>5. CASE Kill
  <2>1. EverythingIsTried'
    <3>1. CASE phase = "close"
      BY <1>5, <3>1 DEF Kill, IInv, Shutdown, EverythingIsTried
    <3>2. CASE phase = "terminate"
      BY <1>5, <3>2 DEF Kill, IInv, Shutdown, EverythingIsTried
    <3> QED BY <1>5, <3>1, <3>2 DEF Kill
  <2>2. CASE Return
    BY <1>0, <1>1, <2>1, <2>2
  <2>3. CASE Waits("kill", ShutdownTimeout) /\ UNCHANGED <<now, stream, child, taken, outcome, result>>
    <3>1. phase' = "kill" /\ now = deadline /\ phase \in {"close", "terminate"}
      BY <1>5, <2>3 DEF Kill, Waits
    <3> QED BY <1>2, <2>1, <2>3, <3>1
  <2> QED BY <1>5, <2>2, <2>3 DEF Kill
<1>6. CASE KillTimesOut
  <2>1. EverythingIsTried'
    BY <1>6 DEF KillTimesOut, IInv, Shutdown, EverythingIsTried
  <2> QED BY <1>0, <1>1, <1>6, <2>1 DEF KillTimesOut
<1> QED BY <1>3, <1>4, <1>5, <1>6

LEMMA OtherSteps ==
  ASSUME IInv, ReaderEnds \/ ChildExits \/ Tick \/ UNCHANGED vars
  PROVE  IInv'
<1>1. UNCHANGED <<phase, deadline, printed, taken, outcome, result, asked>>
  BY DEF ReaderEnds, ChildExits, Tick, vars, stream
<1>2. /\ child' = child \/ (child = "running" /\ child' = "gone")
      /\ now' = now \/ Tick
  BY DEF ReaderEnds, ChildExits, Tick, vars
<1>3. Typed'
  BY <1>1, <1>2 DEF IInv, Typed, Tick
<1>4. InTime'
  BY <1>1, <1>2 DEF IInv, Typed, InTime, Latest, Tick
<1>5. NoEarlySuccess' /\ Conversation'
  BY <1>1, <1>2 DEF IInv, Typed, NoEarlySuccess, Conversation, TakesTheAwaitedAnswer, Opens
<1>6. Shutdown'
  BY <1>1, <1>2 DEF IInv, Shutdown, EverythingIsTried, NoProcessIsForgotten
<1> QED BY <1>3, <1>4, <1>5, <1>6 DEF IInv

LEMMA StepHolds == IInv /\ [Next]_vars => IInv'
<1> SUFFICES ASSUME IInv, [Next]_vars PROVE IInv'
  OBVIOUS
<1> QED
  BY FetchStep, ReceiveStep, GiveUpStep, ShutdownSteps, OutputStep, OtherSteps DEF Next

(* The invariant holds of every fetch. *)
THEOREM InvariantHolds == Spec => []IInv
<1>1. IInv /\ [Next]_vars => IInv'
  BY StepHolds
<1> QED BY <1>1, InitHolds, PTL DEF Spec

(* A success comes of the awaited answer, after whatever codex has printed. *)
THEOREM OnlyTheAwaitedAnswer == Spec => []TakesTheAwaitedAnswer
<1>1. IInv => TakesTheAwaitedAnswer
  BY DEF IInv, Conversation
<1> QED BY <1>1, InvariantHolds, PTL

(* The five timeouts bound a fetch, whatever codex prints and however often. *)
THEOREM FetchesEndInTime == Spec => []FetchTimeIsBounded
<1>1. IInv => FetchTimeIsBounded
  BY TimeoutAssumption DEF IInv, Typed, InTime, Latest, FetchTimeIsBounded
<1> QED BY <1>1, InvariantHolds, PTL

(* Whatever became of the session: codex has ended, or was asked to in three
   ways and the result says that it goes on. *)
THEOREM ProcessesAreSeenToTheEnd == Spec => []NoProcessIsForgotten
<1>1. IInv => NoProcessIsForgotten
  BY DEF IInv, Shutdown
<1> QED BY <1>1, InvariantHolds, PTL

-----------------------------------------------------------------------------
(* The payload.  What is projected from an answer is a record that the      *)
(* cache file takes: the two modules of the adapter and the cache share no  *)
(* code, and state their rules for missing, null and empty fields apart.    *)

LEMMA SeenIs == \A slot, w : /\ Seen(slot, w).slot = slot /\ Seen(slot, w).duration = w.duration
                             /\ Seen(slot, w).resets = w.resets
BY DEF Seen

LEMMA LegacyIsCacheable ==
  ASSUME NEW snapshot \in Snapshot
  PROVE  /\ CachedBucket(LegacyBucket(snapshot))
         /\ \A w \in Recognized(snapshot) : CachedTime(w.resets)
<1> DEFINE bucket == LegacyBucket(snapshot)
<1>1. /\ bucket.id = LegacyId(snapshot) /\ bucket.windows = Recognized(snapshot)
      /\ bucket.origin = IF LegacyId(snapshot) = "null" THEN "null" ELSE "snapshot_field"
      /\ bucket.name = IF snapshot.name = "string" THEN "string" ELSE "null"
  BY DEF LegacyBucket
<1>2. LegacyId(snapshot) # "empty"
  BY IdAssumption DEF LegacyId
<1>3. ASSUME NEW w \in Recognized(snapshot)
      PROVE  \E slot \in Slots : /\ LegacyAccepts(snapshot.window[slot])
                                 /\ w = Seen(slot, snapshot.window[slot])
  BY DEF Recognized
<1>4. \A w \in Recognized(snapshot) : w.slot \in Slots /\ w.duration # "bad" /\ CachedTime(w.resets)
  BY <1>3, SeenIs DEF LegacyAccepts, CachedTime
<1>5. \A v, w \in Recognized(snapshot) : v.slot = w.slot => v = w
  BY <1>3, SeenIs
<1> HIDE DEF bucket
<1> QED BY <1>1, <1>2, <1>4, <1>5 DEF CachedBucket, bucket

LEMMA CanonicalIsCacheable ==
  ASSUME NEW key \in Ids \cup {"empty"}, NEW snapshot \in Snapshot, EntryAccepted(key, snapshot)
  PROVE  CachedBucket(CanonicalBucket(key, snapshot))
<1> DEFINE bucket == CanonicalBucket(key, snapshot)
           accepted == {s \in Slots : snapshot.window[s].used # "absent"}
<1>1. /\ bucket.id = key /\ bucket.origin = "map_key" /\ bucket.name = snapshot.name
      /\ bucket.windows = {Seen(slot, snapshot.window[slot]) : slot \in accepted}
  BY DEF CanonicalBucket
<1>2. key \notin {"empty", "null"} /\ snapshot.name # "bad"
  BY IdAssumption DEF EntryAccepted
<1>3. \A slot \in accepted : snapshot.window[slot].duration # "bad" /\ snapshot.window[slot].resets \in {"time", "null"}
  BY DEF EntryAccepted, CanonicalAccepts
<1>4. ASSUME NEW w \in bucket.windows
      PROVE  \E slot \in accepted : w = Seen(slot, snapshot.window[slot])
  BY <1>1
<1>5. \A w \in bucket.windows :
        w.slot \in Slots /\ w.duration # "bad" /\ (w.resets = "null" \/ CachedTime(w.resets))
  BY <1>3, <1>4, SeenIs DEF CachedTime
<1>6. \A v, w \in bucket.windows : v.slot = w.slot => v = w
  BY <1>4, SeenIs
<1> HIDE DEF bucket
<1> QED BY <1>1, <1>2, <1>5, <1>6 DEF CachedBucket, bucket

\* The buckets of a map are as many as its keys.
LEMMA BucketsOfMap ==
  ASSUME NEW answer, IsFiniteSet(DOMAIN answer.byLimitId)
  PROVE  LET buckets == {CanonicalBucket(key, answer.byLimitId[key]) : key \in DOMAIN answer.byLimitId}
         IN  Cardinality({bucket.id : bucket \in buckets}) = Cardinality(buckets)
<1> DEFINE K == DOMAIN answer.byLimitId
           buckets == {CanonicalBucket(key, answer.byLimitId[key]) : key \in K}
           f == [key \in K |-> CanonicalBucket(key, answer.byLimitId[key])]
<1>1. \A key \in K : f[key].id = key
  BY DEF CanonicalBucket
<1>2. f \in [K -> buckets] /\ \A b \in buckets : \E key \in K : f[key] = b
  OBVIOUS
<1> HIDE DEF K, buckets, f
<1>3. {bucket.id : bucket \in buckets} = K
  BY <1>1, <1>2
<1>4. f \in Bijection(K, buckets)
  BY <1>1, <1>2 DEF Bijection, Injection, Surjection, IsInjective
<1>5. Cardinality(buckets) = Cardinality(K)
  BY <1>4, FS_Bijection DEF ExistsBijection, K
<1> QED BY <1>3, <1>5 DEF K, buckets

LEMMA ProjectedIsCacheable ==
  ASSUME NEW answer, IsAnswer(answer), Projected(answer).windows # {}
  PROVE  CacheAccepts(Projected(answer))
<1> DEFINE fetched == Projected(answer)
<1>1. /\ ~(/\ answer.shape = "object" /\ answer.rateLimits.shape = "object"
           /\ Ambiguous(Recognized(answer.rateLimits)))
      /\ ~Rejected(answer)
      /\ fetched = [error |-> "none", windows |-> Recognized(answer.rateLimits), buckets |-> SelectBuckets(answer)]
  BY FailureIsEmpty DEF Projected
<1>2. answer.shape = "object" /\ answer.rateLimits.shape = "object" /\ answer.rateLimits \in Snapshot
  BY <1>1 DEF Rejected, IsAnswer, Snapshot
<1>3. /\ fetched.windows = Recognized(answer.rateLimits) /\ fetched.buckets = SelectBuckets(answer)
      /\ fetched.windows # {} /\ ~Ambiguous(fetched.windows)
  BY <1>1, <1>2
<1>4. \A w \in fetched.windows : CachedTime(w.resets)
  BY <1>2, <1>3, LegacyIsCacheable
<1> SUFFICES CacheAccepts(fetched)
  OBVIOUS
<1> HIDE DEF fetched
<1>5. CASE DOMAIN answer.byLimitId = {}
  <2>1. fetched.buckets = {LegacyBucket(answer.rateLimits)}
    BY <1>3, <1>5 DEF SelectBuckets
  <2>2. {bucket.id : bucket \in fetched.buckets} = {LegacyBucket(answer.rateLimits).id}
    BY <2>1
  <2>3. /\ Cardinality(fetched.buckets) = 1
        /\ Cardinality({bucket.id : bucket \in fetched.buckets}) = 1
    BY <2>1, <2>2, FS_Singleton
  <2>4. CachedBucket(LegacyBucket(answer.rateLimits))
    BY <1>2, LegacyIsCacheable
  <2> QED BY <1>3, <1>4, <2>1, <2>3, <2>4 DEF CacheAccepts
<1>6. CASE DOMAIN answer.byLimitId # {}
  <2>1. fetched.buckets = {CanonicalBucket(key, answer.byLimitId[key]) : key \in DOMAIN answer.byLimitId}
    BY <1>3, <1>6 DEF SelectBuckets
  <2>2. \A key \in DOMAIN answer.byLimitId :
          /\ key \in Ids \cup {"empty"} /\ answer.byLimitId[key] \in Snapshot
          /\ EntryAccepted(key, answer.byLimitId[key])
    BY <1>1 DEF Rejected, IsAnswer
  <2>3. \A key \in DOMAIN answer.byLimitId : CachedBucket(CanonicalBucket(key, answer.byLimitId[key]))
    BY <2>2, CanonicalIsCacheable
  <2>4. \A key \in DOMAIN answer.byLimitId : CanonicalBucket(key, answer.byLimitId[key]).origin = "map_key"
    BY DEF CanonicalBucket
  <2>5. Cardinality({bucket.id : bucket \in fetched.buckets}) = Cardinality(fetched.buckets)
    BY <2>1, BucketsOfMap DEF IsAnswer
  <2>6. fetched.buckets # {}
    BY <1>6, <2>1
  <2>7. \A bucket \in fetched.buckets : CachedBucket(bucket) /\ bucket.origin = "map_key"
    BY <2>1, <2>3, <2>4
  <2> QED BY <1>3, <1>4, <2>5, <2>6, <2>7 DEF CacheAccepts
<1> QED BY <1>5, <1>6

\* The session's outcome, from the answer on, is what was projected.
Cacheable == /\ outcome.windows # {} => CacheAccepts(outcome)
             /\ result.windows # {} => CacheAccepts(result)

LEMMA CacheableStep == Cacheable /\ [Next]_vars => Cacheable'
<1> SUFFICES ASSUME Cacheable, [Next]_vars PROVE Cacheable'
  OBVIOUS
<1>1. ASSUME NEW fetched, SessionEnds(fetched),
             (\E e : fetched = Failure(e)) \/ (\E answer \in Answers : fetched = Projected(answer))
      PROVE  Cacheable'
  BY <1>1, FailureIsEmpty, ProjectedIsCacheable, AnswerAssumption DEF SessionEnds, Cacheable
<1>2. ASSUME UNCHANGED <<outcome, result>> PROVE Cacheable'
  BY <1>2 DEF Cacheable
<1>3. CASE Fetch
  BY <1>1, <1>2, <1>3, FailureIsEmpty DEF Fetch, SendFails, Cacheable
<1>4. CASE Receive
  BY <1>1, <1>2, <1>4 DEF Receive, Answered, SendFails, Skip, Waits
<1>5. CASE GiveUp
  BY <1>1, <1>5 DEF GiveUp
<1>6. ASSUME Return PROVE Cacheable'
  BY <1>6, FailureIsEmpty DEF Return, Returned, Cacheable
<1>7. CASE Terminate \/ Output \/ ReaderEnds \/ ChildExits \/ Tick \/ UNCHANGED vars
  BY <1>2, <1>7 DEF Terminate, Output, ReaderEnds, ChildExits, Tick, vars
<1>8. CASE Confirmed \/ Kill \/ KillTimesOut
  BY <1>2, <1>6, <1>8 DEF Confirmed, Kill, KillTimesOut
<1> QED BY <1>3, <1>4, <1>5, <1>7, <1>8 DEF Next

(* Every success is one that the cache file takes: select_buckets and the
   legacy view never build a record that validate_cache_record rejects. *)
THEOREM EverySuccessIsCacheable == Spec => []SuccessIsCacheable
<1>1. Init => Cacheable
  BY FailureIsEmpty DEF Init, Cacheable
<1>2. Cacheable => SuccessIsCacheable
  BY DEF Cacheable, SuccessIsCacheable
<1> QED BY <1>1, <1>2, CacheableStep, PTL DEF Spec
=============================================================================
