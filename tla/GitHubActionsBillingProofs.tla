--------------------- MODULE GitHubActionsBillingProofs ---------------------
(***************************************************************************)
(* Proof that the controller of GitHubActionsBilling implements            *)
(* RefreshGate, for any number of clients, any cooldown and whatever gh    *)
(* answers.  A thread between Enter and the end of its attempt, or one     *)
(* whose report could not be built, is the running attempt of the gate;    *)
(* everything but Enter, the ends of an attempt and a restart is a stutter.*)
(*                                                                         *)
(* And that the snapshot tells the attempt that ended last: all it reads   *)
(* is written in the locked section that ends an attempt.                  *)
(***************************************************************************)
EXTENDS GitHubActionsBilling, TLAPS

Call == [at : {"idle", "asked", "user", "usage", "failed", "fetched", "raised"},
         asked : Nat \cup {None}, plan : Plans \cup {None}, items : ItemLists \cup {<<>>},
         error : CallFailures \cup {None}]

Typed ==
  /\ clock \in Nat
  /\ refreshing \in BOOLEAN
  /\ lastAttempt \in Nat \cup {None}
  /\ thread \in [Clients -> Call]

\* Whoever has asked knows when.
AskedIsKnown == \A c \in Clients : thread[c].at # "idle" => thread[c].asked \in Nat

\* The flag is set by the only attempt there is.
FlagIsTheAttempt ==
  /\ \A c, d \in Busy : c = d
  /\ Busy # {} => refreshing

IInv == Typed /\ AskedIsKnown /\ FlagIsTheAttempt

-----------------------------------------------------------------------------
LEMMA IdleTyped == Idle \in Call /\ Idle.at = "idle"
BY DEF Idle, Call

LEMMA InitHolds == Init => IInv
<1> SUFFICES ASSUME Init PROVE IInv
  OBVIOUS
<1>1. Typed
  BY IdleTyped DEF Init, Typed
<1>2. \A c \in Clients : thread[c].at = "idle"
  BY IdleTyped DEF Init
<1>3. AskedIsKnown /\ FlagIsTheAttempt
  BY <1>2 DEF AskedIsKnown, FlagIsTheAttempt, Busy
<1> QED BY <1>1, <1>3 DEF IInv

LEMMA GateInit == Init => Gate!Init
BY IdleTyped DEF Init, Gate!Init, Running, Busy

\* Running is what the busy thread asked at, before and after a step.
LEMMA RunningIs ==
  ASSUME NEW c \in Clients, Busy = {c}
  PROVE  Running = thread[c].asked
<1>1. (CHOOSE d \in Busy : TRUE) = c
  OBVIOUS
<1> QED BY <1>1 DEF Running

LEMMA RunningIsNext ==
  ASSUME NEW c \in Clients, Busy' = {c}
  PROVE  Running' = thread'[c].asked
<1>1. (CHOOSE d \in Busy' : TRUE) = c
  OBVIOUS
<1> QED BY <1>1 DEF Running

\* One thread goes on to o.
LEMMA Moves ==
  ASSUME IInv, NEW c \in Clients, NEW o \in Call, Goes(c, o)
  PROVE  /\ thread' \in [Clients -> Call] /\ thread'[c] = o
         /\ \A d \in Clients \ {c} : thread'[d] = thread[d]
         /\ o.at \in {"idle", "asked"} => Busy' = Busy \ {c}
         /\ o.at \notin {"idle", "asked"} => Busy' = Busy \cup {c}
         /\ (o.at # "idle" => o.asked \in Nat) => AskedIsKnown'
<1>1. /\ thread' \in [Clients -> Call] /\ thread'[c] = o
      /\ \A d \in Clients \ {c} : thread'[d] = thread[d]
  BY DEF IInv, Typed, Goes
<1>2. /\ o.at \in {"idle", "asked"} => Busy' = Busy \ {c}
      /\ o.at \notin {"idle", "asked"} => Busy' = Busy \cup {c}
  BY <1>1 DEF Busy
<1>3. (o.at # "idle" => o.asked \in Nat) => AskedIsKnown'
  BY <1>1 DEF IInv, AskedIsKnown
<1> QED BY <1>1, <1>2, <1>3

\* A thread that is and stays outside an attempt.
LEMMA OutsideStep ==
  ASSUME IInv, NEW c \in Clients, NEW o \in Call, Goes(c, o), thread[c].at \in {"idle", "asked"},
         o.at \in {"idle", "asked"}, o.at # "idle" => o.asked \in Nat,
         UNCHANGED <<clock, held>>
  PROVE  IInv' /\ UNCHANGED <<Running, lastAttempt>>
<1>1. Busy' = Busy /\ \A d \in Busy : thread'[d] = thread[d]
  BY Moves DEF Busy
<1>2. Running' = Running
  <2>1. CASE Busy = {}
    BY <1>1, <2>1 DEF Running
  <2>2. CASE Busy # {}
    <3>1. PICK d \in Clients : Busy = {d}
      BY <2>2 DEF IInv, FlagIsTheAttempt, Busy
    <3> QED BY <1>1, <3>1, RunningIs, RunningIsNext
  <2> QED BY <2>1, <2>2
<1>3. Typed' /\ AskedIsKnown'
  BY Moves DEF IInv, Typed, held
<1>4. FlagIsTheAttempt'
  BY <1>1 DEF IInv, FlagIsTheAttempt, held
<1> QED BY <1>2, <1>3, <1>4 DEF IInv, held

\* A thread that goes on with the attempt it is at.
LEMMA InsideStep ==
  ASSUME IInv, NEW c \in Clients, NEW o \in Call, Goes(c, o), c \in Busy,
         o.at \notin {"idle", "asked"}, o.asked = thread[c].asked, UNCHANGED <<clock, held>>
  PROVE  IInv' /\ UNCHANGED <<Running, lastAttempt>>
<1>1. Busy = {c} /\ Busy' = {c} /\ thread'[c] = o
  BY Moves DEF IInv, FlagIsTheAttempt
<1>2. Running' = Running
  BY <1>1, RunningIs, RunningIsNext
<1>3. o.asked \in Nat
  BY DEF IInv, AskedIsKnown, Busy
<1>4. Typed' /\ AskedIsKnown'
  BY <1>3, Moves DEF IInv, Typed, held
<1>5. FlagIsTheAttempt'
  BY <1>1 DEF IInv, FlagIsTheAttempt, held
<1> QED BY <1>2, <1>4, <1>5 DEF IInv, held

LEMMA AskSteps ==
  ASSUME IInv, NEW c \in Clients, Ask(c) \/ TurnedAway(c)
  PROVE  IInv' /\ UNCHANGED <<Running, lastAttempt>>
<1>1. CASE Ask(c)
  <2> DEFINE o == [Idle EXCEPT !.at = "asked", !.asked = clock]
  <2>1. o \in Call /\ o.at = "asked" /\ o.asked \in Nat
    BY IdleTyped DEF IInv, Typed, Call, Idle
  <2>2. Goes(c, o) /\ thread[c].at = "idle" /\ UNCHANGED <<clock, held>>
    BY <1>1 DEF Ask, At
  <2> HIDE DEF o
  <2> QED BY <2>1, <2>2, OutsideStep
<1>2. CASE TurnedAway(c)
  <2>1. Goes(c, Idle) /\ thread[c].at = "asked" /\ UNCHANGED <<clock, held>>
    BY <1>2 DEF TurnedAway, At
  <2> QED BY <2>1, IdleTyped, OutsideStep
<1> QED BY <1>1, <1>2

LEMMA CallSteps ==
  ASSUME IInv, NEW c \in Clients, CallUser(c) \/ CallUsage(c) \/ BuildRaises(c)
  PROVE  IInv' /\ UNCHANGED <<Running, lastAttempt>>
<1>0. thread[c] \in Call /\ c \in Busy /\ UNCHANGED <<clock, held>> /\ thread[c].asked \in Nat
  BY DEF IInv, Typed, AskedIsKnown, CallUser, CallUsage, BuildRaises, At, Busy
<1>1. ASSUME NEW plan \in Plans, Goes(c, [thread[c] EXCEPT !.at = "usage", !.plan = plan])
      PROVE  IInv' /\ UNCHANGED <<Running, lastAttempt>>
  <2> DEFINE o == [thread[c] EXCEPT !.at = "usage", !.plan = plan]
  <2>1. o \in Call /\ o.at = "usage" /\ o.asked = thread[c].asked
    BY <1>0 DEF Call
  <2> HIDE DEF o
  <2>2. Goes(c, o)
    BY <1>1 DEF o
  <2> QED BY <1>0, <2>1, <2>2, InsideStep
<1>2. ASSUME NEW items \in ItemLists, Goes(c, [thread[c] EXCEPT !.at = "fetched", !.items = items])
      PROVE  IInv' /\ UNCHANGED <<Running, lastAttempt>>
  <2> DEFINE o == [thread[c] EXCEPT !.at = "fetched", !.items = items]
  <2>1. o \in Call /\ o.at = "fetched" /\ o.asked = thread[c].asked
    BY <1>0 DEF Call
  <2> HIDE DEF o
  <2>2. Goes(c, o)
    BY <1>2 DEF o
  <2> QED BY <1>0, <2>1, <2>2, InsideStep
<1>3. ASSUME NEW e \in CallFailures, Goes(c, [thread[c] EXCEPT !.at = "failed", !.error = e])
      PROVE  IInv' /\ UNCHANGED <<Running, lastAttempt>>
  <2> DEFINE o == [thread[c] EXCEPT !.at = "failed", !.error = e]
  <2>1. o \in Call /\ o.at = "failed" /\ o.asked = thread[c].asked
    BY <1>0 DEF Call
  <2> HIDE DEF o
  <2>2. Goes(c, o)
    BY <1>3 DEF o
  <2> QED BY <1>0, <2>1, <2>2, InsideStep
<1>4. CASE BuildRaises(c)
  <2> DEFINE o == [Idle EXCEPT !.at = "raised", !.asked = thread[c].asked]
  <2>1. o \in Call /\ o.at = "raised" /\ o.asked = thread[c].asked
    BY <1>0, IdleTyped DEF Call, Idle
  <2>2. Goes(c, o)
    BY <1>4 DEF BuildRaises
  <2> HIDE DEF o
  <2> QED BY <1>0, <2>1, <2>2, InsideStep
<1> QED BY <1>1, <1>2, <1>3, <1>4 DEF CallUser, CallUsage

LEMMA EnterStep ==
  ASSUME IInv, NEW c \in Clients, Enter(c)
  PROVE  IInv' /\ Gate!Begin
<1> DEFINE o == [thread[c] EXCEPT !.at = "user"]
<1>0. /\ thread[c] \in Call /\ thread[c].at = "asked" /\ ~refreshing /\ refreshing'
      /\ thread[c].asked \in Nat /\ Goes(c, o) /\ UNCHANGED <<clock, lastAttempt>>
      /\ lastAttempt \in Nat \cup {None} /\ refreshing' \in BOOLEAN
  BY DEF IInv, Typed, AskedIsKnown, Enter, At
<1>1. o \in Call /\ o.at = "user" /\ o.asked = thread[c].asked
  BY <1>0 DEF Call
<1>2. Busy = {}
  BY <1>0 DEF IInv, FlagIsTheAttempt
<1> HIDE DEF o
<1>3. Busy' = {c} /\ thread'[c] = o /\ AskedIsKnown' /\ thread' \in [Clients -> Call]
  BY <1>0, <1>1, <1>2, Moves
<1>4. Running = None /\ Running' = thread[c].asked
  BY <1>1, <1>2, <1>3, RunningIsNext DEF Running
<1>5. lastAttempt # None => thread[c].asked - lastAttempt >= Cooldown
  <2>1. lastAttempt # None => ~(thread[c].asked - lastAttempt < Cooldown)
    BY DEF Enter, Cools
  <2> QED BY <1>0, <2>1, BillingAssumption
<1>6. Gate!Begin
  BY <1>0, <1>4, <1>5, BillingAssumption DEF Gate!Begin
<1>7. Typed' /\ FlagIsTheAttempt'
  BY <1>0, <1>3 DEF IInv, Typed, FlagIsTheAttempt
<1> QED BY <1>3, <1>6, <1>7 DEF IInv

LEMMA EndStep ==
  ASSUME IInv, NEW c \in Clients, Raises(c) \/ Fails(c) \/ Succeeds(c)
  PROVE  IInv' /\ Gate!End
<1>0. /\ c \in Busy /\ Goes(c, Idle) /\ lastAttempt' = thread[c].asked /\ refreshing' = FALSE
      /\ clock' = clock /\ thread[c].asked \in Nat
  BY DEF IInv, AskedIsKnown, Raises, Fails, Succeeds, Ends, At, Busy
<1>1. Busy = {c} /\ Busy' = {} /\ AskedIsKnown' /\ thread' \in [Clients -> Call]
  BY <1>0, IdleTyped, Moves DEF IInv, FlagIsTheAttempt
<1>2. Running = thread[c].asked /\ Running' = None
  BY <1>1, RunningIs DEF Running
<1>3. Gate!End
  BY <1>0, <1>2, BillingAssumption DEF Gate!End
<1>4. Typed' /\ FlagIsTheAttempt'
  BY <1>0, <1>1 DEF IInv, Typed, FlagIsTheAttempt
<1> QED BY <1>1, <1>3, <1>4 DEF IInv

LEMMA RestartStep ==
  ASSUME IInv, Restart
  PROVE  IInv' /\ Gate!Forget
<1>1. \A c \in Clients : thread'[c] = Idle
  BY DEF Restart
<1>2. Busy' = {}
  BY <1>1, IdleTyped DEF Busy
<1>3. Running' = None
  BY <1>2 DEF Running
<1>4. Typed' /\ AskedIsKnown' /\ FlagIsTheAttempt'
  BY <1>1, <1>2, IdleTyped DEF Restart, IInv, Typed, AskedIsKnown, FlagIsTheAttempt
<1> QED BY <1>3, <1>4 DEF Restart, IInv, Gate!Forget

LEMMA QuietStep ==
  ASSUME IInv, Tick \/ UNCHANGED vars
  PROVE  IInv' /\ UNCHANGED <<Running, lastAttempt>>
<1>1. UNCHANGED <<thread, refreshing, lastAttempt>> /\ clock' \in Nat
  BY DEF IInv, Typed, Tick, vars, held
<1>2. Busy' = Busy
  BY <1>1 DEF Busy
<1>3. Running' = Running
  BY <1>1, <1>2 DEF Running
<1> QED BY <1>1, <1>2, <1>3 DEF IInv, Typed, AskedIsKnown, FlagIsTheAttempt

LEMMA Steps == IInv /\ [Next]_vars => IInv' /\ [Gate!Next]_<<Running, lastAttempt>>
<1> SUFFICES ASSUME IInv, [Next]_vars PROVE IInv' /\ [Gate!Next]_<<Running, lastAttempt>>
  OBVIOUS
<1>1. ASSUME NEW c \in Clients, \/ Ask(c) \/ TurnedAway(c) \/ CallUser(c) \/ CallUsage(c)
                                \/ BuildRaises(c)
      PROVE  IInv' /\ UNCHANGED <<Running, lastAttempt>>
  BY <1>1, AskSteps, CallSteps
<1>2. ASSUME NEW c \in Clients, Enter(c)
      PROVE  IInv' /\ Gate!Next
  BY <1>2, EnterStep DEF Gate!Next
<1>3. ASSUME NEW c \in Clients, Raises(c) \/ Fails(c) \/ Succeeds(c)
      PROVE  IInv' /\ Gate!Next
  BY <1>3, EndStep DEF Gate!Next
<1>4. CASE Restart
  BY <1>4, RestartStep DEF Gate!Next
<1>5. CASE Tick \/ UNCHANGED vars
  BY <1>5, QuietStep
<1> QED BY <1>1, <1>2, <1>3, <1>4, <1>5 DEF Next

(* One attempt at a time has the flag, and it knows when it was asked for. *)
THEOREM OneAttemptAtATime == Spec => []IInv
<1>1. IInv /\ [Next]_vars => IInv'
  BY Steps
<1> QED BY <1>1, InitHolds, PTL DEF Spec

(* The controller implements the gate: attempts are let in one at a time and
   a cooldown apart, whatever becomes of them. *)
THEOREM ControllerIsAGate == Spec => AttemptsPassTheGate
<1> QED BY GateInit, Steps, OneAttemptAtATime, PTL DEF Spec, AttemptsPassTheGate, Gate!Spec

-----------------------------------------------------------------------------
(* What the page is told.  The locked section that ends an attempt writes   *)
(* all that the snapshot reads, so it is what the last attempt has left.    *)

\* What a thread carries on to the end of its attempt.
Carried(c) ==
  /\ thread[c].at # "idle" => thread[c].asked \in 0 .. MaxTime
  /\ thread[c].at = "failed" => thread[c].error \in CallFailures
  /\ thread[c].at = "fetched" => thread[c].items \in ItemLists

\* What the attempt that ended last, and the last that brought a report, have left.
Left ==
  /\ ended \in Attempts \cup {None} /\ succeeded \in BOOLEAN
  /\ succeeded <=> ended # None /\ ended.error = None
  /\ succeeded => reported = ended
  /\ ended # None /\ ended.error # None => lastError = ended.error
  /\ reported = None => lastReport = None
  /\ reported # None =>
       /\ reported \in Attempts /\ reported.items \in ItemLists /\ ~Overflows(reported.items)
       /\ lastReport = Report(reported.plan, reported.items, reported.asked)

ToldInv == clock \in 0 .. MaxTime /\ (\A c \in Clients : Carried(c)) /\ Left

LEMMA CarriedStep ==
  ASSUME IInv, \A c \in Clients : Carried(c), clock \in 0 .. MaxTime, [Next]_vars
  PROVE  \A c \in Clients : Carried(c)'
<1>1. ASSUME NEW c \in Clients, NEW d \in Clients, thread'[d] \in {thread[d], Idle} PROVE Carried(d)'
  BY <1>1, IdleTyped DEF Carried
<1>2. ASSUME NEW c \in Clients, NEW o \in Call, Goes(c, o),
             o.at # "idle" => o.asked \in 0 .. MaxTime,
             o.at = "failed" => o.error \in CallFailures, o.at = "fetched" => o.items \in ItemLists
      PROVE  \A d \in Clients : Carried(d)'
  <2>1. thread'[c] = o /\ \A d \in Clients \ {c} : thread'[d] = thread[d]
    BY <1>2, Moves
  <2> QED BY <1>1, <1>2, <2>1 DEF Carried
<1>3. ASSUME NEW c \in Clients, Ask(c) PROVE \A d \in Clients : Carried(d)'
  <2> DEFINE o == [Idle EXCEPT !.at = "asked", !.asked = clock]
  <2>1. o \in Call /\ o.at = "asked" /\ o.asked = clock
    BY IdleTyped DEF IInv, Typed, Call, Idle
  <2>2. Goes(c, o)
    BY <1>3 DEF Ask
  <2> HIDE DEF o
  <2> QED BY <1>2, <2>1, <2>2
<1>4. ASSUME NEW c \in Clients, Enter(c) \/ CallUser(c) \/ CallUsage(c) PROVE \A d \in Clients : Carried(d)'
  <2>1. thread[c] \in Call /\ thread[c].asked \in 0 .. MaxTime
    BY <1>4 DEF IInv, Typed, Enter, CallUser, CallUsage, At, Carried
  <2>2. ASSUME Goes(c, [thread[c] EXCEPT !.at = "user"])
        PROVE  \A d \in Clients : Carried(d)'
    <3> DEFINE o == [thread[c] EXCEPT !.at = "user"]
    <3>1. o \in Call /\ o.asked = thread[c].asked /\ o.at = "user"
      BY <2>1 DEF Call
    <3> HIDE DEF o
    <3>2. Goes(c, o)
      BY <2>2 DEF o
    <3> QED BY <1>2, <2>1, <3>1, <3>2
  <2>3. ASSUME NEW plan \in Plans, Goes(c, [thread[c] EXCEPT !.at = "usage", !.plan = plan])
        PROVE  \A d \in Clients : Carried(d)'
    <3> DEFINE o == [thread[c] EXCEPT !.at = "usage", !.plan = plan]
    <3>1. o \in Call /\ o.asked = thread[c].asked /\ o.at = "usage"
      BY <2>1 DEF Call
    <3> HIDE DEF o
    <3>2. Goes(c, o)
      BY <2>3 DEF o
    <3> QED BY <1>2, <2>1, <3>1, <3>2
  <2>4. ASSUME NEW items \in ItemLists, Goes(c, [thread[c] EXCEPT !.at = "fetched", !.items = items])
        PROVE  \A d \in Clients : Carried(d)'
    <3> DEFINE o == [thread[c] EXCEPT !.at = "fetched", !.items = items]
    <3>1. o \in Call /\ o.asked = thread[c].asked /\ o.at = "fetched" /\ o.items = items
      BY <2>1 DEF Call
    <3> HIDE DEF o
    <3>2. Goes(c, o)
      BY <2>4 DEF o
    <3> QED BY <1>2, <2>1, <3>1, <3>2
  <2>5. ASSUME NEW e \in CallFailures, Goes(c, [thread[c] EXCEPT !.at = "failed", !.error = e])
        PROVE  \A d \in Clients : Carried(d)'
    <3> DEFINE o == [thread[c] EXCEPT !.at = "failed", !.error = e]
    <3>1. o \in Call /\ o.asked = thread[c].asked /\ o.at = "failed" /\ o.error = e
      BY <2>1 DEF Call
    <3> HIDE DEF o
    <3>2. Goes(c, o)
      BY <2>5 DEF o
    <3> QED BY <1>2, <2>1, <3>1, <3>2
  <2> QED BY <1>4, <2>2, <2>3, <2>4, <2>5 DEF Enter, CallUser, CallUsage
<1>5. ASSUME NEW c \in Clients, BuildRaises(c) PROVE \A d \in Clients : Carried(d)'
  <2> DEFINE o == [Idle EXCEPT !.at = "raised", !.asked = thread[c].asked]
  <2>1. thread[c] \in Call /\ thread[c].asked \in 0 .. MaxTime /\ Goes(c, o)
    BY <1>5 DEF IInv, Typed, BuildRaises, At, Carried
  <2>2. o \in Call /\ o.at = "raised" /\ o.asked = thread[c].asked
    BY <2>1, IdleTyped DEF Call, Idle
  <2> HIDE DEF o
  <2> QED BY <1>2, <2>1, <2>2
<1>6. ASSUME NEW c \in Clients, TurnedAway(c) \/ Raises(c) \/ Fails(c) \/ Succeeds(c)
      PROVE  \A d \in Clients : Carried(d)'
  <2>1. Goes(c, Idle)
    BY <1>6 DEF TurnedAway, Raises, Fails, Succeeds, Ends
  <2> QED BY <1>2, <2>1, IdleTyped
<1>7. ASSUME Restart \/ Tick \/ UNCHANGED vars PROVE \A d \in Clients : Carried(d)'
  <2>1. \A d \in Clients : thread'[d] \in {thread[d], Idle}
    BY <1>7 DEF Restart, Tick, vars
  <2> QED BY <1>1, <2>1
<1> QED BY <1>3, <1>4, <1>5, <1>6, <1>7 DEF Next

\* Only the end of an attempt and a restart write what the snapshot reads.
LEMMA LeftStep ==
  ASSUME IInv, ToldInv, [Next]_vars
  PROVE  Left'
<1>1. ASSUME UNCHANGED <<history, succeeded, lastReport, lastError>> PROVE Left'
  BY <1>1 DEF ToldInv, Left, history
<1>2. ASSUME NEW c \in Clients, NEW e \in CallFailures \cup {None}, Ends(c, e), thread[c].at # "idle"
      PROVE  /\ ended' \in Attempts /\ ended' # None /\ ended'.error = e
             /\ ended'.plan = thread[c].plan /\ ended'.items = thread[c].items
             /\ ended'.asked = thread[c].asked
             /\ reported' = IF e = None THEN ended' ELSE reported
  <2>1. thread[c] \in Call /\ thread[c].asked \in 0 .. MaxTime
    BY <1>2 DEF IInv, Typed, ToldInv, Carried
  <2>2. ended' \in Attempts
    BY <1>2, <2>1 DEF Ends, Attempts, Call
  <2> QED BY <1>2, <2>2, NoneAssumption DEF Ends
<1>3. ASSUME NEW c \in Clients, Raises(c) \/ Fails(c) PROVE Left'
  <2>1. PICK e \in CallFailures : Ends(c, e) /\ lastError' = e
    BY <1>3 DEF Raises, Fails, At, ToldInv, Carried, CallFailures
  <2>2. thread[c].at # "idle" /\ succeeded' = FALSE /\ lastReport' = lastReport
    BY <1>3 DEF Raises, Fails, At
  <2>3. e # None
    BY NoneAssumption
  <2> QED BY <1>2, <2>1, <2>2, <2>3 DEF ToldInv, Left
<1>4. ASSUME NEW c \in Clients, Succeeds(c) PROVE Left'
  <2>1. /\ Ends(c, None) /\ thread[c].at # "idle" /\ succeeded' = TRUE
        /\ thread[c].items \in ItemLists /\ ~Overflows(thread[c].items)
        /\ lastReport' = Report(thread[c].plan, thread[c].items, thread[c].asked)
    BY <1>4 DEF Succeeds, At, ToldInv, Carried
  <2> QED BY <1>2, <2>1 DEF Left
<1>5. CASE Restart
  BY <1>5 DEF Restart, Left
<1> QED BY <1>1, <1>3, <1>4, <1>5
       DEF Next, Ask, TurnedAway, Enter, CallUser, CallUsage, BuildRaises, Tick, vars, held

LEMMA ToldStep == IInv /\ ToldInv /\ [Next]_vars => ToldInv'
<1> SUFFICES ASSUME IInv, ToldInv, [Next]_vars PROVE ToldInv'
  OBVIOUS
<1>1. \A c \in Clients :
        (\/ Ask(c) \/ TurnedAway(c) \/ Enter(c) \/ CallUser(c) \/ CallUsage(c)
         \/ Raises(c) \/ Fails(c) \/ Succeeds(c) \/ BuildRaises(c)) => clock' = clock
  BY DEF Ask, TurnedAway, Enter, CallUser, CallUsage, Raises, Fails, Succeeds, Ends, BuildRaises
<1>2. Restart \/ UNCHANGED vars => clock' = clock
  BY DEF Restart, vars
<1>3. clock \in 0 .. MaxTime /\ MaxTime \in Nat
  BY BillingAssumption DEF ToldInv
<1>4. Tick => clock' \in 0 .. MaxTime
  BY <1>3 DEF Tick
<1>5. clock' \in 0 .. MaxTime
  BY <1>1, <1>2, <1>3, <1>4 DEF Next
<1> QED BY <1>5, CarriedStep, LeftStep DEF ToldInv

LEMMA ToldInit == Init => ToldInv
<1> SUFFICES ASSUME Init PROVE ToldInv
  OBVIOUS
<1>1. clock \in 0 .. MaxTime
  BY BillingAssumption DEF Init
<1> QED BY <1>1, IdleTyped DEF Init, ToldInv, Carried, Left

\* The discounted minutes of a report are those of the standard Actions minutes.
LEMMA StandardMinutes ==
  ASSUME NEW items \in ItemLists, ~Overflows(items)
  PROVE  Discounted(items) =
           AddedUp([i \in DOMAIN items |->
             IF /\ items[i].sku = "standard" /\ items[i].product = "actions"
                /\ items[i].unit = "minutes" /\ items[i].discount # Bad
             THEN items[i].discount ELSE 0])
<1> SUFFICES ASSUME NEW i \in DOMAIN items
             PROVE  (IF i \in Standard(items) THEN Quantity(items[i].discount) ELSE 0)
                    = IF /\ items[i].sku = "standard" /\ items[i].product = "actions"
                         /\ items[i].unit = "minutes" /\ items[i].discount # Bad
                      THEN items[i].discount ELSE 0
  BY DEF Discounted
<1>1. items[i].discount \in Nat \cup {Bad, Huge}
  BY ItemAssumption
<1>2. CASE i \in Standard(items)
  <2>1. /\ items[i].product = "actions" /\ items[i].unit = "minutes" /\ items[i].sku = "standard"
        /\ items[i].discount # Huge
    BY <1>2 DEF Standard, Counts, Overflows
  <2>2. Quantity(items[i].discount) = IF items[i].discount # Bad THEN items[i].discount ELSE 0
    BY <1>1, <2>1 DEF Quantity, Bad, Huge
  <2> QED BY <1>2, <2>1, <2>2
<1>3. CASE i \notin Standard(items)
  BY <1>3 DEF Standard, Counts
<1> QED BY <1>2, <1>3

(* The page is shown what became of the attempt that ended last: refresh
   takes the lock once to record its end, and snapshot reads nothing else.  A
   failure leaves the report of the last success, and is shown with its own
   error. *)
THEOREM PageShowsTheLastAttempt == Spec => []SnapshotTellsTheLastAttempt
<1> DEFINE I == IInv /\ ToldInv
<1>1. Init => I
  BY InitHolds, ToldInit
<1>2. I /\ [Next]_vars => I'
  BY Steps, ToldStep
<1>3. I => SnapshotTellsTheLastAttempt
  <2> SUFFICES ASSUME Left PROVE SnapshotTellsTheLastAttempt
    BY DEF ToldInv
  <2>1. reported # None => lastReport # None /\ Tells(lastReport, reported)
    <3> SUFFICES ASSUME reported # None PROVE lastReport # None /\ Tells(lastReport, reported)
      OBVIOUS
    <3>1. lastReport = Report(reported.plan, reported.items, reported.asked)
      BY DEF Left
    <3>2. lastReport # None
      BY <3>1, NoneAssumption DEF Left, Attempts
    <3>3. /\ lastReport.period = reported.asked \div Month
          /\ lastReport.discounted = Discounted(reported.items)
      BY <3>1 DEF Report
    <3> QED BY <3>2, <3>3, StandardMinutes DEF Left, Tells
  <2>2. succeeded => ended # None /\ reported = ended
    BY DEF Left
  <2> QED BY <2>1, <2>2 DEF Left, Snapshot, SnapshotTellsTheLastAttempt
<1> HIDE DEF I
<1> QED BY <1>1, <1>2, <1>3, PTL DEF Spec
=============================================================================
