------------------------- MODULE DesktopShellProofs -------------------------
(***************************************************************************)
(* Proofs about DesktopShell, for any number of shells and any deadline.   *)
(*                                                                         *)
(* A starter can only abort the session of a backend that it has not seen: *)
(* whoever has seen the listener has not started a backend (SeenListens),  *)
(* and a sampled session belongs to the listener (SamplersListen).         *)
(***************************************************************************)
EXTENDS DesktopShell, TLAPS

(* Who has been seen still listens, and whoever has seen it has not started
   a backend; the console launcher looks at nothing that lasts. *)
SeenListens ==
  /\ \A b \in Backends : seen[b] # None => seen[b] = port /\ backend[b] = "none"
  /\ seen[Console] = None

SamplersListen == session = "sampled" => port \in Backends

(* A shell that is not running has no backend. *)
OffIsEmpty == \A s \in Shells : at[s] = "off" => backend[s] = "none"

IInv == TypeOK /\ SeenListens /\ SamplersListen /\ OffIsEmpty

-----------------------------------------------------------------------------
LEMMA InitHolds == Init => IInv
BY NameAssumption, PollAssumption
   DEF Init, IInv, TypeOK, SeenListens, SamplersListen, OffIsEmpty, Backends

(* What the end of a backend's thread leaves behind, before the shell's own
   variables are looked at. *)
LEMMA GoneKeeps ==
  ASSUME IInv, NEW b \in Backends, Gone(b)
  PROVE  /\ backend' \in [Backends -> {"none", "startup", "bind", "serving"}]
         /\ exit' \in [Backends -> BOOLEAN]
         /\ port' \in Backends \cup {Foreign, None}
         /\ session' \in {"none", "sampled", "left"}
         /\ seen' \in [Backends -> Backends \cup {None}]
         /\ SeenListens' /\ SamplersListen'
         /\ backend'[b] = "none"
         /\ \A c \in Backends : backend[c] = "none" => backend'[c] = "none"
<1> USE NameAssumption DEF IInv, Gone, TypeOK
<1>1. /\ backend' \in [Backends -> {"none", "startup", "bind", "serving"}]
      /\ exit' \in [Backends -> BOOLEAN]
      /\ port' \in Backends \cup {Foreign, None}
      /\ session' \in {"none", "sampled", "left"}
      /\ seen' \in [Backends -> Backends \cup {None}]
  OBVIOUS
<1>2. /\ backend'[b] = "none"
      /\ \A c \in Backends : backend[c] = "none" => backend'[c] = "none"
  OBVIOUS
<1>3. SeenListens'
  <2>1. ASSUME NEW c \in Backends, seen'[c] # None
        PROVE  seen'[c] = port' /\ backend'[c] = "none"
    <3>1. seen'[c] = seen[c] /\ seen[c] # b
      BY <2>1
    <3>2. seen[c] = port /\ backend[c] = "none"
      BY <2>1, <3>1 DEF SeenListens
    <3> QED BY <3>1, <3>2, <1>2
  <2>2. seen'[Console] = None
    BY DEF SeenListens, Backends
  <2> QED BY <2>1, <2>2 DEF SeenListens
<1>4. SamplersListen'
  BY DEF SamplersListen
<1> QED BY <1>1, <1>2, <1>3, <1>4

(* A thread that ends by itself: no shell takes a step. *)
LEMMA GoneAlone ==
  ASSUME IInv, NEW b \in Backends, Gone(b), UNCHANGED shell
  PROVE  IInv'
<1>1. TypeOK'
  BY GoneKeeps DEF IInv, TypeOK, shell
<1>2. OffIsEmpty'
  BY GoneKeeps DEF IInv, OffIsEmpty, Backends, shell
<1> QED BY GoneKeeps, <1>1, <1>2 DEF IInv

LEMMA BackendSteps ==
  ASSUME IInv, NEW b \in Backends,
         Serve(b) \/ ServerDies(b) \/ StartSession(b) \/ StopSession(b)
  PROVE  IInv'
<1> USE NameAssumption
<1>1. ASSUME UNCHANGED shell, backend[b] = "startup",
             backend' = [backend EXCEPT ![b] = "bind"], session' = "none",
             seen' = [seen EXCEPT ![b] = None], UNCHANGED <<exit, port>>
      PROVE  IInv'
  <2>1. TypeOK'
    BY <1>1 DEF IInv, TypeOK, shell
  <2>2. SeenListens'
    BY <1>1 DEF IInv, TypeOK, SeenListens, Backends
  <2>3. SamplersListen' /\ OffIsEmpty'
    BY <1>1 DEF IInv, TypeOK, SamplersListen, OffIsEmpty, Backends, shell
  <2> QED BY <2>1, <2>2, <2>3 DEF IInv
<1>2. CASE Lifespan(b)
  BY <1>1, <1>2, GoneAlone DEF Lifespan
<1>3. ASSUME UNCHANGED shell, backend[b] = "bind", port = None,
             backend' = [backend EXCEPT ![b] = "serving"], port' = b,
             UNCHANGED <<exit, session, seen>>
      PROVE  IInv'
  <2>1. TypeOK'
    BY <1>3 DEF IInv, TypeOK, shell
  <2>2. SeenListens'
    BY <1>3 DEF IInv, TypeOK, SeenListens, Backends
  <2>3. SamplersListen' /\ OffIsEmpty'
    BY <1>3 DEF IInv, TypeOK, SamplersListen, OffIsEmpty, Backends, shell
  <2> QED BY <2>1, <2>2, <2>3 DEF IInv
<1>4. CASE Bind(b)
  BY <1>3, <1>4, GoneAlone DEF Bind
<1>5. CASE ServerStops(b) \/ ServerDies(b)
  BY <1>5, GoneAlone DEF ServerStops, ServerDies
<1>6. CASE StartSession(b) \/ StopSession(b)
  BY <1>6 DEF StartSession, StopSession, IInv, TypeOK, SeenListens, SamplersListen,
              OffIsEmpty, shell, server
<1> QED BY <1>2, <1>4, <1>5, <1>6 DEF Serve

LEMMA OtherSteps ==
  ASSUME IInv, ConsoleStarts \/ ConsoleStops \/ ForeignTakesPort \/ ForeignLeaves
  PROVE  IInv'
<1> USE NameAssumption
<1>1. CASE ConsoleStarts
  BY <1>1 DEF ConsoleStarts, StartBackend, IInv, TypeOK, SeenListens, SamplersListen,
              OffIsEmpty, Backends, shell
<1>2. CASE ConsoleStops
  BY <1>2 DEF ConsoleStops, RequestStop, IInv, TypeOK, SeenListens, SamplersListen,
              OffIsEmpty, Backends, shell
<1>3. CASE ForeignTakesPort \/ ForeignLeaves
  BY <1>3 DEF ForeignTakesPort, ForeignLeaves, IInv, TypeOK, SeenListens, SamplersListen,
              OffIsEmpty, Backends, shell
<1> QED BY <1>1, <1>2, <1>3

-----------------------------------------------------------------------------
(* A step of a shell that neither ends its process nor starts a backend. *)
LEMMA ShellOnly ==
  ASSUME IInv, NEW s \in Shells,
         NEW where \in {"health", "identity", "alive", "stop", "check", "window",
                        "dialog", "unusable", "closing"},
         Goes(s, where),
         started' \in [Shells -> BOOLEAN], polls' \in [Shells -> 0 .. MaxPolls],
         exit' \in [Backends -> BOOLEAN], UNCHANGED <<backend, port, session>>,
         \/ UNCHANGED seen
         \/ seen' = [seen EXCEPT ![s] = None]
  PROVE  IInv'
<1> USE NameAssumption
<1>1. TypeOK'
  BY DEF IInv, TypeOK, Goes, Backends
<1>2. SeenListens'
  BY DEF IInv, TypeOK, SeenListens, Backends
<1>3. SamplersListen' /\ OffIsEmpty'
  BY DEF IInv, TypeOK, SamplersListen, OffIsEmpty, Goes, Backends
<1> QED BY <1>1, <1>2, <1>3 DEF IInv

LEMMA StartKeeps ==
  ASSUME IInv, NEW s \in Shells, StartOwn(s), UNCHANGED session,
         \/ port = None /\ UNCHANGED seen
         \/ seen' = [seen EXCEPT ![s] = None]
  PROVE  IInv'
<1> USE NameAssumption DEF StartOwn, StartBackend, Goes
<1>1. TypeOK'
  BY DEF IInv, TypeOK, Backends
<1>2. seen'[s] = None
  BY DEF IInv, TypeOK, SeenListens, Backends
<1>3. SeenListens'
  BY <1>2 DEF IInv, TypeOK, SeenListens, Backends
<1>4. SamplersListen' /\ OffIsEmpty'
  BY DEF IInv, TypeOK, SamplersListen, OffIsEmpty, Backends
<1> QED BY <1>1, <1>3, <1>4 DEF IInv

LEMMA EndKeeps ==
  ASSUME IInv, NEW s \in Shells, ProcessEnds(s)
  PROVE  IInv'
<1>1. s \in Backends /\ Gone(s)
  BY DEF ProcessEnds, Backends
<1>2. TypeOK'
  BY <1>1, GoneKeeps, PollAssumption DEF IInv, TypeOK, ProcessEnds, Goes
<1>3. OffIsEmpty'
  BY <1>1, GoneKeeps DEF IInv, TypeOK, OffIsEmpty, ProcessEnds, Goes, Backends
<1> QED BY <1>1, <1>2, <1>3, GoneKeeps DEF IInv

LEMMA RefuseKeeps ==
  ASSUME IInv, NEW s \in Shells, Refuse(s), UNCHANGED session,
         \/ UNCHANGED seen
         \/ seen' = [seen EXCEPT ![s] = None]
  PROVE  IInv'
<1> DEFINE where == IF started[s] THEN "stop" ELSE "dialog"
<1>1. Goes(s, where) /\ where \in {"stop", "dialog"}
  BY DEF Refuse
<1>2. /\ started' \in [Shells -> BOOLEAN] /\ polls' \in [Shells -> 0 .. MaxPolls]
      /\ exit' \in [Backends -> BOOLEAN] /\ UNCHANGED <<backend, port, session>>
  BY PollAssumption DEF Refuse, RequestStop, IInv, TypeOK, Backends
<1> HIDE DEF where
<1> QED BY <1>1, <1>2, ShellOnly

LEMMA AbsentKeeps ==
  ASSUME IInv, NEW s \in Shells, Absent(s), UNCHANGED session,
         \/ port = None /\ UNCHANGED seen
         \/ seen' = [seen EXCEPT ![s] = None]
  PROVE  IInv'
<1>1. CASE StartOwn(s)
  BY <1>1, StartKeeps
<1>2. CASE PollAgain(s)
  <2>1. /\ Goes(s, "alive") /\ started' \in [Shells -> BOOLEAN]
        /\ polls' \in [Shells -> 0 .. MaxPolls] /\ exit' \in [Backends -> BOOLEAN]
        /\ UNCHANGED <<backend, port, session>>
    BY <1>2, PollAssumption DEF PollAgain, IInv, TypeOK, server
  <2> QED BY <2>1, ShellOnly
<1>3. CASE Deadline(s)
  BY <1>3, RefuseKeeps DEF Deadline
<1> QED BY <1>1, <1>2, <1>3 DEF Absent

LEMMA ReadyKeeps ==
  ASSUME IInv, NEW s \in Shells, Ready(s), UNCHANGED session
  PROVE  IInv'
<1>1. /\ Goes(s, "check") /\ started' \in [Shells -> BOOLEAN]
      /\ polls' \in [Shells -> 0 .. MaxPolls] /\ exit' \in [Backends -> BOOLEAN]
      /\ UNCHANGED <<backend, port, session>> /\ seen' = [seen EXCEPT ![s] = None]
  BY PollAssumption DEF Ready, IInv, TypeOK, server
<1> QED BY <1>1, ShellOnly

LEMMA LaunchKeeps ==
  ASSUME IInv, NEW s \in Shells, Launch(s)
  PROVE  IInv'
<1> USE NameAssumption DEF Launch, Goes, Configured, server
<1>1. TypeOK'
  BY DEF IInv, TypeOK, Backends
<1>2. SeenListens'
  BY DEF IInv, TypeOK, SeenListens, OffIsEmpty, Backends
<1>3. SamplersListen' /\ OffIsEmpty'
  BY DEF IInv, TypeOK, SamplersListen, OffIsEmpty, Backends
<1> QED BY <1>1, <1>2, <1>3 DEF IInv

LEMMA ShutdownKeeps ==
  ASSUME IInv, NEW s \in Shells, Shutdown(s)
  PROVE  IInv'
<1>1. /\ Goes(s, "closing") /\ started' \in [Shells -> BOOLEAN]
      /\ polls' \in [Shells -> 0 .. MaxPolls] /\ exit' \in [Backends -> BOOLEAN]
      /\ UNCHANGED <<backend, port, session>> /\ UNCHANGED seen
  BY DEF Shutdown, RequestStop, IInv, TypeOK, Backends
<1> QED BY <1>1, ShellOnly

LEMMA ShellSteps ==
  ASSUME IInv, NEW s \in Shells,
         \/ Launch(s) \/ Prepare(s) \/ UserCloses(s) \/ Watchdog(s)
         \/ DismissRefusal(s) \/ DismissUnusable(s) \/ Exit(s) \/ Killed(s)
  PROVE  IInv'
<1>0. ASSUME NEW where \in {"health", "identity", "window", "dialog", "unusable"},
             Goes(s, where), UNCHANGED <<started, polls, server, session, seen>>
      PROVE  IInv'
  <2>1. /\ started' \in [Shells -> BOOLEAN] /\ polls' \in [Shells -> 0 .. MaxPolls]
        /\ exit' \in [Backends -> BOOLEAN] /\ UNCHANGED <<backend, port, session>>
        /\ UNCHANGED seen
    BY <1>0 DEF IInv, TypeOK, server
  <2> QED BY <1>0, <2>1, ShellOnly
<1>1. CASE Launch(s)
  BY <1>1, LaunchKeeps
<1>2. CASE ProbeHealth(s)
  <2>1. CASE port = None /\ Absent(s) /\ UNCHANGED seen
    BY <1>2, <2>1, AbsentKeeps DEF ProbeHealth
  <2>2. CASE port # None /\ Absent(s) /\ seen' = [seen EXCEPT ![s] = None]
    BY <1>2, <2>2, AbsentKeeps DEF ProbeHealth
  <2>3. CASE Refuse(s) /\ UNCHANGED seen
    BY <1>2, <2>3, RefuseKeeps DEF ProbeHealth
  <2>4. CASE Goes(s, "identity") /\ UNCHANGED <<started, polls, server, seen>>
    BY <1>2, <2>4, <1>0 DEF ProbeHealth
  <2> QED BY <1>2, <2>1, <2>2, <2>3, <2>4 DEF ProbeHealth
<1>3. CASE ProbeIdentity(s)
  BY <1>3, ReadyKeeps, RefuseKeeps DEF ProbeIdentity
<1>4. CASE CheckAlive(s)
  BY <1>4, <1>0, RefuseKeeps DEF CheckAlive
<1>5. CASE Join(s)
  BY <1>5, <1>0 DEF Join
<1>6. CASE CheckDashboard(s)
  <2>1. PICK where \in {"unusable", "window"} : Goes(s, where)
    BY <1>6 DEF CheckDashboard
  <2> QED BY <1>6, <2>1, <1>0 DEF CheckDashboard
<1>7. CASE UserCloses(s) \/ Watchdog(s) \/ DismissUnusable(s)
  BY <1>7, ShutdownKeeps DEF UserCloses, Watchdog, DismissUnusable
<1>8. CASE DismissRefusal(s) \/ Exit(s) \/ Killed(s)
  BY <1>8, EndKeeps DEF DismissRefusal, Exit, Killed
<1> QED BY <1>1, <1>2, <1>3, <1>4, <1>5, <1>6, <1>7, <1>8 DEF Prepare

LEMMA StepHolds == IInv /\ [Next]_vars => IInv'
<1> SUFFICES ASSUME IInv, [Next]_vars PROVE IInv'
  OBVIOUS
<1>1. CASE \E b \in Backends : Serve(b) \/ ServerDies(b) \/ StartSession(b) \/ StopSession(b)
  BY <1>1, BackendSteps
<1>2. CASE ConsoleStarts \/ ConsoleStops \/ ForeignTakesPort \/ ForeignLeaves
  BY <1>2, OtherSteps
<1>3. CASE \E s \in Shells : \/ Launch(s) \/ Prepare(s) \/ UserCloses(s) \/ Watchdog(s)
                             \/ DismissRefusal(s) \/ DismissUnusable(s) \/ Exit(s) \/ Killed(s)
  BY <1>3, ShellSteps
<1>4. CASE UNCHANGED vars
  BY <1>4 DEF vars, shell, server, IInv, TypeOK, SeenListens, SamplersListen, OffIsEmpty
<1> QED BY <1>1, <1>2, <1>3, <1>4 DEF Next

(* The invariant holds of every run, whatever listens on the port and however
   many shells there are. *)
THEOREM InvariantHolds == Spec => []IInv
<1>1. Init => IInv
  BY InitHolds
<1>2. IInv /\ [Next]_vars => IInv'
  BY StepHolds
<1> QED BY <1>1, <1>2, PTL DEF Spec

(* Every variable keeps its type. *)
THEOREM TypeCorrect == Spec => []TypeOK
<1>1. IInv => TypeOK
  BY DEF IInv
<1> QED BY <1>1, InvariantHolds, PTL

(* The backend that a launch starts aborts no session of a backend which that
   launch has seen listening since it began. *)
THEOREM SeenSessionsAreSpared == Spec => ReconcileSparesTheSeen
<1>1. ASSUME IInv, NEW b \in Backends, Lifespan(b), session = "sampled"
      PROVE  seen[b] # port
  <2>1. backend[b] # "none"
    BY <1>1 DEF Lifespan
  <2>2. seen[b] = None
    BY <1>1, <2>1 DEF IInv, SeenListens
  <2>3. port # None
    BY <1>1, NameAssumption DEF IInv, SamplersListen, Backends
  <2> QED BY <2>2, <2>3
<1>2. IInv => [\A b \in Backends :
                 Lifespan(b) /\ session = "sampled" /\ session' = "none" => seen[b] # port]_vars
  BY <1>1
<1> QED BY <1>2, InvariantHolds, PTL DEF ReconcileSparesTheSeen
=============================================================================
