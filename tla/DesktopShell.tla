---------------------------- MODULE DesktopShell ----------------------------
(***************************************************************************)
(* Desktop shells and the console launcher, which share one port and one   *)
(* database.  A shell probes the port, attaches to a matching backend or   *)
(* starts one in a thread of its own process, waits until the port answers *)
(* as this application, and opens a window on it.                          *)
(*                                                                         *)
(* A backend runs the application's lifespan, which aborts the diagnostics *)
(* session it finds in the database, before it binds the port.             *)
(***************************************************************************)
EXTENDS Naturals

CONSTANTS
  Shells,    \* desktop processes; each names the backend it may start, too
  Console,   \* the backend started by start_dashboard.bat
  Foreign,   \* another program that listens on the port
  None,
  MaxPolls   \* the unanswered polls that exhaust STARTUP_TIMEOUT_SECONDS

ASSUME NameAssumption ==
  /\ Console \notin Shells
  /\ Foreign \notin Shells \cup {Console}
  /\ None \notin Shells \cup {Console, Foreign}
ASSUME PollAssumption == MaxPolls \in Nat

Backends == Shells \cup {Console}

VARIABLES
  at,        \* what main() of every shell is doing
  started,   \* whether it holds a ServerHandle
  polls,     \* unanswered polls of wait_until_ready
  backend,   \* every backend's thread
  exit,      \* Server.should_exit
  port,      \* who listens
  session,   \* the active diagnostics session of the database
  seen       \* history: who has listened since the launch and answered in time

shell == <<at, started, polls>>
server == <<backend, exit, port>>
vars == <<shell, server, session, seen>>

TypeOK ==
  /\ at \in [Shells -> {"off", "health", "identity", "alive", "stop", "check",
                        "window", "dialog", "unusable", "closing"}]
  /\ started \in [Shells -> BOOLEAN]
  /\ polls \in [Shells -> 0 .. MaxPolls]
  /\ backend \in [Backends -> {"none", "startup", "bind", "serving"}]
  /\ exit \in [Backends -> BOOLEAN]
  /\ port \in Backends \cup {Foreign, None}
  /\ session \in {"none", "sampled", "left"}   \* "sampled" by the listener
  /\ seen \in [Backends -> Backends \cup {None}]

Init ==
  /\ at = [s \in Shells |-> "off"]
  /\ started = [s \in Shells |-> FALSE]
  /\ polls = [s \in Shells |-> 0]
  /\ backend = [b \in Backends |-> "none"]
  /\ exit = [b \in Backends |-> FALSE]
  /\ port \in {Foreign, None}
  /\ session = "none"
  /\ seen = [b \in Backends |-> None]

Goes(s, where) == at' = [at EXCEPT ![s] = where]

-----------------------------------------------------------------------------
(* The backends.                                                           *)

(* The thread of b has ended, and with it its socket and its sampler: a
   diagnostics session stays active in the database. *)
Gone(b) ==
  /\ backend' = [backend EXCEPT ![b] = "none"]
  /\ exit' = [exit EXCEPT ![b] = FALSE]
  /\ port' = IF port = b THEN None ELSE port
  /\ session' = IF port = b /\ session = "sampled" THEN "left" ELSE session
  /\ seen' = [l \in Backends |-> IF l = b \/ seen[l] = b THEN None ELSE seen[l]]

StartBackend(b) ==
  /\ backend' = [backend EXCEPT ![b] = "startup"]
  /\ UNCHANGED <<exit, port>>

(* should_exit of b is set if it is owned. *)
RequestStop(b, owned) == exit' = [exit EXCEPT ![b] = @ \/ owned]

(* The lifespan's startup; create_all or the seed may fail instead. *)
Lifespan(b) ==
  /\ backend[b] = "startup"
  /\ \/ /\ backend' = [backend EXCEPT ![b] = "bind"]
        /\ session' = "none"
        /\ seen' = [seen EXCEPT ![b] = None]
        /\ UNCHANGED <<exit, port>>
     \/ Gone(b)
  /\ UNCHANGED shell

Bind(b) ==
  /\ backend[b] = "bind"
  /\ IF port = None
       THEN /\ backend' = [backend EXCEPT ![b] = "serving"]
            /\ port' = b
            /\ UNCHANGED <<exit, session, seen>>
       ELSE Gone(b)
  /\ UNCHANGED shell

ServerStops(b) ==
  /\ backend[b] = "serving" /\ exit[b]
  /\ Gone(b)
  /\ UNCHANGED shell

ServerDies(b) ==
  /\ backend[b] = "serving"
  /\ Gone(b)
  /\ UNCHANGED shell

StartSession(b) ==
  /\ port = b /\ session = "none"
  /\ session' = "sampled"
  /\ UNCHANGED <<shell, server, seen>>

StopSession(b) ==
  /\ port = b /\ session # "none"
  /\ session' = "none"
  /\ UNCHANGED <<shell, server, seen>>

-----------------------------------------------------------------------------
(* Programs nobody waits for.  The console launcher starts a backend unless *)
(* the health of the port answers in time.                                  *)

ConsoleStarts ==
  /\ backend[Console] = "none"
  /\ StartBackend(Console)
  /\ UNCHANGED <<shell, session, seen>>

ConsoleStops ==
  /\ backend[Console] # "none"
  /\ RequestStop(Console, TRUE)
  /\ UNCHANGED <<shell, backend, port, session, seen>>

ForeignTakesPort == port = None /\ port' = Foreign /\ UNCHANGED <<shell, backend, exit, session, seen>>
ForeignLeaves == port = Foreign /\ port' = None /\ UNCHANGED <<shell, backend, exit, session, seen>>

-----------------------------------------------------------------------------
(* A shell: probe, attach or start, wait, check, window, shutdown.         *)

(* configure_environment and resolve_port let the launch go on, or fail. *)
Configured == {"health", "dialog"}

Launch(s) ==
  /\ at[s] = "off"
  /\ \E where \in Configured : Goes(s, where)
  /\ seen' = [seen EXCEPT ![s] = IF port \in Backends THEN port ELSE None]
  /\ UNCHANGED <<started, polls, server, session>>

(* Mutant: a refused launch that leaves its backend running. *)
RefuseAndForget(s) ==
  /\ Goes(s, IF started[s] THEN "stop" ELSE "dialog")
  /\ polls' = [polls EXCEPT ![s] = 0]
  /\ UNCHANGED <<started, server>>

(* FOREIGN: the handle, if there is one, is stopped and joined first. *)
Refuse(s) ==
  /\ Goes(s, IF started[s] THEN "stop" ELSE "dialog")
  /\ RequestStop(s, started[s])
  /\ polls' = [polls EXCEPT ![s] = 0]
  /\ UNCHANGED <<started, backend, port>>

(* ABSENT before a start. *)
StartOwn(s) ==
  /\ ~started[s]
  /\ started' = [started EXCEPT ![s] = TRUE]
  /\ Goes(s, "alive")
  /\ StartBackend(s)
  /\ UNCHANGED polls

(* ABSENT while waiting: poll again before the deadline. *)
PollAgain(s) ==
  /\ started[s] /\ polls[s] < MaxPolls
  /\ polls' = [polls EXCEPT ![s] = @ + 1]
  /\ Goes(s, "alive")
  /\ UNCHANGED <<started, server>>

(* Mutant: the waiter has no deadline. *)
NoDeadline(s) ==
  /\ started[s] /\ polls[s] = MaxPolls
  /\ Goes(s, "alive")
  /\ UNCHANGED <<started, polls, server>>

Deadline(s) == started[s] /\ polls[s] = MaxPolls /\ Refuse(s)

Absent(s) == StartOwn(s) \/ PollAgain(s) \/ Deadline(s)

(* Mutant: every shell starts a backend of its own. *)
ReadyIfOwn(s) ==
  IF started[s]
    THEN Goes(s, "check") /\ UNCHANGED <<started, polls, server, seen>>
    ELSE StartOwn(s) /\ UNCHANGED seen

(* OURS: OWNED with a handle and ATTACHED without, whoever has answered. *)
Ready(s) ==
  /\ Goes(s, "check")
  /\ polls' = [polls EXCEPT ![s] = 0]
  /\ seen' = [seen EXCEPT ![s] = None]
  /\ UNCHANGED <<started, server>>

(* A listener that does not answer in time counts as a free port. *)
ProbeHealth(s) ==
  /\ at[s] = "health"
  /\ \/ port = None /\ Absent(s) /\ UNCHANGED seen
     \/ port # None /\ Absent(s) /\ seen' = [seen EXCEPT ![s] = None]
     \/ port = Foreign /\ Refuse(s) /\ UNCHANGED seen
     \/ port \in Backends /\ Goes(s, "identity") /\ UNCHANGED <<started, polls, server, seen>>
  /\ UNCHANGED session

(* Any failure after a healthy answer counts as a foreign service. *)
ProbeIdentity(s) ==
  /\ at[s] = "identity"
  /\ \/ port \in Backends /\ Ready(s)
     \/ Refuse(s) /\ UNCHANGED seen
  /\ UNCHANGED session

CheckAlive(s) ==
  /\ at[s] = "alive"
  /\ IF backend[s] = "none"
       THEN Refuse(s)
       ELSE Goes(s, "health") /\ UNCHANGED <<started, polls, server>>
  /\ UNCHANGED <<session, seen>>

(* join() ends with the thread, or at its timeout. *)
Join(s) ==
  /\ at[s] = "stop"
  /\ Goes(s, "dialog")
  /\ UNCHANGED <<started, polls, server, session, seen>>

(* ensure_dashboard_reachable asks for no identity: 401, an error status or
   silence keep the window away, whatever else answers opens it. *)
CheckDashboard(s) ==
  /\ at[s] = "check"
  /\ \E where \in {"unusable"} \cup (IF port = None THEN {} ELSE {"window"}) : Goes(s, where)
  /\ UNCHANGED <<started, polls, server, session, seen>>

(* shutdown_backend of main()'s finally. *)
Shutdown(s) ==
  /\ Goes(s, "closing")
  /\ RequestStop(s, started[s])
  /\ UNCHANGED <<started, polls, backend, port, session, seen>>

UserCloses(s) == at[s] = "window" /\ Shutdown(s)

(* Mutant: the watchdog asks whether the server was told to stop. *)
WatchdogOfRequests(s) ==
  /\ at[s] = "window" /\ started[s] /\ exit[s]
  /\ Shutdown(s)

Watchdog(s) ==
  /\ at[s] = "window" /\ started[s] /\ backend[s] = "none"
  /\ Shutdown(s)

(* The process ends, a daemon thread with it. *)
ProcessEnds(s) ==
  /\ Goes(s, "off")
  /\ started' = [started EXCEPT ![s] = FALSE]
  /\ polls' = [polls EXCEPT ![s] = 0]
  /\ Gone(s)

DismissRefusal(s) == at[s] = "dialog" /\ ProcessEnds(s)
DismissUnusable(s) == at[s] = "unusable" /\ Shutdown(s)
Exit(s) == at[s] = "closing" /\ ProcessEnds(s)
Killed(s) == at[s] # "off" /\ ProcessEnds(s)

-----------------------------------------------------------------------------
Serve(b) == Lifespan(b) \/ Bind(b) \/ ServerStops(b)

Prepare(s) ==
  ProbeHealth(s) \/ ProbeIdentity(s) \/ CheckAlive(s) \/ Join(s) \/ CheckDashboard(s)

Next ==
  \/ \E b \in Backends : Serve(b) \/ ServerDies(b) \/ StartSession(b) \/ StopSession(b)
  \/ ConsoleStarts \/ ConsoleStops \/ ForeignTakesPort \/ ForeignLeaves
  \/ \E s \in Shells : \/ Launch(s) \/ Prepare(s) \/ UserCloses(s) \/ Watchdog(s)
                       \/ DismissRefusal(s) \/ DismissUnusable(s) \/ Exit(s) \/ Killed(s)

(* Threads run; a user and the other programs need not do anything. *)
Fairness ==
  /\ \A b \in Backends : WF_vars(Serve(b))
  /\ \A s \in Shells : WF_vars(Prepare(s)) /\ WF_vars(Watchdog(s)) /\ WF_vars(Exit(s))

Spec == Init /\ [][Next]_vars /\ Fairness

-----------------------------------------------------------------------------
(* Starting a backend aborts the diagnostics session of no backend that has
   been listening since the launch of the starter and has answered each of
   its probes in time: "aborted" is for what an earlier process left behind
   (reconcile_on_startup), and a second launch attaches.  Two launches that
   both find the port free may abort each other's session. *)
ReconcileSparesTheSeen ==
  [][\A b \in Backends :
       Lifespan(b) /\ session = "sampled" /\ session' = "none" => seen[b] # port]_vars

(* A window whose shell started a backend shows that backend or closes: also
   one that was opened because another shell's backend answered the readiness
   poll while its own was still starting. *)
WindowsFollowTheirBackend ==
  \A s \in Shells :
    (at[s] = "window" /\ started[s] /\ port # s) ~> (at[s] # "window" \/ port = s)

(* A launch ends with a window or a message, whatever listens on the port,
   comes and goes or does not answer. *)
LaunchesEnd ==
  \A s \in Shells : at[s] = "health" ~> at[s] \in {"window", "dialog", "unusable", "off"}

(* The backend of a launch that was given up stops although the join may have
   timed out, before anybody dismisses the message. *)
AbandonedBackendsStop ==
  \A s \in Shells : at[s] = "dialog" ~> backend[s] = "none"
=============================================================================
