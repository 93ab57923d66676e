----------------------------- MODULE ClaudeUsage -----------------------------
(***************************************************************************)
(* The Claude card of the compact view, and the two files it is made from: *)
(* the status line bridges of any number of Claude Code processes replace  *)
(* one, PUT /api/claude-code-usage/manual replaces the other, and every    *)
(* load of the view reads each with a GET of its own.  Loads overlap: the  *)
(* next is due after REFRESH_INTERVAL_MS, whether the last has ended or not.*)
(***************************************************************************)
EXTENDS Naturals, FiniteSets, ClaudeCard

CONSTANTS
  Writers,   \* bridges and PUT requests
  Extracted, \* the windows that a bridge may find in its payload
  Loads,     \* bound: loads of the view at a time
  None,
  Bad,       \* content that is not a record of the schema
  Skew,      \* MAX_OBSERVED_AT_FUTURE_SKEW_SECONDS
  MaxTime, MaxWrites, MaxFailures, MaxSteps   \* bounds

Windows == {"five_hour", "seven_day"}
\* What a window says is known by the source that it came from.
Record == [at : 0 .. MaxTime, windows : UNION {[W -> Sources] : W \in SUBSET Windows}]

ASSUME ExtractedAssumption == Extracted \subseteq SUBSET Windows

VARIABLES
  now,       \* the clock, which may be set back
  file,      \* what is stored
  pending,   \* [source, record] that a writer has made and not stored yet
  answers,   \* what a load has been told
  writes, failures, steps   \* what the bounds count

bounded == <<writes, failures, steps>>
vars == <<now, file, pending, answers, card, stored, bounded>>

Waiting == [source |-> "none", status |-> "waiting"]
Failed == [source |-> "none", status |-> "failed"]

TypeOK ==
  /\ now \in 0 .. MaxTime
  /\ file \in [Sources -> Record \cup {None, Bad}]
  /\ \A w \in Writers : pending[w] = None \/ pending[w] \in [source : Sources, record : Record]
  /\ DOMAIN answers = Loads
  /\ card.source \in Sources \cup {"none"}
  /\ stored \subseteq Record
  /\ writes \in 0 .. MaxWrites /\ failures \in 0 .. MaxFailures /\ steps \in 0 .. MaxSteps

Init ==
  /\ now \in 0 .. MaxTime
  /\ file \in [Sources -> {None, Bad}]
  /\ pending = [w \in Writers |-> None]
  /\ answers = [l \in Loads |-> None]
  /\ card = Unavailable("empty")
  /\ stored = {}
  /\ writes = 0 /\ failures = 0 /\ steps = 0

-----------------------------------------------------------------------------
(* The writers.  Each takes the time when it starts: a bridge before it has
   read its payload, in which either window may be missing or malformed.  A
   PUT is refused unless it has both. *)
Observation(s, W) == [source |-> s, record |-> [at |-> now, windows |-> [x \in W |-> s]]]
Observations == {Observation("auto", W) : W \in Extracted} \cup {Observation("manual", Windows)}

Observe(w) ==
  /\ pending[w] = None /\ writes < MaxWrites
  /\ \E o \in Observations : pending' = [pending EXCEPT ![w] = o]
  /\ writes' = writes + 1
  /\ UNCHANGED <<now, file, answers, card, stored, failures, steps>>

(* write_cache_atomic: a new file takes the place of the old. *)
Store(w) ==
  /\ pending[w] # None
  /\ file' = [file EXCEPT ![pending[w].source] = pending[w].record]
  /\ stored' = stored \cup {pending[w].record}
  /\ pending' = [pending EXCEPT ![w] = None]
  /\ UNCHANGED <<now, answers, card, bounded>>

(* The writer is killed, or the file cannot be replaced. *)
GiveUp(w) ==
  /\ pending[w] # None
  /\ pending' = [pending EXCEPT ![w] = None]
  /\ UNCHANGED <<now, file, answers, card, stored, bounded>>

-----------------------------------------------------------------------------
(* load_snapshot. *)
Snapshot(s) ==
  CASE file[s] = None -> Unavailable("not_observed")
    [] file[s] = Bad -> Unavailable("invalid_cache")
    [] OTHER -> IF file[s].at > now + Skew
                  THEN Unavailable("invalid_cache")
                  ELSE Shown(s, file[s])

Begin(l) ==
  /\ answers[l] = None
  /\ answers' = [answers EXCEPT ![l] = [s \in Sources |-> Waiting]]
  /\ UNCHANGED <<now, file, pending, card, stored, bounded>>

Answer(l, s) ==
  /\ answers[l] # None /\ answers[l][s] = Waiting
  /\ answers' = [answers EXCEPT ![l][s] = Snapshot(s)]
  /\ UNCHANGED <<now, file, pending, card, stored, bounded>>

(* The file is there and cannot be read, which is reported as a bad one. *)
AnswerUnread(l, s) ==
  /\ answers[l] # None /\ answers[l][s] = Waiting /\ failures < MaxFailures
  /\ file[s] # None
  /\ answers' = [answers EXCEPT ![l][s] = Unavailable("invalid_cache")]
  /\ failures' = failures + 1
  /\ UNCHANGED <<now, file, pending, card, stored, writes, steps>>

(* The network, a status that is not ok, a body that is not JSON. *)
Fail(l, s) ==
  /\ answers[l] # None /\ answers[l][s] = Waiting /\ failures < MaxFailures
  /\ answers' = [answers EXCEPT ![l][s] = Failed]
  /\ failures' = failures + 1
  /\ UNCHANGED <<now, file, pending, card, stored, writes, steps>>

Available(a) == a.status = "ok"
Full(a) == Available(a) /\ DOMAIN a.record.windows = Windows

(* Mutant: a manual value stays until it is deleted. *)
ManualWins(auto, manual) == Full(manual)

(* With the same time the automatic one is preferred. *)
ManualIsNewer(auto, manual) ==
  Full(manual) /\ (Available(auto) => manual.record.at > auto.record.at)

(* Mutant: the week is taken from the manual snapshot whenever there is one. *)
Patched(auto, manual) ==
  CASE Available(auto) /\ Full(manual) ->
         [auto EXCEPT !.record.windows =
            [manual.record.windows EXCEPT !["five_hour"] =
               IF "five_hour" \in DOMAIN auto.record.windows
                 THEN auto.record.windows["five_hour"] ELSE @]]
    [] Available(auto) /\ ~Full(manual) -> auto
    [] OTHER -> manual

(* resolveClaudeCodeUsageDisplay, which takes one snapshot as a whole. *)
Resolved(auto, manual) ==
  CASE ManualIsNewer(auto, manual) -> manual
    [] Available(auto) /\ ~ManualIsNewer(auto, manual) -> auto
    [] OTHER -> Unavailable(IF "invalid_cache" \in {auto.status, manual.status}
                              THEN "invalid_cache" ELSE "not_observed")

(* Promise.all, then the cards.  A failed GET is the only one of the card's
   two that counts. *)
Render(l) ==
  /\ answers[l] # None /\ \A s \in Sources : answers[l][s] # Waiting
  /\ card' = IF \E s \in Sources : answers[l][s] = Failed
               THEN Failed
               ELSE Resolved(answers[l]["auto"], answers[l]["manual"])
  /\ answers' = [answers EXCEPT ![l] = None]
  /\ UNCHANGED <<now, file, pending, stored, bounded>>

(* The clock moves, or is set. *)
Clock ==
  /\ steps < MaxSteps
  /\ steps' = steps + 1
  /\ now' \in 0 .. MaxTime \ {now}
  /\ UNCHANGED <<file, pending, answers, card, stored, writes, failures>>

Next ==
  \/ \E w \in Writers : Observe(w) \/ Store(w) \/ GiveUp(w)
  \/ \E l \in Loads : Begin(l) \/ Render(l)
                     \/ \E s \in Sources : Answer(l, s) \/ AnswerUnread(l, s) \/ Fail(l, s)
  \/ Clock

(* The interval fires, and the server answers. *)
Fairness ==
  \A l \in Loads : /\ WF_vars(Begin(l)) /\ WF_vars(Render(l))
                   /\ \A s \in Sources : WF_vars(Answer(l, s))

Spec == Init /\ [][Next]_vars /\ Fairness

-----------------------------------------------------------------------------
(* Whatever loads overlap and whichever of them ends last: once the files and
   the clock come to rest, the newest readable observation is what the card
   keeps showing.  A manual value gives way to a later automatic one, and an
   error or an older value that a slow load brought is replaced. *)
NewestIsShown ==
  LET readable == {s \in Sources : file[s] \notin {None, Bad} /\ file[s].at <= now + Skew}
  IN  <>[](readable # {} =>
             /\ card.source \in readable
             /\ card.record = file[card.source]
             /\ \A s \in readable : file[s].at <= card.record.at)
=============================================================================
