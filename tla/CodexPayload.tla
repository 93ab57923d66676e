---------------------------- MODULE CodexPayload ----------------------------
(***************************************************************************)
(* What the adapter makes of an answer to account/rateLimits/read, and     *)
(* what the cache file accepts.  A field is represented by its class: a    *)
(* value of the right type, null, or anything else ("bad").                *)
(***************************************************************************)
EXTENDS Naturals, FiniteSets

CONSTANT Ids   \* limit ids that are not empty strings

ASSUME IdAssumption == Ids \cap {"null", "empty", "bad"} = {}

Slots == {"primary", "secondary"}

(* A window of the wire; used is "absent" of a null window. *)
Window == [used: {"absent", "integer", "fraction", "bad"},
           duration: {"five_hour", "weekly", "other", "null", "bad"},
           resets: {"time", "negative", "fraction", "null", "bad"}]

(* A snapshot; one that is no object has the shape "bad". *)
Snapshot == [shape: {"object", "bad"}, window: [Slots -> Window],
             limitId: Ids \cup {"null", "empty", "bad"}, name: {"string", "null", "bad"}]

Seen(slot, w) == [slot |-> slot, duration |-> w.duration, resets |-> w.resets]

-----------------------------------------------------------------------------
(* The legacy view drops what it does not understand.                      *)

LegacyAccepts(w) ==
  /\ w.used \in {"integer", "fraction"}
  /\ w.duration \in {"five_hour", "weekly", "other"}
  /\ w.resets \in {"time", "negative", "fraction"}

Recognized(snapshot) ==
  {Seen(slot, snapshot.window[slot]) : slot \in
     {s \in Slots : /\ LegacyAccepts(snapshot.window[s])
                    /\ snapshot.window[s].duration # "other"}}

Ambiguous(windows) == Cardinality({w.duration : w \in windows}) # Cardinality(windows)

(* Mutant: an empty limitId is taken for an id. *)
LegacyIdEmpty(snapshot) == IF snapshot.limitId \in Ids \cup {"empty"} THEN snapshot.limitId ELSE "null"

LegacyId(snapshot) == IF snapshot.limitId \in Ids THEN snapshot.limitId ELSE "null"

LegacyBucket(snapshot) ==
  [id |-> LegacyId(snapshot),
   origin |-> IF LegacyId(snapshot) = "null" THEN "null" ELSE "snapshot_field",
   name |-> IF snapshot.name = "string" THEN "string" ELSE "null",
   windows |-> Recognized(snapshot)]

-----------------------------------------------------------------------------
(* The entries of rateLimitsByLimitId are all valid, or the fetch fails.   *)

CanonicalAccepts(w) ==
  \/ w.used = "absent"
  \/ w.used = "integer" /\ w.duration # "bad" /\ w.resets \in {"time", "null"}

EntryAccepted(key, snapshot) ==
  /\ key # "empty"
  /\ snapshot.shape = "object"
  /\ snapshot.limitId \in {"null", key}
  /\ snapshot.name # "bad"
  /\ \A slot \in Slots : CanonicalAccepts(snapshot.window[slot])

CanonicalBucket(key, snapshot) ==
  [id |-> key, origin |-> "map_key", name |-> snapshot.name,
   windows |-> {Seen(slot, snapshot.window[slot]) :
                  slot \in {s \in Slots : snapshot.window[s].used # "absent"}}]

(* An answer: its shape, rateLimits, and rateLimitsByLimitId as a function
   on its keys; null, a missing field and an empty object are all empty. *)
IsAnswer(answer) ==
  /\ {answer.shape, answer.mapShape} \subseteq {"object", "bad"} /\ answer.rateLimits \in Snapshot
  /\ IsFiniteSet(DOMAIN answer.byLimitId) /\ DOMAIN answer.byLimitId \subseteq Ids \cup {"empty"}
  /\ \A key \in DOMAIN answer.byLimitId : answer.byLimitId[key] \in Snapshot

Rejected(answer) ==
  \/ answer.shape = "bad" \/ answer.rateLimits.shape = "bad"
  \/ Recognized(answer.rateLimits) = {}
  \/ answer.mapShape = "bad"
  \/ \E key \in DOMAIN answer.byLimitId : ~EntryAccepted(key, answer.byLimitId[key])

SelectBuckets(answer) ==
  IF DOMAIN answer.byLimitId = {}
    THEN {LegacyBucket(answer.rateLimits)}
    ELSE {CanonicalBucket(key, answer.byLimitId[key]) : key \in DOMAIN answer.byLimitId}

Failure(error) == [error |-> error, windows |-> {}, buckets |-> {}]

(* What run_json_rpc_session returns for the answer. *)
Projected(answer) ==
  CASE answer.shape = "object" /\ answer.rateLimits.shape = "object"
         /\ Ambiguous(Recognized(answer.rateLimits)) -> Failure("ambiguous_response")
    [] Rejected(answer) -> Failure("invalid_response")
    [] OTHER -> [error |-> "none", windows |-> Recognized(answer.rateLimits),
                 buckets |-> SelectBuckets(answer)]

-----------------------------------------------------------------------------
(* validate_cache_record, on the record built from a success.              *)

CachedTime(resets) == resets \in {"time", "negative", "fraction"}

CachedBucket(bucket) ==
  /\ bucket.id # "empty"
  /\ bucket.id = "null" => bucket.origin = "null"
  /\ bucket.id # "null" => bucket.origin \in {"map_key", "snapshot_field"}
  /\ bucket.name # "bad"
  /\ \A w \in bucket.windows :
       w.slot \in Slots /\ w.duration # "bad" /\ (w.resets = "null" \/ CachedTime(w.resets))
  /\ \A v, w \in bucket.windows : v.slot = w.slot => v = w

CacheAccepts(fetched) ==
  /\ fetched.windows # {}
  /\ ~Ambiguous(fetched.windows)
  /\ \A w \in fetched.windows : CachedTime(w.resets)
  /\ fetched.buckets # {}
  /\ \A bucket \in fetched.buckets : CachedBucket(bucket)
  /\ Cardinality(fetched.buckets) > 1 => \A bucket \in fetched.buckets : bucket.origin = "map_key"
  /\ Cardinality({bucket.id : bucket \in fetched.buckets}) = Cardinality(fetched.buckets)
=============================================================================
