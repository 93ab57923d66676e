--------------------------- MODULE MCCodexSession ---------------------------
(* Answers for CodexSession: every pair of windows in the legacy view with   *)
(* no map, and every map of up to two entries beside a plain legacy view.    *)
EXTENDS CodexSession

W(used, duration, resets) == [used |-> used, duration |-> duration, resets |-> resets]
Null  == W("absent", "null", "null")
Plain == W("integer", "five_hour", "time")

(* One class is off at a time; further ones behave alike. *)
MCWindows ==
  {Null, Plain, W("bad", "five_hour", "time"), W("fraction", "five_hour", "time")}
    \cup {W("integer", d, "time") : d \in {"weekly", "other", "null", "bad"}}
    \cup {W("integer", "weekly", r) : r \in {"negative", "fraction", "null", "bad"}}

Snap(shape, primary, secondary, limitId, name) ==
  [shape |-> shape, window |-> [primary |-> primary, secondary |-> secondary],
   limitId |-> limitId, name |-> name]

LegacySnapshots ==
  {Snap("object", p, s, i, n) : p \in MCWindows, s \in MCWindows,
                                i \in Ids \cup {"null", "empty", "bad"}, n \in {"string", "bad"}}

Entries ==
  {Snap("object", p, s, i, "null") : p \in MCWindows, s \in {Null, Plain}, i \in {"null"} \cup Ids}
    \cup {Snap("bad", Null, Null, "null", "null"), Snap("object", Null, Null, "null", "bad")}

Answer(shape, snapshot, mapShape, map) ==
  [shape |-> shape, rateLimits |-> snapshot, mapShape |-> mapShape, byLimitId |-> map]
PlainSnapshot == Snap("object", Plain, Null, "null", "string")
NoMap == [k \in {} |-> PlainSnapshot]

MCAnswers ==
  {Answer("object", s, "object", NoMap) : s \in LegacySnapshots}
    \cup {Answer("object", PlainSnapshot, "object", m) :
            m \in UNION {[K -> Entries] : K \in {{k} : k \in Ids \cup {"empty"}}}}
    \cup {Answer("object", PlainSnapshot, "object", [k \in Ids |-> Snap("object", Plain, Null, i, "null")]) :
            i \in {"null"} \cup Ids}
    \cup {Answer("bad", PlainSnapshot, "object", NoMap), Answer("object", PlainSnapshot, "bad", NoMap),
          Answer("object", Snap("bad", Null, Null, "null", "null"), "object", NoMap)}
=============================================================================
