-------------------------- MODULE VendorCollectors --------------------------
(***************************************************************************)
(* What a collector's collect() can hand to the importer: the pages of the *)
(* vendor's management API, followed by their cursors, and the rows their  *)
(* buckets are normalised to.  A row is reduced to its import identity,    *)
(* its value, and whether the importer can keep it.                        *)
(***************************************************************************)
EXTENDS Naturals, Sequences, SequencesExt

CONSTANTS
  UsageKeys, CostKeys,  \* import identities of usage rows and of cost rows
  Values,               \* reported values
  Cursors,              \* page cursors
  None,                 \* Python's None
  MaxPages,             \* _MAX_PAGES
  PageRows              \* bound: rows of a page

Kept(keys)  == [kind : {"kept"}, key : keys, val : Values]
Invalid     == [kind |-> "invalid", key |-> None, val |-> None]
Unsupported == [kind |-> "unsupported", key |-> None, val |-> None]

\* The rows of one page.  A bucket without a number gives none, one without a
\* proper period gives a row that CollectorNormalizedRecord rejects.
OpenAIUsage == SeqOf(Kept(UsageKeys) \cup {Invalid}, PageRows)
OpenAICosts == SeqOf(Kept(CostKeys) \cup {Invalid}, PageRows)
ClaudeUsage == SeqOf(Kept(UsageKeys) \cup {Invalid}, PageRows)
ClaudeCosts == SeqOf(Kept(CostKeys) \cup {Invalid}, PageRows)
GeminiUsage == SeqOf(Kept(UsageKeys) \cup {Invalid}, 2 * PageRows)

\* Limits, not history: never persisted, and their period is the present instant.
OpenAISpendLimit == {<<>>, <<Unsupported>>}
GeminiQuota      == SeqOf({Unsupported}, PageRows)

Page(rows) == [rows : rows, next : Cursors \cup {None}, more : BOOLEAN]

\* Page n names a cursor that no earlier page named.  The first page has none of
\* its own, so a vendor that names it later has it read twice.
NewCursor(a, n) == a[n].next # None /\ \A i \in 1 .. n - 1 : a[i].next # a[n].next

OpenAIGoesOn(a, n) == NewCursor(a, n)
ClaudeGoesOn(a, n) == a[n].more /\ NewCursor(a, n)

\* The rows read from the answers a, which go on after the pages `onward', and
\* whose reading ends after MaxPages.
Read(a, onward) ==
  LET last == CHOOSE n \in DOMAIN a :
                (n = MaxPages \/ n \notin onward) /\ 1 .. n - 1 \subseteq onward
  IN  FlattenSeq([i \in 1 .. last |-> a[i].rows])

Answers(rows) == [1 .. MaxPages -> Page(rows)]
OpenAIPages(rows) == {Read(a, {n \in DOMAIN a : OpenAIGoesOn(a, n)}) : a \in Answers(rows)}
ClaudePages(rows) == {Read(a, {n \in DOMAIN a : ClaudeGoesOn(a, n)}) : a \in Answers(rows)}

OpenAICollects ==
  {u \o c \o l : u \in OpenAIPages(OpenAIUsage), c \in OpenAIPages(OpenAICosts),
                 l \in OpenAISpendLimit}
ClaudeCollects ==
  {u \o c : u \in ClaudePages(ClaudeUsage), c \in ClaudePages(ClaudeCosts)}
GeminiCollects == {u \o q : u \in GeminiUsage, q \in GeminiQuota}

=============================================================================
