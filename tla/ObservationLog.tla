--------------------------- MODULE ObservationLog ---------------------------
(***************************************************************************)
(* internal/observationlog: what hosts observe, and the audit of it. One   *)
(* transaction looks for an observation of the ID, and inserts it with its *)
(* audit event if there is none. The text is redacted and cut first; what  *)
(* is left, without ID and time, is the checksum.                          *)
(***************************************************************************)
EXTENDS Integers, FiniteSets

CONSTANTS
  Ids,       \* IDs of observations, a host's own or new ones
  Texts,     \* contents hosts send
  Redacted,  \* what redaction leaves of a text
  None       \* no observation

VARIABLES
  observations,  \* the stored text of each ID, or None
  audits,        \* IDs of the observations that have an audit event
  answers        \* history: the text and the result of each answered Observe

logVars == <<observations, audits, answers>>

Stored == {Redacted[text] : text \in Texts}
Answer == [id : Ids, text : Texts, stored : Stored]

LogTypeOK ==
  /\ observations \in [Ids -> Stored \cup {None}]
  /\ audits \subseteq Ids /\ answers \subseteq Answer

LogInit ==
  /\ observations = [id \in Ids |-> None]
  /\ audits = {} /\ answers = {}

\* Mutant: whatever has the ID is a replay of it.
AnyOfThatID(id, text) == TRUE
SameChecksum(id, text) == observations[id] = Redacted[text]

Answered(id, text, stored) ==
  answers' = answers \cup {[id |-> id, text |-> text, stored |-> stored]}

\* A new observation and its audit event, in one transaction. A blank ID is
\* replaced by a new one first, so it takes this way too.
ObserveNew(id, text) ==
  /\ observations[id] = None
  /\ observations' = [observations EXCEPT ![id] = Redacted[text]]
  /\ audits' = audits \cup {id}
  /\ Answered(id, text, Redacted[text])

\* The observation is sent again: it is answered by what is stored, if its first
\* audit event is found. Another text, or no event, is an error.
ObserveAgain(id, text) ==
  /\ observations[id] # None
  /\ IF SameChecksum(id, text) /\ id \in audits
     THEN Answered(id, text, observations[id])
     ELSE UNCHANGED answers
  /\ UNCHANGED <<observations, audits>>

\* A kind, ID or metadata that is not valid, or a failed statement, leaves nothing.
Observe(id, text) == ObserveNew(id, text) \/ ObserveAgain(id, text)

=============================================================================
