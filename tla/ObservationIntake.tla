------------------------- MODULE ObservationIntake --------------------------
(***************************************************************************)
(* internal/observationlog in full: what a host reports is checked,        *)
(* redacted, cut to size and stored under its ID with an audit event;      *)
(* listings and the audit trail read the two tables back, newest first. A  *)
(* text is a sequence of pieces of one or two bytes. ObservationLog is     *)
(* what this promises.                                                     *)
(***************************************************************************)
EXTENDS Integers, Sequences, SequencesExt, FiniteSets, FiniteSetsExt

CONSTANTS
  Requests,     \* what hosts report
  ListQueries, TrailQueries,
  OwnIds, NewIds, IdOrder,  \* IDs of hosts and of the service, and all of them in their order
  Times, Default,           \* clock readings, and the workspace of the service
  MaxObserved,
  KnownKinds, Trimmed, Malformed,      \* of IDs and keys
  Bytes, Half,         \* of pieces: size, and what stands before a cut, or a colon, within it
  Words,               \* pieces that hold a word for secrets, as most placeholders do
  Opening, Closing, Placeholder,  \* of each rule
  InputMax, OutputMax, ValueMax, MetadataMax, DefaultLimit, MaxLimit, Absent

VARIABLES
  rows,      \* goncho_observations: [id, at, content]
  events,    \* goncho_audit_events
  answers,   \* history: the request, and what the row it was answered with says
  listed     \* the last listing, or the last trail, until something is observed

intakeVars == <<rows, events, answers, listed>>

Nothing == [of |-> "nothing"]

IntakeTypeOK ==
  /\ \A r \in rows : r.id \in OwnIds \cup NewIds /\ r.content.kind \in KnownKinds
  /\ {e.target : e \in events} \subseteq OwnIds \cup NewIds
  /\ listed.of \in {"nothing", "rows", "events"}

IntakeInit == rows = {} /\ events = {} /\ answers = {} /\ listed = Nothing

-----------------------------------------------------------------------------
\* Redaction

\* The rules in the order they are applied, each to what the ones before it left. A passage
\* ends with the first closing mark, a word with the next blank, a pair of JSON with its value.
observationRedactionRules ==
  << [kind |-> "private", match |-> "passage"], [kind |-> "pem_private_key", match |-> "passage"],
     [kind |-> "authorization", match |-> "word"], [kind |-> "json_secret", match |-> "pair"],
     [kind |-> "env_secret", match |-> "word"], [kind |-> "api_key", match |-> "token"] >>

Quote == "'"
Colon == ":"
Blank == " "

NextOf(t, i, piece) == Min({j \in i..Len(t) : t[j] = piece} \cup {Len(t) + 1})
PastBlanks(t, i) == Min({j \in i..Len(t) : t[j] # Blank} \cup {Len(t) + 1})

\* A quoted key that holds a word for secrets, and its quoted value.
KeyOfPair(t, i) == (i + 1)..(NextOf(t, i + 1, Quote) - 1)
IsAt(t, i, piece) == i <= Len(t) /\ t[i] = piece
ValueEnd(t, value) == IF IsAt(t, value, Quote) THEN NextOf(t, value + 1, Quote) ELSE Len(t) + 1
EndAfterColon(t, colon) == IF IsAt(t, colon, Colon) THEN ValueEnd(t, PastBlanks(t, colon + 1)) ELSE Len(t) + 1
PairEnd(t, i) ==
  IF \E k \in KeyOfPair(t, i) : t[k] \in Words
  THEN EndAfterColon(t, PastBlanks(t, NextOf(t, i + 1, Quote) + 1)) ELSE Len(t) + 1

WordEnd(t, word) == IF word <= Len(t) THEN NextOf(t, word, Blank) - 1 ELSE Len(t) + 1

\* Where a match of the rule that begins at i ends, or past the text.
End(rule, t, i) ==
  CASE t[i] # Opening[rule.kind] -> Len(t) + 1
    [] t[i] = Opening[rule.kind] /\ rule.match = "token" -> i
    [] t[i] = Opening[rule.kind] /\ rule.match = "pair" -> PairEnd(t, i)
    [] t[i] = Opening[rule.kind] /\ rule.match = "passage" -> NextOf(t, i + 1, Closing[rule.kind])
    [] t[i] = Opening[rule.kind] /\ rule.match = "word" -> WordEnd(t, PastBlanks(t, i + 1))

\* A pair keeps what stands before its first colon, which may be that of a placeholder
\* within its key.
Replacement(rule, t, i, j) ==
  LET colon == Min({k \in i..j : t[k] = Colon \/ \E kind \in DOMAIN Placeholder : t[k] = Placeholder[kind]})
  IN IF rule.match # "pair" THEN <<Placeholder[rule.kind]>>
     ELSE SubSeq(t, i, colon - 1) \o Half[t[colon]] \o <<Colon, Quote, Placeholder[rule.kind], Quote>>

\* What the text is from i on, where a match ends at j, given what it is from each place on.
ReplacedAt(rule, t, i, j, from) ==
  LET rest == from[IF j > Len(t) THEN i + 1 ELSE j + 1] IN
    IF j > Len(t) THEN [rest EXCEPT !.text = <<t[i]>> \o @]
    ELSE [text |-> Replacement(rule, t, i, j) \o rest.text, found |-> rest.found + 1]
Replaced(rule, t) ==
  LET from[i \in 1..Len(t) + 1] ==
        IF i > Len(t) THEN [text |-> <<>>, found |-> 0] ELSE ReplacedAt(rule, t, i, End(rule, t, i), from)
  IN from[1]

Recorded(rule, kinds, left) == [text |-> left.text, kinds |-> kinds \o [k \in 1..left.found |-> rule.kind]]
Applied(rule, told) == Recorded(rule, told.kinds, Replaced(rule, told.text))
redactObservationString(t) ==
  LET after[n \in 0..Len(observationRedactionRules)] ==
        IF n = 0 THEN [text |-> t, kinds |-> <<>>] ELSE Applied(observationRedactionRules[n], after[n - 1])
  IN after[Len(observationRedactionRules)]

Size(t) == FoldLeft(LAMBDA n, p : n + Bytes[p], 0, t)

\* The first bytes, without the part of a character that does not fit.
truncateUTF8Bytes(t, limit) ==
  LET n == Max({k \in 0..Len(t) : Size(SubSeq(t, 1, k)) <= limit})
      kept == SubSeq(t, 1, n)
  IN IF n = Len(t) \/ Size(kept) = limit THEN kept ELSE kept \o Half[t[n + 1]]

\* Mutant: cut, then redacted.
CutThenRedacted(t, limit) ==
  redactObservationString(truncateUTF8Bytes(t, limit)) @@ [bytes |-> Size(t), cut |-> Size(t) > limit]
Cut(redacted, limit) ==
  [text |-> truncateUTF8Bytes(redacted.text, limit), kinds |-> redacted.kinds,
   bytes |-> Size(redacted.text), cut |-> Size(redacted.text) > limit]
Field(t, limit) == Cut(redactObservationString(t), limit)

-----------------------------------------------------------------------------
\* What is stored of a request

MetadataKeys(p) == {Trimmed[k] : k \in DOMAIN p.metadata}
Metadata(p) ==
  [key \in MetadataKeys(p) |->
     redactObservationString(p.metadata[CHOOSE k \in DOMAIN p.metadata : Trimmed[k] = key]).text]

\* Keys that are the same once trimmed are refused, and so is a custom kind without a name.
MetadataValid(p) ==
  /\ "" \notin MetadataKeys(p) /\ MetadataKeys(p) \cap Malformed = {}
  /\ Cardinality(MetadataKeys(p)) = Cardinality(DOMAIN p.metadata)
  /\ \A key \in MetadataKeys(p) : Size(Metadata(p)[key]) <= ValueMax
  /\ FoldLeft(LAMBDA n, key : n + 1 + Size(Metadata(p)[key]), 0, SetToSeq(MetadataKeys(p))) <= MetadataMax
  /\ p.kind = "custom" => "custom_kind" \in MetadataKeys(p) /\ Metadata(p)["custom_kind"] # <<>>

Scope == {"workspace", "profile", "peer", "session", "context"}

\* A wildcard is a workspace of queries only.
Valid(p) ==
  /\ Trimmed[p.kind] \in KnownKinds
  /\ MetadataValid(p)
  /\ {Trimmed[p[s]] : s \in Scope \cup {"id"}} \cap Malformed = {}
  /\ Trimmed[p.workspace] # "*"

Workspace(asked) == IF Trimmed[asked] = "" THEN Default ELSE Trimmed[asked]

RedactionKinds(p) ==
  Field(p.input, InputMax).kinds \o Field(p.output, OutputMax).kinds \o
  FlattenSeq([i \in 1..Cardinality(DOMAIN p.metadata) |->
     redactObservationString(p.metadata[SetToSeq(DOMAIN p.metadata)[i]]).kinds])

\* All of an observation but its ID and time: what the checksum is of.
ContentOf(p, input, output) ==
  [kind |-> Trimmed[p.kind], success |-> p.success, metadata |-> Metadata(p),
   scope |-> [s \in Scope |-> IF s = "workspace" THEN Workspace(p.workspace) ELSE Trimmed[p[s]]],
   input |-> input.text, inputCut |-> input.cut, inputBytes |-> input.bytes,
   output |-> output.text, outputCut |-> output.cut, outputBytes |-> output.bytes,
   redactions |-> Len(RedactionKinds(p))]
Content(p) == ContentOf(p, Field(p.input, InputMax), Field(p.output, OutputMax))

Reason(p) ==
  LET reason == IF p.reason = <<>> THEN <<"observe">> ELSE p.reason IN
    truncateUTF8Bytes(redactObservationString(reason).text, ValueMax)

observationAuditMetadata(content, kinds) ==
  [kinds |-> ToSet(kinds), redactions |-> content.redactions,
   inputCut |-> content.inputCut, outputCut |-> content.outputCut,
   inputBytes |-> content.inputBytes, outputBytes |-> content.outputBytes]

AuditEvent(id, p, now) ==
  [target |-> id, at |-> now, reason |-> Reason(p),
   scope |-> [s \in {"workspace", "peer", "session"} |-> Content(p).scope[s]],
   metadata |-> observationAuditMetadata(Content(p), RedactionKinds(p))]

-----------------------------------------------------------------------------
\* Observe

\* Mutant: what was said before is not compared.
SameInput(row, p) == row.content.input = Content(p).input
SameChecksum(row, p) == row.content = Content(p)

Answered(id, p, content) == answers' = answers \cup {[id |-> id, text |-> p, stored |-> content]}

Row(id, p, now) == [id |-> id, at |-> IF p.at = 0 THEN now ELSE p.at, content |-> Content(p)]
Known(id) == {r \in rows : r.id = id}

Insert(id, p, now) ==
  /\ Cardinality(rows) < MaxObserved
  /\ Known(id) = {}
  /\ rows' = rows \cup {Row(id, p, now)}
  /\ events' = events \cup {AuditEvent(id, p, now)}
  /\ Answered(id, p, Content(p))

\* It is answered with its first event, which must be there.
Audited(id) == \E e \in events : e.target = id
Replay(p) ==
  /\ Audited(Trimmed[p.id])
  /\ \E r \in Known(Trimmed[p.id]) : SameChecksum(r, p) /\ Answered(r.id, p, r.content)
  /\ UNCHANGED <<rows, events>>

\* A request without an ID gets a new one.
Observe(p) ==
  /\ Valid(p) /\ listed' = Nothing
  /\ \E now \in Times :
       \/ \E id \in IF Trimmed[p.id] = "" THEN NewIds ELSE {Trimmed[p.id]} : Insert(id, p, now)
       \/ Replay(p)

-----------------------------------------------------------------------------
\* Listings

normalizeObservationLimit(n) == IF n <= 0 THEN DefaultLimit ELSE Min({n, MaxLimit})

\* Mutant: the oldest first.
OldestFirst(a, b) == a.at < b.at
After(a, b) ==
  \/ a.at > b.at
  \/ a.at = b.at /\ \E i, j \in DOMAIN IdOrder : IdOrder[i] = a.id /\ IdOrder[j] = b.id /\ i > j
\* Audit events have IDs of their own; of one time they come in either order.
EventAfter(a, b) == a.at > b.at

FirstOf(s, n) == SubSeq(s, 1, Min({Len(s), n}))
Within(at, q) == (q.since = 0 \/ at >= q.since) /\ (q.until = 0 \/ at <= q.until)

\* A blank filter does not restrict.
Exact(value, wanted) == Trimmed[wanted] \in {"", value}

\* scopekey.Workspace: nothing is the workspace of the service, a wildcard every workspace.
QueriedWorkspace(asked) == IF Trimmed[asked] = "*" THEN "" ELSE Workspace(asked)

ListObservations(q) ==
  LET found == {r \in rows :
        /\ Exact(r.content.scope.workspace, QueriedWorkspace(q.workspace))
        /\ \A s \in Scope \ {"workspace"} : Exact(r.content.scope[s], q[s])
        /\ q.kinds = {} \/ r.content.kind \in q.kinds
        /\ r.content.success \in q.success
        /\ Within(r.at, q)}
  IN
    /\ q.kinds \subseteq KnownKinds
    /\ listed' = [of |-> "rows", query |-> q,
                  found |-> FirstOf(SetToSortSeq(found, After), normalizeObservationLimit(q.limit))]
    /\ UNCHANGED <<rows, events, answers>>

Traced(e, q) ==
  /\ Exact(e.target, q.target) /\ Within(e.at, q)
  /\ \A s \in {"peer", "session"} : Exact(e.scope[s], q[s])
  /\ Exact(e.scope.workspace, QueriedWorkspace(q.workspace))

AuditTrail(q) ==
  LET found == {e \in events : Traced(e, q)} IN
    /\ q.action \in {"", "observe"} /\ q.targetType \in {"", "observation"}
    /\ \E order \in {s \in [1..Cardinality(found) -> found] :
                       IsInjective(s) /\ \A i, j \in DOMAIN s : i < j => ~ EventAfter(s[j], s[i])} :
         listed' = [of |-> "events", query |-> q,
                    found |-> FirstOf(order, normalizeObservationLimit(q.limit))]
    /\ UNCHANGED <<rows, events, answers>>

IntakeNext ==
  \/ \E p \in Requests : Observe(p)
  \/ \E q \in ListQueries : ListObservations(q)
  \/ \E q \in TrailQueries : AuditTrail(q)

-----------------------------------------------------------------------------
\* What the log promises

\* What a redaction leaves is not redacted any further, however it is cut, but for a pair of
\* JSON whose key holds a placeholder: of a rule that comes later, or of one that broke a pair.
Final(t) ==
  /\ \A i \in DOMAIN t : \A rule \in ToSet(observationRedactionRules) :
       rule.match # "pair" => End(rule, t, i) > Len(t)
  /\ redactObservationString(t).text # t =>
       \E i \in DOMAIN t :
         /\ t[i] = Quote /\ PairEnd(t, i) <= Len(t)
         /\ \E k \in KeyOfPair(t, i), kind \in DOMAIN Placeholder : t[k] = Placeholder[kind]

\* Nothing that redaction takes out of a text is stored, and what is stored, the reason
\* included, is final (log.go:295-303, 361-366, 716-748).
RedactedForGood ==
  LET Said(c) == {c.input, c.output} \cup {c.metadata[k] : k \in DOMAIN c.metadata}
      Hidden(t) == ToSet(t) \ ToSet(redactObservationString(t).text)
  IN
    /\ \A t \in UNION {Said(r.content) : r \in rows} \cup {e.reason : e \in events} : Final(t)
    /\ \A a \in answers :
         /\ ToSet(a.stored.input) \cap Hidden(a.text.input) = {}
         /\ ToSet(a.stored.output) \cap Hidden(a.text.output) = {}

\* The same of any text and cut, stored or not (log.go:293-303).
CutsAreFinal(texts, limits) == \A t \in texts, limit \in limits : Final(Field(t, limit).text)

\* Each row has one event, which tells of it what the row says and why it was redacted
\* (log.go:367-368, 618-628).
EventsTellRows ==
  \A r \in rows : \E e \in events :
    /\ {f \in events : f.target = r.id} = {e}
    /\ \A s \in DOMAIN e.scope : e.scope[s] = r.content.scope[s]
    /\ LET said == e.metadata IN
         /\ said.inputCut = r.content.inputCut /\ said.outputCut = r.content.outputCut
         /\ said.inputBytes = r.content.inputBytes /\ said.redactions = r.content.redactions
         /\ said.kinds = {} <=> said.redactions = 0

\* A listing is of the newest rows that it was asked for, and leaves one out only for its
\* limit; without a wildcard it is of one workspace (log.go:207-281, observations.go:66-76).
Wanted(r, q) ==
  /\ Trimmed[q.workspace] = "" => r.content.scope.workspace = Default
  /\ Trimmed[q.workspace] \in {"", "*", r.content.scope.workspace}
  /\ \A s \in Scope \ {"workspace"} : Trimmed[q[s]] # "" => Trimmed[q[s]] = r.content.scope[s]
  /\ q.kinds # {} => r.content.kind \in q.kinds
  /\ r.content.success \in q.success
  /\ Within(r.at, q)
ListingsAreTheNewest ==
  listed.of = "rows" =>
    LET wanted == {r \in rows : Wanted(r, listed.query)}
        shown == ToSet(listed.found)
    IN
      /\ shown \subseteq wanted
      /\ \A r \in wanted \ shown :
           /\ Cardinality(shown) = normalizeObservationLimit(listed.query.limit)
           /\ \A s \in shown : s.at >= r.at
      /\ \A i \in DOMAIN listed.found : i > 1 => listed.found[i].at <= listed.found[i - 1].at

\* An observation is found under its ID, whatever else was observed in between.
Promised == INSTANCE ObservationLog WITH
  Ids <- OwnIds \cup NewIds, None <- Absent,
  Texts <- {p \in Requests : Valid(p)}, Redacted <- [p \in {r \in Requests : Valid(r)} |-> Content(p)],
  observations <- [id \in OwnIds \cup NewIds |->
                     IF Known(id) = {} THEN Absent ELSE (CHOOSE r \in Known(id) : TRUE).content],
  audits <- {e.target : e \in events}
LogStep ==
  \/ UNCHANGED Promised!logVars
  \/ \E p \in {q \in Requests : Valid(q)} : \E id \in OwnIds \cup NewIds : Promised!Observe(id, p)
=============================================================================
