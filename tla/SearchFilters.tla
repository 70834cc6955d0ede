--------------------------- MODULE SearchFilters ----------------------------
(***************************************************************************)
(* internal/searchfilter: the filter of a search, a map of fields and of   *)
(* lists of more maps, is parsed into an expression; the expression is     *)
(* compiled to the sessions and sources that the lanes of the search can   *)
(* enforce, to a denial of everything, or to an error that it cannot be    *)
(* enforced. A value is a text, a list, a map or nothing; the keys of a    *)
(* map are read in the order of Keys.                                      *)
(***************************************************************************)
EXTENDS Sequences, SequencesExt, FiniteSets

CONSTANTS
  Keys,         \* every key of a map, in alphabetical order
  Trimmed,      \* [text -> text without the spaces around it]
  Lowered,      \* [text -> text in lower case]
  Printed,      \* the text that a list or a map prints as
  Filters,      \* what a caller may ask for
  Calls,        \* [sources, peer, key, origin]: origin is what stands before the colon of the key
  Sessions, NoSession

VARIABLES
  stage, raw, asked,
  compiled,
  found         \* the rows that the lanes of conclusions and turns read

filterVars == <<stage, raw, asked, compiled, found>>

Text(t) == [is |-> "text", text |-> t]
Items(s) == [is |-> "list", items |-> s]
Fields(m) == [is |-> "map", map |-> m]
Nothing == [is |-> "null"]

Rows == [kind : {"conclusion", "turn"}, session : Sessions \cup {NoSession}]
Unrestricted == [sessions |-> {}, sources |-> {}, deny |-> FALSE]

FilterTypeOK ==
  /\ stage \in {"compile", "merge", "read", "done", "denied", "unsupported"}
  /\ found \subseteq Rows
  /\ compiled.deny => compiled = [Unrestricted EXCEPT !.deny = TRUE]
  /\ {"", "*"} \cap compiled.sources = {} \/ stage = "merge"

FilterInit ==
  /\ stage = "compile" /\ raw \in Filters /\ asked \in Calls
  /\ compiled = Unrestricted /\ found = {}

-----------------------------------------------------------------------------
\* The grammar

Equality == {"eq", "in"}
Operators == Equality \cup {"gt", "gte", "lt", "lte", "ne", "contains", "icontains"}
Stored == {"session_id", "peer_id", "source"}
TopLevelFields == Stored \cup {"created_at", "content"}

All == [kind |-> "all"]
Unsupported == [kind |-> "unsupported"]
Comparison(field, op, values) ==
  [kind |-> "comparison", field |-> field, op |-> op, values |-> values]
Refused(children) == Unsupported \in ToSet(children)
Logical(kind, children) ==
  IF Refused(children) THEN Unsupported ELSE [kind |-> kind, children |-> children]

collapseImplicitAnd(children) ==
  CASE children = <<>> -> All
    [] Len(children) = 1 -> children[1]
    [] OTHER -> Logical("and", children)

SortedKeys(m) == SelectSeq(Keys, LAMBDA k : k \in DOMAIN m)

Scalar(v) ==
  CASE v.is = "null" -> ""
    [] v.is = "text" -> Trimmed[v.text]
    [] OTHER -> Printed

Condition(field, op, v) ==
  CASE op \notin Operators -> Unsupported
    [] op # "in" -> Comparison(field, op, {Scalar(v)})
    [] v.is = "list" -> Comparison(field, op, {Scalar(item) : item \in ToSet(v.items)})
    [] OTHER -> Unsupported

OperatorConditions(field, ops) ==
  IF ops = <<>> THEN Unsupported
  ELSE LET keys == SortedKeys(ops) IN
    collapseImplicitAnd([i \in DOMAIN keys |-> Condition(field, keys[i], ops[keys[i]])])

FieldCondition(field, v) ==
  IF v.is = "map" THEN OperatorConditions(field, v.map) ELSE Condition(field, "eq", v)

\* A map under a metadata key is of operators, all of them, or of more keys.
RECURSIVE MetadataMap(_)
MetadataMap(m) ==
  LET keys == SortedKeys(m)
      Child(v) ==
        IF v.is = "map" /\ DOMAIN v.map # {} /\ DOMAIN v.map \cap Operators = {}
          THEN MetadataMap(v.map) ELSE FieldCondition("metadata", v)
  IN collapseImplicitAnd([i \in DOMAIN keys |-> Child(m[keys[i]])])

LogicalKinds == [AND |-> "and", OR |-> "or", NOT |-> "not"]

RECURSIVE FilterMap(_)
FilterMap(m) ==
  LET keys == SortedKeys(m)
      Clause(v) == IF v.is = "map" THEN FilterMap(v.map) ELSE Unsupported
      Child(key, v) ==
        CASE key \in DOMAIN LogicalKinds ->
               IF v.is # "list" THEN Unsupported
               ELSE Logical(LogicalKinds[key], [i \in DOMAIN v.items |-> Clause(v.items[i])])
          [] key = "metadata" -> IF v.is = "map" THEN MetadataMap(v.map) ELSE Unsupported
          [] key \in TopLevelFields -> FieldCondition(key, v)
          [] OTHER -> Unsupported
  IN collapseImplicitAnd([i \in DOMAIN keys |-> Child(keys[i], m[keys[i]])])

-----------------------------------------------------------------------------
\* The compiler

\* Mutant: lists that have nothing in common do not restrict.
IntersectionOrAll(a, b) == IF a = {} THEN b ELSE IF b = {} \/ a \cap b = {} THEN a ELSE a \cap b
\* Mutant: a wildcard is like any other value.
PlainIntersection(a, b) == IF a = {} THEN b ELSE IF b = {} THEN a ELSE a \cap b
\* No values and a wildcard restrict nothing.
intersectFilterValues(a, b) ==
  IF a = {} \/ ("*" \in a /\ b # {}) THEN b ELSE IF b = {} \/ "*" \in b THEN a ELSE a \cap b

Emptied(a, b) == a # {} /\ b # {} /\ intersectFilterValues(a, b) = {}

DenyAll == [Unrestricted EXCEPT !.deny = TRUE]

mergeCompiledSearchFilters(a, b) ==
  IF a.deny \/ b.deny \/ Emptied(a.sessions, b.sessions) \/ Emptied(a.sources, b.sources)
    THEN DenyAll
  ELSE [sessions |-> intersectFilterValues(a.sessions, b.sessions),
        sources |-> intersectFilterValues(a.sources, b.sources), deny |-> FALSE]

NormalizeEqualityValues(values, lower) ==
  {IF lower THEN Lowered[Trimmed[v]] ELSE Trimmed[v] : v \in values} \ {""}

\* Mutant: a filter without a value that could match does not restrict.
BlankMatchesAll(values, restriction) == restriction
\* A filter without a value that could match denies everything.
OrDenied(values, restriction) == IF values = {} THEN DenyAll ELSE restriction

compileComparisonFilter(c, peer) ==
  LET values == NormalizeEqualityValues(c.values, c.field = "source") IN
    CASE c.field = "session_id" -> OrDenied(values, [Unrestricted EXCEPT !.sessions = values])
      [] c.field = "source" -> OrDenied(values, [Unrestricted EXCEPT !.sources = values])
      [] c.field = "peer_id" -> IF {"*", peer} \cap values # {} THEN Unrestricted ELSE DenyAll

Enforced(e) ==
  \/ e.kind = "all"
  \/ e.kind = "comparison" /\ e.field \in Stored /\ e.op \in Equality

\* A conjunction is compiled child by child; one that cannot be enforced fails it.
RECURSIVE Compile(_, _)
Compile(e, peer) ==
  CASE e.kind = "and" ->
         LET children == [i \in DOMAIN e.children |-> Compile(e.children[i], peer)] IN
           IF Refused(children) THEN Unsupported
           ELSE FoldLeft(mergeCompiledSearchFilters, Unrestricted, children)
    [] ~ Enforced(e) /\ e.kind # "and" -> Unsupported
    [] e.kind = "all" -> Unrestricted
    [] e.kind = "comparison" /\ Enforced(e) -> compileComparisonFilter(e, peer)

-----------------------------------------------------------------------------
\* The search

ParseAndCompile ==
  /\ stage = "compile"
  /\ LET c == Compile(FilterMap(raw), asked.peer) IN
       IF c = Unsupported
         THEN stage' = "unsupported" /\ UNCHANGED compiled
         ELSE stage' = "merge" /\ compiled' = c
  /\ UNCHANGED <<raw, asked, found>>

\* The sources of the call and of the filter; a denial returns before any lane.
MergeSources ==
  LET fromCall == NormalizeEqualityValues(asked.sources, TRUE)
      merged == intersectFilterValues(fromCall, compiled.sources)
  IN
    /\ stage = "merge"
    /\ IF compiled.deny \/ Emptied(fromCall, compiled.sources)
         THEN stage' = "denied" /\ compiled' = DenyAll
         ELSE /\ stage' = "read"
              /\ compiled' = [compiled EXCEPT !.sources = IF "*" \in merged THEN {} ELSE merged]
    /\ UNCHANGED <<raw, asked, found>>

\* A row without a session is in no list of sessions.
SessionListed(row) == compiled.sessions = {} \/ {"*", row.session} \cap compiled.sessions # {}
SessionKeyMatchesSources == compiled.sources = {} \/ {"turn", asked.origin} \cap compiled.sources # {}

\* Conclusions are read when any source will do; turns are those of the chat of the call.
ConclusionRead(row) ==
  /\ compiled.sources = {}
  /\ asked.key = "" \/ row.session \in {asked.key, NoSession}
  /\ SessionListed(row)
TurnRead(row) == asked.key # "" /\ SessionKeyMatchesSources /\ SessionListed(row)

Read ==
  /\ stage = "read" /\ stage' = "done"
  /\ found' = {r \in Rows : IF r.kind = "turn" THEN TurnRead(r) ELSE ConclusionRead(r)}
  /\ UNCHANGED <<raw, asked, compiled>>

FilterNext == ParseAndCompile \/ MergeSources \/ Read

-----------------------------------------------------------------------------
\* What a filter says of a row, read off the map itself.

SaysOneOf(texts, names) == \E t \in texts : t # "" /\ (t = "*" \/ t \in names)
ValueTexts(op, v) == IF op = "in" THEN {Scalar(i) : i \in ToSet(v.items)} ELSE {Scalar(v)}
FieldSays(v, names) ==
  IF v.is # "map" THEN SaysOneOf({Scalar(v)}, names)
  ELSE \A op \in DOMAIN v.map : SaysOneOf(ValueTexts(op, v.map[op]), names)

RECURSIVE Satisfies(_, _, _)
Satisfies(m, row, source) ==
  \A key \in DOMAIN m :
    CASE key = "AND" -> \A i \in DOMAIN m[key].items : Satisfies(m[key].items[i].map, row, source)
      [] key = "session_id" -> FieldSays(m[key], {row.session})
      [] key = "peer_id" -> FieldSays(m[key], {asked.peer})
      [] key = "source" -> FieldSays(m[key], {t \in DOMAIN Lowered : Lowered[t] = source})
      [] OTHER -> TRUE

\* Nothing but equality on what is stored, and a map of metadata that says nothing.
FieldEnforceable(v) ==
  v.is = "map" => /\ DOMAIN v.map # {} /\ DOMAIN v.map \subseteq Equality
                  /\ "in" \in DOMAIN v.map => v.map["in"].is = "list"
RECURSIVE Enforceable(_)
Enforceable(m) ==
  \A key \in DOMAIN m :
    CASE key = "AND" ->
           /\ m[key].is = "list"
           /\ \A i \in DOMAIN m[key].items : m[key].items[i].is = "map" /\ Enforceable(m[key].items[i].map)
      [] key = "metadata" -> m[key] = Fields(<<>>)
      [] key \in Stored -> FieldEnforceable(m[key])
      [] OTHER -> FALSE

SourceWanted(source) ==
  LET wanted == NormalizeEqualityValues(asked.sources, TRUE) IN
    wanted = {} \/ {"*", source} \cap wanted # {}
Chosen(row, source) == Satisfies(raw, row, source) /\ SourceWanted(source)

\* A filter is enforced or refused, never ignored: a search that answers shows the turns
\* of its chat that the filter and the sources of the call choose, by the kind of the row
\* or the origin of the chat, and the conclusions they choose whatever the source; and a
\* search that is denied had nothing to show.
FiltersEnforced ==
  /\ stage \notin {"compile", "unsupported"} => Enforceable(raw)
  /\ stage = "unsupported" => ~ Enforceable(raw)
  /\ stage \in {"done", "denied"} => \A r \in Rows :
       r \in found <=>
         IF r.kind = "turn"
           THEN asked.key # "" /\ \E s \in {"turn", asked.origin} \ {""} : Chosen(r, s)
           ELSE /\ asked.key = "" \/ r.session \in {asked.key, NoSession}
                /\ Chosen(r, "another")
=============================================================================
