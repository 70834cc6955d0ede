-------------------------- MODULE RecallSelection ---------------------------
(***************************************************************************)
(* service/recall_pipeline.go: candidates of a recall are scored - a sum   *)
(* of weighted signals, and for each signal a share for the candidate's    *)
(* rank in it - and sorted; those of another scope are rejected; then the  *)
(* best of the rest is chosen again and again, as chosen ones change what  *)
(* is best, until the limit or the token budget is reached. Scores are     *)
(* millionths, as roundRecallFloat leaves them.                            *)
(***************************************************************************)
EXTENDS Integers, Sequences, SequencesExt, FiniteSetsExt

CONSTANTS
  Memories,   \* candidates, of distinct IDs
  Generated,  \* sequences of candidates a generator may return
  Queries,    \* [scope, limit, maxTokens, current, weights, keys, budget]
  Heard       \* sequences of warnings a generator may report

VARIABLES
  query, input, stage,
  scored,     \* candidates with their scores, in order
  remaining,  \* eligible and not yet chosen or rejected
  selected, rejected, warnings  \* scores as they told them, and codes raised

selectionVars == <<query, input, stage, scored, remaining, selected, rejected, warnings>>

One == 1000000
Signals == {"keyword", "fact", "scope"}
Blank == ""

SelectionTypeOK ==
  /\ query \in Queries /\ input \in Generated
  /\ stage \in {"score", "scope", "select", "done"}
  /\ \A i \in DOMAIN scored : scored[i].of \in Memories /\ scored[i].final \in 0..2*One
  /\ warnings \subseteq {"scope_excluded_all_candidates", "superseded_evidence_observed",
                         "token_budget_truncated"}

SelectionInit ==
  /\ query \in Queries /\ input \in Generated
  /\ stage = "score"
  /\ scored = <<>> /\ remaining = <<>> /\ selected = <<>> /\ rejected = <<>> /\ warnings = {}

-----------------------------------------------------------------------------
\* Scores

Clamp(x) == IF x < 0 THEN 0 ELSE IF x > One THEN One ELSE x

scopeRecallScore(q, c) ==
  CASE c.scope = q.scope -> IF q.scope = Blank THEN One \div 2 ELSE One
    [] q.scope = Blank -> One
    [] c.scope = Blank -> One \div 2
    [] OTHER -> 0

Signal(q, c, s) == IF s = "scope" THEN scopeRecallScore(q, c) ELSE c.signals[s]

\* Weights are hundredths.
weightedRecallScore(q, c) ==
  Clamp(MapThenSumSet(LAMBDA s : q.weights[s] * (Signal(q, c, s) \div 100), Signals))

\* Mutant: equal scores keep the order of the generator.
AnyOrder(a, b) == FALSE
LowerID(a, b) == a.id < b.id

\* rankedRecallSignalIndexes: places of the candidates that have the signal.
Ranked(q, cs, s) ==
  LET with == {i \in DOMAIN cs : Signal(q, cs[i], s) > 0}
      before(i, j) ==
        LET x == Signal(q, cs[i], s)
            y == Signal(q, cs[j], s)
        IN x > y \/ (x = y /\ (LowerID(cs[i], cs[j]) \/ (~LowerID(cs[j], cs[i]) /\ i < j)))
  IN SetToSortSeq(with, before)

RRFK == 60
addRecallRRF(q, cs, i) ==
  MapThenSumSet(
    LAMBDA s : LET ranked == Ranked(q, cs, s)
               IN (q.weights[s] * 10000) \div (RRFK + CHOOSE r \in DOMAIN ranked : ranked[r] = i),
    {s \in Signals : q.weights[s] # 0 /\ Signal(q, cs[i], s) > 0})

\* compareScoredRecall
Better(a, b) ==
  \/ a.final > b.final
  \/ a.final = b.final /\ a.rrf > b.rrf
  \/ a.final = b.final /\ a.rrf = b.rrf /\ LowerID(a.of, b.of)

Scored(q, cs) ==
  LET score(i) == LET rrf == addRecallRRF(q, cs, i)
                  IN [of |-> cs[i], rrf |-> rrf, final |-> weightedRecallScore(q, cs[i]) + rrf]
      all == [i \in DOMAIN cs |-> score(i)]
      before(i, j) == Better(all[i], all[j]) \/ (~Better(all[j], all[i]) /\ i < j)
      order == SetToSortSeq(DOMAIN cs, before)
  IN [k \in DOMAIN order |-> all[order[k]]]

Score ==
  /\ stage = "score" /\ stage' = "scope"
  /\ scored' = Scored(query, input)
  /\ UNCHANGED <<query, input, remaining, selected, rejected, warnings>>

-----------------------------------------------------------------------------
\* Selection

recallScopeMismatch(q, c) == q.scope # Blank /\ c.scope # Blank /\ c.scope # q.scope

Rejection(x, reason) == [of |-> x.of, final |-> x.final, reason |-> reason]
Elsewhere == SelectSeq(scored, LAMBDA x : recallScopeMismatch(query, x.of))
Eligible == SelectSeq(scored, LAMBDA x : ~recallScopeMismatch(query, x.of))

\* newRecallSelectionFlow, and the warning about superseded evidence.
Scope ==
  /\ stage = "scope" /\ stage' = "select"
  /\ remaining' = Eligible
  /\ rejected' = [i \in DOMAIN Elsewhere |-> Rejection(Elsewhere[i], "scope_mismatch")]
  /\ warnings' =
       {w \in {"scope_excluded_all_candidates"} : scored # <<>> /\ Eligible = <<>>} \cup
       {w \in {"superseded_evidence_observed"} :
          query.current /\ \E i \in DOMAIN Eligible : Eligible[i].of.temporal = "superseded"}
  /\ UNCHANGED <<query, input, scored, selected>>

Limit == IF query.limit <= 0 THEN 5 ELSE query.limit
TokenBudget == IF query.maxTokens > 0 THEN query.maxTokens ELSE query.budget

Collisions(c, chosen) ==
  {k \in query.keys : c.groups[k] # Blank /\ \E i \in DOMAIN chosen : chosen[i].of.groups[k] = c.groups[k]}
\* 1 - MMRLambda is 0.3.
recallDiversityPenalty(c, chosen) == Clamp(Cardinality(Collisions(c, chosen)) * 300000)

\* A graph's evidence links the candidate to one that was chosen.
recallCoverageBonus(c, chosen) ==
  IF \E i \in DOMAIN chosen : chosen[i].of.id # c.id /\ chosen[i].of.id \in c.links THEN 50000 ELSE 0

\* Mutant: what is superseded loses less than the bonuses may give it.
SupersededForLess(c) ==
  CASE ~query.current -> 0
    [] c.temporal = "superseded" -> -150000
    [] c.temporal = "current" -> 80000
    [] OTHER -> 0
recallTemporalAdjustment(c) ==
  CASE ~query.current -> 0
    [] c.temporal = "superseded" -> -200000
    [] c.temporal = "current" -> 80000
    [] OTHER -> 0
\* Whether the query asks for what a speaker said, and c is by that speaker.
recallSpeakerAdjustment(c) == IF c.spoken /\ query.speaker THEN 120000 ELSE 0

EffectiveScore(x, chosen) ==
  x.final - recallDiversityPenalty(x.of, chosen) + recallCoverageBonus(x.of, chosen)
    + recallTemporalAdjustment(x.of) + recallSpeakerAdjustment(x.of)

\* Mutant: the bonus decides, and is not told.
ToldWithoutBonus(x, chosen) ==
  [x EXCEPT !.final = @ - recallDiversityPenalty(x.of, chosen) + recallTemporalAdjustment(x.of)
                        + recallSpeakerAdjustment(x.of)]
\* applyRecallSelectionAdjustment
Adjusted(x, chosen) == [x EXCEPT !.final = EffectiveScore(x, chosen)]
\* recallRejectedSelectionAdjustmentFor
Penalized(x, chosen) == [x EXCEPT !.final = @ - recallDiversityPenalty(x.of, chosen)]

\* recallBestSelectionIndex: scores that are equal are decided by the raw ones.
Best ==
  CHOOSE i \in DOMAIN remaining : \A j \in DOMAIN remaining \ {i} :
    LET x == EffectiveScore(remaining[i], selected)
        y == EffectiveScore(remaining[j], selected)
    IN x > y \/ (x = y /\ ~Better(remaining[j], remaining[i]) /\ (Better(remaining[i], remaining[j]) \/ i < j))

Tokens(chosen) == FoldLeft(LAMBDA n, x : n + x.of.tokens, 0, chosen)
FitsTokenBudget(used, tokens) == TokenBudget <= 0 \/ used + tokens <= TokenBudget

\* selectNextCandidate: one that does not fit is rejected, and the next one tried.
SelectNext ==
  /\ stage = "select" /\ remaining # <<>> /\ Len(selected) < Limit
  /\ LET best == Adjusted(remaining[Best], selected)
         fits == FitsTokenBudget(Tokens(selected), best.of.tokens)
     IN /\ remaining' = RemoveAt(remaining, Best)
        /\ selected' = IF fits THEN Append(selected, best) ELSE selected
        /\ rejected' = IF fits THEN rejected ELSE Append(rejected, Rejection(best, "token_budget"))
        /\ warnings' = IF fits THEN warnings ELSE warnings \cup {"token_budget_truncated"}
  /\ UNCHANGED <<query, input, stage, scored>>

\* rejectUnselectedRemainder
RejectRest ==
  /\ stage = "select" /\ (remaining = <<>> \/ Len(selected) >= Limit)
  /\ stage' = "done"
  /\ rejected' = rejected \o [i \in DOMAIN remaining |-> Rejection(Penalized(remaining[i], selected), "not_selected")]
  /\ UNCHANGED <<query, input, scored, remaining, selected, warnings>>

SelectionNext == Score \/ Scope \/ SelectNext \/ RejectRest

SelectionSpec == SelectionInit /\ [][SelectionNext]_selectionVars

-----------------------------------------------------------------------------
\* The trace, and what is told of it

\* Stages and codes, as their names are ordered.
Stages == <<"generate", "select">>
Codes == <<Blank, "graph_disabled", "scope_excluded_all_candidates", "semantic_unavailable",
           "superseded_evidence_observed", "token_budget_truncated">>
Place(names, name) == CHOOSE i \in DOMAIN names : names[i] = name
Warning(at, code, evidence) == [stage |-> at, code |-> code, evidence |-> evidence]
\* Of one stage, which says nothing but its code here.
Raised == [i \in 1..Cardinality(warnings) |->
             Warning("select", SetToSortSeq(warnings, LAMBDA a, b : Place(Codes, a) < Place(Codes, b))[i], Blank)]

\* Mutant: of warnings with one code the first is kept.
OnePerCode(existing, more) ==
  LET all == existing \o more
  IN SelectSeq([i \in DOMAIN all |-> IF \E j \in 1..i-1 : all[j].code = all[i].code
                                    THEN Warning("select", Blank, Blank) ELSE all[i]],
               LAMBDA w : w.code # Blank)
\* Each warning once, whatever it is compared by: sorted, and then in the order they came.
appendRecallWarnings(existing, more) ==
  LET all == existing \o more
      first == {i \in DOMAIN all : all[i].code # Blank /\ \A j \in 1..i-1 : all[j] # all[i]}
      key(i) == <<Place(Stages, all[i].stage), Place(Codes, all[i].code), i>>
      before(i, j) == \E n \in 1..3 : key(i)[n] < key(j)[n] /\ \A m \in 1..n-1 : key(i)[m] = key(j)[m]
      order == SetToSortSeq(first, before)
  IN [k \in DOMAIN order |-> all[order[k]]]

\* For each signal: whether it counts, how many have it, its bounds and its sum.
buildRecallVoiceDiagnostics ==
  [s \in Signals |->
     LET score(x) == Signal(query, x.of, s)
         scores == {score(scored[i]) : i \in DOMAIN scored}
     IN [enabled  |-> query.weights[s] > 0,
         with     |-> Cardinality({i \in DOMAIN scored : score(scored[i]) > 0}),
         selected |-> Cardinality({i \in DOMAIN selected : score(selected[i]) > 0}),
         max      |-> FoldSet(LAMBDA x, y : IF x > y THEN x ELSE y, 0, scores),
         min      |-> IF scores = {} THEN 0 ELSE CHOOSE x \in scores : \A y \in scores : x <= y,
         sum      |-> FoldLeft(LAMBDA n, x : n + score(x), 0, scored)]]

Trace(heard) ==
  [query |-> query, candidates |-> scored, selected |-> selected, rejected |-> rejected,
   warnings |-> appendRecallWarnings(heard, Raised), voices |-> buildRecallVoiceDiagnostics]
\* What is digested: the ID is of the query and of the candidates' order, the
\* fingerprint of all that selection depends on and told.
recallTraceID(t) == <<t.query, [i \in DOMAIN t.candidates |-> t.candidates[i].of.id]>>
recallTraceReplayFingerprint(t) == <<t.query, t.candidates, t.selected, t.rejected, t.warnings>>

\* An event is its kind and what it is about; its index is its place.
Event(kind, about) == [kind |-> kind, about |-> about]
recallReplayCandidateEvent(kind, x, detail) == Event(kind, [id |-> x.of.id, final |-> x.final, detail |-> detail])
BuildRecallReplay(t) ==
  <<Event("recall_query", t.query)>>
  \o [i \in DOMAIN t.candidates |-> recallReplayCandidateEvent("candidate_scored", t.candidates[i], Blank)]
  \o [i \in DOMAIN t.warnings |-> Event("warning", t.warnings[i])]
  \o [i \in DOMAIN t.selected |-> recallReplayCandidateEvent("selected", t.selected[i], i)]
  \o [i \in DOMAIN t.rejected |-> recallReplayCandidateEvent("rejected", t.rejected[i], t.rejected[i].reason)]
  \o <<Event("projection_ready", <<Len(t.selected), Len(t.rejected), Len(t.warnings)>>)>>
BuildRecallDiagnostics(t) ==
  [status |-> IF t.warnings # <<>> THEN "degraded" ELSE "ok",
   selected |-> t.selected, rejected |-> t.rejected, warnings |-> t.warnings]

-----------------------------------------------------------------------------
\* Properties

\* A trace is a function of the set of candidates: whatever order the generator found
\* them in, the scores, their ranks and so the selection are the same, and the trace
\* of a recall can be replayed (recall_pipeline.go:75-135, 614-668, 1120-1145).
OrderIrrelevant ==
  stage = "scope" =>
    scored = Scored(query, SetToSortSeq(ToSet(input), LAMBDA a, b : a.id < b.id))

\* Every candidate is selected or rejected once, for a reason that holds of the whole
\* selection: one that did not fit would not fit at the end either, one that was not
\* selected left no room under the limit, and one of another scope is never selected.
TraceExplains ==
  stage = "done" =>
    LET why(r) == {rejected[i].of : i \in {k \in DOMAIN rejected : rejected[k].reason = r}}
    IN /\ Len(selected) + Len(rejected) = Len(input)
       /\ {selected[i].of : i \in DOMAIN selected} \cup {rejected[i].of : i \in DOMAIN rejected}
            = ToSet(input)
       /\ Len(selected) <= Limit /\ FitsTokenBudget(Tokens(selected), 0)
       /\ \A c \in why("token_budget") : ~FitsTokenBudget(Tokens(selected), c.tokens)
       /\ why("not_selected") # {} => Len(selected) = Limit
       /\ \A i \in DOMAIN selected : ~recallScopeMismatch(query, selected[i].of)
       /\ ("token_budget_truncated" \in warnings) <=> why("token_budget") # {}

\* Asked for what is true now, a recall prefers what still holds: a superseded memory
\* is not selected before one that is not superseded, scored as much, and repeats
\* nothing that was selected - whatever bonus its links and its speaker give it
\* (recall_pipeline.go:672-700, 256-298).
SupersededYields ==
  query.current =>
    \A i \in DOMAIN selected, k \in DOMAIN scored :
      LET old == CHOOSE x \in ToSet(scored) : x.of = selected[i].of
          new == scored[k]
          chosen == SubSeq(selected, 1, i - 1)
      IN /\ old.of.temporal = "superseded" /\ new.of.temporal # "superseded"
         /\ new.final >= old.final /\ Collisions(new.of, chosen) = {}
         => \/ \E j \in 1..i-1 : selected[j].of = new.of
            \/ \E j \in DOMAIN rejected :
                 rejected[j].of = new.of /\ rejected[j].reason # "not_selected"

\* The replay of a trace is enough to check the selection it tells: each selected
\* memory was told with the score it was chosen for, which was the highest of what
\* was left then, and each memory that was scored is told of once more - a rejected
\* one with no more than its score. Every warning is told once, in order, and
\* degrades the report; what is told of a signal fits what was selected
\* (recall_pipeline.go:328-363, 427-448, 582-628, recall_replay.go:51-111).
ReplayChecksTheSelection ==
  stage = "done" => \A heard \in Heard :
    LET t == Trace(heard)
        events == BuildRecallReplay(t)
        told(kind) == SelectSeq(events, LAMBDA e : e.kind = kind)
        about(kind) == [i \in DOMAIN told(kind) |-> told(kind)[i].about]
        ids(kind) == [i \in DOMAIN told(kind) |-> about(kind)[i].id]
        skipped == {r.id : r \in {x \in ToSet(about("rejected")) : x.detail # "not_selected"}}
        said == heard \o Raised
    IN /\ \A k \in DOMAIN about("selected"), i \in DOMAIN scored :
            scored[i].of.id \notin skipped \cup ToSet(SubSeq(ids("selected"), 1, k - 1)) =>
              EffectiveScore(scored[i], SubSeq(selected, 1, k - 1)) <= about("selected")[k].final
       /\ IsInjective(ids("selected") \o ids("rejected"))
       /\ ToSet(ids("candidate_scored")) = ToSet(ids("selected") \o ids("rejected"))
       /\ \A r \in ToSet(about("rejected")), c \in ToSet(about("candidate_scored")) :
            r.id = c.id /\ r.detail # "token_budget" => r.final <= c.final
       /\ IsInjective(t.warnings)
       /\ ToSet(about("warning")) = {said[i] : i \in {j \in DOMAIN said : said[j].code # Blank}}
       /\ \A i, j \in DOMAIN t.warnings : i < j =>
            Place(Stages, t.warnings[i].stage) <= Place(Stages, t.warnings[j].stage)
       /\ (BuildRecallDiagnostics(t).status = "ok") <=> about("warning") = <<>>
       /\ \A s \in Signals : LET v == t.voices[s] IN
            /\ v.selected <= v.with /\ v.with <= Len(scored)
            /\ Len(scored) * v.min <= v.sum /\ v.sum <= Len(scored) * v.max
            /\ v.with = 0 <=> v.max = 0
=============================================================================
