--------------------------- MODULE RecallBenchmark ----------------------------
(***************************************************************************)
(* service/recall_benchmark.go and the registry of service/eval_feedback.go: *)
(* a suite of cases is run against the service itself. The memories of a   *)
(* case are written one by one, as anybody writes them, its question is    *)
(* recalled, and the trace is scored; a case that fails ends the run,      *)
(* whose memories stay. Two runs are compared by a regression gate, and    *)
(* misses are recorded, a row each, for someone to look at.                *)
(* A text is the set of its words. Rates are millionths.                   *)
(***************************************************************************)
EXTENDS Integers, Sequences, SequencesExt, FiniteSetsExt, TLC

CONSTANTS
  Suites,     \* sequences of [peer, asks, ability, memories, relevant, contains, kinds, rubric, none, limit, budget]
  Others,     \* what another client concludes meanwhile: [peer, session, text]
  StopWords,  \* words the rubric does not count
  Path,       \* words of the note of a relation path
  Top, Deep,  \* how many candidates the two recall figures look at, 5 and 10 in the code
  Latencies,  \* how long the case at each place may take
  Tolerances, \* of the regression gate, millionths
  MaxRuns,
  Batches,    \* sequences of [question, words, query, retrieved]: the misses one call records
  Senders, MaxSends

VARIABLES
  conclusions, \* rows [peer, session, text], by ID
  suite, at,   \* the suite, the case and
  refs,        \* the conclusion of each memory that it has written
  running,     \* what the run does next
  reports,     \* of the cases done
  runs, means, \* the recall of each run that ended well
  registry,    \* key -> [failure, created], table goncho_eval_candidates
  sending,     \* of each sender, its batch, the candidate it inserts and how it stands
  clock

evaluationVars == <<conclusions, suite, at, refs, running, reports, runs, means>>
registryVars == <<registry, sending, clock>>
benchmarkVars == <<evaluationVars, registryVars>>

One == 1000000
Nearest(a, b) == IF a < 0 THEN -((b - 2 * a) \div (2 * b)) ELSE (2 * a + b) \div (2 * b)
Rate(hits, of) == Nearest(hits * One, of)
SumOf(s) == FoldLeft(LAMBDA sum, x : sum + x, 0, s)

BenchmarkTypeOK ==
  /\ suite \in Suites /\ at \in 1..(Len(suite) + 1)
  /\ running \in {"idle", "write", "recall", "done", "failed"}
  /\ ToSet(refs) \subseteq DOMAIN conclusions
  /\ Len(reports) <= Len(suite) /\ runs \in 0..MaxRuns /\ Len(means) <= runs
  /\ \A s \in Senders : sending[s].stands \in {"idle", "building", "inserting", "sent", "failed"}
  /\ \A k \in DOMAIN registry : registry[k].created \in 1..clock

BenchmarkInit ==
  /\ conclusions = <<>> /\ suite \in Suites /\ at = 1 /\ refs = <<>> /\ running = "idle"
  /\ reports = <<>> /\ runs = 0 /\ means = <<>>
  /\ registry = <<>> /\ clock = 0
  /\ sending = [s \in Senders |-> [batch |-> <<>>, told |-> {}, next |-> 1, stamp |-> 0, since |-> 0, stands |-> "idle"]]

-----------------------------------------------------------------------------
\* The run of a case

Case == suite[at]

Start ==
  /\ running \in {"idle", "done", "failed"} /\ runs < MaxRuns
  /\ runs' = runs + 1 /\ at' = 1 /\ refs' = <<>> /\ reports' = <<>> /\ running' = "write"
  /\ UNCHANGED <<conclusions, suite, means>>

\* The run's reports are lost, what it has written is not.
Fail ==
  /\ running' = "failed" /\ reports' = <<>>
  /\ UNCHANGED <<suite, at, refs, runs, means>>

\* Of the same peer, session and text there is one conclusion.
RowOf(row) == SelectInSeq(conclusions, LAMBDA r : r = row)
Conclude(row) == conclusions' = IF RowOf(row) = 0 THEN Append(conclusions, row) ELSE conclusions
\* Mutant: the row inserted last, also where none was.
LastRow(row) == IF RowOf(row) = 0 THEN Len(conclusions) + 1 ELSE Len(conclusions)
WrittenAs(row) == IF RowOf(row) = 0 THEN Len(conclusions) + 1 ELSE RowOf(row)

\* The memories have numbers for names; one without a name is named for its place.
RefOf(i) == IF Case.memories[i].ref = 0 THEN i ELSE Case.memories[i].ref
Writable(i) ==
  /\ Case.asks /\ Case.memories[i].text # {}
  /\ \A j \in 1..(i - 1) : RefOf(j) # RefOf(i)

\* The write may fail, after its row or without it.
WriteMemory ==
  /\ running = "write" /\ Len(refs) < Len(Case.memories)
  /\ LET i == Len(refs) + 1
         row == [peer |-> Case.peer, session |-> Case.memories[i].session, text |-> Case.memories[i].text]
     IN \/ ~Writable(i) /\ Fail /\ UNCHANGED conclusions
        \/ Writable(i) /\ Fail /\ (UNCHANGED conclusions \/ Conclude(row))
        \/ /\ Writable(i) /\ Conclude(row)
           /\ refs' = Append(refs, WrittenAs(row))
           /\ UNCHANGED <<suite, at, running, reports, runs, means>>

\* The names of the relevant memories become the IDs of their conclusions.
RelevantRefs == {Case.relevant[i] : i \in DOMAIN Case.relevant} \ {0}
Written(ref) == {i \in DOMAIN refs : RefOf(i) = ref}
RelevantIDs == {refs[i] : i \in UNION {Written(ref) : ref \in RelevantRefs}}

Resolve ==
  /\ running = "write" /\ Len(refs) = Len(Case.memories)
  /\ UNCHANGED conclusions
  /\ IF Case.asks /\ \A ref \in RelevantRefs : Written(ref) # {}
     THEN running' = "recall" /\ UNCHANGED <<suite, at, refs, reports, runs, means>>
     ELSE Fail

\* Another client of the service; only what it tells of the same peer can be recalled.
ConcludeElsewhere(row) ==
  /\ running \in {"write", "recall"} /\ row.peer = Case.peer /\ RowOf(row) = 0
  /\ Conclude(row)
  /\ UNCHANGED <<suite, at, refs, running, reports, runs, means>>

-----------------------------------------------------------------------------
\* The score of a trace: candidates [id, text, kinds] in order, and those of them selected

recallBenchmarkMemoryIDs(items) == [i \in DOMAIN items |-> items[i].id]

\* Mutant: a cut at one more candidate for the smaller figure only.
CutLate(s, k) == SubSeq(s, 1, Min({IF k = Top THEN Top + 1 ELSE k, Len(s)}))
FirstOf(s, k) == SubSeq(s, 1, Min({k, Len(s)}))
RecallAtK(ids, relevant, k) ==
  IF relevant = {} THEN 0
  ELSE Rate(Cardinality(relevant \cap ToSet(FirstOf(ids, k))), Cardinality(relevant))

\* Mutant: a case without an answer is judged as the others.
AnyCaseRecall(case, candidates, selected, relevant, k) ==
  RecallAtK(recallBenchmarkMemoryIDs(candidates), relevant, k)
\* Where no answer is expected, the best recall selects nothing.
CaseRecallAtK(case, candidates, selected, relevant, k) ==
  IF case.none THEN IF selected = <<>> THEN One ELSE 0
  ELSE RecallAtK(recallBenchmarkMemoryIDs(candidates), relevant, k)

\* The context tells the selected contents and the paths that led to them.
ProjectContext(selected) ==
  UNION {selected[i].text \cup IF "graph" \in selected[i].kinds THEN Path ELSE {} : i \in DOMAIN selected}
ContextSatisfied(case, selected, relevant) ==
  CASE case.none -> selected = <<>> /\ case.contains = {}
    [] ~case.none /\ case.contains # {} -> case.contains \subseteq ProjectContext(selected)
    [] OTHER -> \E i \in DOMAIN selected : selected[i].id \in relevant

\* A relevant memory - any, where none is named - shows every kind of evidence.
ProvenanceSatisfied(case, selected, relevant) ==
  \E i \in DOMAIN selected :
    /\ relevant = {} \/ selected[i].id \in relevant
    /\ case.kinds \subseteq selected[i].kinds
EvidenceKinds(items) == UNION {items[i].kinds : i \in DOMAIN items}

\* Mutant: an item of stop words counts.
EveryWord(words) == words
RubricTokens(words) == words \ StopWords
RubricCoverage(rubric, selected) ==
  LET told == UNION {RubricTokens(selected[i].text) : i \in DOMAIN selected}
      counted == SelectSeq(rubric, LAMBDA item : RubricTokens(item) # {})
      matched == SelectSeq(counted, LAMBDA item : RubricTokens(item) \subseteq told)
  IN IF counted = <<>> THEN 0 ELSE Rate(Len(matched), Len(counted))

TokenBudget(case) == IF case.budget > 0 THEN case.budget ELSE Deep
SelectedTokens(selected) == SumOf([i \in DOMAIN selected |-> Cardinality(selected[i].text)])

evaluateRecallBenchmarkCase(case, relevant, candidates, selected, latency) ==
  [ability |-> case.ability, none |-> case.none, required |-> case.kinds,
   relevant |-> relevant,
   candidates |-> recallBenchmarkMemoryIDs(candidates),
   selected |-> recallBenchmarkMemoryIDs(selected),
   kinds |-> [candidate |-> EvidenceKinds(candidates), selected |-> EvidenceKinds(selected),
              top |-> EvidenceKinds(FirstOf(selected, 1))],
   rubric |-> RubricCoverage(case.rubric, selected),
   atTop |-> CaseRecallAtK(case, candidates, selected, relevant, Top),
   atDeep |-> CaseRecallAtK(case, candidates, selected, relevant, Deep),
   context |-> ContextSatisfied(case, selected, relevant),
   provenance |-> case.kinds # {} /\ ProvenanceSatisfied(case, selected, relevant),
   within |-> SelectedTokens(selected) <= TokenBudget(case),
   latency |-> latency,
   warned |-> relevant = {} /\ ~case.none]

\* The pipeline finds conclusions of the peer, by facts or not, and selects some of them
\* up to the limit; see RecallSelection for how.
Item(id, graph) ==
  [id |-> id, text |-> conclusions[id].text, kinds |-> {"keyword"} \cup IF graph THEN {"graph"} ELSE {}]
OfPeer(peer) == {id \in DOMAIN conclusions : conclusions[id].peer = peer}
Subsequences(s) == {[i \in 1..Cardinality(chosen) |-> s[SetToSortSeq(chosen, <)[i]]] : chosen \in SUBSET DOMAIN s}
Recall ==
  /\ running = "recall"
  /\ UNCHANGED <<conclusions, suite, runs>>
  /\ \/ Fail
     \/ \E order \in {s \in SeqOf(OfPeer(Case.peer), Cardinality(OfPeer(Case.peer))) : IsInjective(s)},
           graph \in {{}, {Len(conclusions)}}, latency \in Latencies[at] :
          LET candidates == [i \in DOMAIN order |-> Item(order[i], order[i] \in graph)]
          IN \E selected \in Subsequences(candidates) :
               /\ Len(selected) <= Case.limit
               /\ reports' = Append(reports,
                    evaluateRecallBenchmarkCase(Case, RelevantIDs, candidates, selected, latency))
               /\ at' = at + 1 /\ refs' = <<>>
               /\ running' = IF at = Len(suite) THEN "done" ELSE "write"
               /\ UNCHANGED means

-----------------------------------------------------------------------------
\* The report of a run

MeanOf(cases, figure) == Nearest(SumOf([i \in DOMAIN cases |-> cases[i][figure]]), Len(cases))
RateOf(cases, test) == Rate(Cardinality({i \in DOMAIN cases : cases[i][test]}), Len(cases))

AbilityReport(ability) ==
  LET cases == SelectSeq(reports, LAMBDA c : c.ability = ability)
  IN [count |-> Len(cases),
      atTop |-> MeanOf(cases, "atTop"), atDeep |-> MeanOf(cases, "atDeep"),
      context |-> RateOf(cases, "context"), within |-> RateOf(cases, "within"),
      provenance |-> Rate(Cardinality({i \in DOMAIN cases : cases[i].required = {} \/ cases[i].provenance}), Len(cases))]
Abilities == {reports[i].ability : i \in DOMAIN reports} \ {""}
summarizeRecallBenchmarkAbilities == [a \in Abilities |-> AbilityReport(a)]

\* Mutant: the rank is rounded down.
RankBelow(sorted, percent) ==
  IF percent >= 100 THEN Last(sorted) ELSE sorted[Max({1, (percent * Len(sorted)) \div 100})]
nearestRank(sorted, percent) ==
  IF percent <= 0 THEN sorted[1]
  ELSE IF percent >= 100 THEN Last(sorted)
  ELSE sorted[(percent * Len(sorted) + 99) \div 100]
summarizeRecallBenchmarkLatency ==
  LET sorted == SortSeq([i \in DOMAIN reports |-> reports[i].latency], <)
  IN [min |-> sorted[1], p50 |-> nearestRank(sorted, 50), p95 |-> nearestRank(sorted, 95), max |-> Last(sorted)]

EvaluateRecallBenchmark ==
  [atTop |-> MeanOf(reports, "atTop"), atDeep |-> MeanOf(reports, "atDeep"),
   context |-> RateOf(reports, "context"), within |-> RateOf(reports, "within"),
   latency |-> summarizeRecallBenchmarkLatency,
   warnings |-> Cardinality({i \in DOMAIN reports : reports[i].warned}),
   abilities |-> summarizeRecallBenchmarkAbilities]

\* The caller keeps the recall of a run, to compare the next one with it.
Keep ==
  /\ running = "done" /\ Len(means) < runs
  /\ means' = Append(means, EvaluateRecallBenchmark.atDeep)
  /\ UNCHANGED <<conclusions, suite, at, refs, running, reports, runs>>

roundRegression(drop) == 1000 * Nearest(drop, 1000)
\* Mutant: the difference counts either way.
GateOnChange(baseline, current, tolerance) ==
  LET drop == roundRegression(IF baseline > current THEN baseline - current ELSE current - baseline)
  IN [drop |-> drop, pass |-> drop <= tolerance]
EvaluateRegressionGate(baseline, current, tolerance) ==
  LET drop == roundRegression(baseline - current)
  IN [drop |-> drop, pass |-> drop <= tolerance]
BuildBenchmarkTrendReport(tolerance) ==
  LET gates == [i \in 1..(Len(means) - 1) |-> EvaluateRegressionGate(means[i], means[i + 1], tolerance)]
  IN IF \A i \in DOMAIN gates : gates[i].pass THEN "ok" ELSE "regressed"

EvaluationNext ==
  /\ UNCHANGED registryVars
  /\ \/ Start \/ WriteMemory \/ Resolve \/ Recall \/ Keep
     \/ \E row \in Others : ConcludeElsewhere(row)

-----------------------------------------------------------------------------
\* The registry of misses

\* What the bucket and the category of a miss mention decides, in this order.
EvalCandidateKind(words) ==
  CASE words \cap {"branch", "scope"} # {} -> "scope_bug"
    [] words \cap {"branch", "scope"} = {} /\ "multi_hop" \in words -> "graph_edge_candidate"
    [] words \cap {"branch", "scope", "multi_hop"} = {} /\ words \cap {"stale", "contradict"} # {} ->
         "stale_contradictory_memory"
    [] words \cap {"branch", "scope", "multi_hop", "stale", "contradict"} = {}
         /\ words \cap {"missing", "extraction"} # {} -> "extraction_gap"
    [] OTHER -> "query_expansion_hint"

\* Mutant: a question of a run has one row.
IDWithoutKind(failure) == <<failure.question, failure.query>>
EvalCandidateID(failure) == <<failure.question, failure.query, EvalCandidateKind(failure.words)>>

RecordEvalFailures(s, batch) ==
  /\ sending[s].stands \in {"idle", "sent", "failed"}
  /\ clock + Len(batch) <= MaxSends
  /\ sending' = [sending EXCEPT ![s] =
       [batch |-> batch, told |-> @.told \cup ToSet(batch), next |-> 1, stamp |-> 0, since |-> clock,
        stands |-> "building"]]
  /\ UNCHANGED <<registry, clock>>

\* A candidate is dated before it is inserted.
BuildCandidate(s) ==
  /\ sending[s].stands = "building"
  /\ clock < MaxSends /\ clock' = clock + 1
  /\ sending' = [sending EXCEPT ![s].stamp = clock + 1, ![s].stands = "inserting"]
  /\ UNCHANGED registry

\* Mutant: a row that is there is kept.
KeptRow(rows, key, row) == IF key \in DOMAIN rows THEN rows ELSE rows @@ (key :> row)
ReplacedRow(rows, key, row) == (key :> row) @@ rows
InsertCandidate(s) ==
  LET failure == sending[s].batch[sending[s].next]
      row == [failure |-> failure, created |-> sending[s].stamp]
  IN /\ sending[s].stands = "inserting"
     /\ UNCHANGED clock
     /\ \/ /\ registry' = ReplacedRow(registry, EvalCandidateID(failure), row)
           /\ sending' = [sending EXCEPT
                ![s].next = @ + 1,
                ![s].stands = IF sending[s].next = Len(sending[s].batch) THEN "sent" ELSE "building"]
        \/ /\ UNCHANGED registry
           /\ sending' = [sending EXCEPT ![s].stands = "failed"]

\* Mutant: the oldest come first.
OldestFirst(a, b) == a.created < b.created
NewestFirst(a, b) == a.created > b.created
ListEvalCandidates(limit) ==
  FirstOf(SetToSortSeq({registry[k] : k \in DOMAIN registry}, NewestFirst), limit)

RegistryNext ==
  /\ UNCHANGED evaluationVars
  /\ \E s \in Senders :
       \/ \E batch \in Batches : RecordEvalFailures(s, batch)
       \/ BuildCandidate(s) \/ InsertCandidate(s)

-----------------------------------------------------------------------------
\* What the figures of a run say of it (runServiceRecallBenchmarkCase,
\* EvaluateRecallBenchmark): a case's relevant conclusions have the texts it named, and
\* no memory is doubled by another run; a full recall means that every relevant conclusion
\* was among the first candidates, none that it was not, that something was selected where
\* nothing should be, or that a warning was given; the means agree with the means of the
\* abilities; and a percentile is a latency that so many cases, and no fewer, stay within.
TextsOf(case) == {case.memories[i].text : i \in DOMAIN case.memories}
RelevantTexts(case) ==
  {case.memories[i].text : i \in {j \in DOMAIN case.memories :
     (IF case.memories[j].ref = 0 THEN j ELSE case.memories[j].ref) \in ToSet(case.relevant)}}
Distance(a, b) == IF a > b THEN a - b ELSE b - a
CasesTold ==
  /\ IsInjective(conclusions)
  /\ \A i \in DOMAIN reports :
       LET r == reports[i]
       IN /\ r.atTop <= r.atDeep
          /\ {conclusions[id].text : id \in r.relevant} = RelevantTexts(suite[i])
          /\ \A id \in r.relevant : conclusions[id].peer = suite[i].peer
          /\ ~r.none =>
               /\ r.atTop = One <=>
                    r.relevant # {} /\ \A id \in r.relevant : \E n \in DOMAIN r.candidates : n <= Top /\ r.candidates[n] = id
               /\ r.atDeep = 0 => r.warned \/ r.relevant \cap ToSet(FirstOf(r.candidates, Deep)) = {}
          /\ r.none => (r.atTop = 0 <=> r.selected # <<>>)
          /\ r.rubric = One => \E n \in DOMAIN suite[i].rubric : ~(suite[i].rubric[n] \subseteq StopWords)
          /\ r.rubric = 0 /\ ToSet(r.selected) = OfPeer(suite[i].peer) =>
               \A n \in DOMAIN suite[i].rubric :
                 suite[i].rubric[n] \subseteq StopWords \/ \A t \in TextsOf(suite[i]) : ~(suite[i].rubric[n] \subseteq t)
MeansAgree ==
  LET report == EvaluateRecallBenchmark
      weighed(figure) ==
        FoldSet(LAMBDA a, sum : sum + report.abilities[a].count * report.abilities[a][figure], 0, Abilities)
      within(t) == Cardinality({i \in DOMAIN reports : reports[i].latency <= t})
      below(t) == Cardinality({i \in DOMAIN reports : reports[i].latency < t})
  IN (running = "done" /\ reports # <<>>) =>
       /\ (\A i \in DOMAIN reports : reports[i].ability # "") =>
            \A figure \in {"atTop", "atDeep", "context", "within"} :
              Distance(weighed(figure), Len(reports) * report[figure]) <= Len(reports)
       /\ \A p \in {<<50, report.latency.p50>>, <<95, report.latency.p95>>} :
            /\ 100 * within(p[2]) >= p[1] * Len(reports)
            /\ 100 * below(p[2]) < p[1] * Len(reports)
BenchmarkTells == CasesTold /\ MeansAgree

\* EvaluateRegressionGate: a recall that fell by more than what is tolerated, to half a
\* thousandth, is told, and nothing else is.
GateTells ==
  \A tolerance \in Tolerances :
    LET falls(i) == means[i] - means[i + 1]
        status == BuildBenchmarkTrendReport(tolerance)
    IN /\ status = "ok" => \A i \in 1..(Len(means) - 1) : falls(i) <= tolerance + 500
       /\ status = "regressed" => \E i \in 1..(Len(means) - 1) : falls(i) > tolerance - 500

\* RecordEvalFailures: every miss of a batch that was recorded has a row of its kind, whose
\* answer is the one just told unless it is another sender's - whose candidate, built
\* before and inserted after, leaves an older date; and a batch that is not so dated comes
\* first in a list, however often its misses were recorded before.
RegistryTells ==
  \A s \in Senders : sending[s].stands = "sent" =>
    LET keys == {EvalCandidateID(f) : f \in ToSet(sending[s].batch)}
        first == ListEvalCandidates(Cardinality(keys))
        elsewhere == UNION {sending[o].told : o \in Senders \ {s}}
    IN /\ \A f \in ToSet(sending[s].batch) : \E k \in DOMAIN registry :
            /\ registry[k].failure.question = f.question /\ registry[k].failure.query = f.query
            /\ EvalCandidateKind(registry[k].failure.words) = EvalCandidateKind(f.words)
            /\ registry[k].created > sending[s].since \/ registry[k].failure \in elsewhere
       /\ (\A k \in keys : registry[k].created > sending[s].since) =>
            \A i \in DOMAIN first : first[i].failure \in ToSet(sending[s].batch) \cup elsewhere
=============================================================================
