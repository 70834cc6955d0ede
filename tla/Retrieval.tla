----------------------------- MODULE Retrieval ------------------------------
(***************************************************************************)
(* service/retrieval_module.go: a search reads conclusions that match the  *)
(* query, or browses when none does; asks the vector store and merges what *)
(* it finds; falls back to turns when nothing was found; lets a reranker   *)
(* reorder; and keeps the first ones that fit. Every lane reads the table  *)
(* anew, while conclusions are told and deleted. The rank of a conclusion  *)
(* for the query is a number, 0 if it does not match.                      *)
(***************************************************************************)
EXTENDS Integers, Sequences, SequencesExt, FiniteSetsExt

CONSTANTS
  Stored,     \* conclusions, [id, rank, tokens], of distinct IDs
  Answers,    \* lists of [memory, source, content, score, tokens] of the vector store
  TurnLists,  \* lists of [content, under] that the fallback may read; under is the source of
              \* the chat by which a turn is read, as the key of the chat tells it
  Searches,   \* [query, sources, limit, maxTokens]: query is whether there is one; "*" is any source
  Scores,     \* what a reranker may give, NaN included
  MaxRanked,  \* how many scores a reranker gives at most
  MaxChanges

VARIABLES
  rows,       \* the conclusions the search may see, the one updated last first
  changes, asked, stage,
  lexical,    \* results of the conclusion lanes
  results,
  before,     \* the results a reranker got
  graded      \* the scores it gave, [id, score]

searchVars == <<rows, changes, asked, stage, lexical, results, before, graded>>

NaN == 0

\* The forms of a vector's memory ID.
Decimal(n) == <<"decimal", n>>
Prefixed(n) == <<"id:", n>>
Name(s) == <<"name", s>>
NoID == <<"blank", 0>>

SearchTypeOK ==
  /\ ToSet(rows) \subseteq Stored /\ asked \in Searches
  /\ stage \in {"lexical", "browse", "vector", "fallback", "rerank", "trim", "done", "failed"}
  /\ \A i \in DOMAIN results : results[i].source \in {"conclusion", "vector", "turn"}

SearchInit ==
  /\ rows \in {s \in SeqOf(Stored, Cardinality(Stored)) : IsInjective(s)}
  /\ asked \in Searches /\ changes = 0 /\ stage = "lexical"
  /\ lexical = <<>> /\ results = <<>> /\ before = <<>> /\ graded = <<>>

-----------------------------------------------------------------------------
\* The table changes

\* A conclusion that is told, for the first time or again, is the newest.
Tell(c) ==
  /\ changes < MaxChanges /\ changes' = changes + 1
  /\ rows' = <<c>> \o SelectSeq(rows, LAMBDA r : r # c)
  /\ UNCHANGED <<asked, stage, lexical, results, before, graded>>

Delete(c) ==
  /\ changes < MaxChanges /\ changes' = changes + 1
  /\ c \in ToSet(rows)
  /\ rows' = SelectSeq(rows, LAMBDA r : r # c)
  /\ UNCHANGED <<asked, stage, lexical, results, before, graded>>

-----------------------------------------------------------------------------
\* Lanes

Hit(c) ==
  [id |-> c.id, source |-> "conclusion", under |-> "", content |-> <<"c", c.id>>, semantic |-> NoID, tokens |-> c.tokens]
TurnHit(t) ==
  [id |-> 0, source |-> "turn", under |-> t.under, content |-> t.content, semantic |-> NoID, tokens |-> 1]

\* No source, or any.
AllSources == asked.sources = {} \/ "*" \in asked.sources
Allows(source) == AllSources \/ source \in asked.sources
AllowsKindOrOrigin(kind, origin) == Allows(kind) \/ Allows(origin)

FirstOf(s, n) == SubSeq(s, 1, Min({n, Len(s)}))

\* Those that match, by rank and, of equal rank, the newest first.
rankConclusionHits(rs) ==
  LET matching == SelectSeq(rs, LAMBDA r : r.rank > 0)
      order == SetToSortSeq(DOMAIN matching,
                 LAMBDA i, j : matching[i].rank > matching[j].rank \/
                               (matching[i].rank = matching[j].rank /\ i < j))
  IN [k \in DOMAIN order |-> matching[order[k]]]

findConclusions(query) ==
  LET found == IF query THEN rankConclusionHits(rows) ELSE rows
  IN [i \in DOMAIN FirstOf(found, asked.limit) |-> Hit(found[i])]

Lexical ==
  /\ stage = "lexical"
  /\ results' = IF AllSources THEN findConclusions(asked.query) ELSE <<>>
  /\ lexical' = results'
  /\ stage' = IF AllSources /\ asked.query /\ results' = <<>> THEN "browse" ELSE "vector"
  /\ UNCHANGED <<rows, changes, asked, before, graded>>

Browse ==
  /\ stage = "browse" /\ stage' = "vector"
  /\ results' = findConclusions(FALSE) /\ lexical' = results'
  /\ UNCHANGED <<rows, changes, asked, before, graded>>

-----------------------------------------------------------------------------
\* The vector store

vectorHitSourceType(v) == IF v.source = "" THEN "vector" ELSE v.source
\* A vector without an ID is known by what it says.
vectorHitMemoryID(v) == IF v.memory = NoID THEN <<"hash", v.source, v.content>> ELSE v.memory
\* Mutant: an ID that is written id:7 is not that of conclusion 7.
DecimalOnly(m) == IF m[1] = "decimal" THEN m[2] ELSE 0
vectorHitNumericMemoryID(m) == IF m[1] \in {"decimal", "id:"} THEN m[2] ELSE 0
searchHitFromVectorHit(v) ==
  [id |-> vectorHitNumericMemoryID(vectorHitMemoryID(v)), source |-> vectorHitSourceType(v), under |-> "",
   content |-> v.content, semantic |-> vectorHitMemoryID(v), tokens |-> v.tokens]

searchHitVectorMergeKey(h) ==
  CASE h.id > 0 -> <<"id", h.id>>
    [] h.semantic # NoID -> <<"semantic", h.semantic>>
    [] OTHER -> <<"content", h.content>>

\* Mutant: any vector will do.
AnySource(v) == TRUE
vectorHitAllowedBySources(v) == Allows(vectorHitSourceType(v))
vectorSearchLaneAllowed == Allows("conclusion") \/ Allows("vector")

\* The evidence of a vector joins the hit of the same key; else it is a hit of its own.
MergeVector(hits, v) ==
  LET hit == searchHitFromVectorHit(v)
      same == {i \in DOMAIN hits : searchHitVectorMergeKey(hits[i]) = searchHitVectorMergeKey(hit)}
  IN CASE v.content = "" \/ ~vectorHitAllowedBySources(v) -> hits
       [] same = {} -> Append(hits, hit)
       [] OTHER -> LET i == CHOOSE k \in same : TRUE
                   IN IF hits[i].semantic = NoID
                      THEN [hits EXCEPT ![i].semantic = hit.semantic] ELSE hits

ByScore(vs) ==
  LET order == SetToSortSeq(DOMAIN vs, LAMBDA i, j : vs[i].score > vs[j].score \/
                                                     (vs[i].score = vs[j].score /\ i < j))
  IN [k \in DOMAIN order |-> vs[order[k]]]

AfterVectors(r) == IF r = <<>> THEN "fallback" ELSE "rerank"

\* mergeVectorSearch
MergeVectors(vs) ==
  /\ stage = "vector" /\ asked.query /\ vectorSearchLaneAllowed
  /\ results' = FoldLeft(MergeVector, results, ByScore(vs))
  /\ stage' = AfterVectors(results')
  /\ UNCHANGED <<rows, changes, asked, lexical, before, graded>>

\* There is no store, nothing to ask it, too much to ask it, or it fails.
WithoutVectors ==
  /\ stage = "vector" /\ stage' = AfterVectors(results)
  /\ UNCHANGED <<rows, changes, asked, lexical, results, before, graded>>

\* Mutant: a chat of any source will do, like a turn of the current one.
AnyChat(t) == TRUE
\* Turns are of a kind that was asked for, or of a chat whose source was.
TurnAllowed(t) == AllowsKindOrOrigin("turn", t.under)
\* searchTurnFallback, whose turns are those of CrossChat.
Fallback(ts) ==
  /\ stage = "fallback" /\ stage' = "rerank"
  /\ LET found == FirstOf(SelectSeq(ts, TurnAllowed), asked.limit)
     IN results' = [i \in DOMAIN found |-> TurnHit(found[i])]
  /\ UNCHANGED <<rows, changes, asked, lexical, before, graded>>

\* A statement fails, and the search with it.
SearchFails ==
  /\ stage \in {"lexical", "browse", "fallback"} /\ stage' = "failed"
  /\ UNCHANGED <<rows, changes, asked, lexical, results, before, graded>>

-----------------------------------------------------------------------------
\* The reranker

searchHitRerankID(h) ==
  CASE h.id > 0 -> Decimal(h.id)
    [] h.semantic # NoID -> h.semantic
    [] OTHER -> <<"content", h.content>>
\* The second hit of an ID gets a number.
RerankID(hits, i) ==
  <<searchHitRerankID(hits[i]),
    Cardinality({j \in 1..i : searchHitRerankID(hits[j]) = searchHitRerankID(hits[i])})>>
RerankIDs(hits) == {RerankID(hits, i) : i \in DOMAIN hits}

\* Mutant: of two scores of one candidate the first one counts.
FirstScore(scores, id) ==
  LET of == SelectSeq(scores, LAMBDA s : s.id = id) IN IF of = <<>> THEN NaN ELSE of[1].score
\* searchRankFiniteScoresByID: the only score of a candidate, if it is a number.
FiniteScore(scores, id) ==
  LET of == SelectSeq(scores, LAMBDA s : s.id = id) IN IF Len(of) = 1 THEN of[1].score ELSE NaN

Reranked(hits, scores) ==
  LET score(i) == FiniteScore(scores, RerankID(hits, i))
      order == SetToSortSeq(DOMAIN hits, LAMBDA i, j : score(i) > score(j) \/ (score(i) = score(j) /\ i < j))
  IN [k \in DOMAIN order |-> hits[order[k]]]

Rerank(scores) ==
  /\ stage = "rerank" /\ stage' = "trim" /\ asked.query /\ Len(results) >= 2
  /\ \A i \in DOMAIN scores : scores[i].id \in RerankIDs(results)
  /\ before' = results /\ graded' = scores
  /\ results' = Reranked(results, scores)
  /\ UNCHANGED <<rows, changes, asked, lexical>>

\* There is none, nothing to rank, or it fails.
KeepOrder ==
  /\ stage = "rerank" /\ stage' = "trim"
  /\ before' = results
  /\ UNCHANGED <<rows, changes, asked, lexical, results, graded>>

\* Mutant: what does not fit ends the list.
UntilFull(hits) ==
  IF asked.maxTokens <= 0 THEN hits
  ELSE LET sum[n \in 0..Len(hits)] == IF n = 0 THEN 0 ELSE sum[n - 1] + hits[n].tokens
       IN FirstOf(hits, Max({n \in 0..Len(hits) : n <= 1 \/ sum[n] <= asked.maxTokens}))
\* planSearchHitsWithinTokenBudget: the first hit always fits.
FitTokens(hits) ==
  IF asked.maxTokens <= 0 THEN hits
  ELSE LET add(acc, h) == IF acc.used = 0 \/ acc.used + h.tokens <= asked.maxTokens
                          THEN [hits |-> Append(acc.hits, h), used |-> acc.used + h.tokens] ELSE acc
       IN FoldLeft(add, [hits |-> <<>>, used |-> 0], hits).hits

Finalize ==
  /\ stage = "trim" /\ stage' = "done"
  /\ results' = FitTokens(FirstOf(results, asked.limit))
  /\ UNCHANGED <<rows, changes, asked, lexical, before, graded>>

SearchNext ==
  \/ /\ stage \in {"lexical", "browse", "vector", "fallback"}
     /\ \E c \in Stored : Tell(c) \/ Delete(c)
  \/ Lexical \/ Browse \/ WithoutVectors \/ SearchFails \/ KeepOrder \/ Finalize
  \/ \E vs \in Answers : MergeVectors(vs)
  \/ \E ts \in TurnLists : Fallback(ts)
  \/ stage = "rerank" /\ \E scores \in SeqOf([id : RerankIDs(results), score : Scores], MaxRanked) : Rerank(scores)

SearchSpec == SearchInit /\ [][SearchNext]_searchVars

-----------------------------------------------------------------------------
\* Properties

MemoryOf(h) ==
  CASE h.id > 0 -> Decimal(h.id)
    [] h.semantic[1] \in {"decimal", "id:"} -> Decimal(h.semantic[2])
    [] OTHER -> h.semantic

\* A memory is one hit, whichever lanes found it and however its ID was written; it is of
\* a kind that was asked for, or a turn of a chat whose source was; what the conclusion
\* lanes found stays in front of what only vectors found, and turns are shown only where
\* nothing else was (retrieval_module.go:166-281, 302-369, source_filter.go:37-53).
OneHitPerMemory ==
  /\ \A i, j \in DOMAIN results :
       MemoryOf(results[i]) # NoID /\ MemoryOf(results[i]) = MemoryOf(results[j]) => i = j
  /\ \A i \in DOMAIN results :
       \/ Allows(results[i].source)
       \/ results[i].source = "turn" /\ results[i].under \in asked.sources
  /\ stage \in {"rerank", "fallback"} => \A i \in DOMAIN lexical : results[i].id = lexical[i].id
  /\ (\E i \in DOMAIN results : MemoryOf(results[i]) = NoID) =>
       lexical = <<>> /\ \A i \in DOMAIN results : MemoryOf(results[i]) = NoID

\* A reranker decides the order and nothing else: a hit is left out only if the limit of
\* hits before it is reached or its tokens do not fit after those that come before it;
\* hits with a score come first, the best first, and the others, like those whose score
\* is not a number or was given twice, keep their order (search_reranker.go:35-155,
\* service.go:652-691).
RerankedOnly ==
  stage = "done" =>
    LET twice(id) == \E i, j \in DOMAIN graded : i # j /\ graded[i].id = id /\ graded[j].id = id
        scored(i) == \E k \in DOMAIN graded :
                       /\ graded[k].id = RerankID(before, i) /\ graded[k].score # NaN /\ ~twice(graded[k].id)
        score(i) == IF scored(i)
                    THEN graded[CHOOSE k \in DOMAIN graded : graded[k].id = RerankID(before, i)].score ELSE NaN
        goesBefore(i, j) == score(i) > score(j) \/ (score(i) = score(j) /\ i < j)
        shown == {i \in DOMAIN before : before[i] \in ToSet(results)}
        at(i) == Cardinality({j \in DOMAIN before : goesBefore(j, i)}) + 1
        tokens(S) == MapThenSumSet(LAMBDA i : before[i].tokens, S)
        earlier(i) == {j \in shown : goesBefore(j, i)}
    IN \* turns may repeat themselves
       IsInjective(before) =>
         /\ \A i \in DOMAIN before :
              i \in shown <=>
                /\ at(i) <= asked.limit
                /\ \/ asked.maxTokens <= 0 \/ earlier(i) = {}
                   \/ tokens(earlier(i)) + before[i].tokens <= asked.maxTokens
         /\ \A i, j \in shown :
              goesBefore(i, j) =>
                \E k, l \in DOMAIN results : k < l /\ results[k] = before[i] /\ results[l] = before[j]
=============================================================================
