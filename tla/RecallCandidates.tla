-------------------------- MODULE RecallCandidates ---------------------------
(***************************************************************************)
(* service/retrieval_module.go Generate, vector_store.go and               *)
(* recall_annotation_graph.go: the candidates of a recall are conclusions  *)
(* that match, merged with vectors, and then those conclusions whose facts *)
(* answer the question about an entity that a fact of the first ones       *)
(* leads to. Every fact of every candidate is followed by reads of its     *)
(* own, while conclusions are annotated, archived and deleted.             *)
(* A name is a set of fewer than five words, so that to cover four fifths  *)
(* of it is to contain it.                                                 *)
(* recall_query_decomposition.go, recall_graph.go: a generator may be put  *)
(* into others, one that asks it a question part by part and one that      *)
(* follows the relations an index has of memories.                         *)
(***************************************************************************)
EXTENDS Integers, Sequences, SequencesExt, FiniteSetsExt

CONSTANTS
  Annotations, \* sequence of [id, memory, reads], by ID; reads is a set of [kind, subject, object]
  Found,      \* what the lexical lane may rank: sequences of conclusions
  VectorLists, \* sequences of [memory, source, content, score]; a memory is known by its ID
  Respelled,  \* the conclusions that IDs of vectors name in another way than theirs: id:7 is 7
  Questions,  \* [words, asks, relations, topic, sources]
  Worlds,     \* sets of facts that are annotated at the beginning
  MaxFacts,   \* how many facts one read returns
  MaxChanges,
  Plans,      \* [words, scope, queries]: a question and its parts, [key, spelling] each
  Returned,   \* what the generator may find for one: sequences of [memory, scope, evidence]
  Indexes     \* [memories, relations]: candidates by ID, and a sequence of relations

VARIABLES
  status,     \* of each conclusion: active, archived or deleted
  annotated,  \* table goncho_memory_annotations
  changes, question, stage, warned,
  base,       \* candidates of the lexical and the vector lane
  out,
  todo,       \* the reads of the expansion that are left
  seen,       \* facts that a read of the expansion could have returned
  always,     \* facts that none of its reads could miss
  around      \* the call of the generators around it

tableVars == <<status, annotated, changes>>
candidateVars == <<tableVars, question, stage, warned, base, out, todo, seen, always>>

Facts == ToSet(Annotations)
Relations == {"uses", "depends_on", "runs_on"}
Conclusions == {f.memory : f \in Facts}

\* The questions that follow a relation, in the order they are asked.
FollowsRelation ==
  <<"owner", "version", "metric", "location", "preference", "instruction", "sequence", "decision", "negation">>

CandidateTypeOK ==
  /\ status \in [Conclusions -> {"active", "archived", "deleted"}]
  /\ annotated \subseteq Facts /\ question \in Questions
  /\ stage \in {"lexical", "attach", "vector", "expand", "done", "failed"}
  /\ warned \in BOOLEAN /\ seen \subseteq Facts /\ always \subseteq seen
  /\ \A i \in DOMAIN out : ToSet(out[i].facts) \subseteq Facts

CandidateInit ==
  /\ status = [c \in Conclusions |-> "active"]
  /\ annotated \in Worlds /\ changes = 0
  /\ question \in Questions /\ stage = "lexical" /\ warned = FALSE
  /\ base = <<>> /\ out = <<>> /\ todo = <<>> /\ seen = {} /\ always = {}

-----------------------------------------------------------------------------
\* The tables

\* Of the facts of conclusions that exist, archived ones included, the oldest.
FactsOf(st, an) ==
  LET visible == SelectSeq(Annotations, LAMBDA f : f \in an /\ st[f.memory] # "deleted")
  IN SubSeq(visible, 1, Min({MaxFacts, Len(visible)}))
queryAnnotationGraphFacts == FactsOf(status, annotated)

\* What a read may return, before and after a change.
Watch(readable) ==
  IF stage = "expand" THEN seen' = seen \cup readable /\ always' = always \cap readable
                      ELSE UNCHANGED <<seen, always>>

Change(st, an) ==
  /\ changes < MaxChanges /\ changes' = changes + 1
  /\ status' = st /\ annotated' = an
  /\ Watch(ToSet(FactsOf(st, an)))
  /\ UNCHANGED <<question, stage, warned, base, out, todo>>

\* A fact is stored after its conclusion, in a statement of its own.
Annotate(f) == f \notin annotated /\ Change(status, annotated \cup {f})
Archive(c) == status[c] = "active" /\ Change([status EXCEPT ![c] = "archived"], annotated)
Delete(c) == status[c] # "deleted" /\ Change([status EXCEPT ![c] = "deleted"], annotated)

-----------------------------------------------------------------------------
\* The lanes

Allows(source) == question.sources = {} \/ question.sources \cap {"*", source} # {}

\* A candidate, what it is known by, and the paths that lead to it.
NewCandidate(memory, facts, semantic, graph) ==
  [memory |-> memory, facts |-> facts, semantic |-> semantic, graph |-> graph]

Lexical(s) ==
  /\ stage = "lexical" /\ Allows("conclusion")
  /\ \A i \in DOMAIN s : status[s[i]] = "active"
  /\ base' = [i \in DOMAIN s |-> NewCandidate(s[i], <<>>, 0, <<>>)]
  /\ stage' = "attach"
  /\ UNCHANGED <<tableVars, question, warned, out, todo, seen, always>>

\* attachConclusionFactAnnotations: all of the facts, in a second read.
Attach ==
  LET facts(c) == SelectSeq(Annotations, LAMBDA f : f \in annotated /\ f.memory = c)
  IN /\ stage = "attach" /\ stage' = "vector"
     /\ base' = [i \in DOMAIN base |-> [base[i] EXCEPT !.facts = facts(base[i].memory)]]
     /\ UNCHANGED <<tableVars, question, warned, out, todo, seen, always>>

\* recallSourcePlan: only vectors were asked for, or neither.
SkipConclusions ==
  /\ stage = "lexical" /\ ~Allows("conclusion")
  /\ stage' = IF Allows("vector") THEN "vector" ELSE "done"
  /\ UNCHANGED <<tableVars, question, warned, base, out, todo, seen, always>>

At(candidates, memory) == {i \in DOMAIN candidates : candidates[i].memory = memory}

vectorHitSource(v) == IF v.source = "" THEN "vector" ELSE v.source
mergeVectorRecallCandidates(candidates, v) ==
  LET same == At(candidates, v.memory)
  IN CASE v.content = "" \/ ~Allows(vectorHitSource(v)) -> candidates
       [] same = {} -> Append(candidates, NewCandidate(v.memory, <<>>, v.score, <<>>))
       [] OTHER -> LET i == Min(same)
                   IN [candidates EXCEPT ![i].semantic = Max({@, v.score})]

vectorHitsByScoreDesc(vs) ==
  LET order == SetToSortSeq(DOMAIN vs, LAMBDA i, j : vs[i].score > vs[j].score \/
                                                     (vs[i].score = vs[j].score /\ i < j))
  IN [k \in DOMAIN order |-> vs[order[k]]]

-----------------------------------------------------------------------------
\* The annotation graph

Reading(f, kinds) == {r \in f.reads : r.kind \in kinds}
EntityMatches(a, b) == a = b
EntityMentionedInFact(entity, name) == entity # {} /\ entity \subseteq name
Named(name) == name # {} /\ name \subseteq question.words

\* The entities that a fact leads to, by its owner or by its relation.
QueryMatchesOwnerFact(f) == {r.object : r \in {s \in Reading(f, {"owns"}) : Named(s.subject)}}
QueryMatchesKGRelation(f) ==
  {r.object : r \in {s \in Reading(f, question.relations) : Named(s.subject)}}

Read(c, f, ask, entity) == [from |-> c.memory, fact |-> f, ask |-> ask, entity |-> entity]
\* At most one owner and one relation are read from a fact.
ReadsOf(c, f) ==
  LET asks == SelectSeq(FollowsRelation, LAMBDA a : a \in question.asks)
      owned == IF "timeline" \in question.asks THEN SetToSeq(QueryMatchesOwnerFact(f)) ELSE <<>>
      related(e) == [a \in DOMAIN asks |-> Read(c, f, asks[a], e)]
      entities == SetToSeq(QueryMatchesKGRelation(f))
  IN [k \in DOMAIN owned |-> Read(c, f, "timeline", owned[k])] \o
     FlattenSeq([k \in DOMAIN entities |-> related(entities[k])])
ReadsOfAll(candidates) ==
  FlattenSeq([i \in DOMAIN candidates |->
    FlattenSeq([k \in DOMAIN candidates[i].facts |-> ReadsOf(candidates[i], candidates[i].facts[k])])])

\* What answers a question about an entity, by the whole name or by a mention of it.
OnTopic(ask, r) ==
  ask \in {"preference", "instruction"} => question.topic[ask] \subseteq r.object
Answers(ask, entity, r) ==
  CASE ask = "owner" -> r.kind = "owns" /\ EntityMatches(entity, r.object)
    [] ask \in {"timeline", "location", "preference", "instruction", "version"} ->
         r.kind = ask /\ EntityMatches(entity, r.subject) /\ OnTopic(ask, r)
    [] OTHER -> r.kind = ask /\ EntityMentionedInFact(entity, r.subject)

\* Mutant: a conclusion answers its own question.
ItselfToo(read, f) == TRUE
Elsewhere(read, f) == f.memory # read.from

DirectTargets(read) ==
  LET answers == SelectSeq(queryAnnotationGraphFacts,
                   LAMBDA f : Elsewhere(read, f) /\ \E r \in f.reads : Answers(read.ask, read.entity, r))
  IN [k \in DOMAIN answers |-> [fact |-> answers[k], path |-> <<read.fact.id, answers[k].id>>]]

\* A version is asked of what the entity is related to; it may be the source that tells.
VersionTargets(read) ==
  LET facts == queryAnnotationGraphFacts
      next(f) == {r.object : r \in {s \in Reading(f, Relations) : EntityMatches(read.entity, s.subject)}}
      through(f) == IF Elsewhere(read, f)
                    THEN SelectSeq(facts, LAMBDA g : \E e \in next(f), r \in g.reads : Answers("version", e, r))
                    ELSE <<>>
      paths(f) == [k \in DOMAIN through(f) |->
                     [fact |-> through(f)[k], path |-> <<read.fact.id, f.id, through(f)[k].id>>]]
  IN FlattenSeq([i \in DOMAIN facts |-> paths(facts[i])])

Targets(read) == IF read.ask = "version" THEN VersionTargets(read) ELSE DirectTargets(read)

\* Mutant: a conclusion that is a candidate becomes one again.
Again(candidates, t) == Append(candidates, NewCandidate(t.fact.memory, <<t.fact>>, 0, <<t.path>>))
\* A path is shown once, and a conclusion is one candidate.
appendAnnotationGraphCandidate(candidates, t) ==
  LET same == At(candidates, t.fact.memory)
  IN IF same = {}
     THEN Append(candidates, NewCandidate(t.fact.memory, <<t.fact>>, 0, <<t.path>>))
     ELSE LET i == Min(same)
          IN IF t.path \in ToSet(candidates[i].graph) THEN candidates
             ELSE [candidates EXCEPT ![i].graph = Append(@, t.path)]

-----------------------------------------------------------------------------
\* The recall

\* expandAnnotationGraphRecall begins: the reads follow from the candidates as they are.
BeginExpansion(candidates) ==
  /\ base' = candidates /\ out' = candidates
  /\ todo' = ReadsOfAll(candidates)
  /\ stage' = IF todo' = <<>> THEN "done" ELSE "expand"
  /\ seen' = ToSet(queryAnnotationGraphFacts) /\ always' = seen'
  /\ UNCHANGED <<tableVars, question>>

MergeVectors(vs) ==
  /\ stage = "vector"
  /\ BeginExpansion(FoldLeft(mergeVectorRecallCandidates, base, vectorHitsByScoreDesc(vs)))
  /\ UNCHANGED warned

\* There is no store, or nothing to ask it.
WithoutVectors == stage = "vector" /\ BeginExpansion(base) /\ UNCHANGED warned
\* The provider fails, or the question is longer than what it takes.
VectorsUnavailable == stage = "vector" /\ BeginExpansion(base) /\ warned' = TRUE

Expand ==
  /\ stage = "expand"
  /\ out' = FoldLeft(appendAnnotationGraphCandidate, out, Targets(Head(todo)))
  /\ todo' = Tail(todo)
  /\ stage' = IF todo' = <<>> THEN "done" ELSE "expand"
  /\ UNCHANGED <<tableVars, question, warned, base, seen, always>>

GenerateFails ==
  /\ stage \in {"lexical", "attach", "expand"} /\ stage' = "failed"
  /\ out' = <<>>
  /\ UNCHANGED <<tableVars, question, warned, base, todo, seen, always>>

CandidateNext ==
  \/ /\ stage \notin {"done", "failed"}
     /\ \/ \E f \in Facts : Annotate(f)
        \/ \E c \in Conclusions : Archive(c) \/ Delete(c)
  \/ \E s \in Found : Lexical(s)
  \/ \E vs \in VectorLists : MergeVectors(vs)
  \/ Attach \/ SkipConclusions \/ WithoutVectors \/ VectorsUnavailable \/ Expand \/ GenerateFails

CandidateSpec == CandidateInit /\ [][CandidateNext]_candidateVars

-----------------------------------------------------------------------------
\* Generators around a generator. IDs are trimmed: the expansion looks for a memory
\* by its trimmed ID and stores it by the ID it was found with, and would not end.

Unnamed == 0
AroundInit ==
  \E plan \in Plans, index \in Indexes :
    around = [at |-> "plan", plan |-> plan, index |-> index, queries |-> <<>>, ran |-> <<>>,
              first |-> <<>>, out |-> <<>>, passes |-> 0]

\* Mutant: every part is asked as it is spelled.
AsSpelled(queries) == SelectSeq(queries, LAMBDA q : q.key # "")
\* plannedRecallQueries: of the queries that differ in case and spaces the first.
Planned(queries) ==
  LET first == {i \in DOMAIN queries :
                  queries[i].key # "" /\ \A j \in 1..i-1 : queries[j].key # queries[i].key}
  IN [k \in 1..Cardinality(first) |-> queries[SetToSortSeq(first, LAMBDA i, j : i < j)[k]]]

Plan ==
  /\ around.at = "plan"
  /\ around' = [around EXCEPT !.at = "ask", !.queries = Planned(around.plan.queries)]

Evidence(kind, from, id, note, score) == [kind |-> kind, source |-> from, id |-> id, note |-> note, score |-> score]
recallCandidateEvidenceKey(e) == <<e.kind, e.source, e.id, e.note>>

\* Mutant: the first score of an evidence stays.
FirstScore(old, new) == old
mergeRecallEvidenceItem(old, new) == IF new.score > old.score THEN new ELSE old
mergeRecallCandidateEvidence(c, item) ==
  LET merge(es, e) ==
        LET same == {i \in DOMAIN es : recallCandidateEvidenceKey(es[i]) = recallCandidateEvidenceKey(e)}
        IN IF same = {} THEN Append(es, e) ELSE [es EXCEPT ![Max(same)] = mergeRecallEvidenceItem(@, e)]
  IN [c EXCEPT !.scope = IF @ = "" THEN item.scope ELSE @, !.evidence = FoldLeft(merge, @, item.evidence)]

\* A candidate without an ID is never the same as another.
appendMergedRecallCandidate(candidates, item) ==
  LET same == IF item.memory = Unnamed THEN {} ELSE At(candidates, item.memory)
  IN IF same = {} THEN Append(candidates, item)
     ELSE [candidates EXCEPT ![Min(same)] = mergeRecallCandidateEvidence(@, item)]

\* Each query reads the tables as they are then.
AskPart(items) ==
  /\ around.at = "ask" /\ around.queries # <<>>
  /\ around' = [around EXCEPT !.queries = Tail(@), !.ran = Append(@, [query |-> Head(around.queries), items |-> items]),
                             !.out = FoldLeft(appendMergedRecallCandidate, @, items)]

AllAsked ==
  /\ around.at = "ask" /\ around.queries = <<>>
  /\ around' = [around EXCEPT !.at = "relate", !.first = around.out]

\* One query that fails leaves no candidates.
AskFails ==
  /\ around.at = "ask" /\ around.queries # <<>>
  /\ around' = [around EXCEPT !.at = "failed", !.out = <<>>]

\* Mutant: a relation that waits for review is followed.
PendingToo(r) == Unnamed \notin {r.from, r.to} /\ r.terms \subseteq around.plan.words
Followed(r) ==
  /\ r.accepted /\ Unnamed \notin {r.from, r.to}
  /\ r.terms \subseteq around.plan.words
\* The index has the memory under its own ID, and not for another scope.
TargetFits(r) ==
  /\ r.to \in DOMAIN around.index.memories
  /\ LET target == around.index.memories[r.to] IN
     target.memory = r.to /\ (target.scope \in {"", around.plan.scope} \/ around.plan.scope = "")

graphRelationNote(r) == <<r.from, r.name, r.to>>
graphPathEvidence(c) == SelectSeq(c.evidence, LAMBDA e : e.kind = "graph")
graphExpandedProvenance(from, target, r) ==
  target.evidence \o graphPathEvidence(from) \o <<Evidence("graph", r.from, r.id, graphRelationNote(r), r.score)>>
graphCandidateHasRelationEvidence(c, r) ==
  \E e \in ToSet(c.evidence) :
    e.kind = "graph" /\ ((r.id # "" /\ e.id = r.id) \/ (e.source = r.from /\ e.note = graphRelationNote(r)))

enrichExisting(candidates, r) ==
  LET from == At(candidates, r.from)
      to == At(candidates, r.to)
  IN IF ~Followed(r) \/ from = {} \/ to = {} \/ ~TargetFits(r) THEN candidates
     ELSE IF graphCandidateHasRelationEvidence(candidates[Max(to)], r) THEN candidates
     ELSE [candidates EXCEPT ![Max(to)].evidence =
             graphExpandedProvenance(candidates[Max(from)], candidates[Max(to)], r)]
expandTo(candidates, r) ==
  LET from == At(candidates, r.from)
      target == around.index.memories[r.to]
  IN IF ~Followed(r) \/ from = {} \/ At(candidates, r.to) # {} \/ ~TargetFits(r) THEN candidates
     ELSE Append(candidates, [target EXCEPT !.evidence = graphExpandedProvenance(candidates[Max(from)], target, r)])

\* Mutant: what the relations lead to is not followed further.
OnePass(candidates, more) == TRUE
NothingNew(candidates, more) == more = candidates
\* expandGraphRecallCandidates: one pass over the relations after the other.
Relate ==
  /\ around.at = "relate"
  /\ LET relations == around.index.relations
         more == FoldLeft(expandTo, FoldLeft(enrichExisting, around.out, relations), relations)
     IN around' = [around EXCEPT !.out = more, !.passes = @ + 1,
                                 !.at = IF NothingNew(around.out, more) THEN "done" ELSE "relate"]

AroundNext == Plan \/ (\E items \in Returned : AskPart(items)) \/ AllAsked \/ AskFails \/ Relate

-----------------------------------------------------------------------------
\* Properties

FactNumber(n) == CHOOSE f \in Facts : f.id = n

\* The paths there are among some facts, from the facts of the first candidates.
Paths(facts) ==
  LET starts == UNION {ToSet(base[i].facts) : i \in DOMAIN base}
      leads(f, ask) == IF ask = "timeline" THEN QueryMatchesOwnerFact(f) ELSE QueryMatchesKGRelation(f)
      direct == {<<f.id, g.id>> : <<f, g>> \in {<<f, g>> \in starts \X facts :
                   /\ f.memory # g.memory
                   /\ \E ask \in question.asks \ {"version"} : \E e \in leads(f, ask), r \in g.reads :
                        Answers(ask, e, r)}}
      versions == IF "version" \notin question.asks THEN {} ELSE
                  {<<f.id, g.id, h.id>> : <<f, g, h>> \in {<<f, g, h>> \in starts \X facts \X facts :
                     /\ f.memory # g.memory
                     /\ \E e \in QueryMatchesKGRelation(f), r \in g.reads, s \in h.reads :
                          r.kind \in Relations /\ r.subject = e /\ Answers("version", r.object, s)}}
  IN direct \cup versions

\* The conclusion that a candidate is.
ConclusionOf(c) == IF c.memory \in DOMAIN Respelled THEN Respelled[c.memory] ELSE c.memory

\* A recall tells of a conclusion once under each ID: a vector whose memory ID spells it
\* in another way, id:7 for 7, stands beside it, unlike in a search, and is told of by
\* nothing but vectors: its facts, and what facts lead to it, are told under its own ID.
\* The first candidates stay in front; another one,
\* and every path, leads in one step, or two for a version, from a fact of one of them to
\* a fact of the conclusion that could be read, and no path is missing of which no read
\* could have missed a fact. Archived conclusions, too, are found that way
\* (retrieval_module.go:55-91, vector_store.go:126-147, recall_annotation_graph.go:80-212,
\* 466-491, 635-651).
GraphExplains ==
  /\ \A i, j \in DOMAIN out : i # j /\ ConclusionOf(out[i]) = ConclusionOf(out[j]) =>
       /\ out[i].memory # out[j].memory
       /\ \A k \in {i, j} : out[k].memory \in DOMAIN Respelled =>
            out[k].semantic > 0 /\ out[k].facts = <<>> /\ out[k].graph = <<>>
  /\ stage = "done" =>
       LET could == Paths(seen)
           must == Paths(always)
           leadsTo(p, c) == FactNumber(Last(p)).memory = c.memory
       IN /\ \A i \in DOMAIN base : [out[i] EXCEPT !.graph = <<>>] = base[i]
          /\ \A i \in DOMAIN out :
               /\ i > Len(base) => out[i].graph # <<>>
               /\ IsInjective(out[i].graph)
               /\ \A p \in ToSet(out[i].graph) : p \in could /\ leadsTo(p, out[i])
          /\ \A p \in must : \E i \in DOMAIN out : p \in ToSet(out[i].graph) /\ leadsTo(p, out[i])

Scored(c, e) == \E x \in ToSet(c.evidence) : recallCandidateEvidenceKey(x) = recallCandidateEvidenceKey(e) /\ x.score = e.score
\* A question and its parts are asked once each, and what they find is one list: a memory
\* is in it once, with everything any of them found it by, each evidence by its highest
\* score; what has no ID is in it as often as it was found (recall_query_decomposition.go:44-101,
\* vector_store.go:171-189).
EveryPartCounts ==
  around.at = "relate" /\ around.passes = 0 =>
    LET items == FlattenSeq([i \in DOMAIN around.ran |-> around.ran[i].items])
        named(cs) == SelectSeq(cs, LAMBDA c : c.memory # Unnamed)
        found(c, e) == {x.score : x \in UNION {{y \in ToSet(items[i].evidence) :
                          items[i].memory = c.memory /\ recallCandidateEvidenceKey(y) = recallCandidateEvidenceKey(e)}
                          : i \in DOMAIN items}}
    IN /\ IsInjective([i \in DOMAIN around.ran |-> around.ran[i].query.key])
       /\ {q.key : q \in ToSet(around.plan.queries)} \ {""} = {r.query.key : r \in ToSet(around.ran)}
       /\ IsInjective([i \in DOMAIN named(around.out) |-> named(around.out)[i].memory])
       /\ Len(around.out) - Len(named(around.out)) = Len(items) - Len(named(items))
       /\ \A i \in DOMAIN named(items) : LET item == named(items)[i] IN
            \E c \in ToSet(around.out) :
              /\ c.memory = item.memory
              /\ \A e \in ToSet(item.evidence) : Scored(c, [e EXCEPT !.score = Max(found(c, e))])

\* What relations lead to is what can be reached by accepted ones that the question has
\* the terms of, in whatever order the index has them, and each is told of where it leads
\* to; nothing else is. The first candidates keep their places and what they were found
\* by; no relation is followed twice, so that the passes come to an end, circles or not
\* (recall_graph.go:63-113, 137-151, 178-217).
RelationsExplain ==
  around.at = "done" =>
    LET ids(cs) == {c.memory : c \in ToSet(cs)} \ {Unnamed}
        accepted == {r \in ToSet(around.index.relations) :
                       r.accepted /\ r.terms \subseteq around.plan.words /\ TargetFits(r)}
        closed == {S \in SUBSET (ids(around.out) \cup {r.to : r \in accepted}) :
                     ids(around.first) \subseteq S /\ \A r \in accepted : r.from \in S => r.to \in S}
        of(id) == CHOOSE c \in ToSet(around.out) : c.memory = id
        own == UNION {ToSet(c.evidence) : c \in ToSet(around.first) \cup Range(around.index.memories)}
        tells(e) == \E r \in accepted : e = Evidence("graph", r.from, r.id, graphRelationNote(r), r.score)
    IN /\ ids(around.out) = {id \in ids(around.out) : \A S \in closed : id \in S}
       /\ ids(around.out) \in closed
       /\ Cardinality(ids(around.out)) = Len(SelectSeq(around.out, LAMBDA c : c.memory # Unnamed))
       /\ \A i \in DOMAIN around.first :
            /\ around.out[i].memory = around.first[i].memory
            /\ IsPrefix(around.first[i].evidence, around.out[i].evidence)
       /\ \A r \in accepted : r.from \in ids(around.out) => graphCandidateHasRelationEvidence(of(r.to), r)
       /\ \A c \in ToSet(around.out) : \A e \in ToSet(graphPathEvidence(c)) : e \in own \/ tells(e)
       /\ around.passes <= Len(around.index.relations) + 1
=============================================================================
