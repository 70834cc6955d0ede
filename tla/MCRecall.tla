------------------------------ MODULE MCRecall ------------------------------
(***************************************************************************)
(* Recall and what it leans on: the circuit breaker around the embedding   *)
(* provider, the local index of the vectors it returns, the selection of   *)
(* candidates and what their notes say, a search, its filter and its       *)
(* fallback to the turns of other chats, and the benchmark of them all.    *)
(* Reindexing calls the provider without the breaker, a selection is made  *)
(* of candidates that were found and the others share tables that do not   *)
(* change for them, so each is checked with the others at rest: part names *)
(* the one a behaviour is about.                                           *)
(***************************************************************************)
EXTENDS CircuitBreaker, SequencesExt

CONSTANTS Clients, Memories, Texts, Dims, MaxCalls

VARIABLES
  part,
  conclusions, entries, dimensions, provider, disk, call, calls, unsaved, met,
  query, input, stage, scored, remaining, selected, rejected, warnings,
  note, source, agent, question, heard,
  rows, changes, asked, lane, lexical, results, before, graded,
  meta, chatUsers, turns, directory, request, fallback, listed, owner, evidence, hits, puts,
  filtering, raw, filterCall, compiled, filtered,
  concluded, suite, at, refs, running, reports, runs, means, registry, sending, clock,
  status, annotated, tableChanges, asking, generating, warned, base, out, todo, seen, always, around

vectorVars == <<conclusions, entries, dimensions, provider, disk, call, calls, unsaved, met>>
selectionVars == <<query, input, stage, scored, remaining, selected, rejected, warnings>>
noteVars == <<note, source, agent, question, heard>>
searchVars == <<rows, changes, asked, lane, lexical, results, before, graded>>
crossVars == <<meta, chatUsers, turns, directory, request, fallback, listed, owner, evidence, hits, puts>>
filterVars == <<filtering, raw, filterCall, compiled, filtered>>
candidateVars ==
  <<status, annotated, tableChanges, asking, generating, warned, base, out, todo, seen, always>>
benchmarkVars == <<concluded, suite, at, refs, running, reports, runs, means, registry, sending, clock>>

\* One memory of no session and one of a session; searches that like one text more, one
\* text only or neither, for all, for one session, and for a source and one hit.
One == CHOOSE t \in Texts : TRUE
Likes(one, other) == [t \in Texts |-> IF t = One THEN one ELSE other]
SomeSearches ==
  {[peer |-> "p", session |-> "", sources |-> {}, limit |-> 0, alike |-> Likes(1, 2)],
   [peer |-> "", session |-> "s2", sources |-> {}, limit |-> 0, alike |-> Likes(1, 1)],
   [peer |-> "p", session |-> "s1", sources |-> {}, limit |-> 1, alike |-> Likes(2, 1)],
   [peer |-> "p", session |-> "", sources |-> {"vector"}, limit |-> 1, alike |-> Likes(0, 1)]}
\* Another workspace shares the index, and the ID of a memory.
IndexedUnder ==
  <<[id |-> 1, workspace |-> "other", peer |-> "p", session |-> "", source |-> "conclusion"],
    [id |-> 1, workspace |-> "own", peer |-> "p", session |-> "", source |-> "conclusion"],
    [id |-> 2, workspace |-> "own", peer |-> "p", session |-> "s1", source |-> ""]>>
Index == INSTANCE VectorIndex WITH About <- IndexedUnder, Searches <- SomeSearches, Here <- "own"

\* Two scopes and none, two sessions and none, links from one candidate to others.
Candidate(id, scope, keyword, fact, tokens, temporal, spoken, session, links) ==
  [id |-> id, scope |-> scope, signals |-> [keyword |-> keyword, fact |-> fact],
   tokens |-> tokens, temporal |-> temporal, spoken |-> spoken,
   groups |-> [session_id |-> session], links |-> links]
Candidates ==
  {Candidate(1, "", 500000, 0, 1, "superseded", TRUE, "s1", {2}),
   Candidate(2, "x", 500000, 0, 2, "unknown", FALSE, "s1", {}),
   Candidate(3, "y", 1000000, 500000, 1, "current", FALSE, "", {}),
   Candidate(4, "x", 500000, 200000, 1, "superseded", TRUE, "s2", {2, 3}),
   Candidate(5, "", 520000, 0, 2, "unknown", FALSE, "s2", {})}
\* Any order of up to three of them, and two orders of four.
InOrder(s) == \A i, j \in DOMAIN s : i < j => s[i].id < s[j].id
Found ==
  {s \in SeqOf(Candidates, 3) : IsInjective(s)} \cup
  {s \in [1..4 -> Candidates] : InOrder(s) \/ InOrder(Reverse(s))}
Recalls ==
  [scope : {"", "x"}, limit : {0, 2}, maxTokens : {0, 3}, current : BOOLEAN, speaker : BOOLEAN,
   weights : {[keyword |-> 25, fact |-> 15, scope |-> 3]}, keys : {{}, {"session_id"}}, budget : {4}]
\* One lane's warning twice, with other evidence, late, and one that says nothing.
LaneWarning(step, code, why) == [stage |-> step, code |-> code, evidence |-> why]
SomeWarnings ==
  {<<>>, <<LaneWarning("generate", "", "")>>,
   <<LaneWarning("select", "token_budget_truncated", "e"), LaneWarning("generate", "semantic_unavailable", "e"),
     LaneWarning("generate", "graph_disabled", ""), LaneWarning("generate", "semantic_unavailable", "f"),
     LaneWarning("generate", "graph_disabled", "")>>}
Selection == INSTANCE RecallSelection WITH
  Memories <- Candidates, Generated <- Found, Queries <- Recalls, Heard <- SomeWarnings

Word(w) == [left |-> w, eq |-> FALSE, right |-> ""]
Assigned(k, v) == [left |-> k, eq |-> TRUE, right |-> v]
SpeakerFields ==
  {Word("speaker"), Word("m"), Word("from"), Assigned("", ""), Assigned("speaker", ""),
   Assigned("speaker", "m"), Assigned("", "m"), Assigned("k", "v")}
TemporalFields ==
  {Word("not"), Word("superseded"), Word("superseded_by"), Assigned("", ""), Word("x"),
   Assigned("superseded_by", "x"), Word("current_fact")}
SomeNotes ==
  SeqOf(SpeakerFields, 3) \cup SeqOf(TemporalFields, 3) \cup
  {<<f>> \o s : f \in {Word("speaker"), Assigned("k", "v")}, s \in [1..3 -> SpeakerFields \ {Word("from"), Assigned("", "m")}]}
SomeQuestions == {<<"did", "m", "say", "l">>, <<"l", "has", "m", "l", "said">>, <<"m">>}
Listening == INSTANCE RecallNotes WITH
  Notes <- SomeNotes, Sources <- {<<>>, <<"l">>}, Agents <- {<<>>, <<"m">>, <<"m", "m">>},
  Questions <- SomeQuestions

\* Two conclusions that match and one that does not; vectors of either source, of
\* each form of ID, with and without content.
Conclusion(id, rank, tokens) == [id |-> id, rank |-> rank, tokens |-> tokens]
Vector(memory, from, content, score, tokens) ==
  [memory |-> memory, source |-> from, content |-> content, score |-> score, tokens |-> tokens]
Vectors ==
  {Vector(<<"decimal", 1>>, "conclusion", "a", 2, 1), Vector(<<"id:", 1>>, "", "b", 1, 1),
   Vector(<<"name", "n">>, "vector", "b", 1, 2), Vector(<<"blank", 0>>, "", "b", 3, 1),
   Vector(<<"id:", 3>>, "conclusion", "", 1, 1)}
SearchRequests ==
  {[query |-> q, sources |-> {}, limit |-> 3, maxTokens |-> 0] : q \in BOOLEAN} \cup
  {[query |-> TRUE, sources |-> {"turn", "vector"}, limit |-> 3, maxTokens |-> 3],
   [query |-> TRUE, sources |-> {"conclusion"}, limit |-> 1, maxTokens |-> 0],
   [query |-> TRUE, sources |-> {"telegram"}, limit |-> 2, maxTokens |-> 0],
   [query |-> FALSE, sources |-> {"telegram", "*"}, limit |-> 1, maxTokens |-> 0]}
\* The same said twice, in chats of two sources, and where a chat has none.
Said(where) == [content |-> "t", under |-> where]
Searching == INSTANCE Retrieval WITH
  Stored <- {Conclusion(1, 1, 2), Conclusion(2, 1, 2), Conclusion(3, 0, 1)},
  Answers <- {<<>>} \cup {s \in [1..2 -> Vectors] : s[1].score >= s[2].score},
  TurnLists <- {<<>>, <<Said(""), Said("discord"), Said("telegram"), Said("telegram")>>},
  Searches <- SearchRequests, Scores <- {0, 1, 2}, MaxRanked <- 2, MaxChanges <- 1, stage <- lane

Meta(session, chat, user, parent) ==
  [session |-> session, chat |-> chat, user |-> user, parent |-> parent]
\* Chats that change their user, sessions without a chat or a user, a loop of three.
SomeMetas ==
  {Meta("s1", "x:1", "u", "nowhere"), Meta("s1", "x:1", "u", "s2"), Meta("s1", "nowhere", "u", "s1"),
   Meta("s2", "x:1", "v", "nowhere"), Meta("s2", "y:2", "u", "s3"),
   Meta("s3", "nowhere", "u", "s2")}
SomeRows ==
  {[session |-> "s1", chat |-> "x:1"], [session |-> "s2", chat |-> "y:2"],
   [session |-> "s2", chat |-> "x:1"], [session |-> "s3", chat |-> "nowhere"]}
Request(key, scope, sources, sessions, limit) ==
  [user |-> "u", key |-> key, scope |-> scope, sources |-> sources, sessions |-> sessions, limit |-> limit]
SomeRequests ==
  {Request("x:1", "user", {}, {}, 2), Request("x:1", "user", {"y"}, {}, 2),
   Request("x:1", "", {"x"}, {}, 1), Request("s1", "user", {}, {"s2"}, 2),
   Request("nowhere", "user", {"turn"}, {}, 2), Request("y:2", "user", {}, {"s1"}, 2)}
Crossing == INSTANCE CrossChat WITH
  SessionIds <- {"s1", "s2", "s3"}, Chats <- {"x:1", "y:2"}, Origin <- ("x:1" :> "x" @@ "y:2" :> "y"),
  Users <- {"u", "v"}, Metas <- SomeMetas, Rows <- SomeRows, Requests <- SomeRequests,
  MaxPuts <- 3, MaxTurns <- 2, stage <- fallback

Says(kind, subject, object) == [kind |-> kind, subject |-> subject, object |-> object]
Fact(id, memory, reads) == [id |-> id, memory |-> memory, reads |-> reads]
\* Three conclusions: the first one leads to the second one, whose facts lead on to the
\* first one and to the third one.
SomeFacts ==
  <<Fact(1, 1, {Says("uses", {"api"}, {"db"})}), Fact(2, 2, {Says("owns", {"ann"}, {"db"})}),
    Fact(3, 2, {Says("runs_on", {"db"}, {"vm"})}), Fact(4, 3, {Says("version", {"vm"}, {})}),
    Fact(5, 1, {Says("version", {"vm"}, {})}),
    Fact(6, 3, {Says("metric", {"db", "speed"}, {}), Says("timeline", {"db"}, {})}),
    Fact(7, 1, {Says("owns", {"api"}, {"db"})})>>
Question(words, asks, relations, sources) ==
  [words |-> words, asks |-> asks, relations |-> relations,
   topic |-> [preference |-> {}, instruction |-> {}], sources |-> sources]
SomeAsked ==
  {Question({"api", "is"}, {"owner", "version"}, {"uses"}, {}),
   Question({"ann", "api"}, {"timeline", "metric", "owner"}, {"uses", "runs_on"}, {}),
   Question({"api"}, {"owner"}, {"uses"}, {"vector"}), Question({"api"}, {"version"}, {"uses"}, {"turn", "*"}), Question({"api"}, {"owner"}, {"uses"}, {"turn"})}
\* Of conclusions 1 and 3, of the first two written in another way, and an empty one.
FoundVectors ==
  {[memory |-> 1, source |-> "conclusion", content |-> "a", score |-> 1],
   [memory |-> 3, source |-> "", content |-> "b", score |-> 2],
   [memory |-> 101, source |-> "vector", content |-> "b", score |-> 1],
   [memory |-> 102, source |-> "conclusion", content |-> "b", score |-> 1],
   [memory |-> 2, source |-> "conclusion", content |-> "", score |-> 1]}
\* A question, its parts told twice, and memories that relations lead to: in a circle, in
\* another order than they are followed, waiting for review, and of another scope.
Part(key, spelling) == [key |-> key, spelling |-> spelling]
SomePlans ==
  {[words |-> {"db"}, scope |-> "", queries |-> <<Part("q", "Q")>>],
   [words |-> {"db", "up"}, scope |-> "x", queries |-> <<Part("q", "q"), Part("", " "), Part("q", "Q"), Part("p", "p")>>]}
Proof(kind, from, id, path, score) == [kind |-> kind, source |-> from, id |-> id, note |-> path, score |-> score]
Shown(memory, within, proofs) == [memory |-> memory, scope |-> within, evidence |-> proofs]
Keyword(score) == Proof("keyword", 0, "k", <<>>, score)
Linked(from, name, to, terms, id, accepted) ==
  [from |-> from, to |-> to, name |-> name, terms |-> terms, id |-> id, accepted |-> accepted, score |-> 2]
InIndex == [m \in 1..4 |-> Shown(m, IF m = 4 THEN "y" ELSE "", IF m = 3 THEN <<Keyword(1)>> ELSE <<>>)]
SomeIndexes ==
  {[memories |-> InIndex, relations |-> r] : r \in
    {<<>>,
     <<Linked(3, "uses", 4, {}, "d", TRUE), Linked(2, "uses", 3, {}, "c", TRUE), Linked(1, "uses", 2, {"db"}, "a", TRUE),
       Linked(3, "calls", 1, {"up"}, "b", TRUE)>>,
     <<Linked(1, "uses", 2, {}, "a", FALSE), Linked(2, "uses", 1, {}, "", TRUE), Linked(2, "calls", 1, {}, "", TRUE),
       Linked(1, "uses", 3, {}, "e", TRUE), Linked(3, "calls", 1, {}, "e", TRUE), Linked(1, "owns", 1, {}, "f", TRUE)>>,
     <<Linked(1, "uses", 5, {}, "g", TRUE), Linked(0, "uses", 2, {}, "h", TRUE), Linked(1, "owns", 3, {"no"}, "i", TRUE)>>}}
SomeReturned ==
  {<<>>, <<Shown(1, "", <<Keyword(1)>>), Shown(0, "", <<Keyword(1)>>)>>,
   <<Shown(2, "x", <<Keyword(3)>>), Shown(1, "x", <<Keyword(2), Proof("graph", 2, "", <<2, "uses", 1>>, 1)>>)>>,
   <<Shown(4, "y", <<Proof("vector", 0, "v", <<>>, 1), Keyword(1)>>), Shown(0, "", <<>>)>>}
Generating == INSTANCE RecallCandidates WITH
  Plans <- SomePlans, Returned <- SomeReturned, Indexes <- SomeIndexes,
  Annotations <- SomeFacts, Respelled <- (101 :> 1 @@ 102 :> 2), Found <- {<<>>, <<1>>, <<2, 1>>, <<1, 3>>, <<3, 2>>},
  VectorLists <- {<<>>} \cup {s \in [1..2 -> FoundVectors] : IsInjective(s)}, Questions <- SomeAsked,
  Worlds <- {ToSet(SomeFacts), {SomeFacts[1], SomeFacts[2], SomeFacts[7]}},
  MaxFacts <- 6, MaxChanges <- 2, changes <- tableChanges, question <- asking, stage <- generating

\* Values of a field: texts, nothing, a list, operators of each kind.
OfText(t) == [is |-> "text", text |-> t]
OfItems(s) == [is |-> "list", items |-> s]
OfFields(m) == [is |-> "map", map |-> m]
OfNothing == [is |-> "null"]
Listed(s) == OfItems([i \in DOMAIN s |-> OfText(s[i])])
ValuesFor(p, q) ==
  {OfText(p), OfText("*"), OfFields("in" :> Listed(<<p, q>>)), OfFields("eq" :> OfText(q)),
   OfFields("in" :> Listed(<<"", q>>)), OfFields("in" :> Listed(<<q, "*">>))}
OddValuesFor(p, q) ==
  {OfText(""), OfNothing, Listed(<<p>>), OfFields("in" :> Listed(<<>>)), OfFields("in" :> OfText(p)),
   OfFields("in" :> OfItems(<<OfNothing>>)), OfFields(<<>>), OfFields("gt" :> OfText(p)),
   OfFields("zz" :> OfText(p)), OfFields("eq" :> OfText(p) @@ "in" :> Listed(<<q>>)),
   OfFields("eq" :> OfText(p) @@ "zz" :> OfText(p))}
PlainFilters ==
  {"session_id" :> v : v \in ValuesFor("s1", "s2")} \cup {"source" :> v : v \in ValuesFor("X", " turn")} \cup
  {"peer_id" :> v : v \in {OfText("u"), OfText("s1"), OfFields("in" :> Listed(<<"s1", "*">>))}}
OddFilters ==
  {"session_id" :> v : v \in OddValuesFor("s1", "s2")} \cup {"source" :> v : v \in OddValuesFor("X", "turn")} \cup
  {<<>>, "peer_id" :> OfNothing, "zz" :> OfText("u"), "created_at" :> OfText("u"),
   "AND" :> OfItems(<<>>), "AND" :> OfText("u"), "AND" :> OfItems(<<OfText("u")>>),
   "OR" :> OfItems(<<>>), "NOT" :> OfItems(<<OfFields("session_id" :> OfText("s1"))>>),
   "metadata" :> OfFields(<<>>), "metadata" :> OfText("u")} \cup
  {"metadata" :> OfFields("zz" :> v) : v \in OddValuesFor("s1", "s2") \cup {OfFields("zz" :> OfFields(<<>>))}}
Both(m, n) == "AND" :> OfItems(<<OfFields(m), OfFields(n)>>)
SomeFilters ==
  PlainFilters \cup OddFilters \cup
  {Both(m, n) : m \in PlainFilters \cup OddFilters, n \in PlainFilters} \cup
  {"session_id" :> v @@ "source" :> w : v \in ValuesFor("s1", "s2"), w \in ValuesFor("X", " turn")} \cup
  {Both(Both(m, "source" :> OfText("X")), n) @@ "session_id" :> OfText("s1") : m, n \in PlainFilters}
FilterCall(sources, key, origin) == [sources |-> sources, peer |-> "u", key |-> key, origin |-> origin]
SomeFilterCalls ==
  {FilterCall(s, "x:1", "x") : s \in {{}, {""}, {"TURN", "X"}, {" turn", "*"}, {"conclusion"}}} \cup
  {FilterCall(s, "s1", "") : s \in {{}, {"TURN", "X"}}} \cup {FilterCall({}, "", "")}
SomeKeys ==
  <<"AND", "NOT", "OR", "created_at", "eq", "gt", "in", "metadata", "peer_id", "session_id", "source", "zz">>
TextsUsed == {"s1", "s2", "u", "X", "x", "turn", " turn", "TURN", "*", "", "[]", "conclusion"}
WithoutSpaces == [t \in TextsUsed |-> IF t = " turn" THEN "turn" ELSE t]
InLowerCase == [t \in TextsUsed |-> CASE t = "X" -> "x" [] t \in {"TURN", " turn"} -> "turn" [] OTHER -> t]
Filtering == INSTANCE SearchFilters WITH
  Keys <- SomeKeys, Trimmed <- WithoutSpaces, Lowered <- InLowerCase, Printed <- "[]",
  Filters <- SomeFilters, Calls <- SomeFilterCalls, Sessions <- {"s1", "s2"}, NoSession <- "nowhere",
  stage <- filtering, asked <- filterCall, found <- filtered
NothingFiltered ==
  /\ filtering = "compile" /\ raw = <<>> /\ filterCall = FilterCall({}, "", "")
  /\ compiled = Filtering!Unrestricted /\ filtered = {}

\* Memories without a name, with the name of another one, without a text; a case without
\* a question, one that names a memory it did not write, one that expects no answer.
CaseMemory(ref, text) == [ref |-> ref, text |-> text, session |-> "s1"]
BenchCase(peer, ability, memories, relevant, kinds, rubric) ==
  [peer |-> peer, asks |-> TRUE, ability |-> ability, memories |-> memories, relevant |-> relevant,
   contains |-> {}, kinds |-> kinds, rubric |-> rubric, none |-> FALSE, limit |-> 2, budget |-> 0]
OneText == {"ann", "owns"}
OtherText == {"the", "db"}
SomeSuites ==
  {<<BenchCase("m", "ie", <<CaseMemory(0, OneText), CaseMemory(1, OtherText)>>, <<1>>, {}, <<>>)>>,
   <<BenchCase("m", "ie", <<CaseMemory(0, OneText), CaseMemory(3, OtherText)>>, <<3>>, {}, <<>>)>>,
   <<BenchCase("p", "ie", <<CaseMemory(0, OneText), CaseMemory(3, OtherText)>>, <<1, 0, 3>>, {}, <<{"ann"}, {"the"}>>),
     [BenchCase("p", "mr", <<CaseMemory(0, OneText)>>, <<1>>, {"graph"}, <<{"the"}>>) EXCEPT !.contains = {"vm"}]>>,
   <<[BenchCase("p", "mr", <<CaseMemory(7, OneText)>>, <<>>, {"graph"}, <<{"ann"}>>) EXCEPT !.none = TRUE],
     BenchCase("p", "mr", <<CaseMemory(0, OneText)>>, <<>>, {}, <<>>),
     BenchCase("p", "ie", <<CaseMemory(0, OneText)>>, <<1>>, {"graph"}, <<>>)>>,
   <<[BenchCase("p", "", <<CaseMemory(0, OneText)>>, <<2>>, {}, <<>>) EXCEPT !.budget = 1]>>,
   <<[BenchCase("p", "", <<CaseMemory(0, {})>>, <<1>>, {}, <<>>) EXCEPT !.asks = FALSE]>>}
ToldElsewhere ==
  {[peer |-> "m", session |-> "s2", text |-> OneText], [peer |-> "m", session |-> "s1", text |-> OtherText]}
Miss(asks, words, retrieved) == [question |-> asks, words |-> words, query |-> "w", retrieved |-> retrieved]
SomeBatches ==
  {<<Miss("q1", {"multi_hop", "scope"}, {1}), Miss("q1", {"multi_hop"}, {1})>>,
   <<Miss("q1", {"stale", "scope"}, {2})>>, <<Miss("q2", {"stale", "missing"}, {}), Miss("q2", {}, {1})>>}
Benchmark == INSTANCE RecallBenchmark WITH
  conclusions <- concluded, Suites <- SomeSuites, Others <- ToldElsewhere, StopWords <- {"the"}, Path <- {"vm"},
  Top <- 1, Deep <- 2, Latencies <- <<{1, 2}, {1}, {1, 2}>>, Tolerances <- {0, 400000, 500000},
  MaxRuns <- 2, Batches <- SomeBatches, Senders <- Clients, MaxSends <- 3

\* A part at rest has one initial state. Conclusions come in another order once one is told again.
PartInit ==
  /\ part \in {"breaker", "index", "selection", "notes", "search", "crosschat", "filters", "candidates",
              "benchmark", "registry", "around"}
  /\ part = "index" \/ (conclusions = Index!Empty /\ provider = 1)
  /\ part = "selection" \/ (input = <<>> /\ query = CHOOSE q \in Recalls : TRUE)
  /\ part = "notes" \/ (note = <<>> /\ source = <<>> /\ agent = <<>> /\ question = <<"m">>)
  /\ part = "search" \/ (rows = <<>> /\ asked = CHOOSE a \in SearchRequests : TRUE)
  /\ part = "crosschat" \/ (directory = FALSE /\ request = CHOOSE r \in SomeRequests : TRUE)
  /\ IF part = "filters" THEN Filtering!FilterInit ELSE NothingFiltered
  /\ part = "candidates" \/ (annotated = ToSet(SomeFacts) /\ asking = CHOOSE q \in SomeAsked : TRUE)
  /\ IF part = "around" THEN Generating!AroundInit ELSE around = <<>>
  /\ part = "benchmark" \/ suite = CHOOSE x \in SomeSuites : TRUE
  /\ Init /\ Index!Init /\ Selection!SelectionInit /\ Listening!NotesInit
  /\ Searching!SearchInit /\ InOrder(rows) /\ Crossing!CrossInit
  /\ Generating!CandidateInit /\ Benchmark!BenchmarkInit

PartNext ==
  /\ UNCHANGED part
  /\ IF part = "breaker" THEN Next ELSE UNCHANGED vars
  /\ IF part = "index" THEN Index!Next ELSE UNCHANGED vectorVars
  /\ IF part = "selection" THEN Selection!SelectionNext ELSE UNCHANGED selectionVars
  /\ IF part = "notes" THEN Listening!Hear ELSE UNCHANGED noteVars
  /\ IF part = "search" THEN Searching!SearchNext ELSE UNCHANGED searchVars
  /\ IF part = "crosschat" THEN Crossing!CrossNext ELSE UNCHANGED crossVars
  /\ IF part = "filters" THEN Filtering!FilterNext ELSE UNCHANGED filterVars
  /\ IF part = "candidates" THEN Generating!CandidateNext ELSE UNCHANGED candidateVars
  /\ IF part = "around" THEN Generating!AroundNext ELSE UNCHANGED around
  /\ IF part = "benchmark" THEN Benchmark!EvaluationNext
     ELSE IF part = "registry" THEN Benchmark!RegistryNext ELSE UNCHANGED benchmarkVars

\* Time passes, as in FairSpec.
PartSpec ==
  /\ PartInit
  /\ [][PartNext]_<<part, vars, vectorVars, selectionVars, noteVars, searchVars, crossVars,
                    filterVars, candidateVars, around, benchmarkVars>>
  /\ WF_vars(Tick)

-----------------------------------------------------------------------------
\* The properties of the modules; a part at rest keeps its initial state.

PartTypeOK ==
  /\ TypeOK
  /\ part = "index" => Index!TypeOK
  /\ part = "selection" => Selection!SelectionTypeOK
  /\ part = "notes" => Listening!NotesTypeOK
  /\ part = "search" => Searching!SearchTypeOK
  /\ part = "crosschat" => Crossing!CrossTypeOK
  /\ part = "filters" => Filtering!FilterTypeOK
  /\ part = "candidates" => Generating!CandidateTypeOK
  /\ part \in {"benchmark", "registry"} => Benchmark!BenchmarkTypeOK

\* A reindex that reports no failure is on disk, and found by the searches of this process
\* and of the next.
ReindexPersists ==
  part = "index" => Index!ReindexPersists /\ Index!AnswersSurvive /\ Index!ReindexedIsFound

\* What a recall finds by facts follows from facts; its trace is a function of what was
\* found, and tells why; what its notes say about time and speakers decides as they say
\* it. A search shows a memory once, in the order a reranker gave, what its filter chooses,
\* and turns of other chats as its evidence tells. A benchmark of it reports what was found.
RecallExplains ==
  /\ part = "breaker" => HealthForetells
  /\ part = "selection" =>
       /\ Selection!OrderIrrelevant /\ Selection!TraceExplains /\ Selection!SupersededYields
       /\ Selection!ReplayChecksTheSelection
  /\ part = "notes" => Listening!SpeakersRead /\ Listening!OnlyWhatIsSaid
  /\ part = "search" => Searching!OneHitPerMemory /\ Searching!RerankedOnly
  /\ part = "crosschat" => Crossing!WidensAsExplained /\ Crossing!LineageTells
  /\ part = "filters" => Filtering!FiltersEnforced
  /\ part = "candidates" => Generating!GraphExplains
  /\ part = "around" => Generating!EveryPartCounts /\ Generating!RelationsExplain
  /\ part = "benchmark" => Benchmark!BenchmarkTells /\ Benchmark!GateTells
  /\ part = "registry" => Benchmark!RegistryTells
=============================================================================
