------------------------- MODULE MemoryAnnotations -------------------------
(***************************************************************************)
(* The facts that are written beside a conclusion: every sentence is given *)
(* to one extractor per kind of fact, and a found fact becomes a sentence  *)
(* of a fixed form, which searches and the annotation graph read back with *)
(* code of their own (SearchIntent). A fact is a record of its kind, its   *)
(* parts, and the text that is stored; a value that may be missing is a    *)
(* set of at most one.                                                     *)
(***************************************************************************)
EXTENDS FactWords

CONSTANTS
  Within,     \* [word that holds a sequence marker -> [marker, head, tail]]
  Sayings        \* the texts of conclusions

VARIABLES
  content,    \* the conclusion's text
  stored,     \* its facts, of which the table keeps the texts
  asked,      \* the last question, and
  answer      \* whether the conclusion or one of its facts answers it

factVars == <<content, stored, asked, answer>>

Fact(kind, parts, text) == [kind |-> kind, parts |-> parts, text |-> text]

-----------------------------------------------------------------------------
\* Cleaning.

WithoutArticle(text, article) ==
  IF 1 \in Found(text, <<article>>) THEN Tail(text) ELSE text

\* What follows the last colon or semicolon, without articles.
cleanFactObject(value) ==
  LET marks == {i \in DOMAIN value : value[i] \in {":", ";"}}
      rest == IF marks = {} THEN value ELSE SubSeq(value, Max(marks) + 1, Len(value))
  IN FoldLeft(WithoutArticle, rest, <<"the", "a", "an">>)

\* Every separator in turn cuts what the ones before it left.
cleanFactValue(value) ==
  FoldLeft(LAMBDA v, sep : CutAt(v, Separator(v, sep)),
           value, <<";", ",", "because", "but", "and">>)

cleanSequenceValue(value) ==
  FoldLeft(LAMBDA v, sep : CutAt(v, Separator(v, sep)), value, <<"because", "but">>)

\* The copy of the search tokens that the writer keeps.
searchRankTokens(value) == Tokens(value)

\* A question word is a stopword and never a token, so these never refuse anything for "who".
searchFactSubjectLooksAssertive(subject) ==
  LET tokens == searchRankTokens(subject) IN
    /\ Len(tokens) \in 1..6
    /\ ToSet(tokens) \cap
         {"who", "what", "which", "ask", "checklist", "question", "answer", "own"} = {}

searchFactObjectLooksAssertive(object) ==
  /\ searchRankTokens(object) # <<>>
  /\ ToSet(searchRankTokens(object)) \cap {"own", "ask", "question", "answer", "checklist"} = {}

-----------------------------------------------------------------------------
\* The facts of each kind, from parts that are cleaned once more.

ownerFactAnnotation(someone, something) ==
  LET owner == cleanFactValue(someone)
      object == cleanFactObject(something)
  IN {f \in {Fact("owner", <<owner, object>>, owner \o <<"owns">> \o object)} :
        /\ searchFactSubjectLooksAssertive(owner) /\ searchFactObjectLooksAssertive(object)
        /\ ToSet(searchRankTokens(object)) \cap ToSet(searchRankTokens(owner)) = {}}

preferenceFactAnnotation(someone, something, about) ==
  LET subject == cleanFactValue(someone)
      value == cleanFactValue(something)
      attribute == cleanFactObject(about)
  IN {f \in {Fact("preference", <<subject, value, attribute>>,
                  subject \o <<"prefers">> \o value \o <<"for">> \o attribute)} :
        /\ searchFactSubjectLooksAssertive(subject)
        /\ searchFactObjectLooksAssertive(value) /\ searchFactObjectLooksAssertive(attribute)}

\* Mutant: the form of another marker of the extractor, which the reader does not know.
LocationStaysAsTold(something, somewhere) ==
  {Fact("location", <<something, somewhere>>, something \o <<"location", "is">> \o somewhere)}

locationFactAnnotation(something, somewhere) ==
  LET object == cleanFactObject(something)
      location == cleanFactValue(somewhere)
  IN {f \in {Fact("location", <<object, location>>,
                  object \o <<"is", "located", "at">> \o location)} :
        searchFactObjectLooksAssertive(object) /\ searchFactObjectLooksAssertive(location)}

instructionFactAnnotation(someone, something) ==
  LET subject == cleanFactValue(someone)
      instruction == cleanFactValue(something)
  IN {f \in {Fact("instruction", <<subject, instruction>>,
                  subject \o <<"instructed">> \o instruction)} :
        searchFactSubjectLooksAssertive(subject) /\ searchFactObjectLooksAssertive(instruction)}

timelineFactAnnotation(something, sometime) ==
  LET event == cleanFactObject(something)
      date == cleanFactValue(sometime)
  IN {f \in {Fact("timeline", <<event, date>>, event \o <<"occurs", "on">> \o date)} :
        searchFactObjectLooksAssertive(event) /\ searchFactObjectLooksAssertive(date)}

metricFactAnnotation(something, number) ==
  LET key == cleanFactObject(something)
      value == cleanFactValue(number)
  IN {f \in {Fact("metric", <<key, value>>, key \o <<"is">> \o value)} :
        searchFactObjectLooksAssertive(key) /\ MetricValue(value)}

versionFactAnnotation(something, number) ==
  LET subject == cleanFactObject(something)
      version == cleanFactValue(number)
  IN {f \in {Fact("version", <<subject, version>>, subject \o <<"version", "is">> \o version)} :
        searchFactObjectLooksAssertive(subject) /\ VersionValue(version)}

negationFactAnnotation(something) ==
  LET object == cleanFactValue(something) IN
    {f \in {Fact("negation", <<object>>, <<"user", "never">> \o object)} :
       searchFactObjectLooksAssertive(object)}

decisionFactAnnotation(something) ==
  LET decision == cleanFactValue(something) IN
    {f \in {Fact("decision", <<decision>>, <<"user", "decided", "to">> \o decision)} :
       searchFactObjectLooksAssertive(decision)}

kgRelationPhrase == [depends_on |-> <<"depends", "on">>, runs_on |-> <<"runs", "on">>, uses |-> <<"uses">>]

\* Mutant: the parts change places.
PassiveRelation(something, relation, other) ==
  {Fact(relation, <<something, other>>, other \o kgRelationPhrase[relation] \o something)}

kgRelationFactAnnotation(something, relation, other) ==
  LET subject == cleanFactObject(something)
      object == cleanFactValue(other)
  IN {f \in {Fact(relation, <<subject, object>>, subject \o kgRelationPhrase[relation] \o object)} :
        searchFactObjectLooksAssertive(subject) /\ searchFactObjectLooksAssertive(object)}

-----------------------------------------------------------------------------
\* The extractors, each for a sentence without its end.

conclusionPossessiveOwnerFact(sentence) ==
  LET marker == <<"'s", "owner", "is">>
      found == Found(sentence, marker)
  IN IF found = {} THEN {}
     ELSE ownerFactAnnotation(cleanFactValue(Following(sentence, Min(found), marker)),
                              cleanFactObject(Before(sentence, Min(found))))

conclusionOwnerOfFact(sentence) ==
  LET prefix == <<"owner", "of">>
      found == Found(sentence, prefix)
      rest == Following(sentence, Min(found), prefix)
      is == Spaced(rest, <<"is">>)
  IN IF found = {} \/ is = {} THEN {}
     ELSE ownerFactAnnotation(cleanFactValue(Following(rest, Min(is), <<"is">>)),
                              cleanFactObject(Before(rest, Min(is))))

conclusionOwnerFactAnnotation(sentence) ==
  LET possessive == conclusionPossessiveOwnerFact(sentence) IN
    IF possessive # {} THEN possessive ELSE conclusionOwnerOfFact(sentence)

conclusionPreferenceFactAnnotation(sentence) ==
  LET found == Found(sentence, <<"'s">>)
      marker == <<"preference", "is">>
      rest == Following(sentence, Min(found), <<"'s">>)
      preferred == Spaced(rest, marker)
  IN IF found = {} \/ preferred = {} THEN {}
     ELSE preferenceFactAnnotation(cleanFactObject(Before(sentence, Min(found))),
                                   cleanFactValue(Following(rest, Min(preferred), marker)),
                                   cleanFactObject(Before(rest, Min(preferred))))

conclusionLocationFactAnnotation(sentence) ==
  UNION {locationFactAnnotation(cleanFactObject(around[1]), cleanFactValue(around[2])) :
           around \in CutAround(sentence,
             <<<<"location", "is">>, <<"location", ":">>, <<"is", "located", "at">>,
               <<"is", "located", "in">>, <<"is", "in">>, <<"lives", "in">>>>)}

conclusionInstructionFactAnnotation(sentence) ==
  LET found == Found(sentence, <<"'s">>)
      rest == Following(sentence, Min(found), <<"'s">>)
      markers == <<<<"instruction", "is">>, <<"rule", "is">>>>
      k == SelectInSeq(markers, LAMBDA m : Found(rest, m) # {})
  IN IF found = {} \/ k = 0 THEN {}
     ELSE instructionFactAnnotation(
            cleanFactObject(Before(sentence, Min(found))),
            cleanFactValue(Following(rest, Min(Found(rest, markers[k])), markers[k])))

conclusionTimelineFactAnnotation(sentence) ==
  UNION {timelineFactAnnotation(cleanFactObject(around[1]), cleanFactValue(around[2])) :
           around \in CutAround(sentence,
             <<<<"deadline", "is">>, <<"is", "scheduled", "for">>, <<"occurs", "on">>,
               <<"is", "on">>>>)}

searchMetricAnswerParts(sentence) ==
  {m \in {<<cleanFactObject(m[1]), cleanFactValue(m[2])>> : m \in MetricMatch(sentence)} :
     searchFactObjectLooksAssertive(m[1]) /\ MetricValue(m[2])}
conclusionMetricFactAnnotation(sentence) ==
  UNION {metricFactAnnotation(m[1], m[2]) : m \in searchMetricAnswerParts(sentence)}

searchVersionAnswerParts(sentence) ==
  {m \in {<<cleanFactObject(m[1]), cleanFactValue(m[2])>> : m \in VersionMatch(sentence)} :
     searchFactObjectLooksAssertive(m[1]) /\ VersionValue(m[2])}
conclusionVersionFactAnnotation(sentence) ==
  UNION {versionFactAnnotation(m[1], m[2]) : m \in searchVersionAnswerParts(sentence)}

conclusionNegationFactAnnotation(sentence) ==
  UNION {negationFactAnnotation(cleanFactValue(object)) : object \in NegationMatch(sentence)}

conclusionDecisionFactAnnotation(sentence) ==
  UNION {decisionFactAnnotation(cleanFactValue(what)) : what \in DecisionMatch(sentence)}

\* The relations in their order; one whose parts say nothing leaves the turn to the next.
kgRelationAnswerParts(sentence) ==
  LET parts(relation) ==
        LET marker == kgRelationPhrase[relation]
            found == Spaced(sentence, marker)
        IN IF found = {} THEN {}
           ELSE {p \in {<<cleanFactObject(Before(sentence, Min(found))), relation,
                          cleanFactValue(Following(sentence, Min(found), marker))>>} :
                   searchFactObjectLooksAssertive(p[1]) /\ searchFactObjectLooksAssertive(p[3])}
      k == SelectInSeq(<<"depends_on", "runs_on", "uses">>, LAMBDA r : parts(r) # {})
  IN IF k = 0 THEN {} ELSE parts(<<"depends_on", "runs_on", "uses">>[k])
conclusionKGRelationFactAnnotation(sentence) ==
  UNION {kgRelationFactAnnotation(p[1], p[2], p[3]) : p \in kgRelationAnswerParts(sentence)}

-----------------------------------------------------------------------------
\* Sequences: a marker counts wherever its letters stand, inside a word too.

MarkersAt(text, i) ==
  {[marker |-> m, before |-> Before(text, i), from |-> SubSeq(text, i, Len(text))] :
     m \in {m \in SequenceMarkers : StartsAt(text, m, i)}} \cup
  {[marker |-> w.marker, before |-> Before(text, i) \o w.head,
    from |-> w.tail \o SubSeq(text, i + 1, Len(text))] :
     w \in {Within[v] : v \in {text[i]} \cap DOMAIN Within}}

searchSequenceMarkerCount(text) ==
  Cardinality({m.marker : m \in UNION {MarkersAt(text, i) : i \in DOMAIN text}})

searchSequenceValueLooksAssertive(value) ==
  searchSequenceMarkerCount(value) >= 2 /\ searchFactObjectLooksAssertive(value)

sequenceSubjectBeforeMarker(prefix) ==
  LET words == {i \in DOMAIN prefix : prefix[i] \notin {":", ";"}} IN
    IF words = {} THEN <<>> ELSE cleanFactObject(SubSeq(prefix, 1, Max(words)))

\* Without a subject before the first marker the sentence names its sequence or order; the
\* name runs together with the word before it.
searchSequenceAnswerParts(sentence) ==
  LET marked == {i \in DOMAIN sentence : MarkersAt(sentence, i) # {}}
      first == CHOOSE m \in MarkersAt(sentence, Min(marked)) : TRUE
      subject == sequenceSubjectBeforeMarker(first.before)
      steps == cleanSequenceValue(first.from)
      names == <<<<"sequence", "is">>, <<"order", "is">>>>
  IN IF searchSequenceMarkerCount(sentence) < 2 \/ first.before = <<>> THEN {}
     ELSE IF subject # <<>> /\ searchSequenceValueLooksAssertive(steps) THEN {<<subject, steps>>}
     ELSE {p \in {<<cleanFactObject(Front(around[1]) \o <<"joined", "is">>),
                    cleanSequenceValue(around[2])>> : around \in CutAround(sentence, names)} :
             searchFactObjectLooksAssertive(p[1]) /\ searchSequenceValueLooksAssertive(p[2])}

sequenceFactAnnotation(something, what) ==
  LET subject == cleanFactObject(something)
      steps == cleanSequenceValue(what)
  IN {f \in {Fact("sequence", <<subject, steps>>, subject \o <<"is">> \o steps)} :
        searchFactObjectLooksAssertive(subject) /\ searchSequenceValueLooksAssertive(steps)}

conclusionSequenceFactAnnotation(sentence) ==
  UNION {sequenceFactAnnotation(p[1], p[2]) : p \in searchSequenceAnswerParts(sentence)}

-----------------------------------------------------------------------------
\* The facts of a conclusion: of its sentences, and the numbers of all of it. The ends of a
\* sentence are trimmed before it is asked for a question mark.

OfNumbers(sentence) ==
  conclusionMetricFactAnnotation(sentence) \cup conclusionVersionFactAnnotation(sentence)

OfSentence(sentence) ==
  UNION {conclusionOwnerFactAnnotation(sentence), conclusionPreferenceFactAnnotation(sentence),
         conclusionLocationFactAnnotation(sentence), conclusionInstructionFactAnnotation(sentence),
         conclusionTimelineFactAnnotation(sentence), OfNumbers(sentence),
         conclusionSequenceFactAnnotation(sentence), conclusionNegationFactAnnotation(sentence),
         conclusionDecisionFactAnnotation(sentence), conclusionKGRelationFactAnnotation(sentence)}

ConclusionFacts(text) ==
  UNION {OfSentence(TrimEnds(s)) : s \in Sentences(text)} \cup
  (IF Has(TrimEnds(text), "?") THEN {} ELSE OfNumbers(TrimEnds(text)))

-----------------------------------------------------------------------------
Reader == INSTANCE SearchIntent

\* The question a person asks for a fact.
QuestionFor(fact) ==
  LET p == fact.parts IN
  CASE fact.kind = "owner" -> <<"who", "owns">> \o p[2] \o <<"?">>
    [] fact.kind = "preference" ->
         <<"what", "does">> \o p[1] \o <<"prefer", "for">> \o p[3] \o <<"?">>
    [] fact.kind = "location" -> <<"where", "is">> \o p[1] \o <<"?">>
    [] fact.kind = "instruction" ->
         <<"what", "instruction", "did">> \o p[1] \o <<"give", "about">> \o p[2] \o <<"?">>
    [] fact.kind = "timeline" -> <<"when", "is">> \o p[1] \o <<"?">>
    [] fact.kind = "metric" -> <<"what", "is">> \o p[1] \o <<"?">>
    [] fact.kind = "version" -> <<"what", "version", "is">> \o p[1] \o <<"?">>
    [] fact.kind = "sequence" -> <<"walk", "me", "through">> \o p[1] \o <<"?">>
    [] fact.kind = "negation" -> <<"have", "i", "ever">> \o p[1] \o <<"?">>
    [] fact.kind = "decision" -> <<"what", "did", "i", "decide", "about">> \o p[1] \o <<"?">>
    [] fact.kind = "depends_on" -> <<"what", "does">> \o p[1] \o <<"depend", "on", "?">>
    [] fact.kind = "runs_on" -> <<"what", "is", "it", "that">> \o p[1] \o <<"runs", "on", "?">>
    [] fact.kind = "uses" -> <<"what", "does">> \o p[1] \o <<"use", "?">>

\* A hit answers with its text or with one of its facts; the search for "what version" panics.
searchHitFactIntentScore(query, text, facts) ==
  IF Reader!VersionPanics(query) THEN "panic"
  ELSE IF \E t \in {text} \cup facts : Reader!Score(query, t) THEN "yes" ELSE "no"

-----------------------------------------------------------------------------
\* A text is concluded, and questions about what it says are asked.

FactsInit == content = <<>> /\ stored = {} /\ asked = <<>> /\ answer = "no"

StoreConclusionFacts(text) ==
  /\ content = <<>>
  /\ content' = text
  /\ stored' = ConclusionFacts(text)
  /\ UNCHANGED <<asked, answer>>

Ask(query) ==
  /\ asked' = query
  /\ answer' = searchHitFactIntentScore(query, content, {f.text : f \in stored})
  /\ UNCHANGED <<content, stored>>

FactsNext ==
  \/ \E text \in Sayings : StoreConclusionFacts(text)
  \/ \E f \in stored : Ask(QuestionFor(f))
  \/ content # <<>> /\ Ask(<<"what", "version", "?">>)

-----------------------------------------------------------------------------

FactsTypeOK ==
  /\ content \in {<<>>} \cup Sayings
  /\ \A f \in stored : f.text # <<>> /\ ~Has(f.text, "?")
  /\ answer \in {"yes", "no", "panic"}

Relations == DOMAIN kgRelationPhrase
AskedFor == {f \in stored : QuestionFor(f) = asked}

\* The reader knows nothing of a name without tokens, of an owner with a mark inside, and of
\* a sequence whose markers are inside words.
Readable(fact) ==
  /\ \A k \in DOMAIN fact.parts : TokenSet(Reader!cleanFactObject(fact.parts[k])) # {}
  /\ fact.kind = "owner" => ~\E mark \in {",", ";", ":", "="} : Has(fact.parts[1], mark)
  /\ fact.kind = "sequence" => Cardinality(Reader!sequenceMarkerMatches(fact.parts[2])) >= 2

\* What the writer extracts, the reader finds: the stored text of a fact alone answers the
\* question for it (annotations.go's extractors against search_fact_intent.go's answer parts).
FactsAnswer ==
  \A f \in AskedFor :
    Readable(f) /\ f.kind \notin Relations => Reader!Score(QuestionFor(f), f.text)

SameTokens(a, b) == TokenSet(a) = TokenSet(b)

\* The annotation graph reads an owner or relation with the parts the writer gave it, and finds
\* the question about them to be one (annotationgraph/match.go OwnerFactParts,
\* KGRelationAnswerParts, QueryMatchesOwnerFact, QueryMatchesKGRelation).
RelationsReadBack ==
  \A f \in AskedFor :
    /\ f.kind = "owner" =>
         \E p \in Reader!OwnerFactParts(f.text) :
           /\ SameTokens(p[1], f.parts[1]) /\ Reader!EntityMatches(p[2], f.parts[2])
           /\ Reader!QueryMatchesOwnerFact(f.parts[1], p[1])
    /\ f.kind \in Relations =>
         \E p \in Reader!KGRelationAnswerParts(f.text) :
           /\ SameTokens(p[1], f.parts[1]) /\ p[2] = kgRelationPhrase[f.kind]
           /\ Reader!EntityMatches(p[3], f.parts[2])
           /\ Reader!QueryMatchesKGRelation(asked, p[1], p[2])

\* A question answered by a sentence stays answered when another sentence follows.
Interjection == <<".", "ask", "redis", "is", "it", "?">>
AnswersStay ==
  answer = "yes" =>
    searchHitFactIntentScore(asked, content \o Interjection, {f.text \o Interjection : f \in stored})
      = "yes"

=============================================================================
