---------------------------- MODULE SearchIntent ----------------------------
(***************************************************************************)
(* How a search reads facts: a question of a known form names what it asks *)
(* about, and a text answers it if one of its sentences states a fact of   *)
(* that kind about it. The stored facts of a conclusion are such texts.    *)
(* The cleaning is this code's own copy of the writer's, and differs from  *)
(* it. A part that may be missing is a set of at most one.                 *)
(***************************************************************************)
EXTENDS FactWords

-----------------------------------------------------------------------------
\* Cleaning.

cleanFactObject(value) ==
  LET marks == {i \in DOMAIN value : value[i] \in {":", ";"}}
      rest == IF marks = {} THEN value ELSE SubSeq(value, Max(marks) + 1, Len(value))
  IN FoldLeft(LAMBDA v, article : IF 1 \in Found(v, <<article>>) THEN Tail(v) ELSE v, rest, <<"the", "a", "an">>)

\* The earliest separator cuts, unless it comes first.
cleanFactValue(value) == CutBefore(value, {";", ",", "because", "but", "and"})
cleanMetricValue(value) == CutBefore(value, {";", "because", "but", "and"})
cleanFactCoordinatedValue(value) == CutBefore(value, {";", "because", "but"})
cleanSequenceValue(value) == CutBefore(value, {"because", "but"})

Named(parts) == {p \in parts : p # <<>>}

searchFactSubjectLooksAssertive(subject) ==
  /\ Len(Tokens(subject)) \in 1..6
  /\ TokenSet(subject) \cap
       {"who", "what", "which", "ask", "checklist", "question", "answer", "own"} = {}

searchFactObjectLooksAssertive(object) ==
  Tokens(object) # <<>> /\ TokenSet(object) \cap {"own", "ask", "question", "answer", "checklist"} = {}

-----------------------------------------------------------------------------
\* What a text states. Sentences with a question mark state nothing.

\* Mutant: one question silences the whole text.
UnlessAsking(content) == IF Has(content, "?") THEN {} ELSE Sentences(content)

factIntentSentences(content) == {s \in Sentences(content) : ~Has(s, "?")}
factAnswerCandidates(content) ==
  factIntentSentences(content) \cup {c \in {content} : c # <<>> /\ ~Has(c, "?")}

\* (subject of letters, digits and . _ ' -) (currently|now)? own|owns (.+?)
OwnerAnswer(sentence) ==
  LET verbs == {i \in DOMAIN sentence : /\ sentence[i] \in {"own", "owns"}
                                        /\ SpaceAt(sentence, i) /\ SpaceAt(sentence, i + 1)}
      verb == Min(verbs)
      adverb == verb > 2 /\ sentence[verb - 1] \in {"currently", "now"} /\ SpaceAt(sentence, verb - 1)
      subject == Before(sentence, IF adverb THEN verb - 1 ELSE verb)
  IN IF verbs = {} THEN {}
     ELSE {a \in {<<subject, Following(sentence, verb, <<"owns">>)>>} :
             \A i \in DOMAIN a[1] : a[1][i] \notin {",", ";", ":", "="}}

\* The first " prefers " before any " prefer ", and the last " for " after it.
searchPreferenceAnswerParts(sentence) ==
  LET found == CutAround(sentence, <<<<"prefers">>, <<"prefer">>>>)
      rest == (CHOOSE f \in found : TRUE)[2]
      fors == Spaced(rest, <<"for">>)
  IN IF found = {} \/ fors = {} THEN {}
     ELSE {p \in {<<cleanFactValue(f[1]), cleanFactValue(Before(rest, Max(fors))),
                    cleanFactObject(Following(rest, Max(fors), <<"for">>))>> : f \in found} :
             /\ searchFactSubjectLooksAssertive(p[1])
             /\ searchFactObjectLooksAssertive(p[2]) /\ searchFactObjectLooksAssertive(p[3])}

searchLocationAnswerParts(sentence) ==
  {p \in {<<cleanFactObject(f[1]), cleanFactValue(f[2])>> :
            f \in CutAround(sentence, <<<<"is", "located", "at">>, <<"is", "located", "in">>,
                                        <<"is", "in">>, <<"lives", "in">>>>)} :
     searchFactObjectLooksAssertive(p[1]) /\ p[2] # <<>>}

searchTimelineAnswerParts(sentence) ==
  {p \in {<<cleanFactObject(f[1]), cleanFactValue(f[2])>> :
            f \in CutAround(sentence,
              <<<<"occurs", "on">>, <<"is", "scheduled", "for">>, <<"was", "scheduled", "for">>,
                <<"deadline", "is">>, <<"deadline", "was">>, <<"is", "on">>, <<"was", "on">>>>)} :
     searchFactObjectLooksAssertive(p[1]) /\ p[2] # <<>>}

searchInstructionAnswerParts(sentence) ==
  {p \in {<<cleanFactValue(f[1]), cleanFactCoordinatedValue(f[2])>> :
            f \in CutAround(sentence, <<<<"instructed">>>>)} :
     searchFactSubjectLooksAssertive(p[1]) /\ searchFactObjectLooksAssertive(p[2])}

searchMetricAnswerParts(sentence) ==
  {p \in {<<cleanFactObject(m[1]), cleanMetricValue(m[2])>> : m \in MetricMatch(sentence)} :
     searchFactObjectLooksAssertive(p[1]) /\ MetricValue(p[2])}

searchVersionAnswerParts(sentence) ==
  {p \in {<<cleanFactObject(m[1]), cleanFactValue(m[2])>> : m \in VersionMatch(sentence)} :
     searchFactObjectLooksAssertive(p[1]) /\ VersionValue(p[2])}

searchNegationAnswerParts(sentence) ==
  {p \in {cleanFactCoordinatedValue(m) : m \in NegationMatch(sentence)} :
     searchFactObjectLooksAssertive(p)}

searchDecisionAnswerParts(sentence) ==
  {p \in {cleanFactCoordinatedValue(m) : m \in DecisionMatch(sentence)} :
     searchFactObjectLooksAssertive(p)}

-----------------------------------------------------------------------------
\* Sequences: a marker is a word of its own, and counts every time.

sequenceMarkerMatches(text) ==
  {mi \in SequenceMarkers \X DOMAIN text : StartsAt(text, mi[1], mi[2])}
searchSequenceFirstMarkerIndex(text) == Min({mi[2] : mi \in sequenceMarkerMatches(text)})

searchSequenceValueLooksAssertive(value) ==
  Cardinality(sequenceMarkerMatches(value)) >= 2 /\ searchFactObjectLooksAssertive(value)

sequenceSubjectBeforeMarker(prefix) ==
  LET words == {i \in DOMAIN prefix : prefix[i] \notin {":", ";", ","}} IN
    IF words = {} THEN <<>> ELSE cleanFactObject(SubSeq(prefix, 1, Max(words)))

searchSequenceAnswerParts(sentence) ==
  LET first == searchSequenceFirstMarkerIndex(sentence)
      subject == sequenceSubjectBeforeMarker(Before(sentence, first))
      steps == cleanSequenceValue(SubSeq(sentence, first, Len(sentence)))
      names == <<<<"sequence", "is">>, <<"order", "is">>>>
  IN IF Cardinality(sequenceMarkerMatches(sentence)) < 2 \/ first = 1 THEN {}
     ELSE IF subject # <<>> /\ searchSequenceValueLooksAssertive(steps) THEN {<<subject, steps>>}
     ELSE {p \in {<<cleanFactObject(Front(around[1]) \o <<"joined", "is">>),
                    cleanSequenceValue(around[2])>> : around \in CutAround(sentence, names)} :
             searchFactObjectLooksAssertive(p[1]) /\ searchSequenceValueLooksAssertive(p[2])}

-----------------------------------------------------------------------------
\* What a question asks about. The ends around it are trimmed.

Asked(query, prefixes) == Named({cleanFactObject(t) : t \in CutPrefix(TrimEnds(query), prefixes)})

searchSpeakerAttributionQuestion(query) ==
  LET says == {"say", "said", "tell", "told", "mention", "mentioned"} IN
    \/ \E i \in DOMAIN query : \E verb \in {"said", "told", "mentioned"} :
         StartsAt(query, <<"who", verb>>, i)
    \/ \E i \in DOMAIN query : i > 1 /\ StartsAt(query, <<"according", "to">>, i)
    \/ /\ CutPrefix(query, <<<<"what", "did">>, <<"what", "does">>, <<"what", "has">>,
                             <<"what", "have">>, <<"what", "was">>>>) # {}
       /\ \E i \in DOMAIN query : query[i] \in says

\* who (currently|now)? own|owns ..., up to the end of a sentence, without a last "now".
searchOwnerQuestionObject(query) ==
  LET heads == {<<"who", v>> : v \in {"own", "owns"}} \cup
               {<<"who", a, v>> : a \in {"currently", "now"}, v \in {"own", "owns"}}
      tails(h) == {Following(query, i, h) : i \in Found(query, h)}
      upToEnd(t) == LET ends == {i \in DOMAIN t : t[i] \in Ends} IN CutAt(t, ends)
      withoutNow(t) ==
        LET k == SelectInSeq(<<<<"right", "now">>, <<"currently">>, <<"now">>>>,
                             LAMBDA s : IsSuffix(s, t) /\ Len(s) < Len(t))
        IN IF k = 0 THEN t ELSE SubSeq(t, 1, Len(t) - IF k = 1 THEN 2 ELSE 1)
  IN Named({withoutNow(cleanFactObject(upToEnd(t))) : t \in UNION {tails(h) : h \in heads}})

\* what does S prefer for|as A; what A does S prefer
searchPreferenceQuestion(query) ==
  LET text == TrimEnds(query)
      whatDoes == CutPrefix(text, <<<<"what", "does">>>>)
      what == IF whatDoes = {} THEN CutPrefix(text, <<<<"what">>>>) ELSE {}
      prefers(t) == {i \in DOMAIN t : t[i] = "prefer" /\ SpaceAt(t, i)}
      direct == {<<cleanFactValue(Before(t, Min(prefers(t)))),
                   cleanFactObject(SubSeq(t, Min(prefers(t)) + 2, Len(t)))>> :
                   t \in {t \in whatDoes : /\ prefers(t) # {}
                                           /\ \E w \in {"for", "as"} :
                                                Min(prefers(t)) + 1 \in Found(t, <<w>>)}}
      turned == {<<cleanFactValue(Before(d[2], Min(prefers(d[2])))), cleanFactObject(d[1])>> :
                   d \in {d \in UNION {CutAround(t, <<<<"does">>>>) : t \in what} :
                            prefers(d[2]) # {}}}
  IN {p \in direct \cup turned : p[1] # <<>> /\ p[2] # <<>>}

searchLocationQuestionObject(query) ==
  Asked(query, <<<<"where", "is">>, <<"where", "are">>, <<"where", "'s">>>>)
searchTimelineQuestionEvent(query) ==
  Asked(query, <<<<"when", "is">>, <<"when", "are">>, <<"when", "was">>, <<"when", "were">>>>)
searchMetricQuestionKey(query) ==
  Asked(query, <<<<"what", "is">>, <<"what", "was">>, <<"what", "are">>, <<"what", "were">>,
                 <<"how", "fast", "is">>, <<"how", "many">>, <<"how", "much">>>>)

\* what instruction|rule did S give ... about T, the last about.
searchInstructionQuestion(query) ==
  LET rests == CutPrefix(TrimEnds(query), <<<<"what", "instruction", "did">>, <<"what", "rule", "did">>>>)
      gives(t) == {i \in DOMAIN t : t[i] = "give" /\ SpaceAt(t, i)}
      abouts(t) == {i \in Spaced(t, <<"about">>) : i > Min(gives(t))}
  IN {p \in {<<cleanFactValue(Before(t, Min(gives(t)))),
               cleanFactObject(Following(t, Max(abouts(t)), <<"about">>))>> :
               t \in {t \in rests : gives(t) # {} /\ abouts(t) # {}}} :
        p[1] # <<>> /\ p[2] # <<>>}

\* "what version" and "which version" alone begin and end in one another: the subject between
\* would end before it begins, and the slice panics.
VersionPanics(query) == TrimEnds(query) \in {<<"what", "version">>, <<"which", "version">>}

searchVersionQuestionSubject(query) ==
  LET text == TrimEnds(query)
      prefixes == <<<<"what", "version", "is">>, <<"which", "version", "is">>,
                    <<"what", "version", "does">>, <<"which", "version", "does">>>>
  IN Named(IF CutPrefix(text, prefixes) # {} THEN {cleanFactObject(t) : t \in CutPrefix(text, prefixes)}
           ELSE IF /\ Len(text) > 2 /\ text[1] \in {"what", "which"}
                   /\ text[Len(text)] = "version" /\ SpaceAt(text, Len(text))
                THEN {cleanFactObject(SubSeq(text, 2, Len(text) - 1))}
                ELSE {})

searchSequenceQuestionSubject(query) ==
  Asked(query, <<<<"walk", "me", "through", "the">>, <<"walk", "me", "through">>,
                 <<"list", "the", "order", "of", "the">>, <<"list", "the", "order", "of">>,
                 <<"what", "is", "the", "order", "of", "the">>, <<"what", "is", "the", "order", "of">>,
                 <<"what", "was", "the", "order", "of", "the">>,
                 <<"what", "was", "the", "order", "of">>, <<"in", "what", "order", "did">>>>)

searchNegationQuestionObject(query) ==
  Asked(query, <<<<"have", "i", "ever">>, <<"have", "i">>, <<"did", "i", "ever">>, <<"did", "i">>,
                 <<"have", "we", "ever">>, <<"have", "we">>, <<"did", "we", "ever">>,
                 <<"did", "we">>, <<"has", "this">>, <<"am", "i">>>>)

searchDecisionQuestionTopic(query) ==
  Asked(query, <<<<"what", "decision", "did", "i", "make", "about">>,
                 <<"which", "decision", "did", "i", "make", "about">>,
                 <<"what", "decision", "did", "we", "make", "about">>,
                 <<"which", "decision", "did", "we", "make", "about">>,
                 <<"what", "did", "i", "decide", "about">>,
                 <<"what", "did", "we", "decide", "about">>>>)

-----------------------------------------------------------------------------
\* Whether a text answers a question.

searchSpeakerFactIntentScore(query, content) ==
  LET text == TrimEnds(content)
      speaker == Tail(text)
  IN /\ searchSpeakerAttributionQuestion(query)
     /\ 1 \in Found(text, <<"speaker">>)
     /\ TokenSet(speaker) # {} /\ TokenSet(query) # {}
     /\ TokenSet(speaker) \subseteq TokenSet(query) \/ TokenSet(query) \subseteq TokenSet(speaker)

searchOwnerFactIntentScore(query, content) ==
  \E object \in searchOwnerQuestionObject(query) :
    \E a \in UNION {OwnerAnswer(s) : s \in factIntentSentences(content)} :
      /\ searchFactSubjectLooksAssertive(a[1]) /\ TokenSet(object) \cap TokenSet(a[1]) = {}
      /\ searchFactObjectLooksAssertive(a[2]) /\ Covered(TokenSet(object), a[2])

searchPreferenceFactIntentScore(query, content) ==
  \E q \in searchPreferenceQuestion(query) :
    \E s \in factIntentSentences(content) : \E p \in searchPreferenceAnswerParts(TrimEnds(s)) :
      Covered(TokenSet(q[1]), p[1]) /\ Covered(TokenSet(q[2]), p[3])

searchLocationFactIntentScore(query, content) ==
  \E object \in searchLocationQuestionObject(query) :
    \E s \in factIntentSentences(content) : \E p \in searchLocationAnswerParts(TrimEnds(s)) :
      searchFactObjectLooksAssertive(p[2]) /\ Covered(TokenSet(object), p[1])

searchInstructionFactIntentScore(query, content) ==
  \E q \in searchInstructionQuestion(query) :
    \E s \in factIntentSentences(content) : \E p \in searchInstructionAnswerParts(TrimEnds(s)) :
      Covered(TokenSet(q[1]), p[1]) /\ Covered(TokenSet(q[2]), p[2])

searchTimelineFactIntentScore(query, content) ==
  \E event \in searchTimelineQuestionEvent(query) :
    \E s \in factIntentSentences(content) : \E p \in searchTimelineAnswerParts(TrimEnds(s)) :
      searchFactObjectLooksAssertive(p[2]) /\ Covered(TokenSet(event), p[1])

searchMetricFactIntentScore(query, content) ==
  \E key \in searchMetricQuestionKey(query) :
    \E c \in factAnswerCandidates(content) : \E p \in searchMetricAnswerParts(TrimEnds(c)) :
      Covered(TokenSet(key), p[1])

searchVersionFactIntentScore(query, content) ==
  \E subject \in searchVersionQuestionSubject(query) :
    \E c \in factAnswerCandidates(content) : \E p \in searchVersionAnswerParts(TrimEnds(c)) :
      Covered(TokenSet(subject), p[1])

searchSequenceFactIntentScore(query, content) ==
  \E subject \in searchSequenceQuestionSubject(query) :
    \E c \in factAnswerCandidates(content) : \E p \in searchSequenceAnswerParts(TrimEnds(c)) :
      Covered(TokenSet(subject), p[1])

searchNegationFactIntentScore(query, content) ==
  \E object \in searchNegationQuestionObject(query) :
    \E c \in factAnswerCandidates(content) : \E p \in searchNegationAnswerParts(TrimEnds(c)) :
      Covered(TokenSet(object), p)

searchDecisionFactIntentScore(query, content) ==
  \E topic \in searchDecisionQuestionTopic(query) :
    \E c \in factAnswerCandidates(content) : \E p \in searchDecisionAnswerParts(TrimEnds(c)) :
      Covered(TokenSet(topic), p)

\* A score is one or nothing, so that the order of the kinds does not tell.
Score(query, content) ==
  \/ searchSpeakerFactIntentScore(query, content)
  \/ searchOwnerFactIntentScore(query, content)
  \/ searchPreferenceFactIntentScore(query, content)
  \/ searchLocationFactIntentScore(query, content)
  \/ searchInstructionFactIntentScore(query, content)
  \/ searchTimelineFactIntentScore(query, content)
  \/ searchMetricFactIntentScore(query, content)
  \/ searchVersionFactIntentScore(query, content)
  \/ searchSequenceFactIntentScore(query, content)
  \/ searchNegationFactIntentScore(query, content)
  \/ searchDecisionFactIntentScore(query, content)

-----------------------------------------------------------------------------
\* What the annotation graph reads in a stored fact.

OwnerFactParts(fact) ==
  LET text == TrimEnds(fact)
      found == Spaced(text, <<"owns">>)
  IN IF found = {} THEN {}
     ELSE {p \in {<<cleanFactValue(Before(text, Min(found))),
                    cleanFactObject(Following(text, Min(found), <<"owns">>))>>} :
             searchFactSubjectLooksAssertive(p[1]) /\ searchFactObjectLooksAssertive(p[2])}

RelationPhrases == <<<<"depends", "on">>, <<"runs", "on">>, <<"uses">>>>

KGRelationAnswerParts(sentence) ==
  LET text == TrimEnds(sentence)
      parts(phrase) ==
        LET found == Spaced(text, phrase) IN
          IF found = {} THEN {}
          ELSE {p \in {<<cleanFactObject(Before(text, Min(found))), phrase,
                         cleanFactValue(Following(text, Min(found), phrase))>>} :
                  searchFactObjectLooksAssertive(p[1]) /\ searchFactObjectLooksAssertive(p[3])}
      k == SelectInSeq(RelationPhrases, LAMBDA r : parts(r) # {})
  IN IF k = 0 \/ Has(text, "?") THEN {} ELSE parts(RelationPhrases[k])

\* A query is about an owner it names, and about a relation if it names the subject and holds a
\* word of the relation; "because" holds "use".
QueryMatchesOwnerFact(query, owner) == Covered(TokenSet(owner), query)
QueryMatchesKGRelation(query, subject, phrase) ==
  /\ Covered(TokenSet(subject), query)
  /\ CASE phrase = <<"uses">> ->
            \E i \in DOMAIN query : query[i] \in {"use", "uses", "used", "using", "user", "because"}
       [] phrase = <<"depends", "on">> ->
            \E i \in DOMAIN query : query[i] \in {"depend", "depends", "dependency"}
       [] OTHER -> \E i \in DOMAIN query : \E verb \in {"runs", "running"} :
                     StartsAt(query, <<verb, "on">>, i)

\* Two names are one entity if their tokens cover one another.
EntityMatches(a, b) ==
  LET x == cleanFactObject(a)
      y == cleanFactObject(b)
  IN x = y \/ (Covered(TokenSet(x), y) /\ Covered(TokenSet(y), x))

=============================================================================
