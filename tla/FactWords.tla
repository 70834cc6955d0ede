----------------------------- MODULE FactWords -----------------------------
(***************************************************************************)
(* Texts as the writer (MemoryAnnotations) and the reader (SearchIntent)   *)
(* of facts see them: sequences of words in lower case, in which a mark    *)
(* ends or joins a word and has no space before it. A number with its      *)
(* unit, and a version, is one word; "1,500ms" is three, of which only the *)
(* first has a space before it. Quotes around a part are trimmed by both   *)
(* sides and left out.                                                     *)
(***************************************************************************)
EXTENDS Integers, Sequences, FiniteSets, FiniteSetsExt, SequencesExt

CONSTANTS
  Short,      \* the words too short for a search token: "a", "is", "1"
  Stems,      \* [word -> stem], of the words that lose their ending
  Metrics,    \* the words that are a number and its unit
  Unprefixed  \* [version with its v -> version]

Ends == {".", "!", "?"}

\* What has no space before it.
Attached == {",", ";", ":", "'s", "500ms"} \cup Ends

SpaceAt(text, i) == i \in 2..Len(text) /\ text[i] \notin Attached

StartsAt(text, marker, i) ==
  /\ i + Len(marker) - 1 <= Len(text)
  /\ SubSeq(text, i, i + Len(marker) - 1) = marker

\* Where a marker with a space at its end is found, and one with a space at both.
Found(text, marker) ==
  {i \in DOMAIN text : StartsAt(text, marker, i) /\ SpaceAt(text, i + Len(marker))}
Spaced(text, marker) == {i \in Found(text, marker) : SpaceAt(text, i)}

Before(text, i) == SubSeq(text, 1, i - 1)
Following(text, i, marker) == SubSeq(text, i + Len(marker), Len(text))

\* The first of the markers, in the order of their list, that the text has.
FirstListed(text, markers) ==
  SelectInSeq(markers, LAMBDA m : Spaced(text, m) # {})

\* CutAroundAnySubstring: what stands around the first of the listed markers.
CutAround(text, markers) ==
  LET k == FirstListed(text, markers) IN
    IF k = 0 THEN {}
    ELSE LET i == Min(Spaced(text, markers[k])) IN
           {<<Before(text, i), Following(text, i, markers[k])>>}

\* CutAnyPrefix: the rest after the first of the listed prefixes.
CutPrefix(text, prefixes) ==
  LET k == SelectInSeq(prefixes, LAMBDA p : 1 \in Found(text, p)) IN
    IF k = 0 THEN {} ELSE {Following(text, 1, prefixes[k])}

\* Where a separator is: a mark anywhere, a word between two spaces.
Separator(text, sep) ==
  IF sep \in Attached THEN {i \in DOMAIN text : text[i] = sep} ELSE Spaced(text, <<sep>>)

CutAt(text, positions) ==
  IF positions = {} \/ Min(positions) = 1 THEN text ELSE Before(text, Min(positions))

\* CutBeforeAnySubstring: the text up to the earliest separator, if something is left.
CutBefore(text, separators) == CutAt(text, UNION {Separator(text, sep) : sep \in separators})

\* TrimSentenceBoundary: without the ends of sentences around it.
TrimEnds(text) ==
  LET words == {i \in DOMAIN text : text[i] \notin Ends} IN
    IF words = {} THEN <<>> ELSE SubSeq(text, Min(words), Max(words))

\* facttext.Sentences: a point inside a number is part of its word.
Sentences(text) ==
  LET last == {0, Len(text)} \cup {i \in DOMAIN text : text[i] \in Ends} IN
    {SubSeq(text, i + 1, Min({j \in last : j > i})) : i \in last \ {Len(text)}}

Has(text, word) == \E i \in DOMAIN text : text[i] = word

-----------------------------------------------------------------------------
\* Search tokens.

Stopword ==
  {"the", "and", "for", "who", "what", "when", "where", "which", "should", "not", "did", "does",
   "with", "that", "this", "from", "are", "was", "were", "has", "have", "had", "you", "your",
   "about", "can", "could", "would", "there", "their", "they", "them", "then", "than"}

Stem(word) == IF word \in DOMAIN Stems THEN Stems[word] ELSE word

\* Marks are no tokens, but the end of a joined number is one.
IsToken(word) == word \notin Short \cup Stopword \cup (Attached \ {"500ms"}) \cup {"="}
Tokens(text) == SelectSeq([i \in DOMAIN text |-> Stem(text[i])], IsToken)
TokenSet(text) == ToSet(Tokens(text))

Shared(want, text) == Cardinality(want \cap TokenSet(text))

\* Coverage(want, text) >= 0.80
Covered(want, text) ==
  want # {} /\ TokenSet(text) # {} /\ 10 * Shared(want, text) >= 8 * Cardinality(want)

-----------------------------------------------------------------------------
\* What the patterns of both sides share.

\* A metric's value: one word, or a number with a comma.
MetricValue(text) == text \in {<<m>> : m \in Metrics} \cup {<<"1", ",", "500ms">>}

VersionValue(text) ==
  text \in {<<v>> : v \in DOMAIN Unprefixed \cup {Unprefixed[v] : v \in DOMAIN Unprefixed}}

Copulas == {"is", "was", "="}

\* (.+?) is|was|= number, to the end: the key and the value.
MetricMatch(text) ==
  {<<Before(text, i), SubSeq(text, i + 1, Len(text))>> :
     i \in {i \in DOMAIN text : /\ text[i] \in Copulas /\ SpaceAt(text, i) /\ SpaceAt(text, i + 1)
                                /\ MetricValue(SubSeq(text, i + 1, Len(text)))}}

\* (.+?) version is|was|= version, to the end; else (.+?) v<version>.
VersionMatch(text) ==
  LET n == Len(text) IN
  CASE /\ n > 3 /\ text[n - 2] = "version" /\ text[n - 1] \in Copulas
       /\ VersionValue(<<text[n]>>) /\ SpaceAt(text, n - 2)
         -> {<<Before(text, n - 2), <<text[n]>>>>}
    [] n > 1 /\ text[n] \in DOMAIN Unprefixed
         -> {<<Before(text, n), <<Unprefixed[text[n]]>>>>}
    [] OTHER -> {}

\* (project note:)? (i|we|user) <phrase> (.+?), to the end.
SaidByUser(text, phrases) ==
  LET start == IF StartsAt(text, <<"project", "note", ":">>, 1) THEN 4 ELSE 1
  IN {SubSeq(text, start + 1 + Len(p), Len(text)) :
        p \in {p \in phrases : /\ start \in DOMAIN text /\ text[start] \in {"i", "we", "user"}
                               /\ start + 1 \in Found(text, p)}}

NegationMatch(text) ==
  SaidByUser(text, {<<n>> : n \in {"never", "not"}} \cup
                   {<<h, n>> : h \in {"have", "has", "had", "did"}, n \in {"never", "not"}})
DecisionMatch(text) ==
  SaidByUser(text, {<<"decided", "to">>, <<"chose", "to">>, <<"opted", "for">>, <<"selected">>,
                    <<"picked">>, <<"switching", "to">>})

SequenceMarkers ==
  {<<"first">>, <<"second">>, <<"third">>, <<"fourth">>, <<"fifth">>, <<"finally">>, <<"next">>,
   <<"then">>, <<"after", "that">>}

=============================================================================
