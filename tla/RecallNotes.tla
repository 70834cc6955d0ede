---------------------------- MODULE RecallNotes -----------------------------
(***************************************************************************)
(* service/recall_pipeline.go: what the notes of a candidate's evidence    *)
(* say - whether the memory is superseded, and who said it - and whether   *)
(* a question is about that speaker. A note is a sequence of fields, split *)
(* at blanks and commas; a field is a word, or has an "=" with words left  *)
(* and right of it, either of which may be missing. A name is a sequence   *)
(* of words.                                                               *)
(***************************************************************************)
EXTENDS Integers, Sequences, SequencesExt, FiniteSetsExt

CONSTANTS
  Notes,      \* notes of temporal and speaker evidence
  Sources,    \* names the speaker evidence has as its source, or <<>>
  Agents,     \* names of the candidate's agent
  Questions   \* queries, as sequences of words

VARIABLES
  note, source, agent, question,
  heard       \* what was made of them: [state, speaker, asked], or none yet

noteVars == <<note, source, agent, question, heard>>

NoWord == ""
Word(w) == [left |-> w, eq |-> FALSE, right |-> NoWord]
Assigned(k, v) == [left |-> k, eq |-> TRUE, right |-> v]
Equals == Assigned(NoWord, NoWord)

NotHeard == [state |-> "unread", speaker |-> <<>>, bonus |-> FALSE]

NotesTypeOK ==
  /\ note \in Notes /\ source \in Sources /\ agent \in Agents /\ question \in Questions
  /\ heard.state \in {"unread", "unknown", "current", "superseded"} /\ heard.bonus \in BOOLEAN

NotesInit ==
  /\ note \in Notes /\ source \in Sources /\ agent \in Agents /\ question \in Questions
  /\ heard = NotHeard

-----------------------------------------------------------------------------
\* Temporal notes

recallTemporalNegatesNextField(f) == f \in {Word("not"), Word("non"), Word("never")}

\* superseded_by=x, superseded_by = x, superseded
Supersedes(fields, i) ==
  \/ fields[i].eq /\ fields[i].left = "superseded_by" /\ fields[i].right # NoWord
  \/ fields[i] = Word("superseded_by") /\ i + 2 <= Len(fields) /\ fields[i+1] = Equals
  \/ fields[i] = Word("superseded")

\* Mutant: "not superseded" is read as superseded.
Unheeded(fields, i) == Supersedes(fields, i)
recallTemporalFieldMarksSuperseded(fields, i) ==
  /\ i > 1 => ~recallTemporalNegatesNextField(fields[i-1])
  /\ Supersedes(fields, i)

recallTemporalState(fields) ==
  IF \E i \in DOMAIN fields : recallTemporalFieldMarksSuperseded(fields, i) THEN "superseded"
  ELSE IF \E i \in DOMAIN fields : fields[i] \in {Word("current_fact"), Word("valid_now")}
       THEN "current" ELSE "unknown"

-----------------------------------------------------------------------------
\* Speaker notes

Boundary == {Word(w) : w \in {"observed", "captured", "recorded", "source", "from", "via"}}

\* recallEvidenceScalarSpanValue: words up to an assignment or a boundary.
Span(fields, start, first) ==
  LET stops == {i \in start..Len(fields) : fields[i].eq \/ (i > 1 /\ fields[i] \in Boundary)}
      end == IF stops = {} THEN Len(fields) ELSE Min(stops) - 1
      words == SubSeq(fields, start, end)
  IN first \o [i \in DOMAIN words |-> words[i].left]

LeadingEquals(fields, i) ==
  i <= Len(fields) /\ fields[i].eq /\ fields[i].left = NoWord /\ fields[i].right # NoWord

\* Mutant: a value after "key=" is not looked for.
Compact(fields, i, key) ==
  IF fields[i].eq /\ fields[i].left = key /\ fields[i].right # NoWord
  THEN Span(fields, i + 1, <<fields[i].right>>) ELSE <<>>
recallEvidenceInlineScalarValue(fields, i, key) ==
  CASE ~fields[i].eq \/ fields[i].left # key -> <<>>
    [] fields[i].right # NoWord -> Span(fields, i + 1, <<fields[i].right>>)
    [] LeadingEquals(fields, i + 1) -> Span(fields, i + 2, <<fields[i+1].right>>)
    [] OTHER -> Span(fields, i + 1, <<>>)

recallEvidenceSpacedScalarValue(fields, i, key) ==
  CASE fields[i] # Word(key) \/ i = Len(fields) -> <<>>
    [] fields[i+1] = Equals -> Span(fields, i + 2, <<>>)
    [] LeadingEquals(fields, i + 1) -> Span(fields, i + 2, <<fields[i+1].right>>)
    [] OTHER -> <<>>

\* The first field that gives a value, or nothing.
recallEvidenceNoteScalarValue(fields, key) ==
  LET value(i) == LET inline == recallEvidenceInlineScalarValue(fields, i, key)
                  IN IF inline # <<>> THEN inline
                     ELSE recallEvidenceSpacedScalarValue(fields, i, key)
      found == {i \in DOMAIN fields : value(i) # <<>>}
  IN IF found = {} THEN <<>> ELSE value(Min(found))

\* recallCandidateSpeaker: the note goes before its source, and both before the agent.
recallCandidateSpeaker ==
  LET noted == recallEvidenceNoteScalarValue(note, "speaker")
  IN CASE noted # <<>> -> noted
       [] source # <<>> -> source
       [] OTHER -> agent

-----------------------------------------------------------------------------
\* Questions

\* What is asked for between start and the word end, or nothing.
recallSpeakerTargetBetween(q, start, end) ==
  LET ends == {i \in start..Len(q) : q[i] = end}
  IN IF ends = {} THEN <<>> ELSE SubSeq(q, start, Min(ends) - 1)

recallQuerySpeakerTargets(q) ==
  LET target(i) == CASE q[i] = "did" -> recallSpeakerTargetBetween(q, i + 1, "say")
                     [] q[i] = "has" -> recallSpeakerTargetBetween(q, i + 1, "said")
                     [] OTHER -> <<>>
      found == {i \in DOMAIN q : target(i) # <<>>}
  IN IF found = {} THEN <<>> ELSE target(Min(found))

recallQueryMentionsSpeaker(q, name) ==
  name # <<>> /\ \E i \in DOMAIN q : i + Len(name) - 1 <= Len(q) /\ SubSeq(q, i, i + Len(name) - 1) = name

\* Mutant: who is only mentioned is heard too.
Mentioned(q, name) ==
  LET target == recallQuerySpeakerTargets(q)
  IN (target # <<>> /\ IsPrefix(target, name)) \/ recallQueryMentionsSpeaker(q, name)
recallQueryMatchesSpeaker(q, name) ==
  LET target == recallQuerySpeakerTargets(q)
  IN IF target # <<>> THEN IsPrefix(target, name) ELSE recallQueryMentionsSpeaker(q, name)

Hear ==
  /\ heard = NotHeard
  /\ heard' = [state |-> recallTemporalState(note), speaker |-> recallCandidateSpeaker,
               bonus |-> recallQueryMatchesSpeaker(question, recallCandidateSpeaker)]
  /\ UNCHANGED <<note, source, agent, question>>

NotesSpec == NotesInit /\ [][Hear]_noteVars

-----------------------------------------------------------------------------
\* Properties

\* The ways to write that a speaker is called name, before what may follow.
Written(name) ==
  LET more == [i \in 1..Len(name)-1 |-> Word(name[i+1])]
  IN {<<Assigned("speaker", name[1])>> \o more,
      <<Word("speaker"), Equals, Word(name[1])>> \o more,
      <<Word("speaker"), Assigned(NoWord, name[1])>> \o more,
      <<Assigned("speaker", NoWord), Word(name[1])>> \o more}

\* However the assignment is spaced, and whatever is noted before it or begins with a
\* boundary or an assignment after it, the speaker of a note is the whole name
\* (recall_pipeline.go:933-1036).
SpeakersRead ==
  heard.state # "unread" =>
    \A name \in Agents \ {<<>>}, from \in 1..Len(note), to \in 1..Len(note) :
      /\ SubSeq(note, from, to) \in Written(name)
      /\ to < Len(note) => (note[to+1].eq /\ note[to+1].left # NoWord) \/ note[to+1] \in Boundary
      /\ \A i \in 1..from-1 : note[i].left # "speaker" /\ note[i] # Equals
      => heard.speaker = name

\* A memory that is noted as current is demoted only if some field says, without a
\* "not" before it, that it was superseded; and who is asked for by name is the only
\* one who is heard, even if the question mentions others
\* (recall_pipeline.go:689-756, 845-870, 1038-1074).
OnlyWhatIsSaid ==
  heard.state # "unread" =>
    /\ heard.state = "superseded" =>
         \E i \in DOMAIN note :
           /\ note[i].left \in {"superseded", "superseded_by"}
           /\ i > 1 => note[i-1] \notin {Word("not"), Word("non"), Word("never")}
    /\ \A i, j \in DOMAIN question :
         /\ i < j - 1 /\ <<question[i], question[j]>> \in {<<"did", "say">>, <<"has", "said">>}
         /\ \A k \in 1..j-1 : k # i => question[k] \notin {"did", "say", "has", "said"}
         => (heard.bonus <=> IsPrefix(SubSeq(question, i + 1, j - 1), heard.speaker))
=============================================================================
