----------------------------- MODULE FileImport -----------------------------
(***************************************************************************)
(* internal/fileimport/import.go: an uploaded file becomes turns of a      *)
(* session, one for each chunk of its text. The chunks are planned and the *)
(* clock is read first; then one transaction inserts them all, between the *)
(* turns of other calls.                                                   *)
(***************************************************************************)
EXTENDS Integers, Sequences, SequencesExt, FiniteSetsExt

CONSTANTS
  Clients,       \* goroutines importing files
  Files,         \* texts of the uploaded files, or Unreadable
  MessageSizes,  \* values of MaxMessageSize, in characters
  MaxUploads,    \* bound on the uploads
  MaxTurns       \* bound on the turns of others

VARIABLES
  turns,     \* the session, in the order of the IDs
  importing, \* the import each client is in
  uploads    \* history: the texts uploaded; a file's ID is its place here

importVars == <<turns, importing, uploads>>

Newline == "n"
Space == " "
Dot == "."
Suspicious == "!"    \* stands for the markers of a prompt injection
Blank == {Newline, Space}
Unreadable == <<"?">>  \* too large, of another content type, or not decoded
NoImport == [at |-> "none"]
Turn == [file : Nat, start : Nat, end : Nat, content : Seq({Newline, Space, Dot, Suspicious, "x"}),
         status : {"ready", "skipped"}]
Other == [file |-> 0, start |-> 0, end |-> 0, content |-> <<>>, status |-> "ready"]

ImportTypeOK ==
  /\ \A i \in DOMAIN turns : turns[i] \in Turn
  /\ \A c \in Clients : importing[c].at \in {"none", "insert"}
  /\ \A i \in DOMAIN uploads : uploads[i].text \in Files \ {Unreadable}

ImportInit ==
  /\ turns = <<>> /\ uploads = <<>>
  /\ importing = [c \in Clients |-> NoImport]

-----------------------------------------------------------------------------
\* Chunks of a text: half-open ranges from 0 on

Slice(text, start, end) == SubSeq(text, start + 1, end)

\* In the order they are tried.
Delimiters == <<<<Newline, Newline>>, <<Newline>>, <<Dot, Space>>, <<Space>>>>

\* Mutant: a delimiter may reach over the end.
Reaching(d, start, end) == start < end
\* lastDelimiterRuneIndex and its caller: places after start where d fits before end.
Fits(d, i, end) == i + Len(d) <= end
Places(text, d, start, end) ==
  {i \in start+1..end-1 : Fits(d, i, end) /\ Slice(text, i, i + Len(d)) = d}

\* bestImportChunkBreak: after the last place of the first delimiter that has one.
Break(text, start, end) ==
  LET found == {k \in DOMAIN Delimiters : Places(text, Delimiters[k], start, end) # {}}
  IN IF found = {} THEN end
     ELSE LET d == Delimiters[Min(found)]
          IN Max(Places(text, d, start, end)) + Len(d)

\* splitImportTextIntoChunks
Chunks(text, size) ==
  LET from[s \in 0..Len(text)] ==
        IF s + size >= Len(text) THEN <<<<s, Len(text)>>>>
        ELSE LET b == Break(text, s, s + size) IN <<<<s, b>>>> \o from[b]
  IN from[0]

-----------------------------------------------------------------------------
\* A text with no chunks is an error, as an unreadable file is.
Imported(text) == text # Unreadable /\ \E i \in DOMAIN text : text[i] \notin Blank

\* importLooksLikePromptInjection, of the whole text.
Quarantined(text) == Suspicious \in ToSet(text)

BeginImport(c) ==
  /\ importing[c] = NoImport /\ Len(uploads) < MaxUploads
  /\ \E text \in Files, size \in MessageSizes :
       /\ Imported(text)
       /\ uploads' = Append(uploads, [text |-> text, size |-> size])
       /\ importing' = [importing EXCEPT ![c] = [at |-> "insert", file |-> Len(uploads) + 1]]
  /\ UNCHANGED turns

TurnOf(file, chunk) ==
  LET text == uploads[file].text
  IN [file |-> file, start |-> chunk[1], end |-> chunk[2],
      content |-> Slice(text, chunk[1], chunk[2]),
      status |-> IF Quarantined(text) THEN "skipped" ELSE "ready"]

TurnsOf(file) ==
  LET chunks == Chunks(uploads[file].text, uploads[file].size)
  IN [i \in DOMAIN chunks |-> TurnOf(file, chunks[i])]

\* The transaction commits, or nothing of it stays; a client that asks again uploads
\* the file anew.
Import(c) ==
  /\ importing[c].at = "insert"
  /\ turns' \in {turns \o TurnsOf(importing[c].file), turns}
  /\ importing' = [importing EXCEPT ![c] = NoImport]
  /\ UNCHANGED uploads

\* Another call stores a turn.
OtherTurn ==
  /\ Len(SelectSeq(turns, LAMBDA t : t = Other)) < MaxTurns
  /\ turns' = Append(turns, Other)
  /\ UNCHANGED <<importing, uploads>>

ImportNext == OtherTurn \/ \E c \in Clients : BeginImport(c) \/ Import(c)

ImportSpec == ImportInit /\ [][ImportNext]_importVars

-----------------------------------------------------------------------------
\* Properties

\* The turns of a file, wherever it was cut and whoever wrote meanwhile, stand side
\* by side in the session and join to its text; each has a character and at most
\* MaxMessageSize of them, none is ready in a file that looks like an injection -
\* not even when the cut goes through the marker - and a chunk that has a newline past
\* its first character ends with one (import.go:129-197, 294-343).
FilesWhole ==
  \A file \in DOMAIN uploads :
    LET places == {i \in DOMAIN turns : turns[i].file = file}
        mine == SubSeq(turns, Min(places), Max(places))
        text == uploads[file].text
    IN places # {} =>
         /\ \A i \in DOMAIN mine : mine[i].file = file
         /\ FlattenSeq([i \in DOMAIN mine |-> mine[i].content]) = text
         /\ mine[1].start = 0 /\ Last(mine).end = Len(text)
         /\ \A i \in 1..Len(mine)-1 : mine[i].end = mine[i+1].start
         /\ \A i \in DOMAIN mine :
              /\ mine[i].end - mine[i].start \in 1..uploads[file].size
              /\ mine[i].status = "ready" <=> Suspicious \notin ToSet(text)
         /\ \A i \in 1..Len(mine)-1 :
              Newline \in ToSet(Slice(text, mine[i].start + 1, mine[i].end)) =>
                Last(mine[i].content) = Newline
=============================================================================
