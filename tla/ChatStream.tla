----------------------------- MODULE ChatStream -----------------------------
(***************************************************************************)
(* service/streaming_chat_persistence.go: the chunks of one answer are     *)
(* kept until it is complete, and then stored as one turn. The fields have *)
(* no lock; Complete waits for the database between its checks and its     *)
(* assignments, and other calls may run meanwhile.                         *)
(***************************************************************************)
EXTENDS Integers, Sequences

CONSTANTS
  Clients,   \* goroutines that share the stream
  MaxChunks  \* bound on the chunks appended

VARIABLES
  chunks,       \* how many chunks are kept
  completed, interrupted,
  content,      \* chunks in the content of a completed answer
  turns,        \* the turns stored: chunks of each
  call,         \* the chunks joined by the Complete each client is in, or Outside any
  overlapped    \* history: a Complete met another one, a chunk or an interruption

fields == <<chunks, completed, interrupted, content>>
vars == <<fields, turns, call, overlapped>>

Outside == -1

TypeOK ==
  /\ chunks \in 0..MaxChunks /\ content \in 0..MaxChunks
  /\ completed \in BOOLEAN /\ interrupted \in BOOLEAN /\ overlapped \in BOOLEAN
  /\ turns \in Seq(1..MaxChunks)
  /\ call \in [Clients -> {Outside} \cup 0..MaxChunks]

\* NewStreamingChatPersistence
Init ==
  /\ chunks = 0 /\ content = 0
  /\ completed = FALSE /\ interrupted = FALSE /\ overlapped = FALSE
  /\ turns = <<>>
  /\ call = [c \in Clients |-> Outside]

Open == ~completed /\ ~interrupted
Meets == overlapped' = (overlapped \/ \E c \in Clients : call[c] # Outside)

AppendChunk(c) ==
  /\ call[c] = Outside /\ Open /\ chunks < MaxChunks
  /\ chunks' = chunks + 1
  /\ Meets
  /\ UNCHANGED <<completed, interrupted, content, turns, call>>

\* The checks of Complete and the join of the chunks. Completed already, it only
\* tells the content again; interrupted, it fails.
BeginComplete(c) ==
  /\ call[c] = Outside /\ Open
  /\ call' = [call EXCEPT ![c] = chunks]
  /\ Meets
  /\ UNCHANGED <<fields, turns>>

\* Mutant: the answer is complete before its turn is stored, or fails to be.
CompletedFirst(c) == completed' = TRUE /\ content' = call[c]
StillOpen(c) == UNCHANGED <<completed, content>>

\* insertAssistantChatTurn: a blank answer stores no turn and is complete.
Complete(c) ==
  /\ call[c] # Outside
  /\ turns' = IF call[c] = 0 THEN turns ELSE Append(turns, call[c])
  /\ completed' = TRUE /\ content' = call[c]
  /\ call' = [call EXCEPT ![c] = Outside]
  /\ UNCHANGED <<chunks, interrupted, overlapped>>

\* The metadata or the insertion fails: Complete may be called again.
CompleteFails(c) ==
  /\ call[c] # Outside
  /\ StillOpen(c)
  /\ call' = [call EXCEPT ![c] = Outside]
  /\ UNCHANGED <<chunks, interrupted, turns, overlapped>>

\* The partial answer is discarded; a complete one is only told.
Interrupt(c) ==
  /\ call[c] = Outside /\ ~completed
  /\ interrupted' = TRUE /\ chunks' = 0
  /\ Meets
  /\ UNCHANGED <<completed, content, turns, call>>

Next ==
  \E c \in Clients :
    AppendChunk(c) \/ BeginComplete(c) \/ Complete(c) \/ CompleteFails(c) \/ Interrupt(c)

Spec == Init /\ [][Next]_vars

-----------------------------------------------------------------------------
\* Properties

\* As long as no call runs during a Complete, an answer is stored once and
\* whole when it is completed, however often Complete fails or is repeated, and
\* never when it is interrupted (streaming_chat_persistence.go:48-82).
StoredOnceWhole ==
  overlapped \/
    /\ turns = IF completed /\ content > 0 THEN <<content>> ELSE <<>>
    /\ completed => content = chunks

=============================================================================
