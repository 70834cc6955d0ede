---------------------------- MODULE HookCapture -----------------------------
(***************************************************************************)
(* service/hook_capture.go: a hook of the host agent becomes an            *)
(* observation, for a prompt or an answer also a message of the session,   *)
(* and at a session's end also its summary: up to two writes, each         *)
(* committed alone. A host that is told an error sends the hook again.     *)
(* Texts are sequences of pieces; Open and Close are the ends of a         *)
(* <private> passage, the one of the redacted shapes kept here.            *)
(***************************************************************************)
EXTENDS Integers, Sequences, FiniteSets, SequencesExt, FiniteSetsExt

CONSTANTS
  Clients,    \* goroutines that capture hooks
  HookTexts,  \* what a field of a hook may hold; <<>> is blank
  MaxBytes,   \* hostHookPayloadMaxBytes
  MaxHooks    \* bound on the hooks sent

VARIABLES
  observed,   \* the observations, in order
  messages,   \* the messages of the session, in order
  summary,    \* the session's short summary, or NoHook
  capture,    \* the call each client is in
  sent,       \* hooks sent
  broken      \* history: hooks a call of which failed after its observation

hookCaptureVars == <<observed, messages, summary, capture, sent, broken>>

Open == "<"
Close == ">"
Secret == "s"
Mark == "#"
Resting == [at |-> "resting"]
NoHook == [kind |-> "none"]

\* filterHostHookEvent: Redact every complete passage, then cut what is too long.
Passage(t, i, j) ==
  /\ i < j /\ t[i] = Open /\ t[j] = Close
  /\ \A k \in i+1..j-1 : t[k] # Close

\* The first passage becomes a mark; two of them fit in no text here.
Redact(t) ==
  LET starts == {i \in DOMAIN t : \E j \in DOMAIN t : Passage(t, i, j)}
  IN IF starts = {} THEN t
     ELSE LET i == Min(starts)
              j == CHOOSE j \in DOMAIN t : Passage(t, i, j)
          IN SubSeq(t, 1, i - 1) \o <<Mark>> \o SubSeq(t, j + 1, Len(t))

Cut(t) == SubSeq(t, 1, Min({Len(t), MaxBytes}))
\* Mutant: the text is cut before it is redacted.
CutFirst(t) == Redact(Cut(t))
FilterString(t) == Cut(Redact(t))

Hook == [kind : {"prompt", "response", "tool", "end"},
         content : HookTexts, other : HookTexts, summary : HookTexts]

\* filterHostHookEvent: every field of its own.
Filtered(h) == [h EXCEPT !.content = FilterString(@), !.other = FilterString(@),
                         !.summary = FilterString(@)]

FirstNonBlank(s) ==
  LET full == {i \in DOMAIN s : s[i] # <<>>} IN IF full = {} THEN <<>> ELSE s[Min(full)]

\* hostHookObservationIO; other is the input of a prompt or a tool, and else the output.
ObservationIO(h) ==
  FirstNonBlank(CASE h.kind \in {"prompt", "response"} -> <<h.content, h.other>>
                  [] h.kind = "tool" -> <<h.other, h.content>>
                  [] h.kind = "end" -> <<h.summary, h.other, h.content>>)

Conversational(h) == h.kind \in {"prompt", "response"}
MessageContent(h) == FirstNonBlank(<<h.content, h.other>>)
Summarizes(h) == h.kind = "end" /\ h.summary # <<>>

HookTypeOK ==
  /\ \A i \in DOMAIN observed : observed[i].hook \in Hook
  /\ \A i \in DOMAIN messages : messages[i].hook \in Hook
  /\ \A c \in Clients : capture[c].at \in {"resting", "observe", "message", "summary"}
  /\ sent \in 0..MaxHooks

HookInit ==
  /\ observed = <<>> /\ messages = <<>> /\ summary = NoHook
  /\ capture = [c \in Clients |-> Resting]
  /\ sent = 0 /\ broken = {}

\* A hook arrives; a prompt or an answer needs content.
CaptureHostHook(c, h) ==
  /\ capture[c] = Resting /\ sent < MaxHooks
  /\ Conversational(h) => MessageContent(Filtered(h)) # <<>>
  /\ capture' = [capture EXCEPT ![c] = [at |-> "observe", hook |-> h, event |-> Filtered(h)]]
  /\ sent' = sent + 1
  /\ UNCHANGED <<observed, messages, summary, broken>>

\* What follows the observation.
AfterObserve(k) ==
  IF Conversational(k.event) THEN [k EXCEPT !.at = "message"]
  ELSE IF Summarizes(k.event) THEN [k EXCEPT !.at = "summary"] ELSE Resting

\* Observe: the log redacts once more (of the other rules, see ObservationIntake).
ObserveHook(c) ==
  /\ capture[c].at = "observe"
  /\ observed' = Append(observed, [hook |-> capture[c].hook, text |-> Redact(ObservationIO(capture[c].event))])
  /\ capture' = [capture EXCEPT ![c] = AfterObserve(@)]
  /\ UNCHANGED <<messages, summary, sent, broken>>

\* CreateMessages stores the text as it is.
StoreMessage(c) ==
  /\ capture[c].at = "message"
  /\ messages' = Append(messages, [hook |-> capture[c].hook, text |-> MessageContent(capture[c].event)])
  /\ capture' = [capture EXCEPT ![c] = Resting]
  /\ UNCHANGED <<observed, summary, sent, broken>>

\* upsertSessionSummary: the short one, whatever it covers.
StoreSummary(c) ==
  /\ capture[c].at = "summary"
  /\ summary' = [kind |-> "host", hook |-> capture[c].hook, text |-> capture[c].event.summary]
  /\ capture' = [capture EXCEPT ![c] = Resting]
  /\ UNCHANGED <<observed, messages, sent, broken>>

\* A statement fails: the call does, and what it has stored stays.
CaptureFails(c) ==
  /\ capture[c] # Resting
  /\ capture' = [capture EXCEPT ![c] = Resting]
  /\ broken' = IF capture[c].at = "observe" THEN broken ELSE broken \cup {capture[c].hook}
  /\ UNCHANGED <<observed, messages, summary, sent>>

HookNext ==
  \E c \in Clients :
    \/ \E h \in Hook : CaptureHostHook(c, h)
    \/ ObserveHook(c) \/ StoreMessage(c) \/ StoreSummary(c) \/ CaptureFails(c)

HookSpec == HookInit /\ [][HookNext]_hookCaptureVars

-----------------------------------------------------------------------------
\* Properties

Private(t) == \E i, j, k \in DOMAIN t : Passage(t, i, j) /\ i < k /\ k < j /\ t[k] = Secret
\* An open passage is no passage, and stays.
Leaks(text, h) ==
  /\ Secret \in ToSet(text)
  /\ \A t \in {h.content, h.other, h.summary} : Secret \in ToSet(t) => Private(t)

Of(h, s) == {i \in DOMAIN s : s[i].hook = h}
Running(h) == \E c \in Clients : capture[c] # Resting /\ capture[c].hook = h

\* Nothing of a complete private passage is stored, whichever field it came in
\* and however long the text is; every message and the summary were observed
\* first; and a prompt or an answer is missing from the session only after a
\* call that failed (hook_capture.go:143-225).
CapturesAgree ==
  /\ \A s \in {observed, messages} : \A i \in DOMAIN s :
       ~Leaks(s[i].text, s[i].hook)
  /\ summary # NoHook => ~Leaks(summary.text, summary.hook) /\ Of(summary.hook, observed) # {}
  /\ \A h \in {observed[i].hook : i \in DOMAIN observed} \cup {messages[i].hook : i \in DOMAIN messages} :
       LET ofLog == Cardinality(Of(h, observed))
           told == Cardinality(Of(h, messages))
       IN /\ told <= ofLog
          /\ Conversational(h) /\ h \notin broken /\ ~Running(h) => told = ofLog
=============================================================================
