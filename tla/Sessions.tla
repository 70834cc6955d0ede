------------------------------ MODULE Sessions ------------------------------
(***************************************************************************)
(* One session of the service: its turns and summaries (service/sql.go),   *)
(* the calls that store and delete them (lifecycle_module.go, service.go,  *)
(* session_summary.go) and the context that reads them back                *)
(* (retrieval_module.go). A statement or a transaction of SQLite is one    *)
(* step; a context is made of ten, and its parameters count from the ninth *)
(* on.                                                                     *)
(***************************************************************************)
EXTENDS Integers, Sequences, FiniteSets, SequencesExt, FiniteSetsExt

CONSTANTS
  Clients,      \* goroutines calling the service
  Times,        \* time stamps a turn may carry
  Cadence,      \* turns per summary, for each of the two slots
  SummaryCost,  \* tokens of the summary of each slot
  Cost,         \* tokens of the turn with a given ID
  Limits,       \* token limits of a context; 0 is none
  RecentLimit,  \* turns of a context without a token limit
  Attempts,     \* createMessagesLockRetryAttempts
  MaxTurns,     \* bound on the turns ever stored
  MaxEndings    \* bound on the goroutines of OnSessionEnd at a time

VARIABLES
  turns,      \* rows of the session
  lastId,     \* the AUTOINCREMENT sequence of turns
  summaries,  \* the row of each slot, or NoSummary
  ending,     \* goroutines of OnSessionEnd that have not stored their summary
  call,       \* the call each client is in
  backdated,  \* history: a turn was stored with an older stamp than another
  misread     \* history: turns the last context hid, or showed beside their summary

sessionVars == <<turns, lastId, summaries, ending>>
vars == <<sessionVars, call, backdated, misread>>

Slots == {"short", "long"}
NoSummary == [id |-> -1, covers |-> {}]
Idle == [at |-> "idle"]
Turn == [id : 1..MaxTurns, ts : Times, seq : 0..MaxTurns, source : {"message", "chat"}]

TypeOK ==
  /\ turns \subseteq Turn /\ lastId \in 0..MaxTurns
  /\ summaries \in [Slots \cup {"structured"} -> [id : -1..MaxTurns, covers : SUBSET (1..MaxTurns)]]
  /\ ending \in Nat
  /\ \A c \in Clients : call[c].at \in {"idle", "messages", "count", "place", "compare", "upsert",
                                        "select", "recent"}
  /\ backdated \in BOOLEAN /\ misread \subseteq 1..MaxTurns

Init ==
  /\ turns = {} /\ lastId = 0
  /\ summaries = [s \in Slots \cup {"structured"} |-> NoSummary]
  /\ ending = 0
  /\ call = [c \in Clients |-> Idle]
  /\ backdated = FALSE /\ misread = {}

Goto(c, k) == call' = [call EXCEPT ![c] = k]
Return(c) == Goto(c, Idle)

-----------------------------------------------------------------------------
\* Turns

Earlier(t, u) == t.ts < u.ts \/ (t.ts = u.ts /\ t.id < u.id)
\* ORDER BY ts_unix ASC, id ASC
InOrder(S) == SetToSortSeq(S, Earlier)
Ids(S) == {t.id : t \in S}

Messages == {t \in turns : t.source = "message"}
lastSeq == Max({0} \cup {t.seq : t \in Messages})

Insert(new) ==
  /\ turns' = turns \cup new
  /\ lastId' = Max(Ids(new))
  /\ backdated' = (backdated \/ \E t \in new, u \in turns \cup new : u.id < t.id /\ t.ts < u.ts)

BeginMessages(c) ==
  /\ call[c] = Idle
  /\ Goto(c, [at |-> "messages", attempt |-> 0])
  /\ UNCHANGED <<sessionVars, backdated, misread>>

\* createMessagesOnce: one transaction numbers the batch after the last message.
\* A stamp is the message's own or the clock's.
CreateMessages(c) ==
  /\ call[c].at = "messages"
  /\ \E n \in 1..2 : lastId + n <= MaxTurns /\ \E ts \in [1..n -> Times] :
       Insert({[id |-> lastId + i, ts |-> ts[i], seq |-> lastSeq + i, source |-> "message"] : i \in 1..n})
  /\ Return(c)
  /\ UNCHANGED <<summaries, ending, misread>>

\* The database is locked: nothing is stored and the batch is tried again.
Locked(c) ==
  /\ call[c].at = "messages" /\ call[c].attempt + 1 < Attempts
  /\ call' = [call EXCEPT ![c].attempt = @ + 1]
  /\ UNCHANGED <<sessionVars, backdated, misread>>

\* An invalid message, another error, the last attempt, or the caller gave up.
MessagesFail(c) ==
  /\ call[c].at = "messages"
  /\ Return(c)
  /\ UNCHANGED <<sessionVars, backdated, misread>>

\* insertAssistantChatTurn: no number and no workspace in its metadata.
Answer(ts) == [id |-> lastId + 1, ts |-> ts, seq |-> 0, source |-> "chat"]

\* A chat, or a streamed answer that is complete.
Chat(c) ==
  /\ call[c] = Idle /\ lastId < MaxTurns
  /\ \E ts \in Times : Insert({Answer(ts)})
  /\ UNCHANGED <<summaries, ending, call, misread>>

\* deleteLifecycleSession and, for this session, deleteLifecycleWorkspace: the
\* rows of the workspace; a turn without one in its metadata stays.
Rest == turns \ Messages

DeleteSession(c) ==
  /\ call[c] = Idle
  /\ turns' = Rest
  /\ summaries' = [s \in DOMAIN summaries |-> NoSummary]
  /\ UNCHANGED <<lastId, ending, call, backdated, misread>>

\* OnSessionEnd returns at once; its goroutine stores, or only logs an error.
OnSessionEnd(c) ==
  /\ call[c] = Idle /\ ending < MaxEndings
  /\ ending' = ending + 1
  /\ UNCHANGED <<turns, lastId, summaries, call, backdated, misread>>

StoreStructured ==
  /\ ending > 0 /\ ending' = ending - 1
  /\ \/ summaries' = [summaries EXCEPT !["structured"] = [id |-> 0, covers |-> {}]]
     \/ UNCHANGED summaries
  /\ UNCHANGED <<turns, lastId, call, backdated, misread>>

\* The hook capture at a session's end: the host's text, through no message.
HostSummary(c) ==
  /\ call[c] = Idle
  /\ summaries' = [summaries EXCEPT !["short"] = [id |-> 0, covers |-> {}]]
  /\ UNCHANGED <<turns, lastId, ending, call, backdated, misread>>

-----------------------------------------------------------------------------
\* Context

BeginContext(c) ==
  /\ call[c] = Idle
  /\ Goto(c, [at |-> "count"])
  /\ UNCHANGED <<sessionVars, backdated, misread>>

\* countReadySessionTurns
Count(c) ==
  /\ call[c].at = "count"
  /\ Goto(c, [at |-> "place", count |-> Cardinality(turns), slot |-> "short"])
  /\ UNCHANGED <<sessionVars, backdated, misread>>

\* refreshSessionSummarySlot is done with its slot.
SlotDone(c) ==
  Goto(c, IF call[c].slot = "long" THEN [at |-> "select"]
          ELSE [at |-> "place", count |-> call[c].count, slot |-> "long"])

CoveredCount(c) == (call[c].count \div Cadence[call[c].slot]) * Cadence[call[c].slot]

\* readySessionTurnIDAtPosition; nothing there, or too few turns: no summary.
Place(c) ==
  /\ call[c].at = "place"
  /\ LET ordered == InOrder(turns)
         n == CoveredCount(c)
     IN IF n \in 1..Len(ordered)
        THEN Goto(c, [call[c] EXCEPT !.at = "compare"] @@
                     [row |-> [id |-> ordered[n].id, covers |-> Ids(ToSet(SubSeq(ordered, 1, n)))]])
        ELSE SlotDone(c)
  /\ UNCHANGED <<sessionVars, backdated, misread>>

\* getSessionSummary: a summary that goes as far is kept.
Compare(c) ==
  /\ call[c].at = "compare"
  /\ IF summaries[call[c].slot].id >= call[c].row.id
     THEN SlotDone(c)
     ELSE Goto(c, [call[c] EXCEPT !.at = "upsert"])
  /\ UNCHANGED <<sessionVars, backdated, misread>>

UpsertSummary(c) ==
  /\ call[c].at = "upsert"
  /\ summaries' = [summaries EXCEPT ![call[c].slot] = call[c].row]
  /\ SlotDone(c)
  /\ UNCHANGED <<turns, lastId, ending, backdated, misread>>

\* SplitSummaryMessageBudget
SummaryBudget(limit) == (limit * 2) \div 5
MessageBudget(limit) == limit - SummaryBudget(limit)

Usable(slot, limit) ==
  summaries[slot] # NoSummary /\ (limit = 0 \/ SummaryCost[slot] <= SummaryBudget(limit))

\* selectSessionContextSummary: the long one if it fits, else the short one.
Selected(limit) ==
  IF Usable("long", limit) THEN summaries["long"]
  ELSE IF Usable("short", limit) THEN summaries["short"] ELSE NoSummary

Select(c) ==
  /\ call[c].at = "select"
  /\ \E limit \in Limits, wanted \in BOOLEAN :
       Goto(c, [at |-> "recent", limit |-> limit,
                summary |-> IF wanted THEN Selected(limit) ELSE NoSummary])
  /\ UNCHANGED <<sessionVars, backdated, misread>>

\* Mutant: the turns since the summary, without the one it goes through.
AfterWithGap(id) == {t \in turns : t.id > id + 1}
After(id) == {t \in turns : t.id > id}

\* The newest of a set of turns, until one does not fit.
Newest(S, summary, limit) ==
  LET newest == Reverse(InOrder(S))
      budget == IF summary = NoSummary THEN limit ELSE MessageBudget(limit)
      Spent(n) == FoldLeft(LAMBDA sum, t : sum + Cost[t.id], 0, SubSeq(newest, 1, n))
      Fits(n) == IF limit = 0 THEN n <= RecentLimit ELSE Spent(n) <= budget
  IN ToSet(SubSeq(newest, 1, Max({n \in 0..Len(newest) : Fits(n)})))

\* recentTurnsByTokenBudget and recentTurnsAfter
Recent(summary, limit) ==
  Newest(After(IF summary = NoSummary THEN 0 ELSE summary.id), summary, limit)

\* The last query of a context. It should show the newest turns that its summary
\* does not cover.
Read(c) ==
  /\ call[c].at = "recent"
  /\ LET summary == call[c].summary
         covered == {t \in turns : t.id \in summary.covers}
     IN misread' = Ids(SymDiff(Recent(summary, call[c].limit),
                               Newest(turns \ covered, summary, call[c].limit)))
  /\ Return(c)
  /\ UNCHANGED <<sessionVars, backdated>>

\* Any statement of a context fails; what it has stored stays.
ContextFails(c) ==
  /\ call[c].at \in {"count", "place", "compare", "upsert", "select", "recent"}
  /\ Return(c)
  /\ UNCHANGED <<sessionVars, backdated, misread>>

-----------------------------------------------------------------------------
Next ==
  \/ StoreStructured
  \/ \E c \in Clients :
       \/ BeginMessages(c) \/ CreateMessages(c) \/ Locked(c) \/ MessagesFail(c)
       \/ Chat(c) \/ DeleteSession(c) \/ OnSessionEnd(c) \/ HostSummary(c)
       \/ BeginContext(c) \/ Count(c) \/ Place(c) \/ Compare(c) \/ UpsertSummary(c)
       \/ Select(c) \/ Read(c) \/ ContextFails(c)

Spec == Init /\ [][Next]_vars

-----------------------------------------------------------------------------
\* Properties

\* A context shows the newest turns that its summary does not cover, none of
\* them twice - if turns were stored in the order of their stamps: a summary
\* covers the first turns by stamp (sql.go:763), while the turns after it are
\* those with greater IDs (sql.go:674).
ContextAccounts == backdated \/ misread = {}
=============================================================================
