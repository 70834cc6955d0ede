------------------------------- MODULE Reviews -------------------------------
(***************************************************************************)
(* What operators are asked to review: the review items of                 *)
(* internal/reviewlog, opened for repeated failures of a tool              *)
(* (negative_evidence_candidates.go), for proposals extracted from         *)
(* messages (memory_extraction_proposals.go) and for feedback on a recall  *)
(* (eval_feedback.go); and the proposals of internal/skillproposals. A     *)
(* caller looks for an open item of its subject in one statement and       *)
(* creates one in another.                                                 *)
(***************************************************************************)
EXTENDS Integers, Sequences, SequencesExt, FiniteSets

CONSTANTS
  Clients,      \* goroutines calling the service
  Tools,        \* tools of one peer and session whose results are observed
  Messages,     \* messages a proposal may be extracted from
  Recalled,     \* memories recalled, and judged by a host
  MinFailures,  \* failures that make a candidate
  Limits,       \* items a call may create; 0 is no limit
  MaxObserved,  \* bound on the observations
  MaxItems      \* bound on the items and proposals

VARIABLES
  observed,  \* the observations of each tool, oldest first: did it succeed?
  items,     \* rows of both tables, in the order of their creation
  feedback,  \* the item named by the feedback on a memory; 0 is none
  call,      \* the call each client is in
  told,      \* history: what callers who resolved an item were answered
  met        \* history: subjects that two calls looked for before either created its item

vars == <<observed, items, feedback, call, told, met>>

Idle == [at |-> "idle"]
Subjects == Tools \cup Messages
Resolutions == {"accepted", "rejected"}
Item == [table : {"review", "skill"}, subject : Subjects \cup Recalled \cup {"skill"},
         status : {"open"} \cup Resolutions]

TypeOK ==
  /\ observed \in [Tools -> Seq(BOOLEAN)]
  /\ items \in Seq(Item) /\ Len(items) <= MaxItems
  /\ feedback \in [Recalled -> 0..MaxItems]
  /\ \A c \in Clients : call[c].at \in {"idle", "list", "create", "feedback", "readback"}
  /\ told \in [1..MaxItems -> SUBSET (Resolutions \cup {"error"})] /\ met \subseteq Subjects

Init ==
  /\ observed = [t \in Tools |-> <<>>]
  /\ items = <<>> /\ feedback = [m \in Recalled |-> 0]
  /\ call = [c \in Clients |-> Idle]
  /\ told = [i \in 1..MaxItems |-> {}] /\ met = {}

Goto(c, k) == call' = [call EXCEPT ![c] = k]

Add(table, subject) ==
  /\ Len(items) < MaxItems
  /\ items' = Append(items, [table |-> table, subject |-> subject, status |-> "open"])

-----------------------------------------------------------------------------
\* Candidates

\* A tool is observed; a later observation has the later time.
ObserveTool ==
  /\ \E t \in Tools, success \in BOOLEAN :
       /\ Len(observed[t]) < MaxObserved
       /\ observed' = [observed EXCEPT ![t] = Append(@, success)]
  /\ UNCHANGED <<items, feedback, call, told, met>>

\* Failures no later success resolves.
Unresolved(t) ==
  {i \in DOMAIN observed[t] : \A j \in i..Len(observed[t]) : ~observed[t][j]}

\* GenerateNegativeEvidenceCandidates
Candidates == {t \in Tools : Cardinality(Unresolved(t)) >= MinFailures}

\* CreateNegativeEvidenceReviewItems
BeginNegative(c) ==
  /\ call[c] = Idle /\ Candidates # {}
  /\ \E limit \in Limits : \E todo \in SetToSeqs(Candidates) :
       Goto(c, [at |-> "list", todo |-> todo, limit |-> limit])
  /\ UNCHANGED <<observed, items, feedback, told, met>>

\* ExtractMemoryProposals: a proposal is reviewed when its text is doubtful or
\* private, or a search finds a memory that contradicts it.
BeginExtract(c) ==
  /\ call[c] = Idle
  /\ \E doubtful \in SUBSET Messages \ {{}} : \E todo \in SetToSeqs(doubtful) :
       Goto(c, [at |-> "list", todo |-> todo, limit |-> 0])
  /\ UNCHANGED <<observed, items, feedback, told, met>>

-----------------------------------------------------------------------------
\* Items

\* The item is done with; limit counts down what may still be created.
NextSubject(c, limit, full) ==
  Goto(c, IF full \/ Len(call[c].todo) = 1 THEN Idle
          ELSE [at |-> "list", todo |-> Tail(call[c].todo), limit |-> limit])

\* Mutant: nobody looks for an open item.
NeverFound(subject) == FALSE
HasOpen(subject) ==
  \E i \in DOMAIN items : items[i] = [table |-> "review", subject |-> subject, status |-> "open"]

\* ListReviewItems of a subject that are open, limit 1
ListOpen(c) ==
  /\ call[c].at = "list"
  /\ LET subject == Head(call[c].todo) IN
     IF HasOpen(subject) THEN NextSubject(c, call[c].limit, FALSE) /\ UNCHANGED met
     ELSE /\ Goto(c, [call[c] EXCEPT !.at = "create"])
          /\ met' = IF \E d \in Clients : call[d].at = "create" /\ Head(call[d].todo) = subject
                    THEN met \cup {subject} ELSE met
  /\ UNCHANGED <<observed, items, feedback, told>>

\* CreateReviewItem
Create(c) ==
  /\ call[c].at = "create"
  /\ Add("review", Head(call[c].todo))
  /\ NextSubject(c, call[c].limit - 1, call[c].limit = 1)
  /\ UNCHANGED <<observed, feedback, told, met>>

\* RecordRecallFeedback of a label that requires review: an item first, without
\* a look for one, then the row of the feedback, over an older one.
BeginFeedback(c) ==
  /\ call[c] = Idle
  /\ \E m \in Recalled :
       /\ Add("review", m)
       /\ Goto(c, [at |-> "feedback", memory |-> m, item |-> Len(items) + 1])
  /\ UNCHANGED <<observed, feedback, told, met>>

InsertFeedback(c) ==
  /\ call[c].at = "feedback"
  /\ feedback' = [feedback EXCEPT ![call[c].memory] = call[c].item]
  /\ Goto(c, Idle)
  /\ UNCHANGED <<observed, items, told, met>>

\* A statement fails, or the caller gives up: what is stored stays.
CallFails(c) ==
  /\ call[c].at \in {"list", "create", "feedback"}
  /\ Goto(c, Idle)
  /\ UNCHANGED <<observed, items, feedback, told, met>>

\* SubmitSkillLearningProposal
SubmitSkill(c) ==
  /\ call[c] = Idle
  /\ Add("skill", "skill")
  /\ UNCHANGED <<observed, feedback, call, told, met>>

\* Mutant: the last word is taken.
Anything(i) == TRUE
Undecided(i) == items[i].status = "open"

\* ResolveReviewItem and reviewSkillLearningProposal: an UPDATE of a row that is
\* open (or pending); no row changed is an error.
Resolve(c) ==
  /\ call[c] = Idle
  /\ \E i \in DOMAIN items, r \in Resolutions :
       /\ Undecided(i)
       /\ items' = [items EXCEPT ![i].status = r]
       /\ Goto(c, [at |-> "readback", item |-> i, asked |-> r])
  /\ UNCHANGED <<observed, feedback, told, met>>

\* getReviewItem and getSkillLearningProposal: the answer is the row as another
\* statement reads it, or the error of that statement.
ReadBack(c) ==
  /\ call[c].at = "readback"
  /\ \E answer \in {items[call[c].item].status, "error"} :
       told' = [told EXCEPT ![call[c].item] = @ \cup {answer}]
  /\ Goto(c, Idle)
  /\ UNCHANGED <<observed, items, feedback, met>>

Next ==
  \/ ObserveTool
  \/ \E c \in Clients :
       \/ BeginNegative(c) \/ BeginExtract(c) \/ ListOpen(c) \/ Create(c)
       \/ BeginFeedback(c) \/ InsertFeedback(c) \/ CallFails(c)
       \/ SubmitSkill(c) \/ Resolve(c) \/ ReadBack(c)

Spec == Init /\ [][Next]_vars

-----------------------------------------------------------------------------
\* Properties

\* A subject has one open item at a time, however often the same failures and
\* messages are looked at - unless two calls looked for it before either created
\* one (negative_evidence_candidates.go:92, memory_extraction_proposals.go:148).
OneOpenItem ==
  \A s \in Subjects \ met :
    Cardinality({i \in DOMAIN items : items[i].subject = s /\ items[i].status = "open"}) <= 1

\* Of several operators who resolve an item or a proposal, one gets past the
\* guard; while that one reads the row back nobody is answered, and what it then
\* reads is what it asked for.  If the reading fails nobody is ever told that the
\* item is resolved, and it stays resolved (log.go:146-161, proposals.go:219-234).
ResolvedOnce ==
  \A i \in DOMAIN items :
    LET reading == {c \in Clients : call[c].at = "readback" /\ call[c].item = i}
        status == items[i].status
    IN IF status = "open" THEN reading = {} /\ told[i] = {}
       ELSE \/ told[i] = {} /\ \E c \in reading : reading = {c} /\ call[c].asked = status
            \/ reading = {} /\ told[i] \in {{status}, {"error"}}
=============================================================================
