----------------------------- MODULE WriteQueue -----------------------------
(***************************************************************************)
(* writequeue/: the serialized memory write queue.  Submit holds one mutex *)
(* for its whole length; Cancel takes another one, so it interleaves with  *)
(* every step of a Submit.  A step below is what happens between two       *)
(* points where another goroutine can be seen: a lock, a call through one  *)
(* of the three seams (store, detector, relations), or the return.         *)
(***************************************************************************)
EXTENDS Naturals, Sequences, Functions

CONSTANTS
  Clients,              \* goroutines calling Submit
  Ids,                  \* memory IDs they use
  EmptyId,              \* the ID "", which Submit takes and Cancel refuses
  NoClient,             \* the mutex is free
  MaxSubmits            \* bound: calls of Submit in a behaviour

ASSUME ConstAssumption ==
  /\ NoClient \notin Clients
  /\ EmptyId \in Ids
  /\ MaxSubmits \in Nat

VARIABLES
  seams,                \* which optional seams NewWriteQueue was given
  mu,                   \* who holds q.mu
  cancelled,            \* q.cancelled
  consumed,             \* q.consumed
  store,                \* what store.Apply has accepted, in order
  relations,            \* what relations.SavePending has accepted
  pc,                   \* where each Submit is
  req,                  \* the ID each Submit writes
  prior,                \* its result of priorMemoriesExcluding
  found,                \* its candidates
  evidence,             \* the WriteEvidence it returned
  submits,              \* calls of Submit so far
  onTime,               \* history: IDs with an owed, in-time cancellation
  late                  \* history: IDs Cancel accepted after Apply had returned

vars == <<seams, mu, cancelled, consumed, store, relations, pc, req, prior, found,
          evidence, submits, onTime, late>>

-----------------------------------------------------------------------------
\* Types

Steps == {"idle", "waiting", "checking", "applying", "applied", "applyFailed",
          "listing", "detecting", "saving"}

\* The write itself has begun: the cancellation check is behind it.
Begun == {"applying", "applied", "applyFailed", "listing", "detecting",
          "saving"}

\* The write is authoritative: only relation work is left.
Authoritative == {"applied", "listing", "detecting", "saving"}

RelationCandidate == [from : Ids, to : Ids, evidence : SUBSET (Ids \ {EmptyId})]

Complete       == "goncho_write_complete"
Cancelled      == "goncho_write_cancelled"
RelationFailed == "goncho_relation_detection_failed"
WriteFailed    == "goncho_write_failed"

WriteEvidence ==
  [code : {Complete, Cancelled, RelationFailed, WriteFailed, "none"},
   writeOK : BOOLEAN, candidates : SUBSET RelationCandidate]

Verdict(code, ok, cands) == [code |-> code, writeOK |-> ok, candidates |-> cands]
NoVerdict == Verdict("none", FALSE, {})

TypeOK ==
  /\ seams \in [detector : BOOLEAN, relations : BOOLEAN]
  /\ mu \in Clients \cup {NoClient}
  /\ cancelled \subseteq Ids
  /\ consumed \subseteq Ids
  /\ store \in Seq(Ids)
  /\ relations \subseteq RelationCandidate
  /\ pc \in [Clients -> Steps]
  /\ req \in [Clients -> Ids]
  /\ prior \in [Clients -> SUBSET Ids]
  /\ found \in [Clients -> SUBSET RelationCandidate]
  /\ evidence \in [Clients -> WriteEvidence]
  /\ submits \in Nat
  /\ onTime \subseteq Ids
  /\ late \subseteq Ids

Init ==
  /\ seams \in [detector : BOOLEAN, relations : BOOLEAN]
  /\ mu = NoClient
  /\ cancelled = {}
  /\ consumed = {}
  /\ store = <<>>
  /\ relations = {}
  /\ pc = [c \in Clients |-> "idle"]
  /\ req = [c \in Clients |-> EmptyId]
  /\ prior = [c \in Clients |-> {}]
  /\ found = [c \in Clients |-> {}]
  /\ evidence = [c \in Clients |-> NoVerdict]
  /\ submits = 0
  /\ onTime = {}
  /\ late = {}

-----------------------------------------------------------------------------
\* Helpers

\* Mutant: the empty ID is taken as evidence like any other.
EvidenceWithEmptyIDs(from, to) == {from, to}

\* relationMemoryEvidenceIDs: the distinct non-empty IDs of an edge.
RelationMemoryEvidenceIDs(from, to) == {from, to} \ {EmptyId}

\* Mutant: candidates are stored as the detector gave them.
EvidenceAsDetected(cands) == cands

\* withDefaultRelationEvidenceIDs: keep what the detector gave, fill the rest.
WithDefaultRelationEvidenceIDs(cands) ==
  {[r EXCEPT !.evidence =
      IF r.evidence # {} THEN r.evidence
      ELSE RelationMemoryEvidenceIDs(r.from, r.to)] : r \in cands}

\* Mutant: the new memory is compared with itself.
PriorMemories(id) == Range(store)

\* priorMemoriesExcluding: every listed memory but the one just written.
PriorMemoriesExcluding(id) == Range(store) \ {id}

\* What a detector may answer: edges from the new memory to a prior one, with
\* evidence of its own or none.
Detectable(id, older) ==
  [from : {id}, to : older, evidence : {{}, {id} \ {EmptyId}}]

\* Mutant: Submit does not take the mutex.
NoMutex == TRUE

\* q.mu can be locked.
QueueFree == mu = NoClient

\* Mutant: the cancellation check is skipped.
CancellationIgnored(id) == FALSE

\* takeCancelled finds a pending cancellation.
PendingCancellation(id) == id \in cancelled

\* Mutant: a failed relation step takes WriteOK back.
RelationFailureFailsWrite == Verdict(RelationFailed, FALSE, {})

\* Relation work failed after an authoritative write.
RelationFailure == Verdict(RelationFailed, TRUE, {})

Goto(c, from, to) == pc[c] = from /\ pc' = [pc EXCEPT ![c] = to]

\* The deferred q.mu.Unlock(), the returned evidence, the end of the locals.
Return(c, verdict) ==
  /\ mu' = NoClient
  /\ prior' = [prior EXCEPT ![c] = {}]
  /\ found' = [found EXCEPT ![c] = {}]
  /\ pc' = [pc EXCEPT ![c] = "idle"]
  /\ evidence' = [evidence EXCEPT ![c] = verdict]

-----------------------------------------------------------------------------
\* Cancel

\* A Submit of id has reached one of these steps and not returned.
InSteps(id, S) == \E c \in Clients : pc[c] \in S /\ req[c] = id

Cancel(id) ==
  /\ id # EmptyId
  /\ id \notin consumed
  /\ cancelled' = cancelled \cup {id}
  /\ onTime' = IF InSteps(id, Begun) THEN onTime ELSE onTime \cup {id}
  /\ late' = IF InSteps(id, Begun \ {"applying"}) THEN late \cup {id} ELSE late
  /\ UNCHANGED <<seams, mu, consumed, store, relations, pc, req, prior, found,
                 evidence, submits>>

-----------------------------------------------------------------------------
\* Submit, step by step

CallSubmit(c, id) ==
  /\ submits < MaxSubmits
  /\ Goto(c, "idle", "waiting")
  /\ req' = [req EXCEPT ![c] = id]
  /\ evidence' = [evidence EXCEPT ![c] = NoVerdict]
  /\ submits' = submits + 1
  /\ UNCHANGED <<seams, mu, cancelled, consumed, store, relations, prior, found, onTime, late>>

LockQueue(c) ==
  /\ QueueFree
  /\ Goto(c, "waiting", "checking")
  /\ mu' = c
  /\ UNCHANGED <<seams, cancelled, consumed, store, relations, req, prior, found,
                 evidence, submits, onTime, late>>

\* takeCancelled found the ID: it is consumed and the write never starts.
TakeCancelled(c) ==
  /\ pc[c] = "checking"
  /\ PendingCancellation(req[c])
  /\ cancelled' = cancelled \ {req[c]}
  /\ consumed' = consumed \cup {req[c]}
  /\ onTime' = onTime \ {req[c]}
  /\ Return(c, Verdict(Cancelled, FALSE, {}))
  /\ UNCHANGED <<seams, store, relations, req, submits, late>>

NotCancelled(c) ==
  /\ ~PendingCancellation(req[c])
  /\ Goto(c, "checking", "applying")
  /\ UNCHANGED <<seams, mu, cancelled, consumed, store, relations, req, prior, found,
                 evidence, submits, onTime, late>>

ApplyWrite(c) ==
  /\ \/ Goto(c, "applying", "applied") /\ store' = Append(store, req[c])
     \/ Goto(c, "applying", "applyFailed") /\ UNCHANGED store
  /\ UNCHANGED <<seams, mu, cancelled, consumed, relations, req, prior, found, evidence,
                 submits, onTime, late>>

\* Mutant: the failed-write return forgets to unlock.
MarkConsumedStillLocked(c) ==
  /\ consumed' = consumed \cup {req[c]}
  /\ \/ Goto(c, "applied", "listing") /\ UNCHANGED evidence
     \/ /\ Goto(c, "applyFailed", "idle")
        /\ evidence' = [evidence EXCEPT ![c] = Verdict(WriteFailed, FALSE, {})]
  /\ UNCHANGED <<seams, mu, prior, found, cancelled, store, relations, req, submits,
                 onTime, late>>

MarkConsumed(c) ==
  /\ consumed' = consumed \cup {req[c]}
  /\ \/ Goto(c, "applied", "listing") /\ UNCHANGED <<mu, evidence, prior, found>>
     \/ pc[c] = "applyFailed" /\ Return(c, Verdict(WriteFailed, FALSE, {}))
  /\ UNCHANGED <<seams, cancelled, store, relations, req, submits, onTime, late>>

ListPrior(c) ==
  /\ \/ /\ Goto(c, "listing", "detecting")
        /\ prior' = [prior EXCEPT ![c] = PriorMemoriesExcluding(req[c])]
        /\ UNCHANGED <<mu, evidence, found>>
     \/ /\ pc[c] = "listing"
        /\ Return(c, RelationFailure)
  /\ UNCHANGED <<seams, cancelled, consumed, store, relations, req, submits, onTime, late>>

\* No detector is configured.
SkipDetect(c) ==
  /\ ~seams.detector
  /\ pc[c] = "detecting"
  /\ Return(c, Verdict(Complete, TRUE, {}))
  /\ UNCHANGED <<seams, cancelled, consumed, store, relations, req, submits, onTime, late>>

DetectFailed(c) ==
  /\ seams.detector
  /\ pc[c] = "detecting"
  /\ Return(c, RelationFailure)
  /\ UNCHANGED <<seams, cancelled, consumed, store, relations, req, submits, onTime, late>>

Detect(c) ==
  /\ seams.detector
  /\ \E cands \in SUBSET Detectable(req[c], prior[c]) :
       IF cands = {}
         THEN pc[c] = "detecting" /\ Return(c, Verdict(Complete, TRUE, {}))
         ELSE /\ Goto(c, "detecting", "saving")
              /\ found' = [found EXCEPT ![c] = WithDefaultRelationEvidenceIDs(cands)]
              /\ UNCHANGED <<mu, prior, evidence>>
  /\ UNCHANGED <<seams, cancelled, consumed, store, relations, req, submits, onTime, late>>

SavePending(c) ==
  /\ pc[c] = "saving"
  /\ \/ /\ seams.relations
        /\ Return(c, RelationFailure)
        /\ UNCHANGED relations
     \/ /\ Return(c, Verdict(Complete, TRUE, found[c]))
        /\ relations' = IF seams.relations THEN relations \cup found[c] ELSE relations
  /\ UNCHANGED <<seams, cancelled, consumed, store, req, submits, onTime, late>>

SubmitStep(c) ==
  \/ TakeCancelled(c) \/ NotCancelled(c) \/ ApplyWrite(c) \/ MarkConsumed(c)
  \/ ListPrior(c) \/ SkipDetect(c) \/ DetectFailed(c) \/ Detect(c) \/ SavePending(c)

Next ==
  \/ \E id \in Ids : Cancel(id)
  \/ \E c \in Clients, id \in Ids : CallSubmit(c, id)
  \/ \E c \in Clients : LockQueue(c) \/ SubmitStep(c)

Spec == Init /\ [][Next]_vars

\* sync.Mutex hands the lock to a waiter that has starved for a millisecond,
\* so locking is strongly fair; a Submit that runs is never descheduled for
\* good and its three seams return.
FairSpec ==
  /\ Spec
  /\ \A c \in Clients : SF_vars(LockQueue(c)) /\ WF_vars(SubmitStep(c))
-----------------------------------------------------------------------------
\* Properties

\* Only the holder of q.mu is inside Submit, and the lock is held exactly
\* while somebody is (write_queue.go:108-110).
MutexOwnership ==
  \A c \in Clients : pc[c] \notin {"idle", "waiting"} <=> mu = c

\* The detector compares a write with every memory stored before it and with
\* nothing stored after: no write slips in between Apply and Detect
\* (priorMemoriesExcluding, write_queue.go:177-192).
DetectorSeesEarlierWrites ==
  \A c \in Clients :
    pc[c] \in {"detecting", "saving"} =>
      /\ store # <<>> /\ store[Len(store)] = req[c]
      /\ prior[c] = Range(store) \ {req[c]}

\* A write whose cancellation was accepted before it began never begins
\* (write_queue.go:112-119).
OnTimeCancelHonoured ==
  \A c \in Clients : pc[c] \in Begun => req[c] \notin onTime

\* Once a Submit of an ID has returned, Cancel refuses that ID for ever,
\* whatever the verdict was (write_queue.go:112-113, 224-244).
VerdictConsumes ==
  \A c \in Clients : evidence[c].code # "none" => req[c] \in consumed

\* The verdict tells the truth about this attempt: WriteOK is returned after
\* this attempt's own Apply succeeded, and never otherwise, whatever became of
\* the relation work (write_queue.go:36-43, 133-134).
VerdictTellsTheWrite ==
  [][\A c \in Clients :
       pc[c] # "idle" /\ pc'[c] = "idle" =>
         (evidence'[c].writeOK <=> pc[c] \in Authoritative)]_vars

\* Candidates handed back as stored are stored, and every stored relation
\* joins two stored memories and carries evidence (write_queue.go:159-174).
RelationsBacked ==
  /\ \A r \in relations :
       /\ {r.from, r.to} \subseteq Range(store)
       /\ r.from # r.to
       /\ r.evidence # {}
  /\ seams.relations => \A c \in Clients : evidence[c].candidates \subseteq relations

\* Every Submit returns: no error path keeps the mutex, and a waiter is not
\* passed over for ever.
SubmitReturns == \A c \in Clients : pc[c] = "waiting" ~> pc[c] = "idle"

\* The doc of Cancel: "Returns true if the cancellation was registered before
\* the write started, false if the write has already begun, completed, or the
\* ID was already consumed" (write_queue.go:84-86).
CancelTrueOnlyBeforeStart == late = {}

\* The queue implements the serial ledger.
Ledger == INSTANCE MemoryLedger
  WITH links <- {<<r.from, r.to>> : r \in relations}, promised <- onTime
ImplementsLedger == Ledger!LedgerSpec
=============================================================================
