-------------------------- MODULE WriteQueueProofs --------------------------
(***************************************************************************)
(* Proofs about the write queue, for any number of submitters, IDs and     *)
(* calls.                                                                  *)
(***************************************************************************)
EXTENDS WriteQueue, SequenceTheorems, TLAPS

-----------------------------------------------------------------------------
\* Lemmas about the operators

\* Appending adds the appended element to the range, and nothing else.
LEMMA RangeAppend ==
  ASSUME NEW S, NEW s \in Seq(S), NEW e \in S
  PROVE  Range(Append(s, e)) = Range(s) \cup {e}
BY SMTT(30) DEF Range

\* A non-empty sequence of IDs ends with one of its elements.
LEMMA LastInRange ==
  ASSUME NEW S, NEW s \in Seq(S), s # <<>>
  PROVE  s[Len(s)] \in Range(s)
BY DEF Range

\* Defaulting the evidence of detected candidates keeps their ends and stays
\* in the candidate type.
LEMMA DefaultedCandidates ==
  ASSUME ConstAssumption, NEW id \in Ids, NEW older \in SUBSET Ids,
         NEW cands \in SUBSET Detectable(id, older),
         NEW r \in WithDefaultRelationEvidenceIDs(cands)
  PROVE  /\ r \in RelationCandidate
         /\ r.from = id /\ r.to \in older
         /\ id \notin older => r.evidence # {}
<1>1. PICK d \in cands :
        r = [d EXCEPT !.evidence = IF d.evidence # {} THEN d.evidence
                                   ELSE RelationMemoryEvidenceIDs(d.from, d.to)]
  BY DEF WithDefaultRelationEvidenceIDs
<1>2. /\ d \in [from : {id}, to : older, evidence : {{}, {id} \ {EmptyId}}]
      /\ d.from = id /\ d.to \in older /\ d.evidence \in {{}, {id} \ {EmptyId}}
  BY DEF Detectable
<1>3. id \notin older => RelationMemoryEvidenceIDs(d.from, d.to) # {}
  BY <1>2 DEF RelationMemoryEvidenceIDs
<1>4. /\ r.from = id /\ r.to \in older
      /\ r.evidence \in SUBSET (Ids \ {EmptyId})
      /\ id \notin older => r.evidence # {}
  BY <1>1, <1>2, <1>3 DEF RelationMemoryEvidenceIDs
<1>5. r \in RelationCandidate
  BY <1>1, <1>2, <1>4 DEF RelationCandidate
<1> QED
  BY <1>4, <1>5

-----------------------------------------------------------------------------
\* Type correctness

\* Every step of the queue, its submitters and its cancellers keeps the types.
THEOREM TypeCorrect == Spec => []TypeOK
<1> USE ConstAssumption DEF Steps
<1>1. Init => TypeOK
  BY DEF Init, TypeOK, NoVerdict, Verdict, WriteEvidence
<1>2. TypeOK /\ [Next]_vars => TypeOK'
  <2> SUFFICES ASSUME TypeOK, [Next]_vars PROVE TypeOK'
    OBVIOUS
  <2>a. NoVerdict \in WriteEvidence /\ RelationFailure \in WriteEvidence
    BY DEF NoVerdict, RelationFailure, Verdict, WriteEvidence, RelationFailed
  <2>b. ASSUME NEW ok \in BOOLEAN, NEW cands \in SUBSET RelationCandidate,
               NEW code \in {Complete, Cancelled, RelationFailed, WriteFailed}
        PROVE  Verdict(code, ok, cands) \in WriteEvidence
    BY DEF Verdict, WriteEvidence
  <2>d. /\ Verdict(Cancelled, FALSE, {}) \in WriteEvidence
        /\ Verdict(WriteFailed, FALSE, {}) \in WriteEvidence
    BY DEF Verdict, WriteEvidence, Cancelled, WriteFailed
  <2>c. ASSUME NEW c \in Clients, NEW v \in WriteEvidence, Return(c, v)
        PROVE  /\ mu' \in Clients \cup {NoClient}
               /\ pc' \in [Clients -> Steps]
               /\ prior' \in [Clients -> SUBSET Ids]
               /\ found' \in [Clients -> SUBSET RelationCandidate]
               /\ evidence' \in [Clients -> WriteEvidence]
    BY <2>c DEF Return, TypeOK
  <2>1. ASSUME NEW id \in Ids, Cancel(id) PROVE TypeOK'
    BY <2>1 DEF Cancel, TypeOK
  <2>2. ASSUME NEW c \in Clients, NEW id \in Ids, CallSubmit(c, id) PROVE TypeOK'
    BY <2>2, <2>a DEF CallSubmit, Goto, TypeOK
  <2>3. ASSUME NEW c \in Clients, LockQueue(c) PROVE TypeOK'
    BY <2>3 DEF LockQueue, Goto, TypeOK
  <2>4. ASSUME NEW c \in Clients, TakeCancelled(c) PROVE TypeOK'
    <3>1. cancelled' \subseteq Ids /\ consumed' \subseteq Ids /\ onTime' \subseteq Ids
      BY <2>4 DEF TakeCancelled, TypeOK
    <3> QED
      BY <2>4, <2>c, <2>d, <3>1 DEF TakeCancelled, TypeOK
  <2>5. ASSUME NEW c \in Clients, NotCancelled(c) PROVE TypeOK'
    BY <2>5 DEF NotCancelled, Goto, TypeOK
  <2>6. ASSUME NEW c \in Clients, ApplyWrite(c) PROVE TypeOK'
    <3>1. Append(store, req[c]) \in Seq(Ids)
      BY AppendProperties DEF TypeOK
    <3>2. pc' \in [Clients -> Steps]
      BY <2>6 DEF ApplyWrite, Goto, TypeOK
    <3> QED
      BY <2>6, <3>1, <3>2 DEF ApplyWrite, TypeOK
  <2>7. ASSUME NEW c \in Clients, MarkConsumed(c) PROVE TypeOK'
    <3>a. consumed' \subseteq Ids
      BY <2>7 DEF MarkConsumed, TypeOK
    <3>1. CASE Goto(c, "applied", "listing") /\ UNCHANGED <<mu, evidence, prior, found>>
      BY <2>7, <3>1 DEF MarkConsumed, Goto, TypeOK
    <3>2. CASE Return(c, Verdict(WriteFailed, FALSE, {}))
      BY <2>7, <3>a, <3>2, <2>c, <2>d DEF MarkConsumed, TypeOK
    <3> QED
      BY <2>7, <3>1, <3>2 DEF MarkConsumed
  <2>8. ASSUME NEW c \in Clients, ListPrior(c) PROVE TypeOK'
    <3>1. CASE Goto(c, "listing", "detecting") /\ UNCHANGED <<mu, evidence, found>>
               /\ prior' = [prior EXCEPT ![c] = PriorMemoriesExcluding(req[c])]
      BY <2>8, <3>1, RangeOfSeq DEF ListPrior, Goto, TypeOK, PriorMemoriesExcluding
    <3>2. CASE Return(c, RelationFailure)
      BY <2>8, <3>2, <2>a, <2>c DEF ListPrior, TypeOK
    <3> QED
      BY <2>8, <3>1, <3>2 DEF ListPrior
  <2>9. ASSUME NEW c \in Clients, SkipDetect(c) PROVE TypeOK'
    BY <2>9, <2>b, <2>c DEF SkipDetect, TypeOK
  <2>10. ASSUME NEW c \in Clients, DetectFailed(c) PROVE TypeOK'
    BY <2>10, <2>a, <2>c DEF DetectFailed, TypeOK
  <2>11. ASSUME NEW c \in Clients, Detect(c) PROVE TypeOK'
    <3> PICK cands \in SUBSET Detectable(req[c], prior[c]) :
          IF cands = {}
            THEN pc[c] = "detecting" /\ Return(c, Verdict(Complete, TRUE, {}))
            ELSE /\ Goto(c, "detecting", "saving")
                 /\ found' = [found EXCEPT ![c] = WithDefaultRelationEvidenceIDs(cands)]
                 /\ UNCHANGED <<mu, prior, evidence>>
      BY <2>11 DEF Detect
    <3>1. CASE cands = {}
      BY <2>11, <3>1, <2>b, <2>c DEF Detect, TypeOK
    <3>2. CASE cands # {}
      <4>1. WithDefaultRelationEvidenceIDs(cands) \subseteq RelationCandidate
        BY <2>11, DefaultedCandidates DEF TypeOK
      <4>2. found' \in [Clients -> SUBSET RelationCandidate]
        BY <3>2, <4>1 DEF TypeOK
      <4>3. pc' \in [Clients -> Steps] /\ UNCHANGED <<mu, prior, evidence>>
        BY <3>2 DEF Goto, TypeOK
      <4> QED
        BY <2>11, <4>2, <4>3 DEF Detect, TypeOK
    <3> QED
      BY <3>1, <3>2
  <2>12. ASSUME NEW c \in Clients, SavePending(c) PROVE TypeOK'
    <3>1. CASE Return(c, RelationFailure) /\ UNCHANGED relations
      BY <2>12, <3>1, <2>a, <2>c DEF SavePending, TypeOK
    <3>2. CASE /\ Return(c, Verdict(Complete, TRUE, found[c]))
               /\ relations' = IF seams.relations THEN relations \cup found[c] ELSE relations
      BY <2>12, <3>2, <2>b, <2>c DEF SavePending, TypeOK
    <3> QED
      BY <2>12, <3>1, <3>2 DEF SavePending
  <2>13. CASE UNCHANGED vars
    BY <2>13 DEF vars, TypeOK
  <2> QED
    BY <2>1, <2>2, <2>3, <2>4, <2>5, <2>6, <2>7, <2>8, <2>9, <2>10, <2>11, <2>12,
       <2>13 DEF Next, SubmitStep
<1> QED
  BY <1>1, <1>2, PTL DEF Spec

-----------------------------------------------------------------------------
\* The mutex

\* Whoever is inside Submit holds the mutex, for any number of submitters.
THEOREM MutexHeld == Spec => []MutexOwnership
<1> USE DEF MutexOwnership
<1>1. Init => MutexOwnership
  BY ConstAssumption DEF Init
<1>2. TypeOK /\ MutexOwnership /\ [Next]_vars => MutexOwnership'
  <2> SUFFICES ASSUME TypeOK, MutexOwnership, [Next]_vars PROVE MutexOwnership'
    OBVIOUS
  <2> USE DEF TypeOK
  <2>a. ASSUME NEW c \in Clients, NEW v, Return(c, v), pc[c] \notin {"idle", "waiting"}
        PROVE  MutexOwnership'
    BY ConstAssumption, <2>a DEF Return
  <2>b. ASSUME NEW c \in Clients, NEW from \in Steps \ {"idle", "waiting"},
               NEW to \in Steps \ {"idle", "waiting"}, Goto(c, from, to), UNCHANGED mu
        PROVE  MutexOwnership'
    BY <2>b DEF Goto
  <2>1. ASSUME NEW id \in Ids, Cancel(id) PROVE MutexOwnership'
    BY <2>1 DEF Cancel
  <2>2. ASSUME NEW c \in Clients, NEW id \in Ids, CallSubmit(c, id) PROVE MutexOwnership'
    BY <2>2 DEF CallSubmit, Goto
  <2>3. ASSUME NEW c \in Clients, LockQueue(c) PROVE MutexOwnership'
    BY <2>3, ConstAssumption DEF LockQueue, QueueFree, Goto
  <2>4. ASSUME NEW c \in Clients, SubmitStep(c) PROVE MutexOwnership'
    <3>1. CASE TakeCancelled(c)
      BY <3>1, <2>a DEF TakeCancelled
    <3>2. CASE NotCancelled(c)
      BY <3>2, <2>b DEF NotCancelled, Steps
    <3>3. CASE ApplyWrite(c)
      BY <3>3, <2>b DEF ApplyWrite, Steps
    <3>4. CASE MarkConsumed(c)
      BY <3>4, <2>a, <2>b DEF MarkConsumed, Steps
    <3>5. CASE ListPrior(c)
      BY <3>5, <2>a, <2>b DEF ListPrior, Steps
    <3>6. CASE SkipDetect(c) \/ DetectFailed(c)
      BY <3>6, <2>a DEF SkipDetect, DetectFailed
    <3>7. CASE Detect(c)
      BY <3>7, <2>a, <2>b DEF Detect, Steps
    <3>8. CASE SavePending(c)
      BY <3>8, <2>a DEF SavePending
    <3> QED
      BY <2>4, <3>1, <3>2, <3>3, <3>4, <3>5, <3>6, <3>7, <3>8 DEF SubmitStep
  <2>5. CASE UNCHANGED vars
    BY <2>5 DEF vars
  <2> QED
    BY <2>1, <2>2, <2>3, <2>4, <2>5 DEF Next
<1> QED
  BY <1>1, <1>2, TypeCorrect, PTL DEF Spec

-----------------------------------------------------------------------------
\* Cancellation

\* An in-time cancellation stays pending until a Submit takes it.
OnTimePending == onTime \subseteq cancelled

\* A write whose cancellation was accepted before it began never begins.
THEOREM CancellationHonoured == Spec => []OnTimeCancelHonoured
<1> DEFINE I == OnTimePending /\ OnTimeCancelHonoured
<1> USE DEF OnTimePending, OnTimeCancelHonoured, Begun
<1>1. Init => I
  BY DEF Init
<1>2. TypeOK /\ I /\ [Next]_vars => I'
  <2> SUFFICES ASSUME TypeOK, I, [Next]_vars PROVE I'
    OBVIOUS
  <2> USE DEF TypeOK
  <2>a. ASSUME NEW c \in Clients, NEW v, Return(c, v),
               UNCHANGED <<cancelled, onTime, req>>
        PROVE  I'
    BY <2>a DEF Return
  <2>b. ASSUME NEW c \in Clients, NEW from \in Begun, NEW to, Goto(c, from, to),
               UNCHANGED <<cancelled, onTime, req>>
        PROVE  I'
    BY <2>b DEF Goto
  <2>1. ASSUME NEW id \in Ids, Cancel(id) PROVE I'
    BY <2>1 DEF Cancel, InSteps
  <2>2. ASSUME NEW c \in Clients, NEW id \in Ids, CallSubmit(c, id) PROVE I'
    BY <2>2 DEF CallSubmit, Goto
  <2>3. ASSUME NEW c \in Clients, LockQueue(c) PROVE I'
    BY <2>3 DEF LockQueue, Goto
  <2>4. ASSUME NEW c \in Clients, SubmitStep(c) PROVE I'
    <3>1. CASE TakeCancelled(c)
      BY <3>1 DEF TakeCancelled, Return
    <3>2. CASE NotCancelled(c)
      BY <3>2 DEF NotCancelled, PendingCancellation, Goto
    <3>3. CASE ApplyWrite(c)
      BY <3>3, <2>b DEF ApplyWrite
    <3>4. CASE MarkConsumed(c)
      BY <3>4, <2>a, <2>b DEF MarkConsumed
    <3>5. CASE ListPrior(c)
      BY <3>5, <2>a, <2>b DEF ListPrior
    <3>6. CASE SkipDetect(c) \/ DetectFailed(c)
      BY <3>6, <2>a DEF SkipDetect, DetectFailed
    <3>7. CASE Detect(c)
      BY <3>7, <2>a, <2>b DEF Detect
    <3>8. CASE SavePending(c)
      BY <3>8, <2>a DEF SavePending
    <3> QED
      BY <2>4, <3>1, <3>2, <3>3, <3>4, <3>5, <3>6, <3>7, <3>8 DEF SubmitStep
  <2>5. CASE UNCHANGED vars
    BY <2>5 DEF vars
  <2> QED
    BY <2>1, <2>2, <2>3, <2>4, <2>5 DEF Next
<1> QED
  BY <1>1, <1>2, TypeCorrect, PTL DEF Spec

-----------------------------------------------------------------------------
\* What the detector compares

\* Between Apply and the return, the memory just written is the newest one.
NewestIsOwn ==
  \A c \in Clients : pc[c] \in Authoritative => store # <<>> /\ store[Len(store)] = req[c]

\* The prior memories a detector is given are exactly the ones stored earlier.
THEOREM DetectorExact == Spec => []DetectorSeesEarlierWrites
<1> DEFINE I == NewestIsOwn /\ DetectorSeesEarlierWrites
<1> USE DEF NewestIsOwn, DetectorSeesEarlierWrites, Authoritative
<1>1. Init => I
  BY DEF Init
<1>2. TypeOK /\ MutexOwnership /\ I /\ [Next]_vars => I'
  <2> SUFFICES ASSUME TypeOK, MutexOwnership, I, [Next]_vars PROVE I'
    OBVIOUS
  <2> USE DEF TypeOK
  <2>a. ASSUME NEW c \in Clients, NEW v, Return(c, v), UNCHANGED <<store, req>>
        PROVE  I'
    BY <2>a DEF Return
  <2>1. ASSUME NEW id \in Ids, Cancel(id) PROVE I'
    BY <2>1 DEF Cancel
  <2>2. ASSUME NEW c \in Clients, NEW id \in Ids, CallSubmit(c, id) PROVE I'
    BY <2>2 DEF CallSubmit, Goto
  <2>3. ASSUME NEW c \in Clients, LockQueue(c) PROVE I'
    BY <2>3 DEF LockQueue, Goto
  <2>4. ASSUME NEW c \in Clients, SubmitStep(c) PROVE I'
    <3>1. CASE TakeCancelled(c)
      BY <3>1, <2>a DEF TakeCancelled
    <3>2. CASE NotCancelled(c)
      BY <3>2 DEF NotCancelled, Goto
    <3>3. CASE ApplyWrite(c)
      <4>1. CASE Goto(c, "applying", "applied") /\ store' = Append(store, req[c])
        <5>1. /\ store' # <<>>
              /\ store'[Len(store')] = req[c]
          BY <4>1, AppendProperties
        <5>2. \A d \in Clients \ {c} : pc[d] \in {"idle", "waiting"}
          BY <4>1 DEF MutexOwnership, Goto
        <5> QED
          BY <3>3, <4>1, <5>1, <5>2 DEF ApplyWrite, Goto
      <4>2. CASE Goto(c, "applying", "applyFailed") /\ UNCHANGED store
        BY <3>3, <4>2 DEF ApplyWrite, Goto
      <4> QED
        BY <3>3, <4>1, <4>2 DEF ApplyWrite
    <3>4. CASE MarkConsumed(c)
      BY <3>4, <2>a DEF MarkConsumed, Goto
    <3>5. CASE ListPrior(c)
      BY <3>5, <2>a DEF ListPrior, Goto, PriorMemoriesExcluding
    <3>6. CASE SkipDetect(c) \/ DetectFailed(c)
      BY <3>6, <2>a DEF SkipDetect, DetectFailed
    <3>7. CASE Detect(c)
      BY <3>7, <2>a DEF Detect, Goto
    <3>8. CASE SavePending(c)
      BY <3>8, <2>a DEF SavePending
    <3> QED
      BY <2>4, <3>1, <3>2, <3>3, <3>4, <3>5, <3>6, <3>7, <3>8 DEF SubmitStep
  <2>5. CASE UNCHANGED vars
    BY <2>5 DEF vars
  <2> QED
    BY <2>1, <2>2, <2>3, <2>4, <2>5 DEF Next
<1> QED
  BY <1>1, <1>2, TypeCorrect, MutexHeld, PTL DEF Spec

-----------------------------------------------------------------------------
\* Verdicts

\* A Submit past MarkConsumed has consumed its ID, and one that is not back
\* yet has no verdict.
ConsumedOnTheWay ==
  \A c \in Clients :
    /\ pc[c] \in {"listing", "detecting", "saving"} => req[c] \in consumed
    /\ pc[c] # "idle" => evidence[c] = NoVerdict

\* Every verdict leaves its ID consumed, so that Cancel refuses it for ever.
THEOREM VerdictsConsume == Spec => []VerdictConsumes
<1> DEFINE I == ConsumedOnTheWay /\ VerdictConsumes
<1> USE DEF ConsumedOnTheWay, VerdictConsumes
<1>0. NoVerdict.code = "none"
  BY DEF NoVerdict, Verdict
<1>1. Init => I
  BY <1>0 DEF Init
<1>2. TypeOK /\ I /\ [Next]_vars => I'
  <2> SUFFICES ASSUME TypeOK, I, [Next]_vars PROVE I'
    OBVIOUS
  <2> USE <1>0 DEF TypeOK
  <2>a. ASSUME NEW c \in Clients, NEW v, Return(c, v), UNCHANGED req,
               req[c] \in consumed', consumed \subseteq consumed'
        PROVE  I'
    BY <2>a DEF Return
  <2>1. ASSUME NEW id \in Ids, Cancel(id) PROVE I'
    BY <2>1 DEF Cancel
  <2>2. ASSUME NEW c \in Clients, NEW id \in Ids, CallSubmit(c, id) PROVE I'
    BY <2>2 DEF CallSubmit, Goto
  <2>3. ASSUME NEW c \in Clients, LockQueue(c) PROVE I'
    BY <2>3 DEF LockQueue, Goto
  <2>4. ASSUME NEW c \in Clients, SubmitStep(c) PROVE I'
    <3>1. CASE TakeCancelled(c)
      BY <3>1, <2>a DEF TakeCancelled
    <3>2. CASE NotCancelled(c)
      BY <3>2 DEF NotCancelled, Goto
    <3>3. CASE ApplyWrite(c)
      BY <3>3 DEF ApplyWrite, Goto
    <3>4. CASE MarkConsumed(c)
      <4>1. CASE Goto(c, "applied", "listing") /\ UNCHANGED <<mu, evidence, prior, found>>
        BY <3>4, <4>1 DEF MarkConsumed, Goto
      <4>2. CASE Return(c, Verdict(WriteFailed, FALSE, {}))
        BY <3>4, <4>2, <2>a DEF MarkConsumed
      <4> QED
        BY <3>4, <4>1, <4>2 DEF MarkConsumed
    <3>5. CASE ListPrior(c)
      BY <3>5, <2>a DEF ListPrior, Goto
    <3>6. CASE SkipDetect(c) \/ DetectFailed(c)
      BY <3>6, <2>a DEF SkipDetect, DetectFailed
    <3>7. CASE Detect(c)
      BY <3>7, <2>a DEF Detect, Goto
    <3>8. CASE SavePending(c)
      BY <3>8, <2>a DEF SavePending
    <3> QED
      BY <2>4, <3>1, <3>2, <3>3, <3>4, <3>5, <3>6, <3>7, <3>8 DEF SubmitStep
  <2>5. CASE UNCHANGED vars
    BY <2>5 DEF vars
  <2> QED
    BY <2>1, <2>2, <2>3, <2>4, <2>5 DEF Next
<1> QED
  BY <1>1, <1>2, TypeCorrect, PTL DEF Spec

-----------------------------------------------------------------------------
\* Relations

\* The candidates on their way to the store start at the memory just written,
\* end at an earlier one and carry evidence.
FoundBacked ==
  \A c \in Clients : \A r \in found[c] :
    /\ pc[c] = "saving"
    /\ r.from = req[c] /\ r.to \in prior[c] /\ r.evidence # {}

LEMMA FoundAreBacked == Spec => []FoundBacked
<1> USE DEF FoundBacked
<1>1. Init => FoundBacked
  BY DEF Init
<1>2. TypeOK /\ DetectorSeesEarlierWrites /\ FoundBacked /\ [Next]_vars => FoundBacked'
  <2> SUFFICES ASSUME TypeOK, DetectorSeesEarlierWrites, FoundBacked, [Next]_vars
               PROVE  FoundBacked'
    OBVIOUS
  <2> USE DEF TypeOK
  <2>a. ASSUME NEW c \in Clients, NEW v, Return(c, v), UNCHANGED req
        PROVE  FoundBacked'
    BY <2>a DEF Return
  <2>1. ASSUME NEW id \in Ids, Cancel(id) PROVE FoundBacked'
    BY <2>1 DEF Cancel
  <2>2. ASSUME NEW c \in Clients, NEW id \in Ids, CallSubmit(c, id) PROVE FoundBacked'
    BY <2>2 DEF CallSubmit, Goto
  <2>3. ASSUME NEW c \in Clients, LockQueue(c) PROVE FoundBacked'
    BY <2>3 DEF LockQueue, Goto
  <2>4. ASSUME NEW c \in Clients, SubmitStep(c) PROVE FoundBacked'
    <3>1. CASE TakeCancelled(c)
      BY <3>1, <2>a DEF TakeCancelled
    <3>2. CASE NotCancelled(c)
      BY <3>2 DEF NotCancelled, Goto
    <3>3. CASE ApplyWrite(c)
      BY <3>3 DEF ApplyWrite, Goto
    <3>4. CASE MarkConsumed(c)
      BY <3>4, <2>a DEF MarkConsumed, Goto
    <3>5. CASE ListPrior(c)
      BY <3>5, <2>a DEF ListPrior, Goto
    <3>6. CASE SkipDetect(c) \/ DetectFailed(c)
      BY <3>6, <2>a DEF SkipDetect, DetectFailed
    <3>7. CASE Detect(c)
      <4>1. PICK cands \in SUBSET Detectable(req[c], prior[c]) :
              IF cands = {}
                THEN pc[c] = "detecting" /\ Return(c, Verdict(Complete, TRUE, {}))
                ELSE /\ Goto(c, "detecting", "saving")
                     /\ found' = [found EXCEPT ![c] = WithDefaultRelationEvidenceIDs(cands)]
                     /\ UNCHANGED <<mu, prior, evidence>>
        BY <3>7 DEF Detect
      <4>2. CASE cands = {}
        BY <3>7, <4>1, <4>2, <2>a DEF Detect
      <4>3. CASE cands # {}
        <5>1. req[c] \notin prior[c] /\ req' = req
          BY <3>7, <4>1, <4>3 DEF Detect, Goto, DetectorSeesEarlierWrites
        <5>2. \A r \in WithDefaultRelationEvidenceIDs(cands) :
                r.from = req[c] /\ r.to \in prior[c] /\ r.evidence # {}
          BY <5>1, DefaultedCandidates, ConstAssumption
        <5> QED
          BY <4>1, <4>3, <5>1, <5>2 DEF Goto
      <4> QED
        BY <4>2, <4>3
    <3>8. CASE SavePending(c)
      BY <3>8, <2>a DEF SavePending
    <3> QED
      BY <2>4, <3>1, <3>2, <3>3, <3>4, <3>5, <3>6, <3>7, <3>8 DEF SubmitStep
  <2>5. CASE UNCHANGED vars
    BY <2>5 DEF vars
  <2> QED
    BY <2>1, <2>2, <2>3, <2>4, <2>5 DEF Next
<1> QED
  BY <1>1, <1>2, TypeCorrect, DetectorExact, PTL DEF Spec

\* Stored relations join stored memories and carry evidence, and candidates
\* returned as stored are stored.
THEOREM RelationsStored == Spec => []RelationsBacked
<1>1. Init => RelationsBacked
  BY DEF Init, NoVerdict, Verdict, RelationsBacked
<1>2. TypeOK /\ DetectorSeesEarlierWrites /\ FoundBacked /\ RelationsBacked /\ [Next]_vars
        => RelationsBacked'
  <2> SUFFICES ASSUME TypeOK, DetectorSeesEarlierWrites, FoundBacked,
                      RelationsBacked, [Next]_vars
               PROVE  RelationsBacked'
    OBVIOUS
  <2> USE DEF TypeOK
  <2>a. ASSUME UNCHANGED <<seams, store, relations, evidence>>
        PROVE  RelationsBacked'
    BY <2>a DEF RelationsBacked
  <2>b. ASSUME NEW c \in Clients, NEW code, NEW ok, Return(c, Verdict(code, ok, {})),
               UNCHANGED <<seams, store, relations>>
        PROVE  RelationsBacked'
    BY <2>b DEF Return, Verdict, RelationsBacked
  <2>1. ASSUME NEW id \in Ids, Cancel(id) PROVE RelationsBacked'
    BY <2>1, <2>a DEF Cancel
  <2>2. ASSUME NEW c \in Clients, NEW id \in Ids, CallSubmit(c, id) PROVE RelationsBacked'
    BY <2>2 DEF CallSubmit, NoVerdict, Verdict, RelationsBacked
  <2>3. ASSUME NEW c \in Clients, LockQueue(c) PROVE RelationsBacked'
    BY <2>3, <2>a DEF LockQueue
  <2>4. ASSUME NEW c \in Clients, SubmitStep(c) PROVE RelationsBacked'
    <3>1. CASE TakeCancelled(c)
      BY <3>1, <2>b DEF TakeCancelled
    <3>2. CASE NotCancelled(c)
      BY <3>2, <2>a DEF NotCancelled
    <3>3. CASE ApplyWrite(c)
      <4>1. Range(store) \subseteq Range(store')
        <5>1. req[c] \in Ids /\ store \in Seq(Ids)
          OBVIOUS
        <5>2. Range(Append(store, req[c])) = Range(store) \cup {req[c]}
          BY <5>1, RangeAppend
        <5> QED
          BY <3>3, <5>2 DEF ApplyWrite
      <4> QED
        BY <3>3, <4>1 DEF ApplyWrite, RelationsBacked
    <3>4. CASE MarkConsumed(c)
      BY <3>4, <2>a, <2>b DEF MarkConsumed
    <3>5. CASE ListPrior(c)
      BY <3>5, <2>a, <2>b DEF ListPrior, RelationFailure
    <3>6. CASE SkipDetect(c) \/ DetectFailed(c)
      BY <3>6, <2>b DEF SkipDetect, DetectFailed, RelationFailure
    <3>7. CASE Detect(c)
      BY <3>7, <2>a, <2>b DEF Detect, RelationFailure
    <3>8. CASE SavePending(c)
      <4>1. CASE Return(c, RelationFailure) /\ UNCHANGED relations
        BY <3>8, <4>1, <2>b DEF SavePending, RelationFailure
      <4>2. CASE /\ Return(c, Verdict(Complete, TRUE, found[c]))
                 /\ relations' = IF seams.relations THEN relations \cup found[c] ELSE relations
        <5>1. /\ pc[c] = "saving"
              /\ store # <<>> /\ store[Len(store)] = req[c]
              /\ prior[c] = Range(store) \ {req[c]}
          BY <3>8 DEF SavePending, DetectorSeesEarlierWrites
        <5>2. req[c] \in Range(store)
          BY <5>1, LastInRange
        <5>3. \A r \in found[c] : /\ {r.from, r.to} \subseteq Range(store)
                                  /\ r.from # r.to
                                  /\ r.evidence # {}
          BY <5>1, <5>2 DEF FoundBacked
        <5>4. evidence' = [evidence EXCEPT ![c] = Verdict(Complete, TRUE, found[c])]
          BY <4>2 DEF Return
        <5>5. UNCHANGED <<seams, store>>
          BY <3>8 DEF SavePending
        <5>6. \A r \in relations' : /\ {r.from, r.to} \subseteq Range(store)
                                    /\ r.from # r.to
                                    /\ r.evidence # {}
          BY <4>2, <5>3 DEF RelationsBacked
        <5>7. seams.relations => \A d \in Clients : evidence'[d].candidates \subseteq relations'
          BY <4>2, <5>4 DEF RelationsBacked, Verdict
        <5> QED
          BY <5>5, <5>6, <5>7 DEF RelationsBacked
      <4> QED
        BY <3>8, <4>1, <4>2 DEF SavePending
    <3> QED
      BY <2>4, <3>1, <3>2, <3>3, <3>4, <3>5, <3>6, <3>7, <3>8 DEF SubmitStep
  <2>5. CASE UNCHANGED vars
    BY <2>5, <2>a DEF vars
  <2> QED
    BY <2>1, <2>2, <2>3, <2>4, <2>5 DEF Next
<1> QED
  BY <1>1, <1>2, TypeCorrect, DetectorExact, FoundAreBacked, PTL DEF Spec

-----------------------------------------------------------------------------
\* Refinement

\* The serialized queue implements the ledger: seen from outside, memories are
\* written one at a time, relations join the newest memory to older ones, and
\* no memory is written while its cancellation is owed.
THEOREM QueueImplementsLedger == Spec => ImplementsLedger
<1> DEFINE Links(R) == {<<r.from, r.to>> : r \in R}
<1>1. Init => Ledger!LedgerInit
  BY DEF Init, Ledger!LedgerInit
<1>2. /\ TypeOK /\ OnTimeCancelHonoured /\ DetectorSeesEarlierWrites
      /\ FoundBacked /\ [Next]_vars
      => [Ledger!LedgerNext]_(Ledger!ledgerVars)
  <2> SUFFICES ASSUME TypeOK, OnTimeCancelHonoured, DetectorSeesEarlierWrites,
                      FoundBacked, [Next]_vars
               PROVE  [Ledger!LedgerNext]_(Ledger!ledgerVars)
    OBVIOUS
  <2> USE DEF TypeOK
  <2>a. ASSUME UNCHANGED <<store, relations, onTime>>
        PROVE  [Ledger!LedgerNext]_(Ledger!ledgerVars)
    BY <2>a DEF Ledger!ledgerVars
  <2>1. ASSUME NEW id \in Ids, Cancel(id)
        PROVE  [Ledger!LedgerNext]_(Ledger!ledgerVars)
    <3>1. CASE onTime' = onTime
      BY <2>1, <3>1, <2>a DEF Cancel
    <3>2. CASE onTime' # onTime
      BY <2>1, <3>2 DEF Cancel, Ledger!LedgerNext, Ledger!Withdraw
    <3> QED
      BY <3>1, <3>2
  <2>2. ASSUME NEW c \in Clients, NEW id \in Ids, CallSubmit(c, id)
        PROVE  [Ledger!LedgerNext]_(Ledger!ledgerVars)
    BY <2>2, <2>a DEF CallSubmit
  <2>3. ASSUME NEW c \in Clients, LockQueue(c)
        PROVE  [Ledger!LedgerNext]_(Ledger!ledgerVars)
    BY <2>3, <2>a DEF LockQueue
  <2>4. ASSUME NEW c \in Clients, SubmitStep(c)
        PROVE  [Ledger!LedgerNext]_(Ledger!ledgerVars)
    <3>1. CASE TakeCancelled(c)
      <4>1. CASE req[c] \in onTime
        BY <3>1, <4>1 DEF TakeCancelled, Ledger!LedgerNext, Ledger!Refuse
      <4>2. CASE req[c] \notin onTime
        BY <3>1, <4>2, <2>a DEF TakeCancelled
      <4> QED
        BY <4>1, <4>2
    <3>2. CASE NotCancelled(c)
      BY <3>2, <2>a DEF NotCancelled
    <3>3. CASE ApplyWrite(c)
      <4>1. CASE Goto(c, "applying", "applied") /\ store' = Append(store, req[c])
        <5>1. req[c] \notin onTime
          BY <4>1 DEF Goto, OnTimeCancelHonoured, Begun
        <5> QED
          BY <3>3, <4>1, <5>1 DEF ApplyWrite, Ledger!LedgerNext, Ledger!Write
      <4>2. CASE UNCHANGED store
        BY <3>3, <4>2, <2>a DEF ApplyWrite
      <4> QED
        BY <3>3, <4>1, <4>2 DEF ApplyWrite
    <3>4. CASE MarkConsumed(c)
      BY <3>4, <2>a DEF MarkConsumed
    <3>5. CASE ListPrior(c)
      BY <3>5, <2>a DEF ListPrior
    <3>6. CASE SkipDetect(c) \/ DetectFailed(c)
      BY <3>6, <2>a DEF SkipDetect, DetectFailed
    <3>7. CASE Detect(c)
      BY <3>7, <2>a DEF Detect
    <3>8. CASE SavePending(c)
      <4>1. CASE UNCHANGED relations
        BY <3>8, <4>1, <2>a DEF SavePending
      <4>2. CASE relations' = relations \cup found[c]
        <5>1. /\ store # <<>> /\ store[Len(store)] = req[c]
              /\ prior[c] = Range(store) \ {req[c]}
          BY <3>8 DEF SavePending, DetectorSeesEarlierWrites
        <5>2. Links(found[c]) \in
                SUBSET ({store[Len(store)]} \X Ledger!Older(store))
          BY <5>1 DEF FoundBacked, Ledger!Older, Ledger!Range, Range
        <5>3. Links(relations') = Links(relations) \cup Links(found[c])
          BY <4>2
        <5>4. Ledger!Relate
          BY <3>8, <5>1, <5>2, <5>3 DEF SavePending, Ledger!Relate
        <5> QED
          BY <5>4 DEF Ledger!LedgerNext
      <4> QED
        BY <3>8, <4>1, <4>2 DEF SavePending
    <3> QED
      BY <2>4, <3>1, <3>2, <3>3, <3>4, <3>5, <3>6, <3>7, <3>8 DEF SubmitStep
  <2>5. CASE UNCHANGED vars
    BY <2>5, <2>a DEF vars
  <2> QED
    BY <2>1, <2>2, <2>3, <2>4, <2>5 DEF Next
<1> QED
  BY <1>1, <1>2, TypeCorrect, CancellationHonoured, DetectorExact,
     FoundAreBacked, PTL DEF Spec, ImplementsLedger, Ledger!LedgerSpec
-----------------------------------------------------------------------------
\* The verdict tells the truth about its own attempt

\* Only a submitter's own step moves it, and it moves no other.
LEMMA OwnStep ==
  ASSUME TypeOK, [Next]_vars, NEW c \in Clients, pc'[c] # pc[c]
  PROVE  SubmitStep(c) \/ LockQueue(c) \/ \E id \in Ids : CallSubmit(c, id)
<1>1. pc \in [Clients -> Steps]
  BY DEF TypeOK
<1>2. ASSUME NEW d \in Clients, d # c,
             SubmitStep(d) \/ LockQueue(d) \/ \E id \in Ids : CallSubmit(d, id)
      PROVE  FALSE
  BY <1>1, <1>2 DEF SubmitStep, TakeCancelled, NotCancelled, ApplyWrite, MarkConsumed, ListPrior,
                    SkipDetect, DetectFailed, Detect, SavePending, LockQueue, CallSubmit, Goto, Return
<1>3. ASSUME (\E id \in Ids : Cancel(id)) \/ UNCHANGED vars PROVE FALSE
  BY <1>3 DEF Cancel, vars
<1> QED
  BY <1>2, <1>3 DEF Next

\* The verdict a submitter leaves with says just whether its own write was
\* applied, for any number of submitters and whatever becomes of the relation
\* work (write_queue.go:36-43, 133-134).
THEOREM VerdictsTellTheWrite == Spec => VerdictTellsTheWrite
<1> DEFINE Told(c) == pc[c] # "idle" /\ pc'[c] = "idle" =>
                        (evidence'[c].writeOK <=> pc[c] \in Authoritative)
<1>1. ASSUME TypeOK, [Next]_vars, NEW c \in Clients PROVE Told(c)
  <2> SUFFICES ASSUME pc[c] # "idle", pc'[c] = "idle"
               PROVE  evidence'[c].writeOK <=> pc[c] \in Authoritative
    OBVIOUS
  <2>a. pc \in [Clients -> Steps] /\ evidence \in [Clients -> WriteEvidence]
    BY <1>1 DEF TypeOK
  <2>b. ASSUME NEW v, Return(c, v) PROVE evidence'[c] = v
    BY <2>a, <2>b DEF Return
  <2>c. ASSUME NEW from, NEW to, Goto(c, from, to), to # "idle" PROVE FALSE
    BY <2>a, <2>c DEF Goto
  <2>d. /\ Verdict(Cancelled, FALSE, {}).writeOK = FALSE
        /\ Verdict(WriteFailed, FALSE, {}).writeOK = FALSE
        /\ RelationFailure.writeOK = TRUE
        /\ \A cands : Verdict(Complete, TRUE, cands).writeOK = TRUE
    BY DEF RelationFailure, Verdict
  <2>1. CASE TakeCancelled(c)
    BY <2>1, <2>b, <2>d DEF TakeCancelled, Authoritative
  <2>2. CASE NotCancelled(c) \/ ApplyWrite(c)
    BY <2>2, <2>c DEF NotCancelled, ApplyWrite
  <2>3. CASE MarkConsumed(c)
    BY <2>3, <2>b, <2>c, <2>d DEF MarkConsumed, Authoritative
  <2>4. CASE ListPrior(c)
    BY <2>4, <2>b, <2>c, <2>d DEF ListPrior, Authoritative
  <2>5. CASE SkipDetect(c) \/ DetectFailed(c)
    BY <2>5, <2>b, <2>d DEF SkipDetect, DetectFailed, Authoritative
  <2>6. CASE Detect(c)
    <3>1. pc[c] = "detecting" /\ Return(c, Verdict(Complete, TRUE, {}))
      BY <2>6, <2>c DEF Detect, Goto
    <3> QED
      BY <3>1, <2>b, <2>d DEF Authoritative
  <2>7. CASE SavePending(c)
    BY <2>7, <2>b, <2>d DEF SavePending, Authoritative
  <2>8. CASE LockQueue(c) \/ \E id \in Ids : CallSubmit(c, id)
    BY <2>8, <2>c DEF LockQueue, CallSubmit
  <2> QED
    BY <1>1, <2>1, <2>2, <2>3, <2>4, <2>5, <2>6, <2>7, <2>8, OwnStep DEF SubmitStep
<1>2. TypeOK /\ [Next]_vars => [\A c \in Clients : Told(c)]_vars
  BY <1>1
<1> QED
  BY <1>2, TypeCorrect, PTL DEF Spec, VerdictTellsTheWrite
=============================================================================
