-------------------------- MODULE EmbeddingProofs --------------------------
(***************************************************************************)
(* What is proved of the embedding provider's circuit breaker and of the   *)
(* index of what it embeds: the two parts that unlock while they call the  *)
(* provider. For any callers, threshold and cooldown, and for any clients, *)
(* memories, texts, dimensions and bounds.                                 *)
(***************************************************************************)
EXTENDS CircuitBreaker, TLAPS

CONSTANTS Clients, Memories, Texts, Here, About, Searches, Dims, MaxCalls

VARIABLES conclusions, entries, dimensions, provider, disk, call, calls, unsaved, met

Index == INSTANCE VectorIndex

-----------------------------------------------------------------------------
\* The breaker

\* The inductive invariant: the count tells closed from not closed, and a
\* half-open circuit has cooled down.
BreakerInv ==
  /\ TypeOK
  /\ ClosedBelowThreshold
  /\ state = "half_open" => sinceOpened = Cooldown
  /\ state = "closed" => sinceOpened = 0

LEMMA InvInit == BreakerAssumption /\ Init => BreakerInv
BY DEF BreakerAssumption, Init, BreakerInv, TypeOK, ClosedBelowThreshold

LEMMA InvInductive ==
  ASSUME BreakerAssumption, BreakerInv, [Next]_vars
  PROVE  BreakerInv'
<1> USE DEF BreakerAssumption, BreakerInv, TypeOK, ClosedBelowThreshold
<1>1. ASSUME NEW c \in Callers, Admit(c)
      PROVE  BreakerInv'
  BY <1>1 DEF Admit, Cooling, KeepFailures
<1>2. ASSUME NEW c \in Callers, Refuse(c)
      PROVE  BreakerInv'
  BY <1>2 DEF Refuse, Refusing, NoRecord, vars
<1>3. ASSUME NEW c \in Callers, Fail(c)
      PROVE  BreakerInv'
  BY <1>3 DEF Fail, Trips
<1>4. ASSUME NEW c \in Callers, Succeed(c)
      PROVE  BreakerInv'
  BY <1>4 DEF Succeed, Cleared
<1>5. CASE Tick
  BY <1>5 DEF Tick, Cooling
<1>6. CASE UNCHANGED vars
  BY <1>6 DEF vars
<1> QED
  BY <1>1, <1>2, <1>3, <1>4, <1>5, <1>6 DEF Next

LEMMA AlwaysInv == Spec => []BreakerInv
<1> USE BreakerAssumption
<1> QED
  BY InvInit, InvInductive, PTL DEF Spec

\* The breaker's fields keep their types.
THEOREM TypeCorrect == Spec => []TypeOK
<1>1. BreakerInv => TypeOK
  BY DEF BreakerInv
<1> QED
  BY <1>1, AlwaysInv, PTL

\* The circuit is closed exactly below the threshold: half-open failures
\* reopen it by the count alone.
THEOREM CountDecides == Spec => []ClosedBelowThreshold
<1>1. BreakerInv => ClosedBelowThreshold
  BY DEF BreakerInv
<1> QED
  BY <1>1, AlwaysInv, PTL

\* The health foretells what the next call meets, in any order of the outcomes: an open
\* or half-open circuit keeps its failures, so the provider is never told healthy then.
THEOREM HealthIsTrue == Spec => []HealthForetells
<1>1. ASSUME BreakerInv
      PROVE  HealthForetells
  <2> USE <1>1, BreakerAssumption DEF BreakerAssumption, BreakerInv, TypeOK, ClosedBelowThreshold
  <2>1. Refusing <=> Health.retry > 0
    BY DEF Refusing, Cooling, Health, Told
  <2>2. \/ state = "closed" /\ failureCount = 0
        \/ \E w \in ProviderWarnings(Diagnostics(TRUE)) : w.provider = "embedding" /\ w.error
    <3>1. failureCount = 0 \/ failureCount > 0
      OBVIOUS
    <3>2. CASE failureCount = 0
      <4>1. state = "closed"
        BY <3>2
      <4> QED
        BY <3>2, <4>1
    <3>3. CASE failureCount > 0
      <4> DEFINE told == Diagnostics(TRUE)
                 w == [provider |-> "embedding", status |-> told["embedding"].status,
                       error |-> told["embedding"].error]
      <4>1. told["embedding"] = Health /\ "embedding" \in Kinds
        BY DEF Diagnostics, Kinds
      <4> HIDE DEF told
      <4>a. Health = Told("degraded")
        BY <3>3 DEF Health
      <4>b. Told("degraded").status = "degraded" /\ Told("degraded").error = (failureCount > 0)
        BY Zenon DEF Told
      <4>c. (failureCount > 0) = TRUE
        BY <3>3
      <4>2. told["embedding"].status = "degraded"
        BY <4>1, <4>a, <4>b, Zenon
      <4>3. told["embedding"].error = TRUE
        BY <4>1, <4>a, <4>b, <4>c, Zenon
      <4>4. w \in ProviderWarnings(told)
        BY <4>1, <4>2, Zenon DEF ProviderWarnings
      <4>5. w.provider = "embedding" /\ w.error
        BY <4>3, Zenon
      <4>6. \E v \in ProviderWarnings(told) : v.provider = "embedding" /\ v.error
        <5> HIDE DEF w
        <5> QED
          BY <4>4, <4>5, Zenon
      <4> QED
        BY <4>6, Zenon DEF told
    <3> QED
      BY <3>1, <3>2, <3>3
  <2>3. ASSUME NEW store \in BOOLEAN, NEW w \in ProviderWarnings(Diagnostics(store))
        PROVE  w.status = "disabled" <=> w.provider # "embedding" \/ ~store
    <3>1. Health.status # "disabled" /\ Disabled.status = "disabled"
      BY DEF Health, Told, Disabled
    <3>2. PICK k \in Kinds : /\ w.provider = k
                             /\ w.status = Diagnostics(store)[k].status
      BY DEF ProviderWarnings
    <3>3. Diagnostics(store)[k] = IF k = "embedding" /\ store THEN Health ELSE Disabled
      BY DEF Diagnostics
    <3> QED
      BY <3>1, <3>2, <3>3
  <2> QED
    BY <2>1, <2>2, <2>3 DEF HealthForetells
<1> QED
  BY <1>1, AlwaysInv, PTL

-----------------------------------------------------------------------------
\* The breaker implements the shield

LEMMA ShieldStep ==
  ASSUME BreakerAssumption, BreakerInv, [Next]_vars
  PROVE  [Shield!Next]_(Shield!vars)
<1> USE DEF BreakerAssumption, BreakerInv, TypeOK, ClosedBelowThreshold
<1>a. Shield!Refusing <=> state = "open" /\ Cooling
  BY DEF Shield!Refusing, Cooling
<1>1. ASSUME NEW c \in Callers, Admit(c)
      PROVE  Shield!Admit(c)
  BY <1>1, <1>a DEF Admit, KeepFailures, Shield!Admit
<1>2. ASSUME NEW c \in Callers, Refuse(c)
      PROVE  Shield!Refuse(c)
  BY <1>2, <1>a DEF Refuse, Refusing, NoRecord, vars, Shield!Refuse, Shield!vars
<1>3. ASSUME NEW c \in Callers, Fail(c)
      PROVE  Shield!Fail(c)
  BY <1>3 DEF Fail, Trips, Shield!Fail
<1>4. ASSUME NEW c \in Callers, Succeed(c)
      PROVE  Shield!Succeed(c)
  BY <1>4 DEF Succeed, Cleared, Shield!Succeed
<1>5. ASSUME Tick
      PROVE  Shield!Tick
  BY <1>5, <1>a DEF Tick, Shield!Tick
<1>6. CASE UNCHANGED vars
  BY <1>6 DEF vars, Shield!vars
<1> QED
  BY <1>1, <1>2, <1>3, <1>4, <1>5, <1>6 DEF Next, Shield!Next

\* Every behaviour of the breaker is one of the two-state shield: a call is
\* refused exactly while a full streak of failures is younger than the
\* cooldown.
THEOREM RefinesShield == Spec => ImplementsShield
<1>1. Init => Shield!Init
  BY DEF Init, Shield!Init
<1>2. BreakerInv /\ [Next]_vars => [Shield!Next]_(Shield!vars)
  BY BreakerAssumption, ShieldStep
<1> QED
  BY <1>1, <1>2, AlwaysInv, PTL DEF Spec, ImplementsShield, Shield!Spec

-----------------------------------------------------------------------------
\* The index

Walking == {"reindex", "embedded", "summarize"}

\* What the calls work on are memories.
Shaped ==
  /\ entries = [m \in Memories |-> entries[m]] /\ call = [c \in Clients |-> call[c]]
  /\ disk = [entries |-> disk.entries, dimensions |-> disk.dimensions]
  /\ disk.entries = [m \in Memories |-> disk.entries[m]]
  /\ \A c \in Clients :
       /\ call[c].at = "upsert" => call[c].memory \in Memories
       /\ call[c].at \in Walking =>
            DOMAIN call[c].list \subseteq Index!Own /\ call[c].done \subseteq DOMAIN call[c].list

\* Memory and file agree after a save that succeeded.
Saved == unsaved \/ (disk.entries = entries /\ disk.dimensions = dimensions)

\* A vector of the text, or one that stands for it.
Indexed(m, text) == entries[m] = text \/ Index!StoodFor(m, text, entries)

\* A reindex that met nobody has left behind it what it was to write, and ends when
\* nothing is ahead.
Walked ==
  /\ met \/ \A c \in Clients : call[c].at \in Walking =>
       \A m \in call[c].done : Indexed(m, call[c].list[m])
  /\ \A c \in Clients : call[c].at = "summarize" => DOMAIN call[c].list \subseteq call[c].done

IndexInv == Shaped /\ Saved /\ Walked

\* A call that goes on keeps the shape of the others.
LEMMA GoingOn ==
  ASSUME Shaped, NEW c \in Clients, NEW k, Index!Goto(c, k)
  PROVE  call' = [d \in Clients |-> call'[d]] /\ call'[c] = k
           /\ \A d \in Clients \ {c} : call'[d] = call[d]
BY DEF Index!Goto, Shaped

LEMMA AtIdle == Index!Idle.at = "idle" /\ "idle" \notin Walking
BY DEF Index!Idle, Walking

\* A step of a call that leaves the index alone keeps the invariant if its next step has
\* the shape and, on its walk, left nothing out.
LEMMA StepKeeps ==
  ASSUME IndexInv, NEW c \in Clients, NEW k, Index!Goto(c, k), UNCHANGED Index!indexVars, met => met',
         k.at = "upsert" => k.memory \in Memories,
         k.at \in Walking =>
           /\ DOMAIN k.list \subseteq Index!Own /\ k.done \subseteq DOMAIN k.list
           /\ met' \/ \A m \in k.done : Indexed(m, k.list[m]),
         k.at = "summarize" => DOMAIN k.list \subseteq k.done
  PROVE  IndexInv'
<1>1. call' = [d \in Clients |-> call'[d]] /\ call'[c] = k
        /\ \A d \in Clients \ {c} : call'[d] = call[d]
  BY GoingOn DEF IndexInv
<1>2. Shaped'
  BY <1>1 DEF IndexInv, Shaped, Index!indexVars
<1>3. Saved'
  BY DEF IndexInv, Saved, Index!indexVars
<1>4. Walked'
  BY <1>1 DEF IndexInv, Walked, Index!indexVars, Indexed, Index!StoodFor
<1> QED
  BY <1>2, <1>3, <1>4 DEF IndexInv

\* The steps under the lock: of an upsert, which ends, and of a reindex, which has
\* written one text more, or ends.
LEMMA LockedKeeps ==
  ASSUME IndexInv, NEW c \in Clients, NEW m \in Memories, NEW text, NEW done,
         Index!Locked(c, m, text, done, Index!Idle),
         \/ done = Index!Idle
         \/ /\ call[c].at = "embedded" /\ m \in DOMAIN call[c].list
            /\ text = call[c].list[m]
            /\ done = Index!Reindexing("reindex", call[c].list, call[c].done \cup {m})
  PROVE  IndexInv'
<1>1. CASE ~Index!FitsDimensions
  <2>1. Index!Goto(c, Index!Idle) /\ UNCHANGED Index!indexVars
    BY <1>1 DEF Index!Locked
  <2>2. met => met'
    BY DEF Index!Locked
  <2> QED
    BY <2>1, <2>2, StepKeeps, AtIdle
<1>2. CASE Index!FitsDimensions
  <2>1. PICK ok \in BOOLEAN : Index!Saves([entries EXCEPT ![m] = text], provider, ok) /\ Index!Goto(c, IF ok THEN done ELSE Index!Idle)
    BY <1>2 DEF Index!Locked
  <2>2. met' = (met \/ \E d \in Clients \ {c} : call[d] # Index!Idle)
    BY DEF Index!Locked
  <2>3. call' = [d \in Clients |-> call'[d]] /\ call'[c] = (IF ok THEN done ELSE Index!Idle)
          /\ \A d \in Clients \ {c} : call'[d] = call[d]
    BY <2>1, GoingOn DEF IndexInv
  <2>4. /\ entries' = [n \in Memories |-> entries'[n]] /\ entries'[m] = text
        /\ \A n \in Memories \ {m} : entries'[n] = entries[n]
    BY <2>1 DEF Index!Saves, IndexInv, Shaped
  <2>5. Saved' /\ disk' = [entries |-> disk'.entries, dimensions |-> disk'.dimensions]
          /\ disk'.entries = [n \in Memories |-> disk'.entries[n]]
    BY <2>1, <2>4 DEF Index!Saves, IndexInv, Shaped, Saved
  <2>6. call'[c].at \in Walking =>
          /\ call'[c].at = "reindex" /\ call[c].at \in Walking
          /\ m \in DOMAIN call[c].list /\ text = call[c].list[m]
          /\ call'[c].list = call[c].list /\ call'[c].done = call[c].done \cup {m}
    BY <2>3, AtIdle DEF Index!Reindexing, Walking
  <2>7. Shaped'
    <3>1. call'[c].at # "upsert"
      BY <2>3, AtIdle DEF Index!Reindexing
    <3> QED
      BY <3>1, <2>3, <2>4, <2>5, <2>6 DEF Shaped, IndexInv
  <2>8. met' \/ \A d \in Clients : call'[d].at \in Walking =>
          \A n \in call'[d].done : Indexed(n, call[d].list[n])'
    <3> SUFFICES ASSUME ~met', NEW d \in Clients, call'[d].at \in Walking, NEW n \in call'[d].done
                 PROVE  Indexed(n, call[d].list[n])'
      OBVIOUS
    <3>1. d = c
      BY <2>2, <2>3, AtIdle
    <3>2. CASE n = m
      BY <3>1, <3>2, <2>4, <2>6 DEF Indexed
    <3>3. CASE n # m
      <4>1. n \in call[c].done /\ n \in Memories /\ m \in Index!Own
        BY <3>1, <3>3, <2>6 DEF IndexInv, Shaped, Index!Own
      <4>2. Indexed(n, call[c].list[n])
        BY <4>1, <2>2, <2>6, <3>1 DEF IndexInv, Walked
      <4>3. entries'[n] = entries[n] /\ \A o \in Memories \ Index!Own : entries'[o] = entries[o]
        BY <4>1, <3>3, <2>4
      <4> QED
        BY <4>2, <4>3, <3>1, <2>6 DEF Indexed, Index!StoodFor
    <3> QED
      BY <3>2, <3>3
  <2>9. \A d \in Clients : call'[d].at = "summarize" => DOMAIN call'[d].list \subseteq call'[d].done
    BY <2>3, <2>6 DEF IndexInv, Walked, Walking
  <2> QED
    BY <2>5, <2>7, <2>8, <2>9 DEF IndexInv, Walked
<1> QED
  BY <1>1, <1>2

LEMMA IndexInvInductive == IndexInv /\ [Index!Next]_(Index!vars) => IndexInv'
<1> SUFFICES ASSUME IndexInv, [Index!Next]_(Index!vars) PROVE IndexInv'
  OBVIOUS
<1>1. CASE Index!Restart
  BY <1>1, AtIdle DEF Index!Restart, IndexInv, Shaped, Saved, Walked
<1>2. ASSUME NEW c \in Clients, Index!BeginUpsert(c) PROVE IndexInv'
  <2>1. PICK m \in Memories, text \in Texts : Index!Goto(c, [at |-> "upsert", memory |-> m, text |-> text])
    BY <1>2 DEF Index!BeginUpsert, Index!Begin
  <2> QED
    BY <1>2, <2>1, StepKeeps DEF Index!BeginUpsert, Walking
<1>3. ASSUME NEW c \in Clients, Index!Upsert(c) PROVE IndexInv'
  <2>1. call[c].memory \in Memories /\ Index!Locked(c, call[c].memory, call[c].text, Index!Idle, Index!Idle)
    BY <1>3 DEF Index!Upsert, IndexInv, Shaped
  <2> QED
    BY <2>1, LockedKeeps
<1>4. ASSUME NEW c \in Clients, Index!BeginReindex(c) PROVE IndexInv'
  <2> DEFINE k == Index!Reindexing("reindex", [m \in {n \in Index!Own : conclusions[n] # Index!None} |-> conclusions[m]], {})
  <2>1. Index!Goto(c, k) /\ UNCHANGED Index!indexVars /\ (met => met')
    BY <1>4 DEF Index!BeginReindex, Index!Begin
  <2>2. k.at = "reindex" /\ DOMAIN k.list \subseteq Index!Own /\ k.done = {}
    BY DEF Index!Reindexing
  <2> QED
    BY <2>1, <2>2, StepKeeps
<1>5. ASSUME NEW c \in Clients, Index!Check(c) PROVE IndexInv'
  <2>1. /\ call[c].at = "reindex" /\ UNCHANGED Index!indexVars /\ met' = met
        /\ DOMAIN call[c].list \subseteq Index!Own /\ call[c].done \subseteq DOMAIN call[c].list
        /\ met \/ \A m \in call[c].done : Indexed(m, call[c].list[m])
    BY <1>5 DEF Index!Check, IndexInv, Shaped, Walked, Walking
  <2>2. CASE Index!Ahead(call[c]) = {} /\ Index!Goto(c, Index!Reindexing("summarize", call[c].list, call[c].done))
    BY <2>1, <2>2, StepKeeps DEF Index!Ahead, Index!Reindexing
  <2>3. ASSUME NEW m \in Memories, Index!IsNext(call[c], m), Index!Fresh(m, call[c].list[m]),
               Index!Goto(c, Index!Reindexing("reindex", call[c].list, call[c].done \cup {m}))
        PROVE  IndexInv'
    <3>1. Indexed(m, call[c].list[m])
      BY <2>3 DEF Index!Fresh, Index!Namesakes, Indexed, Index!StoodFor
    <3> QED
      BY <2>1, <2>3, <3>1, StepKeeps DEF Index!IsNext, Index!Ahead, Index!Reindexing
  <2>4. CASE Index!Goto(c, Index!Reindexing("embedded", call[c].list, call[c].done))
    BY <2>1, <2>4, StepKeeps DEF Index!Reindexing
  <2> QED
    BY <1>5, <2>2, <2>3, <2>4 DEF Index!Check
<1>6. ASSUME NEW c \in Clients, Index!Index(c) PROVE IndexInv'
  <2>1. PICK m \in Memories :
          /\ call[c].at = "embedded" /\ Index!IsNext(call[c], m)
          /\ Index!Locked(c, m, call[c].list[m], Index!Reindexing("reindex", call[c].list, call[c].done \cup {m}), Index!Idle)
    BY <1>6 DEF Index!Index
  <2>2. m \in DOMAIN call[c].list
    BY <2>1 DEF Index!IsNext, Index!Ahead
  <2> QED
    BY <2>1, <2>2, LockedKeeps
<1>7. ASSUME NEW c \in Clients, Index!Summarize(c) \/ Index!EmbedFails(c) PROVE IndexInv'
  <2>1. Index!Goto(c, Index!Idle) /\ UNCHANGED Index!indexVars /\ met' = met
    BY <1>7 DEF Index!Summarize, Index!EmbedFails
  <2> QED
    BY <2>1, StepKeeps, AtIdle
<1>8. ASSUME NEW c \in Clients, Index!Conclude(c) PROVE IndexInv'
  <2>1. UNCHANGED <<entries, dimensions, disk, unsaved, provider, call, met>>
    BY <1>8 DEF Index!Conclude, Index!indexVars
  <2> QED
    BY <2>1 DEF IndexInv, Shaped, Saved, Walked, Indexed, Index!StoodFor
<1>9. CASE UNCHANGED Index!vars
  BY <1>9 DEF Index!vars, IndexInv, Shaped, Saved, Walked, Index!indexVars, Indexed, Index!StoodFor
<1> QED
  BY <1>1, <1>2, <1>3, <1>4, <1>5, <1>6, <1>7, <1>8, <1>9 DEF Index!Next

LEMMA IndexInvInit == Index!Init => IndexInv
BY AtIdle DEF Index!Init, Index!Empty, IndexInv, Shaped, Saved, Walked

LEMMA IndexInvAlways == Index!Spec => []IndexInv
BY IndexInvInit, IndexInvInductive, PTL DEF Index!Spec

\* A reindex that reports no failure is on disk, but for a failed save or another call:
\* what it walked is in memory, and memory is what was saved.
THEOREM ReindexIsOnDisk == Index!Spec => []Index!ReindexPersists
<1>1. IndexInv => Index!ReindexPersists
  BY DEF IndexInv, Saved, Walked, Walking, Indexed, Index!ReindexPersists
<1> QED
  BY <1>1, IndexInvAlways, PTL

\* A restart changes no answer of the index, whatever is asked for, but for a failed save.
THEOREM RestartsAnswerAlike == Index!Spec => []Index!AnswersSurvive
<1>1. IndexInv => Index!AnswersSurvive
  BY DEF IndexInv, Saved, Index!AnswersSurvive
<1> QED
  BY <1>1, IndexInvAlways, PTL
=============================================================================
