------------------------ MODULE DreamSchedulerProofs ------------------------
(***************************************************************************)
(* Proofs about the dream scheduler, for any number of schedulers,         *)
(* writers, peers, conclusions and dreams.                                 *)
(***************************************************************************)
EXTENDS DreamScheduler, FiniteSetTheorems, SequenceTheorems, WellFoundedInduction, TLAPS

-----------------------------------------------------------------------------
\* The maximum of a set of numbers

LessThan == {ss \in Nat \X Nat : ss[1] < ss[2]}

LEMMA LessThanWellFounded == IsWellFoundedOn(LessThan, Nat)
BY NatLessThanWellFounded DEF OpToRel, LessThan

\* A non-empty set of bounded numbers has a greatest one: Max finds it.
LEMMA MaxOf ==
  ASSUME NEW n \in Nat, NEW S \in SUBSET (0..n), S # {}
  PROVE  Max(S) \in S /\ \A y \in S : y <= Max(S)
<1> DEFINE Bounds == {b \in Nat : \A y \in S : y <= b}
<1>1. n \in Bounds
  OBVIOUS
<1> HIDE DEF Bounds
<1>2. Bounds \subseteq Nat /\ Bounds # {}
  BY <1>1 DEF Bounds
<1>3. PICK m \in Bounds : \A b \in Bounds : ~(<<b, m>> \in LessThan)
  <2> HIDE DEF LessThan
  <2> QED BY <1>2, LessThanWellFounded, WFMin
<1>4. \A b \in Bounds : ~(b < m)
  BY <1>2, <1>3 DEF LessThan
<1>5. m \in S
  <2> SUFFICES ASSUME m \notin S PROVE FALSE
    OBVIOUS
  <2>1. PICK x \in S : TRUE
    OBVIOUS
  <2>2. \A y \in S : y <= m /\ y # m /\ y \in Nat
    BY DEF Bounds
  <2>3. m - 1 \in Nat /\ \A y \in S : y <= m - 1
    BY <1>2, <2>1, <2>2
  <2> QED
    BY <1>2, <1>4, <2>3 DEF Bounds
<1>6. \E x \in S : \A y \in S : x >= y
  BY <1>5 DEF Bounds
<1> QED
  BY <1>6 DEF Max

-----------------------------------------------------------------------------
\* Type correctness

IdleCall == [at : {"idle"}]
LatestCall == [at : {"latest"}, observer : Observers, peer : Peers, manual : BOOLEAN,
               now : Times]
CountingCall == [at : {"counting"}, observer : Observers, peer : Peers, manual : BOOLEAN,
                 now : Times, mark : Nat, cool : Nat]
ReadyCall == [at : {"inserting", "finding"}, observer : Observers, peer : Peers,
              manual : BOOLEAN, now : Times, elig : Eligibility]
WriteCall == [at : {"upserting", "cancelling"}, observer : Observers, peer : Peers,
              content : Contents, now : Times]

\* The types of every variable; a row's id never exceeds the sequence.
Typed ==
  /\ host \in [enabled : BOOLEAN, table : BOOLEAN]
  /\ clock \in Times
  /\ conclusions \subseteq Conclusion /\ IsFiniteSet(conclusions)
  /\ lastId \in Nat
  /\ \A c \in conclusions : c.id \in 1..lastId
  /\ dreams \in Seq(Dream)
  /\ sched \in [Schedulers -> IdleCall \cup LatestCall \cup CountingCall \cup ReadyCall]
  /\ write \in [Writers -> IdleCall \cup WriteCall]

\* Rewriting a dream's status and times leaves a dream.
LEMMA DreamUpdate ==
  ASSUME NEW d \in Dream, NEW st \in Statuses, NEW t \in Times, NEW done \in Nat,
         NEW cool \in Nat
  PROVE  /\ [d EXCEPT !.status = st, !.updated = t] \in Dream
         /\ [d EXCEPT !.status = st, !.updated = t, !.done = done, !.cool = cool] \in Dream
BY DEF Dream

LEMMA TypedTypeOK == Typed => TypeOK
<1> SUFFICES ASSUME Typed PROVE TypeOK
  OBVIOUS
<1>1. \A d \in DOMAIN dreams : dreams[d] \in Dream
  BY DEF Typed
<1>2. \A s \in Schedulers : sched[s].at \in {"idle", "latest", "counting", "inserting", "finding"}
  BY DEF Typed, IdleCall, LatestCall, CountingCall, ReadyCall
<1>3. \A w \in Writers : write[w].at \in {"idle", "upserting", "cancelling"}
  BY DEF Typed, IdleCall, WriteCall
<1> QED
  BY <1>1, <1>2, <1>3 DEF Typed, TypeOK

\* What the queries return.
LEMMA LatestTyped ==
  ASSUME ConfigAssumption, Typed, NEW o, NEW p
  PROVE  Watermark(o, p) \in Nat /\ CooldownUntil(o, p) \in Nat
<1>1. CASE LatestCompleted(o, p) = {}
  BY <1>1 DEF Watermark, CooldownUntil
<1>2. CASE LatestCompleted(o, p) # {}
  <2> DEFINE d == CHOOSE d \in LatestCompleted(o, p) : TRUE
  <2>1. d \in DOMAIN dreams
    BY <1>2 DEF LatestCompleted
  <2>2. dreams[d] \in Dream
    BY <2>1 DEF Typed
  <2> HIDE DEF d
  <2>3. /\ dreams[d].elig.last \in Nat /\ dreams[d].elig.act \in Nat
        /\ dreams[d].cool \in Nat /\ dreams[d].done \in Nat
    BY <2>2 DEF Dream, Eligibility
  <2>4. Watermark(o, p) = dreams[d].elig.last
    BY <1>2 DEF Watermark, d
  <2>5. CooldownUntil(o, p) \in {dreams[d].cool, dreams[d].done + Cooldown,
                                 dreams[d].elig.act + Cooldown}
    BY <1>2 DEF CooldownUntil, d
  <2> QED
    BY <2>3, <2>4, <2>5 DEF ConfigAssumption
<1> QED
  BY <1>1, <1>2

\* The eligibility counts rows of the table, and dates them by the youngest.
LEMMA EligibilityRead ==
  ASSUME ConfigAssumption, Typed, NEW o, NEW p, NEW mark \in Nat, NEW cool \in Nat
  PROVE  /\ ReadEligibility(o, p, mark, cool) \in Eligibility
         /\ ReadEligibility(o, p, mark, cool).covers \subseteq 1..lastId
         /\ \A c \in conclusions :
              c.id > mark /\ c.observer = o /\ c.peer = p
              => c.created <= ReadEligibility(o, p, mark, cool).act
<1> DEFINE rows == {c \in conclusions : c.observer = o /\ c.peer = p /\ c.id > mark}
           ids == {c.id : c \in rows}
           times == {c.created : c \in rows}
<1>1. \A c \in rows : c.id \in 1..lastId /\ c.created \in Times /\ c \in Conclusion
  BY DEF Typed, Conclusion
<1>2. ids \in SUBSET (0..lastId) /\ ids \in SUBSET Nat /\ ids \subseteq 1..lastId
  BY <1>1 DEF Typed
<1>3. times \in SUBSET (0..MaxClock) /\ MaxClock \in Nat
  BY <1>1 DEF Times, ConfigAssumption
<1>4. rows # {} => ids # {} /\ times # {}
  OBVIOUS
<1>5. lastId \in Nat
  BY DEF Typed
<1>6. rows # {} => Max(ids) \in Nat
  <2> HIDE DEF ids
  <2> QED BY <1>2, <1>4, <1>5, MaxOf
<1>7. rows # {} => Max(times) \in Nat /\ \A t \in times : t <= Max(times)
  <2> SUFFICES ASSUME rows # {}
               PROVE  Max(times) \in Nat /\ \A t \in times : t <= Max(times)
    OBVIOUS
  <2>1. times # {}
    BY <1>4
  <2> HIDE DEF times
  <2>2. Max(times) \in times /\ \A t \in times : t <= Max(times)
    BY <1>3, <2>1, MaxOf
  <2>3. Max(times) \in 0..MaxClock
    BY <1>3, <2>2
  <2> QED BY <2>2, <2>3
<1>8. Cardinality(rows) \in Nat
  BY FS_Subset, FS_CardinalityType DEF Typed
<1>9. ReadEligibility(o, p, mark, cool) =
        [count |-> Cardinality(rows), last |-> IF rows = {} THEN 0 ELSE Max(ids),
         act |-> IF rows = {} THEN 0 ELSE Max(times), cool |-> cool, covers |-> ids]
  BY DEF ReadEligibility, LastActivity
<1> HIDE DEF ids, times
<1>10. \A c \in rows : c.created \in times
  BY DEF times
<1> HIDE DEF rows
<1>11. ReadEligibility(o, p, mark, cool) \in Eligibility
  BY <1>2, <1>6, <1>7, <1>8, <1>9 DEF Eligibility
<1>12. \A c \in rows : c.created <= ReadEligibility(o, p, mark, cool).act
  BY <1>7, <1>9, <1>10
<1> QED
  BY <1>2, <1>9, <1>11, <1>12 DEF rows

\* Every step keeps the types.
LEMMA TypedInductive == ConfigAssumption /\ Typed /\ [Next]_vars => Typed'
<1> SUFFICES ASSUME ConfigAssumption, Typed, [Next]_vars PROVE Typed'
  OBVIOUS
<1> USE DEF Typed
<1>1. ASSUME NEW s \in Schedulers, NEW o \in Observers, NEW p \in Peers,
             NEW manual \in BOOLEAN, Schedule(s, o, p, manual)
      PROVE  Typed'
  BY <1>1 DEF Schedule, LatestCall
<1>2. ASSUME NEW s \in Schedulers, ReadLatest(s)
      PROVE  Typed'
  <2>1. sched[s] \in LatestCall
    BY <1>2 DEF ReadLatest, IdleCall, CountingCall, ReadyCall
  <2>2. sched'[s] \in CountingCall
    BY <1>2, <2>1, LatestTyped DEF ReadLatest, LatestCall, CountingCall
  <2> QED
    BY <1>2, <2>2 DEF ReadLatest
<1>3. ASSUME NEW s \in Schedulers, CountConclusions(s)
      PROVE  Typed'
  <2> DEFINE elig == ReadEligibility(sched[s].observer, sched[s].peer, sched[s].mark,
                                     sched[s].cool)
  <2>1. sched[s] \in CountingCall
    BY <1>3 DEF CountConclusions, IdleCall, LatestCall, ReadyCall
  <2>2. elig \in Eligibility
    BY <2>1, EligibilityRead DEF CountingCall
  <2> HIDE DEF elig
  <2>3. CASE sched' = [sched EXCEPT ![s] =
               [at |-> "inserting", observer |-> sched[s].observer, peer |-> sched[s].peer,
                manual |-> sched[s].manual, now |-> sched[s].now, elig |-> elig]]
    <3>1. sched'[s] \in ReadyCall
      BY <2>1, <2>2, <2>3 DEF CountingCall, ReadyCall
    <3> QED
      BY <1>3, <2>3, <3>1 DEF CountConclusions
  <2>4. CASE Return(s)
    BY <1>3, <2>4 DEF CountConclusions, Return, Idle, IdleCall
  <2> QED
    BY <1>3, <2>3, <2>4 DEF CountConclusions, elig
<1>4. ASSUME NEW s \in Schedulers, InsertIntent(s)
      PROVE  Typed'
  <2>1. sched[s] \in ReadyCall
    BY <1>4 DEF InsertIntent, IdleCall, LatestCall, CountingCall
  <2>2. NewDream(sched[s]) \in Dream
    BY <2>1 DEF NewDream, ReadyCall, Dream, Statuses, Eligibility
  <2>3. dreams' \in Seq(Dream)
    BY <1>4, <2>2, AppendProperties DEF InsertIntent
  <2> QED
    BY <1>4, <2>3 DEF InsertIntent, Return, Idle, IdleCall
<1>5. ASSUME NEW s \in Schedulers, InsertFails(s) \/ FindAfterFailure(s)
      PROVE  Typed'
  <2>1. sched[s] \in ReadyCall
    BY <1>5 DEF InsertFails, FindAfterFailure, IdleCall, LatestCall, CountingCall
  <2>2. sched' \in [Schedulers -> IdleCall \cup LatestCall \cup CountingCall \cup ReadyCall]
    BY SMTT(30), <1>5, <2>1 DEF InsertFails, FindAfterFailure, ReadyCall, Return, Idle, IdleCall
  <2> QED
    BY <1>5, <2>2 DEF InsertFails, FindAfterFailure
<1>6. ASSUME NEW w \in Writers, NEW o \in Observers, NEW p \in Peers,
             NEW content \in Contents, Conclude(w, o, p, content)
      PROVE  Typed'
  BY <1>6 DEF Conclude, WriteCall
<1>7. ASSUME NEW w \in Writers, UpsertConclusion(w)
      PROVE  Typed'
  <2>1. write[w] \in WriteCall
    BY <1>7 DEF UpsertConclusion, IdleCall
  <2>2. write' \in [Writers -> IdleCall \cup WriteCall]
    <3>1. [write[w] EXCEPT !.at = "cancelling"] \in WriteCall
      BY <2>1 DEF WriteCall
    <3>2. \/ write' = [write EXCEPT ![w] = [write[w] EXCEPT !.at = "cancelling"]]
          \/ write' = [write EXCEPT ![w] = Idle]
      BY <1>7 DEF UpsertConclusion
    <3> QED
      BY <3>1, <3>2 DEF Idle, IdleCall
  <2>3. CASE UNCHANGED <<conclusions, lastId>>
    BY <1>7, <2>2, <2>3 DEF UpsertConclusion
  <2>4. CASE /\ lastId' = lastId + 1
             /\ conclusions' = conclusions \cup
                  {[id |-> lastId + 1, observer |-> write[w].observer,
                    peer |-> write[w].peer, content |-> write[w].content,
                    created |-> write[w].now]}
    <3> DEFINE row == [id |-> lastId + 1, observer |-> write[w].observer,
                       peer |-> write[w].peer, content |-> write[w].content,
                       created |-> write[w].now]
    <3>1. row \in Conclusion /\ row.id = lastId + 1
      BY <2>1 DEF WriteCall, Conclusion
    <3> HIDE DEF row
    <3>2. conclusions' = conclusions \cup {row}
      BY <2>4 DEF row
    <3>3. IsFiniteSet(conclusions')
      BY <3>2, FS_AddElement
    <3>4. conclusions' \subseteq Conclusion
      BY <3>1, <3>2
    <3>5. lastId' \in Nat /\ \A c \in conclusions' : c.id \in 1..lastId'
      BY <2>4, <3>1, <3>2
    <3> QED
      BY <1>7, <2>2, <3>3, <3>4, <3>5 DEF UpsertConclusion
  <2> QED
    BY <1>7, <2>3, <2>4 DEF UpsertConclusion
<1>8. ASSUME NEW w \in Writers, CancelPending(w)
      PROVE  Typed'
  <2>1. \A d \in DOMAIN dreams :
          [dreams[d] EXCEPT !.status = "stale", !.updated = clock] \in Dream
    <3>1. \A d \in DOMAIN dreams : dreams[d] \in Dream
      OBVIOUS
    <3>2. "stale" \in Statuses /\ 0 \in Nat /\ clock \in Times
      BY DEF Statuses
    <3> QED
      BY <3>1, <3>2, DreamUpdate
  <2>2. dreams' \in Seq(Dream)
    <3> DEFINE staled(d) == /\ host.table
                            /\ dreams[d].peer = write[w].peer
                            /\ dreams[d].status \in Cancellable
               new(d) == IF staled(d)
                         THEN [dreams[d] EXCEPT !.status = "stale", !.updated = clock]
                         ELSE dreams[d]
    <3>1. DOMAIN dreams = 1..Len(dreams) /\ Len(dreams) \in Nat
      OBVIOUS
    <3>2. \A d \in DOMAIN dreams : dreams[d] \in Dream
      OBVIOUS
    <3>3. dreams' = [d \in 1..Len(dreams) |-> new(d)]
      BY <1>8, <3>1 DEF CancelPending
    <3> HIDE DEF staled
    <3>4. \A d \in 1..Len(dreams) : new(d) \in Dream
      BY <2>1, <3>1, <3>2
    <3> HIDE DEF Typed, new
    <3> QED
      BY <3>1, <3>3, <3>4
  <2> QED
    BY <1>8, <2>2 DEF CancelPending, Idle, IdleCall
<1>9. ASSUME NEW w \in Writers, NEW c \in conclusions, DeleteConclusion(w, c)
      PROVE  Typed'
  <2>1. conclusions' \subseteq conclusions
    BY <1>9 DEF DeleteConclusion
  <2>2. IsFiniteSet(conclusions')
    BY <2>1, FS_Subset
  <2> QED
    BY <1>9, <2>1, <2>2 DEF DeleteConclusion
<1>10. ASSUME NEW d \in DOMAIN dreams, StartDream(d)
       PROVE  Typed'
  <2>1. dreams[d] \in Dream /\ "in_progress" \in Statuses /\ 0 \in Nat /\ clock \in Times
    BY DEF Statuses
  <2>2. [dreams[d] EXCEPT !.status = "in_progress", !.updated = clock] \in Dream
    BY <2>1, DreamUpdate
  <2>3. dreams' = [dreams EXCEPT ![d] =
                     [dreams[d] EXCEPT !.status = "in_progress", !.updated = clock]]
    BY <1>10 DEF StartDream
  <2>4. dreams' \in Seq(Dream)
    BY <2>2, <2>3
  <2> QED
    BY <1>10, <2>4 DEF StartDream
<1>11. ASSUME NEW d \in DOMAIN dreams, NEW how \in Completions, CompleteDream(d, how)
       PROVE  Typed'
  <2> DEFINE done == IF how = "status" THEN 0 ELSE clock
             cool == IF how = "cooldown" THEN clock + Cooldown ELSE dreams[d].cool
  <2>1. dreams[d] \in Dream /\ "completed" \in Statuses /\ clock \in Times
    BY DEF Statuses
  <2>2. done \in Nat /\ cool \in Nat
    <3>1. dreams[d].cool \in Nat
      BY <2>1 DEF Dream
    <3> QED
      BY <2>1, <3>1 DEF Times, ConfigAssumption
  <2>3. dreams' = [dreams EXCEPT ![d] =
          [dreams[d] EXCEPT !.status = "completed", !.updated = clock, !.done = done,
                            !.cool = cool]]
    BY <1>11 DEF CompleteDream
  <2> HIDE DEF done, cool
  <2>4. dreams' \in Seq(Dream)
    <3>1. [dreams[d] EXCEPT !.status = "completed", !.updated = clock, !.done = done,
                            !.cool = cool] \in Dream
      BY <2>1, <2>2, DreamUpdate
    <3> QED
      BY <2>3, <3>1
  <2> QED
    BY <1>11, <2>4 DEF CompleteDream
<1>12. CASE Tick
  BY <1>12 DEF Tick, Times, ConfigAssumption
<1>13. CASE UNCHANGED vars
  BY <1>13 DEF vars
<1> HIDE DEF Typed
<1>14. CASE \E s \in Schedulers : SchedulerStep(s)
  BY <1>1, <1>2, <1>3, <1>4, <1>5, <1>14 DEF SchedulerStep
<1>15. CASE \E w \in Writers : WriterStep(w)
  BY <1>6, <1>7, <1>8, <1>9, <1>15 DEF WriterStep
<1>16. CASE WorkerStep
  BY <1>10, <1>11, <1>16 DEF WorkerStep
<1> QED
  BY <1>12, <1>13, <1>14, <1>15, <1>16 DEF Next

LEMMA TypedInit == ConfigAssumption /\ Init => Typed
BY FS_EmptySet DEF Init, Typed, Idle, IdleCall, Times, ConfigAssumption

LEMMA AlwaysTyped == Spec => []Typed
<1> USE ConfigAssumption
<1> QED
  BY TypedInit, TypedInductive, PTL DEF Spec

\* Type correctness for any number of schedulers, writers, rows and dreams.
THEOREM TypeCorrect == Spec => []TypeOK
BY AlwaysTyped, TypedTypeOK, PTL
-----------------------------------------------------------------------------
\* An automatic dream is quiet

\* Ids name rows, and are never reused; a call about to insert has dated every
\* conclusion it counted that is still there, and has passed the idle gate.
Dated ==
  /\ \A c, d \in conclusions : c.id = d.id => c = d
  /\ \A s \in Schedulers : sched[s].at = "inserting" =>
       /\ sched[s].elig.covers \subseteq 1..lastId
       /\ \A c \in conclusions :
            c.id \in sched[s].elig.covers => c.created <= sched[s].elig.act
       /\ ~sched[s].manual /\ sched[s].elig.act > 0
          => sched[s].elig.act + IdleTimeout <= sched[s].now

LEMMA DatedInductive == ConfigAssumption /\ Typed /\ Dated /\ [Next]_vars => Dated'
<1> SUFFICES ASSUME ConfigAssumption, Typed, Dated, [Next]_vars PROVE Dated'
  OBVIOUS
<1>a. sched \in [Schedulers -> IdleCall \cup LatestCall \cup CountingCall \cup ReadyCall]
  BY DEF Typed
<1>1. ASSUME NEW s \in Schedulers, CountConclusions(s)
      PROVE  Dated'
  <2> DEFINE elig == ReadEligibility(sched[s].observer, sched[s].peer, sched[s].mark,
                                     sched[s].cool)
  <2>1. sched[s] \in CountingCall
    BY <1>1, <1>a DEF CountConclusions, IdleCall, LatestCall, ReadyCall
  <2>2. /\ elig.covers \subseteq 1..lastId
        /\ elig.act \in Nat
        /\ \A c \in conclusions :
             c.id > sched[s].mark /\ c.observer = sched[s].observer /\ c.peer = sched[s].peer
             => c.created <= elig.act
    BY <2>1, EligibilityRead DEF CountingCall, Eligibility
  <2>3. \A c \in conclusions : c.id \in elig.covers => c.created <= elig.act
    <3> SUFFICES ASSUME NEW c \in conclusions, c.id \in elig.covers
                 PROVE  c.created <= elig.act
      OBVIOUS
    <3>1. elig.covers = {r.id : r \in {r \in conclusions :
            /\ r.observer = sched[s].observer /\ r.peer = sched[s].peer
            /\ r.id > sched[s].mark}}
      BY DEF ReadEligibility
    <3> HIDE DEF elig
    <3>2. PICK r \in conclusions : /\ r.observer = sched[s].observer /\ r.peer = sched[s].peer
                                   /\ r.id > sched[s].mark /\ r.id = c.id
      BY <3>1
    <3>3. r = c
      BY <3>2 DEF Dated
    <3> QED
      BY <2>2, <3>2, <3>3
  <2> HIDE DEF elig
  <2>4. CASE /\ Eligible(sched[s], elig)
             /\ sched' = [sched EXCEPT ![s] =
                  [at |-> "inserting", observer |-> sched[s].observer, peer |-> sched[s].peer,
                   manual |-> sched[s].manual, now |-> sched[s].now, elig |-> elig]]
    <3>1. UNCHANGED <<conclusions, lastId>>
      BY <1>1 DEF CountConclusions
    <3>2. /\ sched'[s].elig = elig /\ sched'[s].manual = sched[s].manual
          /\ sched'[s].now = sched[s].now
          /\ \A t \in Schedulers \ {s} : sched'[t] = sched[t]
      BY <1>a, <2>4
    <3>3. ~sched[s].manual /\ elig.act > 0 => elig.act + IdleTimeout <= sched[s].now
      BY <2>4 DEF Eligible
    <3> QED
      BY <2>2, <2>3, <3>1, <3>2, <3>3 DEF Dated
  <2>5. CASE Return(s)
    BY <1>1, <1>a, <2>5 DEF CountConclusions, Return, Idle, Dated
  <2> QED
    BY <1>1, <2>4, <2>5 DEF CountConclusions, elig
<1>2. ASSUME NEW s \in Schedulers, sched'[s].at # "inserting",
             \A t \in Schedulers \ {s} : sched'[t] = sched[t],
             UNCHANGED <<conclusions, lastId>>
      PROVE  Dated'
  BY <1>2 DEF Dated
<1>3. ASSUME NEW s \in Schedulers, NEW o \in Observers, NEW p \in Peers,
             NEW manual \in BOOLEAN, Schedule(s, o, p, manual)
      PROVE  Dated'
  BY <1>2, <1>3, <1>a DEF Schedule
<1>4. ASSUME NEW s \in Schedulers, ReadLatest(s)
      PROVE  Dated'
  BY <1>2, <1>4, <1>a DEF ReadLatest
<1>5. ASSUME NEW s \in Schedulers, InsertIntent(s)
      PROVE  Dated'
  BY <1>2, <1>5, <1>a DEF InsertIntent, Return, Idle
<1>6. ASSUME NEW s \in Schedulers, InsertFails(s) \/ FindAfterFailure(s)
      PROVE  Dated'
  <2>1. sched[s] \in ReadyCall
    BY <1>6, <1>a DEF InsertFails, FindAfterFailure, IdleCall, LatestCall, CountingCall
  <2> QED
    BY <1>2, <1>6, <1>a, <2>1 DEF InsertFails, FindAfterFailure, Return, Idle, ReadyCall
<1>7. ASSUME NEW w \in Writers, UpsertConclusion(w)
      PROVE  Dated'
  <2>1. CASE UNCHANGED <<conclusions, lastId>>
    BY <1>7, <2>1 DEF UpsertConclusion, Dated
  <2>2. CASE /\ lastId' = lastId + 1
             /\ conclusions' = conclusions \cup
                  {[id |-> lastId + 1, observer |-> write[w].observer,
                    peer |-> write[w].peer, content |-> write[w].content,
                    created |-> write[w].now]}
    <3>1. PICK row : row.id = lastId + 1 /\ conclusions' = conclusions \cup {row}
      BY <2>2
    <3>2. lastId \in Nat /\ \A c \in conclusions : c.id \in 1..lastId
      BY DEF Typed
    <3>3. \A c \in conclusions : c.id # row.id
      BY <3>1, <3>2
    <3>4. \A c, d \in conclusions' : c.id = d.id => c = d
      BY <3>1, <3>3 DEF Dated
    <3>5. \A s \in Schedulers : sched[s].at = "inserting" =>
            /\ row.id \notin sched[s].elig.covers
            /\ sched[s].elig.covers \subseteq 1..lastId'
      BY <2>2, <3>1, <3>2 DEF Dated
    <3>6. UNCHANGED sched
      BY <1>7 DEF UpsertConclusion
    <3> QED
      BY <3>1, <3>4, <3>5, <3>6 DEF Dated
  <2> QED
    BY <1>7, <2>1, <2>2 DEF UpsertConclusion
<1>8. ASSUME NEW w \in Writers, NEW c \in conclusions, DeleteConclusion(w, c)
      PROVE  Dated'
  BY <1>8 DEF DeleteConclusion, Dated
<1>9. CASE UNCHANGED <<conclusions, lastId, sched>>
  BY <1>9 DEF Dated
<1>10. ASSUME NEW w \in Writers,
              \/ \E o \in Observers, p \in Peers, content \in Contents :
                   Conclude(w, o, p, content)
              \/ CancelPending(w)
       PROVE  Dated'
  BY <1>9, <1>10 DEF Conclude, CancelPending
<1>11. CASE WorkerStep \/ Tick \/ UNCHANGED vars
  BY <1>9, <1>11 DEF WorkerStep, StartDream, CompleteDream, Tick, vars
<1> QED
  BY <1>1, <1>3, <1>4, <1>5, <1>6, <1>7, <1>8, <1>10, <1>11
  DEF Next, SchedulerStep, WriterStep

LEMMA DatedInit == Init => Dated
BY DEF Init, Dated, Idle

\* A step that adds a dream is an insert, and adds that call's dream.
LEMMA NewRowIsInserted ==
  ASSUME Typed, [Next]_vars, NEW d \in NewRows
  PROVE  \E s \in Schedulers : /\ sched[s].at = "inserting"
                               /\ InsertIntent(s)
                               /\ dreams'[d] = NewDream(sched[s])
<1>1. d \in DOMAIN dreams' /\ d > Len(dreams) /\ dreams \in Seq(Dream)
  BY DEF NewRows, Typed
<1>2. ASSUME DOMAIN dreams' = DOMAIN dreams PROVE FALSE
  BY <1>1, <1>2
<1>3. ASSUME NEW s \in Schedulers, InsertIntent(s)
      PROVE  dreams'[d] = NewDream(sched[s]) /\ sched[s].at = "inserting"
  BY <1>1, <1>3, AppendProperties DEF InsertIntent
<1>4. ASSUME NEW s \in Schedulers, NEW o \in Observers, NEW p \in Peers,
             NEW manual \in BOOLEAN, Schedule(s, o, p, manual)
      PROVE  FALSE
  BY <1>2, <1>4 DEF Schedule
<1>5. ASSUME NEW s \in Schedulers,
             ReadLatest(s) \/ CountConclusions(s) \/ InsertFails(s) \/ FindAfterFailure(s)
      PROVE  FALSE
  BY <1>2, <1>5 DEF ReadLatest, CountConclusions, InsertFails, FindAfterFailure
<1>6. ASSUME NEW w \in Writers, WriterStep(w)
      PROVE  FALSE
  BY <1>2, <1>6 DEF WriterStep, Conclude, UpsertConclusion, CancelPending, DeleteConclusion
<1>7. ASSUME WorkerStep \/ Tick \/ UNCHANGED vars
      PROVE  FALSE
  BY <1>2, <1>7 DEF WorkerStep, StartDream, CompleteDream, Tick, vars
<1> QED
  BY <1>3, <1>4, <1>5, <1>6, <1>7 DEF Next, SchedulerStep

\* Every conclusion an automatic dream covers is older than the idle timeout,
\* whatever order clocks were read and rows stored in.
THEOREM DreamsAreQuiet == Spec => AutomaticDreamIsQuiet
<1> USE ConfigAssumption
<1>1. ASSUME Typed, Dated, [Next]_vars, NEW d \in NewRows
      PROVE  LET row == dreams'[d] IN
             ~row.manual =>
               \A c \in conclusions :
                 c.id \in row.elig.covers => c.created + IdleTimeout <= row.scheduledFor
  <2>1. PICK s \in Schedulers : sched[s].at = "inserting" /\ dreams'[d] = NewDream(sched[s])
    BY <1>1, NewRowIsInserted
  <2>2. sched[s] \in ReadyCall
    BY <1>1, <2>1 DEF Typed, IdleCall, LatestCall, CountingCall
  <2>3. /\ dreams'[d].manual = sched[s].manual /\ dreams'[d].elig = sched[s].elig
        /\ dreams'[d].scheduledFor = sched[s].now
    BY <2>1 DEF NewDream
  <2>4. sched[s].elig.act \in Nat /\ sched[s].now \in Nat
    BY <2>2 DEF ReadyCall, Eligibility, Times
  <2>5. ASSUME ~sched[s].manual, NEW c \in conclusions, c.id \in sched[s].elig.covers
        PROVE  c.created + IdleTimeout <= sched[s].now
    <3>1. c.created \in Nat /\ c.created > 0
      BY <1>1 DEF Typed, Conclusion, Times
    <3>2. c.created <= sched[s].elig.act
      BY <1>1, <2>1, <2>5 DEF Dated
    <3>3. sched[s].elig.act + IdleTimeout <= sched[s].now
      BY <1>1, <2>1, <2>4, <2>5, <3>1, <3>2 DEF Dated
    <3> QED
      BY <2>4, <3>1, <3>2, <3>3 DEF ConfigAssumption
  <2> QED
    BY <2>3, <2>5
<1>2. Typed /\ Dated /\ [Next]_vars =>
      [\A d \in NewRows :
         LET row == dreams'[d] IN
         ~row.manual =>
           \A c \in conclusions :
             c.id \in row.elig.covers => c.created + IdleTimeout <= row.scheduledFor]_vars
  BY <1>1
<1>3. Spec => []Dated
  BY DatedInit, AlwaysTyped, DatedInductive, PTL DEF Spec
<1> QED
  BY <1>2, <1>3, AlwaysTyped, PTL DEF Spec, AutomaticDreamIsQuiet
-----------------------------------------------------------------------------
\* One scheduler has at most one active dream

Active(d) == dreams[d].status \in ActiveStatuses

\* While a call is on its way to an insert, its peer has no active dream.
NoneActiveAhead ==
  \A s \in Schedulers : sched[s].at \in {"latest", "counting", "inserting"} =>
    \A d \in DOMAIN dreams :
      dreams[d].observer = sched[s].observer /\ dreams[d].peer = sched[s].peer => ~Active(d)

\* Outside an insert the table keeps its rows, their peers and their contents,
\* and a row only follows its lifecycle.
LEMMA RowsKept ==
  ASSUME Typed, [Next]_vars, \A s \in Schedulers : ~InsertIntent(s)
  PROVE  /\ DOMAIN dreams' = DOMAIN dreams
         /\ \A d \in DOMAIN dreams :
              /\ dreams'[d].observer = dreams[d].observer
              /\ dreams'[d].peer = dreams[d].peer
              /\ dreams'[d].elig = dreams[d].elig
              /\ <<dreams[d].status, dreams'[d].status>> \in
                   {<<x, x>> : x \in Statuses} \cup
                   {<<"pending", "stale">>, <<"pending", "in_progress">>,
                    <<"in_progress", "completed">>}
<1> DEFINE Kept == /\ DOMAIN dreams' = DOMAIN dreams
                   /\ \A d \in DOMAIN dreams :
                        /\ dreams'[d].observer = dreams[d].observer
                        /\ dreams'[d].peer = dreams[d].peer
                        /\ dreams'[d].elig = dreams[d].elig
                        /\ <<dreams[d].status, dreams'[d].status>> \in
                             {<<x, x>> : x \in Statuses} \cup
                             {<<"pending", "stale">>, <<"pending", "in_progress">>,
                              <<"in_progress", "completed">>}
<1>1. \A d \in DOMAIN dreams : /\ dreams[d] \in Dream
                               /\ dreams[d].status \in Statuses
  <2>1. \A d \in DOMAIN dreams : dreams[d] \in Dream
    BY DEF Typed
  <2>2. \A d \in Dream : d.status \in Statuses
    BY DEF Dream
  <2> QED
    BY <2>1, <2>2
<1>2. ASSUME UNCHANGED dreams PROVE Kept
  BY <1>1, <1>2
<1>3. ASSUME NEW w \in Writers, CancelPending(w) PROVE Kept
  <2> SUFFICES ASSUME NEW d \in DOMAIN dreams
               PROVE  /\ dreams'[d].observer = dreams[d].observer
                      /\ dreams'[d].peer = dreams[d].peer
                      /\ dreams'[d].elig = dreams[d].elig
                      /\ \/ dreams'[d].status = dreams[d].status
                         \/ dreams[d].status = "pending" /\ dreams'[d].status = "stale"
    BY <1>1, <1>3 DEF CancelPending
  <2>1. dreams'[d] = IF /\ host.table /\ dreams[d].peer = write[w].peer
                        /\ dreams[d].status \in Cancellable
                     THEN [dreams[d] EXCEPT !.status = "stale", !.updated = clock]
                     ELSE dreams[d]
    BY <1>3 DEF CancelPending
  <2> QED
    BY <1>1, <2>1 DEF Dream, Cancellable
<1>4. ASSUME NEW d \in DOMAIN dreams, StartDream(d) PROVE Kept
  <2>1. dreams[d].status = "pending"
    BY <1>4 DEF StartDream
  <2>2. dreams' = [dreams EXCEPT ![d] =
                     [dreams[d] EXCEPT !.status = "in_progress", !.updated = clock]]
    BY <1>4 DEF StartDream
  <2>3. /\ dreams'[d].observer = dreams[d].observer /\ dreams'[d].peer = dreams[d].peer
        /\ dreams'[d].elig = dreams[d].elig /\ dreams'[d].status = "in_progress"
    BY <1>1, <2>2 DEF Dream
  <2> QED
    BY <1>1, <2>1, <2>2, <2>3
<1>5. ASSUME NEW d \in DOMAIN dreams, NEW how \in Completions, CompleteDream(d, how) PROVE Kept
  <2>1. dreams[d].status = "in_progress"
    BY <1>5 DEF CompleteDream
  <2>2. PICK done, cool :
          dreams' = [dreams EXCEPT ![d] =
            [dreams[d] EXCEPT !.status = "completed", !.updated = clock, !.done = done,
                              !.cool = cool]]
    BY <1>5 DEF CompleteDream
  <2>3. /\ dreams'[d].observer = dreams[d].observer /\ dreams'[d].peer = dreams[d].peer
        /\ dreams'[d].elig = dreams[d].elig /\ dreams'[d].status = "completed"
    BY <1>1, <2>2 DEF Dream
  <2> QED
    BY <1>1, <2>1, <2>2, <2>3
<1>6. ASSUME NEW s \in Schedulers, SchedulerStep(s) PROVE Kept
  BY <1>2, <1>6 DEF SchedulerStep, Schedule, ReadLatest, CountConclusions, InsertFails,
                    FindAfterFailure
<1>7. ASSUME NEW w \in Writers, WriterStep(w) PROVE Kept
  BY <1>2, <1>3, <1>7 DEF WriterStep, Conclude, UpsertConclusion, DeleteConclusion
<1>8. ASSUME Tick \/ UNCHANGED vars PROVE Kept
  BY <1>2, <1>8 DEF Tick, vars
<1> QED
  BY <1>4, <1>5, <1>6, <1>7, <1>8 DEF Next, WorkerStep

\* New activity makes only pending dreams stale, completed and stale dreams are
\* final, and what a dream was scheduled for is never rewritten.
THEOREM LifecycleRespected == Spec => DreamLifecycle
<1> DEFINE Step == /\ Len(dreams) <= Len(dreams')
                   /\ \A d \in DOMAIN dreams :
                        /\ <<dreams[d].status, dreams'[d].status>> \in
                             {<<x, x>> : x \in Statuses} \cup
                             {<<"pending", "stale">>, <<"pending", "in_progress">>,
                              <<"in_progress", "completed">>}
                        /\ dreams'[d].elig = dreams[d].elig
<1>1. ASSUME Typed, [Next]_vars PROVE Step
  <2>1. dreams \in Seq(Dream) /\ \A d \in DOMAIN dreams : dreams[d].status \in Statuses
    <3>1. dreams \in Seq(Dream) /\ \A d \in DOMAIN dreams : dreams[d] \in Dream
      BY <1>1 DEF Typed
    <3>2. \A d \in Dream : d.status \in Statuses
      BY DEF Dream
    <3> QED
      BY <3>1, <3>2
  <2>2. ASSUME NEW s \in Schedulers, InsertIntent(s) PROVE Step
    <3>1. /\ Len(dreams') = Len(dreams) + 1
          /\ \A d \in DOMAIN dreams : dreams'[d] = dreams[d]
      BY <2>1, <2>2, AppendProperties DEF InsertIntent
    <3> QED
      BY <2>1, <3>1
  <2>3. ASSUME \A s \in Schedulers : ~InsertIntent(s) PROVE Step
    <3>1. dreams' \in Seq(Dream)
      BY <1>1, TypedInductive, ConfigAssumption DEF Typed
    <3>2. Len(dreams') = Len(dreams)
      BY <1>1, <2>1, <2>3, <3>1, RowsKept
    <3> QED
      BY <1>1, <2>1, <2>3, <3>2, RowsKept
  <2> QED
    BY <2>2, <2>3
<1>2. Typed /\ [Next]_vars => [Step]_vars
  BY <1>1
<1> QED
  BY <1>2, AlwaysTyped, PTL DEF Spec, DreamLifecycle

LEMMA SoleSchedulerInductive ==
  ASSUME \A s, t \in Schedulers : s = t, Typed, Typed', NoneActiveAhead, AtMostOneActive,
         [Next]_vars
  PROVE  NoneActiveAhead' /\ AtMostOneActive'
<1>a. sched \in [Schedulers -> IdleCall \cup LatestCall \cup CountingCall \cup ReadyCall]
  BY DEF Typed
<1>1. ASSUME NEW s \in Schedulers, InsertIntent(s)
      PROVE  NoneActiveAhead' /\ AtMostOneActive'
  <2>1. /\ dreams \in Seq(Dream) /\ DOMAIN dreams' = 1..(Len(dreams) + 1)
        /\ \A d \in DOMAIN dreams : dreams'[d] = dreams[d]
        /\ dreams'[Len(dreams) + 1].observer = sched[s].observer
        /\ dreams'[Len(dreams) + 1].peer = sched[s].peer
    BY <1>1, AppendProperties DEF InsertIntent, NewDream, Typed
  <2>2. \A d \in DOMAIN dreams :
          dreams[d].observer = sched[s].observer /\ dreams[d].peer = sched[s].peer
          => dreams[d].status \notin {"pending", "in_progress"}
    BY <1>1 DEF NoneActiveAhead, Active, ActiveStatuses, InsertIntent
  <2>3. AtMostOneActive'
    BY <2>1, <2>2 DEF AtMostOneActive
  <2>4. \A t \in Schedulers : sched'[t].at = "idle"
    BY <1>1, <1>a DEF InsertIntent, Return, Idle
  <2> QED
    BY <2>3, <2>4 DEF NoneActiveAhead
<1>2. ASSUME \A s \in Schedulers : ~InsertIntent(s)
      PROVE  NoneActiveAhead' /\ AtMostOneActive'
  <2>1. /\ DOMAIN dreams' = DOMAIN dreams
        /\ \A d \in DOMAIN dreams :
             /\ dreams'[d].observer = dreams[d].observer /\ dreams'[d].peer = dreams[d].peer
             /\ Active(d)' => Active(d)
    BY <1>2, RowsKept DEF Active, ActiveStatuses
  <2>2. AtMostOneActive'
    BY <2>1 DEF AtMostOneActive, Active, ActiveStatuses
  <2>3. ASSUME NEW s \in Schedulers, NEW o \in Observers, NEW p \in Peers,
               NEW manual \in BOOLEAN, Schedule(s, o, p, manual)
        PROVE  NoneActiveAhead'
    <3>1. ~HasActive(o, p) /\ sched'[s].observer = o /\ sched'[s].peer = p
      BY <1>a, <2>3 DEF Schedule
    <3> QED
      BY <2>1, <3>1 DEF NoneActiveAhead, HasActive, Active
  <2>4. ASSUME NEW s \in Schedulers,
               \/ /\ sched[s].at \in {"latest", "counting", "inserting"}
                  /\ sched'[s].observer = sched[s].observer
                  /\ sched'[s].peer = sched[s].peer
               \/ sched'[s].at \in {"idle", "finding"}
        PROVE  NoneActiveAhead'
    BY <2>1, <2>4 DEF NoneActiveAhead
  <2>5. ASSUME NEW s \in Schedulers, ReadLatest(s)
        PROVE  NoneActiveAhead'
    BY <1>a, <2>4, <2>5 DEF ReadLatest
  <2>6. ASSUME NEW s \in Schedulers, CountConclusions(s)
        PROVE  NoneActiveAhead'
    <3>1. sched[s].at = "counting"
      BY <2>6 DEF CountConclusions
    <3>2. CASE Return(s)
      BY <1>a, <2>4, <3>2 DEF Return, Idle
    <3>3. CASE ~Return(s)
      BY <1>a, <2>4, <2>6, <3>1, <3>3 DEF CountConclusions
    <3> QED
      BY <3>2, <3>3
  <2>7. ASSUME NEW s \in Schedulers, InsertFails(s) \/ FindAfterFailure(s)
        PROVE  NoneActiveAhead'
    <3>1. sched[s] \in ReadyCall
      BY <1>a, <2>7 DEF InsertFails, FindAfterFailure, IdleCall, LatestCall, CountingCall
    <3> QED
      BY <1>a, <2>4, <2>7, <3>1 DEF InsertFails, FindAfterFailure, Return, Idle, ReadyCall
  <2>8. CASE UNCHANGED sched
    <3> SUFFICES ASSUME NEW s \in Schedulers, NEW d \in DOMAIN dreams',
                        sched'[s].at \in {"latest", "counting", "inserting"},
                        dreams'[d].observer = sched'[s].observer,
                        dreams'[d].peer = sched'[s].peer
                 PROVE  ~(Active(d)')
      BY <2>2 DEF NoneActiveAhead
    <3> QED
      BY <2>1, <2>8 DEF NoneActiveAhead
  <2>9. CASE (\E w \in Writers : WriterStep(w)) \/ WorkerStep \/ Tick \/ UNCHANGED vars
    BY <2>8, <2>9 DEF WriterStep, Conclude, UpsertConclusion, CancelPending, DeleteConclusion,
                      WorkerStep, StartDream, CompleteDream, Tick, vars
  <2> QED
    BY <1>2, <2>2, <2>3, <2>5, <2>6, <2>7, <2>9 DEF Next, SchedulerStep
<1> QED
  BY <1>1, <1>2

\* With one goroutine scheduling, no peer ever has two active dreams, whatever
\* its writers and the dream worker do meanwhile; manual requests included.
THEOREM SoleSchedulerDedupes ==
  (\A s, t \in Schedulers : s = t) => (Spec => []AtMostOneActive)
<1> SUFFICES ASSUME \A s, t \in Schedulers : s = t
             PROVE  Spec => []AtMostOneActive
  OBVIOUS
<1>1. Init => NoneActiveAhead /\ AtMostOneActive
  BY DEF Init, NoneActiveAhead, AtMostOneActive, Idle
<1>2. Typed /\ Typed' /\ NoneActiveAhead /\ AtMostOneActive /\ [Next]_vars
      => NoneActiveAhead' /\ AtMostOneActive'
  BY SoleSchedulerInductive
<1> QED
  BY <1>1, <1>2, AlwaysTyped, PTL DEF Spec
-----------------------------------------------------------------------------
\* The newest row

\* Of some rows one is the newest: by a stamp, and of those by its id.
LEMMA Greatest ==
  ASSUME NEW n \in Nat, NEW m \in Nat, NEW S \in SUBSET (0..m), S # {},
         NEW f, \A d \in S : f[d] \in 0..n
  PROVE  \E t \in S : \A e \in S : f[e] < f[t] \/ (f[e] = f[t] /\ e <= t)
<1> DEFINE Stamps == {f[d] : d \in S}
           T == {d \in S : f[d] = Max(Stamps)}
<1>1. Max(Stamps) \in Stamps /\ \A y \in Stamps : y <= Max(Stamps)
  <2>1. Stamps \in SUBSET (0..n) /\ Stamps # {}
    OBVIOUS
  <2> HIDE DEF Stamps
  <2> QED BY <2>1, MaxOf
<1>2. T \in SUBSET (0..m) /\ T # {}
  BY <1>1
<1>3. Max(T) \in T /\ \A y \in T : y <= Max(T)
  <2> HIDE DEF T
  <2> QED BY <1>2, MaxOf
<1>4. \A e \in S : f[e] <= Max(Stamps) /\ f[e] \in Nat /\ Max(Stamps) \in Nat
  BY <1>1
<1> HIDE DEF Stamps
<1>5. Max(T) \in S /\ f[Max(T)] = Max(Stamps)
  BY <1>3 DEF T
<1>6. ASSUME NEW e \in S
      PROVE  f[e] < f[Max(T)] \/ (f[e] = f[Max(T)] /\ e <= Max(T))
  BY <1>3, <1>4, <1>5 DEF T
<1> QED
  BY <1>5, <1>6

\* The rows that come before one, the newest first.
Above(S, f, t) == {e \in S : f[e] > f[t] \/ (f[e] = f[t] /\ e > t)}

\* A query that orders its rows and keeps some of them keeps one, if it has any.
LEMMA NewestShown ==
  ASSUME NEW n \in Nat, NEW m \in Nat, NEW S \in SUBSET (0..m), S # {},
         NEW f, \A d \in S : f[d] \in 0..n, NEW k \in Nat \ {0}
  PROVE  \E t \in S : Cardinality(Above(S, f, t)) < k
<1>1. PICK t \in S : \A e \in S : f[e] < f[t] \/ (f[e] = f[t] /\ e <= t)
  BY Greatest
<1>2. Above(S, f, t) = {}
  <2> SUFFICES ASSUME NEW e \in Above(S, f, t) PROVE FALSE
    OBVIOUS
  <2>1. e \in S /\ (f[e] > f[t] \/ (f[e] = f[t] /\ e > t))
    BY DEF Above
  <2>2. f[e] \in 0..n /\ f[t] \in 0..n /\ e \in 0..m /\ t \in 0..m
    BY <2>1
  <2>3. f[e] < f[t] \/ (f[e] = f[t] /\ e <= t)
    BY <1>1, <2>1
  <2> QED
    BY <2>1, <2>2, <2>3
<1>3. Cardinality(Above(S, f, t)) = 0
  BY <1>2, FS_EmptySet
<1> QED
  BY <1>3

-----------------------------------------------------------------------------
\* Completed dreams

\* Outside an insert a row is completed once, at that time, and stays as it was.
LEMMA CompletedRows ==
  ASSUME Typed, [Next]_vars, \A s \in Schedulers : ~InsertIntent(s), NEW d \in DOMAIN dreams
  PROVE  /\ dreams'[d].manual = dreams[d].manual
         /\ \/ dreams'[d] = dreams[d]
            \/ dreams'[d].status # "completed" /\ dreams'[d].cool = dreams[d].cool
            \/ /\ dreams[d].status = "in_progress"
               /\ dreams'[d].status = "completed" /\ dreams'[d].updated = clock
               /\ \E how \in Completions :
                    /\ dreams'[d].done = (IF how = "status" THEN 0 ELSE clock)
                    /\ dreams'[d].cool = (IF how = "cooldown" THEN clock + Cooldown ELSE dreams[d].cool)
<1> DEFINE Kept(x) ==
      /\ dreams'[x].manual = dreams[x].manual
      /\ \/ dreams'[x] = dreams[x]
         \/ dreams'[x].status # "completed" /\ dreams'[x].cool = dreams[x].cool
         \/ /\ dreams[x].status = "in_progress"
            /\ dreams'[x].status = "completed" /\ dreams'[x].updated = clock
            /\ \E how \in Completions :
                 /\ dreams'[x].done = (IF how = "status" THEN 0 ELSE clock)
                 /\ dreams'[x].cool = (IF how = "cooldown" THEN clock + Cooldown ELSE dreams[x].cool)
<1>1. \A x \in DOMAIN dreams : dreams[x] \in Dream
  BY DEF Typed
<1>2. ASSUME UNCHANGED dreams PROVE Kept(d)
  BY <1>2
<1>3. ASSUME NEW w \in Writers, CancelPending(w) PROVE Kept(d)
  <2>1. dreams'[d] = IF /\ host.table /\ dreams[d].peer = write[w].peer
                        /\ dreams[d].status \in Cancellable
                     THEN [dreams[d] EXCEPT !.status = "stale", !.updated = clock]
                     ELSE dreams[d]
    BY <1>3 DEF CancelPending
  <2> QED
    BY <1>1, <2>1 DEF Dream
<1>4. ASSUME NEW x \in DOMAIN dreams, StartDream(x) PROVE Kept(d)
  <2>1. dreams' = [dreams EXCEPT ![x] =
                     [dreams[x] EXCEPT !.status = "in_progress", !.updated = clock]]
    BY <1>4 DEF StartDream
  <2>2. /\ dreams'[x].status = "in_progress" /\ dreams'[x].manual = dreams[x].manual
        /\ dreams'[x].cool = dreams[x].cool
    BY <1>1, <2>1 DEF Dream
  <2> QED
    BY <1>1, <2>1, <2>2
<1>5. ASSUME NEW x \in DOMAIN dreams, NEW how \in Completions, CompleteDream(x, how) PROVE Kept(d)
  <2>1. dreams[x].status = "in_progress"
    BY <1>5 DEF CompleteDream
  <2>2. dreams' = [dreams EXCEPT ![x] =
            [dreams[x] EXCEPT !.status = "completed", !.updated = clock,
               !.done = IF how = "status" THEN 0 ELSE clock,
               !.cool = IF how = "cooldown" THEN clock + Cooldown ELSE dreams[x].cool]]
    BY <1>5 DEF CompleteDream
  <2>3. /\ dreams'[x].status = "completed" /\ dreams'[x].manual = dreams[x].manual
        /\ dreams'[x].updated = clock
        /\ dreams'[x].done = (IF how = "status" THEN 0 ELSE clock)
        /\ dreams'[x].cool = (IF how = "cooldown" THEN clock + Cooldown ELSE dreams[x].cool)
    BY <1>1, <2>2 DEF Dream
  <2>4. CASE d = x
    BY <2>1, <2>3, <2>4
  <2>5. CASE d # x
    BY <2>2, <2>5
  <2> QED
    BY <2>4, <2>5
<1>6. ASSUME NEW s \in Schedulers, SchedulerStep(s) PROVE Kept(d)
  BY <1>2, <1>6 DEF SchedulerStep, Schedule, ReadLatest, CountConclusions, InsertFails,
                    FindAfterFailure
<1>7. ASSUME NEW w \in Writers, WriterStep(w) PROVE Kept(d)
  BY <1>2, <1>3, <1>7 DEF WriterStep, Conclude, UpsertConclusion, DeleteConclusion
<1>8. ASSUME Tick \/ UNCHANGED vars PROVE Kept(d)
  BY <1>2, <1>8 DEF Tick, vars
<1> QED
  BY <1>4, <1>5, <1>6, <1>7, <1>8 DEF Next, WorkerStep

\* An insert adds a pending row after the others.
LEMMA InsertedRow ==
  ASSUME Typed, NEW s \in Schedulers, InsertIntent(s)
  PROVE  /\ Len(dreams) \in Nat /\ DOMAIN dreams = 1..Len(dreams)
         /\ DOMAIN dreams' = 1..(Len(dreams) + 1)
         /\ \A d \in DOMAIN dreams : dreams'[d] = dreams[d]
         /\ dreams'[Len(dreams) + 1] = NewDream(sched[s])
         /\ dreams'[Len(dreams) + 1].status = "pending"
BY AppendProperties DEF InsertIntent, NewDream, Typed

LEMMA ClockGoesOn ==
  ASSUME ConfigAssumption, Typed, [Next]_vars
  PROVE  clock \in Nat /\ clock > 0 /\ clock <= MaxClock /\ clock' \in Nat /\ clock <= clock'
<1>1. clock \in Nat /\ clock > 0 /\ clock <= MaxClock
  BY DEF Typed, Times, ConfigAssumption
<1>2. clock' \in {clock, clock + 1}
  <2>1. CASE \E s \in Schedulers : SchedulerStep(s)
    BY <2>1 DEF SchedulerStep, Schedule, ReadLatest, CountConclusions, InsertIntent, InsertFails,
                FindAfterFailure
  <2>2. CASE \E w \in Writers : WriterStep(w)
    BY <2>2 DEF WriterStep, Conclude, UpsertConclusion, CancelPending, DeleteConclusion
  <2>3. CASE WorkerStep \/ Tick \/ UNCHANGED vars
    BY <2>3 DEF WorkerStep, StartDream, CompleteDream, Tick, vars
  <2> QED
    BY <2>1, <2>2, <2>3 DEF Next
<1> QED
  BY <1>1, <1>2

\* Completed dreams were completed in the past.
Past ==
  \A d \in DOMAIN dreams : dreams[d].status = "completed" =>
    dreams[d].done <= clock /\ dreams[d].updated <= clock

\* A worker that stamps the cooldown leaves no completed dream without it.
Stamped ==
  \A d \in DOMAIN dreams : dreams[d].status = "completed" =>
    dreams[d].done > 0 /\ dreams[d].cool = dreams[d].done + Cooldown

LEMMA RowTyped ==
  ASSUME Typed, NEW d \in DOMAIN dreams
  PROVE  /\ dreams[d] \in Dream
         /\ dreams[d].observer \in Observers /\ dreams[d].peer \in Peers
         /\ dreams[d].status \in Statuses
         /\ dreams[d].done \in Nat /\ dreams[d].cool \in Nat /\ dreams[d].updated \in 1..MaxClock
<1>1. dreams[d] \in Dream
  BY DEF Typed
<1> QED
  BY <1>1 DEF Dream, Times

LEMMA PastInductive ==
  ASSUME ConfigAssumption, Typed, Past, [Next]_vars
  PROVE  Past'
<1>1. clock \in Nat /\ clock' \in Nat /\ clock <= clock'
  BY ClockGoesOn
<1>2. \A d \in DOMAIN dreams : dreams[d].done \in Nat /\ dreams[d].updated \in Nat
  BY RowTyped
<1>3. ASSUME NEW s \in Schedulers, InsertIntent(s) PROVE Past'
  BY SMTT(30), <1>1, <1>2, <1>3, InsertedRow DEF Past
<1>4. ASSUME \A s \in Schedulers : ~InsertIntent(s) PROVE Past'
  <2>1. DOMAIN dreams' = DOMAIN dreams
    BY <1>4, RowsKept
  <2> SUFFICES ASSUME NEW d \in DOMAIN dreams, dreams'[d].status = "completed"
               PROVE  dreams'[d].done <= clock' /\ dreams'[d].updated <= clock'
    BY <2>1 DEF Past
  <2>2. CASE dreams'[d] = dreams[d]
    BY <1>1, <1>2, <2>2 DEF Past
  <2>3. CASE dreams'[d].updated = clock /\ dreams'[d].done \in {0, clock}
    BY <1>1, <2>3
  <2> QED
    BY <1>4, <2>2, <2>3, CompletedRows
<1> QED
  BY <1>3, <1>4

LEMMA StampedInductive ==
  ASSUME ConfigAssumption, Completions \subseteq {"cooldown"}, Typed, Stamped, [Next]_vars
  PROVE  Stamped'
<1>1. ASSUME NEW s \in Schedulers, InsertIntent(s) PROVE Stamped'
  BY <1>1, InsertedRow DEF Stamped
<1>2. ASSUME \A s \in Schedulers : ~InsertIntent(s) PROVE Stamped'
  <2>1. DOMAIN dreams' = DOMAIN dreams
    BY <1>2, RowsKept
  <2> SUFFICES ASSUME NEW d \in DOMAIN dreams, dreams'[d].status = "completed"
               PROVE  dreams'[d].done > 0 /\ dreams'[d].cool = dreams'[d].done + Cooldown
    BY <2>1 DEF Stamped
  <2>2. CASE dreams'[d] = dreams[d]
    BY <2>2 DEF Stamped
  <2>3. CASE dreams'[d].done = clock /\ dreams'[d].cool = clock + Cooldown
    BY <2>3, ClockGoesOn
  <2> QED
    BY <1>2, <2>2, <2>3, CompletedRows
<1> QED
  BY <1>1, <1>2

LEMMA AlwaysPast == Spec => []Past
<1> USE ConfigAssumption
<1>1. Init => Past
  BY DEF Init, Past
<1>2. Typed /\ Past /\ [Next]_vars => Past'
  BY PastInductive
<1> QED
  BY <1>1, <1>2, AlwaysTyped, PTL DEF Spec

LEMMA AlwaysStamped == Completions \subseteq {"cooldown"} => (Spec => []Stamped)
<1> SUFFICES ASSUME Completions \subseteq {"cooldown"} PROVE Spec => []Stamped
  OBVIOUS
<1> USE ConfigAssumption
<1>1. Init => Stamped
  BY DEF Init, Stamped
<1>2. Typed /\ Stamped /\ [Next]_vars => Stamped'
  BY StampedInductive
<1> QED
  BY <1>1, <1>2, AlwaysTyped, PTL DEF Spec

Completed(o, p) ==
  {d \in DOMAIN dreams : /\ dreams[d].observer = o /\ dreams[d].peer = p
                         /\ dreams[d].status = "completed"}

\* The last completed dream is one, and no other was finished after it.
LEMMA LatestIsOne ==
  ASSUME ConfigAssumption, Typed, Past, NEW o, NEW p, Completed(o, p) # {}
  PROVE  \E t \in Completed(o, p) :
           /\ LatestCompleted(o, p) = {t}
           /\ \A e \in Completed(o, p) :
                FinishedAt(e) < FinishedAt(t) \/ (FinishedAt(e) = FinishedAt(t) /\ e <= t)
<1> DEFINE S == Completed(o, p)
           f == [d \in S |-> FinishedAt(d)]
<1>1. S \in SUBSET (0..Len(dreams)) /\ Len(dreams) \in Nat
  BY DEF Completed, Typed
<1>2. MaxClock \in Nat /\ clock \in 0..MaxClock
  BY DEF ConfigAssumption, Typed, Times
<1>3. \A d \in S : FinishedAt(d) \in 0..MaxClock
  <2> SUFFICES ASSUME NEW d \in S PROVE FinishedAt(d) \in 0..MaxClock
    OBVIOUS
  <2>1. dreams[d] \in Dream /\ dreams[d].status = "completed" /\ d \in DOMAIN dreams
    BY DEF Completed, Typed
  <2>2. dreams[d].done \in Nat /\ dreams[d].updated \in Nat /\ dreams[d].done <= clock /\ dreams[d].updated <= clock
    BY <2>1 DEF Dream, Times, Past
  <2> QED
    BY <1>2, <2>2 DEF FinishedAt
<1>4. S # {} /\ \A d \in S : f[d] = FinishedAt(d) /\ f[d] \in 0..MaxClock
  BY <1>3
<1>5. LatestCompleted(o, p) =
        {d \in S : \A e \in S : FinishedAt(e) < FinishedAt(d) \/ (FinishedAt(e) = FinishedAt(d) /\ e <= d)}
  BY DEF LatestCompleted, Completed
<1> HIDE DEF S, f
<1>6. PICK t \in S : \A e \in S : f[e] < f[t] \/ (f[e] = f[t] /\ e <= t)
  BY <1>1, <1>2, <1>4, Greatest
<1>7. \A e \in S : FinishedAt(e) < FinishedAt(t) \/ (FinishedAt(e) = FinishedAt(t) /\ e <= t)
  BY <1>4, <1>6
<1>8. ASSUME NEW d \in S,
             \A e \in S : FinishedAt(e) < FinishedAt(d) \/ (FinishedAt(e) = FinishedAt(d) /\ e <= d)
      PROVE  d = t
  <2>1. FinishedAt(d) \in Int /\ FinishedAt(t) \in Int /\ d \in Int /\ t \in Int
    BY <1>1, <1>3
  <2> QED
    BY <1>7, <1>8, <2>1
<1> QED
  BY <1>5, <1>7, <1>8 DEF S

\* Where the worker stamps the cooldown, scheduling waits for the last one of all.
LEMMA CooldownOfLatest ==
  ASSUME ConfigAssumption, Typed, Past, Stamped, NEW o, NEW p
  PROVE  /\ Completed(o, p) = {} => CooldownUntil(o, p) = 0
         /\ Completed(o, p) # {} =>
              \E t \in Completed(o, p) : CooldownUntil(o, p) = CoolingUntil(t)
         /\ \A e \in Completed(o, p) :
              /\ CoolingUntil(e) = dreams[e].done + Cooldown
              /\ CoolingUntil(e) <= CooldownUntil(o, p)
              /\ CoolingUntil(e) \in 0..(MaxClock + Cooldown)
<1>1. \A e \in Completed(o, p) :
        /\ dreams[e].done \in Nat /\ dreams[e].done > 0 /\ dreams[e].done <= MaxClock
        /\ dreams[e].cool = dreams[e].done + Cooldown /\ Cooldown \in Nat /\ MaxClock \in Nat
  <2> SUFFICES ASSUME NEW e \in Completed(o, p)
               PROVE  /\ dreams[e].done \in Nat /\ dreams[e].done > 0 /\ dreams[e].done <= MaxClock
                      /\ dreams[e].cool = dreams[e].done + Cooldown /\ Cooldown \in Nat /\ MaxClock \in Nat
    OBVIOUS
  <2>1. e \in DOMAIN dreams /\ dreams[e].status = "completed" /\ dreams[e] \in Dream
    BY DEF Completed, Typed
  <2>2. clock \in Nat /\ clock <= MaxClock /\ MaxClock \in Nat /\ Cooldown \in Nat
    BY DEF ConfigAssumption, Typed, Times
  <2>3. dreams[e].done \in Nat
    BY <2>1 DEF Dream
  <2> QED
    BY <2>1, <2>2, <2>3 DEF Past, Stamped
<1>2. \A e \in Completed(o, p) : CoolingUntil(e) = dreams[e].done + Cooldown
  BY <1>1 DEF CoolingUntil
<1>3. CASE Completed(o, p) = {}
  <2>1. LatestCompleted(o, p) = {}
    BY <1>3 DEF LatestCompleted, Completed
  <2> QED
    BY <1>3, <2>1 DEF CooldownUntil
<1>4. CASE Completed(o, p) # {}
  <2>1. PICK t \in Completed(o, p) :
           /\ LatestCompleted(o, p) = {t}
           /\ \A e \in Completed(o, p) :
                FinishedAt(e) < FinishedAt(t) \/ (FinishedAt(e) = FinishedAt(t) /\ e <= t)
    BY <1>4, LatestIsOne
  <2>2. CooldownUntil(o, p) = dreams[t].cool
    <3>1. (CHOOSE d \in LatestCompleted(o, p) : TRUE) = t /\ LatestCompleted(o, p) # {}
      BY <2>1
    <3> QED
      BY <1>1, <3>1 DEF CooldownUntil
  <2>3. \A e \in Completed(o, p) : dreams[e].done <= dreams[t].done
    BY <1>1, <2>1 DEF FinishedAt
  <2> QED
    BY <1>1, <1>2, <1>4, <2>2, <2>3
<1> QED
  BY <1>3, <1>4

-----------------------------------------------------------------------------
\* An automatic dream waits for the cooldown

\* What a step does to a call: nothing, one of its two reads, or its end.
LEMMA CallStep ==
  ASSUME Typed, [Next]_vars, NEW s \in Schedulers
  PROVE  \/ sched'[s] = sched[s]
         \/ sched'[s].at \in {"idle", "latest", "finding"}
         \/ /\ sched[s].at = "latest" /\ sched'[s].at = "counting" /\ UNCHANGED dreams
            /\ sched'[s].observer = sched[s].observer /\ sched'[s].peer = sched[s].peer
            /\ sched'[s].manual = sched[s].manual /\ sched'[s].now = sched[s].now
            /\ sched'[s].mark = Watermark(sched[s].observer, sched[s].peer)
            /\ sched'[s].cool = CooldownUntil(sched[s].observer, sched[s].peer)
         \/ /\ sched[s].at = "counting" /\ sched'[s].at = "inserting"
            /\ UNCHANGED <<dreams, conclusions>>
            /\ sched'[s].observer = sched[s].observer /\ sched'[s].peer = sched[s].peer
            /\ sched'[s].manual = sched[s].manual /\ sched'[s].now = sched[s].now
            /\ sched'[s].elig = ReadEligibility(sched[s].observer, sched[s].peer,
                                                sched[s].mark, sched[s].cool)
            /\ Eligible(sched[s], sched'[s].elig)
<1> DEFINE Goal ==
     \/ sched'[s] = sched[s]
     \/ sched'[s].at \in {"idle", "latest", "finding"}
     \/ /\ sched[s].at = "latest" /\ sched'[s].at = "counting" /\ UNCHANGED dreams
        /\ sched'[s].observer = sched[s].observer /\ sched'[s].peer = sched[s].peer
        /\ sched'[s].manual = sched[s].manual /\ sched'[s].now = sched[s].now
        /\ sched'[s].mark = Watermark(sched[s].observer, sched[s].peer)
        /\ sched'[s].cool = CooldownUntil(sched[s].observer, sched[s].peer)
     \/ /\ sched[s].at = "counting" /\ sched'[s].at = "inserting"
        /\ UNCHANGED <<dreams, conclusions>>
        /\ sched'[s].observer = sched[s].observer /\ sched'[s].peer = sched[s].peer
        /\ sched'[s].manual = sched[s].manual /\ sched'[s].now = sched[s].now
        /\ sched'[s].elig = ReadEligibility(sched[s].observer, sched[s].peer,
                                            sched[s].mark, sched[s].cool)
        /\ Eligible(sched[s], sched'[s].elig)
<1>a. sched \in [Schedulers -> IdleCall \cup LatestCall \cup CountingCall \cup ReadyCall]
  BY DEF Typed
<1>1. ASSUME NEW t \in Schedulers, SchedulerStep(t) PROVE Goal
  <2>1. CASE t # s
    <3>1. sched'[s] = sched[s]
      BY <1>a, <1>1, <2>1 DEF SchedulerStep, Schedule, ReadLatest, CountConclusions, InsertIntent,
                              InsertFails, FindAfterFailure, Return
    <3> QED BY <3>1
  <2>2. ASSUME NEW o \in Observers, NEW p \in Peers, NEW manual \in BOOLEAN,
               Schedule(s, o, p, manual)
        PROVE  Goal
    <3>1. sched'[s].at = "latest"
      BY <1>a, <2>2 DEF Schedule
    <3> QED BY <3>1
  <2>3. ASSUME ReadLatest(s) PROVE Goal
    <3>1. /\ sched[s].at = "latest" /\ UNCHANGED dreams
          /\ sched'[s] = [at |-> "counting", observer |-> sched[s].observer, peer |-> sched[s].peer,
                          manual |-> sched[s].manual, now |-> sched[s].now,
                          mark |-> Watermark(sched[s].observer, sched[s].peer),
                          cool |-> CooldownUntil(sched[s].observer, sched[s].peer)]
      BY <1>a, <2>3 DEF ReadLatest
    <3> QED BY <3>1
  <2>4. ASSUME CountConclusions(s) PROVE Goal
    <3> DEFINE elig == ReadEligibility(sched[s].observer, sched[s].peer, sched[s].mark, sched[s].cool)
    <3>1. CASE Return(s)
      <4>1. sched'[s].at = "idle"
        BY <1>a, <3>1 DEF Return, Idle
      <4> QED BY <4>1
    <3>2. CASE ~Return(s)
      <4>1. /\ sched[s].at = "counting" /\ UNCHANGED <<dreams, conclusions>>
            /\ Eligible(sched[s], elig)
            /\ sched'[s] = [at |-> "inserting", observer |-> sched[s].observer,
                            peer |-> sched[s].peer, manual |-> sched[s].manual,
                            now |-> sched[s].now, elig |-> elig]
        BY <1>a, <2>4, <3>2 DEF CountConclusions
      <4> HIDE DEF elig
      <4>2. /\ sched'[s].at = "inserting"
            /\ sched'[s].observer = sched[s].observer /\ sched'[s].peer = sched[s].peer
            /\ sched'[s].manual = sched[s].manual /\ sched'[s].now = sched[s].now
            /\ sched'[s].elig = elig
        BY <4>1
      <4> QED BY <4>1, <4>2 DEF elig
    <3> QED BY <3>1, <3>2
  <2>5. ASSUME InsertIntent(s) \/ FindAfterFailure(s) PROVE Goal
    <3>1. sched'[s].at = "idle"
      BY <1>a, <2>5 DEF InsertIntent, FindAfterFailure, Return, Idle
    <3> QED BY <3>1
  <2>6. ASSUME InsertFails(s) PROVE Goal
    <3>1. sched[s] \in ReadyCall
      BY <1>a, <2>6 DEF InsertFails, IdleCall, LatestCall, CountingCall
    <3>2. sched'[s].at = "finding"
      BY <1>a, <2>6, <3>1 DEF InsertFails, ReadyCall
    <3> QED BY <3>2
  <2> HIDE DEF Goal
  <2> QED
    BY <1>1, <2>1, <2>2, <2>3, <2>4, <2>5, <2>6 DEF SchedulerStep
<1>2. CASE (\E w \in Writers : WriterStep(w)) \/ WorkerStep \/ Tick \/ UNCHANGED vars
  <2>1. UNCHANGED sched
    BY <1>2 DEF WriterStep, Conclude, UpsertConclusion, CancelPending, DeleteConclusion,
                WorkerStep, StartDream, CompleteDream, Tick, vars
  <2> QED BY <2>1
<1> QED
  BY <1>1, <1>2 DEF Next

\* While its only caller is on its way, a peer's completed dreams stay the same.
LEMMA NoneCompletesAhead ==
  ASSUME Typed, NoneActiveAhead, [Next]_vars, NEW s \in Schedulers,
         sched[s].at \in {"latest", "counting", "inserting"},
         \A t \in Schedulers : ~InsertIntent(t)
  PROVE  \A e \in DOMAIN dreams' :
           /\ dreams'[e].observer = sched[s].observer /\ dreams'[e].peer = sched[s].peer
           /\ dreams'[e].status = "completed"
           => e \in Completed(sched[s].observer, sched[s].peer) /\ dreams'[e] = dreams[e]
<1> DEFINE o == sched[s].observer
           p == sched[s].peer
<1> SUFFICES ASSUME NEW e \in DOMAIN dreams', dreams'[e].observer = o, dreams'[e].peer = p,
                    dreams'[e].status = "completed"
             PROVE  e \in Completed(o, p) /\ dreams'[e] = dreams[e]
  OBVIOUS
<1>1. e \in DOMAIN dreams /\ dreams[e].observer = o /\ dreams[e].peer = p
  BY RowsKept
<1>2. dreams[e].status # "in_progress"
  BY <1>1 DEF NoneActiveAhead, Active, ActiveStatuses
<1>3. dreams'[e] = dreams[e]
  BY <1>1, <1>2, CompletedRows
<1> QED
  BY <1>1, <1>3 DEF Completed

\* A call that has read the cooldown knows it of every completed dream, and one
\* about to insert an automatic dream has waited for it.
Waited ==
  \A s \in Schedulers :
    /\ sched[s].at = "counting" =>
         \A e \in DOMAIN dreams :
           /\ dreams[e].observer = sched[s].observer /\ dreams[e].peer = sched[s].peer
           /\ dreams[e].status = "completed"
           => dreams[e].done + Cooldown <= sched[s].cool
    /\ sched[s].at = "inserting" /\ ~sched[s].manual =>
         \A e \in DOMAIN dreams :
           /\ dreams[e].observer = sched[s].observer /\ dreams[e].peer = sched[s].peer
           /\ dreams[e].status = "completed"
           => dreams[e].done + Cooldown <= sched[s].now

LEMMA WaitedInductive ==
  ASSUME ConfigAssumption, \A s, t \in Schedulers : s = t,
         Typed, Past, Stamped, NoneActiveAhead, Waited, [Next]_vars
  PROVE  Waited'
<1>1. CASE \E s \in Schedulers : InsertIntent(s)
  <2>1. \A s \in Schedulers : sched'[s].at = "idle"
    BY <1>1 DEF InsertIntent, Return, Idle, Typed
  <2> QED
    BY <2>1 DEF Waited
<1>2. CASE \A s \in Schedulers : ~InsertIntent(s)
  <2> SUFFICES ASSUME NEW s \in Schedulers, NEW e \in DOMAIN dreams',
                      dreams'[e].observer = sched'[s].observer, dreams'[e].peer = sched'[s].peer,
                      dreams'[e].status = "completed"
               PROVE  /\ sched'[s].at = "counting" => dreams'[e].done + Cooldown <= sched'[s].cool
                      /\ sched'[s].at = "inserting" /\ ~sched'[s].manual
                           => dreams'[e].done + Cooldown <= sched'[s].now
    BY DEF Waited
  <2>1. CASE sched'[s] = sched[s]
    <3>1. CASE sched[s].at \in {"counting", "inserting"}
      <4>1. e \in Completed(sched[s].observer, sched[s].peer) /\ dreams'[e] = dreams[e]
        BY <1>2, <2>1, <3>1, NoneCompletesAhead
      <4> QED
        BY <2>1, <4>1 DEF Waited, Completed
    <3>2. CASE ~(sched[s].at \in {"counting", "inserting"})
      BY <2>1, <3>2
    <3> QED
      BY <3>1, <3>2
  <2>2. CASE sched'[s].at \in {"idle", "latest", "finding"}
    BY <2>2
  <2>3. CASE /\ sched'[s].at = "counting" /\ UNCHANGED dreams
             /\ sched'[s].observer = sched[s].observer /\ sched'[s].peer = sched[s].peer
             /\ sched'[s].cool = CooldownUntil(sched[s].observer, sched[s].peer)
    <3> DEFINE o == sched[s].observer
               p == sched[s].peer
    <3>1. e \in Completed(o, p) /\ dreams'[e] = dreams[e]
      BY <2>3 DEF Completed
    <3> HIDE DEF o, p
    <3>2. CoolingUntil(e) = dreams[e].done + Cooldown /\ CoolingUntil(e) <= CooldownUntil(o, p)
      BY <3>1, CooldownOfLatest
    <3> QED
      BY <2>3, <3>1, <3>2 DEF o, p
  <2>4. CASE /\ sched[s].at = "counting" /\ sched'[s].at = "inserting"
             /\ UNCHANGED <<dreams, conclusions>>
             /\ sched'[s].observer = sched[s].observer /\ sched'[s].peer = sched[s].peer
             /\ sched'[s].manual = sched[s].manual /\ sched'[s].now = sched[s].now
             /\ sched'[s].elig = ReadEligibility(sched[s].observer, sched[s].peer,
                                                 sched[s].mark, sched[s].cool)
             /\ Eligible(sched[s], sched'[s].elig)
    <3>1. dreams[e].done + Cooldown <= sched[s].cool
      BY <2>4 DEF Waited
    <3>2. sched'[s].elig.cool = sched[s].cool
      BY <2>4 DEF ReadEligibility
    <3>3. ~sched[s].manual => sched[s].cool <= sched[s].now
      BY <2>4, <3>2 DEF Eligible
    <3>4. sched[s].cool \in Nat /\ sched[s].now \in Nat
      <4>1. sched[s] \in CountingCall
        BY <2>4 DEF Typed, IdleCall, LatestCall, ReadyCall
      <4> QED
        BY <4>1 DEF CountingCall, Times
    <3>5. dreams[e].done + Cooldown \in Nat /\ dreams'[e] = dreams[e]
      BY <2>4, RowTyped DEF ConfigAssumption
    <3> QED
      BY <2>4, <3>1, <3>3, <3>4, <3>5
  <2> QED
    BY <2>1, <2>2, <2>3, <2>4, CallStep
<1> QED
  BY <1>1, <1>2

\* With one goroutine scheduling, and a worker that stamps the cooldown, every
\* automatic dream is scheduled a cooldown after every completed dream of its
\* peer, whatever writers and worker do between the reads (scheduler.go:182).
THEOREM DreamsWaitTheirCooldown ==
  (\A s, t \in Schedulers : s = t) /\ Completions \subseteq {"cooldown"}
    => (Spec => CooldownElapsed)
<1> SUFFICES ASSUME \A s, t \in Schedulers : s = t, Completions \subseteq {"cooldown"}
             PROVE  Spec => CooldownElapsed
  OBVIOUS
<1> USE ConfigAssumption
<1> DEFINE Step ==
      \A d \in NewRows :
        LET row == dreams'[d] IN
        ~row.manual =>
          \A e \in DOMAIN dreams :
            /\ dreams[e].observer = row.observer /\ dreams[e].peer = row.peer
            /\ dreams[e].status = "completed" /\ dreams[e].done > 0
            => dreams[e].done + Cooldown <= row.scheduledFor
<1>1. Init => NoneActiveAhead /\ AtMostOneActive /\ Waited
  BY DEF Init, NoneActiveAhead, AtMostOneActive, Waited, Idle
<1>2. Typed /\ Typed' /\ NoneActiveAhead /\ AtMostOneActive /\ [Next]_vars
      => NoneActiveAhead' /\ AtMostOneActive'
  BY SoleSchedulerInductive
<1>3. Typed /\ Past /\ Stamped /\ NoneActiveAhead /\ Waited /\ [Next]_vars => Waited'
  BY WaitedInductive
<1>4. ASSUME Typed, Waited, [Next]_vars PROVE Step
  <2> SUFFICES ASSUME NEW d \in NewRows, ~dreams'[d].manual, NEW e \in DOMAIN dreams,
                      dreams[e].observer = dreams'[d].observer,
                      dreams[e].peer = dreams'[d].peer, dreams[e].status = "completed"
               PROVE  dreams[e].done + Cooldown <= dreams'[d].scheduledFor
    OBVIOUS
  <2>1. PICK s \in Schedulers : sched[s].at = "inserting" /\ dreams'[d] = NewDream(sched[s])
    BY <1>4, NewRowIsInserted
  <2> QED
    BY <1>4, <2>1 DEF NewDream, Waited
<1>5. Typed /\ Waited /\ [Next]_vars => [Step]_vars
  BY <1>4
<1>6. Spec => []Stamped
  BY AlwaysStamped
<1> QED
  BY <1>1, <1>2, <1>3, <1>5, <1>6, AlwaysTyped, AlwaysPast, PTL DEF Spec, CooldownElapsed

-----------------------------------------------------------------------------
\* An automatic dream is new where none was requested by hand

\* The eligibility counts as many conclusions as it covers, all past the mark,
\* and none past its last.
LEMMA EligibilityCounts ==
  ASSUME Typed, \A c, d \in conclusions : c.id = d.id => c = d,
         NEW o, NEW p, NEW mark \in Nat, NEW cool \in Nat
  PROVE  /\ Cardinality(ReadEligibility(o, p, mark, cool).covers)
              = ReadEligibility(o, p, mark, cool).count
         /\ \A x \in ReadEligibility(o, p, mark, cool).covers :
              x > mark /\ x <= ReadEligibility(o, p, mark, cool).last
<1> DEFINE rows == {c \in conclusions : c.observer = o /\ c.peer = p /\ c.id > mark}
           ids == {c.id : c \in rows}
           f == [c \in rows |-> c.id]
<1>1. lastId \in Nat /\ \A c \in rows : c.id \in 1..lastId /\ c.id > mark
  BY DEF Typed
<1>2. IsFiniteSet(rows)
  BY FS_Subset DEF Typed
<1>3. f \in Surjection(rows, ids)
  BY DEF Surjection
<1>4. f \in Injection(rows, ids)
  BY DEF Injection, IsInjective
<1>5. ids \in SUBSET (0..lastId) /\ \A x \in ids : x > mark
  BY <1>1
<1>6. ReadEligibility(o, p, mark, cool).count = Cardinality(rows)
      /\ ReadEligibility(o, p, mark, cool).covers = ids
      /\ ReadEligibility(o, p, mark, cool).last = (IF rows = {} THEN 0 ELSE Max(ids))
  BY DEF ReadEligibility
<1>7. rows = {} <=> ids = {}
  OBVIOUS
<1> HIDE DEF rows, ids, f
<1>8. Cardinality(ids) = Cardinality(rows)
  BY <1>2, <1>3, <1>4, FS_Surjection
<1>9. ids # {} => \A x \in ids : x <= Max(ids)
  BY <1>1, <1>5, MaxOf
<1> QED
  BY <1>5, <1>6, <1>7, <1>8, <1>9

NoneManual == \A e \in DOMAIN dreams : ~dreams[e].manual

\* What a dream covers ends at its last, and a call about to insert an
\* automatic dream covers enough.
Counted ==
  /\ \A d \in DOMAIN dreams : \A x \in dreams[d].elig.covers : x <= dreams[d].elig.last
  /\ \A s \in Schedulers : sched[s].at = "inserting" =>
       /\ \A x \in sched[s].elig.covers : x <= sched[s].elig.last
       /\ ~sched[s].manual => Cardinality(sched[s].elig.covers) >= MinConclusions

\* Two dreams of one peer.
SamePeer(c, e) == dreams[c].observer = dreams[e].observer /\ dreams[c].peer = dreams[e].peer

\* Without manual dreams those of a peer follow each other: an active one comes
\* after the completed ones, and the later was finished later and covers later
\* conclusions.
Ordered ==
  \A c, e \in DOMAIN dreams : SamePeer(c, e) /\ dreams[c].status = "completed" =>
    /\ dreams[e].status \in ActiveStatuses => c < e /\ dreams[c].elig.last <= dreams[e].elig.last
    /\ dreams[e].status = "completed" /\ c <= e =>
         dreams[c].elig.last <= dreams[e].elig.last /\ FinishedAt(c) <= FinishedAt(e)

\* The completed dreams of the peer a call is for.
Before(s) ==
  {c \in DOMAIN dreams : /\ dreams[c].observer = sched[s].observer
                         /\ dreams[c].peer = sched[s].peer /\ dreams[c].status = "completed"}

\* What a call counts comes after all they covered.
Ahead ==
  \A s \in Schedulers : \A c \in Before(s) :
    /\ sched[s].at = "counting" => dreams[c].elig.last <= sched[s].mark
    /\ sched[s].at = "inserting" /\ ~sched[s].manual =>
         /\ dreams[c].elig.last <= sched[s].elig.last
         /\ \A x \in sched[s].elig.covers : x > dreams[c].elig.last

LEMMA InsertingCall ==
  ASSUME Typed, NEW s \in Schedulers, sched[s].at = "inserting"
  PROVE  /\ sched[s] \in ReadyCall /\ sched[s].elig \in Eligibility
         /\ sched[s].elig.last \in Nat /\ sched[s].elig.covers \subseteq Nat
<1>1. sched[s] \in ReadyCall
  BY DEF Typed, IdleCall, LatestCall, CountingCall
<1>2. sched[s].elig \in Eligibility
  BY <1>1 DEF ReadyCall
<1> QED
  BY <1>1, <1>2 DEF Eligibility

LEMMA CountingTyped ==
  ASSUME Typed, NEW s \in Schedulers, sched[s].at = "counting"
  PROVE  sched[s].mark \in Nat /\ sched[s].cool \in Nat
<1>1. sched[s] \in CountingCall
  BY DEF Typed, IdleCall, LatestCall, ReadyCall
<1> QED
  BY <1>1 DEF CountingCall

LEMMA RowElig ==
  ASSUME Typed, NEW d \in DOMAIN dreams
  PROVE  dreams[d].elig.last \in Nat /\ dreams[d].elig.covers \subseteq Nat /\ d \in Nat
         /\ dreams[d].elig.count \in Nat
<1>1. dreams[d].elig \in Eligibility
  BY RowTyped DEF Dream
<1> QED
  BY <1>1 DEF Eligibility, Typed

LEMMA CountedInductive ==
  ASSUME ConfigAssumption, Typed, Dated, Counted, [Next]_vars
  PROVE  Counted'
<1>1. \A d \in DOMAIN dreams' : \A x \in dreams'[d].elig.covers : x <= dreams'[d].elig.last
  <2>1. CASE \A s \in Schedulers : ~InsertIntent(s)
    BY <2>1, RowsKept DEF Counted
  <2>2. ASSUME NEW s \in Schedulers, InsertIntent(s)
        PROVE  \A d \in DOMAIN dreams' : \A x \in dreams'[d].elig.covers : x <= dreams'[d].elig.last
    <3>1. sched[s].at = "inserting"
      BY <2>2 DEF InsertIntent
    <3>2. dreams'[Len(dreams) + 1].elig = sched[s].elig
      <4>1. dreams'[Len(dreams) + 1] = NewDream(sched[s])
        BY <2>2, InsertedRow
      <4> QED
        BY <4>1 DEF NewDream
    <3>3. \A d \in DOMAIN dreams' : d \in DOMAIN dreams \/ d = Len(dreams) + 1
      BY <2>2, InsertedRow
    <3> QED
      BY <2>2, <3>1, <3>2, <3>3, InsertedRow DEF Counted
  <2> QED
    BY <2>1, <2>2
<1>2. ASSUME NEW s \in Schedulers, sched'[s].at = "inserting"
      PROVE  /\ \A x \in sched'[s].elig.covers : x <= sched'[s].elig.last
             /\ ~sched'[s].manual => Cardinality(sched'[s].elig.covers) >= MinConclusions
  <2>1. CASE sched'[s] = sched[s]
    BY <1>2, <2>1 DEF Counted
  <2>2. CASE /\ sched[s].at = "counting"
             /\ sched'[s].manual = sched[s].manual
             /\ sched'[s].elig = ReadEligibility(sched[s].observer, sched[s].peer,
                                                 sched[s].mark, sched[s].cool)
             /\ Eligible(sched[s], sched'[s].elig)
    <3>1. sched[s].mark \in Nat /\ sched[s].cool \in Nat
      BY <2>2, CountingTyped
    <3>2. /\ Cardinality(sched'[s].elig.covers) = sched'[s].elig.count
          /\ \A x \in sched'[s].elig.covers : x <= sched'[s].elig.last
      <4> DEFINE elig == ReadEligibility(sched[s].observer, sched[s].peer,
                                         sched[s].mark, sched[s].cool)
      <4>1. \A c, d \in conclusions : c.id = d.id => c = d
        BY DEF Dated
      <4>2. /\ Cardinality(elig.covers) = elig.count
            /\ \A x \in elig.covers : x <= elig.last
        BY ZenonT(40), <3>1, <4>1, EligibilityCounts
      <4> QED
        BY <2>2, <4>2
    <3>3. ~sched'[s].manual => sched'[s].elig.count >= MinConclusions
      BY <2>2 DEF Eligible
    <3> QED
      BY <3>2, <3>3
  <2> QED
    BY <1>2, <2>1, <2>2, CallStep
<1> QED
  BY <1>1, <1>2 DEF Counted

\* The watermark is past what every completed dream covered.
LEMMA MarkOfLatest ==
  ASSUME ConfigAssumption, Typed, Past, Ordered, NEW o, NEW p, NEW c \in Completed(o, p)
  PROVE  dreams[c].elig.last <= Watermark(o, p)
<1>1. PICK t \in Completed(o, p) :
         /\ LatestCompleted(o, p) = {t}
         /\ \A e \in Completed(o, p) :
              FinishedAt(e) < FinishedAt(t) \/ (FinishedAt(e) = FinishedAt(t) /\ e <= t)
  BY LatestIsOne
<1>2. Watermark(o, p) = dreams[t].elig.last
  <2>1. (CHOOSE d \in LatestCompleted(o, p) : TRUE) = t /\ LatestCompleted(o, p) # {}
    BY <1>1
  <2> QED
    BY <2>1 DEF Watermark
<1>3. /\ SamePeer(c, t) /\ SamePeer(t, c) /\ c \in DOMAIN dreams /\ t \in DOMAIN dreams
      /\ dreams[c].status = "completed" /\ dreams[t].status = "completed"
  BY <1>1 DEF Completed, SamePeer
<1>4. FinishedAt(c) \in Nat /\ FinishedAt(t) \in Nat /\ c \in Nat /\ t \in Nat
  BY <1>3, RowTyped, RowElig DEF FinishedAt
<1>5. CASE c <= t
  BY <1>2, <1>3, <1>5 DEF Ordered
<1>6. CASE t < c
  <2>1. FinishedAt(t) <= FinishedAt(c)
    BY <1>3, <1>4, <1>6 DEF Ordered
  <2>2. FinishedAt(c) < FinishedAt(t) \/ c <= t
    BY <1>1
  <2> QED
    BY <1>4, <1>6, <2>1, <2>2
<1> QED
  BY <1>4, <1>5, <1>6

\* The rows of a peer, and what its call counts, stay in order.
Fresh == NoneManual => Ordered /\ Ahead

LEMMA FreshInsert ==
  ASSUME ConfigAssumption, \A s, t \in Schedulers : s = t,
         Typed, NoneActiveAhead, Fresh, NEW s \in Schedulers, InsertIntent(s)
  PROVE  Fresh'
<1> DEFINE n == Len(dreams) + 1
<1> SUFFICES ASSUME NoneManual' PROVE Ordered' /\ Ahead'
  BY DEF Fresh
<1>1. /\ n \notin DOMAIN dreams /\ n \in Nat /\ DOMAIN dreams' = DOMAIN dreams \cup {n}
      /\ \A d \in DOMAIN dreams : dreams'[d] = dreams[d] /\ d < n /\ d \in Nat
      /\ dreams'[n] = NewDream(sched[s]) /\ dreams'[n].status = "pending"
  <2>1. /\ Len(dreams) \in Nat /\ DOMAIN dreams = 1..Len(dreams)
        /\ DOMAIN dreams' = 1..(Len(dreams) + 1)
        /\ \A d \in DOMAIN dreams : dreams'[d] = dreams[d]
        /\ dreams'[Len(dreams) + 1] = NewDream(sched[s])
        /\ dreams'[Len(dreams) + 1].status = "pending"
    BY InsertedRow
  <2>2. 1..(Len(dreams) + 1) = 1..Len(dreams) \cup {Len(dreams) + 1}
    BY <2>1
  <2> QED
    BY <2>1, <2>2
<1>2. /\ dreams'[n].observer = sched[s].observer /\ dreams'[n].peer = sched[s].peer
      /\ dreams'[n].elig = sched[s].elig /\ dreams'[n].manual = sched[s].manual
  BY <1>1 DEF NewDream
<1> HIDE DEF n
<1>3. NoneManual /\ ~sched[s].manual
  BY <1>1, <1>2 DEF NoneManual
<1>4. Ordered /\ Ahead /\ sched[s].at = "inserting"
  BY <1>3 DEF Fresh, InsertIntent
<1>5. Ahead'
  <2>1. \A t \in Schedulers : sched'[t].at = "idle"
    BY DEF InsertIntent, Return, Idle, Typed
  <2> QED
    BY <2>1 DEF Ahead
<1>6. Ordered'
  <2> SUFFICES ASSUME NEW c \in DOMAIN dreams', NEW e \in DOMAIN dreams',
                      dreams'[c].observer = dreams'[e].observer,
                      dreams'[c].peer = dreams'[e].peer, dreams'[c].status = "completed"
               PROVE  /\ dreams'[e].status \in ActiveStatuses =>
                           c < e /\ dreams'[c].elig.last <= dreams'[e].elig.last
                      /\ dreams'[e].status = "completed" /\ c <= e =>
                           /\ dreams'[c].elig.last <= dreams'[e].elig.last
                           /\ FinishedAt(c)' <= FinishedAt(e)'
    BY DEF Ordered, SamePeer
  <2>1. c \in DOMAIN dreams /\ dreams'[c] = dreams[c] /\ FinishedAt(c)' = FinishedAt(c)
    BY <1>1 DEF FinishedAt
  <2>2. CASE e \in DOMAIN dreams
    <3>1. dreams'[e] = dreams[e] /\ FinishedAt(e)' = FinishedAt(e) /\ SamePeer(c, e)
      BY <1>1, <2>1, <2>2 DEF FinishedAt, SamePeer
    <3> QED
      BY <1>4, <2>1, <2>2, <3>1 DEF Ordered
  <2>3. CASE e = n
    <3>1. c \in Before(s) /\ c < e
      BY <1>1, <1>2, <2>1, <2>3 DEF Before
    <3>2. dreams[c].elig.last <= sched[s].elig.last
      BY <1>3, <1>4, <3>1 DEF Ahead
    <3> QED
      BY <1>1, <1>2, <2>1, <2>3, <3>1, <3>2
  <2> QED
    BY <1>1, <2>2, <2>3
<1> QED
  BY <1>5, <1>6

\* A row that completes was its peer's only active one, and is its last.
LEMMA FreshRows ==
  ASSUME ConfigAssumption, Typed, Past, AtMostOneActive, NoneManual, Ordered,
         [Next]_vars, \A s \in Schedulers : ~InsertIntent(s)
  PROVE  Ordered'
<1> SUFFICES ASSUME NEW c \in DOMAIN dreams', NEW e \in DOMAIN dreams',
                    dreams'[c].observer = dreams'[e].observer,
                    dreams'[c].peer = dreams'[e].peer, dreams'[c].status = "completed"
             PROVE  /\ dreams'[e].status \in ActiveStatuses =>
                         c < e /\ dreams'[c].elig.last <= dreams'[e].elig.last
                    /\ dreams'[e].status = "completed" /\ c <= e =>
                         /\ dreams'[c].elig.last <= dreams'[e].elig.last
                         /\ FinishedAt(c)' <= FinishedAt(e)'
  BY DEF Ordered, SamePeer
<1>1. /\ c \in DOMAIN dreams /\ e \in DOMAIN dreams /\ SamePeer(c, e) /\ SamePeer(e, c)
      /\ dreams'[c].elig = dreams[c].elig /\ dreams'[e].elig = dreams[e].elig
  BY RowsKept DEF SamePeer
<1>2. dreams[c].elig.last \in Nat /\ dreams[e].elig.last \in Nat /\ c \in Nat /\ e \in Nat
  BY <1>1, RowElig
<1>3. clock \in Nat /\ clock > 0
  BY ClockGoesOn
<1>4. /\ dreams[c].done \in Nat /\ dreams[c].updated \in Nat
      /\ dreams[e].done \in Nat /\ dreams[e].updated \in Nat
  BY <1>1, RowTyped
<1>5. dreams[c].status = "completed" => FinishedAt(c) \in Nat /\ FinishedAt(c) <= clock
  BY <1>1, <1>4 DEF Past, FinishedAt
<1>6. \A d \in DOMAIN dreams : dreams'[d].status = "completed" =>
        \/ dreams'[d] = dreams[d]
        \/ dreams[d].status = "in_progress" /\ FinishedAt(d)' = clock
  <2> SUFFICES ASSUME NEW d \in DOMAIN dreams, dreams'[d].status = "completed",
                      dreams'[d] # dreams[d]
               PROVE  dreams[d].status = "in_progress" /\ FinishedAt(d)' = clock
    OBVIOUS
  <2>1. /\ dreams[d].status = "in_progress" /\ dreams'[d].updated = clock
        /\ dreams'[d].done \in {0, clock}
    BY CompletedRows
  <2> QED
    BY <1>3, <2>1 DEF FinishedAt
<1>7. dreams'[e].status \in ActiveStatuses => dreams[e].status \in ActiveStatuses
  BY <1>1, RowsKept DEF ActiveStatuses
<1>8. CASE c = e
  <2>1. dreams'[e].status \notin ActiveStatuses
    BY <1>8 DEF ActiveStatuses
  <2>2. FinishedAt(c)' \in Nat
    <3>1. CASE dreams'[c] = dreams[c]
      BY <1>4, <3>1 DEF FinishedAt
    <3>2. CASE FinishedAt(c)' = clock
      BY <1>3, <3>2
    <3> QED
      BY <1>1, <1>6, <3>1, <3>2
  <2>3. FinishedAt(e)' = FinishedAt(c)'
    BY <1>8
  <2> QED
    BY <1>1, <1>2, <1>8, <2>1, <2>2, <2>3
<1>9. CASE c # e /\ dreams[c].status = "in_progress"
  <2>1. dreams[e].status \notin ActiveStatuses
    BY <1>1, <1>9 DEF AtMostOneActive, ActiveStatuses, SamePeer
  <2>2. dreams'[e].status \notin ActiveStatuses
    BY <1>7, <2>1
  <2>3. CASE dreams'[e].status = "completed"
    <3>1. dreams'[e] = dreams[e] /\ dreams[e].status = "completed"
      BY <1>1, <1>6, <2>1, <2>3 DEF ActiveStatuses
    <3>2. e < c
      BY <1>1, <1>9, <3>1 DEF Ordered, ActiveStatuses
    <3> QED
      BY <1>2, <2>2, <3>2
  <2> QED
    BY <2>2, <2>3
<1>10. CASE c # e /\ dreams'[c] = dreams[c]
  <2>1. dreams[c].status = "completed" /\ FinishedAt(c)' = FinishedAt(c)
    BY <1>10 DEF FinishedAt
  <2>2. dreams'[e].status \in ActiveStatuses => c < e /\ dreams[c].elig.last <= dreams[e].elig.last
    BY <1>1, <1>7, <2>1 DEF Ordered
  <2>3. ASSUME dreams'[e].status = "completed", c <= e
        PROVE  /\ dreams[c].elig.last <= dreams[e].elig.last
               /\ FinishedAt(c)' <= FinishedAt(e)'
    <3>1. CASE dreams'[e] = dreams[e]
      <4>1. FinishedAt(e)' = FinishedAt(e) /\ dreams[e].status = "completed"
        BY <2>3, <3>1 DEF FinishedAt
      <4> QED
        BY <1>1, <2>1, <2>3, <4>1 DEF Ordered
    <3>2. CASE dreams[e].status = "in_progress" /\ FinishedAt(e)' = clock
      BY <1>1, <1>5, <2>1, <3>2 DEF Ordered, ActiveStatuses
    <3> QED
      BY <1>1, <1>6, <2>3, <3>1, <3>2
  <2> QED
    BY <1>1, <2>2, <2>3
<1> QED
  BY <1>1, <1>6, <1>8, <1>9, <1>10

LEMMA FreshCalls ==
  ASSUME ConfigAssumption, Typed, Dated, Past, Counted, NoneActiveAhead, Ordered, Ahead,
         [Next]_vars, \A s \in Schedulers : ~InsertIntent(s)
  PROVE  Ahead'
<1> SUFFICES ASSUME NEW s \in Schedulers, NEW c \in DOMAIN dreams',
                    dreams'[c].observer = sched'[s].observer,
                    dreams'[c].peer = sched'[s].peer, dreams'[c].status = "completed"
             PROVE  /\ sched'[s].at = "counting" => dreams'[c].elig.last <= sched'[s].mark
                    /\ sched'[s].at = "inserting" /\ ~sched'[s].manual =>
                         /\ dreams'[c].elig.last <= sched'[s].elig.last
                         /\ \A x \in sched'[s].elig.covers : x > dreams'[c].elig.last
  BY DEF Ahead, Before
<1>1. CASE sched'[s] = sched[s] /\ sched[s].at \in {"counting", "inserting"}
  <2>1. c \in Before(s) /\ dreams'[c] = dreams[c]
    <3>1. c \in Completed(sched[s].observer, sched[s].peer) /\ dreams'[c] = dreams[c]
      BY <1>1, NoneCompletesAhead
    <3> QED
      BY <3>1 DEF Completed, Before
  <2> QED
    BY <1>1, <2>1 DEF Ahead
<1>2. CASE /\ sched'[s].at = "counting" /\ UNCHANGED dreams
           /\ sched'[s].observer = sched[s].observer /\ sched'[s].peer = sched[s].peer
           /\ sched'[s].mark = Watermark(sched[s].observer, sched[s].peer)
  <2>1. c \in Completed(sched[s].observer, sched[s].peer)
    BY <1>2 DEF Completed
  <2>2. dreams[c].elig.last <= Watermark(sched[s].observer, sched[s].peer)
    BY <2>1, MarkOfLatest
  <2> QED
    BY <1>2, <2>2
<1>3. CASE /\ sched[s].at = "counting" /\ sched'[s].at = "inserting"
           /\ UNCHANGED <<dreams, conclusions>>
           /\ sched'[s].observer = sched[s].observer /\ sched'[s].peer = sched[s].peer
           /\ sched'[s].manual = sched[s].manual
           /\ sched'[s].elig = ReadEligibility(sched[s].observer, sched[s].peer,
                                               sched[s].mark, sched[s].cool)
           /\ Eligible(sched[s], sched'[s].elig)
  <2> SUFFICES ASSUME ~sched'[s].manual
               PROVE  /\ dreams[c].elig.last <= sched'[s].elig.last
                      /\ \A x \in sched'[s].elig.covers : x > dreams[c].elig.last
    BY <1>3
  <2> DEFINE elig == ReadEligibility(sched[s].observer, sched[s].peer,
                                     sched[s].mark, sched[s].cool)
  <2>1. dreams[c].elig.last <= sched[s].mark
    BY <1>3 DEF Ahead, Before
  <2>2. sched[s].mark \in Nat /\ sched[s].cool \in Nat
    BY <1>3, CountingTyped
  <2>3. \A a, b \in conclusions : a.id = b.id => a = b
    BY DEF Dated
  <2>4. /\ Cardinality(elig.covers) = elig.count
        /\ \A x \in elig.covers : x > sched[s].mark /\ x <= elig.last
    BY <2>2, <2>3, EligibilityCounts
  <2>5. elig \in Eligibility
    BY <2>2, EligibilityRead
  <2>6. elig.count >= MinConclusions /\ elig = sched'[s].elig
    BY <1>3 DEF Eligible
  <2> HIDE DEF elig
  <2>7. elig.last \in Nat /\ elig.covers \subseteq Nat /\ elig.count \in Nat
    BY <2>5 DEF Eligibility
  <2>8. elig.covers # {}
    <3>1. MinConclusions \in Nat /\ MinConclusions > 0
      BY DEF ConfigAssumption
    <3>2. elig.count # 0
      BY <2>6, <2>7, <3>1
    <3> QED
      BY <2>4, <3>2, FS_EmptySet
  <2>9. dreams[c].elig.last \in Nat
    BY <1>3, RowElig
  <2>10. \A x \in elig.covers : x > dreams[c].elig.last
    BY <2>1, <2>2, <2>4, <2>7, <2>9
  <2>11. dreams[c].elig.last <= elig.last
    BY <2>4, <2>7, <2>8, <2>9, <2>10
  <2> QED
    BY <2>6, <2>10, <2>11
<1>4. CASE sched'[s].at \in {"idle", "latest", "finding"}
  BY <1>4
<1>5. CASE sched'[s] = sched[s] /\ ~(sched[s].at \in {"counting", "inserting"})
  BY <1>5
<1> QED
  BY <1>1, <1>2, <1>3, <1>4, <1>5, CallStep

LEMMA FreshInductive ==
  ASSUME ConfigAssumption, \A s, t \in Schedulers : s = t,
         Typed, Dated, Past, Counted, NoneActiveAhead, AtMostOneActive, Fresh, [Next]_vars
  PROVE  Fresh'
<1>1. CASE \E s \in Schedulers : InsertIntent(s)
  BY <1>1, FreshInsert
<1>2. CASE \A s \in Schedulers : ~InsertIntent(s)
  <2>1. NoneManual' => NoneManual
    BY <1>2, RowsKept, CompletedRows DEF NoneManual
  <2>2. NoneManual => Ordered' /\ Ahead'
    <3> SUFFICES ASSUME NoneManual PROVE Ordered' /\ Ahead'
      OBVIOUS
    <3>1. Ordered /\ Ahead
      BY DEF Fresh
    <3> QED
      BY <1>2, <3>1, FreshRows, FreshCalls
  <2> QED
    BY <2>1, <2>2 DEF Fresh
<1> QED
  BY <1>1, <1>2

\* With one goroutine scheduling, and where no dream was ever requested by hand,
\* an automatic dream is created only for enough conclusions that no completed
\* dream of its peer covered: whatever rows are deleted, touched or stored late,
\* and whatever the worker stamps (scheduler.go:170).
THEOREM DreamsAreNew ==
  (\A s, t \in Schedulers : s = t) => (Spec => NewWithoutManual)
<1> SUFFICES ASSUME \A s, t \in Schedulers : s = t
             PROVE  Spec => NewWithoutManual
  OBVIOUS
<1> USE ConfigAssumption
<1> DEFINE Step == (\A e \in DOMAIN dreams : ~dreams[e].manual) => \A d \in NewRows : Renews(d)
<1>1. Init => NoneActiveAhead /\ AtMostOneActive /\ Counted /\ Fresh
  BY DEF Init, NoneActiveAhead, AtMostOneActive, Counted, Fresh, Ordered, Ahead, Before, Idle
<1>2. Typed /\ Typed' /\ NoneActiveAhead /\ AtMostOneActive /\ [Next]_vars
      => NoneActiveAhead' /\ AtMostOneActive'
  BY SoleSchedulerInductive
<1>3. Typed /\ Dated /\ Counted /\ [Next]_vars => Counted'
  BY CountedInductive
<1>4. Typed /\ Dated /\ Past /\ Counted /\ NoneActiveAhead /\ AtMostOneActive /\ Fresh
      /\ [Next]_vars => Fresh'
  BY FreshInductive
<1>5. ASSUME Typed, Counted, Fresh, [Next]_vars PROVE Step
  <2> SUFFICES ASSUME NoneManual, NEW d \in NewRows, ~dreams'[d].manual
               PROVE  Cardinality(dreams'[d].elig.covers
                          \ Consolidated(dreams'[d].observer, dreams'[d].peer)) >= MinConclusions
    BY DEF Renews, NoneManual
  <2>1. PICK s \in Schedulers : sched[s].at = "inserting" /\ dreams'[d] = NewDream(sched[s])
    BY <1>5, NewRowIsInserted
  <2>2. /\ dreams'[d].observer = sched[s].observer /\ dreams'[d].peer = sched[s].peer
        /\ dreams'[d].elig = sched[s].elig /\ dreams'[d].manual = sched[s].manual
    BY <2>1 DEF NewDream
  <2>3. Ahead
    BY <1>5 DEF Fresh
  <2>4. Cardinality(sched[s].elig.covers) >= MinConclusions
    BY <1>5, <2>1, <2>2 DEF Counted
  <2>5. ASSUME NEW x \in sched[s].elig.covers,
               x \in Consolidated(sched[s].observer, sched[s].peer)
        PROVE  FALSE
    <3>1. PICK c \in Before(s) : x \in dreams[c].elig.covers
      BY <2>5 DEF Consolidated, Before
    <3>2. x > dreams[c].elig.last /\ x <= dreams[c].elig.last
      BY <1>5, <2>1, <2>2, <2>3, <3>1 DEF Ahead, Before, Counted
    <3>3. x \in Nat /\ dreams[c].elig.last \in Nat
      BY <1>5, <2>1, <3>1, InsertingCall, RowElig DEF Before
    <3> QED
      BY <3>2, <3>3
  <2>6. sched[s].elig.covers \ Consolidated(sched[s].observer, sched[s].peer)
          = sched[s].elig.covers
    BY <2>5
  <2> QED
    BY <2>2, <2>4, <2>6
<1>6. Typed /\ Counted /\ Fresh /\ [Next]_vars => [Step]_vars
  BY <1>5
<1>7. Spec => []Dated
  BY DatedInit, AlwaysTyped, DatedInductive, PTL DEF Spec
<1> QED
  BY <1>1, <1>2, <1>3, <1>4, <1>6, <1>7, AlwaysTyped, AlwaysPast, PTL DEF Spec, NewWithoutManual

-----------------------------------------------------------------------------
\* What the status of the queue tells

\* A row that has a time of its own to cool down from or until.
Timed(d) == dreams[d].done > 0 \/ dreams[d].cool > 0

\* Nothing is dated later than now, or cools down for longer than from now.
Brief ==
  /\ \A c \in conclusions : c.created <= clock
  /\ \A w \in Writers : write[w].at = "upserting" => write[w].now <= clock
  /\ \A s \in Schedulers :
       /\ sched[s].at = "counting" => sched[s].cool <= clock + Cooldown
       /\ sched[s].at = "inserting" =>
            sched[s].elig.act <= clock /\ sched[s].elig.cool <= clock + Cooldown
  /\ \A d \in DOMAIN dreams :
       /\ dreams[d].elig.act <= clock /\ dreams[d].cool <= clock + Cooldown
       /\ dreams[d].status = "completed" => dreams[d].elig.act <= dreams[d].updated

\* When a completed row cools down, for the status.
LEMMA RowCools ==
  ASSUME ConfigAssumption, Typed, Past, Brief, NEW d \in DOMAIN dreams,
         dreams[d].status = "completed"
  PROVE  /\ FinishedAt(d) \in Nat /\ CoolingUntil(d) \in 1..(MaxClock + Cooldown)
         /\ CoolingUntil(d) <= clock + Cooldown
         /\ dreams[d].elig.act \in Nat
         /\ dreams[d].elig.act + Cooldown <= dreams[d].updated + Cooldown
<1>1. /\ dreams[d].done \in Nat /\ dreams[d].updated \in Nat /\ dreams[d].updated > 0
      /\ dreams[d].cool \in Nat /\ dreams[d].elig \in Eligibility
  BY RowTyped DEF Dream
<1>2. Cooldown \in Nat /\ Cooldown > 0 /\ clock \in Nat /\ MaxClock \in Nat /\ clock <= MaxClock
  BY DEF ConfigAssumption, Typed, Times
<1>3. dreams[d].elig.act \in Nat
  BY <1>1 DEF Eligibility
<1>4. dreams[d].done <= clock /\ dreams[d].updated <= clock
  BY DEF Past
<1>5. dreams[d].cool <= clock + Cooldown /\ dreams[d].elig.act <= dreams[d].updated
  BY DEF Brief
<1>6. FinishedAt(d) \in Nat /\ FinishedAt(d) <= clock
  BY <1>1, <1>4 DEF FinishedAt
<1>7. CoolingUntil(d) \in Nat /\ CoolingUntil(d) > 0 /\ CoolingUntil(d) <= clock + Cooldown
  BY <1>1, <1>2, <1>5, <1>6 DEF CoolingUntil
<1> QED
  BY <1>1, <1>2, <1>3, <1>5, <1>6, <1>7

\* Scheduling takes the cooldown from the last completed dream: as the status
\* does where that has a time of its own, and never later.
LEMMA CooldownOfLast ==
  ASSUME ConfigAssumption, Typed, Past, Brief, NEW o, NEW p
  PROVE  /\ Completed(o, p) = {} => CooldownUntil(o, p) = 0
         /\ \A t \in Completed(o, p) : LatestCompleted(o, p) = {t} =>
              /\ Timed(t) => CooldownUntil(o, p) = CoolingUntil(t)
              /\ CooldownUntil(o, p) <= CoolingUntil(t)
<1>1. CASE Completed(o, p) = {}
  <2>1. LatestCompleted(o, p) = {}
    BY <1>1 DEF LatestCompleted, Completed
  <2> QED
    BY <1>1, <2>1 DEF CooldownUntil
<1>2. ASSUME NEW t \in Completed(o, p), LatestCompleted(o, p) = {t}
      PROVE  /\ Timed(t) => CooldownUntil(o, p) = CoolingUntil(t)
             /\ CooldownUntil(o, p) <= CoolingUntil(t)
  <2>1. t \in DOMAIN dreams /\ dreams[t].status = "completed"
    BY DEF Completed
  <2>2. (CHOOSE d \in LatestCompleted(o, p) : TRUE) = t /\ LatestCompleted(o, p) # {}
    BY <1>2
  <2>3. CooldownUntil(o, p) = IF dreams[t].cool > 0 THEN dreams[t].cool
                              ELSE IF dreams[t].done > 0 THEN dreams[t].done + Cooldown
                              ELSE dreams[t].elig.act + Cooldown
    BY <2>2 DEF CooldownUntil
  <2>4. dreams[t].done \in Nat /\ dreams[t].cool \in Nat /\ dreams[t].updated \in Nat
    BY <2>1, RowTyped
  <2>5. dreams[t].elig.act + Cooldown <= dreams[t].updated + Cooldown
    BY <2>1, RowCools
  <2>6. Timed(t) => CooldownUntil(o, p) = CoolingUntil(t)
    BY <2>3, <2>4 DEF Timed, CoolingUntil, FinishedAt
  <2>7. CoolingUntil(t) \in Nat
    BY <2>1, RowCools
  <2>8. ~Timed(t) => CooldownUntil(o, p) <= CoolingUntil(t)
    BY <2>3, <2>4, <2>5 DEF Timed, CoolingUntil, FinishedAt
  <2> QED
    BY <2>6, <2>7, <2>8
<1> QED
  BY <1>1, <1>2

\* What an eligibility reads is no later than now either.
LEMMA ActivityPast ==
  ASSUME ConfigAssumption, Typed, Brief, NEW o, NEW p, NEW mark \in Nat, NEW cool \in Nat
  PROVE  /\ ReadEligibility(o, p, mark, cool).act <= clock
         /\ ReadEligibility(o, p, mark, cool).cool = cool
<1> DEFINE rows == {c \in conclusions : c.observer = o /\ c.peer = p /\ c.id > mark}
           times == {c.created : c \in rows}
<1>1. clock \in Nat
  BY DEF Typed, Times, ConfigAssumption
<1>2. times \in SUBSET (0..clock)
  <2>1. \A c \in conclusions : c.created \in Nat /\ c.created <= clock
    BY DEF Typed, Conclusion, Times, Brief
  <2> QED
    BY <1>1, <2>1
<1>3. rows # {} => times # {}
  OBVIOUS
<1>4. ReadEligibility(o, p, mark, cool).act = (IF rows = {} THEN 0 ELSE Max(times))
      /\ ReadEligibility(o, p, mark, cool).cool = cool
  BY DEF ReadEligibility, LastActivity
<1> HIDE DEF times, rows
<1>5. rows # {} => Max(times) \in 0..clock
  BY <1>1, <1>2, <1>3, MaxOf
<1> QED
  BY <1>1, <1>4, <1>5

LEMMA CooldownIsBrief ==
  ASSUME ConfigAssumption, Typed, Past, Brief, NEW o, NEW p
  PROVE  CooldownUntil(o, p) \in Nat /\ CooldownUntil(o, p) <= clock + Cooldown
<1>1. CooldownUntil(o, p) \in Nat /\ clock + Cooldown \in Nat
  BY LatestTyped DEF Typed, Times, ConfigAssumption
<1>2. CASE Completed(o, p) = {}
  BY <1>1, <1>2, CooldownOfLast
<1>3. CASE Completed(o, p) # {}
  <2>1. PICK t \in Completed(o, p) : LatestCompleted(o, p) = {t}
    BY <1>3, LatestIsOne
  <2>2. CooldownUntil(o, p) <= CoolingUntil(t)
    BY <2>1, CooldownOfLast
  <2>3. CoolingUntil(t) \in 1..(MaxClock + Cooldown) /\ CoolingUntil(t) <= clock + Cooldown
    BY RowCools DEF Completed
  <2> QED
    BY <1>1, <2>2, <2>3
<1> QED
  BY <1>2, <1>3

\* The youngest conclusions are those of writes that are on their way.
LEMMA ConclusionsStep ==
  ASSUME Typed, [Next]_vars
  PROVE  /\ \A c \in conclusions' : \/ c \in conclusions
                                    \/ \E w \in Writers : write[w].at = "upserting"
                                                          /\ c.created = write[w].now
         /\ \A w \in Writers : \/ write'[w] = write[w]
                               \/ write'[w].at # "upserting"
                               \/ write'[w].now = clock
<1> DEFINE Goal ==
     /\ \A c \in conclusions' : \/ c \in conclusions
                                \/ \E w \in Writers : write[w].at = "upserting"
                                                      /\ c.created = write[w].now
     /\ \A w \in Writers : \/ write'[w] = write[w]
                           \/ write'[w].at # "upserting"
                           \/ write'[w].now = clock
<1>a. write \in [Writers -> IdleCall \cup WriteCall]
  BY DEF Typed
<1>1. ASSUME NEW w \in Writers, NEW o \in Observers, NEW p \in Peers, NEW content \in Contents,
             Conclude(w, o, p, content)
      PROVE  Goal
  BY <1>a, <1>1 DEF Conclude
<1>2. ASSUME NEW w \in Writers, UpsertConclusion(w) PROVE Goal
  <2>1. write[w] \in WriteCall /\ write[w].at = "upserting"
    BY <1>a, <1>2 DEF UpsertConclusion, IdleCall
  <2>2. \A v \in Writers : write'[v] = write[v] \/ write'[v].at # "upserting"
    BY <1>a, <1>2, <2>1 DEF UpsertConclusion, WriteCall, Idle
  <2>3. \/ conclusions' = conclusions
        \/ conclusions' = conclusions \cup
             {[id |-> lastId + 1, observer |-> write[w].observer, peer |-> write[w].peer,
               content |-> write[w].content, created |-> write[w].now]}
    BY <1>2 DEF UpsertConclusion
  <2> QED
    BY <2>1, <2>2, <2>3
<1>3. ASSUME NEW w \in Writers, CancelPending(w) PROVE Goal
  BY <1>a, <1>3 DEF CancelPending, Idle
<1>4. ASSUME NEW w \in Writers, NEW c \in conclusions, DeleteConclusion(w, c) PROVE Goal
  BY <1>4 DEF DeleteConclusion
<1>5. CASE (\E s \in Schedulers : SchedulerStep(s)) \/ WorkerStep \/ Tick \/ UNCHANGED vars
  <2>1. UNCHANGED <<conclusions, write>>
    BY <1>5 DEF SchedulerStep, Schedule, ReadLatest, CountConclusions, InsertIntent, InsertFails,
                FindAfterFailure, WorkerStep, StartDream, CompleteDream, Tick, vars
  <2> QED
    BY <2>1
<1> QED
  BY <1>1, <1>2, <1>3, <1>4, <1>5 DEF Next, WriterStep

LEMMA BriefInductive ==
  ASSUME ConfigAssumption, Typed, Past, Brief, [Next]_vars
  PROVE  Brief'
<1>1. clock \in Nat /\ clock > 0 /\ clock' \in Nat /\ clock <= clock' /\ Cooldown \in Nat
  BY ClockGoesOn DEF ConfigAssumption
<1>2. \A c \in conclusions' : c.created <= clock'
  <2>1. \A c \in conclusions : c.created \in Nat /\ c.created <= clock
    BY DEF Typed, Conclusion, Times, Brief
  <2>2. \A w \in Writers : write[w].at = "upserting" => write[w].now \in Nat /\ write[w].now <= clock
    BY DEF Typed, IdleCall, WriteCall, Times, Brief
  <2> QED
    BY <1>1, <2>1, <2>2, ConclusionsStep
<1>3. \A w \in Writers : write'[w].at = "upserting" => write'[w].now <= clock'
  <2>1. \A w \in Writers : write[w].at = "upserting" => write[w].now \in Nat /\ write[w].now <= clock
    BY DEF Typed, IdleCall, WriteCall, Times, Brief
  <2> QED
    BY <1>1, <2>1, ConclusionsStep
<1>4. ASSUME NEW s \in Schedulers
      PROVE  /\ sched'[s].at = "counting" => sched'[s].cool <= clock' + Cooldown
             /\ sched'[s].at = "inserting" =>
                  sched'[s].elig.act <= clock' /\ sched'[s].elig.cool <= clock' + Cooldown
  <2>1. CASE sched'[s] = sched[s]
    <3>1. sched[s].at = "counting" => sched[s].cool \in Nat
      BY CountingTyped
    <3>2. sched[s].at = "inserting" => sched[s].elig.act \in Nat /\ sched[s].elig.cool \in Nat
      BY InsertingCall DEF Eligibility
    <3> QED
      BY <1>1, <2>1, <3>1, <3>2 DEF Brief
  <2>2. CASE sched'[s].at \in {"idle", "latest", "finding"}
    BY <2>2
  <2>3. CASE /\ sched'[s].at = "counting"
             /\ sched'[s].cool = CooldownUntil(sched[s].observer, sched[s].peer)
    BY <1>1, <2>3, CooldownIsBrief
  <2>4. CASE /\ sched[s].at = "counting" /\ sched'[s].at = "inserting"
             /\ sched'[s].elig = ReadEligibility(sched[s].observer, sched[s].peer,
                                                 sched[s].mark, sched[s].cool)
    <3>1. sched[s].mark \in Nat /\ sched[s].cool \in Nat
      BY <2>4, CountingTyped
    <3> DEFINE elig == ReadEligibility(sched[s].observer, sched[s].peer, sched[s].mark, sched[s].cool)
    <3>2. elig.act <= clock /\ elig.cool = sched[s].cool
      BY <3>1, ActivityPast
    <3>3. elig \in Eligibility
      BY <3>1, EligibilityRead
    <3>4. sched[s].cool <= clock + Cooldown
      BY <2>4 DEF Brief
    <3> HIDE DEF elig
    <3>5. elig.act \in Nat
      BY <3>3 DEF Eligibility
    <3>6. sched'[s].elig = elig
      BY <2>4 DEF elig
    <3> QED
      BY <1>1, <2>4, <3>1, <3>2, <3>4, <3>5, <3>6
  <2> QED
    BY <2>1, <2>2, <2>3, <2>4, CallStep
<1>5. ASSUME NEW d \in DOMAIN dreams'
      PROVE  /\ dreams'[d].elig.act <= clock' /\ dreams'[d].cool <= clock' + Cooldown
             /\ dreams'[d].status = "completed" => dreams'[d].elig.act <= dreams'[d].updated
  <2>1. \A e \in DOMAIN dreams :
          /\ dreams[e].elig.act \in Nat /\ dreams[e].cool \in Nat
          /\ dreams[e].elig.act <= clock /\ dreams[e].cool <= clock + Cooldown
    <3>1. \A e \in DOMAIN dreams : dreams[e].cool \in Nat /\ dreams[e].elig \in Eligibility
      BY RowTyped DEF Dream
    <3> QED
      BY <3>1 DEF Eligibility, Brief
  <2>2. ASSUME NEW s \in Schedulers, InsertIntent(s), d \notin DOMAIN dreams
        PROVE  /\ dreams'[d].elig.act <= clock' /\ dreams'[d].cool <= clock' + Cooldown
               /\ dreams'[d].status # "completed"
    <3>1. d = Len(dreams) + 1
      BY <2>2, InsertedRow
    <3>2. dreams'[d] = NewDream(sched[s]) /\ dreams'[d].status = "pending"
      BY <2>2, <3>1, InsertedRow
    <3>3. sched[s].at = "inserting"
      BY <2>2 DEF InsertIntent
    <3>4. dreams'[d].elig = sched[s].elig /\ dreams'[d].cool = sched[s].elig.cool
      BY <3>2 DEF NewDream
    <3>5. sched[s].elig.act \in Nat /\ sched[s].elig.cool \in Nat
      BY <3>3, InsertingCall DEF Eligibility
    <3> QED
      BY <1>1, <3>2, <3>3, <3>4, <3>5 DEF Brief
  <2>3. ASSUME NEW s \in Schedulers, InsertIntent(s), d \in DOMAIN dreams
        PROVE  dreams'[d] = dreams[d]
    BY <2>3, InsertedRow
  <2>4. ASSUME \A s \in Schedulers : ~InsertIntent(s)
        PROVE  /\ d \in DOMAIN dreams /\ dreams'[d].elig = dreams[d].elig
               /\ \/ dreams'[d] = dreams[d]
                  \/ dreams'[d].status # "completed" /\ dreams'[d].cool = dreams[d].cool
                  \/ dreams'[d].updated = clock /\ dreams'[d].cool \in {dreams[d].cool, clock + Cooldown}
    <3>1. d \in DOMAIN dreams /\ dreams'[d].elig = dreams[d].elig
      BY <2>4, RowsKept
    <3> QED
      BY <2>4, <3>1, CompletedRows
  <2>5. CASE dreams'[d] = dreams[d] /\ d \in DOMAIN dreams
    BY <1>1, <2>1, <2>5 DEF Brief
  <2>6. CASE \A s \in Schedulers : ~InsertIntent(s)
    BY <1>1, <2>1, <2>4, <2>5, <2>6
  <2> QED
    BY <2>2, <2>3, <2>5, <2>6
<1> QED
  BY <1>2, <1>3, <1>4, <1>5 DEF Brief

LEMMA AlwaysBrief == Spec => []Brief
<1> USE ConfigAssumption
<1>1. Init => Brief
  BY DEF Init, Brief, Idle
<1>2. Typed /\ Past /\ Brief /\ [Next]_vars => Brief'
  BY BriefInductive
<1> QED
  BY <1>1, <1>2, AlwaysTyped, AlwaysPast, PTL DEF Spec

\* Where one goroutine schedules, the dreams of a peer follow each other, and
\* each carries at least the cooldown of those before it.
CooledRows ==
  \A c, e \in DOMAIN dreams : SamePeer(c, e) /\ dreams[c].status = "completed" =>
    /\ dreams[e].status \in ActiveStatuses =>
         c < e /\ (Timed(c) => CoolingUntil(c) <= dreams[e].cool)
    /\ dreams[e].status = "completed" /\ c < e =>
         /\ FinishedAt(c) <= FinishedAt(e)
         /\ Timed(c) => CoolingUntil(c) <= dreams[e].cool

\* So does the call that is about to add the next.
CooledCalls ==
  \A s \in Schedulers : \A c \in Before(s) : Timed(c) =>
    /\ sched[s].at = "counting" => CoolingUntil(c) <= sched[s].cool
    /\ sched[s].at = "inserting" => CoolingUntil(c) <= sched[s].elig.cool

\* Scheduling waits for the cooldown of every row that has a time of its own.
LEMMA LastCoolsLongest ==
  ASSUME ConfigAssumption, Typed, Past, Brief, CooledRows, NEW o, NEW p,
         NEW c \in Completed(o, p), Timed(c)
  PROVE  CoolingUntil(c) <= CooldownUntil(o, p)
<1>1. PICK t \in Completed(o, p) :
         /\ LatestCompleted(o, p) = {t}
         /\ \A e \in Completed(o, p) :
              FinishedAt(e) < FinishedAt(t) \/ (FinishedAt(e) = FinishedAt(t) /\ e <= t)
  BY LatestIsOne
<1>2. /\ c \in DOMAIN dreams /\ t \in DOMAIN dreams /\ SamePeer(c, t) /\ SamePeer(t, c)
      /\ dreams[c].status = "completed" /\ dreams[t].status = "completed"
  BY <1>1 DEF Completed, SamePeer
<1>3. /\ FinishedAt(c) \in Nat /\ FinishedAt(t) \in Nat /\ c \in Nat /\ t \in Nat
      /\ CoolingUntil(c) \in Nat /\ CoolingUntil(c) > 0 /\ CoolingUntil(t) \in Nat
  <2>1. c \in Nat /\ t \in Nat
    BY <1>2, RowElig
  <2>2. FinishedAt(c) \in Nat /\ CoolingUntil(c) \in 1..(MaxClock + Cooldown)
    BY <1>2, RowCools
  <2>3. FinishedAt(t) \in Nat /\ CoolingUntil(t) \in 1..(MaxClock + Cooldown)
    BY <1>2, RowCools
  <2> QED
    BY <2>1, <2>2, <2>3
<1>4. CASE c = t
  <2>1. CooldownUntil(o, p) = CoolingUntil(t)
    BY <1>1, <1>4, CooldownOfLast
  <2> QED
    BY <1>3, <1>4, <2>1
<1>5. CASE c < t
  <2>1. CoolingUntil(c) <= dreams[t].cool
    BY <1>2, <1>5 DEF CooledRows
  <2>2. dreams[t].cool \in Nat
    BY <1>2, RowTyped
  <2>3. dreams[t].cool > 0
    BY <1>3, <2>1, <2>2
  <2>4. CooldownUntil(o, p) = CoolingUntil(t) /\ CoolingUntil(t) = dreams[t].cool
    BY <1>1, <2>3, CooldownOfLast DEF Timed, CoolingUntil
  <2> QED
    BY <2>1, <2>4
<1>6. CASE t < c
  <2>1. FinishedAt(t) <= FinishedAt(c)
    BY <1>2, <1>6 DEF CooledRows
  <2>2. FinishedAt(c) < FinishedAt(t) \/ c <= t
    BY <1>1
  <2> QED
    BY <1>3, <1>6, <2>1, <2>2
<1> QED
  BY <1>3, <1>4, <1>5, <1>6

LEMMA CooledInsert ==
  ASSUME ConfigAssumption, \A s, t \in Schedulers : s = t,
         Typed, NoneActiveAhead, CooledRows, CooledCalls, NEW s \in Schedulers, InsertIntent(s)
  PROVE  CooledRows' /\ CooledCalls'
<1> DEFINE n == Len(dreams) + 1
<1>1. /\ n \notin DOMAIN dreams /\ n \in Nat /\ DOMAIN dreams' = DOMAIN dreams \cup {n}
      /\ \A d \in DOMAIN dreams : dreams'[d] = dreams[d] /\ d < n /\ d \in Nat
      /\ dreams'[n] = NewDream(sched[s]) /\ dreams'[n].status = "pending"
  <2>1. /\ Len(dreams) \in Nat /\ DOMAIN dreams = 1..Len(dreams)
        /\ DOMAIN dreams' = 1..(Len(dreams) + 1)
        /\ \A d \in DOMAIN dreams : dreams'[d] = dreams[d]
        /\ dreams'[Len(dreams) + 1] = NewDream(sched[s])
        /\ dreams'[Len(dreams) + 1].status = "pending"
    BY InsertedRow
  <2>2. 1..(Len(dreams) + 1) = 1..Len(dreams) \cup {Len(dreams) + 1}
    BY <2>1
  <2> QED
    BY <2>1, <2>2
<1>2. /\ dreams'[n].observer = sched[s].observer /\ dreams'[n].peer = sched[s].peer
      /\ dreams'[n].cool = sched[s].elig.cool
  BY <1>1 DEF NewDream
<1> HIDE DEF n
<1>3. sched[s].at = "inserting"
  BY DEF InsertIntent
<1>4. CooledCalls'
  <2>1. \A t \in Schedulers : sched'[t].at = "idle"
    BY DEF InsertIntent, Return, Idle, Typed
  <2> QED
    BY <2>1 DEF CooledCalls
<1>5. CooledRows'
  <2> SUFFICES ASSUME NEW c \in DOMAIN dreams', NEW e \in DOMAIN dreams',
                      dreams'[c].observer = dreams'[e].observer,
                      dreams'[c].peer = dreams'[e].peer, dreams'[c].status = "completed"
               PROVE  /\ dreams'[e].status \in ActiveStatuses =>
                           c < e /\ (Timed(c)' => CoolingUntil(c)' <= dreams'[e].cool)
                      /\ dreams'[e].status = "completed" /\ c < e =>
                           /\ FinishedAt(c)' <= FinishedAt(e)'
                           /\ Timed(c)' => CoolingUntil(c)' <= dreams'[e].cool
    BY DEF CooledRows, SamePeer
  <2>1. /\ c \in DOMAIN dreams /\ dreams'[c] = dreams[c] /\ FinishedAt(c)' = FinishedAt(c)
        /\ CoolingUntil(c)' = CoolingUntil(c) /\ Timed(c)' = Timed(c)
    BY <1>1 DEF FinishedAt, CoolingUntil, Timed
  <2>2. CASE e \in DOMAIN dreams
    <3>1. dreams'[e] = dreams[e] /\ FinishedAt(e)' = FinishedAt(e) /\ SamePeer(c, e)
      BY <1>1, <2>1, <2>2 DEF FinishedAt, SamePeer
    <3> QED
      BY <2>1, <2>2, <3>1 DEF CooledRows
  <2>3. CASE e = n
    <3>1. c \in Before(s) /\ c < e
      BY <1>1, <1>2, <2>1, <2>3 DEF Before
    <3>2. Timed(c) => CoolingUntil(c) <= sched[s].elig.cool
      BY <1>3, <3>1 DEF CooledCalls
    <3> QED
      BY <1>1, <1>2, <2>1, <2>3, <3>1, <3>2
  <2> QED
    BY <1>1, <2>2, <2>3
<1> QED
  BY <1>4, <1>5

\* A row that completes was its peer's only active one, and is its last.
LEMMA CooledRowsStep ==
  ASSUME ConfigAssumption, Typed, Past, Brief, AtMostOneActive, CooledRows,
         [Next]_vars, \A s \in Schedulers : ~InsertIntent(s)
  PROVE  CooledRows'
<1> SUFFICES ASSUME NEW c \in DOMAIN dreams', NEW e \in DOMAIN dreams',
                    dreams'[c].observer = dreams'[e].observer,
                    dreams'[c].peer = dreams'[e].peer, dreams'[c].status = "completed"
             PROVE  /\ dreams'[e].status \in ActiveStatuses =>
                         c < e /\ (Timed(c)' => CoolingUntil(c)' <= dreams'[e].cool)
                    /\ dreams'[e].status = "completed" /\ c < e =>
                         /\ FinishedAt(c)' <= FinishedAt(e)'
                         /\ Timed(c)' => CoolingUntil(c)' <= dreams'[e].cool
  BY DEF CooledRows, SamePeer
<1>1. c \in DOMAIN dreams /\ e \in DOMAIN dreams /\ SamePeer(c, e) /\ SamePeer(e, c)
  BY RowsKept DEF SamePeer
<1>2. c \in Nat /\ e \in Nat
  BY <1>1, RowElig
<1>3. clock \in Nat /\ clock > 0 /\ Cooldown \in Nat
  BY ClockGoesOn DEF ConfigAssumption
<1>4. /\ dreams[c].done \in Nat /\ dreams[c].updated \in Nat
      /\ dreams[e].done \in Nat /\ dreams[e].updated \in Nat /\ dreams[e].cool \in Nat
  BY <1>1, RowTyped
<1>5. dreams[c].status = "completed" =>
        /\ FinishedAt(c) \in Nat /\ FinishedAt(c) <= clock
        /\ CoolingUntil(c) \in Nat /\ CoolingUntil(c) <= clock + Cooldown
  <2> SUFFICES ASSUME dreams[c].status = "completed"
               PROVE  /\ FinishedAt(c) \in Nat /\ FinishedAt(c) <= clock
                      /\ CoolingUntil(c) \in Nat /\ CoolingUntil(c) <= clock + Cooldown
    OBVIOUS
  <2>1. FinishedAt(c) \in Nat /\ FinishedAt(c) <= clock
    BY <1>1, <1>4 DEF Past, FinishedAt
  <2>2. CoolingUntil(c) \in 1..(MaxClock + Cooldown) /\ CoolingUntil(c) <= clock + Cooldown
    BY <1>1, RowCools
  <2> QED
    BY <2>1, <2>2
<1>6. \A d \in DOMAIN dreams :
        \/ dreams'[d] = dreams[d]
        \/ dreams'[d].status # "completed" /\ dreams'[d].cool = dreams[d].cool
        \/ /\ dreams[d].status = "in_progress" /\ dreams'[d].status = "completed"
           /\ FinishedAt(d)' = clock /\ dreams'[d].cool \in {dreams[d].cool, clock + Cooldown}
  <2> SUFFICES ASSUME NEW d \in DOMAIN dreams, dreams[d].status = "in_progress",
                      dreams'[d].status = "completed", dreams'[d].updated = clock,
                      NEW how \in Completions,
                      dreams'[d].done = (IF how = "status" THEN 0 ELSE clock),
                      dreams'[d].cool = (IF how = "cooldown" THEN clock + Cooldown ELSE dreams[d].cool)
               PROVE  FinishedAt(d)' = clock /\ dreams'[d].cool \in {dreams[d].cool, clock + Cooldown}
    BY CompletedRows
  <2> QED
    BY <1>3 DEF FinishedAt
<1>7. dreams'[e].status \in ActiveStatuses => dreams[e].status \in ActiveStatuses
  BY <1>1, RowsKept DEF ActiveStatuses
<1>8. CASE c = e
  <2>1. dreams'[e].status \notin ActiveStatuses
    BY <1>8 DEF ActiveStatuses
  <2> QED
    BY <1>2, <1>8, <2>1
<1>9. CASE c # e /\ dreams[c].status = "in_progress"
  <2>1. dreams[e].status \notin ActiveStatuses
    BY <1>1, <1>9 DEF AtMostOneActive, ActiveStatuses, SamePeer
  <2>2. dreams'[e].status \notin ActiveStatuses
    BY <1>7, <2>1
  <2>3. CASE dreams'[e].status = "completed"
    <3>1. dreams'[e] = dreams[e] /\ dreams[e].status = "completed"
      BY <1>1, <1>6, <2>1, <2>3 DEF ActiveStatuses
    <3>2. e < c
      BY <1>1, <1>9, <3>1 DEF CooledRows, ActiveStatuses
    <3> QED
      BY <1>2, <2>2, <3>2
  <2> QED
    BY <2>2, <2>3
<1>10. CASE c # e /\ dreams'[c] = dreams[c]
  <2>1. /\ dreams[c].status = "completed" /\ FinishedAt(c)' = FinishedAt(c)
        /\ CoolingUntil(c)' = CoolingUntil(c) /\ Timed(c)' = Timed(c)
    BY <1>10 DEF FinishedAt, CoolingUntil, Timed
  <2>2. ASSUME dreams'[e].status \in ActiveStatuses
        PROVE  c < e /\ (Timed(c) => CoolingUntil(c) <= dreams'[e].cool)
    <3>1. c < e /\ (Timed(c) => CoolingUntil(c) <= dreams[e].cool)
      BY <1>1, <1>7, <2>1, <2>2 DEF CooledRows
    <3>2. dreams'[e].cool = dreams[e].cool
      BY <1>1, <1>6, <2>2 DEF ActiveStatuses
    <3> QED
      BY <3>1, <3>2
  <2>3. ASSUME dreams'[e].status = "completed", c < e
        PROVE  /\ FinishedAt(c) <= FinishedAt(e)'
               /\ Timed(c) => CoolingUntil(c) <= dreams'[e].cool
    <3>1. CASE dreams'[e] = dreams[e]
      <4>1. FinishedAt(e)' = FinishedAt(e) /\ dreams[e].status = "completed"
        BY <2>3, <3>1 DEF FinishedAt
      <4> QED
        BY <1>1, <2>1, <2>3, <3>1, <4>1 DEF CooledRows
    <3>2. CASE /\ dreams[e].status = "in_progress" /\ FinishedAt(e)' = clock
               /\ dreams'[e].cool \in {dreams[e].cool, clock + Cooldown}
      <4>1. Timed(c) => CoolingUntil(c) <= dreams[e].cool
        BY <1>1, <2>1, <3>2 DEF CooledRows, ActiveStatuses
      <4> QED
        BY <1>5, <2>1, <3>2, <4>1
    <3> QED
      BY <1>1, <1>6, <2>3, <3>1, <3>2
  <2> QED
    BY <2>1, <2>2, <2>3
<1> QED
  BY <1>1, <1>6, <1>8, <1>9, <1>10

LEMMA CooledCallsStep ==
  ASSUME ConfigAssumption, Typed, Past, Brief, NoneActiveAhead, CooledRows, CooledCalls,
         [Next]_vars, \A s \in Schedulers : ~InsertIntent(s)
  PROVE  CooledCalls'
<1> SUFFICES ASSUME NEW s \in Schedulers, NEW c \in DOMAIN dreams',
                    dreams'[c].observer = sched'[s].observer,
                    dreams'[c].peer = sched'[s].peer, dreams'[c].status = "completed",
                    Timed(c)'
             PROVE  /\ sched'[s].at = "counting" => CoolingUntil(c)' <= sched'[s].cool
                    /\ sched'[s].at = "inserting" => CoolingUntil(c)' <= sched'[s].elig.cool
  BY DEF CooledCalls, Before
<1>0. dreams'[c] = dreams[c] => CoolingUntil(c)' = CoolingUntil(c) /\ Timed(c)' = Timed(c)
  BY DEF CoolingUntil, FinishedAt, Timed
<1>1. CASE sched'[s] = sched[s] /\ sched[s].at \in {"counting", "inserting"}
  <2>1. c \in Before(s) /\ dreams'[c] = dreams[c]
    <3>1. c \in Completed(sched[s].observer, sched[s].peer) /\ dreams'[c] = dreams[c]
      BY <1>1, NoneCompletesAhead
    <3> QED
      BY <3>1 DEF Completed, Before
  <2> QED
    BY <1>0, <1>1, <2>1 DEF CooledCalls
<1>2. CASE /\ sched'[s].at = "counting" /\ UNCHANGED dreams
           /\ sched'[s].observer = sched[s].observer /\ sched'[s].peer = sched[s].peer
           /\ sched'[s].cool = CooldownUntil(sched[s].observer, sched[s].peer)
  <2>1. c \in Completed(sched[s].observer, sched[s].peer) /\ Timed(c)
    BY <1>0, <1>2 DEF Completed
  <2>2. CoolingUntil(c) <= CooldownUntil(sched[s].observer, sched[s].peer)
    BY <2>1, LastCoolsLongest
  <2> QED
    BY <1>0, <1>2, <2>2
<1>3. CASE /\ sched[s].at = "counting" /\ sched'[s].at = "inserting" /\ UNCHANGED dreams
           /\ sched'[s].observer = sched[s].observer /\ sched'[s].peer = sched[s].peer
           /\ sched'[s].elig = ReadEligibility(sched[s].observer, sched[s].peer,
                                               sched[s].mark, sched[s].cool)
  <2>1. CoolingUntil(c) <= sched[s].cool
    BY <1>0, <1>3 DEF CooledCalls, Before
  <2>2. sched'[s].elig.cool = sched[s].cool
    BY <1>3 DEF ReadEligibility
  <2> QED
    BY <1>0, <1>3, <2>1, <2>2
<1>4. CASE sched'[s].at \in {"idle", "latest", "finding"}
  BY <1>4
<1>5. CASE sched'[s] = sched[s] /\ ~(sched[s].at \in {"counting", "inserting"})
  BY <1>5
<1> QED
  BY <1>1, <1>2, <1>3, <1>4, <1>5, CallStep

LEMMA AlwaysCooled ==
  (\A s, t \in Schedulers : s = t) => (Spec => []CooledRows)
<1> SUFFICES ASSUME \A s, t \in Schedulers : s = t
             PROVE  Spec => []CooledRows
  OBVIOUS
<1> USE ConfigAssumption
<1>1. Init => NoneActiveAhead /\ AtMostOneActive /\ CooledRows /\ CooledCalls
  BY DEF Init, NoneActiveAhead, AtMostOneActive, CooledRows, CooledCalls, Before, Idle
<1>2. Typed /\ Typed' /\ NoneActiveAhead /\ AtMostOneActive /\ [Next]_vars
      => NoneActiveAhead' /\ AtMostOneActive'
  BY SoleSchedulerInductive
<1>3. Typed /\ Past /\ Brief /\ NoneActiveAhead /\ AtMostOneActive /\ CooledRows /\ CooledCalls
      /\ [Next]_vars => CooledRows' /\ CooledCalls'
  <2> SUFFICES ASSUME Typed, Past, Brief, NoneActiveAhead, AtMostOneActive, CooledRows,
                      CooledCalls, [Next]_vars
               PROVE  CooledRows' /\ CooledCalls'
    OBVIOUS
  <2>1. CASE \E s \in Schedulers : InsertIntent(s)
    BY <2>1, CooledInsert
  <2>2. CASE \A s \in Schedulers : ~InsertIntent(s)
    BY <2>2, CooledRowsStep, CooledCallsStep
  <2> QED
    BY <2>1, <2>2
<1> QED
  BY <1>1, <1>2, <1>3, AlwaysTyped, AlwaysPast, AlwaysBrief, PTL DEF Spec

\* What a step does to the rows that wait or run.
LEMMA ActiveStep ==
  ASSUME Typed, Typed', [Next]_vars
  PROVE  /\ Len(dreams) \in Nat /\ Len(dreams') \in Nat /\ Len(dreams) <= Len(dreams')
         /\ \A d \in 1..Len(dreams) :
              /\ d \in DOMAIN dreams /\ d \in DOMAIN dreams'
              /\ dreams'[d].observer = dreams[d].observer
              /\ dreams'[d].status \in ActiveStatuses => dreams[d].status \in ActiveStatuses
         /\ \A d \in DOMAIN dreams' : d \in 1..Len(dreams) \/ d > Len(dreams)
<1>1. dreams \in Seq(Dream) /\ Len(dreams) \in Nat /\ DOMAIN dreams = 1..Len(dreams)
  BY DEF Typed
<1>2. ASSUME NEW s \in Schedulers, InsertIntent(s)
      PROVE  /\ Len(dreams') = Len(dreams) + 1 /\ DOMAIN dreams' = 1..(Len(dreams) + 1)
             /\ \A d \in DOMAIN dreams : dreams'[d] = dreams[d]
  <2>1. Len(dreams') = Len(dreams) + 1
    BY <1>1, <1>2 DEF InsertIntent
  <2> QED
    BY <1>2, <2>1, InsertedRow
<1>3. CASE \A s \in Schedulers : ~InsertIntent(s)
  <2>1. DOMAIN dreams' = DOMAIN dreams
    BY <1>3, RowsKept
  <2>2. Len(dreams') = Len(dreams)
    <3>1. dreams' \in Seq(Dream)
      BY DEF Typed
    <3>2. Len(dreams') \in Nat /\ DOMAIN dreams' = 1..Len(dreams')
      BY <3>1
    <3> QED
      BY <1>1, <2>1, <3>2
  <2>3. \A d \in DOMAIN dreams :
          /\ dreams'[d].observer = dreams[d].observer
          /\ dreams'[d].status \in ActiveStatuses => dreams[d].status \in ActiveStatuses
    BY <1>3, RowsKept DEF ActiveStatuses
  <2> QED
    BY <1>1, <2>1, <2>2, <2>3
<1> QED
  BY <1>1, <1>2, <1>3

\* Work is active when the observer has an active row.
LEMMA UnitsCount ==
  ASSUME Typed, NEW o
  PROVE  AnyActive(WorkUnits(o)) <=> ActiveOf(o) # {}
<1> DEFINE of(st) == {d \in {x \in DOMAIN dreams : dreams[x].observer = o} : dreams[d].status = st}
<1>1. \A st \in {"pending", "in_progress"} :
        Cardinality(of(st)) \in Nat /\ (Cardinality(of(st)) = 0 <=> of(st) = {})
  <2> SUFFICES ASSUME NEW st \in {"pending", "in_progress"}
               PROVE  Cardinality(of(st)) \in Nat /\ (Cardinality(of(st)) = 0 <=> of(st) = {})
    OBVIOUS
  <2>1. IsFiniteSet(1..Len(dreams)) /\ of(st) \in SUBSET (1..Len(dreams))
    BY FS_Interval DEF Typed
  <2>2. IsFiniteSet(of(st))
    BY <2>1, FS_Subset
  <2> HIDE DEF of
  <2> QED
    BY <2>2, FS_CardinalityType, FS_EmptySet
<1>2. WorkUnits(o).pending = Cardinality(of("pending"))
      /\ WorkUnits(o).running = Cardinality(of("in_progress"))
  BY DEF WorkUnits
<1>3. ActiveOf(o) = of("pending") \cup of("in_progress")
  BY DEF ActiveOf, ActiveStatuses
<1> HIDE DEF of
<1> QED
  BY <1>1, <1>2, <1>3 DEF AnyActive

\* The evidence names rows that wait or run, and some when there are any.
LEMMA ActiveShown ==
  ASSUME ConfigAssumption, Typed, NEW o
  PROVE  /\ \A e \in ActiveEvidence(o) : e.dream \in ActiveOf(o) /\ e.code # "dream_cooldown"
         /\ ActiveOf(o) # {} => ActiveEvidence(o) # {}
<1> DEFINE S == ActiveOf(o)
           f == [d \in S |-> dreams[d].updated]
           N == {d \in S : Cardinality({e \in S : dreams[e].updated > dreams[d].updated
                            \/ (dreams[e].updated = dreams[d].updated /\ e > d)}) < EvidenceRows}
<1>1. ActiveEvidence(o) = {RowEvidence(d) : d \in N}
  BY DEF ActiveEvidence, Newest
<1>2. S \in SUBSET (0..Len(dreams)) /\ Len(dreams) \in Nat /\ MaxClock \in Nat
      /\ EvidenceRows \in Nat \ {0} /\ S \subseteq DOMAIN dreams
  BY DEF Typed, ConfigAssumption, ActiveOf
<1>3. \A d \in S : dreams[d].updated \in 0..MaxClock
  <2> SUFFICES ASSUME NEW d \in S PROVE dreams[d].updated \in 0..MaxClock
    OBVIOUS
  <2>1. d \in DOMAIN dreams
    BY <1>2
  <2>2. dreams[d].updated \in 1..MaxClock
    BY <2>1, RowTyped
  <2> QED
    BY <1>2, <2>2
<1>4. \A d \in S : RowEvidence(d).code # "dream_cooldown" /\ RowEvidence(d).dream = d
  BY DEF ActiveOf, ActiveStatuses, RowEvidence, EvidenceCode
<1>5. ASSUME S # {} PROVE N # {}
  <2>1. \A d \in S : f[d] = dreams[d].updated /\ f[d] \in 0..MaxClock
    BY <1>3
  <2> HIDE DEF S, f
  <2>a. EvidenceRows \in Nat \ {0} /\ S # {} /\ S \in SUBSET (0..Len(dreams)) /\ Len(dreams) \in Nat
    BY <1>2, <1>5
  <2>2. \E t \in S : Cardinality(Above(S, f, t)) < EvidenceRows
    BY <1>2, <2>a, <2>1, NewestShown
  <2> PICK t \in S : Cardinality(Above(S, f, t)) < EvidenceRows
    BY <2>2
  <2>3. Above(S, f, t)
          = {e \in S : dreams[e].updated > dreams[t].updated
                         \/ (dreams[e].updated = dreams[t].updated /\ e > t)}
    BY <2>1 DEF Above
  <2>4. t \in N
    BY <2>3
  <2> QED
    BY <2>4
<1>6. N \subseteq S
  OBVIOUS
<1> HIDE DEF N
<1> QED
  BY <1>1, <1>4, <1>5, <1>6

\* It names completed rows that cool down, and some when there are any.
LEMMA CooldownShown ==
  ASSUME ConfigAssumption, Typed, Past, Brief, NEW o, NEW now
  PROVE  /\ \A e \in CooldownEvidence(o, now) :
              /\ e.code = "dream_cooldown" /\ e.dream \in CoolingOf(o, now)
              /\ e.observed = dreams[e.dream].peer /\ e.cool = CoolingUntil(e.dream)
         /\ CoolingOf(o, now) # {} => CooldownEvidence(o, now) # {}
<1> DEFINE S == CoolingOf(o, now)
           f == [d \in S |-> CoolingUntil(d)]
           shown(d) == [RowEvidence(d) EXCEPT !.code = "dream_cooldown", !.cool = CoolingUntil(d)]
           N == {d \in S : Cardinality({e \in S : CoolingUntil(e) > CoolingUntil(d)
                            \/ (CoolingUntil(e) = CoolingUntil(d) /\ e > d)}) < EvidenceRows}
<1>1. CooldownEvidence(o, now) = {shown(d) : d \in N}
  BY DEF CooldownEvidence, Newest
<1>2. S \in SUBSET (0..Len(dreams)) /\ Len(dreams) \in Nat /\ MaxClock + Cooldown \in Nat
      /\ EvidenceRows \in Nat \ {0}
  BY DEF Typed, ConfigAssumption, CoolingOf
<1>3. \A d \in S : CoolingUntil(d) \in 0..(MaxClock + Cooldown)
  <2> SUFFICES ASSUME NEW d \in S PROVE CoolingUntil(d) \in 0..(MaxClock + Cooldown)
    OBVIOUS
  <2>1. d \in DOMAIN dreams /\ dreams[d].status = "completed"
    BY DEF CoolingOf
  <2>2. CoolingUntil(d) \in 1..(MaxClock + Cooldown)
    BY <2>1, RowCools
  <2> QED
    BY <1>2, <2>2
<1>4. \A d : /\ shown(d).code = "dream_cooldown" /\ shown(d).dream = d
             /\ shown(d).observed = dreams[d].peer /\ shown(d).cool = CoolingUntil(d)
  BY DEF RowEvidence
<1>5. ASSUME S # {} PROVE N # {}
  <2>1. \A d \in S : f[d] = CoolingUntil(d) /\ f[d] \in 0..(MaxClock + Cooldown)
    BY <1>3
  <2> HIDE DEF S, f
  <2>a. EvidenceRows \in Nat \ {0} /\ S # {} /\ S \in SUBSET (0..Len(dreams)) /\ Len(dreams) \in Nat
    BY <1>2, <1>5
  <2>2. \E t \in S : Cardinality(Above(S, f, t)) < EvidenceRows
    BY <1>2, <2>a, <2>1, NewestShown
  <2> PICK t \in S : Cardinality(Above(S, f, t)) < EvidenceRows
    BY <2>2
  <2>3. Above(S, f, t)
          = {e \in S : CoolingUntil(e) > CoolingUntil(t)
                         \/ (CoolingUntil(e) = CoolingUntil(t) /\ e > t)}
    BY <2>1 DEF Above
  <2>4. t \in N
    BY <2>3
  <2> QED
    BY <2>4
<1>6. N \subseteq S
  OBVIOUS
<1> HIDE DEF N, shown
<1> QED
  BY <1>1, <1>4, <1>5, <1>6

\* What a call for the status knows of the rows that wait or run: a row of its
\* observer that does is one it began with, or younger.
Watched ==
  /\ asked = [r \in Readers |-> asked[r]]
  /\ \A r \in Readers : asked[r].at # "idle" =>
       /\ asked[r].known \in Nat /\ asked[r].known <= Len(dreams) /\ asked[r].now \in Nat
       /\ \A d \in asked[r].active : d \in 1..asked[r].known
                                     /\ dreams[d].observer = asked[r].observer
       /\ \A d \in ActiveOf(asked[r].observer) : d \in asked[r].active \/ d > asked[r].known

\* What it has counted, and named.
Told ==
  \A r \in Readers :
    /\ asked[r].at \in {"naming", "cooling"} =>
         /\ AnyActive(asked[r].units) => asked[r].active # {} \/ Len(dreams) > asked[r].known
         /\ ~AnyActive(asked[r].units) =>
              \A d \in ActiveOf(asked[r].observer) : d > asked[r].known
    /\ asked[r].at = "cooling" =>
         /\ \A e \in asked[r].named : e.code # "dream_cooldown"
         /\ ~AnyActive(asked[r].units) => \A e \in asked[r].named : e.dream > asked[r].known
         /\ (\E d \in asked[r].active : dreams[d].status \in ActiveStatuses)
              => asked[r].named # {}

LEMMA ToldKept ==
  ASSUME Typed, Typed', Watched, Told, [Next]_vars, UNCHANGED asked
  PROVE  Watched' /\ Told'
<1>1. \A r \in Readers : asked[r].at # "idle" =>
        /\ asked[r].known \in Nat /\ asked[r].known <= Len(dreams) /\ asked[r].now \in Nat
        /\ \A d \in asked[r].active : d \in 1..asked[r].known
                                      /\ dreams[d].observer = asked[r].observer
        /\ \A d \in ActiveOf(asked[r].observer) : d \in asked[r].active \/ d > asked[r].known
  BY DEF Watched
<1>2. /\ Len(dreams) \in Nat /\ Len(dreams') \in Nat /\ Len(dreams) <= Len(dreams')
      /\ \A d \in 1..Len(dreams) :
           /\ d \in DOMAIN dreams /\ d \in DOMAIN dreams'
           /\ dreams'[d].observer = dreams[d].observer
           /\ dreams'[d].status \in ActiveStatuses => dreams[d].status \in ActiveStatuses
      /\ \A d \in DOMAIN dreams' : d \in 1..Len(dreams) \/ d > Len(dreams)
  BY ActiveStep
<1>3. \A o : \A d \in ActiveOf(o)' : d \in ActiveOf(o) \/ d > Len(dreams)
  BY <1>2 DEF ActiveOf
<1>4. ASSUME NEW r \in Readers, asked[r].at # "idle"
      PROVE  /\ asked[r].known \in Nat /\ asked[r].known <= Len(dreams') /\ asked[r].now \in Nat
             /\ \A d \in asked[r].active : d \in 1..asked[r].known
                                           /\ dreams'[d].observer = asked[r].observer
             /\ \A d \in ActiveOf(asked[r].observer)' : d \in asked[r].active \/ d > asked[r].known
  <2>1. asked[r].known \in Nat /\ asked[r].known <= Len(dreams) /\ asked[r].now \in Nat
    BY <1>1, <1>4
  <2>2. ASSUME NEW d \in asked[r].active
        PROVE  d \in 1..asked[r].known /\ dreams'[d].observer = asked[r].observer
    <3>1. d \in 1..asked[r].known /\ dreams[d].observer = asked[r].observer
      BY <1>1, <1>4
    <3> QED
      BY <1>2, <2>1, <3>1
  <2>3. ASSUME NEW d \in ActiveOf(asked[r].observer)'
        PROVE  d \in asked[r].active \/ d > asked[r].known
    <3>1. d \in DOMAIN dreams'
      BY DEF ActiveOf
    <3> QED
      BY <1>1, <1>2, <1>3, <1>4, <2>1, <3>1
  <2> QED
    BY <1>2, <2>1, <2>2, <2>3
<1>5. ASSUME NEW r \in Readers, asked[r].at \in {"naming", "cooling"}
      PROVE  /\ AnyActive(asked[r].units) => asked[r].active # {} \/ Len(dreams') > asked[r].known
             /\ ~AnyActive(asked[r].units) =>
                  \A d \in ActiveOf(asked[r].observer)' : d > asked[r].known
  <2>1. asked[r].known \in Nat /\ asked[r].known <= Len(dreams)
    BY <1>1, <1>5
  <2>2. /\ AnyActive(asked[r].units) => asked[r].active # {} \/ Len(dreams) > asked[r].known
        /\ ~AnyActive(asked[r].units) =>
             \A d \in ActiveOf(asked[r].observer) : d > asked[r].known
    BY <1>5 DEF Told
  <2>3. \A d \in ActiveOf(asked[r].observer)' : d \in DOMAIN dreams'
    BY DEF ActiveOf
  <2> QED
    BY <1>2, <1>3, <2>1, <2>2, <2>3
<1>6. ASSUME NEW r \in Readers, asked[r].at = "cooling"
      PROVE  /\ \A e \in asked[r].named : e.code # "dream_cooldown"
             /\ ~AnyActive(asked[r].units) => \A e \in asked[r].named : e.dream > asked[r].known
             /\ (\E d \in asked[r].active : dreams'[d].status \in ActiveStatuses)
                  => asked[r].named # {}
  <2>1. /\ \A e \in asked[r].named : e.code # "dream_cooldown"
        /\ ~AnyActive(asked[r].units) => \A e \in asked[r].named : e.dream > asked[r].known
        /\ (\E d \in asked[r].active : dreams[d].status \in ActiveStatuses)
             => asked[r].named # {}
    BY <1>6 DEF Told
  <2>2. ASSUME NEW d \in asked[r].active, dreams'[d].status \in ActiveStatuses
        PROVE  dreams[d].status \in ActiveStatuses
    <3>1. d \in 1..asked[r].known /\ asked[r].known \in Nat /\ asked[r].known <= Len(dreams)
      BY <1>1, <1>6
    <3> QED
      BY <1>2, <2>2, <3>1
  <2> QED
    BY <2>1, <2>2
<1>7. Watched'
  <2>1. asked' = [r \in Readers |-> asked'[r]]
    BY DEF Watched
  <2> QED
    BY <1>4, <2>1 DEF Watched
<1>8. Told'
  BY <1>5, <1>6 DEF Told
<1> QED
  BY <1>7, <1>8

LEMMA ToldStep ==
  ASSUME ConfigAssumption, Typed, Watched, Told, NEW r \in Readers, StatusStep(r), UNCHANGED vars
  PROVE  Watched' /\ Told'
<1>0. asked = [q \in Readers |-> asked[q]] /\ UNCHANGED <<dreams, clock>>
  BY DEF Watched, vars
<1>1. \A o : ActiveOf(o)' = ActiveOf(o)
  BY <1>0 DEF ActiveOf
<1>2. Len(dreams) \in Nat /\ clock \in Nat /\ \A o : ActiveOf(o) \subseteq 1..Len(dreams)
  BY DEF Typed, Times, ActiveOf, ConfigAssumption
\* It is enough to look at the call that takes the step.
<1>3. ASSUME asked' = [asked EXCEPT ![r] = asked'[r]],
             asked'[r].at # "idle" =>
               /\ asked'[r].known \in Nat /\ asked'[r].known <= Len(dreams) /\ asked'[r].now \in Nat
               /\ \A d \in asked'[r].active : d \in 1..asked'[r].known
                                              /\ dreams[d].observer = asked'[r].observer
               /\ \A d \in ActiveOf(asked'[r].observer) : d \in asked'[r].active \/ d > asked'[r].known,
             asked'[r].at \in {"naming", "cooling"} =>
               /\ AnyActive(asked'[r].units) => asked'[r].active # {} \/ Len(dreams) > asked'[r].known
               /\ ~AnyActive(asked'[r].units) =>
                    \A d \in ActiveOf(asked'[r].observer) : d > asked'[r].known,
             asked'[r].at = "cooling" =>
               /\ \A e \in asked'[r].named : e.code # "dream_cooldown"
               /\ ~AnyActive(asked'[r].units) => \A e \in asked'[r].named : e.dream > asked'[r].known
               /\ (\E d \in asked'[r].active : dreams[d].status \in ActiveStatuses)
                    => asked'[r].named # {}
      PROVE  Watched' /\ Told'
  <2>1. asked' = [q \in Readers |-> asked'[q]] /\ \A q \in Readers \ {r} : asked'[q] = asked[q]
    BY <1>0, <1>3
  <2>2. Watched'
    BY <1>0, <1>1, <1>3, <2>1 DEF Watched
  <2>3. Told'
    BY <1>0, <1>1, <1>3, <2>1 DEF Told
  <2> QED
    BY <2>2, <2>3
<1>4. ASSUME NEW o \in Observers, AskStatus(r, o) PROVE Watched' /\ Told'
  <2>1. asked'[r] = [at |-> "counting", observer |-> o, now |-> clock,
                     active |-> ActiveOf(o), known |-> Len(dreams)]
        /\ asked' = [asked EXCEPT ![r] = asked'[r]]
    BY <1>0, <1>4 DEF AskStatus
  <2>2. \A d \in ActiveOf(o) : dreams[d].observer = o
    BY DEF ActiveOf
  <2> QED
    BY <1>2, <1>3, <2>1, <2>2
<1>5. ASSUME CountUnits(r) PROVE Watched' /\ Told'
  <2>1. /\ asked'[r] = [at |-> "naming", observer |-> asked[r].observer, now |-> asked[r].now,
                        active |-> asked[r].active, known |-> asked[r].known,
                        units |-> WorkUnits(asked[r].observer)]
        /\ asked' = [asked EXCEPT ![r] = asked'[r]] /\ asked[r].at = "counting"
    BY <1>0, <1>5 DEF CountUnits
  <2>2. /\ asked[r].known \in Nat /\ asked[r].known <= Len(dreams) /\ asked[r].now \in Nat
        /\ \A d \in asked[r].active : d \in 1..asked[r].known
                                      /\ dreams[d].observer = asked[r].observer
        /\ \A d \in ActiveOf(asked[r].observer) : d \in asked[r].active \/ d > asked[r].known
    BY <2>1 DEF Watched
  <2>3. AnyActive(WorkUnits(asked[r].observer)) <=> ActiveOf(asked[r].observer) # {}
    BY UnitsCount
  <2>4. ActiveOf(asked[r].observer) # {} => asked[r].active # {} \/ Len(dreams) > asked[r].known
    <3> SUFFICES ASSUME NEW d \in ActiveOf(asked[r].observer)
                 PROVE  asked[r].active # {} \/ Len(dreams) > asked[r].known
      OBVIOUS
    <3>1. d \in 1..Len(dreams)
      BY <1>2
    <3> QED
      BY <1>2, <2>2, <3>1
  <2> DEFINE units == WorkUnits(asked[r].observer)
             active == ActiveOf(asked[r].observer)
  <2>5. asked'[r].units = units /\ (AnyActive(units) <=> active # {})
    BY <2>1, <2>3
  <2> HIDE DEF units
  <2> QED
    BY <1>3, <2>1, <2>2, <2>4, <2>5
<1>6. ASSUME NameActive(r) PROVE Watched' /\ Told'
  <2>1. /\ asked'[r] = [at |-> "cooling", observer |-> asked[r].observer, now |-> asked[r].now,
                        active |-> asked[r].active, known |-> asked[r].known,
                        units |-> asked[r].units, named |-> ActiveEvidence(asked[r].observer)]
        /\ asked' = [asked EXCEPT ![r] = asked'[r]] /\ asked[r].at = "naming"
    BY <1>0, <1>6 DEF NameActive
  <2>2. /\ asked[r].known \in Nat /\ asked[r].known <= Len(dreams) /\ asked[r].now \in Nat
        /\ \A d \in asked[r].active : d \in 1..asked[r].known
                                      /\ dreams[d].observer = asked[r].observer
        /\ \A d \in ActiveOf(asked[r].observer) : d \in asked[r].active \/ d > asked[r].known
    BY <2>1 DEF Watched
  <2>3. /\ AnyActive(asked[r].units) => asked[r].active # {} \/ Len(dreams) > asked[r].known
        /\ ~AnyActive(asked[r].units) =>
             \A d \in ActiveOf(asked[r].observer) : d > asked[r].known
    BY <2>1 DEF Told
  <2>4. /\ \A e \in ActiveEvidence(asked[r].observer) :
             e.dream \in ActiveOf(asked[r].observer) /\ e.code # "dream_cooldown"
        /\ ActiveOf(asked[r].observer) # {} => ActiveEvidence(asked[r].observer) # {}
    BY ActiveShown
  <2>5. ASSUME NEW d \in asked[r].active, dreams[d].status \in ActiveStatuses
        PROVE  ActiveOf(asked[r].observer) # {}
    <3>1. d \in 1..Len(dreams) /\ dreams[d].observer = asked[r].observer
      BY <1>2, <2>2
    <3>2. d \in DOMAIN dreams
      BY <3>1 DEF Typed
    <3> QED
      BY <2>5, <3>1, <3>2 DEF ActiveOf
  <2> DEFINE named == ActiveEvidence(asked[r].observer)
             active == ActiveOf(asked[r].observer)
  <2>6. /\ asked'[r].named = named /\ \A e \in named : e.dream \in active /\ e.code # "dream_cooldown"
        /\ active # {} => named # {}
    BY <2>1, <2>4
  <2> HIDE DEF named
  <2> QED
    BY <1>3, <2>1, <2>2, <2>3, <2>5, <2>6
<1>7. ASSUME TellStatus(r) \/ StatusFails(r) PROVE Watched' /\ Told'
  <2>1. asked'[r].at = "idle" /\ asked' = [asked EXCEPT ![r] = asked'[r]]
    BY <1>0, <1>7 DEF TellStatus, StatusFails, Answered, Idle
  <2> QED
    BY <1>3, <2>1
<1> QED
  BY <1>4, <1>5, <1>6, <1>7 DEF StatusStep

\* What the last statement makes of it.
LEMMA StatusIsTrue ==
  ASSUME ConfigAssumption, Typed, Past, Brief, CooledRows, Watched, Told
  PROVE  StatusTellsGates
<1> SUFFICES ASSUME NEW r \in Readers, asked[r].at = "cooling"
    PROVE
    LET call == asked[r]
        o == call.observer
        told == QueueStatus(call)
        active == {d \in call.active : dreams[d].status \in ActiveStatuses}
        shown == {e \in told.evidence : e.code # "dream_cooldown"}
    IN
    /\ active # {} => told.status = "active" /\ shown # {}
    /\ told.status = "active" => call.active # {} \/ Len(dreams) > call.known
    /\ told.status # "active" =>
         /\ \A e \in shown : e.dream > call.known
         /\ \A d \in ActiveOf(o) : d > call.known
    /\ told.status = "idle" => \A p \in Peers : CooldownUntil(o, p) <= call.now
    /\ \A e \in told.evidence \ shown :
         dreams[e.dream].done > 0 \/ dreams[e.dream].cool > 0 =>
           CooldownUntil(o, e.observed) > call.now /\ e.cool <= CooldownUntil(o, e.observed)
  BY DEF StatusTellsGates
<1> DEFINE call == asked[r]
           o == call.observer
           told == QueueStatus(call)
           active == {d \in call.active : dreams[d].status \in ActiveStatuses}
           shown == {e \in told.evidence : e.code # "dream_cooldown"}
           cooling == CooldownEvidence(o, call.now)
<1>1. /\ told.evidence = call.named \cup cooling
      /\ told.status = "active" <=> AnyActive(call.units)
      /\ told.status = "idle" => \A e \in told.evidence : e.code # "dream_cooldown"
  BY DEF QueueStatus
<1>2. /\ call.known \in Nat /\ call.known <= Len(dreams) /\ call.now \in Nat
      /\ \A d \in call.active : d \in 1..call.known /\ dreams[d].observer = o
      /\ \A d \in ActiveOf(o) : d \in call.active \/ d > call.known
  BY DEF Watched
<1>3. /\ AnyActive(call.units) => call.active # {} \/ Len(dreams) > call.known
      /\ ~AnyActive(call.units) => \A d \in ActiveOf(o) : d > call.known
      /\ \A e \in call.named : e.code # "dream_cooldown"
      /\ ~AnyActive(call.units) => \A e \in call.named : e.dream > call.known
      /\ active # {} => call.named # {}
  BY DEF Told
<1>4. /\ \A e \in cooling :
           /\ e.code = "dream_cooldown" /\ e.dream \in CoolingOf(o, call.now)
           /\ e.observed = dreams[e.dream].peer /\ e.cool = CoolingUntil(e.dream)
      /\ CoolingOf(o, call.now) # {} => cooling # {}
  BY CooldownShown
<1> HIDE DEF told, cooling
<1>5. shown = call.named
  BY <1>1, <1>3, <1>4
<1>6. told.evidence \ shown \subseteq cooling
  BY <1>1, <1>5
<1>7. ASSUME active # {} PROVE told.status = "active" /\ shown # {}
  <2>1. PICK d \in call.active : dreams[d].status \in ActiveStatuses
    BY <1>7
  <2>2. d \in DOMAIN dreams /\ d \in ActiveOf(o) /\ d \in Nat /\ d <= call.known
    <3>1. d \in 1..call.known /\ dreams[d].observer = o /\ Len(dreams) \in Nat
      BY <1>2 DEF Typed
    <3>2. d \in DOMAIN dreams
      BY <1>2, <3>1 DEF Typed
    <3> QED
      BY <1>2, <2>1, <3>1, <3>2 DEF ActiveOf
  <2>3. AnyActive(call.units)
    BY <1>2, <1>3, <2>2
  <2> QED
    BY <1>1, <1>3, <1>5, <1>7, <2>3
<1>8. ASSUME told.status = "idle", NEW p \in Peers PROVE CooldownUntil(o, p) <= call.now
  <2>1. CoolingOf(o, call.now) = {}
    <3>1. cooling = {}
      BY <1>1, <1>4, <1>8
    <3> QED
      BY <1>4, <3>1
  <2>2. CASE Completed(o, p) = {}
    BY <1>2, <2>2, CooldownOfLast
  <2>3. CASE Completed(o, p) # {}
    <3>1. PICK t \in Completed(o, p) : LatestCompleted(o, p) = {t}
      BY <2>3, LatestIsOne
    <3>2. CooldownUntil(o, p) <= CoolingUntil(t)
      BY <3>1, CooldownOfLast
    <3>3. t \in DOMAIN dreams /\ dreams[t].status = "completed" /\ dreams[t].observer = o
      BY DEF Completed
    <3>4. CoolingUntil(t) \in 1..(MaxClock + Cooldown)
      BY <3>3, RowCools
    <3>5. ~(CoolingUntil(t) > call.now)
      BY <2>1, <3>3 DEF CoolingOf
    <3>6. CooldownUntil(o, p) \in Nat
      BY LatestTyped
    <3> QED
      BY <1>2, <3>2, <3>4, <3>5, <3>6
  <2> QED
    BY <2>2, <2>3
<1>9. ASSUME NEW e \in told.evidence \ shown,
             dreams[e.dream].done > 0 \/ dreams[e.dream].cool > 0
      PROVE  CooldownUntil(o, e.observed) > call.now /\ e.cool <= CooldownUntil(o, e.observed)
  <2> DEFINE d == e.dream
  <2>1. /\ d \in CoolingOf(o, call.now) /\ e.observed = dreams[d].peer
        /\ e.cool = CoolingUntil(d)
    BY <1>4, <1>6
  <2>2. /\ d \in DOMAIN dreams /\ dreams[d].status = "completed"
        /\ d \in Completed(o, e.observed) /\ CoolingUntil(d) > call.now
    BY <2>1 DEF CoolingOf, Completed
  <2>3. Timed(d)
    BY <1>9 DEF Timed
  <2>4. CoolingUntil(d) <= CooldownUntil(o, e.observed)
    BY <2>2, <2>3, LastCoolsLongest
  <2>5. CoolingUntil(d) \in 1..(MaxClock + Cooldown) /\ CooldownUntil(o, e.observed) \in Nat
    BY <2>2, RowCools, LatestTyped
  <2>6. MaxClock + Cooldown \in Nat
    BY DEF ConfigAssumption
  <2> HIDE DEF d
  <2> QED
    BY <1>2, <2>1, <2>2, <2>4, <2>5, <2>6
<1> HIDE DEF active, shown
<1>10. /\ active # {} => told.status = "active" /\ shown # {}
       /\ told.status = "active" => call.active # {} \/ Len(dreams) > call.known
       /\ told.status # "active" =>
            /\ \A e \in shown : e.dream > call.known
            /\ \A d \in ActiveOf(o) : d > call.known
  BY <1>1, <1>3, <1>5, <1>7
<1> HIDE DEF call, o
<1>11. /\ told.status = "idle" => \A p \in Peers : CooldownUntil(o, p) <= call.now
       /\ \A e \in told.evidence \ shown :
            dreams[e.dream].done > 0 \/ dreams[e.dream].cool > 0 =>
              CooldownUntil(o, e.observed) > call.now /\ e.cool <= CooldownUntil(o, e.observed)
  BY <1>8, <1>9
<1> QED
  BY <1>10, <1>11 DEF call, o, told, active, shown

\* A status only reads, so what holds of scheduling holds where it is asked for.
LEMMA WatchedIsSpec == WatchedSpec => Spec
<1>1. [WatchedNext]_<<vars, asked>> => [Next]_vars
  BY DEF WatchedNext, vars
<1> QED
  BY <1>1, PTL DEF WatchedSpec, Spec

\* Where one goroutine schedules, whatever the worker stamps on a completed dream,
\* for any number of readers, writers and peers: a status that is put together
\* from three statements, between which everything else goes on, is true of the
\* dreams its call began with, and its cooldowns are those a request waits for
\* but for a row with no time of its own (status.go:120-269, scheduler.go:326-358).
THEOREM StatusAgreesWithScheduling ==
  (\A s, t \in Schedulers : s = t) => (WatchedSpec => []StatusTellsGates)
<1> SUFFICES ASSUME \A s, t \in Schedulers : s = t
             PROVE  WatchedSpec => []StatusTellsGates
  OBVIOUS
<1> USE ConfigAssumption
<1>1. Init /\ AskedInit => Watched /\ Told
  BY DEF Init, AskedInit, Watched, Told, Idle
<1>2. Typed /\ Typed' /\ Watched /\ Told /\ [WatchedNext]_<<vars, asked>> => Watched' /\ Told'
  <2> SUFFICES ASSUME Typed, Typed', Watched, Told, [WatchedNext]_<<vars, asked>>
               PROVE  Watched' /\ Told'
    OBVIOUS
  <2>1. CASE Next /\ UNCHANGED asked
    BY <2>1, ToldKept
  <2>2. ASSUME NEW r \in Readers, StatusStep(r), UNCHANGED vars
        PROVE  Watched' /\ Told'
    BY <2>2, ToldStep
  <2>3. CASE UNCHANGED <<vars, asked>>
    BY <2>3, ToldKept
  <2> QED
    BY <2>1, <2>2, <2>3 DEF WatchedNext
<1>3. Typed /\ Past /\ Brief /\ CooledRows /\ Watched /\ Told => StatusTellsGates
  BY StatusIsTrue
<1>4. Spec => []CooledRows
  BY AlwaysCooled
<1> QED
  BY <1>1, <1>2, <1>3, <1>4, WatchedIsSpec, AlwaysTyped, AlwaysPast, AlwaysBrief, PTL
  DEF WatchedSpec
=============================================================================
