---------------------------- MODULE StoresProofs ----------------------------
(***************************************************************************)
(* What MCStores checks of its stores, proved for any goroutines, any      *)
(* sessions with any keys and any number of writes and chunks: each store  *)
(* behaves as its module says, and the module's promise holds.             *)
(***************************************************************************)
EXTENDS MCStores, FiniteSetTheorems, SequenceTheorems, TLAPS

-----------------------------------------------------------------------------
\* The memory slots

LEMMA SlotsInit == Init => Slots!Init
BY DEF Init, Slots!FacadeInit

LEMMA SlotsStep ==
  /\ part = "slots" /\ [Next]_vars => (part = "slots")' /\ [Slots!Next]_(Slots!vars)
  /\ ~(part = "slots") /\ [Next]_vars => ~(part = "slots")'
BY DEF Next, vars, slotVars, Slots!vars

\* A write to a slot is lost only to a later one that started or replaced the value or had
\* read the row before it (memory_slots.go:119-133, 286-297), whatever the other stores do.
THEOREM SlotWritesLostOnlyToStaleOnes == Spec => []WritesLostOnlyToStaleOnes
<1>1. Spec /\ part = "slots" => Slots!Spec
  BY SlotsInit, SlotsStep, PTL DEF Spec, Slots!Spec
<1>2. Spec /\ ~(part = "slots") => []~(part = "slots")
  BY SlotsStep, PTL DEF Spec
<1>3. (~(part = "slots") \/ Slots!WritesLostOnlyToStaleOnes) => WritesLostOnlyToStaleOnes
  BY DEF WritesLostOnlyToStaleOnes
<1>4. Slots!Spec => []Slots!WritesLostOnlyToStaleOnes
  BY Slots!LostOnlyToStale
<1> QED
  BY <1>1, <1>2, <1>3, <1>4, PTL

LEMMA FacadeStep ==
  /\ part = "facade" /\ [Next]_vars => (part = "facade")' /\ [Slots!FacadeNext]_(Slots!allVars)
  /\ ~(part = "facade") /\ [Next]_vars => ~(part = "facade")'
BY DEF Next, vars, slotVars, Slots!allVars, Slots!vars, Slots!facadeVars

\* Every write to a slot has its observation, and its revision names it among those it had
\* read (memory_slots.go:131, 158, 185 and 307-327); the history of the facade says once and
\* truly what each write replaced (memory_facade.go:165-178 and 190-205), whatever the other
\* stores do.
THEOREM ChangesAreTold == Spec => []ChangesTold
<1>1. Spec /\ part = "slots" => Slots!Spec
  BY SlotsInit, SlotsStep, PTL DEF Spec, Slots!Spec
<1>2. Spec /\ ~(part = "slots") => []~(part = "slots")
  BY SlotsStep, PTL DEF Spec
<1>3. Init => Slots!FacadeInit
  BY DEF Init
<1>4. Spec /\ part = "facade" => Slots!FacadeSpec
  BY <1>3, FacadeStep, PTL DEF Spec, Slots!FacadeSpec
<1>5. Spec /\ ~(part = "facade") => []~(part = "facade")
  BY FacadeStep, PTL DEF Spec
<1>6. /\ ~(part = "slots") \/ (Slots!WritesAudited /\ Slots!RevisionsTellVersions)
      /\ ~(part = "facade") \/ Slots!HistoryTellsWrites
      => ChangesTold
  BY DEF ChangesTold
<1>7. Slots!Spec => [](Slots!WritesAudited /\ Slots!RevisionsTellVersions)
  BY Slots!WritesAreAudited, Slots!RevisionsIdentify, PTL
<1>8. Slots!FacadeSpec => []Slots!HistoryTellsWrites
  BY Slots!HistoryTells
<1> QED
  BY <1>1, <1>2, <1>4, <1>5, <1>6, <1>7, <1>8, PTL

-----------------------------------------------------------------------------
\* The webhooks

HookEvents == {again, once}
HookResult ==
  [event : HookEvents, attempt : Nat, id : Ids \cup {Hooks!NoEndpoint},
   status : {"delivered", "retryable", "failed", "skipped", "endpoint_disabled"},
   outcome : {"2xx", "passing", "other", "none"}]
HookCall ==
  [at : {"send", "record", "disable"}, event : HookEvents, attempt : Nat,
   listed : SUBSET Ids, todo : SUBSET Ids, off : SUBSET Ids,
   result : HookResult \cup {Hooks!Idle}, retry : BOOLEAN]

HookShape ==
  /\ table \subseteq Ids /\ attempts \subseteq HookResult
  /\ disabled \in [Ids -> Hooks!Reasons \cup {"no"}] /\ late \in [Ids -> Nat]
  /\ tries \in [HookEvents -> 0..MaxAttempts] /\ retry \in [HookEvents -> BOOLEAN]
  /\ delivery \in [Clients -> HookCall \cup {Hooks!Idle}]

\* The result of a call that records it, or disables its endpoint.
ResultFits(c) ==
  /\ c.result \in HookResult /\ c.result.event = c.event /\ c.result.attempt = c.attempt
  /\ c.result.id \notin c.todo
  /\ c.result.status = "failed" /\ c.result.outcome = "passing" => c.attempt = MaxAttempts

Recorded(c, i) == \E a \in attempts : a.id = i /\ a.event = c.event /\ a.attempt = c.attempt

\* A call is the next attempt of its event, and has recorded what it is done with.
CallFits(c) ==
  /\ c.attempt = tries[c.event] + 1 /\ c.attempt <= MaxAttempts
  /\ c.retry => c.attempt < MaxAttempts
  /\ c.at # "send" => ResultFits(c)
  /\ c.at = "disable" =>
       c.result \in attempts /\ c.result.status = "failed" /\ c.result.id # Hooks!NoEndpoint
  /\ \A i \in c.listed \ c.todo : Recorded(c, i) \/ (c.at = "record" /\ c.result.id = i)

Running(w) == delivery[w] # Hooks!Idle

\* The calls that may still post to an endpoint.
MayPost(i) == {w \in Clients : Running(w) /\ i \in delivery[w].todo \ delivery[w].off}

PostsLeft ==
  \A i \in Ids :
    IF disabled[i] = "no" THEN late[i] = 0
    ELSE late[i] + Cardinality(MayPost(i)) < Cardinality(Clients)

HookCalls ==
  \A w \in Clients : Running(w) =>
    /\ CallFits(delivery[w])
    /\ \A v \in Clients \ {w} : Running(v) => delivery[v].event # delivery[w].event

FailedPast ==
  \A f \in failed : f.event \in HookEvents /\ f.attempt \in Nat /\ f.attempt <= tries[f.event]
RetriesStop == \A e \in HookEvents : tries[e] = MaxAttempts => ~retry[e]

HookInv ==
  HookShape /\ HookCalls /\ FailedPast /\ RetriesStop /\ Hooks!DisabledTellsFailures /\ PostsLeft

\* A call's next result is recorded next.
LEMMA WithResultIs ==
  ASSUME NEW c \in HookCall, NEW r \in HookResult, NEW d, d = Hooks!WithResult(c, r)
  PROVE  /\ d \in HookCall /\ d.at = "record" /\ d.event = c.event /\ d.attempt = c.attempt
         /\ d.listed = c.listed /\ d.todo = c.todo \ {r.id} /\ d.off = c.off /\ d.result = r
         /\ d.retry = (c.retry \/ r.status = "retryable")
<1> USE DEF Hooks!WithResult, HookCall
<1>1. d.at = "record"
  OBVIOUS
<1>2. d.event = c.event
  OBVIOUS
<1>3. d.attempt = c.attempt
  OBVIOUS
<1>4. d.listed = c.listed
  OBVIOUS
<1>5. d.todo = c.todo \ {r.id}
  OBVIOUS
<1>6. d.off = c.off
  OBVIOUS
<1>7. d.result = r
  OBVIOUS
<1>8. d.retry = (c.retry \/ r.status = "retryable")
  OBVIOUS
<1>9. d \in HookCall
  OBVIOUS
<1> QED
  BY <1>1, <1>2, <1>3, <1>4, <1>5, <1>6, <1>7, <1>8, <1>9

\* The calls of other workers rest, as long as the last attempt of their event does.
LEMMA CallStays ==
  ASSUME HookInv, NEW v \in Clients, Running(v), delivery'[v] = delivery[v],
         tries'[delivery[v].event] = tries[delivery[v].event], attempts \subseteq attempts'
  PROVE  CallFits(delivery[v])'
<1>1. CallFits(delivery[v])
  BY DEF HookInv, HookCalls
<1>2. \A i : Recorded(delivery[v], i) => Recorded(delivery[v], i)'
  BY DEF Recorded
<1> QED
  BY <1>1, <1>2 DEF CallFits, ResultFits

\* A call goes on with the same attempt.
LEMMA CallGoesOn ==
  ASSUME HookInv, NEW w \in Clients, NEW c \in HookCall, Running(w),
         delivery' = [delivery EXCEPT ![w] = c], c.event = delivery[w].event, CallFits(c)',
         tries' = tries, retry' = retry, failed' = failed, attempts \subseteq attempts'
  PROVE  HookCalls' /\ FailedPast' /\ RetriesStop'
<1>1. /\ delivery'[w] = c /\ \A v \in Clients \ {w} : delivery'[v] = delivery[v]
      /\ \A v \in Clients : Running(v)' => Running(v)
  BY DEF HookInv, HookShape, Running
<1>2. \A v \in Clients : Running(v)' => CallFits(delivery[v])'
  <2> SUFFICES ASSUME NEW v \in Clients, Running(v)' PROVE CallFits(delivery[v])'
    OBVIOUS
  <2>1. CASE v = w
    BY <1>1, <2>1 DEF CallFits, ResultFits, Recorded
  <2>2. CASE v # w
    BY <1>1, <2>2, CallStays
  <2> QED
    BY <2>1, <2>2
<1>3. \A v, u \in Clients : Running(v) /\ Running(u) /\ v # u => delivery'[v].event # delivery'[u].event
  BY <1>1 DEF HookInv, HookCalls
<1>4. HookCalls'
  BY <1>1, <1>2, <1>3 DEF HookCalls
<1> QED
  BY <1>4 DEF HookInv, FailedPast, RetriesStop

\* A call returns: its event has one more attempt, and no retry after the last one.
LEMMA CallReturns ==
  ASSUME HookInv, NEW w \in Clients, Running(w), Hooks!Return(w), attempts \subseteq attempts',
         failed' \in {failed, failed \cup {delivery[w].result}},
         delivery[w].at # "send"
  PROVE  /\ HookCalls' /\ FailedPast' /\ RetriesStop'
         /\ tries' \in [HookEvents -> 0..MaxAttempts] /\ retry' \in [HookEvents -> BOOLEAN]
         /\ delivery' \in [Clients -> HookCall \cup {Hooks!Idle}]
         /\ ~Running(w)' /\ \A v \in Clients \ {w} : delivery'[v] = delivery[v]
<1>1. /\ delivery[w] \in HookCall /\ CallFits(delivery[w])
      /\ \A v \in Clients \ {w} : Running(v) => delivery[v] \in HookCall /\ delivery[v].event # delivery[w].event
  BY DEF HookInv, HookShape, HookCalls, Running
<1>2. PICK e : e = delivery[w].event
  OBVIOUS
<1>3. PICK n : n = delivery[w].attempt
  OBVIOUS
<1>4. /\ e \in HookEvents /\ n \in 1..MaxAttempts /\ n = tries[e] + 1 /\ delivery[w].retry \in BOOLEAN
      /\ delivery[w].retry => n < MaxAttempts
  <2>1. e \in HookEvents /\ n \in Nat /\ n = tries[e] + 1 /\ n <= MaxAttempts
    BY <1>1, <1>2, <1>3 DEF HookCall, CallFits
  <2>2. tries[e] \in Nat /\ MaxAttempts \in Nat
    BY <2>1, HookAssumption DEF HookInv, HookShape
  <2> QED
    BY <1>1, <1>2, <1>3, <2>1, <2>2 DEF HookCall, CallFits
<1>5. /\ tries' = [tries EXCEPT ![e] = n] /\ retry' = [retry EXCEPT ![e] = delivery[w].retry]
      /\ delivery' = [delivery EXCEPT ![w] = Hooks!Idle]
  BY <1>2, <1>3 DEF Hooks!Return
<1>6. /\ tries \in [HookEvents -> 0..MaxAttempts] /\ retry \in [HookEvents -> BOOLEAN]
      /\ delivery \in [Clients -> HookCall \cup {Hooks!Idle}] /\ MaxAttempts \in Nat
  BY HookAssumption DEF HookInv, HookShape
<1>7. /\ tries' \in [HookEvents -> 0..MaxAttempts] /\ retry' \in [HookEvents -> BOOLEAN]
      /\ delivery' \in [Clients -> HookCall \cup {Hooks!Idle}]
      /\ tries'[e] = n /\ retry'[e] = delivery[w].retry /\ delivery'[w] = Hooks!Idle
      /\ \A f \in HookEvents \ {e} : tries'[f] = tries[f] /\ retry'[f] = retry[f]
      /\ \A v \in Clients \ {w} : delivery'[v] = delivery[v]
  BY <1>4, <1>5, <1>6
<1>8. ~Running(w)'
  BY <1>7 DEF Running
<1>9. HookCalls'
  <2> SUFFICES ASSUME NEW v \in Clients, Running(v)'
               PROVE  /\ CallFits(delivery[v])'
                      /\ \A u \in Clients \ {v} : Running(u)' => delivery'[u].event # delivery'[v].event
    BY DEF HookCalls
  <2>1. v # w /\ Running(v) /\ delivery'[v] = delivery[v]
    BY <1>7, <1>8 DEF Running
  <2>2. delivery[v].event \in HookEvents \ {e}
    BY <1>1, <1>2, <2>1 DEF HookCall
  <2>3. CallFits(delivery[v])'
    BY <1>7, <2>1, <2>2, CallStays
  <2>4. \A u \in Clients \ {v} : Running(u)' => u # w /\ Running(u) /\ delivery'[u] = delivery[u]
    BY <1>7, <1>8 DEF Running
  <2> QED
    BY <2>1, <2>3, <2>4 DEF HookInv, HookCalls
<1>10. FailedPast'
  <2> SUFFICES ASSUME NEW f \in failed'
               PROVE  f.event \in HookEvents /\ f.attempt \in Nat /\ f.attempt <= tries'[f.event]
    BY DEF FailedPast
  <2>1. CASE f \in failed
    <3>1. f.event \in HookEvents /\ f.attempt \in Nat /\ f.attempt <= tries[f.event]
      BY <2>1 DEF HookInv, FailedPast
    <3>2. /\ tries[f.event] \in Nat /\ tries'[f.event] \in Nat
          /\ tries[f.event] <= tries'[f.event]
      BY <1>4, <1>6, <1>7, <3>1
    <3> QED
      BY <3>1, <3>2
  <2>2. CASE f = delivery[w].result
    <3>1. f.event = e /\ f.attempt = n
      BY <1>1, <1>2, <1>3, <2>2 DEF CallFits, ResultFits
    <3> QED
      BY <1>4, <1>7, <3>1
  <2> QED
    BY <2>1, <2>2
<1>11. RetriesStop'
  BY <1>4, <1>7 DEF HookInv, RetriesStop
<1> QED
  BY <1>7, <1>8, <1>9, <1>10, <1>11

\* An endpoint is posted to by one call less, or by the same.
LEMMA PostsKept ==
  ASSUME HookInv, disabled' = disabled, late' = late,
         \A i \in Ids : disabled[i] # "no" => MayPost(i)' \subseteq MayPost(i)
  PROVE  PostsLeft'
<1> SUFFICES ASSUME NEW i \in Ids, disabled[i] # "no"
             PROVE  late[i] + Cardinality(MayPost(i)') < Cardinality(Clients)
  BY DEF PostsLeft, HookInv
<1>1. IsFiniteSet(MayPost(i)) /\ IsFiniteSet(Clients) /\ MayPost(i)' \subseteq MayPost(i)
  BY HookAssumption, FS_Subset DEF MayPost
<1>2. Cardinality(MayPost(i)') <= Cardinality(MayPost(i))
  BY <1>1, FS_Subset
<1>3. late[i] + Cardinality(MayPost(i)) < Cardinality(Clients) /\ late[i] \in Nat
  BY DEF HookInv, PostsLeft, HookShape
<1>4. /\ Cardinality(MayPost(i)) \in Nat /\ Cardinality(MayPost(i)') \in Nat
      /\ Cardinality(Clients) \in Nat
  BY <1>1, FS_Subset, FS_CardinalityType
<1> QED
  BY <1>2, <1>3, <1>4

\* What tells of the failures stays, as long as no result and no mark comes.
LEMMA TellingKept ==
  ASSUME HookInv, attempts' = attempts, disabled' = disabled, failed' = failed,
         \A w \in Clients : Running(w) /\ delivery[w].at = "disable" => delivery'[w] = delivery[w]
  PROVE  Hooks!DisabledTellsFailures'
<1>1. \A w \in Clients : delivery[w].at = "disable" => Running(w)
  BY DEF Running, Hooks!Idle
<1> QED
  BY <1>1 DEF HookInv, Hooks!DisabledTellsFailures

LEMMA EndpointsStep ==
  ASSUME HookInv, NEW i \in Ids, Hooks!Delete(i) \/ \E limit \in Limits : Hooks!GetOrCreate(i, limit)
  PROVE  HookInv'
<1>1. /\ table' \subseteq Ids
      /\ UNCHANGED <<disabled, attempts, tries, retry, delivery, failed, late>>
  BY DEF Hooks!Delete, Hooks!GetOrCreate, HookInv, HookShape
<1>2. HookShape' /\ FailedPast' /\ RetriesStop'
  BY <1>1 DEF HookInv, HookShape, FailedPast, RetriesStop
<1>3. HookCalls'
  BY <1>1 DEF HookInv, HookCalls, Running, CallFits, ResultFits, Recorded
<1>4. \A e \in Ids : MayPost(e)' = MayPost(e)
  BY <1>1 DEF MayPost, Running
<1> QED
  BY <1>1, <1>2, <1>3, <1>4, PostsKept, TellingKept DEF HookInv

\* The next endpoint's result: the call is done with the endpoint.
LEMMA NextResult ==
  ASSUME HookInv, NEW w \in Clients, delivery[w].at = "send", NEW i \in delivery[w].todo,
         NEW r \in HookResult, r.event = delivery[w].event, r.attempt = delivery[w].attempt, r.id = i,
         r.status = "retryable" => delivery[w].attempt < MaxAttempts,
         r.status = "failed" /\ r.outcome = "passing" => delivery[w].attempt = MaxAttempts,
         delivery' = [delivery EXCEPT ![w] = Hooks!WithResult(delivery[w], r)],
         UNCHANGED <<table, disabled, attempts, tries, retry, failed>>, late' \in [Ids -> Nat]
  PROVE  /\ HookShape' /\ HookCalls' /\ FailedPast' /\ RetriesStop' /\ Hooks!DisabledTellsFailures'
         /\ MayPost(i)' = MayPost(i) \ {w} /\ \A e \in Ids : MayPost(e)' \subseteq MayPost(e)
<1>1. PICK c : c = delivery[w]
  OBVIOUS
<1>2. PICK d : d = Hooks!WithResult(c, r)
  OBVIOUS
<1>3. c.at = "send" /\ c # Hooks!Idle /\ Running(w) /\ c \in HookCall /\ CallFits(c)
  BY <1>1 DEF HookInv, HookShape, HookCalls, Running, Hooks!Idle
<1>4. /\ d \in HookCall /\ d.at = "record" /\ d.event = c.event /\ d.attempt = c.attempt
      /\ d.listed = c.listed /\ d.todo = c.todo \ {i} /\ d.off = c.off /\ d.result = r
      /\ d.retry = (c.retry \/ r.status = "retryable")
  BY <1>1, <1>2, <1>3, WithResultIs
<1>5. d # Hooks!Idle /\ c.retry \in BOOLEAN
  BY <1>3, <1>4 DEF Hooks!Idle, HookCall
<1>6. /\ delivery' = [delivery EXCEPT ![w] = d] /\ delivery'[w] = d
      /\ \A v \in Clients \ {w} : delivery'[v] = delivery[v]
      /\ delivery' \in [Clients -> HookCall \cup {Hooks!Idle}]
  BY <1>1, <1>2, <1>4 DEF HookInv, HookShape
<1>7. CallFits(d)'
  <2>1. \A e : Recorded(c, e) => Recorded(d, e)'
    BY <1>4 DEF Recorded
  <2>2. d.retry => d.attempt < MaxAttempts
    BY <1>1, <1>3, <1>4, <1>5 DEF CallFits
  <2>3. ResultFits(d)
    BY <1>1, <1>4 DEF ResultFits
  <2>4. \A e \in d.listed \ d.todo : Recorded(d, e)' \/ (d.at = "record" /\ d.result.id = e)
    BY <1>3, <1>4, <2>1 DEF CallFits
  <2>5. d.attempt = tries'[d.event] + 1 /\ d.attempt <= MaxAttempts
    BY <1>3, <1>4 DEF CallFits
  <2> QED
    BY <1>4, <2>2, <2>3, <2>4, <2>5 DEF CallFits, ResultFits
<1>8. HookCalls' /\ FailedPast' /\ RetriesStop'
  BY <1>1, <1>3, <1>4, <1>6, <1>7, CallGoesOn
<1>9. HookShape'
  BY <1>6 DEF HookInv, HookShape
<1>10. Hooks!DisabledTellsFailures'
  BY <1>1, <1>3, <1>6, TellingKept
<1>11. MayPost(i)' = MayPost(i) \ {w} /\ \A e \in Ids : MayPost(e)' \subseteq MayPost(e)
  <2>1. /\ Running(w)' /\ Running(w) /\ \A v \in Clients \ {w} : Running(v)' = Running(v)
    BY <1>3, <1>5, <1>6 DEF Running
  <2>2. delivery'[w].todo \ delivery'[w].off = (delivery[w].todo \ delivery[w].off) \ {i}
    BY <1>1, <1>4, <1>6
  <2> QED
    BY <1>6, <2>1, <2>2 DEF MayPost
<1> QED
  BY <1>8, <1>9, <1>10, <1>11

LEMMA SkipStep ==
  ASSUME HookInv, NEW w \in Clients, NEW i \in Ids, Hooks!SkipDisabled(w, i)
  PROVE  HookInv'
<1>1. PICK r : r = Hooks!Result(delivery[w], i, "endpoint_disabled", "none")
  OBVIOUS
<1>2. /\ delivery[w].at = "send" /\ i \in delivery[w].todo
      /\ delivery' = [delivery EXCEPT ![w] = Hooks!WithResult(delivery[w], r)]
      /\ UNCHANGED <<table, disabled, attempts, tries, retry, failed, late>>
  BY <1>1 DEF Hooks!SkipDisabled, Hooks!Skipping
<1>3. delivery[w] \in HookCall
  BY <1>2 DEF HookInv, HookShape, Hooks!Idle
<1>4. /\ r \in HookResult /\ r.event = delivery[w].event /\ r.attempt = delivery[w].attempt /\ r.id = i
      /\ r.status = "endpoint_disabled"
  BY <1>1, <1>3 DEF Hooks!Result, HookResult, HookCall
<1>5. late' \in [Ids -> Nat]
  BY <1>2 DEF HookInv, HookShape
<1>6. /\ HookShape' /\ HookCalls' /\ FailedPast' /\ RetriesStop' /\ Hooks!DisabledTellsFailures'
      /\ \A e \in Ids : MayPost(e)' \subseteq MayPost(e)
  BY <1>2, <1>4, <1>5, NextResult
<1>7. PostsLeft'
  BY <1>2, <1>6, PostsKept
<1> QED
  BY <1>6, <1>7 DEF HookInv

LEMMA PostStep ==
  ASSUME HookInv, NEW w \in Clients, NEW i \in Ids, NEW outcome \in {"2xx", "passing", "other"},
         Hooks!Post(w, i, outcome)
  PROVE  HookInv'
<1>1. PICK r : r = Hooks!Result(delivery[w], i, Hooks!Status(outcome, delivery[w].attempt), outcome)
  OBVIOUS
<1>2. /\ delivery[w].at = "send" /\ i \in delivery[w].todo \ delivery[w].off
      /\ delivery' = [delivery EXCEPT ![w] = Hooks!WithResult(delivery[w], r)]
      /\ late' = [late EXCEPT ![i] = IF disabled[i] # "no" THEN @ + 1 ELSE @]
      /\ UNCHANGED <<table, disabled, attempts, tries, retry, failed>>
  BY <1>1 DEF Hooks!Post, Hooks!Off
<1>3. delivery[w] \in HookCall /\ Running(w) /\ CallFits(delivery[w])
  BY <1>2 DEF HookInv, HookShape, HookCalls, Running, Hooks!Idle
<1>4. /\ delivery[w].attempt \in Nat /\ MaxAttempts \in Nat /\ delivery[w].attempt <= MaxAttempts
      /\ delivery[w].event \in HookEvents
  BY <1>3, HookAssumption DEF HookCall, CallFits
<1>5. Hooks!Status(outcome, delivery[w].attempt) \in {"delivered", "retryable", "failed"}
  BY DEF Hooks!Status
<1>6. /\ r \in HookResult /\ r.event = delivery[w].event /\ r.attempt = delivery[w].attempt /\ r.id = i
      /\ r.status = Hooks!Status(outcome, delivery[w].attempt) /\ r.outcome = outcome
  BY <1>1, <1>4, <1>5 DEF Hooks!Result, HookResult
<1>7. /\ r.status = "retryable" => delivery[w].attempt < MaxAttempts
      /\ r.status = "failed" /\ r.outcome = "passing" => delivery[w].attempt = MaxAttempts
  BY <1>4, <1>6 DEF Hooks!Status, Hooks!Exhausted
<1>8. late \in [Ids -> Nat] /\ late' \in [Ids -> Nat]
  BY <1>2 DEF HookInv, HookShape
<1>9. /\ HookShape' /\ HookCalls' /\ FailedPast' /\ RetriesStop' /\ Hooks!DisabledTellsFailures'
      /\ MayPost(i)' = MayPost(i) \ {w} /\ \A e \in Ids : MayPost(e)' \subseteq MayPost(e)
  BY <1>2, <1>6, <1>7, <1>8, NextResult
<1>10. PostsLeft'
  <2> SUFFICES ASSUME NEW e \in Ids
               PROVE  IF disabled[e] = "no" THEN late'[e] = 0
                      ELSE late'[e] + Cardinality(MayPost(e)') < Cardinality(Clients)
    BY <1>2 DEF PostsLeft
  <2>1. CASE disabled[e] = "no"
    BY <1>2, <1>8, <2>1 DEF HookInv, PostsLeft
  <2>2. CASE disabled[e] # "no"
    <3>1. IsFiniteSet(MayPost(e)) /\ IsFiniteSet(Clients) /\ MayPost(e)' \subseteq MayPost(e)
      BY <1>9, HookAssumption, FS_Subset DEF MayPost
    <3>2. late[e] + Cardinality(MayPost(e)) < Cardinality(Clients) /\ late[e] \in Nat
      BY <1>8, <2>2 DEF HookInv, PostsLeft
    <3>3. /\ Cardinality(MayPost(e)) \in Nat /\ Cardinality(MayPost(e)') \in Nat
          /\ Cardinality(Clients) \in Nat /\ Cardinality(MayPost(e)') <= Cardinality(MayPost(e))
      BY <3>1, FS_Subset, FS_CardinalityType
    <3>4. CASE e = i
      <4>1. w \in MayPost(i)
        BY <1>2, <1>3 DEF MayPost
      <4>2. Cardinality(MayPost(i)') = Cardinality(MayPost(i)) - 1
        BY <1>9, <3>1, <3>4, <4>1, FS_RemoveElement
      <4>3. late'[i] = late[i] + 1
        BY <1>2, <1>8, <2>2, <3>4
      <4> QED
        BY <2>2, <3>2, <3>3, <3>4, <4>2, <4>3
    <3>5. CASE e # i
      <4>1. late'[e] = late[e]
        BY <1>2, <1>8, <3>5
      <4> QED
        BY <2>2, <3>2, <3>3, <4>1
    <3> QED
      BY <3>4, <3>5
  <2> QED
    BY <2>1, <2>2
<1> QED
  BY <1>9, <1>10 DEF HookInv

\* What a call lists: the endpoints to post to, or none and its one result.
LEMMA Listing ==
  ASSUME HookInv, NEW w \in Clients, NEW e \in HookEvents, NEW signed \in BOOLEAN, Hooks!List(w, e, signed)
  PROVE  \E d \in HookCall :
           /\ delivery' = [delivery EXCEPT ![w] = d]
           /\ d.event = e /\ d.attempt = tries[e] + 1 /\ d.listed = d.todo /\ ~d.retry
           /\ d.todo \subseteq table /\ \A i \in d.todo : disabled[i] # "no" => i \in d.off
           /\ d.at = "record" => ResultFits(d)
           /\ d.at # "disable"
<1>1. PICK c : c = [at |-> "send", event |-> e, attempt |-> tries[e] + 1, listed |-> table,
                    todo |-> table, off |-> {i \in table : disabled[i] # "no"},
                    result |-> Hooks!Idle, retry |-> FALSE]
  OBVIOUS
<1>2. PICK a : a = [c EXCEPT !.listed = {}, !.todo = {}]
  OBVIOUS
<1>3. tries[e] + 1 \in Nat /\ table \subseteq Ids
  BY HookAssumption DEF HookInv, HookShape
<1>4. /\ c \in HookCall /\ c.at = "send" /\ c.event = e /\ c.attempt = tries[e] + 1 /\ c.listed = table
      /\ c.todo = table /\ c.off = {i \in table : disabled[i] # "no"} /\ c.retry = FALSE
  BY <1>1, <1>3 DEF HookCall
<1>5. /\ a \in HookCall /\ a.event = e /\ a.attempt = tries[e] + 1 /\ a.listed = {}
      /\ a.todo = {} /\ a.retry = FALSE
  <2>1. a = [at |-> "send", event |-> e, attempt |-> tries[e] + 1, listed |-> {}, todo |-> {},
             off |-> {i \in table : disabled[i] # "no"}, result |-> Hooks!Idle, retry |-> FALSE]
    BY <1>1, <1>2
  <2> QED
    BY <1>3, <2>1 DEF HookCall
<1>6. ASSUME NEW status \in {"skipped", "failed"}
      PROVE  \E d \in HookCall :
               /\ d = Hooks!WithResult(a, Hooks!Result(c, Hooks!NoEndpoint, status, "none"))
               /\ d.event = e /\ d.attempt = tries[e] + 1 /\ d.listed = d.todo /\ ~d.retry
               /\ d.todo = {} /\ d.at = "record" /\ ResultFits(d)
  <2>1. PICK r : r = Hooks!Result(c, Hooks!NoEndpoint, status, "none")
    OBVIOUS
  <2>2. r \in HookResult /\ r.event = e /\ r.attempt = tries[e] + 1 /\ r.status = status /\ r.outcome = "none"
    BY <1>3, <1>4, <2>1 DEF Hooks!Result, HookResult
  <2>3. PICK d : d = Hooks!WithResult(a, r)
    OBVIOUS
  <2>4. /\ d \in HookCall /\ d.at = "record" /\ d.event = e /\ d.attempt = tries[e] + 1
        /\ d.listed = a.listed /\ d.todo = a.todo \ {r.id} /\ d.result = r
        /\ d.retry = (a.retry \/ r.status = "retryable")
    BY <1>5, <2>2, <2>3, WithResultIs
  <2>5. d.listed = {} /\ d.todo = {} /\ ~d.retry
    BY <1>5, <2>2, <2>4
  <2> QED
    BY <2>1, <2>2, <2>3, <2>4, <2>5 DEF ResultFits
<1>7. \/ delivery' = [delivery EXCEPT ![w] = c]
      \/ \E status \in {"skipped", "failed"} : delivery' = [delivery EXCEPT ![w] =
            Hooks!WithResult(a, Hooks!Result(c, Hooks!NoEndpoint, status, "none"))]
  BY <1>1, <1>2 DEF Hooks!List
<1>8. CASE delivery' = [delivery EXCEPT ![w] = c]
  BY <1>4, <1>8
<1>9. CASE \E status \in {"skipped", "failed"} : delivery' = [delivery EXCEPT ![w] =
             Hooks!WithResult(a, Hooks!Result(c, Hooks!NoEndpoint, status, "none"))]
  <2>1. PICK status \in {"skipped", "failed"} : delivery' = [delivery EXCEPT ![w] =
              Hooks!WithResult(a, Hooks!Result(c, Hooks!NoEndpoint, status, "none"))]
    BY <1>9
  <2>2. PICK d \in HookCall :
               /\ d = Hooks!WithResult(a, Hooks!Result(c, Hooks!NoEndpoint, status, "none"))
               /\ d.event = e /\ d.attempt = tries[e] + 1 /\ d.listed = d.todo /\ ~d.retry
               /\ d.todo = {} /\ d.at = "record" /\ ResultFits(d)
    BY <1>6
  <2> QED
    BY <2>1, <2>2
<1> QED
  BY <1>7, <1>8, <1>9

LEMMA ListStep ==
  ASSUME HookInv, NEW w \in Clients, NEW e \in HookEvents, NEW signed \in BOOLEAN, Hooks!List(w, e, signed)
  PROVE  HookInv'
<1>1. PICK d \in HookCall :
        /\ delivery' = [delivery EXCEPT ![w] = d]
        /\ d.event = e /\ d.attempt = tries[e] + 1 /\ d.listed = d.todo /\ ~d.retry
        /\ d.todo \subseteq table /\ \A i \in d.todo : disabled[i] # "no" => i \in d.off
        /\ d.at = "record" => ResultFits(d)
        /\ d.at # "disable"
  BY Listing
<1>2. /\ delivery[w] = Hooks!Idle /\ retry[e] /\ UNCHANGED <<table, disabled, attempts, tries, retry, failed, late>>
      /\ \A v \in Clients : Running(v) => delivery[v].event # e
  BY DEF Hooks!List, Running
<1>3. d.attempt <= MaxAttempts
  <2>1. tries[e] \in 0..MaxAttempts /\ tries[e] # MaxAttempts /\ MaxAttempts \in Nat
    BY <1>2, HookAssumption DEF HookInv, HookShape, RetriesStop
  <2> QED
    BY <1>1, <2>1
<1>4. /\ delivery'[w] = d /\ d # Hooks!Idle /\ \A v \in Clients \ {w} : delivery'[v] = delivery[v]
      /\ delivery' \in [Clients -> HookCall \cup {Hooks!Idle}]
  <2>1. d # Hooks!Idle
    BY DEF Hooks!Idle, HookCall
  <2> QED
    BY <1>1, <2>1 DEF HookInv, HookShape
<1>5. /\ Running(w)' = TRUE /\ Running(w) = FALSE /\ \A v \in Clients \ {w} : Running(v)' = Running(v)
  BY <1>2, <1>4 DEF Running
<1>6. CallFits(d)'
  <2>1. d.at # "send" => ResultFits(d)
    BY <1>1 DEF HookCall
  <2> QED
    BY <1>1, <1>2, <1>3, <2>1 DEF CallFits, ResultFits
<1>7. HookCalls'
  <2> SUFFICES ASSUME NEW v \in Clients, Running(v)'
               PROVE  /\ CallFits(delivery[v])'
                      /\ \A u \in Clients \ {v} : Running(u)' => delivery'[u].event # delivery'[v].event
    BY DEF HookCalls
  <2>1. CASE v = w
    <3>1. CallFits(delivery[w])'
      BY <1>2, <1>4, <1>6 DEF CallFits, ResultFits, Recorded
    <3> QED
      BY <1>1, <1>2, <1>4, <1>5, <2>1, <3>1
  <2>2. CASE v # w
    <3>1. CallFits(delivery[v])'
      BY <1>2, <1>4, <1>5, <2>2, CallStays
    <3>2. \A u \in Clients \ {v} : Running(u)' => delivery'[u].event # delivery'[v].event
      BY <1>1, <1>2, <1>4, <1>5, <2>2 DEF HookInv, HookCalls
    <3> QED
      BY <3>1, <3>2
  <2> QED
    BY <2>1, <2>2
<1>8. HookShape' /\ FailedPast' /\ RetriesStop'
  BY <1>2, <1>4 DEF HookInv, HookShape, FailedPast, RetriesStop
<1>9. Hooks!DisabledTellsFailures'
  BY <1>2, <1>4, <1>5, TellingKept
<1>10. \A i \in Ids : disabled[i] # "no" => MayPost(i)' \subseteq MayPost(i)
  BY <1>1, <1>4, <1>5 DEF MayPost
<1>11. PostsLeft'
  BY <1>2, <1>10, PostsKept
<1> QED
  BY <1>7, <1>8, <1>9, <1>11 DEF HookInv

\* A call that goes on to its next endpoint, or returns.
LEMMA Proceeds ==
  ASSUME HookInv, NEW w \in Clients, Running(w), delivery[w].at # "send", Hooks!Proceed(w),
         attempts \subseteq attempts', failed' = failed,
         NEW c, c = delivery[w], \A i \in c.listed \ c.todo : Recorded(c, i)'
  PROVE  /\ HookCalls' /\ FailedPast' /\ RetriesStop'
         /\ tries' \in [HookEvents -> 0..MaxAttempts] /\ retry' \in [HookEvents -> BOOLEAN]
         /\ delivery' \in [Clients -> HookCall \cup {Hooks!Idle}]
         /\ \A v \in Clients \ {w} : delivery'[v] = delivery[v]
         /\ \A i \in Ids : MayPost(i)' \subseteq MayPost(i)
         /\ delivery'[w] # Hooks!Idle => delivery'[w].todo # {}
<1>1. CASE Hooks!Return(w)
  <2>1. /\ HookCalls' /\ FailedPast' /\ RetriesStop'
        /\ tries' \in [HookEvents -> 0..MaxAttempts] /\ retry' \in [HookEvents -> BOOLEAN]
        /\ delivery' \in [Clients -> HookCall \cup {Hooks!Idle}]
        /\ ~Running(w)' /\ \A v \in Clients \ {w} : delivery'[v] = delivery[v]
    BY <1>1, CallReturns
  <2>2. \A v \in Clients : Running(v)' => v # w /\ Running(v)
    BY <2>1 DEF Running
  <2> QED
    BY <2>1, <2>2 DEF MayPost, Running
<1>2. CASE /\ delivery[w].todo # {} /\ delivery' = [delivery EXCEPT ![w].at = "send"]
           /\ UNCHANGED <<tries, retry>>
  <2>2. PICK d : d = [c EXCEPT !.at = "send"]
    OBVIOUS
  <2>3. c \in HookCall /\ CallFits(c)
    BY DEF HookInv, HookShape, HookCalls, Running
  <2>4. /\ d \in HookCall /\ d.at = "send" /\ d.event = c.event /\ d.attempt = c.attempt
        /\ d.listed = c.listed /\ d.todo = c.todo /\ d.off = c.off /\ d.retry = c.retry
    BY <2>2, <2>3 DEF HookCall
  <2>5. /\ delivery' = [delivery EXCEPT ![w] = d] /\ delivery'[w] = d /\ d # Hooks!Idle
        /\ \A v \in Clients \ {w} : delivery'[v] = delivery[v]
        /\ delivery' \in [Clients -> HookCall \cup {Hooks!Idle}]
    BY <1>2, <2>2, <2>4 DEF HookInv, HookShape, Hooks!Idle
  <2>6. CallFits(d)'
    BY <1>2, <2>3, <2>4 DEF CallFits, Recorded
  <2>7. HookCalls' /\ FailedPast' /\ RetriesStop'
    BY <1>2, <2>4, <2>5, <2>6, CallGoesOn
  <2>8. \A i \in Ids : MayPost(i)' \subseteq MayPost(i)
    BY <2>4, <2>5 DEF MayPost, Running
  <2> QED
    BY <1>2, <2>4, <2>5, <2>7, <2>8 DEF HookInv, HookShape
<1> QED
  BY <1>1, <1>2 DEF Hooks!Proceed

\* A result on record, or the store's failure at it.
LEMMA RecordStep ==
  ASSUME HookInv, NEW w \in Clients, Hooks!Record(w)
  PROVE  HookInv'
<1>1. PICK c : c = delivery[w]
  OBVIOUS
<1>2. c.at = "record" /\ Running(w) /\ c \in HookCall /\ CallFits(c) /\ ResultFits(c)
  <2>1. c.at = "record" /\ Running(w)
    BY <1>1 DEF Hooks!Record, Running, Hooks!Idle
  <2> QED
    BY <1>1, <2>1 DEF HookInv, HookShape, HookCalls, Running, CallFits
<1>3. table' = table /\ disabled' = disabled /\ late' = late
  BY DEF Hooks!Record
<1>4. CASE /\ attempts' = attempts \cup {c.result} /\ failed' = failed
           /\ c.result.status = "failed" /\ c.result.id # Hooks!NoEndpoint
           /\ delivery' = [delivery EXCEPT ![w].at = "disable"] /\ tries' = tries /\ retry' = retry
  <2>1. PICK d : d = [c EXCEPT !.at = "disable"]
    OBVIOUS
  <2>2. /\ d \in HookCall /\ d.at = "disable" /\ d.event = c.event /\ d.attempt = c.attempt
        /\ d.listed = c.listed /\ d.todo = c.todo /\ d.off = c.off /\ d.retry = c.retry
        /\ d.result = c.result
    BY <1>2, <2>1 DEF HookCall
  <2>3. /\ delivery' = [delivery EXCEPT ![w] = d] /\ delivery'[w] = d /\ d # Hooks!Idle
        /\ \A v \in Clients \ {w} : delivery'[v] = delivery[v]
        /\ delivery' \in [Clients -> HookCall \cup {Hooks!Idle}]
    BY <1>1, <1>4, <2>1, <2>2 DEF HookInv, HookShape, Hooks!Idle
  <2>4. CallFits(d)'
    <3>1. \A i \in d.listed \ d.todo : Recorded(d, i)'
      BY <1>2, <1>4, <2>2 DEF CallFits, ResultFits, Recorded
    <3> QED
      BY <1>2, <1>4, <2>2, <3>1 DEF CallFits, ResultFits
  <2>5. HookCalls' /\ FailedPast' /\ RetriesStop'
    BY <1>1, <1>2, <1>4, <2>2, <2>3, <2>4, CallGoesOn
  <2>6. \A i \in Ids : MayPost(i)' \subseteq MayPost(i)
    BY <1>1, <1>2, <2>2, <2>3 DEF MayPost, Running
  <2>7. PostsLeft'
    BY <1>3, <2>6, PostsKept
  <2>8. HookShape'
    BY <1>2, <1>3, <1>4, <2>3 DEF HookInv, HookShape, ResultFits
  <2>9. Hooks!DisabledTellsFailures'
    <3>1. ASSUME NEW a \in attempts', a.status = "failed", a.id # Hooks!NoEndpoint
          PROVE  \/ disabled'[a.id] # "no"
                 \/ a \in failed'
                 \/ \E v \in Clients : delivery'[v].at = "disable" /\ delivery'[v].result = a
      <4>1. CASE a = c.result
        BY <2>2, <2>3, <4>1
      <4>2. CASE a \in attempts
        <5>1. \A v \in Clients : delivery[v].at = "disable" => delivery'[v] = delivery[v]
          BY <1>1, <1>2, <2>3
        <5> QED
          BY <1>3, <1>4, <3>1, <4>2, <5>1 DEF HookInv, Hooks!DisabledTellsFailures
      <4> QED
        BY <1>4, <4>1, <4>2
    <3> QED
      BY <1>3, <1>4, <3>1 DEF HookInv, Hooks!DisabledTellsFailures
  <2> QED
    BY <2>5, <2>7, <2>8, <2>9 DEF HookInv
<1>5. CASE /\ attempts' = attempts \cup {c.result} /\ failed' = failed /\ Hooks!Proceed(w)
           /\ ~(c.result.status = "failed" /\ c.result.id # Hooks!NoEndpoint)
  <2>1. \A i \in c.listed \ c.todo : Recorded(c, i)'
    BY <1>2, <1>5 DEF CallFits, ResultFits, Recorded
  <2>2. /\ HookCalls' /\ FailedPast' /\ RetriesStop'
        /\ tries' \in [HookEvents -> 0..MaxAttempts] /\ retry' \in [HookEvents -> BOOLEAN]
        /\ delivery' \in [Clients -> HookCall \cup {Hooks!Idle}]
        /\ \A v \in Clients \ {w} : delivery'[v] = delivery[v]
        /\ \A i \in Ids : MayPost(i)' \subseteq MayPost(i)
    BY <1>1, <1>2, <1>5, <2>1, Proceeds
  <2>3. HookShape'
    BY <1>2, <1>3, <1>5, <2>2 DEF HookInv, HookShape, ResultFits
  <2>4. PostsLeft'
    BY <1>3, <2>2, PostsKept
  <2>5. Hooks!DisabledTellsFailures'
    <3>1. \A v \in Clients : delivery[v].at = "disable" => delivery'[v] = delivery[v]
      BY <1>1, <1>2, <2>2
    <3> QED
      BY <1>3, <1>5, <3>1 DEF HookInv, Hooks!DisabledTellsFailures
  <2> QED
    BY <2>2, <2>3, <2>4, <2>5 DEF HookInv
<1>6. CASE failed' = failed \cup {c.result} /\ attempts' = attempts /\ Hooks!Return(w)
  <2>1. /\ HookCalls' /\ FailedPast' /\ RetriesStop'
        /\ tries' \in [HookEvents -> 0..MaxAttempts] /\ retry' \in [HookEvents -> BOOLEAN]
        /\ delivery' \in [Clients -> HookCall \cup {Hooks!Idle}]
        /\ ~Running(w)' /\ \A v \in Clients \ {w} : delivery'[v] = delivery[v]
    BY <1>1, <1>2, <1>6, CallReturns
  <2>2. HookShape'
    BY <1>3, <1>6, <2>1 DEF HookInv, HookShape
  <2>3. \A i \in Ids : MayPost(i)' \subseteq MayPost(i)
    BY <2>1 DEF MayPost, Running
  <2>4. PostsLeft'
    BY <1>3, <2>3, PostsKept
  <2>5. Hooks!DisabledTellsFailures'
    <3>1. \A v \in Clients : delivery[v].at = "disable" => delivery'[v] = delivery[v]
      BY <1>1, <1>2, <2>1
    <3> QED
      BY <1>3, <1>6, <3>1 DEF HookInv, Hooks!DisabledTellsFailures
  <2> QED
    BY <2>1, <2>2, <2>4, <2>5 DEF HookInv
<1> QED
  BY <1>1, <1>4, <1>5, <1>6 DEF Hooks!Record

\* A failed endpoint is disabled, and stays so; or the store fails at it.
LEMMA DisableStep ==
  ASSUME HookInv, NEW w \in Clients, Hooks!Disable(w)
  PROVE  HookInv'
<1>1. PICK c : c = delivery[w]
  OBVIOUS
<1>2. PICK i : i = c.result.id
  OBVIOUS
<1>3. c.at = "disable" /\ Running(w) /\ c \in HookCall /\ CallFits(c) /\ ResultFits(c)
  <2>1. c.at = "disable" /\ Running(w)
    BY <1>1 DEF Hooks!Disable, Running, Hooks!Idle
  <2> QED
    BY <1>1, <2>1 DEF HookInv, HookShape, HookCalls, Running, CallFits
<1>4. /\ c.result \in HookResult /\ c.result \in attempts /\ c.result.status = "failed"
      /\ i # Hooks!NoEndpoint /\ i \in Ids /\ i \notin c.todo
      /\ c.result.outcome = "passing" => c.result.attempt = MaxAttempts
  BY <1>2, <1>3 DEF CallFits, ResultFits, HookResult
<1>5. table' = table /\ attempts' = attempts /\ late' = late
  BY DEF Hooks!Disable
<1>6. CASE /\ disabled' = [disabled EXCEPT ![i] = Hooks!FailureDisableReason(c.result)]
           /\ Hooks!Proceed(w) /\ failed' = failed
  <2>1. \A e \in c.listed \ c.todo : Recorded(c, e)'
    BY <1>3, <1>5 DEF CallFits, Recorded
  <2>2. /\ HookCalls' /\ FailedPast' /\ RetriesStop'
        /\ tries' \in [HookEvents -> 0..MaxAttempts] /\ retry' \in [HookEvents -> BOOLEAN]
        /\ delivery' \in [Clients -> HookCall \cup {Hooks!Idle}]
        /\ \A v \in Clients \ {w} : delivery'[v] = delivery[v]
        /\ \A e \in Ids : MayPost(e)' \subseteq MayPost(e)
    BY <1>1, <1>3, <1>5, <1>6, <2>1, Proceeds
  <2>3. PICK why : why = Hooks!FailureDisableReason(c.result)
    OBVIOUS
  <2>4. /\ why \in Hooks!Reasons /\ why # "no"
        /\ why = "max_attempts_exhausted" <=> c.result.outcome = "passing"
    BY <2>3 DEF Hooks!FailureDisableReason, Hooks!Reasons
  <2>5. /\ disabled' \in [Ids -> Hooks!Reasons \cup {"no"}] /\ disabled'[i] = why
        /\ \A e \in Ids \ {i} : disabled'[e] = disabled[e]
    BY <1>4, <1>6, <2>3, <2>4 DEF HookInv, HookShape
  <2>6. HookShape'
    BY <1>5, <2>2, <2>5 DEF HookInv, HookShape
  <2>7. PostsLeft'
    <3> SUFFICES ASSUME NEW e \in Ids
                 PROVE  IF disabled'[e] = "no" THEN late[e] = 0
                        ELSE late[e] + Cardinality(MayPost(e)') < Cardinality(Clients)
      BY <1>5 DEF PostsLeft
    <3>1. /\ IsFiniteSet(MayPost(e)) /\ IsFiniteSet(Clients) /\ MayPost(e)' \subseteq MayPost(e)
          /\ late[e] \in Nat
      BY <2>2, HookAssumption, FS_Subset DEF MayPost, HookInv, HookShape
    <3>2. /\ Cardinality(MayPost(e)) \in Nat /\ Cardinality(MayPost(e)') \in Nat
          /\ Cardinality(Clients) \in Nat /\ Cardinality(MayPost(e)') <= Cardinality(MayPost(e))
      BY <3>1, FS_Subset, FS_CardinalityType
    <3>3. CASE disabled[e] # "no"
      <4>1. late[e] + Cardinality(MayPost(e)) < Cardinality(Clients) /\ disabled'[e] # "no"
        BY <2>4, <2>5, <3>3 DEF HookInv, PostsLeft
      <4> QED
        BY <3>1, <3>2, <4>1
    <3>4. CASE disabled[e] = "no" /\ e # i
      BY <2>5, <3>4 DEF HookInv, PostsLeft
    <3>5. CASE disabled[e] = "no" /\ e = i
      <4>1. MayPost(e) \subseteq Clients \ {w}
        BY <1>1, <1>4, <3>5 DEF MayPost
      <4>2. IsFiniteSet(Clients \ {w}) /\ Cardinality(Clients \ {w}) = Cardinality(Clients) - 1
        BY <3>1, FS_RemoveElement
      <4>3. Cardinality(MayPost(e)) <= Cardinality(Clients) - 1
        BY <4>1, <4>2, FS_Subset
      <4>4. late[e] = 0 /\ disabled'[e] # "no"
        BY <2>4, <2>5, <3>5 DEF HookInv, PostsLeft
      <4> QED
        BY <3>2, <4>3, <4>4
    <3> QED
      BY <3>3, <3>4, <3>5
  <2>8. Hooks!DisabledTellsFailures'
    <3>1. ASSUME NEW a \in attempts, a.status = "failed", a.id # Hooks!NoEndpoint
          PROVE  \/ disabled'[a.id] # "no"
                 \/ a \in failed
                 \/ \E v \in Clients : delivery'[v].at = "disable" /\ delivery'[v].result = a
      <4>0. a.id \in Ids
        BY <3>1 DEF HookInv, HookShape, HookResult
      <4>1. CASE disabled[a.id] # "no" \/ a.id = i
        BY <2>4, <2>5, <4>0, <4>1
      <4>2. CASE a \in failed
        BY <4>2
      <4>3. CASE a.id # i /\ \E v \in Clients : delivery[v].at = "disable" /\ delivery[v].result = a
        <5>1. PICK v \in Clients : delivery[v].at = "disable" /\ delivery[v].result = a
          BY <4>3
        <5>2. v # w
          BY <1>1, <1>2, <4>3, <5>1
        <5> QED
          BY <2>2, <5>1, <5>2
      <4> QED
        BY <3>1, <4>1, <4>2, <4>3 DEF HookInv, Hooks!DisabledTellsFailures
    <3>2. ASSUME NEW e \in Ids, disabled'[e] # "no"
          PROVE  \E a \in attempts :
                   /\ a.id = e /\ a.status = "failed"
                   /\ disabled'[e] = "max_attempts_exhausted" <=> a.outcome = "passing"
                   /\ a.outcome = "passing" => a.attempt = MaxAttempts
      <4>1. CASE e = i
        BY <1>2, <1>4, <2>4, <2>5, <4>1
      <4>2. CASE e # i
        BY <2>5, <3>2, <4>2 DEF HookInv, Hooks!DisabledTellsFailures
      <4> QED
        BY <4>1, <4>2
    <3> QED
      BY <1>5, <1>6, <3>1, <3>2 DEF Hooks!DisabledTellsFailures
  <2> QED
    BY <2>2, <2>6, <2>7, <2>8 DEF HookInv
<1>7. CASE failed' = failed \cup {c.result} /\ disabled' = disabled /\ Hooks!Return(w)
  <2>1. /\ HookCalls' /\ FailedPast' /\ RetriesStop'
        /\ tries' \in [HookEvents -> 0..MaxAttempts] /\ retry' \in [HookEvents -> BOOLEAN]
        /\ delivery' \in [Clients -> HookCall \cup {Hooks!Idle}]
        /\ ~Running(w)' /\ \A v \in Clients \ {w} : delivery'[v] = delivery[v]
    BY <1>1, <1>3, <1>5, <1>7, CallReturns
  <2>2. HookShape'
    BY <1>5, <1>7, <2>1 DEF HookInv, HookShape
  <2>3. \A e \in Ids : MayPost(e)' \subseteq MayPost(e)
    BY <2>1 DEF MayPost, Running
  <2>4. PostsLeft'
    BY <1>5, <1>7, <2>3, PostsKept
  <2>5. Hooks!DisabledTellsFailures'
    <3>1. ASSUME NEW a \in attempts, a.status = "failed", a.id # Hooks!NoEndpoint
          PROVE  \/ disabled'[a.id] # "no"
                 \/ a \in failed'
                 \/ \E v \in Clients : delivery'[v].at = "disable" /\ delivery'[v].result = a
      <4>1. CASE a = c.result \/ a \in failed \/ disabled[a.id] # "no"
        BY <1>7, <4>1
      <4>2. CASE a # c.result /\ \E v \in Clients : delivery[v].at = "disable" /\ delivery[v].result = a
        <5>1. PICK v \in Clients : delivery[v].at = "disable" /\ delivery[v].result = a
          BY <4>2
        <5> QED
          BY <1>1, <2>1, <4>2, <5>1
      <4> QED
        BY <3>1, <4>1, <4>2 DEF HookInv, Hooks!DisabledTellsFailures
    <3> QED
      BY <1>5, <1>7, <3>1 DEF HookInv, Hooks!DisabledTellsFailures
  <2> QED
    BY <2>1, <2>2, <2>4, <2>5 DEF HookInv
<1> QED
  BY <1>1, <1>2, <1>6, <1>7 DEF Hooks!Disable

LEMMA HookInvInductive == HookInv /\ [Hooks!Next]_(Hooks!vars) => HookInv'
<1> SUFFICES ASSUME HookInv, [Hooks!Next]_(Hooks!vars) PROVE HookInv'
  OBVIOUS
<1>1. CASE UNCHANGED Hooks!vars
  BY <1>1 DEF Hooks!vars, HookInv, HookShape, HookCalls, CallFits, ResultFits, Recorded, Running,
              FailedPast, RetriesStop, Hooks!DisabledTellsFailures, PostsLeft, MayPost
<1>2. CASE Hooks!Next
  BY <1>2, EndpointsStep, ListStep, SkipStep, PostStep, RecordStep, DisableStep
     DEF Hooks!Next, HookEvents
<1> QED
  BY <1>1, <1>2

LEMMA HookInvInit == Hooks!Init => HookInv
<1> SUFFICES ASSUME Hooks!Init PROVE HookInv
  OBVIOUS
<1>1. /\ table = {} /\ attempts = {} /\ failed = {} /\ disabled = [i \in Ids |-> "no"]
      /\ tries = [e \in HookEvents |-> 0] /\ retry = [e \in HookEvents |-> TRUE]
      /\ delivery = [w \in Clients |-> Hooks!Idle] /\ late = [i \in Ids |-> 0]
  BY DEF Hooks!Init, HookEvents
<1>2. 0 \in 0..MaxAttempts /\ MaxAttempts # 0
  BY HookAssumption
<1>3. HookShape
  BY <1>1, <1>2 DEF HookShape
<1> QED
  BY <1>1, <1>2, <1>3 DEF HookInv, HookCalls, Running, FailedPast, RetriesStop,
                         Hooks!DisabledTellsFailures, PostsLeft

LEMMA HookPromises ==
  HookInv => Hooks!RetriesEnd /\ Hooks!DisableStopsPosts /\ Hooks!DisabledTellsFailures
<1> SUFFICES ASSUME HookInv PROVE Hooks!RetriesEnd /\ Hooks!DisableStopsPosts
  BY DEF HookInv
<1>1. Hooks!RetriesEnd
  <2>1. \A e \in HookEvents : tries[e] \in 0..MaxAttempts
    BY DEF HookInv, HookShape
  <2> QED
    BY <2>1, HookAssumption DEF Hooks!RetriesEnd, HookInv, RetriesStop, HookEvents
<1>2. \A S : Hooks!Cardinality(S) = Cardinality(S)
  BY DEF Hooks!Cardinality, Cardinality
<1>3. ASSUME NEW i \in Ids PROVE late[i] < Cardinality(Clients)
  <2>1. IsFiniteSet(Clients) /\ IsFiniteSet(MayPost(i)) /\ Clients # {}
    BY HookAssumption, FS_Subset DEF MayPost
  <2>2. /\ Cardinality(Clients) \in Nat /\ Cardinality(Clients) # 0
        /\ Cardinality(MayPost(i)) \in Nat /\ late[i] \in Nat
    BY <2>1, FS_CardinalityType, FS_EmptySet DEF HookInv, HookShape
  <2> QED
    BY <2>2 DEF HookInv, PostsLeft
<1> QED
  BY <1>1, <1>2, <1>3 DEF Hooks!DisableStopsPosts

LEMMA HooksStep == [Next]_vars => [Hooks!Next]_(Hooks!vars)
BY DEF Next, vars, hookVars, Hooks!vars

LEMMA HookInvHolds == Spec => []HookInv
<1>1. Init => HookInv
  BY HookInvInit DEF Init
<1> QED
  BY <1>1, HookInvInductive, HooksStep, PTL DEF Spec

\* No event is tried more often than MaxAttempts, a disabled endpoint gets at most one post
\* more from each other worker, and the failures on record tell which endpoints are disabled
\* and why (delivery.go:182-209, 228-234 and 319-327), whatever the other stores do.
THEOREM DeliveriesComeToAnEnd == Spec => []DeliveriesEnd
<1>1. HookInv => DeliveriesEnd
  BY HookPromises DEF DeliveriesEnd
<1> QED
  BY <1>1, HookInvHolds, PTL

\* A call that returns, and no failure of the store with it
LEMMA CleanReturn ==
  ASSUME HookInv, [Hooks!Next]_(Hooks!vars), NEW w \in Clients, delivery[w] # Hooks!Idle,
         delivery'[w] = Hooks!Idle, failed' = failed
  PROVE  \A i \in delivery[w].listed : \E a \in attempts' :
           a.id = i /\ a.event = delivery[w].event /\ a.attempt = delivery[w].attempt
<1>1. PICK c : c = delivery[w]
  OBVIOUS
<1>2. c \in HookCall /\ CallFits(c) /\ c.at # "idle"
  BY <1>1 DEF HookInv, HookShape, HookCalls, Running, HookCall
<1>3. c.at # "send" => c.result \notin failed
  <2> SUFFICES ASSUME c.at # "send", c.result \in failed PROVE FALSE
    OBVIOUS
  <2>1. c.result.attempt = tries[c.event] + 1 /\ c.result.event = c.event
    BY <1>2 DEF CallFits, ResultFits
  <2>2. c.result.attempt <= tries[c.event] /\ c.event \in HookEvents
    BY <2>1 DEF HookInv, FailedPast
  <2>3. tries[c.event] \in Nat
    BY <2>2, HookAssumption DEF HookInv, HookShape
  <2> QED
    BY <2>1, <2>2, <2>3
<1>0. delivery \in [Clients -> HookCall \cup {Hooks!Idle}]
  BY DEF HookInv, HookShape
<1>4. ASSUME NEW v \in Clients, v # w,
             \/ \E e \in HookEvents, signed \in BOOLEAN : Hooks!List(v, e, signed)
             \/ \E i \in Ids : Hooks!SkipDisabled(v, i)
             \/ \E i \in Ids, outcome \in {"2xx", "passing", "other"} : Hooks!Post(v, i, outcome)
             \/ Hooks!Record(v) \/ Hooks!Disable(v)
      PROVE  FALSE
  <2>1. ASSUME NEW d, delivery' = [delivery EXCEPT ![v] = d] PROVE FALSE
    BY <1>0, <1>4, <2>1
  <2>2. ASSUME NEW e \in HookEvents, NEW signed \in BOOLEAN, Hooks!List(v, e, signed) PROVE FALSE
    BY <2>1, <2>2, Listing
  <2>3. ASSUME NEW i \in Ids, Hooks!SkipDisabled(v, i) PROVE FALSE
    BY <2>1, <2>3 DEF Hooks!SkipDisabled
  <2>4. ASSUME NEW i \in Ids, NEW outcome \in {"2xx", "passing", "other"}, Hooks!Post(v, i, outcome) PROVE FALSE
    BY <2>1, <2>4 DEF Hooks!Post
  <2>5. ASSUME Hooks!Proceed(v) \/ Hooks!Return(v) PROVE FALSE
    BY <1>0, <1>4, <2>5 DEF Hooks!Proceed, Hooks!Return
  <2>6. ASSUME delivery' = [delivery EXCEPT ![v].at = "disable"] PROVE FALSE
    BY <1>0, <1>4, <2>6
  <2> QED
    BY <1>4, <2>2, <2>3, <2>4, <2>5, <2>6 DEF Hooks!Record, Hooks!Disable
<1>5. ASSUME NEW e \in HookEvents, NEW signed \in BOOLEAN, Hooks!List(w, e, signed) PROVE FALSE
  BY <1>5 DEF Hooks!List
<1>11. \A r : Hooks!WithResult(c, r) # Hooks!Idle
  <2>1. \A r : Hooks!WithResult(c, r).at = "record"
    BY <1>2 DEF Hooks!WithResult, HookCall
  <2> QED
    BY <2>1 DEF Hooks!Idle
<1>6. ASSUME NEW i \in Ids, Hooks!SkipDisabled(w, i) PROVE FALSE
  <2>1. delivery'[w] = Hooks!WithResult(c, Hooks!Result(c, i, "endpoint_disabled", "none"))
    BY <1>0, <1>1, <1>6 DEF Hooks!SkipDisabled, Hooks!Skipping
  <2> QED
    BY <1>11, <2>1
<1>7. ASSUME NEW i \in Ids, NEW outcome \in {"2xx", "passing", "other"}, Hooks!Post(w, i, outcome)
      PROVE  FALSE
  <2>1. delivery'[w] = Hooks!WithResult(c, Hooks!Result(c, i, Hooks!Status(outcome, c.attempt), outcome))
    BY <1>0, <1>1, <1>7 DEF Hooks!Post
  <2> QED
    BY <1>11, <2>1
<1>12. ASSUME \E a \in {"send", "record", "disable"} : delivery' = [delivery EXCEPT ![w].at = a] PROVE FALSE
  <2>1. PICK a \in {"send", "record", "disable"} : delivery' = [delivery EXCEPT ![w].at = a]
    BY <1>12
  <2>2. PICK d : d = [c EXCEPT !.at = a]
    OBVIOUS
  <2>3. d.at = a /\ delivery'[w] = d
    BY <1>0, <1>1, <1>2, <2>1, <2>2 DEF HookCall
  <2> QED
    BY <2>3 DEF Hooks!Idle
<1>13. Hooks!Proceed(w) => c.todo = {}
  BY <1>1, <1>12 DEF Hooks!Proceed
<1>14. failed' # failed \cup {c.result} \/ c.at = "send"
  BY <1>3
<1>8. ASSUME Hooks!Record(w) \/ Hooks!Disable(w)
      PROVE  /\ c.todo = {} /\ attempts \subseteq attempts'
             /\ c.at = "record" => c.result \in attempts'
             /\ c.at # "send"
  <2>1. CASE Hooks!Record(w)
    BY <1>1, <1>12, <1>13, <1>14, <2>1 DEF Hooks!Record
  <2>2. CASE Hooks!Disable(w)
    BY <1>1, <1>13, <1>14, <2>2 DEF Hooks!Disable
  <2> QED
    BY <1>8, <2>1, <2>2
<1>9. ASSUME UNCHANGED Hooks!vars \/ \E i \in Ids : Hooks!Delete(i) \/ \E limit \in Limits : Hooks!GetOrCreate(i, limit)
      PROVE  FALSE
  BY <1>9 DEF Hooks!vars, Hooks!Delete, Hooks!GetOrCreate
<1>10. Hooks!Record(w) \/ Hooks!Disable(w)
  BY <1>4, <1>5, <1>6, <1>7, <1>9 DEF Hooks!Next, HookEvents
<1> QED
  BY <1>1, <1>2, <1>8, <1>10 DEF CallFits, ResultFits, Recorded

-----------------------------------------------------------------------------
\* Typed memory

TypedIds == {1, 2}
KnownEntry == [of : SomeStates, updated : Nat, used : Nat]

\* An entry was touched when it says it was used, and at some time.
TypedInv ==
  /\ entries \in [TypedIds -> KnownEntry \cup {None}] /\ clock \in Nat \ {0}
  /\ touched \in [TypedIds -> Nat]
  /\ \A i \in TypedIds : entries[i] # None => touched[i] = entries[i].used /\ touched[i] # 0

LEMMA StatesAreNumbers == \A s \in SomeStates : s.confidence \in Int /\ s.durability \in Int
BY DEF SomeStates, State

LEMMA SomeoneTold == 
  ASSUME NEW e \in [of : SomeStates, updated : {0, 3}, used : {0, 1}]
  PROVE  e.of \in SomeStates /\ e.updated \in Nat /\ e.used \in Nat
OBVIOUS

LEMMA Created ==
  ASSUME clock \in Nat \ {0}, NEW i, NEW e \in KnownEntry
  PROVE  /\ People!Create(i, e) \in KnownEntry /\ People!Create(i, e) # None
         /\ People!Create(i, e).of = e.of /\ People!Create(i, e).used = People!ToldUse(e)
         /\ People!ToldUse(e) \in Nat \ {0}
BY NoneAssumption DEF KnownEntry, People!Create, People!ToldUse

\* What each operation leaves agrees with when it was touched.
LEMMA TypedBecame ==
  ASSUME TypedInv, NEW op, NEW new \in [TypedIds -> KnownEntry \cup {None}],
         NEW told \in [TypedIds -> Nat], \A i \in TypedIds : new[i] # None => told[i] = new[i].used /\ told[i] # 0,
         People!Became(op, new, told)
  PROVE  TypedInv'
BY DEF TypedInv, People!Became, TypedIds

LEMMA TypedCreates ==
  ASSUME TypedInv, NEW op, NEW i \in TypedIds, NEW e \in KnownEntry,
         NEW rest \in [TypedIds -> KnownEntry \cup {None}],
         \A k \in TypedIds : rest[k] \in {entries[k], None},
         People!Became(op, [rest EXCEPT ![i] = People!Create(i, e)], People!Touched(i, People!ToldUse(e)))
  PROVE  TypedInv'
<1> DEFINE new == [rest EXCEPT ![i] = People!Create(i, e)]
           told == [touched EXCEPT ![i] = People!ToldUse(e)]
<1>1. /\ People!Create(i, e) \in KnownEntry /\ People!Create(i, e).used = People!ToldUse(e)
      /\ People!ToldUse(e) \in Nat \ {0}
  BY Created DEF TypedInv
<1>2. new \in [TypedIds -> KnownEntry \cup {None}] /\ told \in [TypedIds -> Nat]
  BY <1>1 DEF TypedInv
<1>3. \A k \in TypedIds : new[k] # None => told[k] = new[k].used /\ told[k] # 0
  BY <1>1 DEF TypedInv
<1>4. People!Became(op, new, told)
  BY DEF People!Touched
<1> HIDE DEF new, told
<1> QED
  BY <1>2, <1>3, <1>4, TypedBecame

\* The entries that are kept were not touched.
LEMMA TypedKeeps ==
  ASSUME TypedInv, NEW op, NEW rest \in [TypedIds -> KnownEntry \cup {None}],
         \A k \in TypedIds : rest[k] \in {entries[k], None},
         People!Became(op, rest, touched)
  PROVE  TypedInv'
<1>1. /\ touched \in [TypedIds -> Nat]
      /\ \A k \in TypedIds : rest[k] # None => touched[k] = rest[k].used /\ touched[k] # 0
  BY DEF TypedInv
<1> QED
  BY <1>1, TypedBecame

\* Whoever wins: nothing changes, it takes the place of its rival, or it was refused.
UpsertLeaves(i, e, j, rest) ==
  \/ ~People!IncomingWins(e, j) /\ People!Became("upsert", entries, touched)
  \/ /\ People!IncomingWins(e, j) /\ People!InRange(e)
     /\ People!Became("upsert", [rest EXCEPT ![i] = People!Create(i, e)], People!Touched(i, People!ToldUse(e)))
  \/ People!Became("refused", rest, touched)

LEMMA UpsertCases ==
  ASSUME NEW i \in TypedIds, NEW e, People!UpsertWithConflictResolution(i, e)
  PROVE  \/ i \in People!Stored /\ UpsertLeaves(i, e, i, entries)
         \/ i \notin People!Stored /\ People!CreateEntry(i, e)
         \/ /\ i \notin People!Stored
            /\ \E j \in People!Conflicting(e) : UpsertLeaves(i, e, j, [entries EXCEPT ![j] = None])
BY DEF People!UpsertWithConflictResolution, UpsertLeaves

LEMMA UpsertKeepsInv ==
  ASSUME TypedInv, NEW i \in TypedIds, NEW e \in KnownEntry, NEW j,
         NEW rest \in [TypedIds -> KnownEntry \cup {None}],
         \A k \in TypedIds : rest[k] \in {entries[k], None}, UpsertLeaves(i, e, j, rest)
  PROVE  TypedInv'
<1>1. CASE People!Became("upsert", entries, touched)
  BY <1>1, TypedKeeps DEF TypedInv
<1>2. CASE People!Became("upsert", [rest EXCEPT ![i] = People!Create(i, e)], People!Touched(i, People!ToldUse(e)))
  BY <1>2, TypedCreates
<1>3. CASE People!Became("refused", rest, touched)
  BY <1>3, TypedKeeps
<1> QED
  BY <1>1, <1>2, <1>3 DEF UpsertLeaves

LEMMA TypedInvInductive == TypedInv /\ [People!TypedNext]_typedVars => TypedInv'
<1> SUFFICES ASSUME TypedInv, [People!TypedNext]_typedVars PROVE TypedInv'
  OBVIOUS
<1>1. CASE UNCHANGED typedVars
  BY <1>1 DEF typedVars, TypedInv
<1>2. ASSUME NEW i \in TypedIds, NEW e \in KnownEntry, People!CreateEntry(i, e) PROVE TypedInv'
  BY <1>2, TypedCreates DEF People!CreateEntry, TypedInv
<1>3. ASSUME NEW i \in TypedIds, NEW e \in KnownEntry, People!UpsertWithConflictResolution(i, e) PROVE TypedInv'
  <2>1. CASE i \in People!Stored /\ UpsertLeaves(i, e, i, entries)
    BY <2>1, UpsertKeepsInv DEF TypedInv
  <2>2. CASE People!CreateEntry(i, e)
    BY <2>2, <1>2
  <2>3. ASSUME NEW j \in People!Conflicting(e), UpsertLeaves(i, e, j, [entries EXCEPT ![j] = None]) PROVE TypedInv'
    <3>1. /\ [entries EXCEPT ![j] = None] \in [TypedIds -> KnownEntry \cup {None}]
          /\ \A k \in TypedIds : [entries EXCEPT ![j] = None][k] \in {entries[k], None}
      BY DEF TypedInv
    <3> QED
      BY <3>1, <2>3, UpsertKeepsInv
  <2> QED
    BY <1>3, <2>1, <2>2, <2>3, UpsertCases
<1>4. ASSUME NEW i \in TypedIds, NEW s \in SomeStates, People!Update(i, s) PROVE TypedInv'
  <2> DEFINE e == [of |-> s, updated |-> clock, used |-> clock]
  <2>1. e \in KnownEntry /\ e.used = clock /\ clock \in Nat \ {0}
    BY DEF KnownEntry, TypedInv
  <2>2. People!Became("update", [entries EXCEPT ![i] = e], [touched EXCEPT ![i] = clock])
    BY <1>4 DEF People!Update, People!Touched
  <2> HIDE DEF e
  <2>3. /\ [entries EXCEPT ![i] = e] \in [TypedIds -> KnownEntry \cup {None}]
        /\ [touched EXCEPT ![i] = clock] \in [TypedIds -> Nat]
        /\ \A k \in TypedIds : [entries EXCEPT ![i] = e][k] # None =>
             /\ [touched EXCEPT ![i] = clock][k] = [entries EXCEPT ![i] = e][k].used
             /\ [touched EXCEPT ![i] = clock][k] # 0
    BY <2>1 DEF TypedInv
  <2> QED
    BY <2>2, <2>3, TypedBecame
<1>5. ASSUME NEW i \in TypedIds, People!Read(i) PROVE TypedInv'
  <2>1. PICK e : e = [entries[i] EXCEPT !.used = clock]
    OBVIOUS
  <2>2. entries[i] \in KnownEntry /\ clock \in Nat \ {0}
    BY <1>5 DEF People!Read, People!Stored, TypedInv
  <2>3. e \in KnownEntry /\ e.used = clock
    BY <2>1, <2>2 DEF KnownEntry
  <2>4. People!Became("read", [entries EXCEPT ![i] = e], [touched EXCEPT ![i] = clock])
    BY <1>5, <2>1 DEF People!Read, People!Used, People!Touched
  <2>5. /\ [entries EXCEPT ![i] = e] \in [TypedIds -> KnownEntry \cup {None}]
        /\ [touched EXCEPT ![i] = clock] \in [TypedIds -> Nat]
        /\ \A k \in TypedIds : [entries EXCEPT ![i] = e][k] # None =>
             /\ [touched EXCEPT ![i] = clock][k] = [entries EXCEPT ![i] = e][k].used
             /\ [touched EXCEPT ![i] = clock][k] # 0
    BY <2>2, <2>3 DEF TypedInv
  <2> QED
    BY <2>4, <2>5, TypedBecame
<1>6. ASSUME NEW i \in TypedIds, People!Delete(i) PROVE TypedInv'
  <2>1. PICK rest : rest = [entries EXCEPT ![i] = None]
    OBVIOUS
  <2>2. /\ rest \in [TypedIds -> KnownEntry \cup {None}]
        /\ \A k \in TypedIds : rest[k] \in {entries[k], None}
    BY <2>1 DEF TypedInv
  <2>3. People!Became("delete", rest, touched)
    BY <1>6, <2>1 DEF People!Delete
  <2> QED
    BY <2>2, <2>3, TypedKeeps
<1>7. ASSUME NEW i \in TypedIds, People!UpsertStored(i) PROVE TypedInv'
  <2>1. PICK e : e = entries[i]
    OBVIOUS
  <2>2. e \in KnownEntry /\ entries[i] # None
    BY <1>7, <2>1 DEF People!UpsertStored, People!Stored, TypedInv
  <2>3. People!Became("upsert", [entries EXCEPT ![i] = People!Create(i, e)], touched)
    BY <1>7, <2>1 DEF People!UpsertStored
  <2>4. /\ People!Create(i, e) \in KnownEntry /\ People!Create(i, e).used = People!ToldUse(e)
    BY <2>2, Created DEF TypedInv
  <2>5. touched[i] = e.used /\ e.used # 0
    BY <2>1, <2>2 DEF TypedInv
  <2>6. People!Create(i, e).used = e.used
    BY <2>4, <2>5 DEF People!ToldUse
  <2>7. /\ [entries EXCEPT ![i] = People!Create(i, e)] \in [TypedIds -> KnownEntry \cup {None}]
        /\ \A k \in TypedIds : [entries EXCEPT ![i] = People!Create(i, e)][k] # None =>
             touched[k] = [entries EXCEPT ![i] = People!Create(i, e)][k].used /\ touched[k] # 0
    BY <2>4, <2>5, <2>6 DEF TypedInv
  <2> QED
    BY <2>3, <2>7, TypedBecame DEF TypedInv
<1>8. CASE People!Prune
  <2>1. [i \in TypedIds |-> IF i \in People!GetPruningCandidates THEN None ELSE entries[i]]
          \in [TypedIds -> KnownEntry \cup {None}]
    BY DEF TypedInv
  <2> QED
    BY <1>8, <2>1, TypedKeeps DEF People!Prune, TypedIds
<1>9. CASE People!Tick
  <2>1. clock' = clock + 1 /\ entries' = entries /\ touched' = touched
    BY <1>9, Zenon DEF People!Tick
  <2> QED
    BY <2>1 DEF TypedInv
<1> QED
  BY <1>1, <1>2, <1>3, <1>4, <1>5, <1>6, <1>7, <1>8, <1>9, SomeoneTold DEF People!TypedNext, KnownEntry, TypedIds

LEMMA TypedInvInit == People!ProfilesInit => TypedInv
<1> SUFFICES ASSUME People!ProfilesInit PROVE TypedInv
  OBVIOUS
<1>1. /\ entries = [i \in TypedIds |-> None] /\ clock = 1
      /\ touched = [i \in TypedIds |-> 0]
  BY Zenon DEF People!ProfilesInit, TypedIds
<1> QED
  BY <1>1 DEF TypedInv

\* An entry that is kept, that one of its fact and no less trusted replaces, or that is
\* removed for such a one.
Survives(i) ==
  IF entries'[i] = None
  THEN \E j \in TypedIds :
         /\ entries'[j] # None /\ People!SameFact(entries'[j], i)
         /\ entries'[j].of.confidence >= entries[i].of.confidence
  ELSE /\ entries'[i].of.type = entries[i].of.type
       /\ entries'[i].of.confidence >= entries[i].of.confidence

LEMMA KeptSurvives ==
  ASSUME TypedInv, NEW k \in People!Stored, entries'[k] = entries[k]
  PROVE  Survives(k)
<1>1. k \in TypedIds /\ entries[k] # None /\ entries[k] \in KnownEntry
  BY DEF People!Stored, TypedInv, TypedIds
<1>2. entries[k].of.confidence \in Int
  BY <1>1, StatesAreNumbers DEF KnownEntry
<1> QED
  BY <1>1, <1>2 DEF Survives

LEMMA UpsertsSurvive ==
  ASSUME TypedInv, NEW i \in TypedIds, NEW e \in KnownEntry, last' = "upsert",
         People!UpsertWithConflictResolution(i, e), NEW k \in People!Stored
  PROVE  Survives(k)
<1>1. k \in TypedIds /\ entries[k] # None /\ entries[k] \in KnownEntry
  BY DEF People!Stored, TypedInv, TypedIds
<1>2. entries[k].of.confidence \in Int /\ e.of.confidence \in Int
  BY <1>1, StatesAreNumbers DEF KnownEntry
<1>3. People!Create(i, e) # None /\ People!Create(i, e).of = e.of
  BY Created DEF TypedInv
<1>4. PICK new : new = People!Create(i, e)
  OBVIOUS
<1>5. CASE People!Became("upsert", entries, touched)
  BY <1>5, KeptSurvives DEF People!Became
<1>6. ~People!CreateEntry(i, e)
  BY DEF People!CreateEntry, People!Became
<1>7. ASSUME NEW rest, People!Became("refused", rest, touched) PROVE FALSE
  BY <1>7 DEF People!Became
<1>8. CASE /\ i \in People!Stored /\ People!IncomingWins(e, i)
           /\ People!Became("upsert", [entries EXCEPT ![i] = People!Create(i, e)],
                            People!Touched(i, People!ToldUse(e)))
  <2>1. entries' = [entries EXCEPT ![i] = new]
    BY <1>8, <1>4 DEF People!Became
  <2>2. CASE k # i
    BY <2>1, <2>2, <1>1, KeptSurvives DEF TypedInv
  <2>3. CASE k = i
    <3>1. entries'[k] = new
      BY <2>1, <2>3 DEF TypedInv
    <3>2. entries[k].of.type = e.of.type /\ e.of.confidence >= entries[k].of.confidence
      BY <1>8, <1>2, <2>3 DEF People!IncomingWins
    <3> QED
      BY <3>1, <3>2, <1>3, <1>4 DEF Survives
  <2> QED
    BY <2>2, <2>3
<1>9. ASSUME i \notin People!Stored, NEW j \in People!Conflicting(e), People!IncomingWins(e, j),
             People!Became("upsert", [[entries EXCEPT ![j] = None] EXCEPT ![i] = People!Create(i, e)],
                           People!Touched(i, People!ToldUse(e)))
      PROVE  Survives(k)
  <2>1. j \in People!Stored /\ People!SameFact(e, j)
    BY DEF People!Conflicting
  <2>2. entries' = [[entries EXCEPT ![j] = None] EXCEPT ![i] = new]
    BY <1>9, <1>4 DEF People!Became
  <2>3. i # k /\ i # j /\ entries'[i] = new
    BY <2>1, <2>2, <1>9 DEF TypedInv
  <2>4. CASE k # j
    BY <2>2, <2>3, <2>4, <1>1, KeptSurvives DEF TypedInv
  <2>5. CASE k = j
    <3>1. entries'[k] = None
      BY <2>2, <2>3, <2>5, <1>1 DEF TypedInv
    <3>2. e.of.confidence >= entries[k].of.confidence
      BY <1>9, <1>2, <2>5 DEF People!IncomingWins
    <3>3. People!SameFact(new, k)
      BY <2>1, <2>5, <1>3, <1>4 DEF People!SameFact
    <3> QED
      BY <3>1, <3>2, <3>3, <2>3, <1>3, <1>4 DEF Survives
  <2> QED
    BY <2>4, <2>5
<1> QED
  BY <1>5, <1>6, <1>7, <1>8, <1>9, UpsertCases DEF UpsertLeaves

LEMMA StoredUpsertsSurvive ==
  ASSUME TypedInv, NEW i \in TypedIds, People!UpsertStored(i), NEW k \in People!Stored
  PROVE  Survives(k)
<1>1. PICK e : e = entries[i]
  OBVIOUS
<1>2. e \in KnownEntry /\ entries[i] # None
  BY <1>1 DEF People!UpsertStored, People!Stored, TypedInv
<1>3. PICK new : new = People!Create(i, e)
  OBVIOUS
<1>4. new # None /\ new.of = e.of
  BY <1>2, <1>3, Created DEF TypedInv
<1>5. entries' = [entries EXCEPT ![i] = new]
  BY <1>1, <1>3 DEF People!UpsertStored, People!Became
<1>6. k \in TypedIds /\ e.of.confidence \in Int
  BY <1>2, StatesAreNumbers DEF People!Stored, TypedIds, KnownEntry
<1>7. CASE k = i
  BY <1>1, <1>4, <1>5, <1>6, <1>7 DEF Survives, TypedInv
<1>8. CASE k # i
  BY <1>5, <1>6, <1>8, KeptSurvives DEF TypedInv
<1> QED
  BY <1>7, <1>8

\* The entries of a pruning that were not used for long are gone, the others stay.
LEMMA PruningTells ==
  ASSUME TypedInv, People!Prune, NEW i \in People!Stored
  PROVE  /\ entries'[i] = None => clock - touched[i] > 1
         /\ entries'[i] # None => clock - touched[i] <= 2
<1>1. i \in TypedIds /\ entries[i] # None /\ entries[i] \in KnownEntry /\ touched[i] = entries[i].used
  BY DEF People!Stored, TypedInv, TypedIds
<1>2. clock \in Nat /\ entries[i].used \in Nat
  BY <1>1 DEF TypedInv, KnownEntry
<1>3. entries'[i] = IF i \in People!GetPruningCandidates THEN None ELSE entries[i]
  BY <1>1 DEF People!Prune, People!Became, TypedIds
<1>4. i \in People!GetPruningCandidates <=> People!shouldPrune(entries[i])
  BY DEF People!GetPruningCandidates
<1> QED
  BY <1>1, <1>2, <1>3, <1>4 DEF People!shouldPrune

LEMMA TypedSteps == TypedInv /\ [People!TypedNext]_typedVars => [People!TypedStep]_typedVars
<1> SUFFICES ASSUME TypedInv, People!TypedNext, typedVars' # typedVars PROVE People!TypedStep
  OBVIOUS
<1>1. ASSUME NEW k \in People!Stored, last' = "upsert" PROVE Survives(k)
  <2>1. ASSUME NEW i \in TypedIds, NEW e \in KnownEntry, People!CreateEntry(i, e) PROVE FALSE
    BY <2>1, <1>1 DEF People!CreateEntry, People!Became
  <2>2. ASSUME NEW i \in TypedIds, NEW s, People!Update(i, s) PROVE FALSE
    BY <2>2, <1>1 DEF People!Update, People!Became
  <2>3. ASSUME NEW i \in TypedIds, People!Read(i) \/ People!Delete(i) PROVE FALSE
    BY <2>3, <1>1 DEF People!Read, People!Delete, People!Became
  <2>4. ~People!Prune
    BY <1>1 DEF People!Prune, People!Became
  <2>5. People!Tick => last' = ""
    BY Zenon DEF People!Tick
  <2>6. ~People!Tick
    BY <2>5, <1>1, Zenon
  <2> QED
    BY <2>1, <2>2, <2>3, <2>4, <2>6, <1>1, SomeoneTold, UpsertsSurvive, StoredUpsertsSurvive
    DEF People!TypedNext, KnownEntry, TypedIds
<1>2. ASSUME last' = "prune" PROVE People!Prune
  <2>1. ASSUME NEW i \in TypedIds, NEW e, People!CreateEntry(i, e) PROVE FALSE
    BY <2>1, <1>2 DEF People!CreateEntry, People!Became
  <2>2. ASSUME NEW i \in TypedIds, NEW s, People!Update(i, s) PROVE FALSE
    BY <2>2, <1>2 DEF People!Update, People!Became
  <2>3. ASSUME NEW i \in TypedIds, People!Read(i) \/ People!Delete(i) \/ People!UpsertStored(i) PROVE FALSE
    BY <2>3, <1>2 DEF People!Read, People!Delete, People!UpsertStored, People!Became
  <2>4. ASSUME NEW i \in TypedIds, NEW e, People!UpsertWithConflictResolution(i, e) PROVE FALSE
    BY <2>4, <2>1, <1>2, UpsertCases DEF UpsertLeaves, People!Became
  <2>5. People!Tick => last' = ""
    BY Zenon DEF People!Tick
  <2>6. ~People!Tick
    BY <2>5, <1>2, Zenon
  <2> QED
    BY <2>1, <2>2, <2>3, <2>4, <2>6, <1>2 DEF People!TypedNext, TypedIds
<1> QED
  BY <1>1, <1>2, PruningTells DEF People!TypedStep, Survives, TypedIds

-----------------------------------------------------------------------------
\* The intake of observations

LogIds == {"o", "o2"} \cup {"n1", "n2"}

\* A row has an ID of the log, and is the only one that has it.
RowsTell ==
  /\ \A r \in seen : r.id \in LogIds /\ r.content # None
  /\ \A r, s \in seen : r.id = s.id => r = s

StoredText(id) == IF Intake!Known(id) = {} THEN None ELSE (CHOOSE r \in Intake!Known(id) : TRUE).content

LEMMA KnownIs ==
  ASSUME RowsTell, NEW r \in seen
  PROVE  StoredText(r.id) = r.content
BY DEF RowsTell, StoredText, Intake!Known

LEMMA EventTarget == \A id, p, now : Intake!AuditEvent(id, p, now).target = id
BY DEF Intake!AuditEvent

\* A row that is inserted is a new observation, with its event.
LEMMA InsertTells ==
  ASSUME RowsTell, NEW id \in LogIds, NEW p \in Reports, Intake!Valid(p), NEW now, Intake!Insert(id, p, now)
  PROVE  RowsTell' /\ Intake!Promised!Observe(id, p)
<1>1. PICK row1 : row1 = Intake!Row(id, p, now)
  OBVIOUS
<1>2. row1.id = id /\ row1.content = Intake!Content(p) /\ row1.content # None
  BY <1>1, NoneAssumption DEF Intake!Row
<1>3. seen' = seen \cup {row1} /\ \A r \in seen : r.id # id
  BY <1>1 DEF Intake!Insert, Intake!Known
<1>4. RowsTell'
  BY <1>2, <1>3 DEF RowsTell
<1>5. StoredText(id) = None
  BY DEF Intake!Insert, StoredText
<1>6. StoredText(id)' = Intake!Content(p)
  <2>1. Intake!Known(id)' = {row1}
    BY <1>2, <1>3 DEF Intake!Known
  <2> QED
    BY <2>1, <1>2 DEF StoredText
<1>7. ASSUME NEW k \in LogIds, k # id PROVE StoredText(k)' = StoredText(k)
  <2>1. Intake!Known(k)' = Intake!Known(k)
    BY <1>2, <1>3, <1>7 DEF Intake!Known
  <2> QED
    BY <2>1 DEF StoredText
<1>8. [k \in LogIds |-> StoredText(k)]' = [[k \in LogIds |-> StoredText(k)] EXCEPT ![id] = Intake!Content(p)]
  BY <1>6, <1>7
<1>9. {e.target : e \in trail}' = {e.target : e \in trail} \cup {id}
  <2>1. PICK e1 : e1 = Intake!AuditEvent(id, p, now)
    OBVIOUS
  <2>2. trail' = trail \cup {e1} /\ e1.target = id
    BY <2>1, EventTarget DEF Intake!Insert
  <2> QED
    BY <2>2
<1>10. replies' = replies \cup {[id |-> id, text |-> p, stored |-> Intake!Content(p)]}
  BY DEF Intake!Insert, Intake!Answered
<1>11. [q \in {r \in Reports : Intake!Valid(r)} |-> Intake!Content(q)][p] = Intake!Content(p)
  OBVIOUS
<1>12. [k \in LogIds |-> StoredText(k)][id] = None
  BY <1>5
<1>13. Intake!Promised!ObserveNew(id, p)
  BY <1>8, <1>9, <1>10, <1>11, <1>12, Zenon
  DEF Intake!Promised!ObserveNew, Intake!Promised!Answered, LogIds, StoredText
<1> QED
  BY <1>4, <1>13 DEF Intake!Promised!Observe

\* What is answered without a new row is the observation of the ID.
LEMMA ReplayTells ==
  ASSUME RowsTell, NEW p \in Reports, Intake!Valid(p), Intake!Replay(p)
  PROVE  RowsTell' /\ \E id \in LogIds : Intake!Promised!Observe(id, p)
<1>1. PICK r \in seen : /\ r.id = TrimmedKey[p.id] /\ r.content = Intake!Content(p)
                        /\ replies' = replies \cup {[id |-> r.id, text |-> p, stored |-> r.content]}
  BY DEF Intake!Replay, Intake!Known, Intake!SameChecksum, Intake!Answered
<1>2. seen' = seen /\ trail' = trail /\ r.id \in {e.target : e \in trail}
  BY <1>1 DEF Intake!Replay, Intake!Audited
<1>3. RowsTell'
  BY <1>2 DEF RowsTell
<1>4. r.id \in LogIds /\ r.content # None /\ StoredText(r.id) = r.content
  BY KnownIs DEF RowsTell
<1>5. [k \in LogIds |-> StoredText(k)][r.id] = r.content
  BY <1>4
<1>6. ([k \in LogIds |-> StoredText(k)])' = [k \in LogIds |-> StoredText(k)]
  BY <1>2 DEF StoredText, Intake!Known
<1>7. {e.target : e \in trail}' = {e.target : e \in trail}
  BY <1>2
<1>8. [q \in {s \in Reports : Intake!Valid(s)} |-> Intake!Content(q)][p] = Intake!Content(p)
  OBVIOUS
<1>9. Intake!Promised!ObserveAgain(r.id, p)
  BY <1>1, <1>2, <1>4, <1>5, <1>6, <1>7, <1>8, Zenon
  DEF Intake!Promised!ObserveAgain, Intake!Promised!SameChecksum, Intake!Promised!Answered, LogIds, StoredText
<1> QED
  BY <1>3, <1>4, <1>9 DEF Intake!Promised!Observe

LEMMA ObserveTells ==
  ASSUME RowsTell, NEW p \in Reports, Intake!Observe(p)
  PROVE  RowsTell' /\ \E id \in LogIds : Intake!Promised!Observe(id, p)
<1>1. Intake!Valid(p)
  BY Zenon DEF Intake!Observe
<1>2. Intake!Replay(p) \/ \E now : \E id \in LogIds : Intake!Insert(id, p, now)
  BY ReportAssumption, <1>1, Zenon DEF Intake!Observe, LogIds
<1> QED
  BY <1>1, <1>2, InsertTells, ReplayTells

LEMMA ListingsLeave ==
  ASSUME RowsTell, seen' = seen, trail' = trail, replies' = replies
  PROVE  RowsTell' /\ UNCHANGED Intake!Promised!logVars
<1>1. RowsTell'
  BY DEF RowsTell
<1>2. ([k \in LogIds |-> StoredText(k)])' = [k \in LogIds |-> StoredText(k)]
  BY DEF StoredText, Intake!Known
<1>3. {e.target : e \in trail}' = {e.target : e \in trail}
  OBVIOUS
<1> QED
  BY <1>1, <1>2, <1>3, Zenon DEF Intake!Promised!logVars, LogIds, StoredText

LEMMA IntakeSteps ==
  RowsTell /\ [Intake!IntakeNext]_intakeVars => RowsTell' /\ [Intake!LogStep]_intakeVars
<1> SUFFICES ASSUME RowsTell, [Intake!IntakeNext]_intakeVars
             PROVE  RowsTell' /\ [Intake!LogStep]_intakeVars
  OBVIOUS
<1>1. CASE UNCHANGED intakeVars
  BY <1>1 DEF intakeVars, RowsTell
<1>2. ASSUME NEW p \in Reports, Intake!Observe(p) PROVE RowsTell' /\ Intake!LogStep
  <2>1. Intake!Valid(p)
    BY <1>2, Zenon DEF Intake!Observe
  <2> QED
    BY <1>2, <2>1, ObserveTells, Zenon DEF Intake!LogStep, LogIds
<1>3. ASSUME NEW q \in Listings, Intake!ListObservations(q) PROVE RowsTell' /\ Intake!LogStep
  <2>1. seen' = seen /\ trail' = trail /\ replies' = replies
    BY <1>3, Zenon DEF Intake!ListObservations
  <2> QED
    BY <2>1, ListingsLeave, Zenon DEF Intake!LogStep
<1>4. ASSUME NEW q \in Trails, Intake!AuditTrail(q) PROVE RowsTell' /\ Intake!LogStep
  <2>1. seen' = seen /\ trail' = trail /\ replies' = replies
    BY <1>4, Zenon DEF Intake!AuditTrail
  <2> QED
    BY <2>1, ListingsLeave, Zenon DEF Intake!LogStep
<1> QED
  BY <1>1, <1>2, <1>3, <1>4, Zenon DEF Intake!IntakeNext

-----------------------------------------------------------------------------
\* The promises of the calls

LEMMA IntakeStep ==
  [Next]_vars => [Intake!IntakeNext]_intakeVars /\ [People!TypedNext]_typedVars
BY DEF Next, vars, intakeVars, typedVars, Intake!intakeVars, People!typedVars

LEMMA RestsHold == Spec => [](HookInv /\ RowsTell /\ TypedInv)
<1>1. Init => RowsTell
  BY Zenon DEF Init, Intake!IntakeInit, RowsTell
<1>2. Init => TypedInv
  BY TypedInvInit DEF Init
<1>3. RowsTell /\ [Next]_vars => RowsTell'
  BY IntakeStep, IntakeSteps
<1>4. TypedInv /\ [Next]_vars => TypedInv'
  BY IntakeStep, TypedInvInductive
<1> QED
  BY <1>1, <1>2, <1>3, <1>4, HookInvHolds, PTL DEF Spec

\* A webhook call that returns without an error of the store recorded a result for each
\* endpoint it listed (delivery.go:178-210); each call of the observation log is one of the
\* log it promises to be (log.go:161-176); and an upsert of typed memory loses no fact, a
\* pruning nothing that is in use (conflict_resolution.go:67-78, typed_memory.go:65-124),
\* whatever the other stores do.
THEOREM CallsKeepTheirWord == Spec => CallsAsPromised
<1>1. HookInv /\ [Next]_vars =>
        [\A w \in Clients : delivery[w] # Hooks!Idle /\ delivery'[w] = Hooks!Idle /\ failed' = failed =>
           \A i \in delivery[w].listed : \E a \in attempts' :
             a.id = i /\ a.event = delivery[w].event /\ a.attempt = delivery[w].attempt]_(Hooks!vars)
  BY HooksStep, CleanReturn
<1>2. RowsTell /\ [Next]_vars => [part = "intake" => Intake!LogStep]_intakeVars
  BY IntakeStep, IntakeSteps
<1>3. TypedInv /\ [Next]_vars => [part = "typed" => People!TypedStep]_typedVars
  BY IntakeStep, TypedSteps
<1> QED
  BY <1>1, <1>2, <1>3, RestsHold, PTL DEF Spec, CallsAsPromised, Hooks!CleanCallCoversAll

-----------------------------------------------------------------------------
\* Proof, for any clients and any number of chunks

\* As long as nothing overlapped, a running Complete is the only call, has joined all the
\* chunks there are, and nothing is stored yet.
StreamInv ==
  /\ chunks \in Nat /\ completing = [c \in Clients |-> completing[c]]
  /\ Stream!StoredOnceWhole
  /\ crossed \/ \A c \in Clients : completing[c] # Stream!Outside =>
       /\ completing[c] = chunks /\ ~completed
       /\ \A d \in Clients \ {c} : completing[d] = Stream!Outside

LEMMA StreamInvInductive == StreamInv /\ [Stream!Next]_(Stream!vars) => StreamInv'
<1> SUFFICES ASSUME StreamInv, [Stream!Next]_(Stream!vars) PROVE StreamInv'
  OBVIOUS
<1> USE DEF StreamInv, Stream!StoredOnceWhole, Stream!Outside
<1>1. ASSUME NEW c \in Clients, Stream!AppendChunk(c) \/ Stream!Interrupt(c) PROVE StreamInv'
  <2>1. chunks' \in Nat /\ UNCHANGED <<completed, content, answer, completing>> /\ ~completed
    BY <1>1 DEF Stream!AppendChunk, Stream!Interrupt, Stream!Open
  <2>2. crossed' \/ (~crossed /\ \A d \in Clients : completing[d] = Stream!Outside)
    BY <1>1 DEF Stream!AppendChunk, Stream!Interrupt, Stream!Meets
  <2> QED
    BY <2>1, <2>2
<1>2. ASSUME NEW c \in Clients, Stream!BeginComplete(c) PROVE StreamInv'
  BY <1>2 DEF Stream!BeginComplete, Stream!Open, Stream!Meets, Stream!fields
<1>3. ASSUME NEW c \in Clients, Stream!Complete(c) PROVE StreamInv'
  <2>1. chunks' \in Nat /\ completing' = [d \in Clients |-> completing'[d]]
    BY <1>3 DEF Stream!Complete
  <2>2. ASSUME ~crossed
        PROVE  /\ answer' = IF completed' /\ content' > 0 THEN <<content'>> ELSE <<>>
               /\ completed' => content' = chunks'
    <3>1. answer = <<>> /\ completing[c] = chunks /\ content' = chunks /\ completed' /\ chunks' = chunks
      BY <1>3, <2>2 DEF Stream!Complete
    <3>2. answer' = IF chunks = 0 THEN <<>> ELSE <<chunks>>
      BY <1>3, <3>1 DEF Stream!Complete
    <3> QED
      BY <3>1, <3>2
  <2>3. ASSUME ~crossed, NEW d \in Clients PROVE completing'[d] = Stream!Outside
    BY <1>3, <2>3 DEF Stream!Complete
  <2> QED
    BY <1>3, <2>1, <2>2, <2>3 DEF Stream!Complete
<1>4. ASSUME NEW c \in Clients, Stream!CompleteFails(c) PROVE StreamInv'
  BY <1>4 DEF Stream!CompleteFails, Stream!StillOpen
<1>5. CASE UNCHANGED Stream!vars
  BY <1>5 DEF Stream!vars, Stream!fields
<1> QED
  BY <1>1, <1>2, <1>3, <1>4, <1>5 DEF Stream!Next

\* An answer is stored once and whole, and never when it was interrupted, as long as no
\* call runs during a Complete.
LEMMA AnswersStoredOnceWhole == Stream!Spec => []Stream!StoredOnceWhole
<1>1. Stream!Init => StreamInv
  BY DEF Stream!Init, StreamInv, Stream!StoredOnceWhole, Stream!Outside
<1>2. StreamInv => Stream!StoredOnceWhole
  BY DEF StreamInv
<1> QED
  BY <1>1, <1>2, StreamInvInductive, PTL DEF Stream!Spec

LEMMA StreamStep == [Next]_vars => [Stream!Next]_(Stream!vars)
BY DEF Next, vars, streamVars, Stream!vars, Stream!fields

\* The same of the streamed answer among the other stores.
THEOREM StreamsStoredOnceWhole == Spec => []StoredOnceWhole
<1>1. Init => Stream!Init
  BY DEF Init
<1>2. Stream!StoredOnceWhole => StoredOnceWhole
  BY DEF StoredOnceWhole
<1> QED
  BY <1>1, <1>2, StreamStep, AnswersStoredOnceWhole, PTL DEF Spec, Stream!Spec

-----------------------------------------------------------------------------
\* The plugin's async writer

LEMMA WriterStep == [Next]_vars => [Writer!Next]_(Writer!vars)
BY DEF Next, vars, writerVars, Writer!vars

LEMMA SessionsAreApart == Writer!SessionsDiffer
BY WriterAssumption DEF Writer!SessionsDiffer, Writer!NoSession

\* The newest cached session of a key is pending or saved unless it was cached while a
\* flush held its key (writer.go:92-97), whatever the other stores do.
THEOREM CacheLossesNeedRaces == Spec => []CacheLossNeedsRace
<1>1. Init => Writer!Init
  BY DEF Init
<1>2. Writer!CacheLossNeedsRace => CacheLossNeedsRace
  BY DEF CacheLossNeedsRace
<1> QED
  BY <1>1, <1>2, WriterStep, SessionsAreApart, Writer!WriterKeepsTheNewest, PTL DEF Spec, Writer!Spec

\* Queued sessions are stored once, and in the order they were accepted as far as no save
\* failed and no flushes overlapped (writer.go:63-64, 89-91), whatever the other stores do.
THEOREM QueuesInOrder == Spec => []QueueInOrder
<1>1. Init => Writer!Init
  BY DEF Init
<1>2. Writer!QueueExactlyOnce /\ Writer!FifoPastFailures => QueueInOrder
  BY DEF QueueInOrder
<1> QED
  BY <1>1, <1>2, WriterStep, SessionsAreApart, Writer!WriterKeepsTheOrder, PTL DEF Spec, Writer!Spec
-----------------------------------------------------------------------------
\* The portable export and import

AllKinds == {"observation", "message", "conclusion", "review_item", "memory_slot"}
AnyValue == Queueable \cup {"a", "b"}
AnyRecord == [kind : AllKinds, id : Memories, value : AnyValue]
Cell(kind, id) == Copies!Table(kind)[id]

TablesFit ==
  /\ observations \in [Memories -> AnyValue \cup {None}]
  /\ rows \in [AllKinds \ {"observation"} -> [Memories -> AnyValue \cup {None}]]

\* Each row is told once.
ToldOnce(records) ==
  /\ records \in Seq(AnyRecord)
  /\ \A i, j \in DOMAIN records :
       records[i].kind = records[j].kind /\ records[i].id = records[j].id => i = j

\* A review item comes after its conclusion, if that is not among those that are missing.
SubjectsFirst(records, missing) ==
  \A i \in DOMAIN records : records[i].kind = "review_item" =>
    \/ \E j \in DOMAIN records : j < i /\ records[j].kind = "conclusion" /\ records[j].id = records[i].id
    \/ records[i].id \in missing

\* After the table of conclusions, that of each review item was told or is missing.
SubjectsRead(tables, records, missing) ==
  tables >= 3 => \A id \in Memories : Cell("review_item", id) # None =>
    \/ \E j \in DOMAIN records : records[j].kind = "conclusion" /\ records[j].id = id
    \/ id \in missing

\* The tables read are told, and no other; there is no file yet and no import.
ExportFits ==
  export # Copies!Idle =>
    /\ export \in [at : {"read"}, tables : 0..4, records : Seq(AnyRecord)]
    /\ copy = <<>> /\ import = Copies!Idle
    /\ ToldOnce(export.records)
    /\ \A i \in DOMAIN export.records : \E n \in 1..export.tables : export.records[i].kind = Copies!Kinds[n]
    /\ torn \/ (SubjectsFirst(export.records, left) /\ SubjectsRead(export.tables, export.records, left))

\* What is looked up of slots is not among those that are there, what was imported is there
\* unless hosts changed it, and what the file or the database lacks is known.
ImportFits ==
  import # Copies!Idle =>
    /\ import \in [at : {"preview", "apply"}, next : Nat \ {0}, known : SUBSET Memories]
    /\ \A id \in import.known : Cell("memory_slot", id) # None
    /\ left \subseteq gone /\ \A id : <<"conclusion", id>> \in lateRows => id \in gone
    /\ import.at = "preview" =>
         /\ import.next \in DOMAIN copy
         /\ \A i \in DOMAIN copy : i < import.next /\ copy[i].kind = "memory_slot" => copy[i].id \notin import.known
    /\ import.at = "apply" =>
         /\ \A i \in DOMAIN copy : copy[i].kind = "memory_slot" => copy[i].id \notin import.known
         /\ \A i \in DOMAIN copy : i < import.next =>
              \/ Cell(copy[i].kind, copy[i].id) = copy[i].value
              \/ <<copy[i].kind, copy[i].id>> \in lateRows

\* While no host wrote during an export, a review item has its conclusion, or that is missing.
SubjectsThere ==
  torn \/
    /\ SubjectsFirst(copy, left)
    /\ \A id \in Memories : Cell("review_item", id) # None => Cell("conclusion", id) # None \/ id \in gone

CopiesInv == TablesFit /\ ToldOnce(copy) /\ ExportFits /\ ImportFits /\ SubjectsThere /\ ~lostRow

LEMMA ConcatFacts ==
  ASSUME NEW S, NEW p \in Seq(S), NEW q \in Seq(S)
  PROVE  /\ DOMAIN (p \o q) = 1 .. Len(p) + Len(q) /\ DOMAIN p = 1 .. Len(p) /\ DOMAIN q = 1 .. Len(q)
         /\ Len(p) \in Nat /\ Len(q) \in Nat
         /\ \A i \in 1 .. Len(p) : (p \o q)[i] = p[i]
         /\ \A i \in 1 .. Len(q) : (p \o q)[i + Len(p)] = q[i]
         /\ \A i \in 1 .. Len(p) + Len(q) : i > Len(p) =>
              i - Len(p) \in 1 .. Len(q) /\ (p \o q)[i] = q[i - Len(p)]
OBVIOUS

LEMMA KindsAre ==
  /\ Len(Copies!Kinds) = 5 /\ Copies!Kinds[1] = "observation" /\ Copies!Kinds[2] = "message"
  /\ Copies!Kinds[3] = "conclusion" /\ Copies!Kinds[4] = "review_item" /\ Copies!Kinds[5] = "memory_slot"
BY DEF Copies!Kinds

LEMMA OthersAre == Copies!Others = AllKinds \ {"observation"}
<1>1. DOMAIN Copies!Kinds = 1..5
  BY DEF Copies!Kinds
<1>2. Copies!ToSet(Copies!Kinds) = AllKinds
  <2>1. Copies!ToSet(Copies!Kinds) = {Copies!Kinds[i] : i \in 1..5}
    BY <1>1 DEF Copies!ToSet
  <2>2. \A i \in 1..5 : i = 1 \/ i = 2 \/ i = 3 \/ i = 4 \/ i = 5
    OBVIOUS
  <2>3. {Copies!Kinds[i] : i \in 1..5} \subseteq AllKinds
    BY <2>2, KindsAre DEF AllKinds
  <2>4. AllKinds \subseteq {Copies!Kinds[i] : i \in 1..5}
    BY KindsAre DEF AllKinds
  <2> QED
    BY <2>1, <2>3, <2>4
<1> QED
  BY <1>2 DEF Copies!Others

LEMMA CellTyped ==
  ASSUME TablesFit, NEW kind \in AllKinds, NEW id \in Memories
  PROVE  Cell(kind, id) \in AnyValue \cup {None}
BY DEF TablesFit, Cell, Copies!Table

LEMMA ValuesAreThere == None \notin AnyValue
BY NoneAssumption DEF AnyValue

\* One cell of the tables is set, the others are left.
SetsCell(k, i, v) ==
  /\ k \in AllKinds /\ i \in Memories /\ v \in AnyValue
  /\ \A kind \in AllKinds, id \in Memories :
       Cell(kind, id)' = IF kind = k /\ id = i THEN v ELSE Cell(kind, id)

LEMMA PutSets ==
  ASSUME TablesFit, NEW k \in AllKinds \ {"observation"}, NEW i \in Memories, NEW v \in AnyValue,
         Copies!Put(k, i, v), observations' = observations
  PROVE  TablesFit' /\ SetsCell(k, i, v)
<1>1. rows' = [rows EXCEPT ![k] = [rows[k] EXCEPT ![i] = v]]
  BY DEF Copies!Put
<1>2. [rows[k] EXCEPT ![i] = v] \in [Memories -> AnyValue \cup {None}]
  BY DEF TablesFit
<1>3. TablesFit'
  BY <1>1, <1>2 DEF TablesFit
<1>4. ASSUME NEW kind \in AllKinds, NEW id \in Memories
      PROVE  Cell(kind, id)' = IF kind = k /\ id = i THEN v ELSE Cell(kind, id)
  <2>1. CASE kind = "observation"
    BY <2>1 DEF Cell, Copies!Table
  <2>2. CASE kind # "observation"
    BY <2>2, <1>1, <1>2 DEF Cell, Copies!Table, TablesFit
  <2> QED
    BY <2>1, <2>2
<1> QED
  BY <1>3, <1>4 DEF SetsCell

LEMMA ObservationSets ==
  ASSUME TablesFit, NEW i \in Memories, NEW v \in AnyValue,
         observations' = [observations EXCEPT ![i] = v], rows' = rows
  PROVE  TablesFit' /\ SetsCell("observation", i, v)
<1>1. TablesFit'
  BY DEF TablesFit
<1>2. ASSUME NEW kind \in AllKinds, NEW id \in Memories
      PROVE  Cell(kind, id)' = IF kind = "observation" /\ id = i THEN v ELSE Cell(kind, id)
  BY DEF Cell, Copies!Table, TablesFit
<1> QED
  BY <1>1, <1>2 DEF SetsCell, AllKinds

\* What a host writes: a row that was not there, of a review only with its conclusion, or a
\* slot, which an import that runs is told of.
HostWrote(k, i) ==
  /\ k # "memory_slot" => Cell(k, i) = None
  /\ k = "memory_slot" /\ import # Copies!Idle => <<"memory_slot", i>> \in lateRows'
  /\ k = "review_item" => Cell("conclusion", i) # None

\* A row a host deletes, which an import that runs is told of too.
HostDeleted(k, i) ==
  /\ k \in {"message", "conclusion"}
  /\ k = "conclusion" => i \in gone'
  /\ import # Copies!Idle => <<k, i>> \in lateRows'

HostStep ==
  /\ UNCHANGED <<export, copy, import, lostRow, left>> /\ torn' = (torn \/ export # Copies!Idle)
  /\ lateRows \subseteq lateRows' /\ gone \subseteq gone'
  /\ \A id : <<"conclusion", id>> \in lateRows' => <<"conclusion", id>> \in lateRows \/ id \in gone'
  /\ TablesFit'
  /\ \/ UNCHANGED <<observations, rows>>
     \/ \E k, i, v : SetsCell(k, i, v) /\ HostWrote(k, i)
     \/ \A kind \in AllKinds, id \in Memories : Cell(kind, id)' = Cell(kind, id) \/ HostDeleted(kind, id)

LEMMA DeletesStep ==
  ASSUME TablesFit, Copies!HostDeletes
  PROVE  HostStep
<1>1. PICK those \in SUBSET ({"message", "conclusion"} \X Memories) :
        /\ rows' = [kind \in AllKinds \ {"observation"} |->
                      [id \in Memories |-> IF <<kind, id>> \in those THEN None ELSE rows[kind][id]]]
        /\ gone' = gone \cup {id \in Memories : <<"conclusion", id>> \in those}
        /\ lateRows' = IF import = Copies!Idle THEN lateRows ELSE lateRows \cup those
  BY OthersAre, Zenon DEF Copies!HostDeletes, Copies!Numbered, Copies!Late
<1>2. /\ UNCHANGED <<export, copy, import, lostRow, left, observations>>
      /\ torn' = (torn \/ export # Copies!Idle)
  BY DEF Copies!HostDeletes, Copies!HostWrites, Copies!logVars
<1>3. TablesFit'
  BY <1>1, <1>2 DEF TablesFit
<1>4. ASSUME NEW kind \in AllKinds, NEW id \in Memories
      PROVE  Cell(kind, id)' = Cell(kind, id) \/ HostDeleted(kind, id)
  <2>1. CASE <<kind, id>> \in those
    BY <1>1, <2>1 DEF HostDeleted
  <2>2. CASE <<kind, id>> \notin those
    <3>1. CASE kind = "observation"
      BY <1>2, <3>1 DEF Cell, Copies!Table
    <3>2. CASE kind # "observation"
      BY <1>1, <2>2, <3>2 DEF Cell, Copies!Table
    <3> QED
      BY <3>1, <3>2
  <2> QED
    BY <2>1, <2>2
<1>5. \A id : <<"conclusion", id>> \in lateRows' => <<"conclusion", id>> \in lateRows \/ id \in gone'
  BY <1>1
<1> QED
  BY <1>1, <1>2, <1>3, <1>4, <1>5 DEF HostStep

LEMMA FileCells ==
  ASSUME ToldOnce(copy), NEW i \in DOMAIN copy
  PROVE  copy[i] \in AnyRecord /\ copy[i].kind \in AllKinds /\ copy[i].id \in Memories /\ copy[i].value \in AnyValue
<1>1. copy[i] \in AnyRecord
  BY DEF ToldOnce
<1> QED
  BY <1>1 DEF AnyRecord

\* The row of an ID was numbered with it.
UsedFits ==
  /\ used \in [{"message", "conclusion"} -> SUBSET Memories]
  /\ \A kind \in {"message", "conclusion"}, id \in Memories : rows[kind][id] # None => id \in used[kind]

LEMMA PutUsed ==
  ASSUME TablesFit, UsedFits, NEW k \in AllKinds \ {"observation"}, NEW i \in Memories, NEW v, Copies!Put(k, i, v),
         used' \in [{"message", "conclusion"} -> SUBSET Memories],
         \A kind \in {"message", "conclusion"} : used[kind] \subseteq used'[kind] /\ (kind = k => i \in used'[kind])
  PROVE  UsedFits'
<1>1. \A kind \in {"message", "conclusion"}, id \in Memories :
        rows'[kind][id] = IF kind = k /\ id = i THEN v ELSE rows[kind][id]
  BY DEF Copies!Put, TablesFit, AllKinds
<1> QED
  BY <1>1 DEF UsedFits

LEMMA UsedKeeps ==
  ASSUME CopiesInv, UsedFits, Copies!Next \/ UNCHANGED <<rows, used>>
  PROVE  UsedFits'
<1>1. CASE UNCHANGED <<rows, used>>
  BY <1>1 DEF UsedFits
<1>2. CASE Copies!HostAdds
  <2>1. PICK kind \in {"message", "conclusion"}, value \in Queueable, id \in Memories :
          Copies!Put(kind, id, value) /\ used' = [used EXCEPT ![kind] = @ \cup {id}]
    BY <1>2 DEF Copies!HostAdds, Copies!Numbered
  <2> QED
    BY <2>1, PutUsed DEF UsedFits, AllKinds, CopiesInv
<1>3. CASE Copies!HostReviews \/ Copies!HostSetsSlot
  <2>1. PICK kind \in {"review_item", "memory_slot"}, value \in Queueable, id \in Memories : Copies!Put(kind, id, value)
    BY <1>3 DEF Copies!HostReviews, Copies!HostSetsSlot, Copies!Known
  <2>2. used' = used
    BY <1>3 DEF Copies!HostReviews, Copies!HostSetsSlot
  <2> QED
    BY <2>1, <2>2, PutUsed DEF UsedFits, AllKinds, CopiesInv
<1>4. CASE Copies!HostDeletes
  <2>1. PICK those : rows' = [kind \in AllKinds \ {"observation"} |->
                                [id \in Memories |-> IF <<kind, id>> \in those THEN None ELSE rows[kind][id]]]
    BY <1>4, OthersAre, Zenon DEF Copies!HostDeletes
  <2>2. used' = used
    BY <1>4 DEF Copies!HostDeletes
  <2> QED
    BY <2>1, <2>2 DEF UsedFits, AllKinds
<1>5. CASE Copies!NewDatabase
  <2>1. /\ rows' = [kind \in AllKinds \ {"observation"} |-> [id \in Memories |-> None]]
        /\ used' = [kind \in {"message", "conclusion"} |-> {}]
    BY <1>5, OthersAre DEF Copies!NewDatabase, Copies!NoRows, Copies!Numbered
  <2> QED
    BY <2>1 DEF UsedFits, AllKinds
<1>6. CASE Copies!ImportRecord /\ UNCHANGED rows
  <2>1. PICK r : r = copy[import.next]
    OBVIOUS
  <2>2. used' = used \/ used' = [kind \in {"message", "conclusion"} |->
                                   used[kind] \cup {i \in Memories : kind = r.kind /\ i <= r.id}]
    BY <1>6, <2>1 DEF Copies!ImportRecord, Copies!Numbered
  <2> QED
    BY <1>6, <2>2 DEF UsedFits
<1>7. CASE Copies!ImportRecord /\ ~UNCHANGED rows
  <2>1. PICK r : r = copy[import.next]
    OBVIOUS
  <2>2. /\ r.kind # "observation" /\ Copies!Put(r.kind, r.id, r.value)
        /\ used' = [kind \in {"message", "conclusion"} |->
                      used[kind] \cup {i \in Memories : kind = r.kind /\ i <= r.id}]
    BY <1>7, <2>1 DEF Copies!ImportRecord, Copies!Numbered
  <2>3. r.kind \in AllKinds /\ r.id \in Memories
    <3>1. import.at = "apply" /\ import # Copies!Idle /\ import.next <= Len(copy)
      BY <1>7 DEF Copies!ImportRecord, Copies!Idle
    <3>2. import.next \in DOMAIN copy
      BY <3>1 DEF CopiesInv, ToldOnce, ImportFits
    <3> QED
      BY <2>1, <3>2, FileCells DEF CopiesInv
  <2>4. \A i \in Memories : i <= i
    BY MemoriesAssumption
  <2> QED
    BY <2>2, <2>3, <2>4, PutUsed DEF UsedFits, CopiesInv
<1>8. CASE \/ Copies!HostObserves \/ Copies!BeginExport \/ Copies!ReadTable \/ Copies!BeginImport
           \/ Copies!Preview \/ Copies!ImportDone \/ Copies!ImportFails
  <2>1. UNCHANGED <<rows, used>>
    BY <1>8 DEF Copies!HostObserves, Copies!BeginExport, Copies!ReadTable, Copies!BeginImport,
      Copies!Preview, Copies!ImportDone, Copies!ImportFails, Copies!tables
  <2> QED
    BY <1>1, <2>1
<1> QED
  BY <1>1, <1>2, <1>3, <1>4, <1>5, <1>6, <1>7, <1>8 DEF Copies!Next

LEMMA HostsStep ==
  ASSUME TablesFit, UsedFits,
         Copies!HostObserves \/ Copies!HostAdds \/ Copies!HostReviews \/ Copies!HostSetsSlot
  PROVE  HostStep
<1>1. UNCHANGED <<export, copy, import, lostRow, left, gone>> /\ torn' = (torn \/ export # Copies!Idle)
  BY DEF Copies!HostObserves, Copies!HostAdds, Copies!HostReviews, Copies!HostSetsSlot, Copies!HostWrites
<1>2. CASE Copies!HostObserves
  <2>1. PICK id \in Memories, text \in {"a", "p", "b"} : Copies!Observe(id, text)
    BY <1>2 DEF Copies!HostObserves
  <2>2. rows' = rows /\ lateRows' = lateRows
    BY <1>2 DEF Copies!HostObserves
  <2>3. CASE Copies!ObserveAgain(id, text)
    BY <2>2, <2>3, <1>1 DEF Copies!ObserveAgain, HostStep, TablesFit
  <2>4. CASE Copies!ObserveNew(id, text)
    <3>1. PICK v : v = [t \in {"a", "p", "b"} |-> IF t = "p" THEN "a" ELSE t][text]
      OBVIOUS
    <3>2. v \in AnyValue
      BY <3>1 DEF AnyValue
    <3>3. observations[id] = None /\ observations' = [observations EXCEPT ![id] = v]
      BY <2>4, <3>1 DEF Copies!ObserveNew
    <3>4. Cell("observation", id) = None
      BY <3>3 DEF Cell, Copies!Table
    <3>5. HostWrote("observation", id)
      BY <3>4 DEF HostWrote
    <3> QED
      BY <3>2, <3>3, <3>5, <2>2, <1>1, ObservationSets DEF HostStep
  <2> QED
    BY <2>1, <2>3, <2>4 DEF Copies!Observe
<1>3. CASE Copies!HostAdds
  <2>1. PICK kind \in {"message", "conclusion"}, value \in Queueable, id \in Memories :
          used[kind] = {i \in Memories : i < id} /\ Copies!Put(kind, id, value)
    BY <1>3 DEF Copies!HostAdds, Copies!Numbered
  <2>2. observations' = observations /\ lateRows' = lateRows
    BY <1>3 DEF Copies!HostAdds, Copies!logVars
  <2>3. Cell(kind, id) = None
    <3>1. ~(id < id)
      BY MemoriesAssumption
    <3>2. id \notin used[kind]
      BY <2>1, <3>1
    <3> QED
      BY <3>2 DEF UsedFits, Cell, Copies!Table
  <2>4. HostWrote(kind, id)
    BY <2>3 DEF HostWrote
  <2>5. TablesFit' /\ SetsCell(kind, id, value)
    BY <2>1, <2>2, PutSets DEF AllKinds, AnyValue
  <2> QED
    BY <2>2, <2>4, <2>5, <1>1 DEF HostStep
<1>4. CASE Copies!HostReviews
  <2>1. PICK id \in Copies!Known("conclusion") \ Copies!Known("review_item"), value \in Queueable :
          Copies!Put("review_item", id, value)
    BY <1>4 DEF Copies!HostReviews
  <2>2. observations' = observations /\ lateRows' = lateRows
    BY <1>4 DEF Copies!HostReviews, Copies!logVars
  <2>3. id \in Memories /\ Cell("review_item", id) = None /\ Cell("conclusion", id) # None
    BY DEF Copies!Known, Cell
  <2>4. HostWrote("review_item", id)
    BY <2>3 DEF HostWrote
  <2>5. TablesFit' /\ SetsCell("review_item", id, value)
    BY <2>1, <2>2, <2>3, PutSets DEF AllKinds, AnyValue
  <2> QED
    BY <2>2, <2>4, <2>5, <1>1 DEF HostStep
<1>5. CASE Copies!HostSetsSlot
  <2>1. PICK id \in Memories, value \in Queueable :
          /\ Copies!Put("memory_slot", id, value)
          /\ lateRows' = IF import = Copies!Idle THEN lateRows ELSE lateRows \cup {<<"memory_slot", id>>}
    BY <1>5 DEF Copies!HostSetsSlot, Copies!Late
  <2>2. observations' = observations
    BY <1>5 DEF Copies!HostSetsSlot, Copies!logVars
  <2>3. /\ HostWrote("memory_slot", id) /\ lateRows \subseteq lateRows'
        /\ \A i : <<"conclusion", i>> \in lateRows' => <<"conclusion", i>> \in lateRows
    BY <2>1 DEF HostWrote
  <2>4. TablesFit' /\ SetsCell("memory_slot", id, value)
    BY <2>1, <2>2, PutSets DEF AllKinds, AnyValue
  <2> QED
    BY <2>3, <2>4, <1>1 DEF HostStep
<1> QED
  BY <1>2, <1>3, <1>4, <1>5

\* Of a cell that was set none but a slot is changed, and none but a row with a number emptied.
LEMMA HostCells ==
  ASSUME TablesFit, HostStep, NEW kind \in AllKinds, NEW id \in Memories
  PROVE  /\ Cell(kind, id) # None /\ Cell(kind, id)' = None =>
              kind \in {"message", "conclusion"} /\ (kind = "conclusion" => id \in gone')
         /\ \/ Cell(kind, id)' = Cell(kind, id) \/ Cell(kind, id) = None
            \/ import # Copies!Idle => <<kind, id>> \in lateRows'
         /\ kind = "review_item" /\ Cell(kind, id)' # None =>
              Cell(kind, id) # None \/ Cell("conclusion", id) # None
<1>1. CASE UNCHANGED <<observations, rows>>
  BY <1>1 DEF Cell, Copies!Table
<1>2. CASE \E k, i, v : SetsCell(k, i, v) /\ HostWrote(k, i)
  <2>1. PICK k, i, v : SetsCell(k, i, v) /\ HostWrote(k, i)
    BY <1>2
  <2>2. Cell(kind, id)' = IF kind = k /\ id = i THEN v ELSE Cell(kind, id)
    BY <2>1 DEF SetsCell
  <2>3. v # None
    BY <2>1, ValuesAreThere DEF SetsCell
  <2> QED
    BY <2>1, <2>2, <2>3 DEF HostWrote
<1>3. CASE \A k \in AllKinds, i \in Memories : Cell(k, i)' = Cell(k, i) \/ HostDeleted(k, i)
  <2>1. Cell(kind, id)' = Cell(kind, id) \/ HostDeleted(kind, id)
    BY <1>3
  <2> QED
    BY <2>1 DEF HostDeleted
<1> QED
  BY <1>1, <1>2, <1>3 DEF HostStep

LEMMA HostsKeepCopies ==
  ASSUME CopiesInv, HostStep
  PROVE  CopiesInv'
<1>1. TablesFit' /\ ToldOnce(copy)' /\ ~lostRow'
  BY DEF CopiesInv, HostStep, ToldOnce
<1>2. ExportFits'
  <2> SUFFICES ASSUME export # Copies!Idle PROVE ExportFits'
    BY DEF ExportFits, HostStep
  <2>1. torn' /\ export' = export /\ copy' = copy /\ import' = import
    BY DEF HostStep
  <2>2. ToldOnce(export.records) => ToldOnce(export.records)'
    BY <2>1 DEF ToldOnce
  <2> QED
    BY <2>1, <2>2 DEF CopiesInv, ExportFits
<1>3. ImportFits'
  <2> SUFFICES ASSUME import # Copies!Idle PROVE ImportFits'
    BY DEF ImportFits, HostStep
  <2>1. ASSUME NEW id \in import.known PROVE Cell("memory_slot", id)' # None
    <3>1. id \in Memories /\ Cell("memory_slot", id) # None
      BY DEF CopiesInv, ImportFits
    <3> QED
      BY <3>1, HostCells DEF AllKinds, CopiesInv
  <2>2. ASSUME import.at = "apply", NEW i \in DOMAIN copy, i < import.next
        PROVE  \/ Cell(copy[i].kind, copy[i].id)' = copy[i].value
               \/ <<copy[i].kind, copy[i].id>> \in lateRows'
    <3>1. /\ copy[i].kind \in AllKinds /\ copy[i].id \in Memories /\ copy[i].value # None
      BY FileCells, ValuesAreThere DEF CopiesInv
    <3>2. \/ Cell(copy[i].kind, copy[i].id) = copy[i].value
          \/ <<copy[i].kind, copy[i].id>> \in lateRows
      BY <2>2 DEF CopiesInv, ImportFits
    <3>3. PICK kind \in AllKinds, id \in Memories : kind = copy[i].kind /\ id = copy[i].id
      BY <3>1
    <3>4. \/ Cell(kind, id)' = Cell(kind, id) \/ Cell(kind, id) = None
          \/ <<kind, id>> \in lateRows'
      BY HostCells DEF CopiesInv
    <3>5. Cell(copy[i].kind, copy[i].id)' = Cell(kind, id)'
      BY <3>3 DEF HostStep, Cell, Copies!Table
    <3> QED
      BY <3>1, <3>2, <3>3, <3>4, <3>5 DEF HostStep
  <2>3. import' = import /\ copy' = copy /\ lateRows \subseteq lateRows' /\ left' = left /\ gone \subseteq gone'
    BY DEF HostStep
  <2>4. ASSUME import.at = "apply", NEW i \in DOMAIN copy, i < import.next
        PROVE  (Cell(copy[i].kind, copy[i].id) = copy[i].value \/ <<copy[i].kind, copy[i].id>> \in lateRows)'
    BY <2>2, <2>3, <2>4
  <2>5. (\A id \in import.known : Cell("memory_slot", id) # None)'
    BY <2>1, <2>3
  <2>6. left' \subseteq gone' /\ \A id : <<"conclusion", id>> \in lateRows' => id \in gone'
    BY <2>3 DEF CopiesInv, ImportFits, HostStep
  <2> QED
    BY <2>3, <2>4, <2>5, <2>6 DEF CopiesInv, ImportFits
<1>4. SubjectsThere'
  <2>1. CASE torn \/ export # Copies!Idle
    BY <2>1 DEF HostStep, SubjectsThere
  <2>2. CASE ~torn /\ export = Copies!Idle
    <3>1. SubjectsFirst(copy, left)'
      BY <2>2 DEF CopiesInv, SubjectsThere, HostStep, SubjectsFirst
    <3>2. ASSUME NEW id \in Memories, Cell("review_item", id)' # None
          PROVE  Cell("conclusion", id)' # None \/ id \in gone'
      <4>1. Cell("review_item", id) # None \/ Cell("conclusion", id) # None
        BY <3>2, HostCells DEF CopiesInv, AllKinds
      <4>2. Cell("conclusion", id) # None \/ id \in gone
        BY <4>1, <2>2 DEF CopiesInv, SubjectsThere
      <4> QED
        BY <4>2, HostCells DEF CopiesInv, AllKinds, HostStep
    <3> QED
      BY <3>1, <3>2 DEF SubjectsThere
  <2> QED
    BY <2>1, <2>2
<1> QED
  BY <1>1, <1>2, <1>3, <1>4 DEF CopiesInv

\* The tables are left.
LEMMA TablesLeft ==
  ASSUME observations' = observations, rows' = rows
  PROVE  /\ TablesFit => TablesFit'
         /\ \A kind, id : Cell(kind, id)' = Cell(kind, id)
BY DEF TablesFit, Cell, Copies!Table

LEMMA NewDatabaseKeeps ==
  ASSUME CopiesInv, Copies!NewDatabase
  PROVE  CopiesInv'
<1>1. /\ observations' = [id \in Memories |-> None]
      /\ rows' = [kind \in AllKinds \ {"observation"} |-> [id \in Memories |-> None]]
      /\ UNCHANGED <<export, copy, import, torn, lateRows, lostRow, left>>
      /\ export = Copies!Idle /\ import = Copies!Idle
  BY OthersAre DEF Copies!NewDatabase, Copies!NoRows
<1>2. TablesFit'
  BY <1>1 DEF TablesFit
<1>3. \A id \in Memories : Cell("review_item", id)' = None
  BY <1>1 DEF Cell, Copies!Table, AllKinds
<1>4. ToldOnce(copy)' /\ ExportFits' /\ ImportFits' /\ ~lostRow'
  BY <1>1 DEF CopiesInv, ToldOnce, ExportFits, ImportFits
<1>5. SubjectsThere'
  BY <1>1, <1>3 DEF CopiesInv, SubjectsThere, SubjectsFirst
<1> QED
  BY <1>2, <1>4, <1>5 DEF CopiesInv

LEMMA BeginExportKeeps ==
  ASSUME CopiesInv, Copies!BeginExport
  PROVE  CopiesInv'
<1>1. /\ observations' = observations /\ rows' = rows
      /\ UNCHANGED <<import, torn, lateRows, lostRow, gone>> /\ copy' = <<>>
      /\ import = Copies!Idle
  BY DEF Copies!BeginExport, Copies!logVars
<1>2. PICK new : new = [at |-> "read", tables |-> 0, records |-> <<>>]
  OBVIOUS
<1>3. /\ export' = new /\ new \in [at : {"read"}, tables : 0..4, records : Seq(AnyRecord)]
      /\ new.tables = 0 /\ new.records = <<>> /\ DOMAIN new.records = {}
  BY <1>2 DEF Copies!BeginExport
<1>4. ToldOnce(copy)' /\ ToldOnce(export.records)'
  BY <1>1, <1>3 DEF ToldOnce
<1>5. SubjectsFirst(copy, left)' /\ SubjectsFirst(export.records, left)' /\ SubjectsRead(export.tables, export.records, left)'
  BY <1>1, <1>3 DEF SubjectsFirst, SubjectsRead
<1>6. ExportFits'
  BY <1>1, <1>3, <1>4, <1>5 DEF ExportFits
<1>7. ImportFits' /\ ~lostRow'
  BY <1>1 DEF CopiesInv, ImportFits
<1>8. TablesFit' /\ \A kind, id : Cell(kind, id)' = Cell(kind, id)
  BY <1>1, TablesLeft DEF CopiesInv
<1>9. SubjectsThere'
  BY <1>1, <1>5, <1>8 DEF CopiesInv, SubjectsThere
<1> QED
  BY <1>4, <1>6, <1>7, <1>8, <1>9 DEF CopiesInv

LEMMA OrderedLists ==
  ASSUME NEW S \in SUBSET Memories, NEW ids \in Copies!InOrder(S)
  PROVE  /\ ids \in Seq(S)
         /\ \A i, j \in DOMAIN ids : ids[i] = ids[j] => i = j
         /\ \A x \in S : \E i \in DOMAIN ids : ids[i] = x
<1>1. IsFiniteSet(S) /\ Copies!Cardinality(S) = Cardinality(S)
  BY MemoriesAssumption, FS_Subset DEF Copies!Cardinality, Cardinality
<1>2. PICK n \in Nat : n = Cardinality(S)
  BY <1>1, FS_CardinalityType
<1>3. ids \in [1..n -> S] /\ \A i, j \in 1..n : i < j => ids[i] < ids[j]
  BY <1>1, <1>2 DEF Copies!InOrder
<1>4. \A i, j \in 1..n : ids[i] = ids[j] => i = j
  <2> SUFFICES ASSUME NEW i \in 1..n, NEW j \in 1..n, ids[i] = ids[j], i # j PROVE FALSE
    OBVIOUS
  <2>1. i < j \/ j < i
    OBVIOUS
  <2>2. ids[i] \in Int /\ ids[j] \in Int
    BY <1>3, MemoriesAssumption
  <2> QED
    BY <1>3, <2>1, <2>2
<1>5. ASSUME NEW x \in S PROVE \E i \in 1..n : ids[i] = x
  <2> SUFFICES ASSUME \A i \in 1..n : ids[i] # x PROVE FALSE
    OBVIOUS
  <2>1. IsFiniteSet(S \ {x}) /\ Cardinality(S \ {x}) = n - 1
    BY <1>1, <1>2, FS_RemoveElement
  <2>2. IsFiniteSet(1..n) /\ Cardinality(1..n) = n
    BY FS_Interval
  <2>3. ids \in [1..n -> S \ {x}]
    BY <1>3
  <2>4. Cardinality(S \ {x}) < Cardinality(1..n)
    BY <2>1, <2>2
  <2>5. \E i, j \in 1..n : i # j /\ ids[i] = ids[j]
    BY <2>1, <2>2, <2>3, <2>4, FS_PigeonHole
  <2> QED
    BY <2>5, <1>4
<1>6. ids \in Seq(S) /\ DOMAIN ids = 1..n
  BY <1>3
<1> QED
  BY <1>4, <1>5, <1>6

LEMMA KindsDiffer ==
  /\ \A n \in 1..5 : Copies!Kinds[n] \in AllKinds
  /\ \A m, n \in 1..5 : Copies!Kinds[m] = Copies!Kinds[n] => m = n
<1>1. \A i \in 1..5 : i = 1 \/ i = 2 \/ i = 3 \/ i = 4 \/ i = 5
  OBVIOUS
<1> QED
  BY <1>1, KindsAre DEF AllKinds

\* What is read of a table: each row asked for, once.
LEMMA ExportedTells ==
  ASSUME TablesFit, NEW kind \in AllKinds, NEW S \in SUBSET Copies!Known(kind), NEW ids \in Copies!InOrder(S)
  PROVE  /\ Copies!Exported(kind, ids) \in Seq(AnyRecord)
         /\ \A i \in DOMAIN Copies!Exported(kind, ids) :
              /\ Copies!Exported(kind, ids)[i].kind = kind
              /\ Copies!Exported(kind, ids)[i].id \in Memories
              /\ Cell(kind, Copies!Exported(kind, ids)[i].id) # None
         /\ \A i, j \in DOMAIN Copies!Exported(kind, ids) :
              Copies!Exported(kind, ids)[i].id = Copies!Exported(kind, ids)[j].id => i = j
         /\ \A id \in S : \E i \in DOMAIN Copies!Exported(kind, ids) : Copies!Exported(kind, ids)[i].id = id
<1>1. S \in SUBSET Memories
  BY DEF Copies!Known
<1>2. /\ ids \in Seq(S)
      /\ \A i, j \in DOMAIN ids : ids[i] = ids[j] => i = j
      /\ \A x \in S : \E i \in DOMAIN ids : ids[i] = x
  BY <1>1, OrderedLists
<1>3. \A id \in S : id \in Memories /\ Cell(kind, id) # None
  BY <1>1 DEF Copies!Known, Cell
<1>4. \A i \in DOMAIN ids : ids[i] \in Memories /\ Cell(kind, ids[i]) \in AnyValue
  BY <1>2, <1>3, CellTyped
<1>5. PICK new : new = Copies!Exported(kind, ids)
  OBVIOUS
<1>6. /\ DOMAIN new = DOMAIN ids
      /\ \A i \in DOMAIN ids : new[i] = [kind |-> kind, id |-> ids[i], value |-> Cell(kind, ids[i])]
      /\ new = [i \in DOMAIN ids |-> new[i]]
  BY <1>5 DEF Copies!Exported, Cell
<1>7. \A i \in DOMAIN ids : new[i] \in AnyRecord /\ new[i].kind = kind /\ new[i].id = ids[i]
  BY <1>4, <1>6 DEF AnyRecord
<1>8. new \in Seq(AnyRecord)
  <2>1. DOMAIN ids = 1..Len(ids) /\ Len(ids) \in Nat
    BY <1>2
  <2>2. new \in [1..Len(ids) -> AnyRecord]
    BY <2>1, <1>6, <1>7
  <2> QED
    BY <2>1, <2>2
<1> QED
  BY <1>2, <1>3, <1>4, <1>5, <1>6, <1>7, <1>8

\* Rows of a table, each once.
TellsTable(kind, S, records) ==
  /\ records \in Seq(AnyRecord)
  /\ \A i \in DOMAIN records :
       records[i].kind = kind /\ records[i].id \in Memories /\ Cell(kind, records[i].id) # None
  /\ \A i, j \in DOMAIN records : records[i].id = records[j].id => i = j
  /\ \A id \in S : \E i \in DOMAIN records : records[i].id = id

\* What the file may lack once the conclusions S were told.
MissingThen(kind, S) == IF kind = "conclusion" THEN gone \cup (Copies!Known(kind) \ S) ELSE left

Joined(old, l, more, k, new) ==
  /\ DOMAIN new = 1 .. l + k /\ DOMAIN old = 1 .. l /\ DOMAIN more = 1 .. k /\ l \in Nat /\ k \in Nat
  /\ \A i \in 1 .. l : new[i] = old[i]
  /\ \A i \in 1 .. k : new[i + l] = more[i]
  /\ \A i \in 1 .. l + k : i > l => i - l \in 1 .. k /\ new[i] = more[i - l]

\* One table more is told: its rows, after those of the tables before it.
LEMMA ReadTells ==
  ASSUME CopiesInv, export # Copies!Idle, NEW n, n = export.tables, NEW kind, kind = Copies!Kinds[n + 1],
         NEW old, old = export.records, NEW l, NEW k, NEW more, NEW new, new \in Seq(AnyRecord),
         NEW S, TellsTable(kind, S, more), Joined(old, l, more, k, new), NEW missing, missing = MissingThen(kind, S)
  PROVE  /\ ToldOnce(new)
         /\ \A i \in DOMAIN new : \E m \in 1..(n + 1) : new[i].kind = Copies!Kinds[m]
         /\ torn \/ (SubjectsFirst(new, missing) /\ SubjectsRead(n + 1, new, missing))
<1>2. /\ n \in 0..4 /\ ToldOnce(old)
      /\ \A i \in DOMAIN old : \E m \in 1..n : old[i].kind = Copies!Kinds[m]
  BY DEF CopiesInv, ExportFits
<1>3. DOMAIN new = 1 .. l + k /\ DOMAIN old = 1 .. l /\ DOMAIN more = 1 .. k
  BY DEF Joined
<1>4. l \in Nat /\ k \in Nat /\ n \in Nat
  BY <1>2 DEF Joined
<1>5. /\ \A i \in 1 .. l : new[i] = old[i]
      /\ \A i \in 1 .. l + k : i > l => i - l \in 1 .. k /\ new[i] = more[i - l]
  BY DEF Joined
<1>6. \A i \in 1 .. l : \E m \in 1..n : new[i].kind = Copies!Kinds[m]
  <2> SUFFICES ASSUME NEW i \in 1 .. l PROVE \E m \in 1..n : new[i].kind = Copies!Kinds[m]
    OBVIOUS
  <2>1. i \in DOMAIN old /\ new[i] = old[i]
    BY <1>3, <1>5
  <2> QED
    BY <1>2, <2>1
<1>7. \A i \in 1 .. l + k : i > l => new[i].kind = kind
  <2> SUFFICES ASSUME NEW i \in 1 .. l + k, i > l PROVE new[i].kind = kind
    OBVIOUS
  <2>1. i - l \in DOMAIN more /\ new[i] = more[i - l]
    BY <1>3, <1>5
  <2> QED
    BY <2>1 DEF TellsTable
<1>8. \A i \in 1 .. l : new[i].kind # kind
  <2> SUFFICES ASSUME NEW i \in 1 .. l, new[i].kind = kind PROVE FALSE
    OBVIOUS
  <2>1. PICK m \in 1..n : kind = Copies!Kinds[m]
    BY <1>6
  <2>2. m \in 1..5 /\ n + 1 \in 1..5 /\ m # n + 1
    BY <1>2
  <2> QED
    BY <2>1, <2>2, KindsDiffer
<1>9. ToldOnce(new)
  <2> SUFFICES ASSUME NEW i \in 1 .. l + k, NEW j \in 1 .. l + k, new[i].kind = new[j].kind, new[i].id = new[j].id
               PROVE  i = j
    BY <1>3 DEF ToldOnce
  <2>1. CASE i <= l
    <3>1. j <= l
      BY <1>4, <1>7, <1>8, <2>1
    <3> QED
      <4>1. i \in DOMAIN old /\ j \in DOMAIN old /\ new[i] = old[i] /\ new[j] = old[j]
        BY <1>3, <1>4, <1>5, <2>1, <3>1
      <4> QED
        BY <1>2, <4>1 DEF ToldOnce
  <2>2. CASE i > l
    <3>1. j > l
      BY <1>4, <1>7, <1>8, <2>2
    <3>2. /\ i - l \in DOMAIN more /\ new[i] = more[i - l]
          /\ j - l \in DOMAIN more /\ new[j] = more[j - l]
      BY <1>3, <1>5, <2>2, <3>1
    <3>3. i - l = j - l
      BY <3>2 DEF TellsTable
    <3> QED
      BY <1>4, <3>3
  <2> QED
    BY <1>4, <2>1, <2>2
<1>10. \A i \in DOMAIN new : \E m \in 1..(n + 1) : new[i].kind = Copies!Kinds[m]
  <2> SUFFICES ASSUME NEW i \in 1 .. l + k PROVE \E m \in 1..(n + 1) : new[i].kind = Copies!Kinds[m]
    BY <1>3
  <2>1. CASE i <= l
    <3>1. PICK m \in 1..n : new[i].kind = Copies!Kinds[m]
      BY <1>4, <1>6, <2>1
    <3>2. m \in 1..(n + 1)
      BY <1>4
    <3> QED
      BY <3>1, <3>2
  <2>2. CASE i > l
    <3>1. n + 1 \in 1..(n + 1)
      BY <1>4
    <3> QED
      BY <1>7, <2>2, <3>1
  <2> QED
    BY <1>4, <2>1, <2>2
<1>11. n >= 3 => missing = left
  <2> SUFFICES ASSUME n >= 3, kind = "conclusion" PROVE FALSE
    BY DEF MissingThen
  <2>1. n + 1 \in 1..5 /\ 3 \in 1..5 /\ n + 1 # 3
    BY <1>2
  <2> QED
    BY <2>1, KindsAre, KindsDiffer
<1>12. ASSUME ~torn, n >= 3 PROVE SubjectsFirst(old, missing) /\ SubjectsRead(n, old, missing)
  BY <1>11, <1>12 DEF CopiesInv, ExportFits
<1>13. ASSUME ~torn PROVE SubjectsFirst(new, missing)
  <2> SUFFICES ASSUME NEW i \in 1 .. l + k, new[i].kind = "review_item", new[i].id \notin missing
               PROVE  \E j \in 1 .. l + k : j < i /\ new[j].kind = "conclusion" /\ new[j].id = new[i].id
    BY <1>3 DEF SubjectsFirst
  <2>0. n >= 3
    <3>1. PICK m \in 1..(n + 1) : Copies!Kinds[m] = Copies!Kinds[4]
      BY <1>3, <1>10, KindsAre
    <3>2. m \in 1..5 /\ 4 \in 1..5
      BY <1>2
    <3>3. m = 4
      BY <3>1, <3>2, KindsDiffer
    <3> QED
      BY <1>4, <3>3
  <2>1. CASE i <= l
    <3>1. i \in DOMAIN old /\ old[i].kind = "review_item" /\ new[i] = old[i]
      BY <1>3, <1>4, <1>5, <2>1
    <3>2. PICK j \in DOMAIN old : j < i /\ old[j].kind = "conclusion" /\ old[j].id = old[i].id
      BY <1>12, <1>13, <2>0, <3>1 DEF SubjectsFirst
    <3>3. new[j] = old[j] /\ j \in 1 .. l + k
      BY <1>3, <1>4, <1>5
    <3> QED
      BY <3>1, <3>2, <3>3
  <2>2. CASE i > l
    <3>1. i - l \in DOMAIN more /\ new[i] = more[i - l]
      BY <1>3, <1>5, <2>2
    <3>2. kind = "review_item" /\ new[i].id \in Memories /\ Cell("review_item", new[i].id) # None
      BY <3>1 DEF TellsTable
    <3>3. PICK j \in DOMAIN old : old[j].kind = "conclusion" /\ old[j].id = new[i].id
      BY <1>12, <1>13, <2>0, <3>2 DEF SubjectsRead
    <3>4. new[j] = old[j] /\ j \in 1 .. l + k /\ j < i
      BY <1>3, <1>4, <1>5, <2>2
    <3> QED
      BY <3>3, <3>4
  <2> QED
    BY <1>4, <2>1, <2>2
<1>14. ASSUME ~torn PROVE SubjectsRead(n + 1, new, missing)
  <2> SUFFICES ASSUME n + 1 >= 3, NEW id \in Memories, Cell("review_item", id) # None, id \notin missing
               PROVE  \E j \in DOMAIN new : new[j].kind = "conclusion" /\ new[j].id = id
    BY DEF SubjectsRead
  <2>1. CASE n >= 3
    <3>1. PICK j \in DOMAIN old : old[j].kind = "conclusion" /\ old[j].id = id
      BY <1>12, <1>14, <2>1 DEF SubjectsRead
    <3>2. new[j] = old[j] /\ j \in DOMAIN new
      BY <1>3, <1>4, <1>5
    <3> QED
      BY <3>1, <3>2
  <2>2. CASE n = 2
    <3>1. kind = "conclusion"
      BY <2>2, KindsAre
    <3>2. Cell("conclusion", id) # None \/ id \in gone
      BY <1>14 DEF CopiesInv, SubjectsThere
    <3>3. id \in S
      BY <3>1, <3>2 DEF MissingThen, Copies!Known, Cell
    <3>4. PICK i \in DOMAIN more : more[i].id = id /\ more[i].kind = kind
      BY <3>3 DEF TellsTable
    <3>5. i + l \in DOMAIN new /\ new[i + l] = more[i]
      BY <1>3, <1>4 DEF Joined
    <3> QED
      BY <3>1, <3>4, <3>5
  <2> QED
    BY <1>4, <2>1, <2>2
<1> QED
  BY <1>9, <1>10, <1>13, <1>14

LEMMA ReadTableKeeps ==
  ASSUME CopiesInv, Copies!ReadTable
  PROVE  CopiesInv'
<1>1. PICK n : n = export.tables + 1
  OBVIOUS
<1>2. /\ export \in [at : {"read"}, tables : 0..4, records : Seq(AnyRecord)] /\ n \in 1..5
      /\ export # Copies!Idle /\ import = Copies!Idle /\ copy = <<>>
  BY <1>1 DEF CopiesInv, ExportFits, Copies!ReadTable
<1>3. PICK kind \in AllKinds : kind = Copies!Kinds[n]
  BY <1>2, KindsDiffer
<1>4. PICK S, ids, new :
        /\ S \in SUBSET Copies!Known(kind) /\ ids \in Copies!InOrder(S)
        /\ new = export.records \o Copies!Exported(kind, ids)
        /\ left' = MissingThen(kind, S)
        /\ IF n < 5 THEN export' = [export EXCEPT !.tables = n, !.records = new] /\ copy' = copy
           ELSE export' = Copies!Idle /\ copy' = new
  <2>1. PICK S \in SUBSET Copies!Known(Copies!Kinds[export.tables + 1]) : \E ids \in Copies!InOrder(S) :
          /\ left' = IF Copies!Kinds[export.tables + 1] = "conclusion"
                     THEN gone \cup (Copies!Known(Copies!Kinds[export.tables + 1]) \ S) ELSE left
          /\ IF export.tables + 1 < Len(Copies!Kinds)
             THEN /\ export' = [export EXCEPT !.tables = export.tables + 1,
                                 !.records = export.records \o Copies!Exported(Copies!Kinds[export.tables + 1], ids)]
                  /\ copy' = copy
             ELSE /\ export' = Copies!Idle
                  /\ copy' = export.records \o Copies!Exported(Copies!Kinds[export.tables + 1], ids)
    BY Zenon DEF Copies!ReadTable
  <2>2. export.tables + 1 = n /\ Copies!Kinds[export.tables + 1] = kind /\ Len(Copies!Kinds) = 5
    BY <1>1, <1>3, KindsAre
  <2>3. PICK ids \in Copies!InOrder(S) :
          /\ left' = IF kind = "conclusion" THEN gone \cup (Copies!Known(kind) \ S) ELSE left
          /\ IF n < 5 THEN /\ export' = [export EXCEPT !.tables = n, !.records = export.records \o Copies!Exported(kind, ids)]
                           /\ copy' = copy
             ELSE export' = Copies!Idle /\ copy' = export.records \o Copies!Exported(kind, ids)
    BY <2>1, <2>2, Zenon
  <2>4. S \in SUBSET Copies!Known(kind) /\ left' = MissingThen(kind, S)
    BY <2>1, <2>2, <2>3, Zenon DEF MissingThen
  <2> QED
    BY <2>3, <2>4, Zenon
<1>5. /\ observations' = observations /\ rows' = rows
      /\ UNCHANGED <<import, torn, lateRows, lostRow, gone>>
  BY DEF Copies!ReadTable, Copies!logVars
<1>6. TablesFit' /\ \A k, id : Cell(k, id)' = Cell(k, id)
  BY <1>5, TablesLeft DEF CopiesInv
<1>7. /\ ToldOnce(new)
      /\ \A i \in DOMAIN new : \E m \in 1..n : new[i].kind = Copies!Kinds[m]
      /\ torn \/ (SubjectsFirst(new, left') /\ SubjectsRead(n, new, left'))
  <2>1. PICK more : more = Copies!Exported(kind, ids)
    OBVIOUS
  <2>2. TellsTable(kind, S, more)
    BY <1>4, <2>1, ExportedTells DEF CopiesInv, TellsTable
  <2>3. PICK old : old = export.records
    OBVIOUS
  <2>4. old \in Seq(AnyRecord) /\ more \in Seq(AnyRecord) /\ new = old \o more
    BY <1>2, <1>4, <2>1, <2>2, <2>3 DEF TellsTable
  <2>5. Joined(old, Len(old), more, Len(more), new)
    BY <2>4, ConcatFacts DEF Joined
  <2>6. new \in Seq(AnyRecord)
    BY <2>4
  <2>7. PICK t, missing : t = export.tables /\ missing = left'
    OBVIOUS
  <2>8. kind = Copies!Kinds[t + 1] /\ n = t + 1 /\ missing = MissingThen(kind, S)
    BY <1>1, <1>3, <1>4, <2>7
  <2>9. /\ ToldOnce(new)
        /\ \A i \in DOMAIN new : \E m \in 1..(t + 1) : new[i].kind = Copies!Kinds[m]
        /\ torn \/ (SubjectsFirst(new, missing) /\ SubjectsRead(t + 1, new, missing))
    BY <1>2, <2>2, <2>3, <2>5, <2>6, <2>7, <2>8, ReadTells
  <2>10. SubjectsFirst(new, missing) <=> SubjectsFirst(new, left')
    BY <2>7 DEF SubjectsFirst
  <2>11. SubjectsRead(t + 1, new, missing) <=> SubjectsRead(n, new, left')
    BY <2>7, <2>8 DEF SubjectsRead
  <2> QED
    BY <2>8, <2>9, <2>10, <2>11
<1>8. new \in Seq(AnyRecord)
  BY <1>7 DEF ToldOnce
<1>9. ImportFits' /\ ~lostRow'
  BY <1>2, <1>5 DEF CopiesInv, ImportFits
<1>10. CASE n < 5
  <2>1. PICK e : e = [export EXCEPT !.tables = n, !.records = new]
    OBVIOUS
  <2>2. e.tables = n
    BY <1>2, <2>1
  <2>3. e.records = new
    BY <1>2, <2>1
  <2>4. e \in [at : {"read"}, tables : 0..4, records : Seq(AnyRecord)]
    <3>1. n \in 0..4
      BY <1>2, <1>10
    <3> QED
      BY <1>2, <1>8, <2>1, <3>1
  <2>5. export' = e /\ copy' = copy
    BY <1>4, <1>10, <2>1
  <2>6. /\ ToldOnce(export.records)'
        /\ SubjectsFirst(new, left') => SubjectsFirst(export.records, left)'
        /\ SubjectsRead(n, new, left') => SubjectsRead(export.tables, export.records, left)'
    BY <1>6, <1>7, <2>2, <2>3, <2>5 DEF ToldOnce, SubjectsFirst, SubjectsRead
  <2>7. ExportFits'
    BY <1>2, <1>5, <1>7, <2>2, <2>3, <2>4, <2>5, <2>6 DEF ExportFits
  <2>8. ToldOnce(copy)' /\ SubjectsThere'
    BY <1>2, <1>5, <1>6, <2>5 DEF CopiesInv, ToldOnce, SubjectsThere, SubjectsFirst
  <2> QED
    BY <1>6, <1>9, <2>7, <2>8 DEF CopiesInv
<1>11. CASE n = 5
  <2>1. export' = Copies!Idle /\ copy' = new
    BY <1>2, <1>4, <1>11
  <2>2. ToldOnce(copy)' /\ (SubjectsFirst(new, left') => SubjectsFirst(copy, left)')
    BY <1>7, <2>1 DEF ToldOnce, SubjectsFirst
  <2>3. ExportFits'
    BY <2>1 DEF ExportFits
  <2>4. SubjectsThere'
    BY <1>5, <1>6, <1>7, <2>2 DEF CopiesInv, SubjectsThere
  <2> QED
    BY <1>6, <1>9, <2>2, <2>3, <2>4 DEF CopiesInv
<1> QED
  BY <1>2, <1>10, <1>11

LEMMA BeginImportKeeps ==
  ASSUME CopiesInv, Copies!BeginImport
  PROVE  CopiesInv'
<1>1. PICK new : new = [at |-> "preview", next |-> 1, known |-> Copies!Known("memory_slot")]
  OBVIOUS
<1>2. /\ new \in [at : {"preview", "apply"}, next : Nat \ {0}, known : SUBSET Memories]
      /\ new.at = "preview" /\ new.next = 1
      /\ \A id \in new.known : Cell("memory_slot", id) # None
  BY <1>1 DEF Copies!Known, Cell
<1>3. /\ import' = new /\ copy # <<>> /\ observations' = observations /\ rows' = rows
      /\ UNCHANGED <<export, copy, torn, lostRow, left>> /\ lateRows' = {} /\ gone' = gone \cup left
  BY <1>1 DEF Copies!BeginImport, Copies!logVars
<1>4. 1 \in DOMAIN copy /\ \A i \in DOMAIN copy : ~(i < 1)
  <2>1. copy \in Seq(AnyRecord) /\ DOMAIN copy = 1..Len(copy)
    BY DEF CopiesInv, ToldOnce
  <2>2. Len(copy) \in Nat /\ Len(copy) # 0
    BY <1>3, <2>1, EmptySeq
  <2> QED
    BY <2>1, <2>2
<1>5. TablesFit' /\ \A kind, id : Cell(kind, id)' = Cell(kind, id)
  BY <1>3, TablesLeft DEF CopiesInv
<1>6. ToldOnce(copy)' /\ ExportFits' /\ SubjectsThere' /\ ~lostRow'
  <2>1. export = Copies!Idle
    BY <1>3 DEF CopiesInv, ExportFits
  <2> QED
    BY <1>3, <1>5, <2>1 DEF CopiesInv, ToldOnce, ExportFits, SubjectsThere, SubjectsFirst
<1>7. ImportFits'
  BY <1>2, <1>3, <1>4, <1>5 DEF ImportFits
<1> QED
  BY <1>5, <1>6, <1>7 DEF CopiesInv

LEMMA ImportEnds ==
  ASSUME CopiesInv, import' = Copies!Idle, observations' = observations, rows' = rows,
         UNCHANGED <<export, copy, torn, lateRows, lostRow, gone, left>>
  PROVE  CopiesInv'
<1>1. TablesFit' /\ \A kind, id : Cell(kind, id)' = Cell(kind, id)
  BY TablesLeft DEF CopiesInv
<1>2. ToldOnce(copy)' /\ SubjectsThere' /\ ~lostRow' /\ ImportFits'
  BY <1>1 DEF CopiesInv, ToldOnce, SubjectsThere, SubjectsFirst, ImportFits
<1>3. ExportFits'
  <2>1. ToldOnce(export.records) => ToldOnce(export.records)'
    BY DEF ToldOnce
  <2>2. /\ SubjectsFirst(export.records, left) => SubjectsFirst(export.records, left)'
        /\ SubjectsRead(export.tables, export.records, left) => SubjectsRead(export.tables, export.records, left)'
    BY <1>1 DEF SubjectsFirst, SubjectsRead
  <2> QED
    BY <1>1, <2>1, <2>2 DEF CopiesInv, ExportFits
<1> QED
  BY <1>1, <1>2, <1>3 DEF CopiesInv

\* An import runs on a file, and while none is exported.
LEMMA ImportsAlone ==
  ASSUME CopiesInv, import # Copies!Idle
  PROVE  /\ export = Copies!Idle
         /\ import \in [at : {"preview", "apply"}, next : Nat \ {0}, known : SUBSET Memories]
BY DEF CopiesInv, ExportFits, ImportFits

LEMMA PreviewKeeps ==
  ASSUME CopiesInv, Copies!Preview
  PROVE  CopiesInv'
<1>1. import.at = "preview" /\ import # Copies!Idle
  BY DEF Copies!Preview, Copies!Idle
<1>2. /\ observations' = observations /\ rows' = rows
      /\ UNCHANGED <<export, copy, torn, lateRows, lostRow, gone, left>>
  BY DEF Copies!Preview, Copies!tables, Copies!history
<1>3. CASE import' = Copies!Idle
  BY <1>2, <1>3, ImportEnds
<1>4. CASE import' # Copies!Idle
  <2>1. /\ Cell(copy[import.next].kind, copy[import.next].id) = None
        /\ import' = IF import.next < Len(copy) THEN [import EXCEPT !.next = @ + 1]
                     ELSE [import EXCEPT !.at = "apply", !.next = 1]
    BY <1>4 DEF Copies!Preview, Copies!portableRecordExists, Cell
  <2>2. /\ import \in [at : {"preview", "apply"}, next : Nat \ {0}, known : SUBSET Memories]
        /\ export = Copies!Idle /\ import.next \in DOMAIN copy
        /\ \A id \in import.known : Cell("memory_slot", id) # None
        /\ left \subseteq gone /\ \A id : <<"conclusion", id>> \in lateRows => id \in gone
    BY <1>1, ImportsAlone DEF CopiesInv, ImportFits
  <2>3. DOMAIN copy = 1..Len(copy) /\ Len(copy) \in Nat
    BY DEF CopiesInv, ToldOnce
  <2>4. \A i \in DOMAIN copy : i <= import.next /\ copy[i].kind = "memory_slot" => copy[i].id \notin import.known
    <3>1. copy[import.next].kind = "memory_slot" => copy[import.next].id \notin import.known
      BY <2>1, <2>2
    <3>2. \A i \in DOMAIN copy : i < import.next /\ copy[i].kind = "memory_slot" => copy[i].id \notin import.known
      BY <1>1 DEF CopiesInv, ImportFits
    <3> QED
      BY <3>1, <3>2, <2>2, <2>3
  <2>5. TablesFit' /\ \A kind, id : Cell(kind, id)' = Cell(kind, id)
    BY <1>2, TablesLeft DEF CopiesInv
  <2>6. PICK k : k = import'
    OBVIOUS
  <2>7. ImportFits'
    <3>1. CASE import.next < Len(copy)
      <4>1. k = [import EXCEPT !.next = @ + 1]
        BY <2>1, <2>6, <3>1
      <4>2. k.next = import.next + 1
        BY <2>2, <4>1
      <4>3. k.at = "preview"
        BY <1>1, <2>2, <4>1
      <4>4. k.known = import.known
        BY <2>2, <4>1
      <4>5. k \in [at : {"preview", "apply"}, next : Nat \ {0}, known : SUBSET Memories]
        <5>1. import.next + 1 \in Nat \ {0}
          BY <2>2
        <5> QED
          BY <2>2, <4>1, <5>1
      <4>6. k.next \in DOMAIN copy /\ \A i \in DOMAIN copy : i < k.next => i <= import.next
        BY <2>2, <2>3, <3>1, <4>2
      <4> QED
        BY <1>2, <2>2, <2>4, <2>5, <2>6, <4>3, <4>4, <4>5, <4>6 DEF ImportFits
    <3>2. CASE ~(import.next < Len(copy))
      <4>1. k = [import EXCEPT !.at = "apply", !.next = 1]
        BY <2>1, <2>6, <3>2
      <4>2. k.next = 1
        BY <2>2, <4>1
      <4>3. k.at = "apply"
        BY <2>2, <4>1
      <4>4. k.known = import.known
        BY <2>2, <4>1
      <4>5. k \in [at : {"preview", "apply"}, next : Nat \ {0}, known : SUBSET Memories]
        <5>1. 1 \in Nat \ {0} /\ "apply" \in {"preview", "apply"}
          OBVIOUS
        <5> QED
          BY <2>2, <4>1, <5>1
      <4>6. \A i \in DOMAIN copy : i <= import.next /\ ~(i < k.next)
        BY <2>2, <2>3, <3>2, <4>2
      <4> QED
        BY <1>2, <2>2, <2>4, <2>5, <2>6, <4>3, <4>4, <4>5, <4>6 DEF ImportFits
    <3> QED
      BY <3>1, <3>2
  <2>8. ToldOnce(copy)' /\ ExportFits' /\ SubjectsThere' /\ ~lostRow'
    BY <1>2, <2>2, <2>5 DEF CopiesInv, ToldOnce, ExportFits, SubjectsThere, SubjectsFirst
  <2> QED
    BY <2>5, <2>7, <2>8 DEF CopiesInv
<1> QED
  BY <1>3, <1>4

LEMMA ImportRecordKeeps ==
  ASSUME CopiesInv, Copies!ImportRecord
  PROVE  CopiesInv'
<1>1. PICK r : r = copy[import.next]
  OBVIOUS
<1>2. /\ import.at = "apply" /\ import # Copies!Idle /\ UNCHANGED <<export, copy, torn, lateRows, gone, left>>
  BY DEF Copies!ImportRecord, Copies!Idle
<1>3. CASE Copies!Refused(r)
  BY <1>1, <1>2, <1>3, ImportEnds DEF Copies!ImportRecord
<1>4. CASE ~Copies!Refused(r)
  <2>1. /\ export = Copies!Idle
        /\ import \in [at : {"preview", "apply"}, next : Nat \ {0}, known : SUBSET Memories]
    BY <1>2, ImportsAlone
  <2>2. DOMAIN copy = 1..Len(copy) /\ Len(copy) \in Nat /\ import.next \in DOMAIN copy
    <3>1. import.next <= Len(copy)
      BY DEF Copies!ImportRecord
    <3> QED
      BY <2>1, <3>1 DEF CopiesInv, ToldOnce
  <2>3. r \in AnyRecord /\ r.kind \in AllKinds /\ r.id \in Memories /\ r.value \in AnyValue
    BY <1>1, <2>2, FileCells DEF CopiesInv
  <2>4. r.kind = "memory_slot" => r.id \notin import.known
    BY <1>1, <1>2, <2>2 DEF CopiesInv, ImportFits
  <2>5. ~lostRow' /\ TablesFit' /\ SetsCell(r.kind, r.id, r.value)
    <3>1. CASE r.kind = "observation"
      BY <1>1, <1>4, <2>3, <3>1, ObservationSets DEF Copies!ImportRecord, CopiesInv
    <3>2. CASE r.kind # "observation"
      <4>1. Copies!Put(r.kind, r.id, r.value) /\ observations' = observations
        BY <1>1, <1>4, <3>2 DEF Copies!ImportRecord
      <4>2. lostRow' = (lostRow \/ (r.kind = "memory_slot" /\ r.id \in import.known))
        BY <1>1, <1>4, <3>2 DEF Copies!ImportRecord
      <4> QED
        BY <2>3, <2>4, <3>2, <4>1, <4>2, PutSets DEF CopiesInv
    <3> QED
      BY <3>1, <3>2
  <2>6. PICK k : k = [import EXCEPT !.next = @ + 1]
    OBVIOUS
  <2>7. import' = k
    BY <1>1, <1>4, <2>6 DEF Copies!ImportRecord
  <2>8. k.next = import.next + 1
    BY <2>1, <2>6
  <2>9. k.at = "apply"
    BY <1>2, <2>1, <2>6
  <2>10. k.known = import.known
    BY <2>1, <2>6
  <2>11. k \in [at : {"preview", "apply"}, next : Nat \ {0}, known : SUBSET Memories]
    <3>1. import.next + 1 \in Nat \ {0}
      BY <2>1
    <3> QED
      BY <2>1, <2>6, <3>1
  <2>12. ASSUME NEW kind \in AllKinds, NEW id \in Memories
         PROVE  Cell(kind, id)' = IF kind = r.kind /\ id = r.id THEN r.value ELSE Cell(kind, id)
    BY <2>5 DEF SetsCell
  <2>13. r.value # None
    BY <2>3, ValuesAreThere
  <2>14. \A id \in import.known : Cell("memory_slot", id)' # None
    <3> SUFFICES ASSUME NEW id \in import.known PROVE Cell("memory_slot", id)' # None
      OBVIOUS
    <3>1. id \in Memories /\ Cell("memory_slot", id) # None
      BY <1>2, <2>1 DEF CopiesInv, ImportFits
    <3> QED
      BY <2>12, <2>13, <3>1 DEF AllKinds
  <2>15. ASSUME NEW i \in DOMAIN copy, i < import.next + 1
         PROVE  \/ Cell(copy[i].kind, copy[i].id)' = copy[i].value
                \/ <<copy[i].kind, copy[i].id>> \in lateRows
    <3>1. copy[i].kind \in AllKinds /\ copy[i].id \in Memories
      BY FileCells DEF CopiesInv
    <3>2. copy' = copy
      BY <1>2
    <3>3. PICK kind \in AllKinds, id \in Memories : kind = copy[i].kind /\ id = copy[i].id
      BY <3>1
    <3>4. Cell(copy[i].kind, copy[i].id)' = Cell(kind, id)'
      BY <3>2, <3>3
    <3>5. CASE i = import.next
      BY <1>1, <2>12, <3>3, <3>4, <3>5
    <3>6. CASE i # import.next
      <4>1. i < import.next
        BY <2>1, <2>2, <2>15, <3>6
      <4>2. \/ Cell(kind, id) = copy[i].value
            \/ <<copy[i].kind, copy[i].id>> \in lateRows
        BY <1>2, <3>3, <4>1 DEF CopiesInv, ImportFits
      <4>3. ~(kind = r.kind /\ id = r.id)
        BY <1>1, <2>2, <3>3, <3>6 DEF CopiesInv, ToldOnce
      <4> QED
        BY <2>12, <3>4, <4>2, <4>3
    <3> QED
      BY <3>5, <3>6
  <2>16. ImportFits'
    <3>1. (\A id \in import.known : Cell("memory_slot", id) # None)'
      BY <2>7, <2>10, <2>14
    <3>2. \A i \in DOMAIN copy : copy[i].kind = "memory_slot" => copy[i].id \notin import.known
      BY <1>2 DEF CopiesInv, ImportFits
    <3>3. (\A i \in DOMAIN copy : i < import.next =>
             \/ Cell(copy[i].kind, copy[i].id) = copy[i].value
             \/ <<copy[i].kind, copy[i].id>> \in lateRows)'
      BY <1>2, <2>7, <2>8, <2>15
    <3>4. left' \subseteq gone' /\ \A id : <<"conclusion", id>> \in lateRows' => id \in gone'
      BY <1>2 DEF CopiesInv, ImportFits
    <3> QED
      BY <1>2, <2>7, <2>9, <2>10, <2>11, <3>1, <3>2, <3>3, <3>4 DEF ImportFits
  <2>17. SubjectsThere'
    <3> SUFFICES ASSUME ~torn
                 PROVE  /\ SubjectsFirst(copy, left)'
                        /\ \A id \in Memories : Cell("review_item", id)' # None =>
                             Cell("conclusion", id)' # None \/ id \in gone'
      BY <1>2 DEF SubjectsThere
    <3>1. SubjectsFirst(copy, left)
      BY DEF CopiesInv, SubjectsThere
    <3>2. SubjectsFirst(copy, left)'
      BY <1>2, <3>1 DEF SubjectsFirst
    <3>3. ASSUME NEW id \in Memories, Cell("review_item", id)' # None PROVE Cell("conclusion", id) # None \/ id \in gone
      <4>1. CASE Cell("review_item", id) # None
        BY <4>1 DEF CopiesInv, SubjectsThere
      <4>2. CASE Cell("review_item", id) = None /\ id \notin left
        <5>1. r.kind = "review_item" /\ r.id = id
          BY <2>12, <3>3, <4>2 DEF AllKinds
        <5>2. PICK j \in DOMAIN copy : j < import.next /\ copy[j].kind = "conclusion" /\ copy[j].id = id
          BY <1>1, <2>2, <3>1, <4>2, <5>1 DEF SubjectsFirst
        <5>3. Cell("conclusion", id) = copy[j].value \/ <<"conclusion", id>> \in lateRows
          BY <1>2, <5>2 DEF CopiesInv, ImportFits
        <5>4. copy[j].value # None
          BY <5>2, FileCells, ValuesAreThere DEF CopiesInv
        <5> QED
          BY <1>2, <5>3, <5>4 DEF CopiesInv, ImportFits
      <4>3. CASE id \in left
        BY <1>2, <4>3 DEF CopiesInv, ImportFits
      <4> QED
        BY <4>1, <4>2, <4>3
    <3>4. ASSUME NEW id \in Memories, Cell("conclusion", id) # None PROVE Cell("conclusion", id)' # None
      BY <2>12, <2>13, <3>4 DEF AllKinds
    <3> QED
      BY <1>2, <3>2, <3>3, <3>4
  <2>18. ToldOnce(copy)' /\ ExportFits'
    BY <1>2, <2>1 DEF CopiesInv, ToldOnce, ExportFits
  <2> QED
    BY <2>5, <2>16, <2>17, <2>18 DEF CopiesInv
<1> QED
  BY <1>3, <1>4

PortableRest ==
  <<observations, audits, answers, rows, export, copy, import, torn, lateRows, lostRow, used, gone, left>>

LEMMA CopiesInvInductive ==
  ASSUME CopiesInv, UsedFits, Copies!Next \/ UNCHANGED PortableRest
  PROVE  CopiesInv' /\ UsedFits'
<1>1. CASE UNCHANGED PortableRest
  <2>1. /\ observations' = observations /\ rows' = rows /\ import' = import
        /\ UNCHANGED <<export, copy, torn, lateRows, lostRow, gone, left>>
    BY <1>1 DEF PortableRest
  <2>2. TablesFit' /\ \A kind, id : Cell(kind, id)' = Cell(kind, id)
    BY <2>1, TablesLeft DEF CopiesInv
  <2>3. ToldOnce(copy)' /\ SubjectsThere' /\ ~lostRow' /\ ImportFits'
    BY <2>1, <2>2 DEF CopiesInv, ToldOnce, SubjectsThere, SubjectsFirst, ImportFits
  <2>4. /\ ToldOnce(export.records) => ToldOnce(export.records)'
        /\ SubjectsFirst(export.records, left) => SubjectsFirst(export.records, left)'
        /\ SubjectsRead(export.tables, export.records, left) => SubjectsRead(export.tables, export.records, left)'
    BY <2>1, <2>2 DEF ToldOnce, SubjectsFirst, SubjectsRead
  <2>5. ExportFits'
    BY <2>1, <2>2, <2>4 DEF CopiesInv, ExportFits
  <2>6. UsedFits'
    BY <1>1 DEF PortableRest, UsedFits
  <2> QED
    BY <2>2, <2>3, <2>5, <2>6 DEF CopiesInv
<1>2. ASSUME Copies!HostObserves \/ Copies!HostAdds \/ Copies!HostReviews \/ Copies!HostSetsSlot \/ Copies!HostDeletes
      PROVE  CopiesInv'
  <2>1. TablesFit
    BY DEF CopiesInv
  <2>2. HostStep
    BY <1>2, <2>1, HostsStep, DeletesStep
  <2> QED
    BY <2>2, HostsKeepCopies
<1>3. ASSUME Copies!ImportDone \/ Copies!ImportFails PROVE CopiesInv'
  <2>1. /\ import' = Copies!Idle /\ observations' = observations /\ rows' = rows
        /\ UNCHANGED <<export, copy, torn, lateRows, lostRow, gone, left>>
    BY <1>3 DEF Copies!ImportDone, Copies!ImportFails, Copies!tables, Copies!history
  <2> QED
    BY <2>1, ImportEnds
<1>4. Copies!Next => UsedFits'
  BY UsedKeeps
<1> QED
  BY <1>1, <1>2, <1>3, <1>4, NewDatabaseKeeps, BeginExportKeeps, ReadTableKeeps, BeginImportKeeps, PreviewKeeps,
     ImportRecordKeeps DEF Copies!Next

LEMMA CopiesInvInit == Copies!Init => CopiesInv /\ UsedFits
<1> SUFFICES ASSUME Copies!Init PROVE CopiesInv /\ UsedFits
  OBVIOUS
<1>1. /\ observations = [id \in Memories |-> None]
      /\ rows = [kind \in AllKinds \ {"observation"} |-> [id \in Memories |-> None]]
      /\ export = Copies!Idle /\ copy = <<>> /\ import = Copies!Idle /\ ~lostRow
  BY OthersAre DEF Copies!Init, Copies!LogInit, Copies!NoRows
<1>2. TablesFit
  BY <1>1 DEF TablesFit
<1>3. \A id \in Memories : Cell("review_item", id) = None
  BY <1>1 DEF Cell, Copies!Table, AllKinds
<1>4. UsedFits
  BY <1>1 DEF Copies!Init, Copies!Numbered, UsedFits, AllKinds
<1> QED
  BY <1>1, <1>2, <1>3, <1>4 DEF CopiesInv, ToldOnce, ExportFits, ImportFits, SubjectsThere, SubjectsFirst

LEMMA CopiesPromise == CopiesInv => Copies!ImportIsWholeAndKeeps /\ Copies!ReviewsHaveSubjects
<1> SUFFICES ASSUME CopiesInv PROVE Copies!ImportIsWholeAndKeeps /\ Copies!ReviewsHaveSubjects
  OBVIOUS
<1>1. ASSUME import.at = "apply", import.next > Len(copy), NEW i \in DOMAIN copy
      PROVE  \/ Copies!Table(copy[i].kind)[copy[i].id] = copy[i].value
             \/ <<copy[i].kind, copy[i].id>> \in lateRows
  <2>1. import # Copies!Idle
    BY <1>1 DEF Copies!Idle
  <2>2. i < import.next
    BY <1>1, <2>1 DEF CopiesInv, ImportFits, ToldOnce
  <2> QED
    BY <1>1, <2>1, <2>2 DEF CopiesInv, ImportFits, Cell
<1>2. Copies!ImportIsWholeAndKeeps
  BY <1>1 DEF CopiesInv, Copies!ImportIsWholeAndKeeps
<1>3. Copies!ReviewsHaveSubjects
  BY DEF CopiesInv, SubjectsThere, SubjectsFirst, Copies!ReviewsHaveSubjects
<1> QED
  BY <1>2, <1>3

-----------------------------------------------------------------------------
\* Snapshots

Vals == Queueable \cup {None, "gone"}
CapKinds == {"profile", "conclusion", "slot", "action"}
ToldKinds == CapKinds \cup {"dependency"}
Mems == [ToldKinds -> [Memories -> Vals]]
AnyEntry == [key : CapKinds \X Memories, checksum : Vals \cup (Vals \X Vals)]
Tellings == ToldKinds \X Memories \X Vals
Takings ==
  [at : {"read"}, kind : 1..5, nodes : SUBSET AnyEntry, entries : SUBSET AnyEntry,
   seen : SUBSET Tellings, always : SUBSET Tellings]
Manifests == [git : {Copies!snapshotGitMetadata(git) : git \in Checkouts}, entries : SUBSET AnyEntry]

OneEach(those) == \A e, o \in those : e.key = o.key => e = o

\* Entries are of the tables that were read, and nodes wait after the last.
EntriesPlaced(t) ==
  /\ OneEach(t.entries) /\ OneEach(t.nodes)
  /\ \A e \in t.entries : \E n \in 1..(t.kind - 1) : e.key[1] = Copies!Captured[n]
  /\ \A e \in t.entries, o \in t.nodes : o.key # e.key
  /\ \A o \in t.nodes : t.kind = 5 /\ o.key[1] = "action"

\* What a node says was there, and what was there all the while it says.
NodesTell(t) ==
  /\ \A o \in t.nodes : <<"action", o.key[2], o.checksum>> \in t.seen
  /\ \A o \in t.nodes, now \in t.always :
       now[1] = "action" /\ now[2] = o.key[2] => now[3] = o.checksum

EntriesTell(t) ==
  \A e \in t.entries :
    /\ Copies!ToldBy(e) \subseteq t.seen
    /\ e.key[1] = "action" =>
         \E value \in {e.checksum[2]} \cup (IF e.checksum[2] = "gone" THEN {None} ELSE {}) :
           <<"dependency", e.key[2], value>> \in t.seen

AlwaysTold(t) ==
  \A now \in t.always : \A n \in 1..(t.kind - 1) :
    Copies!Captured[n] = now[1] /\ Copies!Present(now[3]) =>
      \/ \E e \in t.entries : now \in Copies!ToldBy(e)
      \/ \E e \in t.nodes : e.key = <<now[1], now[2]>>

TakingFits(t, mem) ==
  /\ t \in Takings
  /\ Copies!Told(mem) \subseteq t.seen /\ t.always \subseteq Copies!Told(mem)
  /\ EntriesPlaced(t) /\ NodesTell(t) /\ EntriesTell(t) /\ AlwaysTold(t)

SnapshotInv ==
  /\ snapMemory \in Mems
  /\ taking # Copies!Idle => TakingFits(taking, snapMemory)
  /\ manifests \in Seq(Manifests)
  /\ \A i \in DOMAIN manifests : OneEach(manifests[i].entries)

LEMMA CapturedAre ==
  /\ Len(Copies!Captured) = 4 /\ Copies!Captured[1] = "profile" /\ Copies!Captured[2] = "conclusion"
  /\ Copies!Captured[3] = "slot" /\ Copies!Captured[4] = "action"
BY DEF Copies!Captured

LEMMA CapturedDiffer ==
  /\ \A n \in 1..4 : Copies!Captured[n] \in CapKinds
  /\ \A m, n \in 1..4 : Copies!Captured[m] = Copies!Captured[n] => m = n
<1>1. \A i \in 1..4 : i = 1 \/ i = 2 \/ i = 3 \/ i = 4
  OBVIOUS
<1> QED
  BY <1>1, CapturedAre DEF CapKinds

LEMMA ToldKindsAre == Copies!ToSet(Copies!Captured) \cup {"dependency"} = ToldKinds
<1>1. DOMAIN Copies!Captured = 1..4
  BY DEF Copies!Captured
<1>2. Copies!ToSet(Copies!Captured) = {Copies!Captured[i] : i \in 1..4}
  BY <1>1 DEF Copies!ToSet
<1>3. {Copies!Captured[i] : i \in 1..4} \subseteq CapKinds
  BY CapturedDiffer
<1>4. CapKinds \subseteq {Copies!Captured[i] : i \in 1..4}
  BY CapturedAre DEF CapKinds
<1> QED
  BY <1>2, <1>3, <1>4 DEF ToldKinds

LEMMA TellingIs ==
  ASSUME NEW mem \in Mems
  PROVE  /\ \A kind \in ToldKinds, id \in Memories : <<kind, id, mem[kind][id]>> \in Copies!Told(mem)
         /\ \A now \in Copies!Told(mem) : \E kind \in ToldKinds, id \in Memories : now = <<kind, id, mem[kind][id]>>
         /\ Copies!Told(mem) \subseteq Tellings
<1>1. DOMAIN mem = ToldKinds /\ \A kind \in ToldKinds, id \in Memories : mem[kind][id] \in Vals
  BY DEF Mems
<1>2. Copies!Told(mem) = {<<kind, id, mem[kind][id]>> : kind \in ToldKinds, id \in Memories}
  BY <1>1 DEF Copies!Told
<1> QED
  BY <1>1, <1>2 DEF Tellings

\* An entry is its key and its checksum, and a key its kind and its ID.
LEMMA EntryIs ==
  ASSUME NEW e \in AnyEntry
  PROVE  /\ e = [key |-> e.key, checksum |-> e.checksum]
         /\ e.key = <<e.key[1], e.key[2]>> /\ e.key[1] \in CapKinds /\ e.key[2] \in Memories
BY DEF AnyEntry

LEMMA ReadEntry ==
  ASSUME snapMemory \in Mems, NEW kind \in CapKinds
  PROVE  /\ Copies!Entries(kind) \subseteq AnyEntry
         /\ \A e \in Copies!Entries(kind) :
              e.key[1] = kind /\ e.key[2] \in Memories /\ e.checksum = snapMemory[kind][e.key[2]]
         /\ \A id \in Memories : Copies!Present(snapMemory[kind][id]) =>
              \E e \in Copies!Entries(kind) : e.key = <<kind, id>> /\ e.checksum = snapMemory[kind][id]
<1>1. \A id \in Memories : snapMemory[kind][id] \in Vals
  BY DEF Mems, ToldKinds
<1>2. ASSUME NEW e \in Copies!Entries(kind)
      PROVE  \E id \in Memories : e = [key |-> <<kind, id>>, checksum |-> snapMemory[kind][id]]
  BY DEF Copies!Entries, Copies!snapshotEntry
<1>3. ASSUME NEW e \in Copies!Entries(kind)
      PROVE  e \in AnyEntry /\ e.key[1] = kind /\ e.key[2] \in Memories /\ e.checksum = snapMemory[kind][e.key[2]]
  BY <1>1, <1>2 DEF AnyEntry
<1>4. ASSUME NEW id \in Memories, Copies!Present(snapMemory[kind][id])
      PROVE  \E e \in Copies!Entries(kind) : e.key = <<kind, id>> /\ e.checksum = snapMemory[kind][id]
  <2>1. PICK e : e = [key |-> <<kind, id>>, checksum |-> snapMemory[kind][id]]
    OBVIOUS
  <2>2. e \in Copies!Entries(kind)
    BY <1>4, <2>1 DEF Copies!Entries, Copies!snapshotEntry
  <2> QED
    BY <2>1, <2>2
<1> QED
  BY <1>3, <1>4

\* An entry but of an action tells its checksum, one of an action the first of its two.
LEMMA ToldByIs ==
  ASSUME NEW e \in AnyEntry
  PROVE  /\ e.key[1] # "action" => Copies!ToldBy(e) = {<<e.key[1], e.key[2], e.checksum>>}
         /\ e.key[1] = "action" => Copies!ToldBy(e) = {<<"action", e.key[2], e.checksum[1]>>}
BY DEF Copies!ToldBy

LEMMA OneOfEach ==
  ASSUME NEW S \in SUBSET AnyEntry, NEW kind, NEW f,
         \A e \in S : e.key[1] = kind /\ e.checksum = f[e.key[2]]
  PROVE  OneEach(S)
<1> SUFFICES ASSUME NEW e \in S, NEW o \in S, e.key = o.key PROVE e = o
  BY DEF OneEach
<1>1. e = [key |-> e.key, checksum |-> e.checksum] /\ o = [key |-> o.key, checksum |-> o.checksum]
  BY EntryIs
<1>2. e.checksum = o.checksum
  OBVIOUS
<1> QED
  BY <1>1, <1>2

LEMMA HostChangesKeeps ==
  ASSUME SnapshotInv, Copies!HostChanges
  PROVE  SnapshotInv'
<1>1. PICK kind \in ToldKinds, id \in Memories, value \in Queueable \cup {"gone"} :
        snapMemory' = [snapMemory EXCEPT ![kind] = [snapMemory[kind] EXCEPT ![id] = value]]
  BY DEF Copies!HostChanges, SnapshotInv, Mems, Copies!Gone
<1>2. PICK mem : mem = snapMemory'
  OBVIOUS
<1>3. mem \in Mems
  <2>1. [snapMemory[kind] EXCEPT ![id] = value] \in [Memories -> Vals]
    BY DEF SnapshotInv, Mems, Vals
  <2> QED
    BY <1>1, <1>2, <2>1 DEF SnapshotInv, Mems
<1>4. manifests' = manifests
  BY DEF Copies!HostChanges
<1>5. CASE taking = Copies!Idle
  BY <1>2, <1>3, <1>4, <1>5 DEF Copies!HostChanges, SnapshotInv
<1>6. CASE taking # Copies!Idle
  <2>1. TakingFits(taking, snapMemory) /\ taking \in Takings
    BY <1>6 DEF SnapshotInv, TakingFits
  <2>2. PICK t : t = [taking EXCEPT !.seen = @ \cup Copies!Told(mem), !.always = @ \cap Copies!Told(mem)]
    OBVIOUS
  <2>3. taking' = t
    BY <1>2, <1>6, <2>2 DEF Copies!HostChanges
  <2>4. t.kind = taking.kind
    BY <2>1, <2>2 DEF Takings
  <2>5. t.nodes = taking.nodes
    BY <2>1, <2>2 DEF Takings
  <2>6. t.entries = taking.entries
    BY <2>1, <2>2 DEF Takings
  <2>7. t.seen = taking.seen \cup Copies!Told(mem)
    BY <2>1, <2>2 DEF Takings
  <2>8. t.always = taking.always \cap Copies!Told(mem)
    BY <2>1, <2>2 DEF Takings
  <2>9. t \in Takings
    <3>1. Copies!Told(mem) \subseteq Tellings
      BY <1>3, TellingIs
    <3> QED
      BY <2>1, <2>2, <3>1 DEF Takings
  <2>10. EntriesPlaced(t)
    BY <2>1, <2>4, <2>5, <2>6 DEF TakingFits, EntriesPlaced
  <2>11. NodesTell(t)
    BY <2>1, <2>5, <2>7, <2>8 DEF TakingFits, NodesTell
  <2>12. EntriesTell(t)
    BY <2>1, <2>6, <2>7 DEF TakingFits, EntriesTell
  <2>13. AlwaysTold(t)
    BY <2>1, <2>4, <2>5, <2>6, <2>8 DEF TakingFits, AlwaysTold
  <2>14. TakingFits(t, mem)
    BY <2>7, <2>8, <2>9, <2>10, <2>11, <2>12, <2>13 DEF TakingFits
  <2> QED
    BY <1>2, <1>3, <1>4, <2>3, <2>14 DEF SnapshotInv
<1> QED
  BY <1>5, <1>6

LEMMA BeginSnapshotKeeps ==
  ASSUME SnapshotInv, Copies!BeginSnapshot
  PROVE  SnapshotInv'
<1>1. PICK t : t = [at |-> "read", kind |-> 1, nodes |-> {}, entries |-> {},
                    seen |-> Copies!Told(snapMemory), always |-> Copies!Told(snapMemory)]
  OBVIOUS
<1>2. taking' = t /\ snapMemory' = snapMemory /\ manifests' = manifests
  BY <1>1 DEF Copies!BeginSnapshot
<1>3. /\ t.kind = 1 /\ t.nodes = {} /\ t.entries = {}
      /\ t.seen = Copies!Told(snapMemory) /\ t.always = Copies!Told(snapMemory)
  BY <1>1
<1>4. t \in Takings
  <2>1. Copies!Told(snapMemory) \subseteq Tellings
    BY TellingIs DEF SnapshotInv
  <2> QED
    BY <1>1, <2>1 DEF Takings
<1>5. EntriesPlaced(t) /\ NodesTell(t) /\ EntriesTell(t)
  BY <1>3 DEF EntriesPlaced, NodesTell, EntriesTell, OneEach
<1>6. AlwaysTold(t)
  BY <1>3 DEF AlwaysTold
<1> QED
  BY <1>2, <1>3, <1>4, <1>5, <1>6 DEF SnapshotInv, TakingFits

LEMMA ReadEntriesKeeps ==
  ASSUME SnapshotInv, Copies!ReadEntries
  PROVE  SnapshotInv'
<1>1. /\ taking # Copies!Idle /\ snapMemory' = snapMemory /\ manifests' = manifests
      /\ snapMemory \in Mems /\ taking \in Takings /\ TakingFits(taking, snapMemory)
  BY DEF SnapshotInv, TakingFits, Copies!ReadEntries
<1>2. PICK k : k = taking.kind
  OBVIOUS
<1>3. k \in 1..4
  BY <1>1, <1>2, CapturedAre DEF Takings, Copies!ReadEntries
<1>4. PICK kind : kind = Copies!Captured[k]
  OBVIOUS
<1>5. kind \in CapKinds
  BY <1>3, <1>4, CapturedDiffer
<1>6. PICK S : S = Copies!Entries(kind)
  OBVIOUS
<1>7. /\ S \in SUBSET AnyEntry
      /\ \A e \in S : e.key[1] = kind /\ e.key[2] \in Memories /\ e.checksum = snapMemory[kind][e.key[2]]
      /\ \A id \in Memories : Copies!Present(snapMemory[kind][id]) =>
           \E e \in S : e.key = <<kind, id>> /\ e.checksum = snapMemory[kind][id]
  BY <1>1, <1>5, <1>6, ReadEntry
<1>8. OneEach(S)
  <2>1. PICK f : f = snapMemory[kind]
    OBVIOUS
  <2> QED
    BY <1>7, <2>1, OneOfEach
<1>9. \A id \in Memories : <<kind, id, snapMemory[kind][id]>> \in taking.seen
  BY <1>1, <1>5, TellingIs DEF ToldKinds, TakingFits
<1>10. \A now \in taking.always : now[2] \in Memories /\ (now[1] = kind => now = <<kind, now[2], snapMemory[kind][now[2]]>>)
  <2>1. \A now \in Copies!Told(snapMemory) :
          \E type \in ToldKinds, id \in Memories : now = <<type, id, snapMemory[type][id]>>
    BY <1>1, TellingIs
  <2> QED
    BY <1>1, <2>1 DEF TakingFits
<1>11. taking.nodes = {}
  BY <1>1, <1>2, <1>3 DEF TakingFits, EntriesPlaced
<1>12. \A e \in taking.entries : e.key[1] # kind
  BY <1>1, <1>2, <1>3, <1>4, CapturedDiffer DEF TakingFits, EntriesPlaced
<1>13. kind = "action" <=> k = 4
  BY <1>3, <1>4, CapturedAre, CapturedDiffer
<1>14. CASE kind = "action"
  <2>1. PICK t : t = [taking EXCEPT !.kind = @ + 1, !.nodes = S]
    OBVIOUS
  <2>2. taking' = t
    BY <1>2, <1>4, <1>6, <1>14, <2>1 DEF Copies!ReadEntries
  <2>3. t.kind = 5
    BY <1>1, <1>2, <1>13, <1>14, <2>1 DEF Takings
  <2>4. t.nodes = S
    BY <1>1, <2>1 DEF Takings
  <2>5. t.entries = taking.entries
    BY <1>1, <2>1 DEF Takings
  <2>6. t.seen = taking.seen /\ t.always = taking.always
    BY <1>1, <2>1 DEF Takings
  <2>7. t \in Takings
    <3>1. k + 1 \in 1..5
      BY <1>3
    <3>2. S \in SUBSET AnyEntry
      BY <1>7
    <3> QED
      BY <1>1, <1>2, <2>1, <3>1, <3>2 DEF Takings
  <2>8. EntriesPlaced(t)
    <3>1. \A e \in t.entries : \E n \in 1..4 : e.key[1] = Copies!Captured[n]
      <4>1. \A e \in taking.entries : \E n \in 1..(k - 1) : e.key[1] = Copies!Captured[n]
        BY <1>1, <1>2 DEF TakingFits, EntriesPlaced
      <4> QED
        BY <1>3, <2>5, <4>1
    <3>2. \A e \in t.entries, o \in t.nodes : o.key # e.key
      BY <1>7, <1>12, <2>4, <2>5
    <3>3. OneEach(t.entries) /\ OneEach(t.nodes)
      BY <1>1, <1>8, <2>4, <2>5 DEF TakingFits, EntriesPlaced
    <3> QED
      BY <1>7, <1>14, <2>3, <2>4, <3>1, <3>2, <3>3 DEF EntriesPlaced
  <2>9. NodesTell(t)
    <3>1. \A o \in t.nodes : <<"action", o.key[2], o.checksum>> \in t.seen
      BY <1>7, <1>9, <1>14, <2>4, <2>6
    <3>2. \A o \in t.nodes, now \in t.always : now[1] = "action" /\ now[2] = o.key[2] => now[3] = o.checksum
      BY <1>7, <1>10, <1>14, <2>4, <2>6
    <3> QED
      BY <3>1, <3>2 DEF NodesTell
  <2>10. EntriesTell(t)
    BY <1>1, <2>5, <2>6 DEF TakingFits, EntriesTell
  <2>11. AlwaysTold(t)
    <3> SUFFICES ASSUME NEW now \in t.always, NEW n \in 1..4,
                        Copies!Captured[n] = now[1], Copies!Present(now[3])
                 PROVE  \/ \E e \in t.entries : now \in Copies!ToldBy(e)
                        \/ \E e \in t.nodes : e.key = <<now[1], now[2]>>
      <4>1. t.kind - 1 = 4
        BY <2>3
      <4> QED
        BY <4>1 DEF AlwaysTold
    <3>1. CASE n = 4
      <4>1. now[1] = kind
        BY <1>4, <1>13, <1>14, <3>1
      <4>2. now = <<kind, now[2], snapMemory[kind][now[2]]>> /\ now[2] \in Memories
        BY <1>10, <2>6, <4>1
      <4>3. now[3] = snapMemory[kind][now[2]]
        BY <4>2
      <4> QED
        BY <1>7, <2>4, <4>1, <4>2, <4>3
    <3>2. CASE n # 4
      <4>1. n \in 1..(taking.kind - 1)
        BY <1>2, <1>13, <1>14, <3>2
      <4> QED
        BY <1>1, <1>11, <2>5, <2>6, <4>1 DEF TakingFits, AlwaysTold
    <3> QED
      BY <3>1, <3>2
  <2>12. TakingFits(t, snapMemory)
    BY <1>1, <2>6, <2>7, <2>8, <2>9, <2>10, <2>11 DEF TakingFits
  <2> QED
    BY <1>1, <2>2, <2>12 DEF SnapshotInv
<1>15. CASE kind # "action"
  <2>1. PICK t : t = [taking EXCEPT !.kind = @ + 1, !.entries = @ \cup S]
    OBVIOUS
  <2>2. taking' = t
    BY <1>2, <1>4, <1>6, <1>15, <2>1 DEF Copies!ReadEntries, Copies!Appended
  <2>3. t.kind = k + 1
    BY <1>1, <1>2, <2>1 DEF Takings
  <2>4. t.nodes = {}
    BY <1>1, <1>11, <2>1 DEF Takings
  <2>5. t.entries = taking.entries \cup S
    BY <1>1, <2>1 DEF Takings
  <2>6. t.seen = taking.seen /\ t.always = taking.always
    BY <1>1, <2>1 DEF Takings
  <2>7. t \in Takings
    <3>1. taking.entries \cup S \in SUBSET AnyEntry
      BY <1>1, <1>7 DEF Takings
    <3>2. k + 1 \in 1..5
      BY <1>3
    <3> QED
      BY <1>1, <1>2, <2>1, <3>1, <3>2 DEF Takings
  <2>8. EntriesPlaced(t)
    <3>1. \A e \in t.entries : \E n \in 1..k : e.key[1] = Copies!Captured[n]
      <4>1. \A e \in taking.entries : \E n \in 1..(k - 1) : e.key[1] = Copies!Captured[n]
        BY <1>1, <1>2 DEF TakingFits, EntriesPlaced
      <4>2. \A e \in S : e.key[1] = Copies!Captured[k]
        BY <1>4, <1>7
      <4> QED
        BY <1>3, <2>5, <4>1, <4>2
    <3>2. OneEach(t.entries)
      <4>1. OneEach(taking.entries)
        BY <1>1 DEF TakingFits, EntriesPlaced
      <4>2. \A e \in taking.entries, o \in S : e.key # o.key
        BY <1>7, <1>12
      <4> QED
        BY <1>8, <2>5, <4>1, <4>2 DEF OneEach
    <3> QED
      BY <1>3, <2>3, <2>4, <3>1, <3>2 DEF EntriesPlaced, OneEach
  <2>9. NodesTell(t)
    BY <2>4 DEF NodesTell
  <2>10. EntriesTell(t)
    <3>1. EntriesTell(taking)
      BY <1>1 DEF TakingFits
    <3>2. \A e \in S : Copies!ToldBy(e) \subseteq t.seen /\ e.key[1] # "action"
      BY <1>7, <1>9, <1>15, <2>6, ToldByIs
    <3> QED
      BY <2>5, <2>6, <3>1, <3>2 DEF EntriesTell
  <2>11. AlwaysTold(t)
    <3> SUFFICES ASSUME NEW now \in t.always, NEW n \in 1..k,
                        Copies!Captured[n] = now[1], Copies!Present(now[3])
                 PROVE  \E e \in t.entries : now \in Copies!ToldBy(e)
      BY <1>3, <2>3 DEF AlwaysTold
    <3>1. CASE n = k
      <4>1. now[1] = kind
        BY <1>4, <3>1
      <4>2. now = <<kind, now[2], snapMemory[kind][now[2]]>> /\ now[2] \in Memories
        BY <1>10, <2>6, <4>1
      <4>3. now[3] = snapMemory[kind][now[2]]
        BY <4>2
      <4>4. PICK e \in S : e.key = <<kind, now[2]>> /\ e.checksum = snapMemory[kind][now[2]]
        BY <1>7, <4>2, <4>3
      <4>5. Copies!ToldBy(e) = {<<e.key[1], e.key[2], e.checksum>>}
        BY <1>7, <1>15, <4>4, ToldByIs
      <4>6. e.key[1] = kind /\ e.key[2] = now[2]
        BY <4>4
      <4>7. now \in Copies!ToldBy(e)
        BY <4>2, <4>4, <4>5, <4>6
      <4> QED
        BY <2>5, <4>4, <4>7
    <3>2. CASE n # k
      <4>1. n \in 1..(taking.kind - 1)
        BY <1>2, <1>3, <3>2
      <4> QED
        BY <1>1, <1>11, <2>5, <2>6, <4>1 DEF TakingFits, AlwaysTold
    <3> QED
      BY <3>1, <3>2
  <2>12. TakingFits(t, snapMemory)
    BY <1>1, <2>6, <2>7, <2>8, <2>9, <2>10, <2>11 DEF TakingFits
  <2> QED
    BY <1>1, <2>2, <2>12 DEF SnapshotInv
<1> QED
  BY <1>14, <1>15

LEMMA DependsOnIs ==
  ASSUME snapMemory \in Mems, NEW id \in Memories
  PROVE  /\ Copies!DependsOn(id) \in Vals
         /\ \E value \in {Copies!DependsOn(id)} \cup (IF Copies!DependsOn(id) = "gone" THEN {None} ELSE {}) :
              <<"dependency", id, value>> \in Copies!Told(snapMemory)
<1>1. PICK value : value = snapMemory["dependency"][id]
  OBVIOUS
<1>2. value \in Vals
  BY <1>1 DEF Mems, ToldKinds
<1>3. <<"dependency", id, value>> \in Copies!Told(snapMemory)
  BY <1>1, TellingIs DEF ToldKinds
<1>4. CASE Copies!Present(value)
  BY <1>1, <1>2, <1>3, <1>4 DEF Copies!DependsOn
<1>5. CASE ~Copies!Present(value)
  <2>1. Copies!DependsOn(id) = "gone"
    BY <1>1, <1>5 DEF Copies!DependsOn, Copies!Gone
  <2>2. value \in {"gone", None}
    BY <1>5 DEF Copies!Present, Copies!Gone
  <2> QED
    BY <1>3, <2>1, <2>2 DEF Vals
<1> QED
  BY <1>4, <1>5

LEMMA snapshotActionEntryKeeps ==
  ASSUME SnapshotInv, Copies!snapshotActionEntry
  PROVE  SnapshotInv'
<1>1. /\ taking # Copies!Idle /\ snapMemory' = snapMemory /\ manifests' = manifests
      /\ snapMemory \in Mems /\ taking \in Takings /\ TakingFits(taking, snapMemory)
  BY DEF SnapshotInv, TakingFits, Copies!snapshotActionEntry
<1>2. PICK node \in taking.nodes :
        taking' = [taking EXCEPT !.nodes = taking.nodes \ {node},
          !.entries = taking.entries \cup {[key |-> <<"action", node.key[2]>>,
                             checksum |-> <<node.checksum, Copies!DependsOn(node.key[2])>>]}]
  <2>1. PICK node \in taking.nodes :
          taking' = [taking EXCEPT !.nodes = taking.nodes \ {node},
            !.entries = Copies!Appended(taking.entries,
              {Copies!snapshotEntry("action", node.key[2], <<node.checksum, Copies!DependsOn(node.key[2])>>)})]
    BY Zenon DEF Copies!snapshotActionEntry
  <2>2. Copies!snapshotEntry("action", node.key[2], <<node.checksum, Copies!DependsOn(node.key[2])>>)
          = [key |-> <<"action", node.key[2]>>, checksum |-> <<node.checksum, Copies!DependsOn(node.key[2])>>]
    BY Zenon DEF Copies!snapshotEntry
  <2> QED
    BY <2>1, <2>2, Zenon DEF Copies!Appended
<1>3. /\ taking.kind = 5 /\ node.key[1] = "action" /\ node \in AnyEntry
      /\ node.key[2] \in Memories /\ node.key = <<"action", node.key[2]>>
  BY <1>1, EntryIs DEF TakingFits, EntriesPlaced, Takings
<1>4. <<"action", node.key[2], node.checksum>> \in taking.seen /\ node.checksum \in Vals
  <2>1. <<"action", node.key[2], node.checksum>> \in taking.seen
    BY <1>1 DEF TakingFits, NodesTell
  <2>2. taking.seen \subseteq Tellings
    BY <1>1 DEF Takings
  <2> QED
    BY <2>1, <2>2 DEF Tellings
<1>5. PICK after : after = Copies!DependsOn(node.key[2])
  OBVIOUS
<1>6. /\ after \in Vals
      /\ \E value \in {after} \cup (IF after = "gone" THEN {None} ELSE {}) :
           <<"dependency", node.key[2], value>> \in taking.seen
  BY <1>1, <1>3, <1>5, DependsOnIs DEF TakingFits
<1>7. PICK e : e = [key |-> <<"action", node.key[2]>>, checksum |-> <<node.checksum, after>>]
  OBVIOUS
<1>8. e.key = node.key /\ e.checksum = <<node.checksum, after>> /\ e \in AnyEntry
  BY <1>3, <1>4, <1>6, <1>7 DEF AnyEntry
<1>9. e.key[1] = "action" /\ e.key[2] = node.key[2] /\ e.checksum[1] = node.checksum /\ e.checksum[2] = after
  BY <1>3, <1>8
<1>10. Copies!ToldBy(e) = {<<"action", node.key[2], node.checksum>>}
  BY <1>8, <1>9, ToldByIs
<1>11. PICK t : t = [taking EXCEPT !.nodes = taking.nodes \ {node}, !.entries = taking.entries \cup {e}]
  OBVIOUS
<1>12. taking' = t
  BY <1>2, <1>5, <1>7, <1>11
<1>13. t.kind = 5
  BY <1>1, <1>3, <1>11 DEF Takings
<1>14. t.nodes = taking.nodes \ {node}
  BY <1>1, <1>11 DEF Takings
<1>15. t.entries = taking.entries \cup {e}
  BY <1>1, <1>11 DEF Takings
<1>16. t.seen = taking.seen /\ t.always = taking.always
  BY <1>1, <1>11 DEF Takings
<1>17. t \in Takings
  <2>1. taking.nodes \ {node} \in SUBSET AnyEntry
    BY <1>1 DEF Takings
  <2>2. taking.entries \cup {e} \in SUBSET AnyEntry
    BY <1>1, <1>8 DEF Takings
  <2> QED
    BY <1>1, <1>11, <2>1, <2>2 DEF Takings
<1>18. EntriesPlaced(t)
  <2>1. EntriesPlaced(taking)
    BY <1>1 DEF TakingFits
  <2>2. OneEach(t.nodes)
    BY <1>14, <2>1 DEF EntriesPlaced, OneEach
  <2>3. OneEach(t.entries)
    BY <1>8, <1>15, <2>1 DEF EntriesPlaced, OneEach
  <2>4. \A d \in t.entries : \E n \in 1..4 : d.key[1] = Copies!Captured[n]
    <3>1. taking.kind - 1 = 4
      BY <1>3
    <3>2. \A d \in taking.entries : \E n \in 1..4 : d.key[1] = Copies!Captured[n]
      BY <2>1, <3>1 DEF EntriesPlaced
    <3> QED
      BY <1>9, <1>15, <3>2, CapturedAre
  <2>5. \A d \in t.entries, o \in t.nodes : o.key # d.key
    <3>1. \A o \in t.nodes : o.key # node.key
      BY <1>14, <2>1 DEF EntriesPlaced, OneEach
    <3> QED
      BY <1>8, <1>14, <1>15, <2>1, <3>1 DEF EntriesPlaced
  <2>6. \A o \in t.nodes : t.kind = 5 /\ o.key[1] = "action"
    BY <1>13, <1>14, <2>1 DEF EntriesPlaced
  <2>7. t.kind - 1 = 4
    BY <1>13
  <2> QED
    BY <2>2, <2>3, <2>4, <2>5, <2>6, <2>7 DEF EntriesPlaced
<1>19. NodesTell(t)
  BY <1>1, <1>14, <1>16 DEF TakingFits, NodesTell
<1>20. EntriesTell(t)
  <2>1. EntriesTell(taking)
    BY <1>1 DEF TakingFits
  <2>2. Copies!ToldBy(e) \subseteq t.seen
    BY <1>4, <1>10, <1>16
  <2>3. \E value \in {e.checksum[2]} \cup (IF e.checksum[2] = "gone" THEN {None} ELSE {}) :
          <<"dependency", e.key[2], value>> \in t.seen
    BY <1>6, <1>9, <1>16
  <2> QED
    BY <1>15, <1>16, <2>1, <2>2, <2>3 DEF EntriesTell
<1>21. AlwaysTold(t)
  <2> SUFFICES ASSUME NEW now \in t.always, NEW n \in 1..(t.kind - 1),
                      Copies!Captured[n] = now[1], Copies!Present(now[3])
               PROVE  \/ \E d \in t.entries : now \in Copies!ToldBy(d)
                      \/ \E d \in t.nodes : d.key = <<now[1], now[2]>>
    BY DEF AlwaysTold
  <2>1. \/ \E d \in taking.entries : now \in Copies!ToldBy(d)
        \/ \E d \in taking.nodes : d.key = <<now[1], now[2]>>
    <3>1. t.kind = taking.kind
      BY <1>3, <1>13
    <3> QED
      BY <1>1, <1>16, <3>1 DEF TakingFits, AlwaysTold
  <2>2. CASE node.key = <<now[1], now[2]>>
    <3>1. now[1] = "action" /\ now[2] = node.key[2]
      BY <1>3, <2>2
    <3>2. now[3] = node.checksum
      BY <1>1, <1>16, <3>1 DEF TakingFits, NodesTell
    <3>3. now = <<now[1], now[2], now[3]>>
      <4>1. now \in Tellings
        BY <1>1, <1>16 DEF Takings
      <4> QED
        BY <4>1 DEF Tellings
    <3>4. now \in Copies!ToldBy(e)
      BY <1>10, <3>1, <3>2, <3>3
    <3> QED
      BY <1>15, <3>4
  <2>3. CASE node.key # <<now[1], now[2]>>
    BY <1>14, <1>15, <2>1, <2>3
  <2> QED
    BY <2>2, <2>3
<1>22. TakingFits(t, snapMemory)
  BY <1>1, <1>16, <1>17, <1>18, <1>19, <1>20, <1>21 DEF TakingFits
<1> QED
  BY <1>1, <1>12, <1>22 DEF SnapshotInv

LEMMA ExportSnapshotManifestKeeps ==
  ASSUME SnapshotInv, Copies!ExportSnapshotManifest
  PROVE  SnapshotInv'
<1>1. /\ taking # Copies!Idle /\ taking' = Copies!Idle /\ snapMemory' = snapMemory
      /\ manifests \in Seq(Manifests) /\ TakingFits(taking, snapMemory)
  BY DEF SnapshotInv, Copies!ExportSnapshotManifest
<1>2. PICK git \in Checkouts :
        manifests' = Append(manifests, [git |-> Copies!snapshotGitMetadata(git), entries |-> taking.entries])
  BY DEF Copies!ExportSnapshotManifest
<1>3. PICK told : told = Copies!snapshotGitMetadata(git)
  OBVIOUS
<1>4. told \in {Copies!snapshotGitMetadata(g) : g \in Checkouts}
  BY <1>3
<1>5. PICK m : m = [git |-> told, entries |-> taking.entries]
  OBVIOUS
<1>6. m.entries = taking.entries
  BY <1>5
<1>7. OneEach(taking.entries) /\ taking.entries \subseteq AnyEntry
  BY <1>1 DEF TakingFits, EntriesPlaced, Takings
<1>8. m \in Manifests
  BY <1>4, <1>5, <1>7 DEF Manifests
<1>9. manifests' = Append(manifests, m)
  BY <1>2, <1>3, <1>5
<1>10. manifests' \in Seq(Manifests)
  BY <1>1, <1>8, <1>9
<1>11. \A i \in DOMAIN manifests' : OneEach(manifests'[i].entries)
  <2>1. \A i \in DOMAIN manifests' : (i \in DOMAIN manifests /\ manifests'[i] = manifests[i]) \/ manifests'[i] = m
    BY <1>1, <1>8, <1>9
  <2> QED
    BY <1>6, <1>7, <2>1 DEF SnapshotInv
<1> QED
  BY <1>1, <1>10, <1>11 DEF SnapshotInv

LEMMA SnapshotInvInductive ==
  ASSUME SnapshotInv, Copies!SnapshotNext \/ UNCHANGED snapshotVars
  PROVE  SnapshotInv'
<1>1. CASE Copies!SnapshotFails
  BY <1>1 DEF SnapshotInv, Copies!SnapshotFails
<1>2. CASE UNCHANGED snapshotVars
  BY <1>2 DEF SnapshotInv, snapshotVars
<1> QED
  BY <1>1, <1>2, HostChangesKeeps, BeginSnapshotKeeps, ReadEntriesKeeps, snapshotActionEntryKeeps,
     ExportSnapshotManifestKeeps DEF Copies!SnapshotNext

LEMMA SnapshotInvInit ==
  ASSUME Copies!SnapshotInit
  PROVE  SnapshotInv
<1>1. snapMemory = [kind \in ToldKinds |-> [id \in Memories |-> None]]
  BY ToldKindsAre DEF Copies!SnapshotInit
<1>2. snapMemory \in Mems
  BY <1>1 DEF Mems, Vals
<1>3. taking = Copies!Idle /\ manifests = <<>>
  BY DEF Copies!SnapshotInit
<1> QED
  BY <1>2, <1>3 DEF SnapshotInv

Changed(F, G) == {e \in G : \E o \in F : o.key = e.key /\ o.checksum # e.checksum}

\* What a difference takes away and adds leads from one capture to the other.
LEMMA DiffLeadsAcross ==
  ASSUME NEW F \in SUBSET AnyEntry, NEW G \in SUBSET AnyEntry, OneEach(F), OneEach(G)
  PROVE  /\ Copies!Without(F, Copies!Without(F, G) \cup Changed(F, G)) \cup Copies!Without(G, F) \cup Changed(F, G) = G
         /\ F = G <=> Copies!Without(G, F) \cup Copies!Without(F, G) \cup Changed(F, G) = {}
<1> DEFINE added == Copies!Without(G, F)
           removed == Copies!Without(F, G)
           changed == Changed(F, G)
<1>1. \A f \in F, g \in G : f.key = g.key /\ f.checksum = g.checksum => f = g
  <2> SUFFICES ASSUME NEW f \in F, NEW g \in G, f.key = g.key, f.checksum = g.checksum PROVE f = g
    OBVIOUS
  <2>1. f = [key |-> f.key, checksum |-> f.checksum] /\ g = [key |-> g.key, checksum |-> g.checksum]
    BY EntryIs
  <2> QED
    BY <2>1
<1>2. /\ added = {e \in G : \A o \in F : o.key # e.key} /\ removed = {e \in F : \A o \in G : o.key # e.key}
      /\ changed = {e \in G : \E o \in F : o.key = e.key /\ o.checksum # e.checksum}
  BY DEF Copies!Without, Changed
<1>3. Copies!Without(F, removed \cup changed) = {e \in F : \A o \in removed \cup changed : o.key # e.key}
  BY DEF Copies!Without
<1> HIDE DEF added, removed, changed
<1>4. ASSUME NEW e \in F, \A o \in removed \cup changed : o.key # e.key
      PROVE  e \in G
  <2>1. e \notin removed
    BY <1>4
  <2>2. PICK o \in G : o.key = e.key
    BY <1>2, <2>1
  <2>3. o \notin changed
    BY <1>4, <2>2
  <2>4. o.checksum = e.checksum
    BY <1>2, <2>2, <2>3
  <2> QED
    BY <1>1, <2>2, <2>4
<1>5. ASSUME NEW g \in G, g \notin added, g \notin changed
      PROVE  g \in F /\ \A o \in removed \cup changed : o.key # g.key
  <2>1. PICK f \in F : f.key = g.key
    BY <1>2, <1>5
  <2>2. f.checksum = g.checksum
    BY <1>2, <1>5, <2>1
  <2>3. g \in F
    BY <1>1, <2>1, <2>2
  <2>4. \A o \in removed : o.key # g.key
    BY <1>2
  <2>5. ASSUME NEW o \in changed, o.key = g.key PROVE FALSE
    <3>1. o \in G
      BY <1>2
    <3>2. o = g
      BY <2>5, <3>1 DEF OneEach
    <3> QED
      BY <1>5, <3>2
  <2> QED
    BY <2>3, <2>4, <2>5
<1>6. Copies!Without(F, removed \cup changed) \cup added \cup changed = G
  <2>1. added \subseteq G /\ changed \subseteq G
    BY <1>2
  <2>2. Copies!Without(F, removed \cup changed) \subseteq G
    BY <1>3, <1>4
  <2>3. G \subseteq Copies!Without(F, removed \cup changed) \cup added \cup changed
    BY <1>3, <1>5
  <2> QED
    BY <2>1, <2>2, <2>3
<1>7. ASSUME F = G PROVE added \cup removed \cup changed = {}
  <2>1. added = {} /\ removed = {}
    BY <1>2, <1>7
  <2>2. changed = {}
    BY <1>2, <1>7 DEF OneEach
  <2> QED
    BY <2>1, <2>2
<1>8. ASSUME added \cup removed \cup changed = {} PROVE F = G
  <2>1. added = {} /\ removed = {} /\ changed = {}
    BY <1>8
  <2>2. Copies!Without(F, removed \cup changed) = F
    BY <1>3, <2>1
  <2> QED
    BY <1>6, <2>1, <2>2
<1> QED
  BY <1>6, <1>7, <1>8 DEF added, removed, changed

\* What tells a checkout, and what a checkpoint is of.
LEMMA CheckoutsTell ==
  ASSUME NEW from, NEW to
  PROVE  /\ Copies!StaleBranch(from, to) => Copies!GitChanged(from, to)
         /\ Copies!snapshotManifestID(from) = Copies!snapshotManifestID(to) <=> from.entries = to.entries
         /\ /\ Copies!snapshotCheckpointID(from) = Copies!snapshotCheckpointID(to)
            /\ Copies!snapshotCheckpointID(to) # None
            => /\ Copies!snapshotManifestID(from) = Copies!snapshotManifestID(to)
               /\ ~Copies!GitChanged(from, to)
<1>1. Copies!StaleBranch(from, to) => from.git.branch # to.git.branch
  BY Zenon DEF Copies!StaleBranch
<1>2. from.git.branch # to.git.branch => Copies!GitChanged(from, to)
  BY DEF Copies!GitChanged
<1>3. Copies!snapshotManifestID(from) = Copies!snapshotManifestID(to) <=> from.entries = to.entries
  BY DEF Copies!snapshotManifestID
<1>4. ASSUME Copies!snapshotCheckpointID(from) = Copies!snapshotCheckpointID(to), Copies!snapshotCheckpointID(to) # None
      PROVE  Copies!snapshotManifestID(from) = Copies!snapshotManifestID(to) /\ ~Copies!GitChanged(from, to)
  <2> DEFINE Checkpoint(m) == <<Copies!snapshotManifestID(m), m.git.branch, m.git.worktree, m.git.commit>>
  <2>1. Copies!snapshotCheckpointID(from) = None \/ Copies!snapshotCheckpointID(from) = Checkpoint(from)
    BY Zenon DEF Copies!snapshotCheckpointID
  <2>2. Copies!snapshotCheckpointID(to) = None \/ Copies!snapshotCheckpointID(to) = Checkpoint(to)
    BY Zenon DEF Copies!snapshotCheckpointID
  <2>3. Checkpoint(from) = Checkpoint(to)
    BY <1>4, <2>1, <2>2
  <2>4. /\ Copies!snapshotManifestID(from) = Copies!snapshotManifestID(to)
        /\ from.git.branch = to.git.branch /\ from.git.worktree = to.git.worktree /\ from.git.commit = to.git.commit
    BY <2>3
  <2> QED
    BY <2>4 DEF Copies!GitChanged
<1> QED
  BY <1>1, <1>2, <1>3, <1>4

LEMMA SnapshotsTellAll == SnapshotInv => Copies!SnapshotsTell
<1> SUFFICES ASSUME SnapshotInv PROVE Copies!SnapshotsTell
  OBVIOUS
<1>1. Copies!EntriesAreOfTheirTime
  BY DEF SnapshotInv, TakingFits, EntriesTell, AlwaysTold, Copies!EntriesAreOfTheirTime, Copies!Gone
<1>2. ASSUME NEW from \in Copies!ToSet(manifests)
      PROVE  from.entries \in SUBSET AnyEntry /\ OneEach(from.entries)
  <2>1. PICK i \in DOMAIN manifests : from = manifests[i]
    BY DEF Copies!ToSet
  <2>2. manifests[i] \in Manifests
    BY DEF SnapshotInv
  <2> QED
    BY <2>1, <2>2 DEF SnapshotInv, Manifests
<1>3. ASSUME NEW from \in Copies!ToSet(manifests), NEW to \in Copies!ToSet(manifests)
      PROVE  LET d == Copies!DiffSnapshotManifests(from, to)
                 back == Copies!DiffSnapshotManifests(to, from)
             IN /\ Copies!Without(from.entries, d.removed \cup d.changed) \cup d.added \cup d.changed = to.entries
                /\ d.added = back.removed /\ {e.key : e \in d.changed} = {e.key : e \in back.changed}
                /\ Copies!snapshotManifestID(from) = Copies!snapshotManifestID(to)
                     <=> d.added \cup d.removed \cup d.changed = {}
                /\ Copies!StaleBranch(from, to) => Copies!GitChanged(from, to)
                /\ /\ Copies!snapshotCheckpointID(from) = Copies!snapshotCheckpointID(to)
                   /\ Copies!snapshotCheckpointID(to) # None
                   => /\ Copies!snapshotManifestID(from) = Copies!snapshotManifestID(to)
                      /\ ~Copies!GitChanged(from, to)
  <2>1. PICK d : d = Copies!DiffSnapshotManifests(from, to)
    OBVIOUS
  <2>2. PICK back : back = Copies!DiffSnapshotManifests(to, from)
    OBVIOUS
  <2>3. /\ d.added = Copies!Without(to.entries, from.entries)
        /\ d.removed = Copies!Without(from.entries, to.entries)
        /\ d.changed = {e \in to.entries : \E o \in from.entries : o.key = e.key /\ o.checksum # e.checksum}
    BY <2>1 DEF Copies!DiffSnapshotManifests
  <2>4. /\ back.removed = Copies!Without(to.entries, from.entries)
        /\ back.changed = {e \in from.entries : \E o \in to.entries : o.key = e.key /\ o.checksum # e.checksum}
    BY <2>2 DEF Copies!DiffSnapshotManifests
  <2>5. /\ Copies!Without(from.entries, d.removed \cup d.changed) \cup d.added \cup d.changed = to.entries
        /\ from.entries = to.entries <=> d.added \cup d.removed \cup d.changed = {}
    <3>1. d.changed = Changed(from.entries, to.entries)
      BY <2>3 DEF Changed
    <3>2. PICK F, G : F = from.entries /\ G = to.entries
      OBVIOUS
    <3>3. F \in SUBSET AnyEntry /\ G \in SUBSET AnyEntry /\ OneEach(F) /\ OneEach(G)
      BY <1>2, <3>2
    <3>4. /\ Copies!Without(F, Copies!Without(F, G) \cup Changed(F, G)) \cup Copies!Without(G, F) \cup Changed(F, G) = G
          /\ F = G <=> Copies!Without(G, F) \cup Copies!Without(F, G) \cup Changed(F, G) = {}
      BY <3>3, DiffLeadsAcross
    <3>5. /\ d.added = Copies!Without(G, F) /\ d.removed = Copies!Without(F, G)
          /\ d.changed = Changed(F, G)
      BY <2>3, <3>1, <3>2
    <3> QED
      BY <3>2, <3>4, <3>5
  <2>6. {e.key : e \in d.changed} = {e.key : e \in back.changed}
    <3>1. \A e \in d.changed : \E o \in back.changed : o.key = e.key
      BY <2>3, <2>4
    <3>2. \A e \in back.changed : \E o \in d.changed : o.key = e.key
      BY <2>3, <2>4
    <3> QED
      BY <3>1, <3>2
  <2>7. d.added = back.removed
    BY <2>3, <2>4
  <2> QED
    BY <2>1, <2>2, <2>5, <2>6, <2>7, CheckoutsTell
<1>4. Copies!DiffsLeadAcross
  BY <1>3, Zenon DEF Copies!DiffsLeadAcross
<1> QED
  BY <1>1, <1>4 DEF Copies!SnapshotsTell

LEMMA CopiesStep ==
  ASSUME Next
  PROVE  Copies!Next \/ UNCHANGED PortableRest
<1>1. CASE part = "portable"
  BY <1>1 DEF Next
<1>2. CASE part = "snapshots"
  BY <1>2 DEF Next, PortableRest
<1>3. CASE part # "portable" /\ part # "snapshots"
  BY <1>3 DEF Next, PortableRest, portableVars
<1> QED
  BY <1>1, <1>2, <1>3

LEMMA SnapshotStep ==
  ASSUME Next
  PROVE  Copies!SnapshotNext \/ UNCHANGED snapshotVars
BY DEF Next

\* What is copied stays whole: an import that ended has stored its file and overwrote nothing
\* but what it was told of, a review item is exported with its conclusion unless that was
\* deleted or left out by the filters of an export, and a capture, and the difference of two,
\* tell what was there (portable_export.go:165-296, 334-351; snapshots.go:82-158, 228-304),
\* whatever the other stores do.
THEOREM CopiesStayWhole == Spec => []CopiesAreWhole
<1>1. Init => CopiesInv /\ UsedFits /\ SnapshotInv
  BY CopiesInvInit, SnapshotInvInit DEF Init
<1>2. CopiesInv /\ UsedFits /\ SnapshotInv /\ [Next]_vars => CopiesInv' /\ UsedFits' /\ SnapshotInv'
  <2> SUFFICES ASSUME CopiesInv, UsedFits, SnapshotInv, [Next]_vars PROVE CopiesInv' /\ UsedFits' /\ SnapshotInv'
    OBVIOUS
  <2>1. CASE Next
    BY <2>1, CopiesStep, SnapshotStep, CopiesInvInductive, SnapshotInvInductive
  <2>2. CASE UNCHANGED vars
    <3>1. UNCHANGED PortableRest /\ UNCHANGED snapshotVars
      BY <2>2 DEF vars, PortableRest, portableVars, snapshotVars
    <3> QED
      BY <3>1, CopiesInvInductive, SnapshotInvInductive
  <2> QED
    BY <2>1, <2>2
<1>3. CopiesInv /\ UsedFits /\ SnapshotInv => CopiesAreWhole
  BY CopiesPromise, SnapshotsTellAll DEF CopiesAreWhole
<1> QED
  BY <1>1, <1>2, <1>3, PTL DEF Spec

-----------------------------------------------------------------------------
\* Hooks of the host that are captured

\* What is left of a text.
Pieces == {"a", "#"}
Clean == Seq(Pieces)

\* Of a text with one passage the rest is left.
LEMMA RedactedOnce ==
  ASSUME NEW S, NEW t \in Seq(S), NEW i \in DOMAIN t, NEW j \in DOMAIN t, i < j,
         \A a, b \in DOMAIN t : Host!Passage(t, a, b) <=> a = i /\ b = j,
         \A k \in DOMAIN t : k < i \/ j < k => t[k] \in Pieces
  PROVE  Host!Redact(t) \in Clean
<1>1. {a \in DOMAIN t : \E b \in DOMAIN t : Host!Passage(t, a, b)} = {i}
  OBVIOUS
<1>2. Host!Min({i}) = i
  BY DEF Host!Min
<1>3. (CHOOSE b \in DOMAIN t : Host!Passage(t, i, b)) = j
  OBVIOUS
<1>4. Host!Redact(t) = SubSeq(t, 1, i - 1) \o <<"#">> \o SubSeq(t, j + 1, Len(t))
  BY <1>1, <1>2, <1>3 DEF Host!Redact, Host!Mark
<1>5. SubSeq(t, 1, i - 1) \in Clean
  <2>1. \A k \in 1..(i - 1) : t[k] \in Pieces
    OBVIOUS
  <2> QED
    BY <2>1, SubSeqProperties DEF Clean
<1>6. SubSeq(t, j + 1, Len(t)) \in Clean
  <2>1. \A k \in (j + 1)..Len(t) : t[k] \in Pieces
    OBVIOUS
  <2> QED
    BY <2>1 DEF Clean
<1>7. <<"#">> \in Clean
  BY DEF Clean, Pieces
<1> QED
  BY <1>4, <1>5, <1>6, <1>7, ConcatProperties DEF Clean

LEMMA FieldsRedacted ==
  ASSUME NEW t \in Fields
  PROVE  Host!Redact(t) \in Clean
<1>1. CASE t = <<>>
  <2>1. {a \in DOMAIN t : \E b \in DOMAIN t : Host!Passage(t, a, b)} = {}
    BY <1>1
  <2>2. Host!Redact(t) = t
    BY <2>1 DEF Host!Redact
  <2>3. <<>> \in Clean
    BY DEF Clean
  <2> QED
    BY <1>1, <2>2, <2>3
<1>2. CASE t = <<"a", "<", "s", ">">>
  <2>1. /\ t \in Seq({"a", "<", "s", ">"}) /\ DOMAIN t = 1..4
        /\ t[1] = "a" /\ t[2] = "<" /\ t[3] = "s" /\ t[4] = ">"
    BY <1>2
  <2>2. \A a \in 1..4 : a = 1 \/ a = 2 \/ a = 3 \/ a = 4
    OBVIOUS
  <2>3. \A a, b \in 1..4 : Host!Passage(t, a, b) <=> a = 2 /\ b = 4
    <3>1. ASSUME NEW a \in 1..4, NEW b \in 1..4, Host!Passage(t, a, b) PROVE a = 2 /\ b = 4
      BY <2>1, <2>2, <3>1 DEF Host!Passage, Host!Open, Host!Close
    <3>2. Host!Passage(t, 2, 4)
      <4>1. \A k \in (2+1)..(4-1) : k = 3
        OBVIOUS
      <4> QED
        BY <2>1, <4>1 DEF Host!Passage, Host!Open, Host!Close
    <3> QED
      BY <3>1, <3>2
  <2>4. \A k \in DOMAIN t : k < 2 \/ 4 < k => t[k] \in Pieces
    BY <2>1, <2>2 DEF Pieces
  <2>5. 2 \in DOMAIN t /\ 4 \in DOMAIN t /\ \A a, b \in DOMAIN t : Host!Passage(t, a, b) <=> a = 2 /\ b = 4
    BY <2>1, <2>3
  <2>6. PICK S : t \in Seq(S)
    BY <2>1
  <2> QED
    BY <2>4, <2>5, <2>6, RedactedOnce
<1>3. CASE t = <<"<", "s", ">">>
  <2>1. /\ t \in Seq({"<", "s", ">"}) /\ DOMAIN t = 1..3
        /\ t[1] = "<" /\ t[2] = "s" /\ t[3] = ">"
    BY <1>3
  <2>2. \A a \in 1..3 : a = 1 \/ a = 2 \/ a = 3
    OBVIOUS
  <2>3. \A a, b \in 1..3 : Host!Passage(t, a, b) <=> a = 1 /\ b = 3
    <3>1. ASSUME NEW a \in 1..3, NEW b \in 1..3, Host!Passage(t, a, b) PROVE a = 1 /\ b = 3
      BY <2>1, <2>2, <3>1 DEF Host!Passage, Host!Open, Host!Close
    <3>2. Host!Passage(t, 1, 3)
      <4>1. \A k \in (1+1)..(3-1) : k = 2
        OBVIOUS
      <4> QED
        BY <2>1, <4>1 DEF Host!Passage, Host!Open, Host!Close
    <3> QED
      BY <3>1, <3>2
  <2>4. \A k \in DOMAIN t : k < 1 \/ 3 < k => t[k] \in Pieces
    BY <2>1, <2>2
  <2>5. 1 \in DOMAIN t /\ 3 \in DOMAIN t /\ \A a, b \in DOMAIN t : Host!Passage(t, a, b) <=> a = 1 /\ b = 3
    BY <2>1, <2>3
  <2>6. PICK S : t \in Seq(S)
    BY <2>1
  <2> QED
    BY <2>4, <2>5, <2>6, RedactedOnce
<1> QED
  BY <1>1, <1>2, <1>3 DEF Fields

\* A field is stored without what is private in it.
LEMMA FieldsFiltered ==
  ASSUME NEW t \in Fields
  PROVE  Host!FilterString(t) \in Clean
<1>1. PICK r \in Clean : r = Host!Redact(t)
  BY FieldsRedacted
<1>2. Len(r) \in Nat /\ MaxBytes \in Nat
  BY CaptureAssumption DEF Clean
<1>3. Host!Min({Len(r), MaxBytes}) \in 0..Len(r)
  <2>1. PICK n \in {Len(r), MaxBytes} : n <= Len(r) /\ n <= MaxBytes
    BY <1>2
  <2>2. \A m \in {Len(r), MaxBytes} : n <= m
    BY <2>1
  <2>3. Host!Min({Len(r), MaxBytes}) \in {Len(r), MaxBytes} /\ \A m \in {Len(r), MaxBytes} : Host!Min({Len(r), MaxBytes}) <= m
    BY <2>1, <2>2 DEF Host!Min
  <2> QED
    BY <1>2, <2>3
<1>4. PICK n \in 0..Len(r) : n = Host!Min({Len(r), MaxBytes})
  BY <1>3
<1>5. Host!FilterString(t) = SubSeq(r, 1, n)
  BY <1>1, <1>4 DEF Host!FilterString, Host!Cut
<1>6. \A i \in 1..n : r[i] \in Pieces
  BY DEF Clean
<1> QED
  BY <1>5, <1>6, SubSeqProperties DEF Clean

Events == [kind : {"prompt", "response", "tool", "end"}, content : Clean, other : Clean, summary : Clean]
CaptureCalls ==
  {Host!Resting} \cup [at : {"observe", "message", "summary"}, hook : Host!Hook, event : Events]
ToldRows == [hook : Host!Hook, text : Clean]

\* The calls that have observed a hook and have yet to store its message.
IsTelling(k, h) == k.at = "message" /\ k.hook = h
InFlight(told, h) == {c \in Clients : IsTelling(told[c], h)}
Times(h, s) == Cardinality(Host!Of(h, s))

\* A message was observed first, and is told as often as it was but for failed calls.
TellsAll(h) ==
  /\ Cardinality(InFlight(capture, h)) + Times(h, messages) <= Times(h, observed)
  /\ Host!Conversational(h) /\ h \notin broken =>
       Cardinality(InFlight(capture, h)) + Times(h, messages) = Times(h, observed)

CaptureInv ==
  /\ capture \in [Clients -> CaptureCalls]
  /\ observed \in Seq(ToldRows) /\ messages \in Seq(ToldRows)
  /\ \A c \in Clients : capture[c] # Host!Resting =>
       /\ capture[c].event.kind = capture[c].hook.kind
       /\ capture[c].at # "observe" => Host!Of(capture[c].hook, observed) # {}
  /\ summary # Host!NoHook =>
       summary.hook \in Host!Hook /\ summary.text \in Clean /\ Host!Of(summary.hook, observed) # {}
  /\ \A h \in Host!Hook : TellsAll(h)

\* There is nothing left to redact.
LEMMA CleanStays == \A t \in Clean : Host!Redact(t) = t
<1> SUFFICES ASSUME NEW t \in Clean PROVE Host!Redact(t) = t
  OBVIOUS
<1>1. \A i \in DOMAIN t : t[i] # "<"
  BY DEF Clean, Pieces
<1>2. {i \in DOMAIN t : \E j \in DOMAIN t : Host!Passage(t, i, j)} = {}
  BY <1>1 DEF Host!Passage, Host!Open
<1> QED
  BY <1>2 DEF Host!Redact

LEMMA CleanDontLeak == \A t \in Clean : \A h : ~Host!Leaks(t, h)
<1> SUFFICES ASSUME NEW t \in Clean, NEW h, Host!Leaks(t, h) PROVE FALSE
  OBVIOUS
<1>1. PICK i \in DOMAIN t : t[i] = "s"
  BY DEF Host!Leaks, Host!ToSet, Host!Secret
<1>2. t[i] \in Pieces
  BY DEF Clean
<1> QED
  BY <1>1, <1>2 DEF Pieces

LEMMA FilteredIs ==
  ASSUME NEW h \in Host!Hook
  PROVE  Host!Filtered(h) \in Events /\ Host!Filtered(h).kind = h.kind
<1>1. PICK c, o, s : c = Host!FilterString(h.content) /\ o = Host!FilterString(h.other) /\ s = Host!FilterString(h.summary)
  OBVIOUS
<1>2. c \in Clean /\ o \in Clean /\ s \in Clean
  BY <1>1, FieldsFiltered DEF Host!Hook
<1>3. Host!Filtered(h) = [h EXCEPT !.content = c, !.other = o, !.summary = s]
  BY <1>1 DEF Host!Filtered
<1>4. [h EXCEPT !.content = c, !.other = o, !.summary = s].kind = h.kind
  BY DEF Host!Hook
<1>5. [h EXCEPT !.content = c, !.other = o, !.summary = s] \in Events
  BY <1>2 DEF Host!Hook, Events
<1> QED
  BY <1>3, <1>4, <1>5

LEMMA FirstIsClean ==
  ASSUME NEW a \in Clean, NEW b \in Clean
  PROVE  /\ Host!FirstNonBlank(<<a, b>>) \in Clean
         /\ \A c \in Clean : Host!FirstNonBlank(<<a, b, c>>) \in Clean
<1>1. <<>> \in Clean
  BY DEF Clean
<1>2. ASSUME NEW n \in Nat, NEW s \in [1..n -> Clean], n \in {2, 3}
      PROVE  Host!FirstNonBlank(s) \in Clean
  <2>1. PICK full : full = {i \in DOMAIN s : s[i] # <<>>}
    OBVIOUS
  <2>2. CASE full = {}
    BY <1>1, <2>1, <2>2 DEF Host!FirstNonBlank
  <2>3. CASE full # {}
    <3>1. full \subseteq {1, 2, 3}
      BY <1>2, <2>1
    <3>2. PICK m \in full : \A k \in full : m <= k
      <4>1. CASE 1 \in full
        BY <3>1, <4>1
      <4>2. CASE 1 \notin full /\ 2 \in full
        BY <3>1, <4>2
      <4>3. CASE 1 \notin full /\ 2 \notin full
        <5>1. 3 \in full /\ \A k \in full : k = 3
          BY <2>3, <3>1, <4>3
        <5> QED
          BY <5>1
      <4> QED
        BY <4>1, <4>2, <4>3
    <3>3. Host!Min(full) \in full
      BY <3>2 DEF Host!Min
    <3> QED
      BY <2>1, <2>3, <3>3 DEF Host!FirstNonBlank
  <2> QED
    BY <2>2, <2>3
<1>3. <<a, b>> \in [1..2 -> Clean]
  OBVIOUS
<1>4. \A c \in Clean : <<a, b, c>> \in [1..3 -> Clean]
  OBVIOUS
<1> QED
  BY <1>2, <1>3, <1>4

LEMMA TextsAreClean ==
  ASSUME NEW e \in Events
  PROVE  Host!ObservationIO(e) \in Clean /\ Host!MessageContent(e) \in Clean /\ e.summary \in Clean
<1>1. e.content \in Clean /\ e.other \in Clean /\ e.summary \in Clean
  BY DEF Events
<1>2. Host!MessageContent(e) \in Clean
  BY <1>1, FirstIsClean DEF Host!MessageContent
<1>3. CASE e.kind \in {"prompt", "response"}
  BY <1>1, <1>2, <1>3, FirstIsClean DEF Host!ObservationIO
<1>4. CASE e.kind = "tool"
  BY <1>1, <1>2, <1>4, FirstIsClean DEF Host!ObservationIO
<1>5. CASE e.kind = "end"
  BY <1>1, <1>2, <1>5, FirstIsClean DEF Host!ObservationIO
<1> QED
  BY <1>2, <1>1, <1>3, <1>4, <1>5 DEF Events

LEMMA AppendTells ==
  ASSUME NEW s \in Seq(ToldRows), NEW e \in ToldRows
  PROVE  /\ Append(s, e) \in Seq(ToldRows)
         /\ \A h : /\ Host!Of(h, s) \subseteq Host!Of(h, Append(s, e))
                   /\ Times(h, s) \in Nat
                   /\ Times(h, Append(s, e)) = IF e.hook = h THEN Times(h, s) + 1 ELSE Times(h, s)
         /\ Host!Of(e.hook, Append(s, e)) # {}
<1>1. Len(s) \in Nat /\ Len(Append(s, e)) = Len(s) + 1 /\ DOMAIN s = 1..Len(s)
      /\ DOMAIN Append(s, e) = 1..(Len(s) + 1) /\ Append(s, e)[Len(s) + 1] = e
      /\ \A i \in 1..Len(s) : Append(s, e)[i] = s[i]
  OBVIOUS
<1>2. PICK n, t : n = Len(s) /\ t = Append(s, e)
  OBVIOUS
<1>3. ASSUME NEW h
      PROVE  /\ Host!Of(h, s) \subseteq Host!Of(h, t)
             /\ Times(h, s) \in Nat
             /\ Times(h, t) = IF e.hook = h THEN Times(h, s) + 1 ELSE Times(h, s)
  <2>1. Host!Of(h, s) = {i \in 1..n : s[i].hook = h} /\ Host!Of(h, t) = {i \in 1..(n + 1) : t[i].hook = h}
    BY <1>1, <1>2 DEF Host!Of
  <2>2. IsFiniteSet(Host!Of(h, s)) /\ n + 1 \notin Host!Of(h, s)
    <3>1. IsFiniteSet(1..n)
      BY <1>1, <1>2, FS_Interval
    <3>2. Host!Of(h, s) \subseteq 1..n /\ n + 1 \notin Host!Of(h, s)
      BY <1>1, <1>2, <2>1
    <3> QED
      BY <3>1, <3>2, FS_Subset
  <2>3. Host!Of(h, t) = IF e.hook = h THEN Host!Of(h, s) \cup {n + 1} ELSE Host!Of(h, s)
    BY <1>1, <1>2, <2>1
  <2>4. Cardinality(Host!Of(h, s) \cup {n + 1}) = Cardinality(Host!Of(h, s)) + 1
    BY <2>2, FS_AddElement
  <2>5. Cardinality(Host!Of(h, s)) \in Nat
    BY <2>2, FS_CardinalityType
  <2> QED
    BY <2>3, <2>4, <2>5 DEF Times
<1>4. Host!Of(e.hook, t) # {}
  BY <1>1, <1>2 DEF Host!Of
<1> QED
  BY <1>1, <1>2, <1>3, <1>4

LEMMA TimesIsNat ==
  ASSUME NEW h \in Host!Hook, NEW s \in Seq(ToldRows)
  PROVE  Times(h, s) \in Nat
<1>1. <<>> \in Clean
  BY DEF Clean
<1>2. [hook |-> h, text |-> <<>>] \in ToldRows
  BY <1>1 DEF ToldRows
<1> QED
  BY <1>2, AppendTells

LEMMA CallsInFlight ==
  ASSUME NEW told, NEW next, NEW c \in Clients, \A d \in Clients \ {c} : next[d] = told[d], NEW h
  PROVE  /\ Cardinality(InFlight(told, h)) \in Nat
         /\ Cardinality(InFlight(next, h)) =
              Cardinality(InFlight(told, h)) + (IF IsTelling(next[c], h) THEN 1 ELSE 0)
                - (IF IsTelling(told[c], h) THEN 1 ELSE 0)
<1>1. PICK F, G : F = InFlight(told, h) /\ G = InFlight(next, h)
  OBVIOUS
<1>2. IsFiniteSet(F) /\ Cardinality(F) \in Nat
  <2>1. F \subseteq Clients
    BY <1>1 DEF InFlight
  <2> QED
    BY <2>1, HookAssumption, FS_Subset, FS_CardinalityType
<1>3. G = IF IsTelling(next[c], h) THEN F \cup {c} ELSE F \ {c}
  BY <1>1 DEF InFlight
<1>4. c \in F <=> IsTelling(told[c], h)
  BY <1>1 DEF InFlight
<1>5. Cardinality(F \cup {c}) = IF c \in F THEN Cardinality(F) ELSE Cardinality(F) + 1
  BY <1>2, FS_AddElement
<1>6. Cardinality(F \ {c}) = IF c \in F THEN Cardinality(F) - 1 ELSE Cardinality(F)
  BY <1>2, FS_RemoveElement
<1>7. Cardinality(G) = Cardinality(F) + (IF IsTelling(next[c], h) THEN 1 ELSE 0) - (IF IsTelling(told[c], h) THEN 1 ELSE 0)
  <2>1. CASE IsTelling(next[c], h) /\ c \in F
    BY <1>2, <1>3, <1>4, <1>5, <2>1
  <2>2. CASE IsTelling(next[c], h) /\ c \notin F
    BY <1>2, <1>3, <1>4, <1>5, <2>2
  <2>3. CASE ~IsTelling(next[c], h)
    BY <1>2, <1>3, <1>4, <1>6, <2>3
  <2> QED
    BY <2>1, <2>2, <2>3
<1> QED
  BY <1>1, <1>2, <1>7

\* A call of a client, but of its next step, is as it was.
LEMMA OtherCallsStay ==
  ASSUME CaptureInv, NEW c \in Clients, NEW k \in CaptureCalls, capture' = [capture EXCEPT ![c] = k],
         \A h : Host!Of(h, observed) \subseteq Host!Of(h, observed'),
         k # Host!Resting =>
           /\ k.event.kind = k.hook.kind
           /\ k.at # "observe" => Host!Of(k.hook, observed') # {}
  PROVE  /\ capture' \in [Clients -> CaptureCalls]
         /\ \A d \in Clients : capture'[d] # Host!Resting =>
              /\ capture'[d].event.kind = capture'[d].hook.kind
              /\ capture'[d].at # "observe" => Host!Of(capture'[d].hook, observed') # {}
<1>1. capture \in [Clients -> CaptureCalls]
  BY DEF CaptureInv
<1>2. capture' \in [Clients -> CaptureCalls] /\ \A d \in Clients : capture'[d] = IF d = c THEN k ELSE capture[d]
  BY <1>1
<1>3. ASSUME NEW d \in Clients, capture'[d] # Host!Resting
      PROVE  /\ capture'[d].event.kind = capture'[d].hook.kind
             /\ capture'[d].at # "observe" => Host!Of(capture'[d].hook, observed') # {}
  <2>1. CASE d = c
    BY <1>2, <1>3, <2>1
  <2>2. CASE d # c
    <3>1. /\ capture[d].event.kind = capture[d].hook.kind
          /\ capture[d].at # "observe" => Host!Of(capture[d].hook, observed) # {}
      BY <1>2, <1>3, <2>2 DEF CaptureInv
    <3> QED
      BY <1>2, <2>2, <3>1
  <2> QED
    BY <2>1, <2>2
<1> QED
  BY <1>2, <1>3

LEMMA RestingTakesNone == Host!Resting \in CaptureCalls /\ \A h : ~IsTelling(Host!Resting, h)
BY DEF CaptureCalls, IsTelling, Host!Resting

LEMMA CaptureHostHookKeeps ==
  ASSUME CaptureInv, NEW c \in Clients, NEW h \in Host!Hook, Host!CaptureHostHook(c, h)
  PROVE  CaptureInv'
<1>1. PICK k : k = [at |-> "observe", hook |-> h, event |-> Host!Filtered(h)]
  OBVIOUS
<1>2. /\ capture' = [capture EXCEPT ![c] = k] /\ capture[c] = Host!Resting
      /\ observed' = observed /\ messages' = messages /\ summary' = summary /\ broken' = broken
  BY <1>1 DEF Host!CaptureHostHook
<1>3. k \in CaptureCalls /\ k.at = "observe" /\ k.event.kind = k.hook.kind
  BY <1>1, FilteredIs DEF CaptureCalls
<1>4. /\ capture' \in [Clients -> CaptureCalls]
      /\ \A d \in Clients : capture'[d] # Host!Resting =>
           /\ capture'[d].event.kind = capture'[d].hook.kind
           /\ capture'[d].at # "observe" => Host!Of(capture'[d].hook, observed') # {}
  BY <1>2, <1>3, OtherCallsStay
<1>5. ASSUME NEW g PROVE Cardinality(InFlight(capture', g)) = Cardinality(InFlight(capture, g))
  <2>1. ~IsTelling(k, g) /\ ~IsTelling(capture[c], g)
    BY <1>2, <1>3, RestingTakesNone DEF IsTelling
  <2>2. capture'[c] = k /\ \A d \in Clients \ {c} : capture'[d] = capture[d]
    BY <1>2 DEF CaptureInv
  <2>3. /\ Cardinality(InFlight(capture, g)) \in Nat
        /\ Cardinality(InFlight(capture', g)) =
             Cardinality(InFlight(capture, g)) + (IF IsTelling(capture'[c], g) THEN 1 ELSE 0)
               - (IF IsTelling(capture[c], g) THEN 1 ELSE 0)
    BY <2>2, CallsInFlight, ZenonT(60)
  <2> QED
    BY <2>1, <2>2, <2>3
<1>6. \A g \in Host!Hook : TellsAll(g)'
  BY <1>2, <1>5 DEF CaptureInv, TellsAll, Times
<1> QED
  BY <1>2, <1>4, <1>6 DEF CaptureInv

LEMMA CallIs ==
  ASSUME CaptureInv, NEW c \in Clients, capture[c] # Host!Resting
  PROVE  /\ capture[c].at \in {"observe", "message", "summary"} /\ capture[c].hook \in Host!Hook
         /\ capture[c].event \in Events
BY DEF CaptureInv, CaptureCalls

LEMMA ObserveHookKeeps ==
  ASSUME CaptureInv, NEW c \in Clients, Host!ObserveHook(c)
  PROVE  CaptureInv'
<1>1. PICK k : k = Host!AfterObserve(capture[c])
  OBVIOUS
<1>2. PICK e : e = [hook |-> capture[c].hook, text |-> Host!Redact(Host!ObservationIO(capture[c].event))]
  OBVIOUS
<1>3. /\ capture' = [capture EXCEPT ![c] = k] /\ capture[c].at = "observe"
      /\ observed' = Append(observed, e) /\ messages' = messages /\ summary' = summary /\ broken' = broken
  BY <1>1, <1>2 DEF Host!ObserveHook, CaptureInv
<1>4. capture[c] # Host!Resting
  BY <1>3 DEF Host!Resting
<1>5. capture[c].hook \in Host!Hook /\ capture[c].event \in Events /\ capture[c].event.kind = capture[c].hook.kind
  BY <1>4, CallIs DEF CaptureInv
<1>6. capture[c] \in [at : {"observe", "message", "summary"}, hook : Host!Hook, event : Events]
  BY <1>4 DEF CaptureInv, CaptureCalls
<1>7. e \in ToldRows /\ e.hook = capture[c].hook
  BY <1>2, <1>5, TextsAreClean, CleanStays DEF ToldRows
<1>8. /\ k \in CaptureCalls
      /\ k = Host!Resting \/ (k.hook = capture[c].hook /\ k.event = capture[c].event)
      /\ k.at = "message" <=> Host!Conversational(capture[c].event)
  <2>1. CASE Host!Conversational(capture[c].event)
    BY <1>1, <1>6, <2>1 DEF Host!AfterObserve, CaptureCalls
  <2>2. CASE ~Host!Conversational(capture[c].event) /\ Host!Summarizes(capture[c].event)
    BY <1>1, <1>6, <2>2 DEF Host!AfterObserve, CaptureCalls
  <2>3. CASE ~Host!Conversational(capture[c].event) /\ ~Host!Summarizes(capture[c].event)
    BY <1>1, <2>3 DEF Host!AfterObserve, CaptureCalls, Host!Resting
  <2> QED
    BY <2>1, <2>2, <2>3
<1>9. Host!Conversational(capture[c].event) <=> Host!Conversational(capture[c].hook)
  BY <1>5 DEF Host!Conversational
<1>10. /\ observed' \in Seq(ToldRows)
       /\ \A h : /\ Host!Of(h, observed) \subseteq Host!Of(h, observed')
                 /\ Times(h, observed) \in Nat
                 /\ Times(h, observed') = IF e.hook = h THEN Times(h, observed) + 1 ELSE Times(h, observed)
       /\ Host!Of(e.hook, observed') # {}
  BY <1>3, <1>7, AppendTells DEF CaptureInv
<1>11. /\ capture' \in [Clients -> CaptureCalls]
       /\ \A d \in Clients : capture'[d] # Host!Resting =>
            /\ capture'[d].event.kind = capture'[d].hook.kind
            /\ capture'[d].at # "observe" => Host!Of(capture'[d].hook, observed') # {}
  <2>1. k # Host!Resting => k.event.kind = k.hook.kind /\ Host!Of(k.hook, observed') # {}
    BY <1>5, <1>7, <1>8, <1>10
  <2>2. \A h : Host!Of(h, observed) \subseteq Host!Of(h, observed')
    BY <1>10
  <2> QED
    BY <1>3, <1>8, <2>1, <2>2, OtherCallsStay
<1>12. ASSUME NEW h \in Host!Hook PROVE TellsAll(h)'
  <2>1. /\ Cardinality(InFlight(capture, h)) \in Nat
        /\ Cardinality(InFlight(capture', h)) = Cardinality(InFlight(capture, h)) + (IF IsTelling(k, h) THEN 1 ELSE 0)
    <3>1. ~IsTelling(capture[c], h)
      BY <1>3 DEF IsTelling
    <3>2. capture'[c] = k /\ \A d \in Clients \ {c} : capture'[d] = capture[d]
      BY <1>3 DEF CaptureInv
    <3>3. /\ Cardinality(InFlight(capture, h)) \in Nat
          /\ Cardinality(InFlight(capture', h)) =
               Cardinality(InFlight(capture, h)) + (IF IsTelling(capture'[c], h) THEN 1 ELSE 0)
                 - (IF IsTelling(capture[c], h) THEN 1 ELSE 0)
      BY <3>2, CallsInFlight, ZenonT(60)
    <3> QED
      BY <3>1, <3>2, <3>3
  <2>2. Times(h, messages) \in Nat
    BY AppendTells, <1>7 DEF CaptureInv
  <2>3. TellsAll(h)
    BY DEF CaptureInv
  <2>4. IsTelling(k, h) <=> capture[c].hook = h /\ Host!Conversational(h)
    BY <1>8, <1>9, RestingTakesNone DEF IsTelling
  <2>5. Times(h, messages)' = Times(h, messages) /\ Times(h, observed)' = IF capture[c].hook = h THEN Times(h, observed) + 1 ELSE Times(h, observed)
    BY <1>3, <1>7, <1>10 DEF Times
  <2>6. Times(h, observed) \in Nat
    BY <1>10
  <2>7. CASE capture[c].hook = h /\ Host!Conversational(h)
    BY <1>3, <2>1, <2>2, <2>3, <2>4, <2>5, <2>6, <2>7 DEF TellsAll
  <2>8. CASE capture[c].hook = h /\ ~Host!Conversational(h)
    BY <1>3, <2>1, <2>2, <2>3, <2>4, <2>5, <2>6, <2>8 DEF TellsAll
  <2>9. CASE capture[c].hook # h
    BY <1>3, <2>1, <2>2, <2>3, <2>4, <2>5, <2>6, <2>9 DEF TellsAll
  <2> QED
    BY <2>7, <2>8, <2>9
<1>13. summary' # Host!NoHook =>
         summary'.hook \in Host!Hook /\ summary'.text \in Clean /\ Host!Of(summary'.hook, observed') # {}
  <2>1. \A h : Host!Of(h, observed) # {} => Host!Of(h, observed') # {}
    BY <1>10
  <2> QED
    BY <1>3, <2>1 DEF CaptureInv
<1> QED
  BY <1>3, <1>10, <1>11, <1>12, <1>13 DEF CaptureInv

\* A call that ends with its message, its summary or an error.
LEMMA CallEnds ==
  ASSUME CaptureInv, NEW c \in Clients, capture[c] # Host!Resting, capture' = [capture EXCEPT ![c] = Host!Resting],
         observed' = observed
  PROVE  /\ capture' \in [Clients -> CaptureCalls]
         /\ \A d \in Clients : capture'[d] # Host!Resting =>
              /\ capture'[d].event.kind = capture'[d].hook.kind
              /\ capture'[d].at # "observe" => Host!Of(capture'[d].hook, observed') # {}
         /\ \A h : /\ Cardinality(InFlight(capture, h)) \in Nat
                   /\ Cardinality(InFlight(capture', h)) =
                        Cardinality(InFlight(capture, h)) - (IF IsTelling(capture[c], h) THEN 1 ELSE 0)
<1>1. /\ capture' \in [Clients -> CaptureCalls]
      /\ \A d \in Clients : capture'[d] # Host!Resting =>
           /\ capture'[d].event.kind = capture'[d].hook.kind
           /\ capture'[d].at # "observe" => Host!Of(capture'[d].hook, observed') # {}
  BY RestingTakesNone, OtherCallsStay
<1>2. \A h : ~IsTelling(Host!Resting, h)
  BY RestingTakesNone
<1>3. ASSUME NEW h
      PROVE  /\ Cardinality(InFlight(capture, h)) \in Nat
             /\ Cardinality(InFlight(capture', h)) =
                  Cardinality(InFlight(capture, h)) - (IF IsTelling(capture[c], h) THEN 1 ELSE 0)
  <2>1. capture'[c] = Host!Resting /\ \A d \in Clients \ {c} : capture'[d] = capture[d]
    BY DEF CaptureInv
  <2>2. /\ Cardinality(InFlight(capture, h)) \in Nat
        /\ Cardinality(InFlight(capture', h)) =
             Cardinality(InFlight(capture, h)) + (IF IsTelling(capture'[c], h) THEN 1 ELSE 0)
               - (IF IsTelling(capture[c], h) THEN 1 ELSE 0)
    BY <2>1, CallsInFlight, ZenonT(60)
  <2> QED
    BY <1>2, <2>1, <2>2
<1> QED
  BY <1>1, <1>3

LEMMA StoreMessageKeeps ==
  ASSUME CaptureInv, NEW c \in Clients, Host!StoreMessage(c)
  PROVE  CaptureInv'
<1>1. PICK e : e = [hook |-> capture[c].hook, text |-> Host!MessageContent(capture[c].event)]
  OBVIOUS
<1>2. /\ capture' = [capture EXCEPT ![c] = Host!Resting] /\ capture[c].at = "message"
      /\ messages' = Append(messages, e) /\ observed' = observed /\ summary' = summary /\ broken' = broken
  BY <1>1 DEF Host!StoreMessage
<1>3. capture[c] # Host!Resting
  BY <1>2 DEF Host!Resting
<1>4. e \in ToldRows /\ e.hook = capture[c].hook
  BY <1>1, <1>3, CallIs, TextsAreClean DEF ToldRows
<1>5. /\ messages' \in Seq(ToldRows)
      /\ \A h : /\ Times(h, messages) \in Nat
                /\ Times(h, messages') = IF e.hook = h THEN Times(h, messages) + 1 ELSE Times(h, messages)
  BY <1>2, <1>4, AppendTells DEF CaptureInv
<1>6. ASSUME NEW h \in Host!Hook PROVE TellsAll(h)'
  <2>1. /\ Cardinality(InFlight(capture, h)) \in Nat
        /\ Cardinality(InFlight(capture', h)) = Cardinality(InFlight(capture, h)) - (IF IsTelling(capture[c], h) THEN 1 ELSE 0)
    BY <1>2, <1>3, CallEnds
  <2>2. IsTelling(capture[c], h) <=> e.hook = h
    BY <1>2, <1>4 DEF IsTelling
  <2>3. Times(h, messages) \in Nat /\ Times(h, messages') = IF e.hook = h THEN Times(h, messages) + 1 ELSE Times(h, messages)
    BY <1>5
  <2>4. TellsAll(h)
    BY DEF CaptureInv
  <2>5. Cardinality(InFlight(capture', h)) + Times(h, messages') = Cardinality(InFlight(capture, h)) + Times(h, messages)
    BY <2>1, <2>2, <2>3
  <2> QED
    BY <1>2, <2>4, <2>5 DEF TellsAll, Times
<1>7. /\ capture' \in [Clients -> CaptureCalls]
      /\ \A d \in Clients : capture'[d] # Host!Resting =>
           /\ capture'[d].event.kind = capture'[d].hook.kind
           /\ capture'[d].at # "observe" => Host!Of(capture'[d].hook, observed') # {}
  BY <1>2, <1>3, CallEnds
<1> QED
  BY <1>2, <1>5, <1>6, <1>7 DEF CaptureInv

LEMMA StoreSummaryKeeps ==
  ASSUME CaptureInv, NEW c \in Clients, Host!StoreSummary(c)
  PROVE  CaptureInv'
<1>1. PICK s : s = [kind |-> "host", hook |-> capture[c].hook, text |-> capture[c].event.summary]
  OBVIOUS
<1>2. /\ capture' = [capture EXCEPT ![c] = Host!Resting] /\ capture[c].at = "summary"
      /\ messages' = messages /\ observed' = observed /\ summary' = s /\ broken' = broken
  BY <1>1 DEF Host!StoreSummary
<1>3. capture[c] # Host!Resting
  BY <1>2 DEF Host!Resting
<1>4. s.hook \in Host!Hook /\ s.text \in Clean /\ Host!Of(s.hook, observed) # {}
  BY <1>1, <1>2, <1>3, CallIs, TextsAreClean DEF CaptureInv
<1>5. ASSUME NEW h \in Host!Hook PROVE TellsAll(h)'
  <2>1. /\ Cardinality(InFlight(capture, h)) \in Nat
        /\ Cardinality(InFlight(capture', h)) = Cardinality(InFlight(capture, h)) - (IF IsTelling(capture[c], h) THEN 1 ELSE 0)
    BY <1>2, <1>3, CallEnds
  <2>2. Cardinality(InFlight(capture', h)) = Cardinality(InFlight(capture, h))
    BY <1>2, <2>1 DEF IsTelling
  <2>3. TellsAll(h)
    BY DEF CaptureInv
  <2> QED
    BY <1>2, <2>2, <2>3 DEF TellsAll, Times
<1>6. /\ capture' \in [Clients -> CaptureCalls]
      /\ \A d \in Clients : capture'[d] # Host!Resting =>
           /\ capture'[d].event.kind = capture'[d].hook.kind
           /\ capture'[d].at # "observe" => Host!Of(capture'[d].hook, observed') # {}
  BY <1>2, <1>3, CallEnds
<1> QED
  BY <1>2, <1>4, <1>5, <1>6 DEF CaptureInv

LEMMA CaptureFailsKeeps ==
  ASSUME CaptureInv, NEW c \in Clients, Host!CaptureFails(c)
  PROVE  CaptureInv'
<1>1. /\ capture' = [capture EXCEPT ![c] = Host!Resting] /\ capture[c] # Host!Resting
      /\ messages' = messages /\ observed' = observed /\ summary' = summary
      /\ broken' = IF capture[c].at = "observe" THEN broken ELSE broken \cup {capture[c].hook}
  BY DEF Host!CaptureFails
<1>2. ASSUME NEW h \in Host!Hook PROVE TellsAll(h)'
  <2>1. /\ Cardinality(InFlight(capture, h)) \in Nat
        /\ Cardinality(InFlight(capture', h)) = Cardinality(InFlight(capture, h)) - (IF IsTelling(capture[c], h) THEN 1 ELSE 0)
    BY <1>1, CallEnds
  <2>2. IsTelling(capture[c], h) => h \in broken'
    BY <1>1 DEF IsTelling
  <2>3. TellsAll(h) /\ broken \subseteq broken'
    BY <1>1 DEF CaptureInv
  <2>4. Times(h, messages) \in Nat /\ Times(h, observed) \in Nat
    BY TimesIsNat DEF CaptureInv
  <2>5. Times(h, messages)' = Times(h, messages) /\ Times(h, observed)' = Times(h, observed)
    BY <1>1 DEF Times
  <2>6. CASE IsTelling(capture[c], h)
    BY <2>1, <2>2, <2>3, <2>4, <2>5, <2>6 DEF TellsAll
  <2>7. CASE ~IsTelling(capture[c], h)
    BY <2>1, <2>3, <2>4, <2>5, <2>7 DEF TellsAll
  <2> QED
    BY <2>6, <2>7
<1>3. /\ capture' \in [Clients -> CaptureCalls]
      /\ \A d \in Clients : capture'[d] # Host!Resting =>
           /\ capture'[d].event.kind = capture'[d].hook.kind
           /\ capture'[d].at # "observe" => Host!Of(capture'[d].hook, observed') # {}
  BY <1>1, CallEnds
<1> QED
  BY <1>1, <1>2, <1>3 DEF CaptureInv

LEMMA CaptureInvInductive ==
  ASSUME CaptureInv, Host!HookNext \/ UNCHANGED <<observed, messages, summary, capture, broken>>
  PROVE  CaptureInv'
<1>1. CASE UNCHANGED <<observed, messages, summary, capture, broken>>
  BY <1>1 DEF CaptureInv, TellsAll, Times, InFlight, IsTelling
<1> QED
  BY <1>1, CaptureHostHookKeeps, ObserveHookKeeps, StoreMessageKeeps, StoreSummaryKeeps, CaptureFailsKeeps
  DEF Host!HookNext

LEMMA CaptureInvInit ==
  ASSUME Host!HookInit
  PROVE  CaptureInv
<1>1. /\ observed = <<>> /\ messages = <<>> /\ summary = Host!NoHook
      /\ capture = [c \in Clients |-> Host!Resting]
  BY DEF Host!HookInit
<1>2. ASSUME NEW h \in Host!Hook PROVE TellsAll(h)
  <2>1. InFlight(capture, h) = {}
    BY <1>1, RestingTakesNone DEF InFlight
  <2>2. Host!Of(h, observed) = {} /\ Host!Of(h, messages) = {}
    BY <1>1 DEF Host!Of
  <2>3. Cardinality({}) = 0
    BY FS_EmptySet
  <2> QED
    BY <2>1, <2>2, <2>3 DEF TellsAll, Times
<1>3. capture \in [Clients -> CaptureCalls] /\ \A c \in Clients : capture[c] = Host!Resting
  BY <1>1, RestingTakesNone
<1> QED
  BY <1>1, <1>2, <1>3 DEF CaptureInv

LEMMA CapturesAgreeAll == CaptureInv => Host!CapturesAgree
<1> SUFFICES ASSUME CaptureInv PROVE Host!CapturesAgree
  OBVIOUS
<1>1. ASSUME NEW s \in {observed, messages}, NEW i \in DOMAIN s
      PROVE  ~Host!Leaks(s[i].text, s[i].hook) /\ s[i].hook \in Host!Hook
  <2>1. s[i] \in ToldRows
    BY DEF CaptureInv
  <2> QED
    BY <2>1, CleanDontLeak DEF ToldRows
<1>2. summary # Host!NoHook => ~Host!Leaks(summary.text, summary.hook) /\ Host!Of(summary.hook, observed) # {}
  BY CleanDontLeak DEF CaptureInv
<1>3. ASSUME NEW h \in Host!Hook
      PROVE  /\ Times(h, messages) <= Times(h, observed)
             /\ Host!Conversational(h) /\ h \notin broken /\ ~Host!Running(h) => Times(h, messages) = Times(h, observed)
  <2>1. TellsAll(h)
    BY DEF CaptureInv
  <2>2. Cardinality(InFlight(capture, h)) \in Nat /\ Times(h, messages) \in Nat /\ Times(h, observed) \in Nat
    <3>4. PICK c : c \in Clients
      BY HookAssumption
    <3> QED
      BY <3>4, TimesIsNat, CallsInFlight DEF CaptureInv
  <2>3. ~Host!Running(h) => InFlight(capture, h) = {}
    BY RestingTakesNone DEF Host!Running, InFlight, IsTelling
  <2>4. Cardinality({}) = 0
    BY FS_EmptySet
  <2>5. Times(h, messages) <= Times(h, observed)
    BY <2>1, <2>2 DEF TellsAll
  <2>6. ASSUME Host!Conversational(h), h \notin broken, ~Host!Running(h)
        PROVE  Times(h, messages) = Times(h, observed)
    <3>1. Cardinality(InFlight(capture, h)) = 0
      BY <2>3, <2>4, <2>6
    <3> QED
      BY <2>1, <2>2, <2>6, <3>1 DEF TellsAll
  <2> QED
    BY <2>5, <2>6
<1>4. \A h : Host!Cardinality(Host!Of(h, messages)) = Times(h, messages)
             /\ Host!Cardinality(Host!Of(h, observed)) = Times(h, observed)
  BY DEF Host!Cardinality, Cardinality, Times
<1>5. \A h \in {observed[i].hook : i \in DOMAIN observed} \cup {messages[i].hook : i \in DOMAIN messages} : h \in Host!Hook
  BY <1>1
<1> QED
  BY <1>1, <1>2, <1>3, <1>4, <1>5 DEF Host!CapturesAgree

LEMMA CaptureStep ==
  ASSUME Next
  PROVE  Host!HookNext \/ UNCHANGED <<observed, messages, summary, capture, broken>>
BY DEF Next, captureVars

\* A hook that is captured leaves nothing of a private passage in the log, in its session or
\* in a summary, and a prompt or an answer is told in the session as often as it was observed,
\* but for calls that failed or that are still at work (hook_capture.go:143-225), whatever the
\* other stores do.
THEOREM CapturesTellTheirHooks == Spec => []CapturesAgree
<1>1. Init => CaptureInv
  BY CaptureInvInit DEF Init
<1>2. CaptureInv /\ [Next]_vars => CaptureInv'
  <2> SUFFICES ASSUME CaptureInv, [Next]_vars PROVE CaptureInv'
    OBVIOUS
  <2>1. CASE Next
    BY <2>1, CaptureStep, CaptureInvInductive
  <2>2. CASE UNCHANGED vars
    BY <2>2, CaptureInvInductive DEF vars, captureVars
  <2> QED
    BY <2>1, <2>2
<1>3. CaptureInv => CapturesAgree
  BY CapturesAgreeAll DEF CapturesAgree
<1> QED
  BY <1>1, <1>2, <1>3, PTL DEF Spec

=============================================================================
