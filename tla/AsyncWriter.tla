---------------------------- MODULE AsyncWriter ----------------------------
(***************************************************************************)
(* internal/pluginruntime/asyncwrite/writer.go: sessions are queued or     *)
(* cached under a lock, and FlushAll copies both, saves the copies without *)
(* the lock and takes the lock again to put back what failed.              *)
(***************************************************************************)
EXTENDS Integers, Sequences, FiniteSets, SequencesExt, FiniteSetTheorems, SequenceTheorems, TLAPS

CONSTANTS
  Flushers,             \* goroutines calling FlushAll or Shutdown
  Queueable, Cacheable, \* the sessions handed to Enqueue and to Cache, once each
  KeyOf                 \* a session's key

VARIABLES
  queue, cache, closed,
  flush,                \* the FlushAll of each flusher
  stored,               \* the sessions the flusher saved from the queue, in order
  storedCached,         \* and those it saved from the cache
  accepted,             \* history: sessions taken by Enqueue or Cache, in order
  raced,                \* history: cached while a flush held their key
  refused,              \* history: sessions whose save failed twice in a flush
  overlapped            \* history: two flushes have run at the same time

vars == <<queue, cache, closed, flush, stored, storedCached, accepted, raced, refused, overlapped>>

Sessions == Queueable \cup Cacheable
Keys == {KeyOf[s] : s \in Cacheable}
NoSession == "none"

\* items: yet to save, queued (the length of the queued part) first.
Idle == [pc |-> "idle", items |-> <<>>, queued |-> 0, keys |-> {},
         failedQueue |-> <<>>, failedCache |-> {}]

\* A session is saved at most once per flush.
Flush == [pc : {"idle", "flush", "shutdown", "close"}, items : Seq(Sessions), queued : Nat,
          keys : SUBSET Keys, failedQueue : Seq(Queueable), failedCache : SUBSET Cacheable]

TypeOK ==
  /\ queue \in Seq(Queueable)
  /\ cache \in [Keys -> Cacheable \cup {NoSession}]
  /\ closed \in BOOLEAN
  /\ flush \in [Flushers -> Flush]
  /\ \A f \in Flushers : flush[f].queued <= Len(flush[f].items)
  /\ stored \in Seq(Queueable) /\ storedCached \subseteq Cacheable
  /\ accepted \in Seq(Sessions)
  /\ raced \subseteq Cacheable /\ refused \subseteq Sessions
  /\ overlapped \in BOOLEAN

Init ==
  /\ queue = <<>> /\ cache = [k \in Keys |-> NoSession] /\ closed = FALSE
  /\ flush = [f \in Flushers |-> Idle]
  /\ stored = <<>> /\ storedCached = {} /\ accepted = <<>> /\ raced = {} /\ refused = {} /\ overlapped = FALSE

-----------------------------------------------------------------------------
\* Enqueue and Cache, under the lock.

Enqueue(s) ==
  /\ ~Contains(accepted, s) /\ ~closed
  /\ queue' = Append(queue, s)
  /\ accepted' = Append(accepted, s)
  /\ UNCHANGED <<cache, closed, flush, stored, storedCached, raced, refused, overlapped>>

\* Cache does not look at closed.
Cache(s) ==
  /\ ~Contains(accepted, s)
  /\ cache' = [cache EXCEPT ![KeyOf[s]] = s]
  /\ accepted' = Append(accepted, s)
  /\ raced' = raced \cup {t \in {s} : \E f \in Flushers : KeyOf[s] \in flush[f].keys}
  /\ UNCHANGED <<queue, closed, flush, stored, storedCached, refused, overlapped>>

-----------------------------------------------------------------------------
\* FlushAll

Cached == {cache[k] : k \in Keys} \ {NoSession}

\* Mutant: the copied queue is left in place.
LeaveQueue == queue
TakenQueue == <<>>

\* Under the lock: copy the queue, empty it, copy the cache in map order.
Copy(f, pc) ==
  /\ flush[f] = Idle
  /\ \E order \in SetToSeqs(Cached) :
       flush' = [flush EXCEPT ![f] =
         [pc |-> pc, items |-> queue \o order, queued |-> Len(queue),
          keys |-> {KeyOf[s] : s \in Cached}, failedQueue |-> <<>>, failedCache |-> {}]]
  /\ queue' = TakenQueue
  /\ overlapped' = (overlapped \/ \E g \in Flushers \ {f} : flush[g] # Idle)
  /\ UNCHANGED <<cache, closed, stored, storedCached, accepted, raced, refused>>

Advance(w) == [w EXCEPT !.items = Tail(@), !.queued = IF @ > 0 THEN @ - 1 ELSE 0]

IsQueued(w) == w.queued > 0

\* flushWithRetry saves the next copy, at the first or the second attempt.
Save(f) ==
  LET w == flush[f]  s == Head(w.items) IN
  /\ w.pc \in {"flush", "shutdown"} /\ w.items # <<>>
  /\ flush' = [flush EXCEPT ![f] = Advance(w)]
  /\ IF w.queued > 0 THEN stored' = Append(stored, s) /\ UNCHANGED storedCached
                     ELSE storedCached' = storedCached \cup {s} /\ UNCHANGED stored
  /\ UNCHANGED <<queue, cache, closed, accepted, raced, refused, overlapped>>

\* Both attempts fail.
FailTwice(f) ==
  LET w == flush[f]  s == Head(w.items) IN
  /\ w.pc \in {"flush", "shutdown"} /\ w.items # <<>>
  /\ flush' = [flush EXCEPT ![f] =
       IF IsQueued(w) THEN [Advance(w) EXCEPT !.failedQueue = Append(@, s)]
                      ELSE [Advance(w) EXCEPT !.failedCache = @ \cup {s}]]
  /\ refused' = refused \cup {s}
  /\ UNCHANGED <<queue, cache, closed, stored, storedCached, accepted, raced, overlapped>>

\* Mutant: the failed sessions go behind those queued since.
BehindNew(w) == queue \o w.failedQueue
RequeuedFirst(w) == w.failedQueue \o queue

\* Mutant: a failed cached session is not put back.
DropFailed(w) == [k \in Keys |-> IF k \in w.keys THEN NoSession ELSE cache[k]]
Restored(w) ==
  [k \in Keys |-> IF \E s \in w.failedCache : KeyOf[s] = k
                  THEN CHOOSE s \in w.failedCache : KeyOf[s] = k
                  ELSE IF k \in w.keys THEN NoSession ELSE cache[k]]

\* Under the lock again: what failed goes back, the copied keys go.
PutBack(f) ==
  LET w == flush[f] IN
  /\ w.pc \in {"flush", "shutdown"} /\ w.items = <<>>
  /\ queue' = RequeuedFirst(w)
  /\ cache' = Restored(w)
  /\ flush' = [flush EXCEPT ![f] = IF w.pc = "flush" THEN Idle ELSE [Idle EXCEPT !.pc = "close"]]
  /\ UNCHANGED <<closed, stored, storedCached, accepted, raced, refused, overlapped>>

\* Shutdown takes the lock once more after its FlushAll.
Close(f) ==
  /\ flush[f].pc = "close"
  /\ closed' = TRUE
  /\ flush' = [flush EXCEPT ![f] = Idle]
  /\ UNCHANGED <<queue, cache, stored, storedCached, accepted, raced, refused, overlapped>>

Next ==
  \/ \E s \in Queueable : Enqueue(s)
  \/ \E s \in Cacheable : Cache(s)
  \/ \E f \in Flushers : \/ \E pc \in {"flush", "shutdown"} : Copy(f, pc)
                         \/ Save(f) \/ FailTwice(f) \/ PutBack(f) \/ Close(f)

Spec == Init /\ [][Next]_vars

-----------------------------------------------------------------------------
\* Properties

Held(f) == ToSet(flush[f].items) \cup ToSet(flush[f].failedQueue) \cup flush[f].failedCache
InHand == UNION {Held(f) : f \in Flushers}
Pending == ToSet(queue) \cup Cached

\* Every accepted queue session is in exactly one place: queued, in one
\* flush, or saved; concurrent flushes neither lose nor repeat it (FlushAll,
\* writer.go:63-64 and 89-91).
QueueExactlyOnce ==
  \A s \in Queueable : Contains(accepted, s) =>
    1 = Cardinality({i \in DOMAIN queue : queue[i] = s})
        + Cardinality({f \in Flushers : s \in Held(f)})
        + Cardinality({i \in DOMAIN stored : stored[i] = s})

\* The cached sessions no newer one of their key replaced.
Newest == {s \in Cacheable : \E i \in DOMAIN accepted :
             /\ accepted[i] = s
             /\ \A j \in DOMAIN accepted :
                  j > i /\ accepted[j] \in Cacheable => KeyOf[accepted[j]] # KeyOf[s]}

\* The newest cached session of a key is still pending or saved, unless it
\* was cached while a flush held its key (writer.go:92-97).
CacheLossNeedsRace ==
  Newest \ raced \subseteq Pending \cup InHand \cup storedCached

\* x comes before y in a sequence without repetitions.
Before(x, y, line) == \E m, n \in DOMAIN line : m < n /\ line[m] = x /\ line[n] = y

\* What f still has to save of the queue, and then the queue itself.
Line(f) ==
  flush[f].failedQueue \o SubSeq(flush[f].items, 1, flush[f].queued) \o queue

\* While flushes do not overlap the queue sessions wait in the order they were accepted,
\* retries included, and are saved in that order except past a failed one
\* (TestPluginAsyncWriterFlushesQueuedSessionsFIFO, plugins/async_write_test.go:32).
FifoPastFailures ==
  ~overlapped => \A i, j \in DOMAIN accepted : \A f \in Flushers :
    LET s == accepted[i]  t == accepted[j] IN
    i < j /\ {s, t} \subseteq Queueable =>
      /\ ~Before(t, s, Line(f))
      /\ Before(t, s, stored) => s \in refused
      /\ Contains(stored, t) => s \in refused \/ Contains(stored, s)

\* "want failed write retained" (write_test.go:61): the newest session of a
\* key whose save failed is still pending, in a flush, or saved since.
FailedWriteRetained ==
  Newest \cap refused \subseteq Pending \cup InHand \cup storedCached
-----------------------------------------------------------------------------
\* Proofs

\* A session is handed to Enqueue or to Cache, and is not the mark of an empty place.
SessionsDiffer == Queueable \cap Cacheable = {} /\ NoSession \notin Cacheable

\* What a flush holds of the cache and of the queue, yet to save or failed
CachedItems(w) == {w.items[i] : i \in w.queued + 1 .. Len(w.items)}
CachedPart(w) == CachedItems(w) \cup w.failedCache
QueuedItems(w) == {w.items[i] : i \in 1 .. w.queued}
QueuedPart(w) == QueuedItems(w) \cup ToSet(w.failedQueue)

\* A flush has its queued items first, and holds nothing before and after; what it holds
\* of the cache is of a key it took.
FlushShape ==
  \A f \in Flushers : LET w == flush[f] IN
    /\ \A i \in 1 .. Len(w.items) :
         w.items[i] \in IF i <= w.queued THEN Queueable ELSE Cacheable
    /\ w.pc \in {"idle", "close"} => w = [Idle EXCEPT !.pc = w.pc]
    /\ \A s \in CachedPart(w) : KeyOf[s] \in w.keys

Accepted(s) == \E i \in DOMAIN accepted : accepted[i] = s

\* The cache has sessions that were accepted, under their keys, and so have the flushes.
CacheShape ==
  /\ \A k \in Keys : cache[k] # NoSession => KeyOf[cache[k]] = k /\ Accepted(cache[k])
  /\ \A f \in Flushers : \A s \in CachedPart(flush[f]) : Accepted(s)

WriterShape == TypeOK /\ FlushShape /\ CacheShape

LEMMA CachedFinite == ASSUME TypeOK, CacheShape PROVE IsFiniteSet(Cached)
<1> DEFINE S == {accepted[i] : i \in DOMAIN accepted}
<1>1. DOMAIN accepted = 1 .. Len(accepted) /\ Len(accepted) \in Nat
  BY DEF TypeOK
<1>2. accepted \in Surjection(DOMAIN accepted, S)
  <2>1. accepted \in [DOMAIN accepted -> S]
    BY <1>1 DEF TypeOK
  <2> QED
    BY <2>1 DEF Surjection
<1>3. IsFiniteSet(S)
  BY <1>1, <1>2, FS_Interval, FS_Surjection
<1>4. Cached \subseteq S
  BY DEF Cached, CacheShape, Accepted
<1> QED
  BY <1>3, <1>4, FS_Subset

\* The order of a copy has every session of the cache, each once.
LEMMA OrderCovers ==
  ASSUME NEW S, IsFiniteSet(S), NEW order \in SetToSeqs(S)
  PROVE  order \in Seq(S) /\ S = {order[i] : i \in 1 .. Len(order)}
<1>1. Cardinality(S) \in Nat /\ order \in [1 .. Cardinality(S) -> S]
  BY FS_CardinalityType DEF SetToSeqs
<1>2. order \in Seq(S) /\ Len(order) = Cardinality(S)
  BY <1>1
<1>3. order \in Injection(1 .. Cardinality(S), S)
  BY <1>1 DEF SetToSeqs, Injection, IsInjective
<1>4. IsFiniteSet(1 .. Cardinality(S)) /\ Cardinality(1 .. Cardinality(S)) = Cardinality(S)
  BY <1>1, FS_Interval
<1>5. order \in Surjection(1 .. Cardinality(S), S)
  BY <1>3, <1>4, FS_Injection
<1> QED
  BY <1>1, <1>2, <1>5 DEF Surjection

LEMMA Advances ==
  ASSUME NEW w \in Flush, w.items # <<>>, w.queued <= Len(w.items), NEW v, v = Advance(w)
  PROVE  /\ v \in Flush
         /\ Len(v.items) = Len(w.items) - 1 /\ Head(w.items) = w.items[1] /\ Len(w.items) > 0
         /\ \A i \in 1 .. Len(v.items) : v.items[i] = w.items[i + 1]
         /\ v.queued = (IF w.queued > 0 THEN w.queued - 1 ELSE 0) /\ v.queued <= Len(v.items)
         /\ v.pc = w.pc /\ v.keys = w.keys
         /\ v.failedQueue = w.failedQueue /\ v.failedCache = w.failedCache
<1>1. /\ w.items \in Seq(Sessions) /\ w.queued \in Nat /\ w.keys \in SUBSET Keys
      /\ w.pc \in {"idle", "flush", "shutdown", "close"}
      /\ w.failedQueue \in Seq(Queueable) /\ w.failedCache \in SUBSET Cacheable
  BY DEF Flush
<1>2. /\ v.items = Tail(w.items) /\ v.queued = (IF w.queued > 0 THEN w.queued - 1 ELSE 0)
      /\ v.pc = w.pc /\ v.keys = w.keys
      /\ v.failedQueue = w.failedQueue /\ v.failedCache = w.failedCache
  BY DEF Flush, Advance
<1>3. /\ Tail(w.items) \in Seq(Sessions) /\ (IF w.queued > 0 THEN w.queued - 1 ELSE 0) \in Nat
      /\ Len(Tail(w.items)) = Len(w.items) - 1 /\ Len(w.items) > 0
      /\ \A i \in 1 .. Len(Tail(w.items)) : Tail(w.items)[i] = w.items[i + 1]
      /\ Head(w.items) = w.items[1]
      /\ (IF w.queued > 0 THEN w.queued - 1 ELSE 0) <= Len(w.items) - 1
  BY <1>1
<1>4. v \in Flush
  BY <1>1, <1>3 DEF Flush, Advance
<1> QED
  BY <1>2, <1>3, <1>4

\* A saved or failed item leaves the rest of its part where it was.
LEMMA AdvanceParts ==
  ASSUME NEW w \in Flush, w.items # <<>>, w.queued <= Len(w.items), NEW v, v = Advance(w)
  PROVE  /\ w.queued > 0 => CachedPart(v) = CachedPart(w)
         /\ w.queued = 0 => CachedPart(w) = CachedPart(v) \cup {Head(w.items)}
         /\ w.queued = 0 => Head(w.items) \in CachedPart(w)
<1>1. w.queued \in Nat /\ Len(w.items) \in Nat
  BY DEF Flush
<1>2. /\ Len(v.items) = Len(w.items) - 1 /\ Head(w.items) = w.items[1] /\ Len(w.items) > 0
      /\ \A i \in 1 .. Len(v.items) : v.items[i] = w.items[i + 1]
      /\ v.queued = (IF w.queued > 0 THEN w.queued - 1 ELSE 0)
      /\ v.failedCache = w.failedCache
  BY Advances
<1>3. CASE w.queued > 0
  <2>1. CachedItems(v) = CachedItems(w)
    <3>1. ASSUME NEW i \in v.queued + 1 .. Len(v.items)
          PROVE  v.items[i] = w.items[i + 1] /\ i + 1 \in w.queued + 1 .. Len(w.items)
      BY <1>1, <1>2, <1>3, <3>1
    <3>2. ASSUME NEW i \in w.queued + 1 .. Len(w.items)
          PROVE  v.items[i - 1] = w.items[i] /\ i - 1 \in v.queued + 1 .. Len(v.items)
      BY <1>1, <1>2, <1>3, <3>2
    <3> QED
      BY SMTT(30), <3>1, <3>2 DEF CachedItems
  <2> QED
    BY <2>1, <1>2, <1>3 DEF CachedPart
<1>4. CASE w.queued = 0
  <2>1. CachedItems(w) = CachedItems(v) \cup {w.items[1]}
    <3>1. ASSUME NEW i \in v.queued + 1 .. Len(v.items)
          PROVE  v.items[i] = w.items[i + 1] /\ i + 1 \in w.queued + 1 .. Len(w.items)
      BY <1>1, <1>2, <1>4, <3>1
    <3>2. ASSUME NEW i \in w.queued + 1 .. Len(w.items), i # 1
          PROVE  v.items[i - 1] = w.items[i] /\ i - 1 \in v.queued + 1 .. Len(v.items)
      BY <1>1, <1>2, <1>4, <3>2
    <3>3. 1 \in w.queued + 1 .. Len(w.items)
      BY <1>1, <1>2, <1>4
    <3> QED
      BY <3>1, <3>2, <3>3 DEF CachedItems
  <2> QED
    BY <2>1, <1>2, <1>4 DEF CachedPart
<1> QED
  BY <1>1, <1>3, <1>4

\* What a flush takes: the queue in its order, and every session of the cache.
LEMMA Takes ==
  ASSUME TypeOK, CacheShape, NEW f \in Flushers, NEW pc \in {"flush", "shutdown"}, Copy(f, pc)
  PROVE  \E v \in Flush :
           /\ flush[f] = Idle /\ flush' = [flush EXCEPT ![f] = v]
           /\ v.pc = pc /\ v.queued = Len(queue) /\ v.queued <= Len(v.items)
           /\ \A i \in 1 .. Len(queue) : v.items[i] = queue[i]
           /\ \A i \in 1 .. Len(v.items) : i > Len(queue) => v.items[i] \in Cached
           /\ CachedPart(v) = Cached /\ v.keys = {KeyOf[s] : s \in Cached}
           /\ v.failedQueue = <<>> /\ v.failedCache = {}
<1>1. PICK order \in SetToSeqs(Cached) :
        flush' = [flush EXCEPT ![f] =
          [pc |-> pc, items |-> queue \o order, queued |-> Len(queue),
           keys |-> {KeyOf[s] : s \in Cached}, failedQueue |-> <<>>, failedCache |-> {}]]
  BY DEF Copy
<1>2. order \in Seq(Cached) /\ Cached = {order[i] : i \in 1 .. Len(order)}
  BY <1>1, CachedFinite, OrderCovers
<1>3. Cached \subseteq Cacheable
  BY DEF Cached, TypeOK
<1> DEFINE taken == queue \o order
           held == {KeyOf[s] : s \in Cached}
           v == [pc |-> pc, items |-> taken, queued |-> Len(queue), keys |-> held,
                 failedQueue |-> <<>>, failedCache |-> {}]
<1>4. flush' = [flush EXCEPT ![f] = v]
  BY <1>1
<1>5. queue \in Seq(Queueable)
  BY DEF TypeOK
<1>6. held \subseteq Keys
  BY <1>3 DEF Keys
<1> HIDE DEF held
<1>7. /\ taken \in Seq(Sessions) /\ Len(taken) = Len(queue) + Len(order)
      /\ \A i \in 1 .. Len(queue) : taken[i] = queue[i]
      /\ \A i \in 1 .. Len(taken) : i > Len(queue) => taken[i] = order[i - Len(queue)]
      /\ \A i \in 1 .. Len(order) : taken[i + Len(queue)] = order[i]
      /\ Len(queue) \in Nat /\ Len(order) \in Nat
  <2>1. queue \in Seq(Sessions) /\ order \in Seq(Sessions)
    BY <1>2, <1>3, <1>5 DEF Sessions
  <2> QED
    BY <2>1
<1> HIDE DEF taken
<1>8. v \in Flush
  BY <1>6, <1>7 DEF Flush
<1>9. \A i \in 1 .. Len(taken) : i > Len(queue) => taken[i] \in Cached
  <2>1. ASSUME NEW i \in 1 .. Len(taken), i > Len(queue) PROVE taken[i] \in Cached
    <3>1. taken[i] = order[i - Len(queue)] /\ i - Len(queue) \in 1 .. Len(order)
      BY <1>7, <2>1
    <3> QED
      BY <1>2, <3>1
  <2> QED
    BY <2>1
<1>10. CachedPart(v) = Cached
  <2>1. ASSUME NEW s \in CachedItems(v) PROVE s \in Cached
    <3>1. PICK i \in Len(queue) + 1 .. Len(taken) : s = taken[i]
      BY <2>1 DEF CachedItems
    <3>2. i \in 1 .. Len(taken) /\ i > Len(queue)
      BY <1>7
    <3> QED
      BY <1>9, <3>1, <3>2
  <2>2. ASSUME NEW s \in Cached PROVE s \in CachedItems(v)
    <3>1. PICK i \in 1 .. Len(order) : s = order[i]
      BY <1>2
    <3>2. i + Len(queue) \in Len(queue) + 1 .. Len(taken) /\ taken[i + Len(queue)] = s
      BY <3>1, <1>7
    <3> QED
      BY <3>2 DEF CachedItems
  <2> QED
    BY <2>1, <2>2 DEF CachedPart
<1>11. flush[f] = Idle /\ v.keys = {KeyOf[s] : s \in Cached}
  BY DEF Copy, held
<1>12. v.queued <= Len(v.items)
  BY <1>7
<1> HIDE DEF v
<1>13. /\ v.pc = pc /\ v.items = taken /\ v.queued = Len(queue)
       /\ v.failedQueue = <<>> /\ v.failedCache = {}
  BY DEF v
<1> QED
  BY <1>4, <1>7, <1>8, <1>10, <1>9, <1>11, <1>12, <1>13

\* The flush after a save and after a failure
LEMMA Saves ==
  ASSUME TypeOK, NEW f \in Flushers, Save(f)
  PROVE  /\ flush[f] \in Flush /\ flush[f].items # <<>> /\ flush[f].queued <= Len(flush[f].items)
         /\ flush[f].pc \in {"flush", "shutdown"}
         /\ flush' = [flush EXCEPT ![f] = Advance(flush[f])]
BY DEF Save, TypeOK

Failed(w) == IF w.queued > 0 THEN [Advance(w) EXCEPT !.failedQueue = Append(@, Head(w.items))]
                             ELSE [Advance(w) EXCEPT !.failedCache = @ \cup {Head(w.items)}]

LEMMA Fails ==
  ASSUME TypeOK, FlushShape, NEW f \in Flushers, FailTwice(f)
  PROVE  \E u \in Flush, v \in Flush : LET w == flush[f]  s == Head(w.items) IN
           /\ w \in Flush /\ w.items # <<>> /\ w.queued <= Len(w.items)
           /\ w.pc \in {"flush", "shutdown"} /\ u = Advance(w)
           /\ flush' = [flush EXCEPT ![f] = v]
           /\ v.items = u.items /\ v.queued = u.queued /\ v.pc = w.pc /\ v.keys = w.keys
           /\ v.failedQueue = (IF w.queued > 0 THEN Append(w.failedQueue, s) ELSE w.failedQueue)
           /\ v.failedCache = (IF w.queued > 0 THEN w.failedCache ELSE w.failedCache \cup {s})
           /\ CachedPart(v) = CachedPart(w)
<1> DEFINE w == flush[f]
           s == Head(w.items)
           u == Advance(w)
           v == Failed(w)
<1>1. /\ w \in Flush /\ w.items # <<>> /\ w.queued <= Len(w.items) /\ w.pc \in {"flush", "shutdown"}
      /\ flush' = [flush EXCEPT ![f] = v]
  BY DEF FailTwice, TypeOK, IsQueued, Failed
<1>2. /\ u \in Flush /\ u.pc = w.pc /\ u.keys = w.keys /\ u.failedQueue = w.failedQueue
      /\ u.failedCache = w.failedCache /\ s = w.items[1] /\ Len(w.items) > 0
  BY <1>1, Advances
<1>3. s \in IF w.queued > 0 THEN Queueable ELSE Cacheable
  <2>1. 1 \in 1 .. Len(w.items) /\ w.queued \in Nat
    BY <1>1, <1>2 DEF Flush
  <2>2. w.items[1] \in IF 1 <= w.queued THEN Queueable ELSE Cacheable
    BY <2>1 DEF FlushShape
  <2> QED
    BY <2>1, <2>2, <1>2
<1>4. /\ w.queued > 0 => CachedPart(u) = CachedPart(w)
      /\ w.queued = 0 => CachedPart(w) = CachedPart(u) \cup {s}
  BY <1>1, AdvanceParts
<1> HIDE DEF u, s, w
<1>5. v = IF w.queued > 0 THEN [u EXCEPT !.failedQueue = Append(w.failedQueue, s)]
                          ELSE [u EXCEPT !.failedCache = w.failedCache \cup {s}]
  BY <1>2 DEF Failed, u, s
<1> HIDE DEF v
<1>6. w.failedQueue \in Seq(Queueable) /\ w.failedCache \in SUBSET Cacheable /\ w.queued \in Nat
  BY <1>1 DEF Flush
<1>7. /\ v \in Flush /\ v.items = u.items /\ v.queued = u.queued /\ v.pc = w.pc /\ v.keys = w.keys
      /\ v.failedQueue = (IF w.queued > 0 THEN Append(w.failedQueue, s) ELSE w.failedQueue)
      /\ v.failedCache = (IF w.queued > 0 THEN w.failedCache ELSE w.failedCache \cup {s})
  <2>1. CASE w.queued > 0
    <3>1. Append(w.failedQueue, s) \in Seq(Queueable)
      BY <1>3, <1>6, <2>1
    <3> QED
      BY <3>1, <1>2, <1>5, <2>1 DEF Flush
  <2>2. CASE ~(w.queued > 0)
    BY <1>2, <1>3, <1>5, <1>6, <2>2 DEF Flush
  <2> QED
    BY <2>1, <2>2
<1>8. CachedItems(v) = CachedItems(u)
  BY <1>7 DEF CachedItems
<1>9. CachedPart(v) = CachedPart(w)
  <2>1. CASE w.queued > 0
    BY <1>2, <1>4, <1>7, <1>8, <2>1 DEF CachedPart
  <2>2. CASE ~(w.queued > 0)
    <3>1. w.queued = 0
      BY <1>6, <2>2
    <3>2. CachedPart(u) = CachedItems(u) \cup w.failedCache
      BY <1>2 DEF CachedPart
    <3>3. CachedPart(v) = CachedItems(u) \cup w.failedCache \cup {s}
      BY <1>7, <1>8, <2>2 DEF CachedPart
    <3> QED
      BY <1>4, <3>1, <3>2, <3>3
  <2> QED
    BY <2>1, <2>2
<1> QED
  BY <1>1, <1>2, <1>7, <1>9 DEF u, w, s

\* One flush, as FlushShape has it
Shaped(w) ==
  /\ \A i \in 1 .. Len(w.items) : w.items[i] \in IF i <= w.queued THEN Queueable ELSE Cacheable
  /\ w.pc \in {"idle", "close"} => w = [Idle EXCEPT !.pc = w.pc]
  /\ \A s \in CachedPart(w) : KeyOf[s] \in w.keys

LEMMA ShapeOfAll == FlushShape <=> \A f \in Flushers : Shaped(flush[f])
BY DEF FlushShape, Shaped

LEMMA EmptyShape ==
  ASSUME NEW v, v = Idle \/ v = [Idle EXCEPT !.pc = "close"]
  PROVE  /\ v \in Flush /\ v.queued <= Len(v.items) /\ v.keys = {} /\ v.items = <<>>
         /\ v.failedQueue = <<>> /\ v.failedCache = {} /\ v.queued = 0
         /\ CachedPart(v) = {} /\ Shaped(v)
<1>1. /\ v.items = <<>> /\ v.queued = 0 /\ v.failedCache = {} /\ v.keys = {} /\ v.failedQueue = <<>>
      /\ v.pc \in {"idle", "close"} /\ v = [Idle EXCEPT !.pc = v.pc]
  <2>1. CASE v = Idle
    BY <2>1 DEF Idle
  <2>2. CASE v = [Idle EXCEPT !.pc = "close"]
    BY <2>2 DEF Idle
  <2> QED
    BY <2>1, <2>2
<1>2. v \in Flush
  <2>1. <<>> \in Seq(Sessions) /\ <<>> \in Seq(Queueable)
    OBVIOUS
  <2>2. CASE v = Idle
    BY <2>1, <2>2 DEF Idle, Flush
  <2>3. CASE v = [Idle EXCEPT !.pc = "close"]
    BY <2>1, <2>3 DEF Idle, Flush
  <2> QED
    BY <2>2, <2>3
<1>3. Len(v.items) = 0
  BY <1>1
<1>4. CachedItems(v) = {}
  BY <1>1, <1>3 DEF CachedItems
<1>5. CachedPart(v) = {}
  BY <1>1, <1>4 DEF CachedPart
<1>6. Shaped(v)
  BY <1>1, <1>3, <1>5 DEF Shaped
<1> QED
  BY <1>1, <1>2, <1>3, <1>5, <1>6

\* A change of one flush
LEMMA OneFlush ==
  ASSUME TypeOK, FlushShape, NEW f \in Flushers, NEW v \in Flush, v.queued <= Len(v.items), Shaped(v),
         flush' = [flush EXCEPT ![f] = v]
  PROVE  /\ flush' \in [Flushers -> Flush] /\ flush'[f] = v
         /\ \A g \in Flushers : g # f => flush'[g] = flush[g]
         /\ \A g \in Flushers : flush'[g].queued <= Len(flush'[g].items)
         /\ FlushShape'
<1>1. flush \in [Flushers -> Flush] /\ \A g \in Flushers : flush[g].queued <= Len(flush[g].items)
  BY DEF TypeOK
<1>2. flush' \in [Flushers -> Flush] /\ flush'[f] = v /\ \A g \in Flushers : g # f => flush'[g] = flush[g]
  BY <1>1
<1>3. \A g \in Flushers : Shaped(flush[g])
  BY ShapeOfAll
<1>4. \A g \in Flushers : Shaped(flush'[g])
  BY <1>2, <1>3
<1>5. FlushShape'
  BY <1>4 DEF FlushShape, Shaped
<1> QED
  BY <1>1, <1>2, <1>5

\* What is left of a flush after a save or a failure has its shape.
LEMMA ShapeAdvances ==
  ASSUME NEW w \in Flush, w.items # <<>>, w.queued <= Len(w.items), w.pc \in {"flush", "shutdown"},
         Shaped(w), NEW u, u = Advance(w), NEW v \in Flush,
         v.items = u.items, v.queued = u.queued, v.pc = w.pc, v.keys = w.keys,
         CachedPart(v) \subseteq CachedPart(w)
  PROVE  v.queued <= Len(v.items) /\ Shaped(v)
<1>1. /\ Len(u.items) = Len(w.items) - 1
      /\ \A i \in 1 .. Len(u.items) : u.items[i] = w.items[i + 1]
      /\ u.queued = (IF w.queued > 0 THEN w.queued - 1 ELSE 0) /\ u.queued <= Len(u.items)
  BY Advances
<1>2. Len(w.items) \in Nat /\ w.queued \in Nat
  BY DEF Flush
<1>3. ASSUME NEW i \in 1 .. Len(v.items)
      PROVE  v.items[i] \in IF i <= v.queued THEN Queueable ELSE Cacheable
  <2>1. i + 1 \in 1 .. Len(w.items) /\ v.items[i] = w.items[i + 1] /\ (i + 1 <= w.queued <=> i <= v.queued)
    BY <1>1, <1>2, <1>3
  <2>2. w.items[i + 1] \in IF i + 1 <= w.queued THEN Queueable ELSE Cacheable
    BY <2>1 DEF Shaped
  <2> QED
    BY <2>1, <2>2
<1>4. \A s \in CachedPart(v) : KeyOf[s] \in v.keys
  BY DEF Shaped
<1> QED
  BY <1>1, <1>3, <1>4 DEF Shaped

LEMMA ShapeInit == Init => WriterShape
<1> SUFFICES ASSUME Init PROVE WriterShape
  OBVIOUS
<1>1. /\ queue = <<>> /\ stored = <<>> /\ accepted = <<>> /\ storedCached = {} /\ raced = {} /\ refused = {}
      /\ closed = FALSE /\ overlapped = FALSE
      /\ cache = [k \in Keys |-> NoSession] /\ flush = [f \in Flushers |-> Idle]
  BY DEF Init
<1>2. \A f \in Flushers : flush[f] \in Flush /\ flush[f].queued <= Len(flush[f].items) /\ Shaped(flush[f])
  BY <1>1, EmptyShape
<1>3. FlushShape
  BY <1>2, ShapeOfAll
<1>4. TypeOK
  <2>1. queue \in Seq(Queueable) /\ stored \in Seq(Queueable) /\ accepted \in Seq(Sessions)
    BY <1>1
  <2>2. cache \in [Keys -> Cacheable \cup {NoSession}]
    BY <1>1
  <2>3. flush \in [Flushers -> Flush] /\ \A f \in Flushers : flush[f].queued <= Len(flush[f].items)
    BY <1>1, <1>2
  <2> QED
    BY <1>1, <2>1, <2>2, <2>3 DEF TypeOK
<1>5. \A f \in Flushers : CachedPart(flush[f]) = {}
  BY <1>1, EmptyShape
<1> QED
  BY <1>1, <1>3, <1>4, <1>5 DEF WriterShape, CacheShape

LEMMA ShapeNext == WriterShape /\ [Next]_vars => WriterShape'
<1> SUFFICES ASSUME WriterShape, [Next]_vars PROVE WriterShape'
  OBVIOUS
<1>0. TypeOK /\ FlushShape /\ CacheShape
  BY DEF WriterShape
<1>1. ASSUME NEW s \in Queueable, Enqueue(s) PROVE WriterShape'
  <2>1. FlushShape'
    BY <1>0, <1>1 DEF Enqueue, FlushShape
  <2>2. TypeOK'
    <3>1. s \in Sessions
      BY DEF Sessions
    <3>2. queue' \in Seq(Queueable) /\ accepted' \in Seq(Sessions)
      BY <1>0, <1>1, <3>1 DEF Enqueue, TypeOK
    <3> QED
      BY <1>0, <1>1, <3>2 DEF Enqueue, TypeOK
  <2>3. CacheShape'
    <3>1. \A i \in DOMAIN accepted : i \in DOMAIN accepted' /\ accepted'[i] = accepted[i]
      BY <1>0, <1>1 DEF Enqueue, TypeOK
    <3>2. \A t : Accepted(t) => Accepted(t)'
      BY <3>1 DEF Accepted
    <3> QED
      BY <1>0, <1>1, <3>2 DEF Enqueue, CacheShape
  <2> QED
    BY <2>1, <2>2, <2>3 DEF WriterShape
<1>2. ASSUME NEW s \in Cacheable, Cache(s) PROVE WriterShape'
  <2>1. FlushShape'
    BY <1>0, <1>2 DEF Cache, FlushShape
  <2>2. s \in Sessions /\ KeyOf[s] \in Keys
    BY DEF Sessions, Keys
  <2>3. TypeOK'
    <3>1. accepted' \in Seq(Sessions)
      BY <1>0, <1>2, <2>2 DEF Cache, TypeOK
    <3>2. cache' \in [Keys -> Cacheable \cup {NoSession}]
      BY <1>0, <1>2, <2>2 DEF Cache, TypeOK
    <3>3. raced' \subseteq Cacheable
      <4>1. raced' \subseteq raced \cup {s}
        BY <1>2 DEF Cache
      <4> QED
        BY <1>0, <4>1 DEF TypeOK
    <3> QED
      BY <1>0, <1>2, <3>1, <3>2, <3>3 DEF Cache, TypeOK
  <2>4. CacheShape'
    <3>1. \A i \in DOMAIN accepted : i \in DOMAIN accepted' /\ accepted'[i] = accepted[i]
      BY <1>0, <1>2 DEF Cache, TypeOK
    <3>2. Accepted(s)' /\ \A t : Accepted(t) => Accepted(t)'
      <4>1. accepted' = Append(accepted, s) /\ Len(accepted) \in Nat
        BY <1>0, <1>2 DEF Cache, TypeOK
      <4>2. Len(accepted) + 1 \in DOMAIN accepted' /\ accepted'[Len(accepted) + 1] = s
        BY <1>0, <4>1 DEF TypeOK
      <4> QED
        BY <3>1, <4>2 DEF Accepted
    <3>3. cache' = [cache EXCEPT ![KeyOf[s]] = s] /\ cache \in [Keys -> Cacheable \cup {NoSession}]
      BY <1>0, <1>2 DEF Cache, TypeOK
    <3>4. ASSUME NEW k \in Keys, NEW c, c = cache'[k], c # NoSession
          PROVE  KeyOf[c] = k /\ Accepted(c)'
      <4>1. CASE k = KeyOf[s]
        BY <2>2, <3>2, <3>3, <3>4, <4>1
      <4>2. CASE k # KeyOf[s]
        <5>1. cache'[k] = cache[k]
          BY <3>3, <4>2
        <5>2. KeyOf[c] = k /\ Accepted(c)
          BY <1>0, <3>4, <5>1 DEF CacheShape
        <5> QED
          BY <3>2, <5>2
      <4> QED
        BY <4>1, <4>2
    <3>5. \A f \in Flushers : \A t \in CachedPart(flush'[f]) : Accepted(t)'
      BY <1>0, <1>2, <3>2 DEF Cache, CacheShape
    <3> QED
      BY <3>4, <3>5 DEF CacheShape, Accepted
  <2> QED
    BY <2>1, <2>3, <2>4 DEF WriterShape
<1>3. ASSUME NEW f \in Flushers, NEW pc \in {"flush", "shutdown"}, Copy(f, pc) PROVE WriterShape'
  <2>1. PICK v \in Flush :
          /\ flush[f] = Idle /\ flush' = [flush EXCEPT ![f] = v]
          /\ v.pc = pc /\ v.queued = Len(queue) /\ v.queued <= Len(v.items)
          /\ \A i \in 1 .. Len(queue) : v.items[i] = queue[i]
          /\ \A i \in 1 .. Len(v.items) : i > Len(queue) => v.items[i] \in Cached
          /\ CachedPart(v) = Cached /\ v.keys = {KeyOf[s] : s \in Cached}
          /\ v.failedQueue = <<>> /\ v.failedCache = {}
    BY <1>0, <1>3, Takes
  <2>2. queue \in Seq(Queueable) /\ Cached \subseteq Cacheable /\ Len(queue) \in Nat
    BY <1>0 DEF TypeOK, Cached
  <2>3. Shaped(v)
    <3>1. ASSUME NEW i \in 1 .. Len(v.items)
          PROVE  v.items[i] \in IF i <= v.queued THEN Queueable ELSE Cacheable
      BY <2>1, <2>2
    <3>2. v.pc \notin {"idle", "close"}
      BY <2>1
    <3> QED
      BY <2>1, <3>1, <3>2 DEF Shaped
  <2>4. /\ flush' \in [Flushers -> Flush] /\ FlushShape'
        /\ flush'[f] = v /\ \A g \in Flushers : g # f => flush'[g] = flush[g]
        /\ \A g \in Flushers : flush'[g].queued <= Len(flush'[g].items)
    BY <1>0, <2>1, <2>3, OneFlush
  <2>5. TypeOK'
    <3>1. queue' = <<>>
      BY <1>3 DEF Copy, TakenQueue
    <3>2. overlapped' \in BOOLEAN
      BY <1>3, <1>0 DEF Copy, TypeOK
    <3>3. UNCHANGED <<cache, closed, stored, storedCached, accepted, raced, refused>>
      BY <1>3 DEF Copy
    <3> QED
      BY <1>0, <2>4, <3>1, <3>2, <3>3 DEF TypeOK
  <2>6. CacheShape'
    <3>1. \A t : Accepted(t)' <=> Accepted(t)
      BY <1>3 DEF Copy, Accepted
    <3>2. cache' = cache
      BY <1>3 DEF Copy
    <3>3. ASSUME NEW g \in Flushers, NEW t \in CachedPart(flush'[g]) PROVE Accepted(t)
      <4>1. CASE g = f
        BY <1>0, <2>1, <2>4, <3>3, <4>1 DEF CacheShape, Cached
      <4>2. CASE g # f
        BY <1>0, <2>4, <3>3, <4>2 DEF CacheShape
      <4> QED
        BY <4>1, <4>2
    <3> QED
      BY <1>0, <3>1, <3>2, <3>3 DEF CacheShape
  <2> QED
    BY <2>4, <2>5, <2>6 DEF WriterShape
<1>4. ASSUME NEW f \in Flushers, Save(f) PROVE WriterShape'
  <2> DEFINE w == flush[f]
  <2>1. /\ w \in Flush /\ w.items # <<>> /\ w.queued <= Len(w.items) /\ w.pc \in {"flush", "shutdown"}
        /\ flush' = [flush EXCEPT ![f] = Advance(w)]
    BY <1>0, <1>4, Saves
  <2>2. Shaped(w)
    BY <1>0, ShapeOfAll
  <2>3. /\ Advance(w) \in Flush /\ Advance(w).pc = w.pc /\ Advance(w).keys = w.keys
        /\ Head(w.items) = w.items[1] /\ 1 \in 1 .. Len(w.items) /\ w.queued \in Nat
    <3>1. Len(w.items) \in Nat /\ w.queued \in Nat
      BY <2>1 DEF Flush
    <3> QED
      BY <2>1, <3>1, Advances
  <2>4. CachedPart(Advance(w)) \subseteq CachedPart(w)
    BY <2>1, <2>3, AdvanceParts
  <2>5. Advance(w).queued <= Len(Advance(w).items) /\ Shaped(Advance(w))
    BY <2>1, <2>2, <2>3, <2>4, ShapeAdvances
  <2>6. /\ flush' \in [Flushers -> Flush] /\ FlushShape'
        /\ flush'[f] = Advance(w) /\ \A g \in Flushers : g # f => flush'[g] = flush[g]
        /\ \A g \in Flushers : flush'[g].queued <= Len(flush'[g].items)
    BY <1>0, <2>1, <2>3, <2>5, OneFlush
  <2>7. w.items[1] \in IF 1 <= w.queued THEN Queueable ELSE Cacheable
    BY <2>2, <2>3 DEF Shaped
  <2>8. TypeOK'
    <3>1. stored' \in Seq(Queueable) /\ storedCached' \subseteq Cacheable
      <4>1. CASE w.queued > 0
        <5>1. stored' = Append(stored, w.items[1]) /\ storedCached' = storedCached
          BY <1>4, <2>3, <4>1 DEF Save
        <5>2. w.items[1] \in Queueable
          BY <2>3, <2>7, <4>1
        <5> QED
          BY <1>0, <5>1, <5>2 DEF TypeOK
      <4>2. CASE ~(w.queued > 0)
        <5>1. stored' = stored /\ storedCached' = storedCached \cup {w.items[1]}
          BY <1>4, <2>3, <4>2 DEF Save
        <5>2. w.items[1] \in Cacheable
          BY <2>3, <2>7, <4>2
        <5> QED
          BY <1>0, <5>1, <5>2 DEF TypeOK
      <4> QED
        BY <4>1, <4>2
    <3>2. UNCHANGED <<queue, cache, closed, accepted, raced, refused, overlapped>>
      BY <1>4 DEF Save
    <3> QED
      BY <1>0, <2>6, <3>1, <3>2 DEF TypeOK
  <2>9. CacheShape'
    <3>1. \A t : Accepted(t)' <=> Accepted(t)
      BY <1>4 DEF Save, Accepted
    <3>2. cache' = cache
      BY <1>4 DEF Save
    <3>3. ASSUME NEW g \in Flushers, NEW t \in CachedPart(flush'[g]) PROVE Accepted(t)
      <4>1. CASE g = f
        BY <1>0, <2>4, <2>6, <3>3, <4>1 DEF CacheShape
      <4>2. CASE g # f
        BY <1>0, <2>6, <3>3, <4>2 DEF CacheShape
      <4> QED
        BY <4>1, <4>2
    <3> QED
      BY <1>0, <3>1, <3>2, <3>3 DEF CacheShape
  <2> QED
    BY <2>6, <2>8, <2>9 DEF WriterShape
<1>5. ASSUME NEW f \in Flushers, FailTwice(f) PROVE WriterShape'
  <2> DEFINE w == flush[f]
             s == Head(w.items)
  <2>1. PICK u \in Flush, v \in Flush :
          /\ w \in Flush /\ w.items # <<>> /\ w.queued <= Len(w.items)
          /\ w.pc \in {"flush", "shutdown"} /\ u = Advance(w)
          /\ flush' = [flush EXCEPT ![f] = v]
          /\ v.items = u.items /\ v.queued = u.queued /\ v.pc = w.pc /\ v.keys = w.keys
          /\ v.failedQueue = (IF w.queued > 0 THEN Append(w.failedQueue, s) ELSE w.failedQueue)
          /\ v.failedCache = (IF w.queued > 0 THEN w.failedCache ELSE w.failedCache \cup {s})
          /\ CachedPart(v) = CachedPart(w)
    BY <1>0, <1>5, Fails
  <2>2. Shaped(w)
    BY <1>0, ShapeOfAll
  <2>3. v.queued <= Len(v.items) /\ Shaped(v)
    BY <2>1, <2>2, ShapeAdvances
  <2>4. /\ flush' \in [Flushers -> Flush] /\ FlushShape'
        /\ flush'[f] = v /\ \A g \in Flushers : g # f => flush'[g] = flush[g]
        /\ \A g \in Flushers : flush'[g].queued <= Len(flush'[g].items)
    BY <1>0, <2>1, <2>3, OneFlush
  <2>5. TypeOK'
    <3>1. s \in Sessions
      <4>1. w.items \in Seq(Sessions)
        BY <2>1 DEF Flush
      <4> QED
        BY <2>1, <4>1
    <3>2. refused' = refused \cup {s}
      BY <1>5 DEF FailTwice
    <3>3. UNCHANGED <<queue, cache, closed, stored, storedCached, accepted, raced, overlapped>>
      BY <1>5 DEF FailTwice
    <3> HIDE DEF s
    <3> QED
      BY <1>0, <2>4, <3>1, <3>2, <3>3 DEF TypeOK
  <2>6. CacheShape'
    <3>1. \A t : Accepted(t)' <=> Accepted(t)
      BY <1>5 DEF FailTwice, Accepted
    <3>2. cache' = cache
      BY <1>5 DEF FailTwice
    <3>3. ASSUME NEW g \in Flushers, NEW t \in CachedPart(flush'[g]) PROVE Accepted(t)
      <4>1. CASE g = f
        BY <1>0, <2>1, <2>4, <3>3, <4>1 DEF CacheShape
      <4>2. CASE g # f
        BY <1>0, <2>4, <3>3, <4>2 DEF CacheShape
      <4> QED
        BY <4>1, <4>2
    <3> QED
      BY <1>0, <3>1, <3>2, <3>3 DEF CacheShape
  <2> QED
    BY <2>4, <2>5, <2>6 DEF WriterShape
<1>6. ASSUME NEW f \in Flushers, PutBack(f) PROVE WriterShape'
  <2> DEFINE w == flush[f]
             v == IF w.pc = "flush" THEN Idle ELSE [Idle EXCEPT !.pc = "close"]
  <2>1. /\ w.items = <<>> /\ queue' = w.failedQueue \o queue /\ cache' = Restored(w)
        /\ flush' = [flush EXCEPT ![f] = v]
        /\ UNCHANGED <<closed, stored, storedCached, accepted, raced, refused, overlapped>>
    BY <1>6 DEF PutBack, RequeuedFirst
  <2>2. /\ w \in Flush /\ w.failedQueue \in Seq(Queueable) /\ w.failedCache \subseteq Cacheable
        /\ Shaped(w)
    <3>1. w \in Flush
      BY <1>0 DEF TypeOK
    <3> QED
      BY <1>0, <3>1, ShapeOfAll DEF Flush
  <2>3. v \in Flush /\ v.queued <= Len(v.items) /\ Shaped(v) /\ CachedPart(v) = {}
    BY EmptyShape
  <2>4. /\ flush' \in [Flushers -> Flush] /\ FlushShape'
        /\ flush'[f] = v /\ \A g \in Flushers : g # f => flush'[g] = flush[g]
        /\ \A g \in Flushers : flush'[g].queued <= Len(flush'[g].items)
    BY <1>0, <2>1, <2>3, OneFlush
  <2> HIDE DEF v
  <2>5. ASSUME NEW k \in Keys
        PROVE  \/ cache'[k] \in w.failedCache /\ KeyOf[cache'[k]] = k
               \/ cache'[k] \in {NoSession, cache[k]}
    <3>1. CASE \E s \in w.failedCache : KeyOf[s] = k
      BY <2>1, <3>1 DEF Restored
    <3>2. CASE ~\E s \in w.failedCache : KeyOf[s] = k
      BY <2>1, <3>2 DEF Restored
    <3> QED
      BY <3>1, <3>2
  <2>6. TypeOK'
    <3>1. queue' \in Seq(Queueable)
      BY <1>0, <2>1, <2>2 DEF TypeOK
    <3>2. cache' \in [Keys -> Cacheable \cup {NoSession}]
      <4>1. cache' = [k \in Keys |-> cache'[k]]
        BY <2>1 DEF Restored
      <4>2. \A k \in Keys : cache'[k] \in Cacheable \cup {NoSession}
        BY <1>0, <2>2, <2>5 DEF TypeOK
      <4> QED
        BY <4>1, <4>2
    <3> QED
      BY <1>0, <2>1, <2>4, <3>1, <3>2 DEF TypeOK
  <2>7. CacheShape'
    <3>1. \A t : Accepted(t)' <=> Accepted(t)
      BY <2>1 DEF Accepted
    <3>2. \A t \in w.failedCache : Accepted(t)
      BY <1>0 DEF CacheShape, CachedPart
    <3>3. ASSUME NEW g \in Flushers, NEW t \in CachedPart(flush'[g]) PROVE Accepted(t)
      <4>1. CASE g = f
        BY <2>3, <2>4, <3>3, <4>1
      <4>2. CASE g # f
        BY <1>0, <2>4, <3>3, <4>2 DEF CacheShape
      <4> QED
        BY <4>1, <4>2
    <3>4. ASSUME NEW k \in Keys, cache'[k] # NoSession PROVE KeyOf[cache'[k]] = k /\ Accepted(cache'[k])
      BY <1>0, <2>5, <3>2, <3>4 DEF CacheShape
    <3> QED
      BY <3>1, <3>3, <3>4 DEF CacheShape
  <2> QED
    BY <2>4, <2>6, <2>7 DEF WriterShape
<1>7. ASSUME NEW f \in Flushers, Close(f) PROVE WriterShape'
  <2>1. /\ flush' = [flush EXCEPT ![f] = Idle] /\ closed' = TRUE
        /\ UNCHANGED <<queue, cache, stored, storedCached, accepted, raced, refused, overlapped>>
    BY <1>7 DEF Close
  <2>2. /\ flush' \in [Flushers -> Flush] /\ FlushShape'
        /\ flush'[f] = Idle /\ \A g \in Flushers : g # f => flush'[g] = flush[g]
        /\ \A g \in Flushers : flush'[g].queued <= Len(flush'[g].items)
    BY <1>0, <2>1, EmptyShape, OneFlush
  <2>3. TypeOK'
    BY <1>0, <2>1, <2>2 DEF TypeOK
  <2>4. CacheShape'
    <3>1. \A t : Accepted(t)' <=> Accepted(t)
      BY <2>1 DEF Accepted
    <3> QED
      BY <1>0, <2>1, <2>2, <3>1, EmptyShape DEF CacheShape
  <2> QED
    BY <2>2, <2>3, <2>4 DEF WriterShape
<1>8. CASE UNCHANGED vars
  BY <1>0, <1>8 DEF WriterShape, TypeOK, FlushShape, CacheShape, Accepted, vars
<1> QED
  BY <1>1, <1>2, <1>3, <1>4, <1>5, <1>6, <1>7, <1>8 DEF Next

-----------------------------------------------------------------------------
\* The newest session of a key, not cached while a flush held the key, is the only one of
\* its key that is cached or held, and whoever holds the key holds or saved it.
Safe(x) ==
  /\ \/ x \in storedCached \/ cache[KeyOf[x]] = x
     \/ \E f \in Flushers : x \in CachedPart(flush[f])
  /\ \A f \in Flushers : KeyOf[x] \in flush[f].keys =>
       x \in CachedPart(flush[f]) \/ x \in storedCached
  /\ cache[KeyOf[x]] \in {x, NoSession}
  /\ \A f \in Flushers : \A t \in CachedPart(flush[f]) : KeyOf[t] = KeyOf[x] => t = x

NewestSafe == \A x \in Newest \ raced : Safe(x)

LEMMA SafeNext ==
  ASSUME SessionsDiffer, WriterShape, NEW x \in Cacheable, Safe(x),
         NEW f \in Flushers, \/ \E pc \in {"flush", "shutdown"} : Copy(f, pc)
                             \/ Save(f) \/ FailTwice(f) \/ PutBack(f) \/ Close(f)
  PROVE  Safe(x)'
<1> DEFINE k == KeyOf[x]
<1>0. TypeOK /\ FlushShape /\ CacheShape /\ k \in Keys
  BY DEF WriterShape, Keys
<1>1. \A g \in Flushers : Shaped(flush[g])
  BY <1>0, ShapeOfAll
<1>2. ASSUME NEW pc \in {"flush", "shutdown"}, Copy(f, pc) PROVE Safe(x)'
  <2>1. PICK v \in Flush :
          /\ flush[f] = Idle /\ flush' = [flush EXCEPT ![f] = v]
          /\ CachedPart(v) = Cached /\ v.keys = {KeyOf[s] : s \in Cached}
    BY <1>0, <1>2, Takes
  <2>2. flush'[f] = v /\ (\A g \in Flushers : g # f => flush'[g] = flush[g])
        /\ cache' = cache /\ storedCached' = storedCached
    BY <1>0, <1>2, <2>1 DEF TypeOK, Copy
  <2>3. CachedPart(flush[f]) = {}
    BY <2>1, EmptyShape
  <2>4. ASSUME NEW s \in Cached PROVE s = cache[KeyOf[s]] /\ s # NoSession
    BY <1>0 DEF Cached, CacheShape
  <2>5. cache[k] = x => x \in Cached
    BY <1>0 DEF Cached, SessionsDiffer
  <2>6. \A t \in Cached : KeyOf[t] = k => t = x
    BY <2>4 DEF Safe
  <2>7. k \in v.keys => x \in Cached
    BY <2>1, <2>6
  <2>8. x \in storedCached' \/ cache'[k] = x \/ \E g \in Flushers : x \in CachedPart(flush'[g])
    BY <2>2, <2>3 DEF Safe
  <2>9. \A g \in Flushers : k \in flush'[g].keys => x \in CachedPart(flush'[g]) \/ x \in storedCached'
    BY <2>1, <2>2, <2>7 DEF Safe
  <2>10. \A g \in Flushers : \A t \in CachedPart(flush'[g]) : KeyOf[t] = k => t = x
    BY <2>1, <2>2, <2>6 DEF Safe
  <2> QED
    BY <2>2, <2>8, <2>9, <2>10 DEF Safe
<1>3. ASSUME Save(f) PROVE Safe(x)'
  <2> DEFINE w == flush[f]
             v == Advance(w)
  <2>1. /\ w \in Flush /\ w.items # <<>> /\ w.queued <= Len(w.items)
        /\ flush' = [flush EXCEPT ![f] = v]
    BY <1>0, <1>3, Saves
  <2>2. flush'[f] = v /\ (\A g \in Flushers : g # f => flush'[g] = flush[g]) /\ cache' = cache
    BY <1>0, <1>3, <2>1 DEF TypeOK, Save
  <2>3. v.keys = w.keys /\ w.queued \in Nat
    BY <2>1, Advances DEF Flush
  <2>4. CachedPart(v) \subseteq CachedPart(w) /\ CachedPart(w) \subseteq CachedPart(v) \cup storedCached'
        /\ storedCached \subseteq storedCached'
    <3>1. CASE w.queued > 0
      BY <1>3, <2>1, <3>1, AdvanceParts DEF Save
    <3>2. CASE w.queued = 0
      <4>1. storedCached' = storedCached \cup {Head(w.items)}
        BY <1>3, <3>2 DEF Save
      <4> QED
        BY <2>1, <3>2, <4>1, AdvanceParts
    <3> QED
      BY <2>3, <3>1, <3>2
  <2> HIDE DEF v
  <2>5. x \in storedCached' \/ cache'[k] = x \/ \E g \in Flushers : x \in CachedPart(flush'[g])
    BY <2>2, <2>4 DEF Safe
  <2>6. \A g \in Flushers : k \in flush'[g].keys => x \in CachedPart(flush'[g]) \/ x \in storedCached'
    BY <2>2, <2>3, <2>4 DEF Safe
  <2>7. \A g \in Flushers : \A t \in CachedPart(flush'[g]) : KeyOf[t] = k => t = x
    BY <2>2, <2>4 DEF Safe
  <2> QED
    BY <2>2, <2>5, <2>6, <2>7 DEF Safe
<1>4. ASSUME FailTwice(f) PROVE Safe(x)'
  <2>1. PICK v \in Flush :
          /\ flush' = [flush EXCEPT ![f] = v] /\ v.keys = flush[f].keys
          /\ CachedPart(v) = CachedPart(flush[f])
    BY <1>0, <1>4, Fails
  <2>2. flush'[f] = v /\ (\A g \in Flushers : g # f => flush'[g] = flush[g])
        /\ cache' = cache /\ storedCached' = storedCached
    BY <1>0, <1>4, <2>1 DEF TypeOK, FailTwice
  <2>3. \A g \in Flushers : CachedPart(flush'[g]) = CachedPart(flush[g]) /\ flush'[g].keys = flush[g].keys
    BY <2>1, <2>2
  <2> QED
    BY <2>2, <2>3 DEF Safe
<1>5. ASSUME PutBack(f) PROVE Safe(x)'
  <2> DEFINE w == flush[f]
             v == IF w.pc = "flush" THEN Idle ELSE [Idle EXCEPT !.pc = "close"]
  <2>1. /\ w.items = <<>> /\ cache' = Restored(w) /\ storedCached' = storedCached
        /\ flush' = [flush EXCEPT ![f] = v]
    BY <1>5 DEF PutBack
  <2>2. CachedPart(v) = {} /\ v.keys = {}
    BY EmptyShape
  <2>3. flush'[f] = v /\ (\A g \in Flushers : g # f => flush'[g] = flush[g])
    BY <1>0, <2>1 DEF TypeOK
  <2>4. CachedPart(w) = w.failedCache
    <3>1. w.queued \in Nat /\ Len(w.items) = 0
      BY <1>0, <2>1 DEF TypeOK, Flush
    <3>2. CachedItems(w) = {}
      BY <3>1 DEF CachedItems
    <3> QED
      BY <3>2 DEF CachedPart
  <2>5. cache'[k] = IF \E s \in w.failedCache : KeyOf[s] = k
                    THEN CHOOSE s \in w.failedCache : KeyOf[s] = k
                    ELSE IF k \in w.keys THEN NoSession ELSE cache[k]
    BY <1>0, <2>1 DEF Restored
  <2>6. \A s \in w.failedCache : KeyOf[s] = k => s = x
    BY <2>4 DEF Safe
  <2>7. cache'[k] = IF x \in w.failedCache THEN x ELSE IF k \in w.keys THEN NoSession ELSE cache[k]
    BY <2>5, <2>6
  <2> HIDE DEF v
  <2>8. x \in storedCached' \/ cache'[k] = x \/ \E g \in Flushers : x \in CachedPart(flush'[g])
    <3>1. CASE x \in storedCached
      BY <2>1, <3>1
    <3>2. CASE x \notin storedCached /\ cache[k] = x
      BY <2>4, <2>7, <3>2 DEF Safe
    <3>3. ASSUME NEW g \in Flushers, x \in CachedPart(flush[g])
          PROVE  cache'[k] = x \/ \E h \in Flushers : x \in CachedPart(flush'[h])
      BY <2>3, <2>4, <2>7, <3>3
    <3> QED
      BY <3>1, <3>2, <3>3 DEF Safe
  <2>9. cache'[k] \in {x, NoSession}
    BY <2>7 DEF Safe
  <2>10. \A g \in Flushers : k \in flush'[g].keys => x \in CachedPart(flush'[g]) \/ x \in storedCached'
    BY <2>1, <2>2, <2>3 DEF Safe
  <2>11. \A g \in Flushers : \A t \in CachedPart(flush'[g]) : KeyOf[t] = k => t = x
    BY <2>2, <2>3 DEF Safe
  <2> QED
    BY <2>8, <2>9, <2>10, <2>11 DEF Safe
<1>6. ASSUME Close(f) PROVE Safe(x)'
  <2>1. /\ flush[f].pc = "close" /\ flush' = [flush EXCEPT ![f] = Idle]
        /\ cache' = cache /\ storedCached' = storedCached
    BY <1>6 DEF Close
  <2>2. flush'[f] = Idle /\ (\A g \in Flushers : g # f => flush'[g] = flush[g])
    BY <1>0, <2>1 DEF TypeOK
  <2>3. flush[f] = [Idle EXCEPT !.pc = "close"]
    BY <1>1, <2>1 DEF Shaped
  <2>4. \A g \in Flushers : CachedPart(flush'[g]) = CachedPart(flush[g]) /\ flush'[g].keys = flush[g].keys
    BY <2>2, <2>3, EmptyShape
  <2> QED
    BY <2>1, <2>4 DEF Safe
<1> QED
  BY <1>2, <1>3, <1>4, <1>5, <1>6

\* Who is newest after a session is accepted
LEMMA NewestAfter ==
  ASSUME TypeOK, NEW s \in Sessions, accepted' = Append(accepted, s), NEW x \in Newest'
  PROVE  x = s \/ (x \in Newest /\ (s \in Cacheable => KeyOf[s] # KeyOf[x]))
<1>1. x \in Cacheable
  BY DEF Newest
<1>2. PICK i \in DOMAIN accepted' :
        /\ accepted'[i] = x
        /\ \A j \in DOMAIN accepted' :
             j > i /\ accepted'[j] \in Cacheable => KeyOf[accepted'[j]] # KeyOf[x]
  BY DEF Newest
<1> DEFINE n == Len(accepted)
<1>3. /\ n \in Nat /\ DOMAIN accepted = 1 .. n /\ DOMAIN accepted' = 1 .. n + 1
      /\ accepted'[n + 1] = s /\ \A j \in 1 .. n : accepted'[j] = accepted[j]
  BY DEF TypeOK
<1> HIDE DEF n
<1>4. CASE i = n + 1
  <2>1. x = s
    BY <1>2, <1>3, <1>4
  <2> QED
    BY <2>1
<1>5. CASE i # n + 1
  <2>1. i \in 1 .. n /\ accepted[i] = x
    BY <1>2, <1>3, <1>5
  <2>2. \A j \in 1 .. n : j > i /\ accepted[j] \in Cacheable => KeyOf[accepted[j]] # KeyOf[x]
    BY <1>2, <1>3
  <2>3. x \in Newest
    BY <1>1, <1>3, <2>1, <2>2 DEF Newest
  <2>4. n + 1 \in DOMAIN accepted' /\ n + 1 > i
    BY <1>3, <2>1
  <2>5. s \in Cacheable => KeyOf[s] # KeyOf[x]
    BY <1>2, <1>3, <2>4
  <2> QED
    BY <2>3, <2>5
<1> QED
  BY <1>4, <1>5

LEMMA NewestSafeNext == SessionsDiffer /\ WriterShape /\ NewestSafe /\ [Next]_vars => NewestSafe'
<1> SUFFICES ASSUME SessionsDiffer, WriterShape, NewestSafe, [Next]_vars, NEW x \in Newest' \ raced' PROVE Safe(x)'
  BY DEF NewestSafe
<1>0. TypeOK /\ FlushShape /\ CacheShape /\ x \in Cacheable
  BY DEF WriterShape, Newest
<1>1. ASSUME NEW s \in Queueable, Enqueue(s) PROVE Safe(x)'
  <2>1. x \in Newest
    <3>1. s \in Sessions /\ x # s
      BY <1>0 DEF Sessions, SessionsDiffer
    <3> QED
      BY <1>0, <1>1, <3>1, NewestAfter DEF Enqueue
  <2>2. Safe(x)
    BY <1>1, <2>1 DEF Enqueue, NewestSafe
  <2> QED
    BY <1>1, <2>2 DEF Enqueue, Safe
<1>2. ASSUME NEW s \in Cacheable, Cache(s) PROVE Safe(x)'
  <2>1. s \in Sessions /\ KeyOf[s] \in Keys /\ KeyOf[x] \in Keys
    BY <1>0 DEF Sessions, Keys
  <2>2. /\ cache' = [cache EXCEPT ![KeyOf[s]] = s] /\ accepted' = Append(accepted, s)
        /\ UNCHANGED <<flush, storedCached>> /\ raced \subseteq raced'
        /\ raced' = raced \cup {t \in {s} : \E f \in Flushers : KeyOf[s] \in flush[f].keys}
    BY <1>2 DEF Cache
  <2>3. x = s \/ (x \in Newest /\ KeyOf[s] # KeyOf[x])
    BY <1>0, <2>1, <2>2, NewestAfter
  <2>4. CASE x = s
    <3>1. \A f \in Flushers : KeyOf[x] \notin flush[f].keys
      BY <2>2, <2>4
    <3>2. \A f \in Flushers : \A t \in CachedPart(flush[f]) : KeyOf[t] # KeyOf[x]
      BY <1>0, <3>1 DEF FlushShape
    <3>3. cache'[KeyOf[x]] = x
      BY <1>0, <2>1, <2>2, <2>4 DEF TypeOK
    <3> QED
      BY <2>2, <3>1, <3>2, <3>3 DEF Safe
  <2>5. CASE x \in Newest /\ KeyOf[s] # KeyOf[x]
    <3>1. Safe(x)
      BY <2>2, <2>5 DEF NewestSafe
    <3>2. cache'[KeyOf[x]] = cache[KeyOf[x]]
      BY <1>0, <2>1, <2>2, <2>5 DEF TypeOK
    <3> QED
      BY <2>2, <3>1, <3>2 DEF Safe
  <2> QED
    BY <2>3, <2>4, <2>5
<1>3. ASSUME NEW f \in Flushers, \/ \E pc \in {"flush", "shutdown"} : Copy(f, pc)
                                 \/ Save(f) \/ FailTwice(f) \/ PutBack(f) \/ Close(f)
      PROVE  Safe(x)'
  <2>1. accepted' = accepted /\ raced' = raced
    BY <1>3 DEF Copy, Save, FailTwice, PutBack, Close
  <2>2. Safe(x)
    BY <2>1 DEF Newest, NewestSafe
  <2> QED
    BY <1>0, <1>3, <2>2, SafeNext
<1>4. CASE UNCHANGED vars
  <2>1. Safe(x)
    BY <1>4 DEF vars, Newest, NewestSafe
  <2> QED
    BY <1>4, <2>1 DEF vars, Safe
<1> QED
  BY <1>1, <1>2, <1>3, <1>4 DEF Next

LEMMA CacheNotLost == ASSUME SessionsDiffer, WriterShape, NewestSafe PROVE CacheLossNeedsRace
<1> SUFFICES ASSUME NEW x \in Newest \ raced
             PROVE  x \in Pending \/ x \in InHand \/ x \in storedCached
  BY DEF CacheLossNeedsRace
<1>1. Safe(x) /\ x \in Cacheable /\ TypeOK
  BY DEF NewestSafe, Newest, WriterShape
<1>2. CASE cache[KeyOf[x]] = x
  <2>1. KeyOf[x] \in Keys /\ x # NoSession
    BY <1>1 DEF Keys, SessionsDiffer
  <2> QED
    BY <1>2, <2>1 DEF Pending, Cached
<1>3. ASSUME NEW f \in Flushers, x \in CachedPart(flush[f]) PROVE x \in InHand
  <2>1. flush[f].items \in Seq(Sessions) /\ flush[f].queued \in Nat
    BY <1>1 DEF TypeOK, Flush
  <2>2. CachedItems(flush[f]) \subseteq ToSet(flush[f].items)
    BY <2>1 DEF CachedItems, ToSet
  <2>3. x \in Held(f)
    BY <1>3, <2>2 DEF CachedPart, Held
  <2> QED
    BY <2>3 DEF InHand
<1> QED
  BY <1>1, <1>2, <1>3 DEF Safe

\* The newest cached session of a key is pending, in a flush or saved unless it was
\* cached while a flush held its key (FlushAll, writer.go:92-97).
THEOREM WriterKeepsTheNewest == SessionsDiffer /\ Spec => []CacheLossNeedsRace
<1>1. SessionsDiffer => []SessionsDiffer
  <2>1. SessionsDiffer /\ [TRUE]_vars => SessionsDiffer'
    BY DEF SessionsDiffer
  <2> QED
    BY <2>1, PTL
<1>2. Init => WriterShape /\ NewestSafe
  <2>1. Init => NewestSafe
    BY DEF Init, NewestSafe, Newest
  <2> QED
    BY <2>1, ShapeInit
<1>3. SessionsDiffer /\ WriterShape /\ NewestSafe => CacheLossNeedsRace
  BY CacheNotLost
<1> QED
  BY <1>1, <1>2, <1>3, ShapeNext, NewestSafeNext, PTL DEF Spec

-----------------------------------------------------------------------------
\* No session is in two places, or twice in one.
Distinct(q) == \A i, j \in DOMAIN q : q[i] = q[j] => i = j

DistinctParts(w) ==
  /\ \A i, j \in 1 .. w.queued : w.items[i] = w.items[j] => i = j
  /\ Distinct(w.failedQueue)
  /\ \A s \in QueuedItems(w) : s \notin ToSet(w.failedQueue)

LEMMA AppendSet ==
  ASSUME NEW S, NEW q \in Seq(S), NEW s \in S
  PROVE  ToSet(Append(q, s)) = ToSet(q) \cup {s}
<1>1. /\ DOMAIN Append(q, s) = 1 .. Len(q) + 1 /\ Append(q, s)[Len(q) + 1] = s
      /\ DOMAIN q = 1 .. Len(q) /\ Len(q) \in Nat
      /\ \A i \in 1 .. Len(q) : Append(q, s)[i] = q[i]
  OBVIOUS
<1>2. ASSUME NEW x \in ToSet(Append(q, s)) PROVE x \in ToSet(q) \cup {s}
  <2>1. PICK i \in 1 .. Len(q) + 1 : x = Append(q, s)[i]
    BY <1>1 DEF ToSet
  <2> QED
    BY <1>1, <2>1 DEF ToSet
<1>3. ASSUME NEW x \in ToSet(q) PROVE x \in ToSet(Append(q, s))
  <2>1. PICK i \in 1 .. Len(q) : x = q[i]
    BY <1>1 DEF ToSet
  <2>2. i \in 1 .. Len(q) + 1 /\ x = Append(q, s)[i]
    BY <1>1, <2>1
  <2> QED
    BY <1>1, <2>2 DEF ToSet
<1>4. s \in ToSet(Append(q, s))
  <2>1. Len(q) + 1 \in 1 .. Len(q) + 1
    BY <1>1
  <2> QED
    BY <1>1, <2>1 DEF ToSet
<1> QED
  BY <1>2, <1>3, <1>4

LEMMA AppendDistinct ==
  ASSUME NEW S, NEW q \in Seq(S), NEW s \in S, Distinct(q), s \notin ToSet(q)
  PROVE  Distinct(Append(q, s))
<1>1. /\ DOMAIN Append(q, s) = 1 .. Len(q) + 1 /\ Append(q, s)[Len(q) + 1] = s
      /\ DOMAIN q = 1 .. Len(q) /\ Len(q) \in Nat
      /\ \A i \in 1 .. Len(q) : Append(q, s)[i] = q[i]
  OBVIOUS
<1>2. \A i \in 1 .. Len(q) : q[i] # s
  BY <1>1 DEF ToSet
<1>3. ASSUME NEW i \in 1 .. Len(q) + 1, NEW j \in 1 .. Len(q) + 1, Append(q, s)[i] = Append(q, s)[j]
      PROVE  i = j
  <2>1. CASE i <= Len(q) /\ j <= Len(q)
    BY <1>1, <1>3, <2>1 DEF Distinct
  <2>2. CASE i = Len(q) + 1 /\ j <= Len(q)
    BY <1>1, <1>2, <1>3, <2>2
  <2>3. CASE i <= Len(q) /\ j = Len(q) + 1
    BY <1>1, <1>2, <1>3, <2>3
  <2> QED
    BY <1>1, <2>1, <2>2, <2>3
<1> QED
  BY <1>1, <1>3 DEF Distinct

LEMMA ConcatFacts ==
  ASSUME NEW S, NEW p \in Seq(S), NEW q \in Seq(S)
  PROVE  /\ DOMAIN (p \o q) = 1 .. Len(p) + Len(q) /\ DOMAIN p = 1 .. Len(p) /\ DOMAIN q = 1 .. Len(q)
         /\ Len(p) \in Nat /\ Len(q) \in Nat
         /\ \A i \in 1 .. Len(p) : (p \o q)[i] = p[i]
         /\ \A i \in 1 .. Len(q) : (p \o q)[i + Len(p)] = q[i]
         /\ \A i \in 1 .. Len(p) + Len(q) : i > Len(p) =>
              i - Len(p) \in 1 .. Len(q) /\ (p \o q)[i] = q[i - Len(p)]
OBVIOUS

LEMMA ConcatSet ==
  ASSUME NEW S, NEW p \in Seq(S), NEW q \in Seq(S)
  PROVE  ToSet(p \o q) = ToSet(p) \cup ToSet(q)
<1> DEFINE r == p \o q
<1>1. /\ DOMAIN r = 1 .. Len(p) + Len(q) /\ DOMAIN p = 1 .. Len(p) /\ DOMAIN q = 1 .. Len(q)
      /\ Len(p) \in Nat /\ Len(q) \in Nat
      /\ \A i \in 1 .. Len(p) : r[i] = p[i]
      /\ \A i \in 1 .. Len(q) : r[i + Len(p)] = q[i]
      /\ \A i \in 1 .. Len(p) + Len(q) : i > Len(p) =>
           i - Len(p) \in 1 .. Len(q) /\ r[i] = q[i - Len(p)]
  BY ConcatFacts
<1> HIDE DEF r
<1>2. ASSUME NEW x \in ToSet(r) PROVE x \in ToSet(p) \cup ToSet(q)
  <2>1. PICK i \in 1 .. Len(p) + Len(q) : x = r[i]
    BY <1>1 DEF ToSet
  <2>2. CASE i <= Len(p)
    <3>1. i \in 1 .. Len(p)
      BY <1>1, <2>2
    <3> QED
      BY <1>1, <2>1, <3>1 DEF ToSet
  <2>3. CASE i > Len(p)
    <3>1. i - Len(p) \in 1 .. Len(q) /\ r[i] = q[i - Len(p)]
      BY <1>1, <2>3
    <3> QED
      BY <1>1, <2>1, <3>1 DEF ToSet
  <2> QED
    BY <1>1, <2>2, <2>3
<1>3. ASSUME NEW x \in ToSet(p) PROVE x \in ToSet(r)
  <2>1. PICK i \in 1 .. Len(p) : x = p[i]
    BY <1>1 DEF ToSet
  <2>2. i \in 1 .. Len(p) + Len(q)
    BY <1>1, <2>1
  <2> QED
    BY <1>1, <2>1, <2>2 DEF ToSet
<1>4. ASSUME NEW x \in ToSet(q) PROVE x \in ToSet(r)
  <2>1. PICK i \in 1 .. Len(q) : x = q[i]
    BY <1>1 DEF ToSet
  <2>2. i + Len(p) \in 1 .. Len(p) + Len(q)
    BY <1>1, <2>1
  <2> QED
    BY <1>1, <2>1, <2>2 DEF ToSet
<1> QED
  BY <1>2, <1>3, <1>4 DEF r

LEMMA ConcatDistinct ==
  ASSUME NEW S, NEW p \in Seq(S), NEW q \in Seq(S), Distinct(p), Distinct(q),
         ToSet(p) \cap ToSet(q) = {}
  PROVE  Distinct(p \o q)
<1> DEFINE r == p \o q
<1>1. /\ DOMAIN r = 1 .. Len(p) + Len(q) /\ DOMAIN p = 1 .. Len(p) /\ DOMAIN q = 1 .. Len(q)
      /\ Len(p) \in Nat /\ Len(q) \in Nat
      /\ \A i \in 1 .. Len(p) : r[i] = p[i]
      /\ \A i \in 1 .. Len(p) + Len(q) : i > Len(p) =>
           i - Len(p) \in 1 .. Len(q) /\ r[i] = q[i - Len(p)]
  BY ConcatFacts
<1> HIDE DEF r
<1>2. \A i \in 1 .. Len(p), j \in 1 .. Len(q) : p[i] # q[j]
  BY <1>1 DEF ToSet
<1>3. ASSUME NEW i \in 1 .. Len(p) + Len(q), NEW j \in 1 .. Len(p) + Len(q), r[i] = r[j]
      PROVE  i = j
  <2>1. CASE i <= Len(p) /\ j <= Len(p)
    <3>1. i \in 1 .. Len(p) /\ j \in 1 .. Len(p)
      BY <1>1, <2>1
    <3> QED
      BY <1>1, <1>3, <3>1 DEF Distinct
  <2>2. CASE i > Len(p) /\ j > Len(p)
    <3>1. i - Len(p) \in 1 .. Len(q) /\ j - Len(p) \in 1 .. Len(q) /\ q[i - Len(p)] = q[j - Len(p)]
      BY <1>1, <1>3, <2>2
    <3>2. i - Len(p) = j - Len(p)
      BY <1>1, <3>1 DEF Distinct
    <3> QED
      BY <1>1, <3>2
  <2>3. CASE i <= Len(p) /\ j > Len(p)
    <3>1. i \in 1 .. Len(p) /\ j - Len(p) \in 1 .. Len(q) /\ p[i] = q[j - Len(p)]
      BY <1>1, <1>3, <2>3
    <3> QED
      BY <1>2, <3>1
  <2>4. CASE i > Len(p) /\ j <= Len(p)
    <3>1. j \in 1 .. Len(p) /\ i - Len(p) \in 1 .. Len(q) /\ p[j] = q[i - Len(p)]
      BY <1>1, <1>3, <2>4
    <3> QED
      BY <1>2, <3>1
  <2> QED
    BY <1>1, <2>1, <2>2, <2>3, <2>4
<1>4. Distinct(r)
  BY <1>1, <1>3 DEF Distinct
<1> QED
  BY <1>4 DEF r

\* The first queued item of a flush, saved or failed, and the others
LEMMA AdvanceQueue ==
  ASSUME NEW w \in Flush, w.items # <<>>, w.queued <= Len(w.items), w.queued > 0,
         NEW u, u = Advance(w), NEW h, h = Head(w.items)
  PROVE  /\ u.queued = w.queued - 1 /\ h = w.items[1]
         /\ \A i \in 1 .. u.queued : i + 1 \in 1 .. w.queued /\ u.items[i] = w.items[i + 1]
         /\ QueuedItems(w) = QueuedItems(u) \cup {h}
         /\ DistinctParts(w) => h \notin QueuedItems(u) /\ h \notin ToSet(w.failedQueue)
         /\ DistinctParts(w) => \A i, j \in 1 .. u.queued : u.items[i] = u.items[j] => i = j
<1>1. w.queued \in Nat /\ Len(w.items) \in Nat
  BY DEF Flush
<1>2. /\ Len(u.items) = Len(w.items) - 1 /\ h = w.items[1] /\ Len(w.items) > 0
      /\ \A i \in 1 .. Len(u.items) : u.items[i] = w.items[i + 1]
      /\ u.queued = w.queued - 1
  BY Advances
<1>3. \A i \in 1 .. u.queued : i + 1 \in 1 .. w.queued /\ u.items[i] = w.items[i + 1]
  BY <1>1, <1>2
<1>4. QueuedItems(w) = QueuedItems(u) \cup {h}
  <2>1. ASSUME NEW i \in 1 .. w.queued, i # 1 PROVE i - 1 \in 1 .. u.queued /\ u.items[i - 1] = w.items[i]
    BY <1>1, <1>2, <2>1
  <2>2. 1 \in 1 .. w.queued
    BY <1>1
  <2> QED
    BY <1>2, <1>3, <2>1, <2>2 DEF QueuedItems
<1>5. ASSUME DistinctParts(w) PROVE h \notin QueuedItems(u) /\ h \notin ToSet(w.failedQueue)
  <2>1. h \in QueuedItems(w) /\ 1 \in 1 .. w.queued
    BY <1>1, <1>4
  <2>2. ASSUME NEW i \in 1 .. u.queued PROVE u.items[i] # h
    <3>1. i + 1 # 1 /\ i + 1 \in 1 .. w.queued /\ u.items[i] = w.items[i + 1]
      BY <1>1, <1>2, <1>3
    <3> QED
      BY <1>2, <1>5, <2>1, <3>1 DEF DistinctParts
  <2> QED
    BY <1>5, <2>1, <2>2 DEF DistinctParts, QueuedItems
<1>6. ASSUME DistinctParts(w), NEW i \in 1 .. u.queued, NEW j \in 1 .. u.queued, u.items[i] = u.items[j]
      PROVE  i = j
  <2>1. i + 1 = j + 1
    BY <1>3, <1>6 DEF DistinctParts
  <2> QED
    BY <1>1, <1>2, <2>1
<1> QED
  BY <1>2, <1>3, <1>4, <1>5, <1>6

LEMMA NothingQueued ==
  ASSUME NEW v, v.queued = 0
  PROVE  /\ QueuedItems(v) = {} /\ QueuedPart(v) = ToSet(v.failedQueue)
         /\ Distinct(v.failedQueue) => DistinctParts(v)
<1>1. QueuedItems(v) = {}
  BY DEF QueuedItems
<1> QED
  BY <1>1 DEF QueuedPart, DistinctParts

\* What each step does to the queued sessions of its flush
LEMMA QueuedOfIdle ==
  ASSUME NEW v, v = Idle \/ v = [Idle EXCEPT !.pc = "close"]
  PROVE  QueuedPart(v) = {} /\ DistinctParts(v)
<1>1. v.queued = 0 /\ v.failedQueue = <<>>
  BY EmptyShape
<1>2. ToSet(v.failedQueue) = {} /\ Distinct(v.failedQueue)
  BY <1>1 DEF ToSet, Distinct
<1> QED
  BY <1>1, <1>2, NothingQueued

LEMMA QueuedOfTaken ==
  ASSUME TypeOK, Distinct(queue), NEW v, v.queued = Len(queue),
         \A i \in 1 .. Len(queue) : v.items[i] = queue[i], v.failedQueue = <<>>
  PROVE  QueuedPart(v) = ToSet(queue) /\ DistinctParts(v)
<1>1. DOMAIN queue = 1 .. Len(queue)
  BY DEF TypeOK
<1>2. QueuedItems(v) = ToSet(queue)
  BY <1>1 DEF QueuedItems, ToSet
<1>3. ToSet(v.failedQueue) = {} /\ Distinct(v.failedQueue)
  BY DEF ToSet, Distinct
<1>4. \A i, j \in 1 .. v.queued : v.items[i] = v.items[j] => i = j
  BY <1>1 DEF Distinct
<1> QED
  BY <1>2, <1>3, <1>4 DEF QueuedPart, DistinctParts

LEMMA QueuedOfSaved ==
  ASSUME NEW w \in Flush, w.items # <<>>, w.queued <= Len(w.items), DistinctParts(w),
         NEW u, u = Advance(w), NEW h, h = Head(w.items)
  PROVE  /\ DistinctParts(u)
         /\ w.queued > 0 => QueuedPart(w) = QueuedPart(u) \cup {h} /\ h \notin QueuedPart(u)
         /\ ~(w.queued > 0) => QueuedPart(w) = QueuedPart(u)
<1>1. w.queued \in Nat /\ u.failedQueue = w.failedQueue
  BY Advances DEF Flush
<1>2. CASE w.queued > 0
  <2>1. /\ QueuedItems(w) = QueuedItems(u) \cup {h}
        /\ h \notin QueuedItems(u) /\ h \notin ToSet(w.failedQueue)
        /\ \A i, j \in 1 .. u.queued : u.items[i] = u.items[j] => i = j
    BY <1>2, AdvanceQueue
  <2>2. DistinctParts(u)
    BY <1>1, <2>1 DEF DistinctParts
  <2> QED
    BY <1>1, <1>2, <2>1, <2>2 DEF QueuedPart
<1>3. CASE ~(w.queued > 0)
  <2>1. w.queued = 0 /\ u.queued = 0
    BY <1>1, <1>3, Advances
  <2>2. Distinct(u.failedQueue)
    BY <1>1 DEF DistinctParts
  <2> QED
    BY <1>1, <1>3, <2>1, <2>2, NothingQueued
<1> QED
  BY <1>2, <1>3

LEMMA QueuedOfFailed ==
  ASSUME NEW w \in Flush, w.items # <<>>, w.queued <= Len(w.items), DistinctParts(w), Shaped(w),
         NEW u, u = Advance(w), NEW h, h = Head(w.items), NEW v,
         v.items = u.items, v.queued = u.queued,
         v.failedQueue = (IF w.queued > 0 THEN Append(w.failedQueue, h) ELSE w.failedQueue)
  PROVE  DistinctParts(v) /\ QueuedPart(v) = QueuedPart(w)
<1>1. /\ w.queued \in Nat /\ u.failedQueue = w.failedQueue /\ w.failedQueue \in Seq(Queueable)
      /\ Len(w.items) > 0 /\ h = w.items[1] /\ Len(w.items) \in Nat
  BY Advances DEF Flush
<1>2. CASE w.queued > 0
  <2>1. /\ QueuedItems(w) = QueuedItems(u) \cup {h}
        /\ h \notin QueuedItems(u) /\ h \notin ToSet(w.failedQueue)
        /\ \A i, j \in 1 .. u.queued : u.items[i] = u.items[j] => i = j
    BY <1>2, AdvanceQueue
  <2>2. h \in Queueable
    <3>1. 1 \in 1 .. Len(w.items) /\ 1 <= w.queued
      BY <1>1, <1>2
    <3>2. w.items[1] \in IF 1 <= w.queued THEN Queueable ELSE Cacheable
      BY <3>1 DEF Shaped
    <3> QED
      BY <1>1, <3>1, <3>2
  <2>3. ToSet(v.failedQueue) = ToSet(w.failedQueue) \cup {h} /\ Distinct(v.failedQueue)
    <3>1. v.failedQueue = Append(w.failedQueue, h)
      BY <1>2
    <3>2. Distinct(w.failedQueue)
      BY DEF DistinctParts
    <3> QED
      BY <1>1, <2>1, <2>2, <3>1, <3>2, AppendSet, AppendDistinct
  <2>4. QueuedItems(v) = QueuedItems(u)
    BY DEF QueuedItems
  <2>5. DistinctParts(v)
    BY <2>1, <2>3, <2>4 DEF DistinctParts
  <2> QED
    BY <2>1, <2>3, <2>4, <2>5 DEF QueuedPart
<1>3. CASE ~(w.queued > 0)
  <2>1. w.queued = 0 /\ v.queued = 0 /\ v.failedQueue = w.failedQueue
    BY <1>1, <1>3, Advances
  <2>2. Distinct(v.failedQueue)
    BY <2>1 DEF DistinctParts
  <2> QED
    BY <2>1, <2>2, NothingQueued
<1> QED
  BY <1>2, <1>3

LEMMA PutBackQueue ==
  ASSUME NEW w \in Flush, w.items = <<>>, w.queued <= Len(w.items)
  PROVE  w.queued = 0 /\ QueuedPart(w) = ToSet(w.failedQueue) /\ w.failedQueue \in Seq(Queueable)
<1>1. w.queued = 0 /\ w.failedQueue \in Seq(Queueable)
  BY DEF Flush
<1> QED
  BY <1>1, NothingQueued

Once ==
  /\ Distinct(accepted) /\ Distinct(queue) /\ Distinct(stored)
  /\ \A f \in Flushers : DistinctParts(flush[f])
  /\ \A s \in ToSet(queue) : s \notin ToSet(stored)
  /\ \A f \in Flushers : \A s \in QueuedPart(flush[f]) : s \notin ToSet(queue) /\ s \notin ToSet(stored)
  /\ \A f, g \in Flushers : \A s \in QueuedPart(flush[f]) : s \in QueuedPart(flush[g]) => f = g
  /\ \A s \in Queueable : s \in ToSet(accepted) <=>
       \/ s \in ToSet(queue) \/ s \in ToSet(stored) \/ \E f \in Flushers : s \in QueuedPart(flush[f])

LEMMA NotYetAccepted ==
  ASSUME TypeOK, NEW s, ~Contains(accepted, s)
  PROVE  s \notin ToSet(accepted)
BY DEF TypeOK, Contains, ToSet

LEMMA QueuedInFlush ==
  ASSUME TypeOK, FlushShape, NEW f \in Flushers
  PROVE  QueuedPart(flush[f]) \subseteq Queueable
<1> DEFINE w == flush[f]
<1>1. w \in Flush /\ w.queued <= Len(w.items) /\ Shaped(w)
  BY ShapeOfAll DEF TypeOK
<1> HIDE DEF w
<1>2. w.queued \in Nat /\ Len(w.items) \in Nat /\ w.failedQueue \in Seq(Queueable)
  BY <1>1 DEF Flush
<1>3. \A i \in 1 .. w.queued : w.items[i] \in Queueable
  <2>1. ASSUME NEW i \in 1 .. w.queued PROVE w.items[i] \in Queueable
    <3>1. i \in 1 .. Len(w.items) /\ i <= w.queued
      BY <1>1, <1>2
    <3>2. w.items[i] \in IF i <= w.queued THEN Queueable ELSE Cacheable
      BY <1>1, <3>1 DEF Shaped
    <3> QED
      BY <3>1, <3>2
  <2> QED
    BY <2>1
<1>4. ToSet(w.failedQueue) \subseteq Queueable
  BY <1>2 DEF ToSet
<1> QED
  BY <1>3, <1>4 DEF QueuedPart, QueuedItems, w

LEMMA OnceNext == SessionsDiffer /\ WriterShape /\ Once /\ [Next]_vars => Once'
<1> SUFFICES ASSUME SessionsDiffer, WriterShape, Once, [Next]_vars PROVE Once'
  OBVIOUS
<1>0. TypeOK /\ FlushShape /\ CacheShape
  BY DEF WriterShape
<1>a. /\ queue \in Seq(Queueable) /\ stored \in Seq(Queueable) /\ accepted \in Seq(Sessions)
      /\ ToSet(queue) \subseteq Queueable /\ ToSet(stored) \subseteq Queueable
      /\ Queueable \subseteq Sessions /\ Cacheable \subseteq Sessions
  BY <1>0 DEF TypeOK, ToSet, Sessions
<1>b. \A f \in Flushers : QueuedPart(flush[f]) \subseteq Queueable
  BY <1>0, QueuedInFlush
<1>c. \A f \in Flushers : flush[f] \in Flush /\ flush[f].queued <= Len(flush[f].items) /\ Shaped(flush[f])
  BY <1>0, ShapeOfAll DEF TypeOK
<1>1. ASSUME NEW s \in Queueable, Enqueue(s) PROVE Once'
  <2>1. /\ s \notin ToSet(accepted) /\ queue' = Append(queue, s) /\ accepted' = Append(accepted, s)
        /\ flush' = flush /\ stored' = stored
    BY <1>0, <1>1, NotYetAccepted DEF Enqueue
  <2>2. /\ s \notin ToSet(queue) /\ s \notin ToSet(stored)
        /\ \A f \in Flushers : s \notin QueuedPart(flush[f])
    BY <2>1 DEF Once
  <2>3. ToSet(queue') = ToSet(queue) \cup {s} /\ ToSet(accepted') = ToSet(accepted) \cup {s}
    BY <1>a, <2>1, AppendSet
  <2>4. Distinct(queue') /\ Distinct(accepted')
    BY <1>a, <2>1, <2>2, AppendDistinct DEF Once
  <2>5. \A t \in ToSet(queue') : t \notin ToSet(stored')
    BY <2>1, <2>2, <2>3 DEF Once
  <2>6. \A f \in Flushers : \A t \in QueuedPart(flush'[f]) : t \notin ToSet(queue') /\ t \notin ToSet(stored')
    BY <2>1, <2>2, <2>3 DEF Once
  <2>7. ASSUME NEW t \in Queueable
        PROVE  t \in ToSet(accepted') <=>
                 \/ t \in ToSet(queue') \/ t \in ToSet(stored')
                 \/ \E f \in Flushers : t \in QueuedPart(flush'[f])
    <3>1. CASE t = s
      BY <2>3, <3>1
    <3>2. CASE t # s
      BY <2>1, <2>3, <3>2 DEF Once
    <3> QED
      BY <3>1, <3>2
  <2>8. /\ \A f \in Flushers : DistinctParts(flush'[f])
        /\ \A f, g \in Flushers : \A t \in QueuedPart(flush'[f]) : t \in QueuedPart(flush'[g]) => f = g
        /\ Distinct(stored')
    BY <2>1 DEF Once
  <2> QED
    BY <2>4, <2>5, <2>6, <2>7, <2>8 DEF Once
<1>2. ASSUME NEW s \in Cacheable, Cache(s) PROVE Once'
  <2>1. /\ s \notin ToSet(accepted) /\ accepted' = Append(accepted, s)
        /\ flush' = flush /\ stored' = stored /\ queue' = queue
    BY <1>0, <1>2, NotYetAccepted DEF Cache
  <2>2. ToSet(accepted') = ToSet(accepted) \cup {s} /\ s \notin Queueable
    BY <1>a, <2>1, AppendSet DEF SessionsDiffer
  <2>3. Distinct(accepted')
    BY <1>a, <2>1, AppendDistinct DEF Once
  <2> QED
    BY <2>1, <2>2, <2>3 DEF Once
<1>3. ASSUME NEW f \in Flushers, NEW pc \in {"flush", "shutdown"}, Copy(f, pc) PROVE Once'
  <2>1. PICK v \in Flush :
          /\ flush[f] = Idle /\ flush' = [flush EXCEPT ![f] = v]
          /\ v.queued = Len(queue) /\ (\A i \in 1 .. Len(queue) : v.items[i] = queue[i])
          /\ v.failedQueue = <<>>
    BY <1>0, <1>3, Takes
  <2>2. flush'[f] = v /\ (\A g \in Flushers : g # f => flush'[g] = flush[g])
        /\ accepted' = accepted /\ stored' = stored /\ queue' = <<>>
    BY <1>0, <1>3, <2>1 DEF TypeOK, Copy, TakenQueue
  <2>3. QueuedPart(v) = ToSet(queue) /\ DistinctParts(v)
    BY <1>0, <2>1, QueuedOfTaken DEF Once
  <2>4. QueuedPart(flush[f]) = {}
    BY <2>1, QueuedOfIdle
  <2>5. ToSet(queue') = {} /\ Distinct(queue')
    BY <2>2 DEF ToSet, Distinct
  <2>6. \A g \in Flushers : DistinctParts(flush'[g])
    BY <2>2, <2>3 DEF Once
  <2>7. \A g, h \in Flushers : \A s \in QueuedPart(flush'[g]) : s \in QueuedPart(flush'[h]) => g = h
    BY <2>2, <2>3 DEF Once
  <2>8. \A g \in Flushers : \A s \in QueuedPart(flush'[g]) : s \notin ToSet(queue') /\ s \notin ToSet(stored')
    BY <2>2, <2>3, <2>5 DEF Once
  <2>9. ASSUME NEW s \in Queueable
        PROVE  s \in ToSet(accepted') <=>
                 \/ s \in ToSet(queue') \/ s \in ToSet(stored') \/ \E g \in Flushers : s \in QueuedPart(flush'[g])
    BY <2>2, <2>3, <2>4, <2>5 DEF Once
  <2> QED
    BY <2>2, <2>5, <2>6, <2>7, <2>8, <2>9 DEF Once
<1>4. ASSUME NEW f \in Flushers, Save(f) PROVE Once'
  <2> DEFINE w == flush[f]
             v == Advance(w)
             h == Head(w.items)
  <2>1. /\ w \in Flush /\ w.items # <<>> /\ w.queued <= Len(w.items)
        /\ flush' = [flush EXCEPT ![f] = v]
    BY <1>0, <1>4, Saves
  <2>2. flush'[f] = v /\ (\A g \in Flushers : g # f => flush'[g] = flush[g])
        /\ accepted' = accepted /\ queue' = queue
    BY <1>0, <1>4, <2>1 DEF TypeOK, Save
  <2>3. /\ DistinctParts(v)
        /\ w.queued > 0 => QueuedPart(w) = QueuedPart(v) \cup {h} /\ h \notin QueuedPart(v)
        /\ ~(w.queued > 0) => QueuedPart(w) = QueuedPart(v)
    BY <2>1, QueuedOfSaved DEF Once
  <2> HIDE DEF v, h
  <2>4. /\ w.queued > 0 => Distinct(stored') /\ ToSet(stored') = ToSet(stored) \cup {h}
        /\ ~(w.queued > 0) => stored' = stored
    <3>1. ASSUME w.queued > 0 PROVE Distinct(stored') /\ ToSet(stored') = ToSet(stored) \cup {h}
      <4>1. stored' = Append(stored, h)
        BY <1>4, <3>1 DEF Save, h
      <4>2. h \in QueuedPart(w)
        BY <2>3, <3>1
      <4>3. h \in Queueable /\ h \notin ToSet(stored) /\ Distinct(stored)
        BY <1>b, <4>2 DEF Once
      <4> QED
        BY <1>a, <4>1, <4>3, AppendSet, AppendDistinct
    <3> QED
      BY <1>4, <3>1 DEF Save
  <2>5. \A g \in Flushers : DistinctParts(flush'[g])
    BY <2>2, <2>3 DEF Once
  <2>6. QueuedPart(v) \subseteq QueuedPart(w)
    BY <2>3
  <2>7. \A g, k \in Flushers : \A s \in QueuedPart(flush'[g]) : s \in QueuedPart(flush'[k]) => g = k
    BY <2>2, <2>6 DEF Once
  <2>8. CASE w.queued > 0
    <3>1. \A s \in ToSet(queue') : s \notin ToSet(stored')
      BY <2>2, <2>3, <2>4, <2>8 DEF Once
    <3>2. \A g \in Flushers : \A s \in QueuedPart(flush'[g]) : s \notin ToSet(queue') /\ s \notin ToSet(stored')
      BY <2>2, <2>3, <2>4, <2>8 DEF Once
    <3>3. ASSUME NEW s \in Queueable
          PROVE  s \in ToSet(accepted') <=>
                   \/ s \in ToSet(queue') \/ s \in ToSet(stored')
                   \/ \E g \in Flushers : s \in QueuedPart(flush'[g])
      BY <2>2, <2>3, <2>4, <2>8 DEF Once
    <3> QED
      BY <2>2, <2>4, <2>5, <2>7, <2>8, <3>1, <3>2, <3>3 DEF Once
  <2>9. CASE ~(w.queued > 0)
    <3>1. \A g \in Flushers : QueuedPart(flush'[g]) = QueuedPart(flush[g])
      BY <2>2, <2>3, <2>9
    <3> QED
      BY <2>2, <2>4, <2>5, <2>9, <3>1 DEF Once
  <2> QED
    BY <2>8, <2>9
<1>5. ASSUME NEW f \in Flushers, FailTwice(f) PROVE Once'
  <2> DEFINE w == flush[f]
             h == Head(w.items)
  <2>1. PICK u \in Flush, v \in Flush :
          /\ w \in Flush /\ w.items # <<>> /\ w.queued <= Len(w.items)
          /\ w.pc \in {"flush", "shutdown"} /\ u = Advance(w)
          /\ flush' = [flush EXCEPT ![f] = v]
          /\ v.items = u.items /\ v.queued = u.queued /\ v.pc = w.pc /\ v.keys = w.keys
          /\ v.failedQueue = (IF w.queued > 0 THEN Append(w.failedQueue, h) ELSE w.failedQueue)
          /\ v.failedCache = (IF w.queued > 0 THEN w.failedCache ELSE w.failedCache \cup {h})
          /\ CachedPart(v) = CachedPart(w)
    BY <1>0, <1>5, Fails
  <2>2. flush'[f] = v /\ (\A g \in Flushers : g # f => flush'[g] = flush[g])
        /\ accepted' = accepted /\ queue' = queue /\ stored' = stored
    BY <1>0, <1>5, <2>1 DEF TypeOK, FailTwice
  <2>3. DistinctParts(v) /\ QueuedPart(v) = QueuedPart(w)
    BY <1>c, <2>1, QueuedOfFailed DEF Once
  <2>4. \A g \in Flushers : QueuedPart(flush'[g]) = QueuedPart(flush[g]) /\ DistinctParts(flush'[g])
    BY <2>2, <2>3 DEF Once
  <2> QED
    BY <2>2, <2>4 DEF Once
<1>6. ASSUME NEW f \in Flushers, PutBack(f) PROVE Once'
  <2> DEFINE w == flush[f]
             v == IF w.pc = "flush" THEN Idle ELSE [Idle EXCEPT !.pc = "close"]
  <2>1. /\ w.items = <<>> /\ queue' = w.failedQueue \o queue /\ flush' = [flush EXCEPT ![f] = v]
        /\ stored' = stored /\ accepted' = accepted
    BY <1>6 DEF PutBack, RequeuedFirst
  <2>2. QueuedPart(v) = {} /\ DistinctParts(v)
    BY QueuedOfIdle
  <2>3. flush'[f] = v /\ (\A g \in Flushers : g # f => flush'[g] = flush[g])
    BY <1>0, <2>1 DEF TypeOK
  <2>4. QueuedPart(w) = ToSet(w.failedQueue) /\ w.failedQueue \in Seq(Queueable) /\ Distinct(w.failedQueue)
    BY <1>c, <2>1, PutBackQueue DEF Once, DistinctParts
  <2> HIDE DEF v
  <2>5. ToSet(queue') = QueuedPart(w) \cup ToSet(queue)
    BY <1>a, <2>1, <2>4, ConcatSet
  <2>6. Distinct(queue')
    <3>1. ToSet(w.failedQueue) \cap ToSet(queue) = {}
      BY <2>4 DEF Once
    <3>2. Distinct(queue)
      BY DEF Once
    <3> QED
      BY <1>a, <2>1, <2>4, <3>1, <3>2, ConcatDistinct
  <2>7. \A g \in Flushers : DistinctParts(flush'[g])
    BY <2>2, <2>3 DEF Once
  <2>8. \A g, k \in Flushers : \A s \in QueuedPart(flush'[g]) : s \in QueuedPart(flush'[k]) => g = k
    BY <2>2, <2>3 DEF Once
  <2>9. \A s \in ToSet(queue') : s \notin ToSet(stored')
    BY <2>1, <2>5 DEF Once
  <2>10. \A g \in Flushers : \A s \in QueuedPart(flush'[g]) : s \notin ToSet(queue') /\ s \notin ToSet(stored')
    BY <2>1, <2>2, <2>3, <2>5 DEF Once
  <2>11. ASSUME NEW s \in Queueable
         PROVE  s \in ToSet(accepted') <=>
                  \/ s \in ToSet(queue') \/ s \in ToSet(stored')
                  \/ \E g \in Flushers : s \in QueuedPart(flush'[g])
    BY <2>1, <2>2, <2>3, <2>5 DEF Once
  <2> QED
    BY <2>1, <2>6, <2>7, <2>8, <2>9, <2>10, <2>11 DEF Once
<1>7. ASSUME NEW f \in Flushers, Close(f) PROVE Once'
  <2>1. /\ flush' = [flush EXCEPT ![f] = Idle] /\ flush[f].pc = "close"
        /\ UNCHANGED <<queue, stored, accepted>>
    BY <1>7 DEF Close
  <2>2. flush[f] = [Idle EXCEPT !.pc = "close"]
    BY <1>c, <2>1 DEF Shaped
  <2>3. flush'[f] = Idle /\ (\A g \in Flushers : g # f => flush'[g] = flush[g])
    BY <1>0, <2>1 DEF TypeOK
  <2>4. \A g \in Flushers : QueuedPart(flush'[g]) = QueuedPart(flush[g]) /\ DistinctParts(flush'[g])
    BY <2>2, <2>3, QueuedOfIdle DEF Once
  <2> QED
    BY <2>1, <2>4 DEF Once
<1>8. CASE UNCHANGED vars
  BY <1>8 DEF Once, vars
<1> QED
  BY <1>1, <1>2, <1>3, <1>4, <1>5, <1>6, <1>7, <1>8 DEF Next

LEMMA PlacesIn ==
  ASSUME NEW q, NEW s, Distinct(q)
  PROVE  Cardinality({i \in DOMAIN q : q[i] = s}) = IF s \in ToSet(q) THEN 1 ELSE 0
<1>1. CASE s \in ToSet(q)
  <2>1. PICK i \in DOMAIN q : q[i] = s
    BY <1>1 DEF ToSet
  <2>2. {j \in DOMAIN q : q[j] = s} = {i}
    BY <2>1 DEF Distinct
  <2> QED
    BY <1>1, <2>2, FS_Singleton
<1>2. CASE s \notin ToSet(q)
  <2>1. {j \in DOMAIN q : q[j] = s} = {}
    BY <1>2 DEF ToSet
  <2> QED
    BY <1>2, <2>1, FS_EmptySet
<1> QED
  BY <1>1, <1>2

LEMMA HeldQueued ==
  ASSUME SessionsDiffer, TypeOK, FlushShape, NEW f \in Flushers, NEW s \in Queueable
  PROVE  s \in Held(f) <=> s \in QueuedPart(flush[f])
<1> DEFINE w == flush[f]
<1>1. w \in Flush /\ w.queued <= Len(w.items) /\ Shaped(w)
  BY ShapeOfAll DEF TypeOK
<1> HIDE DEF w
<1>2. /\ w.queued \in Nat /\ Len(w.items) \in Nat /\ DOMAIN w.items = 1 .. Len(w.items)
      /\ w.failedCache \subseteq Cacheable
  BY <1>1 DEF Flush
<1>3. s \notin Cacheable
  BY DEF SessionsDiffer
<1>4. s \in ToSet(w.items) <=> s \in QueuedItems(w)
  <2>1. ASSUME NEW i \in 1 .. Len(w.items), w.items[i] = s PROVE i \in 1 .. w.queued
    BY <1>1, <1>2, <1>3, <2>1 DEF Shaped
  <2>2. \A i \in 1 .. w.queued : i \in 1 .. Len(w.items)
    BY <1>1, <1>2
  <2> QED
    BY <1>2, <2>1, <2>2 DEF ToSet, QueuedItems
<1> QED
  BY <1>2, <1>3, <1>4 DEF Held, QueuedPart, w

LEMMA OnceCounts == ASSUME SessionsDiffer, WriterShape, Once PROVE QueueExactlyOnce
<1>0. TypeOK /\ FlushShape
  BY DEF WriterShape
<1> SUFFICES ASSUME NEW s \in Queueable, Contains(accepted, s)
             PROVE  1 = Cardinality({i \in DOMAIN queue : queue[i] = s})
                        + Cardinality({f \in Flushers : s \in Held(f)})
                        + Cardinality({i \in DOMAIN stored : stored[i] = s})
  BY DEF QueueExactlyOnce
<1>1. s \in ToSet(accepted)
  BY <1>0 DEF TypeOK, Contains, ToSet
<1>2. \/ s \in ToSet(queue) \/ s \in ToSet(stored) \/ \E f \in Flushers : s \in QueuedPart(flush[f])
  BY <1>1 DEF Once
<1>3. /\ Cardinality({i \in DOMAIN queue : queue[i] = s}) = IF s \in ToSet(queue) THEN 1 ELSE 0
      /\ Cardinality({i \in DOMAIN stored : stored[i] = s}) = IF s \in ToSet(stored) THEN 1 ELSE 0
  BY PlacesIn DEF Once
<1> DEFINE H == {f \in Flushers : s \in Held(f)}
<1>4. H = {f \in Flushers : s \in QueuedPart(flush[f])}
  BY <1>0, HeldQueued
<1> HIDE DEF H
<1>5. CASE H = {}
  <2>1. \A f \in Flushers : s \notin QueuedPart(flush[f])
    BY <1>4, <1>5
  <2>2. s \in ToSet(queue) <=> s \notin ToSet(stored)
    BY <1>2, <2>1 DEF Once
  <2>3. Cardinality(H) = 0
    BY <1>5, FS_EmptySet
  <2> QED
    BY <1>3, <2>2, <2>3 DEF H
<1>6. CASE H # {}
  <2>1. PICK f \in Flushers : s \in QueuedPart(flush[f])
    BY <1>4, <1>6
  <2>2. H = {f}
    BY <1>4, <2>1 DEF Once
  <2>3. s \notin ToSet(queue) /\ s \notin ToSet(stored)
    BY <2>1 DEF Once
  <2>4. Cardinality(H) = 1
    BY <2>2, FS_Singleton
  <2> QED
    BY <1>3, <2>3, <2>4 DEF H
<1> QED
  BY <1>5, <1>6

LEMMA OnceInit == Init => Once
<1> SUFFICES ASSUME Init PROVE Once
  OBVIOUS
<1>1. queue = <<>> /\ stored = <<>> /\ accepted = <<>> /\ flush = [f \in Flushers |-> Idle]
  BY DEF Init
<1>2. \A f \in Flushers : QueuedPart(flush[f]) = {} /\ DistinctParts(flush[f])
  BY <1>1, QueuedOfIdle
<1>3. ToSet(queue) = {} /\ ToSet(stored) = {} /\ ToSet(accepted) = {}
  BY <1>1 DEF ToSet
<1>4. Distinct(queue) /\ Distinct(stored) /\ Distinct(accepted)
  BY <1>1 DEF Distinct
<1> QED
  BY <1>2, <1>3, <1>4 DEF Once

-----------------------------------------------------------------------------
\* The order in which sessions were accepted: x before y in a
Earlier(x, y, a) == \E i, j \in DOMAIN a : i < j /\ a[i] = x /\ a[j] = y

InLine(q, a) == \A i, j \in DOMAIN q : i < j => Earlier(q[i], q[j], a)

LineParts(w, a) ==
  /\ \A i, j \in 1 .. w.queued : i < j => Earlier(w.items[i], w.items[j], a)
  /\ InLine(w.failedQueue, a)
  /\ \A x \in ToSet(w.failedQueue), y \in QueuedItems(w) : Earlier(x, y, a)

\* As long as flushes did not overlap, at most one is at work, what it failed to save, what
\* it has yet to save and the queue are in line, and a session that was passed was refused.
InTurn ==
  /\ \A f, g \in Flushers : flush[f] # Idle /\ flush[g] # Idle => f = g
  /\ InLine(queue, accepted)
  /\ \A f \in Flushers : LineParts(flush[f], accepted)
  /\ \A f \in Flushers : \A x \in QueuedPart(flush[f]), y \in ToSet(queue) : Earlier(x, y, accepted)
  /\ \A f \in Flushers : ToSet(flush[f].failedQueue) \subseteq refused
  /\ \A i, j \in DOMAIN stored : i < j =>
       Earlier(stored[i], stored[j], accepted) \/ stored[j] \in refused
  /\ \A s \in Queueable, t \in ToSet(stored) : Earlier(s, t, accepted) =>
       s \in refused \/ s \in ToSet(stored)

LEMMA EarlierOnce ==
  ASSUME NEW S, NEW a \in Seq(S), Distinct(a), NEW x, NEW y, Earlier(x, y, a)
  PROVE  ~Earlier(y, x, a) /\ x # y
<1>1. PICK i \in DOMAIN a, j \in DOMAIN a : i < j /\ a[i] = x /\ a[j] = y
  BY DEF Earlier
<1>2. DOMAIN a = 1 .. Len(a) /\ Len(a) \in Nat
  OBVIOUS
<1>3. x # y
  BY <1>1, <1>2 DEF Distinct
<1>4. ASSUME NEW m \in DOMAIN a, NEW n \in DOMAIN a, m < n, a[m] = y, a[n] = x PROVE FALSE
  <2>1. m = j /\ n = i
    BY <1>1, <1>4 DEF Distinct
  <2> QED
    BY <1>1, <1>2, <1>4, <2>1
<1> QED
  BY <1>3, <1>4 DEF Earlier

LEMMA EarlierTotal ==
  ASSUME NEW S, NEW a \in Seq(S), NEW x \in ToSet(a), NEW y \in ToSet(a), x # y
  PROVE  Earlier(x, y, a) \/ Earlier(y, x, a)
<1>1. PICK i \in DOMAIN a, j \in DOMAIN a : a[i] = x /\ a[j] = y
  BY DEF ToSet
<1>2. i # j /\ DOMAIN a = 1 .. Len(a) /\ Len(a) \in Nat
  BY <1>1
<1>3. i < j \/ j < i
  BY <1>2
<1> QED
  BY <1>1, <1>3 DEF Earlier

LEMMA EarlierAppend ==
  ASSUME NEW S, NEW a \in Seq(S), NEW s \in S, NEW b, b = Append(a, s)
  PROVE  /\ \A x, y : Earlier(x, y, a) => Earlier(x, y, b)
         /\ \A x \in ToSet(a) : Earlier(x, s, b)
         /\ \A x, y : Earlier(x, y, b) => Earlier(x, y, a) \/ y = s
<1>1. /\ DOMAIN a = 1 .. Len(a) /\ Len(a) \in Nat /\ DOMAIN b = 1 .. Len(a) + 1
      /\ b[Len(a) + 1] = s /\ \A i \in 1 .. Len(a) : b[i] = a[i]
  OBVIOUS
<1>2. ASSUME NEW x, NEW y, Earlier(x, y, a) PROVE Earlier(x, y, b)
  <2>1. PICK i \in 1 .. Len(a), j \in 1 .. Len(a) : i < j /\ a[i] = x /\ a[j] = y
    BY <1>1, <1>2 DEF Earlier
  <2>2. i \in DOMAIN b /\ j \in DOMAIN b /\ b[i] = x /\ b[j] = y
    BY <1>1, <2>1
  <2> QED
    BY <2>1, <2>2 DEF Earlier
<1>3. ASSUME NEW x \in ToSet(a) PROVE Earlier(x, s, b)
  <2>1. PICK i \in 1 .. Len(a) : a[i] = x
    BY <1>1 DEF ToSet
  <2>2. i \in DOMAIN b /\ Len(a) + 1 \in DOMAIN b /\ i < Len(a) + 1 /\ b[i] = x
    BY <1>1, <2>1
  <2> QED
    BY <1>1, <2>2 DEF Earlier
<1>4. ASSUME NEW x, NEW y, Earlier(x, y, b), y # s PROVE Earlier(x, y, a)
  <2>1. PICK i \in 1 .. Len(a) + 1, j \in 1 .. Len(a) + 1 : i < j /\ b[i] = x /\ b[j] = y
    BY <1>1, <1>4 DEF Earlier
  <2>2. j # Len(a) + 1
    BY <1>1, <1>4, <2>1
  <2>3. i \in 1 .. Len(a) /\ j \in 1 .. Len(a)
    BY <1>1, <2>1, <2>2
  <2> QED
    BY <1>1, <2>1, <2>3 DEF Earlier
<1> QED
  BY <1>2, <1>3, <1>4

LEMMA AppendInLine ==
  ASSUME NEW S, NEW q \in Seq(S), NEW s \in S, NEW a, InLine(q, a), \A x \in ToSet(q) : Earlier(x, s, a)
  PROVE  InLine(Append(q, s), a)
<1> DEFINE b == Append(q, s)
<1>1. /\ DOMAIN q = 1 .. Len(q) /\ Len(q) \in Nat /\ DOMAIN b = 1 .. Len(q) + 1
      /\ b[Len(q) + 1] = s /\ \A i \in 1 .. Len(q) : b[i] = q[i]
  OBVIOUS
<1> HIDE DEF b
<1>2. ASSUME NEW i \in 1 .. Len(q) + 1, NEW j \in 1 .. Len(q) + 1, i < j
      PROVE  Earlier(b[i], b[j], a)
  <2>1. i \in 1 .. Len(q) /\ b[i] = q[i]
    BY <1>1, <1>2
  <2>2. CASE j = Len(q) + 1
    BY <1>1, <2>1, <2>2 DEF ToSet
  <2>3. CASE j # Len(q) + 1
    <3>1. j \in 1 .. Len(q) /\ b[j] = q[j]
      BY <1>1, <2>3
    <3> QED
      BY <1>1, <1>2, <2>1, <3>1 DEF InLine
  <2> QED
    BY <2>2, <2>3
<1>3. InLine(b, a)
  BY <1>1, <1>2 DEF InLine
<1> QED
  BY <1>3 DEF b

LEMMA ConcatInLine ==
  ASSUME NEW S, NEW p \in Seq(S), NEW q \in Seq(S), NEW a, InLine(p, a), InLine(q, a),
         \A x \in ToSet(p), y \in ToSet(q) : Earlier(x, y, a)
  PROVE  InLine(p \o q, a)
<1> DEFINE r == p \o q
<1>1. /\ DOMAIN r = 1 .. Len(p) + Len(q) /\ DOMAIN p = 1 .. Len(p) /\ DOMAIN q = 1 .. Len(q)
      /\ Len(p) \in Nat /\ Len(q) \in Nat
      /\ \A i \in 1 .. Len(p) : r[i] = p[i]
      /\ \A i \in 1 .. Len(p) + Len(q) : i > Len(p) =>
           i - Len(p) \in 1 .. Len(q) /\ r[i] = q[i - Len(p)]
  BY ConcatFacts
<1> HIDE DEF r
<1>2. ASSUME NEW i \in 1 .. Len(p) + Len(q), NEW j \in 1 .. Len(p) + Len(q), i < j
      PROVE  Earlier(r[i], r[j], a)
  <2>1. CASE j <= Len(p)
    <3>1. i \in 1 .. Len(p) /\ j \in 1 .. Len(p)
      BY <1>1, <1>2, <2>1
    <3> QED
      BY <1>1, <1>2, <3>1 DEF InLine
  <2>2. CASE i <= Len(p) /\ j > Len(p)
    <3>1. /\ i \in 1 .. Len(p) /\ j - Len(p) \in 1 .. Len(q)
          /\ r[i] = p[i] /\ r[j] = q[j - Len(p)]
      BY <1>1, <2>2
    <3>2. r[i] \in ToSet(p) /\ r[j] \in ToSet(q)
      BY <1>1, <3>1 DEF ToSet
    <3> QED
      BY <3>2
  <2>3. CASE i > Len(p)
    <3>1. /\ i - Len(p) \in 1 .. Len(q) /\ j - Len(p) \in 1 .. Len(q) /\ i - Len(p) < j - Len(p)
          /\ r[i] = q[i - Len(p)] /\ r[j] = q[j - Len(p)]
      BY <1>1, <1>2, <2>3
    <3> QED
      BY <1>1, <3>1 DEF InLine
  <2> QED
    BY <1>1, <2>1, <2>2, <2>3
<1>3. InLine(r, a)
  BY <1>1, <1>2 DEF InLine
<1> QED
  BY <1>3 DEF r

\* The lines of a flush at its steps
LEMMA LineOfNothing ==
  ASSUME NEW v, v.queued = 0, NEW a, InLine(v.failedQueue, a)
  PROVE  LineParts(v, a)
BY NothingQueued DEF LineParts

LEMMA LineOfIdle ==
  ASSUME NEW v, v = Idle \/ v = [Idle EXCEPT !.pc = "close"], NEW a
  PROVE  LineParts(v, a) /\ ToSet(v.failedQueue) = {}
<1>1. v.queued = 0 /\ v.failedQueue = <<>>
  BY EmptyShape
<1>2. InLine(v.failedQueue, a)
  BY <1>1 DEF InLine
<1> QED
  BY <1>1, <1>2, LineOfNothing DEF ToSet

LEMMA LineOfTaken ==
  ASSUME TypeOK, NEW a, InLine(queue, a), NEW v, v.queued = Len(queue),
         \A i \in 1 .. Len(queue) : v.items[i] = queue[i], v.failedQueue = <<>>
  PROVE  LineParts(v, a) /\ ToSet(v.failedQueue) = {}
<1>1. DOMAIN queue = 1 .. Len(queue)
  BY DEF TypeOK
<1>2. ToSet(v.failedQueue) = {} /\ InLine(v.failedQueue, a)
  BY DEF ToSet, InLine
<1>3. \A i, j \in 1 .. v.queued : i < j => Earlier(v.items[i], v.items[j], a)
  BY <1>1 DEF InLine
<1> QED
  BY <1>2, <1>3 DEF LineParts

LEMMA LineOfAdvanced ==
  ASSUME NEW w \in Flush, w.items # <<>>, w.queued <= Len(w.items), w.queued > 0,
         NEW u, u = Advance(w), NEW h, h = Head(w.items), NEW a, LineParts(w, a)
  PROVE  LineParts(u, a) /\ \A y \in QueuedItems(u) : Earlier(h, y, a)
<1>1. /\ u.queued = w.queued - 1 /\ h = w.items[1] /\ u.failedQueue = w.failedQueue /\ w.queued \in Nat
      /\ \A i \in 1 .. u.queued : i + 1 \in 1 .. w.queued /\ u.items[i] = w.items[i + 1]
      /\ QueuedItems(w) = QueuedItems(u) \cup {h}
  BY AdvanceQueue, Advances DEF Flush
<1>2. ASSUME NEW i \in 1 .. u.queued, NEW j \in 1 .. u.queued, i < j
      PROVE  Earlier(u.items[i], u.items[j], a)
  <2>1. i + 1 < j + 1
    BY <1>1, <1>2
  <2> QED
    BY <1>1, <2>1 DEF LineParts
<1>3. ASSUME NEW i \in 1 .. u.queued PROVE Earlier(h, u.items[i], a)
  <2>1. 1 \in 1 .. w.queued /\ 1 < i + 1
    BY <1>1
  <2> QED
    BY <1>1, <2>1 DEF LineParts
<1>4. \A y \in QueuedItems(u) : Earlier(h, y, a)
  BY <1>3 DEF QueuedItems
<1> QED
  BY <1>1, <1>2, <1>4 DEF LineParts

LEMMA LineOfFailed ==
  ASSUME NEW w \in Flush, w.items # <<>>, w.queued <= Len(w.items), w.queued > 0, Shaped(w),
         NEW a, LineParts(w, a), NEW v, v.items = Advance(w).items, v.queued = Advance(w).queued,
         v.failedQueue = Append(w.failedQueue, Head(w.items))
  PROVE  LineParts(v, a) /\ ToSet(v.failedQueue) = ToSet(w.failedQueue) \cup {Head(w.items)}
<1> DEFINE u == Advance(w)
           h == Head(w.items)
<1>1. /\ u.queued = w.queued - 1 /\ u.failedQueue = w.failedQueue /\ w.failedQueue \in Seq(Queueable)
      /\ QueuedItems(w) = QueuedItems(u) \cup {h} /\ h = w.items[1]
      /\ w.queued \in Nat /\ Len(w.items) \in Nat
  <2>1. w.failedQueue \in Seq(Queueable) /\ w.queued \in Nat /\ Len(w.items) \in Nat
    BY DEF Flush
  <2>2. u.failedQueue = w.failedQueue
    BY Advances
  <2> QED
    BY <2>1, <2>2, AdvanceQueue
<1>2. LineParts(u, a) /\ \A y \in QueuedItems(u) : Earlier(h, y, a)
  BY LineOfAdvanced
<1>3. h \in Queueable
  <2>1. 1 \in 1 .. Len(w.items) /\ 1 <= w.queued
    BY <1>1
  <2> QED
    BY <1>1, <2>1 DEF Shaped
<1>4. ToSet(v.failedQueue) = ToSet(w.failedQueue) \cup {h}
  BY <1>1, <1>3, AppendSet
<1>5. InLine(v.failedQueue, a)
  <2>1. InLine(w.failedQueue, a) /\ \A x \in ToSet(w.failedQueue) : Earlier(x, h, a)
    BY <1>1 DEF LineParts
  <2> QED
    BY <1>1, <1>3, <2>1, AppendInLine
<1>6. QueuedItems(v) = QueuedItems(u)
  BY DEF QueuedItems
<1>7. \A x \in ToSet(v.failedQueue), y \in QueuedItems(v) : Earlier(x, y, a)
  BY <1>1, <1>2, <1>4, <1>6 DEF LineParts
<1>8. \A i, j \in 1 .. v.queued : i < j => Earlier(v.items[i], v.items[j], a)
  BY <1>2 DEF LineParts
<1> QED
  BY <1>4, <1>5, <1>7, <1>8 DEF LineParts

\* When a session is accepted: the order grows, behind all that were accepted before.
LEMMA InTurnAccepts ==
  ASSUME WriterShape, Once, InTurn, NEW s \in Sessions, accepted' = Append(accepted, s),
         s \notin ToSet(accepted), UNCHANGED <<flush, stored, refused>>,
         queue' = queue \/ (s \in Queueable /\ queue' = Append(queue, s))
  PROVE  InTurn'
<1>1. /\ queue \in Seq(Queueable) /\ accepted \in Seq(Sessions)
      /\ ToSet(queue) \subseteq Queueable /\ ToSet(stored) \subseteq Queueable
  BY DEF WriterShape, TypeOK, ToSet
<1>2. /\ \A x, y : Earlier(x, y, accepted) => Earlier(x, y, accepted')
      /\ \A x \in ToSet(accepted) : Earlier(x, s, accepted')
      /\ \A x, y : Earlier(x, y, accepted') => Earlier(x, y, accepted) \/ y = s
  BY ZenonT(40), <1>1, EarlierAppend
<1>3. \A f \in Flushers : QueuedPart(flush[f]) \subseteq ToSet(accepted)
  <2>1. \A f \in Flushers : QueuedPart(flush[f]) \subseteq Queueable
    BY QueuedInFlush DEF WriterShape
  <2> QED
    BY <2>1 DEF Once
<1>4. ToSet(queue) \subseteq ToSet(accepted) /\ ToSet(stored) \subseteq ToSet(accepted)
  BY <1>1 DEF Once
<1>5. InLine(queue, accepted')
  BY <1>2 DEF InLine, InTurn
<1>6. ToSet(queue') \subseteq ToSet(queue) \cup {s} /\ InLine(queue', accepted')
  <2>1. CASE queue' = queue
    BY <1>5, <2>1
  <2>2. CASE s \in Queueable /\ queue' = Append(queue, s)
    BY <1>1, <1>2, <1>4, <1>5, <2>2, AppendSet, AppendInLine
  <2> QED
    BY <2>1, <2>2
<1>7. \A f \in Flushers : LineParts(flush[f], accepted')
  <2>1. ASSUME NEW f \in Flushers PROVE LineParts(flush[f], accepted')
    <3> DEFINE w == flush[f]
    <3>1. LineParts(w, accepted)
      BY DEF InTurn
    <3> HIDE DEF w
    <3>2. InLine(w.failedQueue, accepted')
      BY <1>2, <3>1 DEF LineParts, InLine
    <3>3. LineParts(w, accepted')
      BY <1>2, <3>1, <3>2 DEF LineParts
    <3> QED
      BY <3>3 DEF w
  <2> QED
    BY <2>1
<1>8. \A f \in Flushers : \A x \in QueuedPart(flush[f]), y \in ToSet(queue') : Earlier(x, y, accepted')
  BY <1>2, <1>3, <1>6 DEF InTurn
<1>9. \A i, j \in DOMAIN stored : i < j =>
        Earlier(stored[i], stored[j], accepted') \/ stored[j] \in refused
  BY <1>2 DEF InTurn
<1>10. \A x \in Queueable, t \in ToSet(stored) : Earlier(x, t, accepted') =>
         x \in refused \/ x \in ToSet(stored)
  BY <1>2, <1>4 DEF InTurn
<1>11. /\ \A f, g \in Flushers : flush[f] # Idle /\ flush[g] # Idle => f = g
       /\ \A f \in Flushers : ToSet(flush[f].failedQueue) \subseteq refused
  BY DEF InTurn
<1> QED
  BY <1>6, <1>7, <1>8, <1>9, <1>10, <1>11 DEF InTurn

\* A saved session is behind those saved, unless it was refused before.
LEMMA InTurnSaves ==
  ASSUME WriterShape, Once, InTurn, NEW f \in Flushers, Save(f), flush[f].queued > 0,
         NEW h, h = Head(flush[f].items)
  PROVE  /\ stored' = Append(stored, h) /\ h \in Queueable
         /\ \A i, j \in DOMAIN stored' : i < j =>
              Earlier(stored'[i], stored'[j], accepted) \/ stored'[j] \in refused
         /\ \A s \in Queueable, t \in ToSet(stored') : Earlier(s, t, accepted) =>
              s \in refused \/ s \in ToSet(stored')
<1> DEFINE w == flush[f]
<1>0. TypeOK /\ FlushShape
  BY DEF WriterShape
<1>1. /\ w \in Flush /\ w.items # <<>> /\ w.queued <= Len(w.items) /\ w.queued > 0
      /\ w.pc \in {"flush", "shutdown"}
  BY <1>0, Saves
<1>2. stored' = Append(stored, h)
  BY DEF Save
<1>3. QueuedItems(w) = QueuedItems(Advance(w)) \cup {h} /\ LineParts(w, accepted)
  BY <1>1, AdvanceQueue DEF InTurn
<1>4. \A y \in QueuedItems(Advance(w)) : Earlier(h, y, accepted)
  BY <1>1, <1>3, LineOfAdvanced
<1>5. h \in QueuedPart(w) /\ h \in Queueable
  <2>1. QueuedPart(w) \subseteq Queueable
    BY <1>0, QueuedInFlush
  <2> QED
    BY <1>3, <2>1 DEF QueuedPart
<1>6. /\ accepted \in Seq(Sessions) /\ stored \in Seq(Queueable) /\ Distinct(accepted)
      /\ DOMAIN stored = 1 .. Len(stored) /\ Len(stored) \in Nat
      /\ ToSet(stored) \subseteq Queueable
  BY <1>0 DEF TypeOK, Once, ToSet
<1>7. h \in ToSet(accepted) /\ h \notin ToSet(stored) /\ ToSet(stored) \subseteq ToSet(accepted)
  BY <1>5, <1>6 DEF Once
<1>8. ASSUME NEW t \in ToSet(stored) PROVE Earlier(t, h, accepted) \/ h \in refused
  <2>1. t # h /\ t \in ToSet(accepted)
    BY <1>7, <1>8
  <2>2. CASE Earlier(h, t, accepted)
    BY <1>5, <1>7, <1>8, <2>2 DEF InTurn
  <2> QED
    BY <1>6, <1>7, <2>1, <2>2, EarlierTotal
<1>9. ASSUME NEW s \in Queueable, Earlier(s, h, accepted) PROVE s \in refused \/ s \in ToSet(stored)
  <2>1. ~Earlier(h, s, accepted) /\ s # h
    BY <1>6, <1>9, EarlierOnce
  <2>2. s \in ToSet(accepted)
    BY <1>9 DEF Earlier, ToSet
  <2>3. s \notin ToSet(queue)
    BY <1>5, <2>1 DEF InTurn
  <2>4. ASSUME NEW g \in Flushers, s \in QueuedPart(flush[g]) PROVE s \in refused
    <3>1. g = f
      <4>1. flush[f] # Idle
        BY <1>1 DEF Idle
      <4>2. flush[g] # Idle
        BY <2>4, QueuedOfIdle
      <4> QED
        BY <4>1, <4>2 DEF InTurn
    <3>2. s \notin QueuedItems(w)
      BY <1>3, <1>4, <2>1
    <3> QED
      BY <2>4, <3>1, <3>2 DEF QueuedPart, InTurn
  <2> QED
    BY <2>2, <2>3, <2>4 DEF Once
<1>10. ToSet(stored') = ToSet(stored) \cup {h}
  BY <1>2, <1>5, <1>6, AppendSet
<1>11. \A s \in Queueable, t \in ToSet(stored') : Earlier(s, t, accepted) =>
         s \in refused \/ s \in ToSet(stored')
  BY <1>9, <1>10 DEF InTurn
<1>12. ASSUME NEW i \in DOMAIN stored', NEW j \in DOMAIN stored', i < j
       PROVE  Earlier(stored'[i], stored'[j], accepted) \/ stored'[j] \in refused
  <2>1. /\ DOMAIN stored' = 1 .. Len(stored) + 1 /\ stored'[Len(stored) + 1] = h
        /\ \A m \in 1 .. Len(stored) : stored'[m] = stored[m]
    BY <1>2, <1>6
  <2>2. i \in 1 .. Len(stored) /\ stored'[i] = stored[i]
    BY <1>6, <1>12, <2>1
  <2>3. CASE j = Len(stored) + 1
    <3>1. stored[i] \in ToSet(stored)
      BY <1>6, <2>2 DEF ToSet
    <3> QED
      BY <1>8, <2>1, <2>2, <2>3, <3>1
  <2>4. CASE j # Len(stored) + 1
    <3>1. j \in 1 .. Len(stored) /\ stored'[j] = stored[j]
      BY <1>6, <2>1, <2>4
    <3> QED
      BY <1>6, <1>12, <2>2, <3>1 DEF InTurn
  <2> QED
    BY <2>3, <2>4
<1> QED
  BY <1>2, <1>5, <1>11, <1>12

LEMMA InTurnNext ==
  WriterShape /\ Once /\ (~overlapped => InTurn) /\ [Next]_vars => (~overlapped => InTurn)'
<1> SUFFICES ASSUME WriterShape, Once, ~overlapped => InTurn, [Next]_vars, ~overlapped' PROVE InTurn'
  OBVIOUS
<1>0. TypeOK /\ FlushShape /\ CacheShape
  BY DEF WriterShape
<1>a. ~overlapped
  <2>1. overlapped => overlapped'
    BY <1>0 DEF Next, Enqueue, Cache, Copy, Save, FailTwice, PutBack, Close, vars, TypeOK
  <2> QED
    BY <2>1
<1>b. InTurn
  BY <1>a
<1>c. \A f \in Flushers : flush[f] \in Flush /\ flush[f].queued <= Len(flush[f].items) /\ Shaped(flush[f])
  BY <1>0, ShapeOfAll DEF TypeOK
<1>d. Queueable \subseteq Sessions /\ Cacheable \subseteq Sessions /\ queue \in Seq(Queueable)
  BY <1>0 DEF Sessions, TypeOK
<1>1. ASSUME NEW s \in Queueable, Enqueue(s) PROVE InTurn'
  <2>1. /\ s \notin ToSet(accepted) /\ queue' = Append(queue, s) /\ accepted' = Append(accepted, s)
        /\ UNCHANGED <<flush, stored, refused>>
    BY <1>0, <1>1, NotYetAccepted DEF Enqueue
  <2> QED
    BY <1>b, <1>d, <2>1, InTurnAccepts
<1>2. ASSUME NEW s \in Cacheable, Cache(s) PROVE InTurn'
  <2>1. /\ s \notin ToSet(accepted) /\ queue' = queue /\ accepted' = Append(accepted, s)
        /\ UNCHANGED <<flush, stored, refused>>
    BY <1>0, <1>2, NotYetAccepted DEF Cache
  <2> QED
    BY <1>b, <1>d, <2>1, InTurnAccepts
<1>3. ASSUME NEW f \in Flushers, NEW pc \in {"flush", "shutdown"}, Copy(f, pc) PROVE InTurn'
  <2>1. PICK v \in Flush :
          /\ flush[f] = Idle /\ flush' = [flush EXCEPT ![f] = v]
          /\ v.queued = Len(queue) /\ (\A i \in 1 .. Len(queue) : v.items[i] = queue[i])
          /\ v.failedQueue = <<>>
    BY <1>0, <1>3, Takes
  <2>2. flush'[f] = v /\ (\A g \in Flushers : g # f => flush'[g] = flush[g])
    BY <1>0, <2>1 DEF TypeOK
  <2>3. UNCHANGED <<accepted, stored, refused>> /\ queue' = <<>>
    BY <1>3 DEF Copy, TakenQueue
  <2>4. \A g \in Flushers : g # f => flush[g] = Idle
    BY <1>3 DEF Copy
  <2>5. LineParts(v, accepted) /\ ToSet(v.failedQueue) = {}
    BY <1>0, <1>b, <2>1, LineOfTaken DEF InTurn
  <2>6. InLine(queue', accepted') /\ ToSet(queue') = {}
    BY <2>3 DEF InLine, ToSet
  <2>7. \A g \in Flushers : LineParts(flush'[g], accepted') /\ ToSet(flush'[g].failedQueue) \subseteq refused'
    BY <1>b, <2>2, <2>3, <2>5 DEF InTurn
  <2>8. \A g, h \in Flushers : flush'[g] # Idle /\ flush'[h] # Idle => g = h
    BY <2>2, <2>4
  <2> QED
    BY <1>b, <2>3, <2>6, <2>7, <2>8 DEF InTurn
<1>4. ASSUME NEW f \in Flushers, Save(f) PROVE InTurn'
  <2> DEFINE w == flush[f]
             v == Advance(w)
             h == Head(w.items)
  <2>1. /\ w \in Flush /\ w.items # <<>> /\ w.queued <= Len(w.items) /\ w.pc \in {"flush", "shutdown"}
        /\ flush' = [flush EXCEPT ![f] = v]
    BY <1>0, <1>4, Saves
  <2>2. flush'[f] = v /\ (\A g \in Flushers : g # f => flush'[g] = flush[g])
    BY <1>0, <2>1 DEF TypeOK
  <2>3. UNCHANGED <<accepted, refused, queue>>
    BY <1>4 DEF Save
  <2>4. w # Idle
    BY <2>1 DEF Idle
  <2>5. v.failedQueue = w.failedQueue /\ w.queued \in Nat
    BY <2>1, Advances DEF Flush
  <2>6. LineParts(w, accepted)
    BY <1>b DEF InTurn
  <2>7. LineParts(v, accepted)
    <3>1. CASE w.queued > 0
      BY <2>1, <2>6, <3>1, LineOfAdvanced
    <3>2. CASE w.queued = 0
      <4>1. v.queued = 0
        BY <2>1, <3>2, Advances
      <4>2. InLine(v.failedQueue, accepted)
        BY <2>5, <2>6 DEF LineParts
      <4> HIDE DEF v
      <4> QED
        BY <4>1, <4>2, LineOfNothing
    <3> QED
      BY <2>5, <3>1, <3>2
  <2>8. QueuedPart(v) \subseteq QueuedPart(w)
    <3>1. DistinctParts(w)
      BY DEF Once
    <3> QED
      BY <2>1, <3>1, QueuedOfSaved
  <2>9. /\ \A i, j \in DOMAIN stored' : i < j =>
             Earlier(stored'[i], stored'[j], accepted) \/ stored'[j] \in refused
        /\ \A s \in Queueable, t \in ToSet(stored') : Earlier(s, t, accepted) =>
             s \in refused \/ s \in ToSet(stored')
    <3>1. CASE w.queued > 0
      BY <1>4, <1>b, <3>1, InTurnSaves
    <3>2. CASE ~(w.queued > 0)
      <4>1. stored' = stored
        BY <1>4, <3>2 DEF Save
      <4> QED
        BY <1>b, <4>1 DEF InTurn
    <3> QED
      BY <3>1, <3>2
  <2> HIDE DEF v
  <2>10. /\ \A g, k \in Flushers : flush'[g] # Idle /\ flush'[k] # Idle => g = k
         /\ \A g \in Flushers : LineParts(flush'[g], accepted')
         /\ \A g \in Flushers : ToSet(flush'[g].failedQueue) \subseteq refused'
    BY <1>b, <2>2, <2>3, <2>4, <2>5, <2>7 DEF InTurn
  <2>11. \A g \in Flushers : \A x \in QueuedPart(flush'[g]), y \in ToSet(queue') : Earlier(x, y, accepted')
    BY <1>b, <2>2, <2>3, <2>8 DEF InTurn
  <2>12. InLine(queue', accepted')
    BY <1>b, <2>3 DEF InTurn
  <2> QED
    BY <2>3, <2>9, <2>10, <2>11, <2>12 DEF InTurn
<1>5. ASSUME NEW f \in Flushers, FailTwice(f) PROVE InTurn'
  <2> DEFINE w == flush[f]
             h == Head(w.items)
  <2>1. PICK u \in Flush, v \in Flush :
          /\ w \in Flush /\ w.items # <<>> /\ w.queued <= Len(w.items)
          /\ w.pc \in {"flush", "shutdown"} /\ u = Advance(w)
          /\ flush' = [flush EXCEPT ![f] = v]
          /\ v.items = u.items /\ v.queued = u.queued /\ v.pc = w.pc /\ v.keys = w.keys
          /\ v.failedQueue = (IF w.queued > 0 THEN Append(w.failedQueue, h) ELSE w.failedQueue)
          /\ v.failedCache = (IF w.queued > 0 THEN w.failedCache ELSE w.failedCache \cup {h})
          /\ CachedPart(v) = CachedPart(w)
    BY <1>0, <1>5, Fails
  <2>2. flush'[f] = v /\ (\A g \in Flushers : g # f => flush'[g] = flush[g])
    BY <1>0, <2>1 DEF TypeOK
  <2>3. UNCHANGED <<accepted, queue, stored>> /\ refused' = refused \cup {h}
    BY <1>5 DEF FailTwice
  <2>4. w # Idle /\ w.queued \in Nat
    BY <2>1 DEF Idle, Flush
  <2>5. LineParts(w, accepted) /\ ToSet(w.failedQueue) \subseteq refused
    BY <1>b DEF InTurn
  <2>6. QueuedPart(v) = QueuedPart(w)
    BY <1>c, <2>1, QueuedOfFailed DEF Once
  <2>7. LineParts(v, accepted) /\ ToSet(v.failedQueue) \subseteq refused'
    <3>1. CASE w.queued > 0
      <4>1. v.failedQueue = Append(w.failedQueue, h)
        BY <2>1, <3>1
      <4>2. LineParts(v, accepted) /\ ToSet(v.failedQueue) = ToSet(w.failedQueue) \cup {h}
        <5>1. Shaped(w)
          BY <1>c
        <5>2. /\ w \in Flush /\ w.items # <<>> /\ w.queued <= Len(w.items)
              /\ v.items = Advance(w).items /\ v.queued = Advance(w).queued
              /\ LineParts(w, accepted)
          BY <2>1, <2>5
        <5> HIDE DEF w
        <5> QED
          BY <3>1, <4>1, <5>1, <5>2, LineOfFailed
      <4> QED
        BY <2>3, <2>5, <4>2
    <3>2. CASE w.queued = 0
      <4>1. v.queued = 0 /\ v.failedQueue = w.failedQueue
        BY <2>1, <3>2, Advances
      <4> QED
        BY <2>3, <2>5, <4>1, LineOfNothing DEF LineParts
    <3> QED
      BY <2>4, <3>1, <3>2
  <2> HIDE DEF h
  <2>8. /\ \A g, k \in Flushers : flush'[g] # Idle /\ flush'[k] # Idle => g = k
        /\ \A g \in Flushers : LineParts(flush'[g], accepted')
        /\ \A g \in Flushers : ToSet(flush'[g].failedQueue) \subseteq refused'
    BY <1>b, <2>2, <2>3, <2>4, <2>7 DEF InTurn
  <2>9. \A g \in Flushers : \A x \in QueuedPart(flush'[g]), y \in ToSet(queue') : Earlier(x, y, accepted')
    BY <1>b, <2>2, <2>3, <2>6 DEF InTurn
  <2>10. InLine(queue', accepted')
    BY <1>b, <2>3 DEF InTurn
  <2>11. \A i, j \in DOMAIN stored' : i < j =>
           Earlier(stored'[i], stored'[j], accepted') \/ stored'[j] \in refused'
    BY <1>b, <2>3 DEF InTurn
  <2>12. \A s \in Queueable, t \in ToSet(stored') : Earlier(s, t, accepted') =>
           s \in refused' \/ s \in ToSet(stored')
    BY <1>b, <2>3 DEF InTurn
  <2> QED
    BY <2>8, <2>9, <2>10, <2>11, <2>12 DEF InTurn
<1>6. ASSUME NEW f \in Flushers, PutBack(f) PROVE InTurn'
  <2> DEFINE w == flush[f]
             v == IF w.pc = "flush" THEN Idle ELSE [Idle EXCEPT !.pc = "close"]
  <2>1. /\ w.items = <<>> /\ queue' = w.failedQueue \o queue /\ flush' = [flush EXCEPT ![f] = v]
        /\ w.pc \in {"flush", "shutdown"} /\ UNCHANGED <<accepted, stored, refused>>
    BY <1>6 DEF PutBack, RequeuedFirst
  <2>2. QueuedPart(v) = {} /\ LineParts(v, accepted) /\ ToSet(v.failedQueue) = {}
    BY QueuedOfIdle, LineOfIdle
  <2>3. flush'[f] = v /\ (\A g \in Flushers : g # f => flush'[g] = flush[g]) /\ w # Idle
    BY <1>0, <2>1 DEF TypeOK, Idle
  <2>4. QueuedPart(w) = ToSet(w.failedQueue) /\ w.failedQueue \in Seq(Queueable)
    BY <1>c, <2>1, PutBackQueue
  <2>5. InLine(queue', accepted)
    <3>1. InLine(w.failedQueue, accepted) /\ InLine(queue, accepted)
      BY <1>b DEF InTurn, LineParts
    <3>2. \A x \in ToSet(w.failedQueue), y \in ToSet(queue) : Earlier(x, y, accepted)
      BY <1>b, <2>4 DEF InTurn
    <3> QED
      BY <1>d, <2>1, <2>4, <3>1, <3>2, ConcatInLine
  <2> HIDE DEF v
  <2>6. \A g \in Flushers : g # f => flush'[g] = Idle /\ QueuedPart(flush'[g]) = {}
    <3>1. \A g \in Flushers : g # f => flush[g] = Idle
      BY <1>b, <2>3 DEF InTurn
    <3> QED
      BY <2>3, <3>1, QueuedOfIdle
  <2>7. /\ \A g, k \in Flushers : flush'[g] # Idle /\ flush'[k] # Idle => g = k
        /\ \A g \in Flushers : LineParts(flush'[g], accepted')
        /\ \A g \in Flushers : ToSet(flush'[g].failedQueue) \subseteq refused'
    BY <1>b, <2>1, <2>2, <2>3, <2>6 DEF InTurn
  <2>8. \A g \in Flushers : \A x \in QueuedPart(flush'[g]), y \in ToSet(queue') : Earlier(x, y, accepted')
    BY <2>2, <2>3, <2>6
  <2>9. /\ \A i, j \in DOMAIN stored' : i < j =>
             Earlier(stored'[i], stored'[j], accepted') \/ stored'[j] \in refused'
        /\ \A s \in Queueable, t \in ToSet(stored') : Earlier(s, t, accepted') =>
             s \in refused' \/ s \in ToSet(stored')
    BY <1>b, <2>1 DEF InTurn
  <2>10. InLine(queue', accepted')
    BY <2>1, <2>5
  <2> QED
    BY <2>7, <2>8, <2>9, <2>10 DEF InTurn
<1>7. ASSUME NEW f \in Flushers, Close(f) PROVE InTurn'
  <2>1. /\ flush' = [flush EXCEPT ![f] = Idle] /\ UNCHANGED <<queue, stored, accepted, refused>>
    BY <1>7 DEF Close
  <2>2. flush'[f] = Idle /\ (\A g \in Flushers : g # f => flush'[g] = flush[g])
    BY <1>0, <2>1 DEF TypeOK
  <2>3. QueuedPart(Idle) = {} /\ LineParts(Idle, accepted) /\ ToSet(Idle.failedQueue) = {}
    BY QueuedOfIdle, LineOfIdle
  <2>4. /\ \A g, k \in Flushers : flush'[g] # Idle /\ flush'[k] # Idle => g = k
        /\ \A g \in Flushers : LineParts(flush'[g], accepted')
        /\ \A g \in Flushers : ToSet(flush'[g].failedQueue) \subseteq refused'
        /\ \A g \in Flushers : \A x \in QueuedPart(flush'[g]), y \in ToSet(queue') : Earlier(x, y, accepted')
    BY <1>b, <2>1, <2>2, <2>3 DEF InTurn
  <2> QED
    BY <1>b, <2>1, <2>4 DEF InTurn
<1>8. CASE UNCHANGED vars
  BY <1>b, <1>8 DEF InTurn, vars
<1> QED
  BY <1>1, <1>2, <1>3, <1>4, <1>5, <1>6, <1>7, <1>8 DEF Next

LEMMA InTurnInit == Init => InTurn
<1> SUFFICES ASSUME Init PROVE InTurn
  OBVIOUS
<1>1. queue = <<>> /\ stored = <<>> /\ accepted = <<>> /\ flush = [f \in Flushers |-> Idle]
  BY DEF Init
<1>2. \A f \in Flushers : /\ flush[f] = Idle /\ LineParts(flush[f], accepted)
                          /\ ToSet(flush[f].failedQueue) = {}
  BY <1>1, LineOfIdle
<1>3. ToSet(queue) = {} /\ ToSet(stored) = {} /\ InLine(queue, accepted)
  BY <1>1 DEF ToSet, InLine
<1> QED
  BY <1>1, <1>2, <1>3 DEF InTurn

LEMMA InTurnFifo == ASSUME WriterShape, Once, ~overlapped => InTurn PROVE FifoPastFailures
<1> SUFFICES ASSUME InTurn, NEW i \in DOMAIN accepted, NEW j \in DOMAIN accepted, NEW f \in Flushers,
                    NEW s \in Queueable, NEW t \in Queueable, s = accepted[i], t = accepted[j], i < j
             PROVE  /\ ~Before(t, s, Line(f))
                    /\ Before(t, s, stored) => s \in refused
                    /\ Contains(stored, t) => s \in refused \/ Contains(stored, s)
  BY DEF FifoPastFailures
<1> DEFINE w == flush[f]
<1>0. TypeOK /\ FlushShape
  BY DEF WriterShape
<1>1. /\ accepted \in Seq(Sessions) /\ Distinct(accepted) /\ queue \in Seq(Queueable)
      /\ stored \in Seq(Queueable) /\ DOMAIN stored = 1 .. Len(stored)
  BY <1>0 DEF TypeOK, Once
<1>2. Earlier(s, t, accepted) /\ ~Earlier(t, s, accepted)
  BY <1>1, EarlierOnce DEF Earlier
<1>3. w \in Flush /\ w.queued <= Len(w.items) /\ Shaped(w) /\ LineParts(w, accepted)
  BY <1>0, ShapeOfAll DEF TypeOK, InTurn
<1>4. \A x \in QueuedPart(w), y \in ToSet(queue) : Earlier(x, y, accepted)
  BY DEF InTurn
<1> DEFINE sub == SubSeq(w.items, 1, w.queued)
<1>5. /\ w.queued \in Nat /\ w.items \in Seq(Sessions) /\ w.failedQueue \in Seq(Queueable)
      /\ Len(w.items) \in Nat
  BY <1>3 DEF Flush
<1>6. /\ Len(sub) = w.queued /\ DOMAIN sub = 1 .. w.queued
      /\ \A m \in 1 .. w.queued : sub[m] = w.items[m]
      /\ sub \in Seq(Sessions)
  BY <1>3, <1>5
<1>7. sub \in Seq(Sessions) /\ w.failedQueue \in Seq(Sessions) /\ queue \in Seq(Sessions)
  BY <1>1, <1>5, <1>6 DEF Sessions
<1> HIDE DEF sub, w
<1>8. ToSet(sub) = QueuedItems(w) /\ InLine(sub, accepted)
  BY <1>3, <1>6 DEF ToSet, QueuedItems, InLine, LineParts
<1>9. InLine(w.failedQueue \o sub, accepted) /\ (w.failedQueue \o sub) \in Seq(Sessions)
      /\ ToSet(w.failedQueue \o sub) = QueuedPart(w)
  <2>1. InLine(w.failedQueue, accepted)
        /\ \A x \in ToSet(w.failedQueue), y \in ToSet(sub) : Earlier(x, y, accepted)
    BY <1>3, <1>8 DEF LineParts
  <2>2. ToSet(w.failedQueue \o sub) = QueuedPart(w)
    BY <1>7, <1>8, ConcatSet DEF QueuedPart
  <2> QED
    BY <1>7, <1>8, <2>1, <2>2, ConcatInLine
<1>10. InLine(w.failedQueue \o sub \o queue, accepted)
  <2>1. InLine(queue, accepted)
    BY DEF InTurn
  <2> QED
    BY <1>4, <1>7, <1>9, <2>1, ConcatInLine
<1>11. ~Before(t, s, Line(f))
  BY <1>2, <1>10 DEF Before, Line, InLine, sub, w
<1>12. Before(t, s, stored) => s \in refused
  BY <1>2 DEF Before, InTurn
<1>13. Contains(stored, t) => s \in refused \/ Contains(stored, s)
  <2>1. \A x : Contains(stored, x) <=> x \in ToSet(stored)
    BY <1>1 DEF Contains, ToSet
  <2> QED
    BY <1>2, <2>1 DEF InTurn
<1> QED
  BY <1>11, <1>12, <1>13

\* A queued session is in one place, and is saved in the order it was accepted as far as
\* no save failed and no flushes overlapped (FlushAll, writer.go:63-64, 89-91).
THEOREM WriterKeepsTheOrder == SessionsDiffer /\ Spec => [](QueueExactlyOnce /\ FifoPastFailures)
<1>1. SessionsDiffer => []SessionsDiffer
  <2>1. SessionsDiffer /\ [TRUE]_vars => SessionsDiffer'
    BY DEF SessionsDiffer
  <2> QED
    BY <2>1, PTL
<1>2. SessionsDiffer /\ WriterShape /\ Once => QueueExactlyOnce
  BY OnceCounts
<1>3. WriterShape /\ Once /\ (~overlapped => InTurn) => FifoPastFailures
  BY InTurnFifo
<1> QED
  BY <1>1, <1>2, <1>3, ShapeInit, OnceInit, InTurnInit, ShapeNext, OnceNext, InTurnNext, PTL DEF Spec
=============================================================================
