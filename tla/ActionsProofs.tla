---------------------------- MODULE ActionsProofs ----------------------------
(***************************************************************************)
(* What MCActions checks of leases, of the graph of actions, of receipts   *)
(* and feeds, and of what waits for a decision - reviews, proposals,       *)
(* grants, sentinels, keys - proved for any number of clients, owners,     *)
(* actions, signals and calls.                                             *)
(***************************************************************************)
EXTENDS MCActions, FiniteSetTheorems, SequenceTheorems, TLAPS


-----------------------------------------------------------------------------
\* Leases: type correctness

\* A call carries a clock reading of the past, and an acquisition an expiry
\* that fits.
CallsRead ==
  \A c \in Clients : call[c] # Idle =>
    /\ call[c].now <= clock
    /\ call[c].op = "acquire" => ExpiryFits(call[c].now, call[c].ttl)

LEMMA CallShapes ==
  ASSUME NEW k \in Call \cup ExpireCall \cup {Idle}
  PROVE  /\ k.op \in {"acquire", "renew"} => k \in Call /\ k # Idle
         /\ k.op = "expire" => k \in ExpireCall /\ k # Idle
         /\ k # Idle => k \in Call \cup ExpireCall
BY DEF Call, ExpireCall, Idle

\* A recorded event leaves a log.
LEMMA RecordTyped ==
  ASSUME audit \in Seq(Event), NEW a \in Actions, NEW actor \in Owners,
         NEW decision \in {"acquired", "held_by_other", "renewed", "expired"},
         NEW expires \in 0..MaxInt, NEW now \in Times,
         Record(a, actor, decision, expires, now)
  PROVE  audit' \in Seq(Event)
<1> DEFINE e == [action |-> a, actor |-> actor, decision |-> decision,
                 expires |-> expires, created |-> now]
<1>1. e \in Event
  BY DEF Event
<1> HIDE DEF e
<1>2. audit' = Append(audit, e)
  BY DEF Record, e
<1> QED
  BY <1>1, <1>2, AppendProperties

LEMMA ExpiryTyped ==
  ASSUME LeaseAssumption, NEW now \in Times, NEW ttl \in Nat, ExpiryFits(now, ttl)
  PROVE  ExpiresAt(now, ttl) \in Times
BY DEF LeaseAssumption, ExpiryFits, ExpiresAt, Times

\* The expired leases in order are as many events.
LEMMA ExpiredEvents ==
  ASSUME LeaseAssumption, TypeOK, NEW c \in Clients, ExpireTx(c)
  PROVE  /\ audit' \in Seq(Event)
         /\ \E order \in InExpiryOrder(Expired(call[c].actions, call[c].now)) :
              audit' = audit \o [i \in 1..Cardinality(Expired(call[c].actions, call[c].now)) |->
                [action |-> order[i], actor |-> leases[order[i]].owner,
                 decision |-> "expired", expires |-> leases[order[i]].expires,
                 created |-> call[c].now]]
<1> DEFINE gone == Expired(call[c].actions, call[c].now)
           event(a) == [action |-> a, actor |-> leases[a].owner, decision |-> "expired",
                        expires |-> leases[a].expires, created |-> call[c].now]
<1>1. call[c] \in ExpireCall
  BY CallShapes DEF TypeOK, ExpireTx
<1>2. gone \subseteq Actions /\ call[c].now \in Times
  BY <1>1 DEF Expired, ExpireCall
<1>3. Cardinality(gone) \in Nat
  BY <1>2, FS_Subset, FS_CardinalityType DEF LeaseAssumption
<1>4. PICK order \in InExpiryOrder(gone) :
        audit' = audit \o [i \in 1..Cardinality(gone) |-> event(order[i])]
  BY DEF ExpireTx
<1>5. \A a \in gone : leases[a] \in Lease /\ a \in Actions
  BY <1>2 DEF Expired, TypeOK
<1>6. \A a \in gone : event(a) \in Event
  BY <1>2, <1>5 DEF Event, Lease, Times
<1>7. \A i \in 1..Cardinality(gone) : order[i] \in gone
  BY DEF InExpiryOrder
<1> HIDE DEF gone
<1>8. [i \in 1..Cardinality(gone) |-> event(order[i])] \in Seq(Event)
  <2> HIDE DEF event
  <2> QED BY <1>3, <1>6, <1>7
<1>9. audit' \in Seq(Event)
  BY <1>4, <1>8, ConcatProperties DEF TypeOK
<1> QED
  BY <1>4, <1>9 DEF gone

LEMMA TypeInductive ==
  LeaseAssumption /\ TypeOK /\ CallsRead /\ [Next]_vars => TypeOK' /\ CallsRead'
<1> SUFFICES ASSUME LeaseAssumption, TypeOK, CallsRead, [Next]_vars
             PROVE  TypeOK' /\ CallsRead'
  OBVIOUS
<1> USE DEF TypeOK
<1>a. 1..MaxClock \subseteq Times /\ MaxInt \in Nat /\ MaxClock \in Nat
  BY DEF LeaseAssumption, Times
<1>b. Idle \in Call \cup ExpireCall \cup {Idle}
  OBVIOUS
<1>c. ASSUME NEW c \in Clients, Return(c), UNCHANGED clock
      PROVE  CallsRead' /\ call' \in [Clients -> Call \cup ExpireCall \cup {Idle}]
  BY <1>c DEF Return, CallsRead
<1>1. ASSUME NEW c \in Clients, NEW op \in {"acquire", "renew"}, NEW a \in Actions,
             NEW ttl \in TTLs, Begin(c, op, a, ttl)
      PROVE  TypeOK' /\ CallsRead'
  <2> DEFINE k == [op |-> op, action |-> a, ttl |-> ttl, now |-> clock]
  <2>1. k \in Call
    BY <1>a DEF Call, LeaseAssumption
  <2>2. k.now = clock /\ k.ttl = ttl /\ k.op = op
    OBVIOUS
  <2> HIDE DEF k
  <2>3. call' = [call EXCEPT ![c] = k] /\ UNCHANGED <<clock, leases, audit, promised>>
    BY <1>1 DEF Begin, k
  <2>4. CallsRead'
    BY <1>1, <1>a, <2>2, <2>3 DEF CallsRead, Begin
  <2> QED
    BY <2>1, <2>3, <2>4
<1>2. ASSUME NEW c \in Clients, AcquireTx(c)
      PROVE  TypeOK' /\ CallsRead'
  <2> DEFINE k == call[c]
             a == k.action
             old == leases[a]
             new == [owner |-> OwnerOf[c], acquired |-> AcquiredAt(old, OwnerOf[c], k.now),
                     renewed |-> k.now, expires |-> ExpiresAt(k.now, k.ttl)]
  <2>1. k \in Call /\ k # Idle /\ ExpiryFits(k.now, k.ttl)
    BY <1>2, CallShapes DEF AcquireTx, CallsRead
  <2>2. /\ a \in Actions /\ k.now \in Times /\ k.ttl \in Nat /\ OwnerOf[c] \in Owners
        /\ ExpiresAt(k.now, k.ttl) \in Times /\ old \in Lease \cup {NoLease}
    BY <2>1, ExpiryTyped DEF Call, LeaseAssumption
  <2>3. AcquiredAt(old, OwnerOf[c], k.now) \in Times
    BY <2>2 DEF AcquiredAt, Lease
  <2>4. new \in Lease
    BY <2>2, <2>3 DEF Lease
  <2>5. CASE /\ HeldByOther(old, OwnerOf[c], k.now)
             /\ Record(a, OwnerOf[c], "held_by_other", old.expires, k.now)
             /\ Told(c, a, 0) /\ UNCHANGED leases
    <3>1. old.expires \in 0..MaxInt
      BY <1>a, <2>2, <2>5 DEF HeldByOther, Lease, Times
    <3>2. audit' \in Seq(Event)
      BY <2>2, <2>5, <3>1, RecordTyped
    <3> QED
      BY <1>2, <1>a, <1>c, <2>5, <3>2 DEF AcquireTx, Told
  <2>6. CASE /\ leases' = [leases EXCEPT ![a] = new]
             /\ Record(a, OwnerOf[c], "acquired", new.expires, k.now)
             /\ Told(c, a, new.expires)
    <3>1. new.expires \in 0..MaxInt
      BY <2>2 DEF Times
    <3> HIDE DEF new
    <3>2. audit' \in Seq(Event)
      BY <2>2, <2>6, <3>1, RecordTyped
    <3> QED
      BY <1>2, <1>a, <1>c, <2>4, <2>6, <3>1, <3>2 DEF AcquireTx, Told
  <2> QED
    BY <1>2, <2>5, <2>6 DEF AcquireTx
<1>3. ASSUME NEW c \in Clients, RenewTx(c)
      PROVE  TypeOK' /\ CallsRead'
  <2> DEFINE k == call[c]
             a == k.action
             old == leases[a]
             live == old # NoLease /\ old.expires > k.now
             new == [old EXCEPT !.renewed = k.now, !.expires = ExpiresAt(k.now, k.ttl)]
  <2>1. k \in Call
    BY <1>3, CallShapes DEF RenewTx
  <2>2. /\ a \in Actions /\ k.now \in Times /\ k.ttl \in Nat /\ OwnerOf[c] \in Owners
        /\ old \in Lease \cup {NoLease}
    BY <2>1 DEF Call, LeaseAssumption
  <2>3. CASE /\ ~live /\ Record(a, OwnerOf[c], "expired", 0, k.now)
             /\ Told(c, a, 0) /\ UNCHANGED leases
    <3>1. audit' \in Seq(Event)
      BY <1>a, <2>2, <2>3, RecordTyped
    <3> QED
      BY <1>3, <1>a, <1>c, <2>3, <3>1 DEF RenewTx, Told
  <2>4. CASE /\ live /\ Record(a, OwnerOf[c], "held_by_other", old.expires, k.now)
             /\ Told(c, a, 0) /\ UNCHANGED leases
    <3>1. old.expires \in 0..MaxInt
      BY <1>a, <2>2, <2>4 DEF Lease, Times
    <3>2. audit' \in Seq(Event)
      BY <2>2, <2>4, <3>1, RecordTyped
    <3> QED
      BY <1>3, <1>a, <1>c, <2>4, <3>2 DEF RenewTx, Told
  <2>5. CASE /\ live /\ ExpiryFits(k.now, k.ttl)
             /\ leases' = [leases EXCEPT ![a] = new]
             /\ Record(a, OwnerOf[c], "renewed", RenewedUntil(old, new), k.now)
             /\ Told(c, a, new.expires)
    <3>1. ExpiresAt(k.now, k.ttl) \in Times /\ old \in Lease
      BY <2>2, <2>5, ExpiryTyped
    <3>2. new \in Lease /\ new.expires \in 0..MaxInt
      <4>1. new.expires = ExpiresAt(k.now, k.ttl) /\ new \in Lease
        BY <2>2, <3>1 DEF Lease
      <4> QED
        BY <3>1, <4>1 DEF Times
    <3> HIDE DEF new
    <3>3. audit' \in Seq(Event)
      BY <2>2, <2>5, <3>2, RecordTyped DEF RenewedUntil
    <3> QED
      BY <1>3, <1>a, <1>c, <2>5, <3>2, <3>3 DEF RenewTx, Told
  <2> QED
    BY <1>3, <2>3, <2>4, <2>5 DEF RenewTx
<1>4. ASSUME NEW c \in Clients, NEW as \in {Actions} \cup {{a} : a \in Actions},
             BeginExpire(c, as)
      PROVE  TypeOK' /\ CallsRead'
  <2> DEFINE k == [op |-> "expire", actions |-> as, now |-> clock]
  <2>1. k \in ExpireCall /\ k.now = clock /\ k.op = "expire"
    BY <1>a DEF ExpireCall
  <2> HIDE DEF k
  <2>2. call' = [call EXCEPT ![c] = k] /\ UNCHANGED <<clock, leases, audit, promised>>
    BY <1>4 DEF BeginExpire, k
  <2>3. CallsRead'
    BY <1>a, <2>1, <2>2 DEF CallsRead
  <2> QED
    BY <2>1, <2>2, <2>3
<1>5. ASSUME NEW c \in Clients, ExpireTx(c)
      PROVE  TypeOK' /\ CallsRead'
  BY <1>5, <1>c, ExpiredEvents DEF ExpireTx
<1>6. ASSUME NEW c \in Clients, Rollback(c)
      PROVE  TypeOK' /\ CallsRead'
  BY <1>6, <1>c DEF Rollback
<1>7. CASE Tick
  <2>1. clock' \in 1..MaxClock /\ clock' > clock
    BY <1>7, <1>a DEF Tick
  <2>2. ASSUME NEW c \in Clients, call[c] # Idle
        PROVE  call[c].now \in Times
    BY <2>2, CallShapes DEF Call, ExpireCall
  <2>3. CallsRead'
    BY <1>7, <1>a, <2>1, <2>2 DEF Tick, CallsRead, Times
  <2> QED
    BY <1>7, <2>1, <2>3 DEF Tick
<1>8. CASE UNCHANGED vars
  BY <1>8 DEF vars, CallsRead
<1> QED
  BY <1>1, <1>2, <1>3, <1>4, <1>5, <1>6, <1>7, <1>8 DEF Next, ClientStep

LEMMA TypeInit == LeaseAssumption /\ Init => TypeOK /\ CallsRead
BY DEF LeaseAssumption, Init, TypeOK, CallsRead

LEMMA AlwaysTyped == Spec => [](TypeOK /\ CallsRead)
<1> USE LeaseAssumption
<1> QED
  BY TypeInit, TypeInductive, PTL DEF Spec

\* The lease table, the audit and the calls keep their types, and no expiry
\* exceeds the largest int64.
THEOREM TypeCorrect == Spec => []TypeOK
BY AlwaysTyped, PTL
-----------------------------------------------------------------------------
\* Exclusive hold

\* A promise that has not run out is backed by the table, when no two clients
\* share an owner.
LEMMA PromiseInductive ==
  ASSUME LeaseAssumption, \A c, d \in Clients : OwnerOf[c] = OwnerOf[d] => c = d,
         TypeOK, CallsRead, PromiseKept, [Next]_vars
  PROVE  PromiseKept'
<1> USE DEF TypeOK
<1>a. \A c \in Clients, a \in Actions : promised[c][a] \in 0..MaxInt /\ clock \in Int /\ clock > 0
  OBVIOUS
<1>1. ASSUME UNCHANGED <<leases, promised>>, clock' >= clock, clock' \in Int
      PROVE  PromiseKept'
  BY <1>1, <1>a DEF PromiseKept, LeaseAssumption
<1>2. ASSUME NEW c \in Clients, NEW a \in Actions, UNCHANGED <<leases, clock>>, Told(c, a, 0)
      PROVE  PromiseKept'
  <2>1. /\ promised'[c][a] = 0
        /\ \A d \in Clients, b \in Actions :
             d # c \/ b # a => promised'[d][b] = promised[d][b]
    BY <1>2 DEF Told
  <2>2. clock \in Int /\ clock > 0
    OBVIOUS
  <2> SUFFICES ASSUME NEW d \in Clients, NEW b \in Actions, promised'[d][b] > clock
               PROVE  /\ leases[b] # NoLease
                      /\ leases[b].owner = OwnerOf[d]
                      /\ leases[b].expires >= promised'[d][b]
    BY <1>2 DEF PromiseKept
  <2>3. promised'[d][b] = promised[d][b]
    BY <2>1, <2>2
  <2> QED
    BY <2>3 DEF PromiseKept
<1>3. ASSUME NEW c \in Clients, NEW a \in Actions, NEW new \in Lease,
             new.owner = OwnerOf[c],
             \A d \in Clients \ {c} : ~(promised[d][a] > clock),
             leases' = [leases EXCEPT ![a] = new], Told(c, a, new.expires),
             UNCHANGED clock
      PROVE  PromiseKept'
  <2>1. /\ promised'[c][a] = new.expires
        /\ \A d \in Clients, b \in Actions :
             d # c \/ b # a => promised'[d][b] = promised[d][b]
    BY <1>3 DEF Told
  <2>2. leases'[a] = new /\ \A b \in Actions \ {a} : leases'[b] = leases[b]
    BY <1>3
  <2>3. new # NoLease /\ new.expires \in Int
    <3>1. \A l \in Lease : l # NoLease
      <4>1. \A l \in Lease : "acquired" \in DOMAIN l
        BY DEF Lease
      <4>2. "acquired" \notin DOMAIN NoLease
        BY DEF NoLease
      <4> QED
        BY <4>1, <4>2
    <3> QED
      BY <3>1 DEF Lease, Times
  <2> SUFFICES ASSUME NEW d \in Clients, NEW b \in Actions, promised'[d][b] > clock
               PROVE  /\ leases'[b] # NoLease
                      /\ leases'[b].owner = OwnerOf[d]
                      /\ leases'[b].expires >= promised'[d][b]
    BY <1>3 DEF PromiseKept
  <2>4. CASE b # a
    <3>1. promised'[d][b] = promised[d][b] /\ leases'[b] = leases[b]
      BY <2>1, <2>2, <2>4
    <3> QED
      BY <3>1 DEF PromiseKept
  <2>5. CASE b = a /\ d = c
    BY <1>3, <2>1, <2>2, <2>3, <2>5
  <2>6. CASE b = a /\ d # c
    <3>1. promised'[d][a] = promised[d][a]
      BY <2>1, <2>6
    <3> QED
      BY <1>3, <2>6, <3>1
  <2> QED
    BY <2>4, <2>5, <2>6
<1>4. ASSUME NEW c \in Clients, NEW a \in Actions, call[c] \in Call, call[c] # Idle,
             ~HeldByOther(leases[a], OwnerOf[c], call[c].now)
      PROVE  \A d \in Clients \ {c} : ~(promised[d][a] > clock)
  <2> SUFFICES ASSUME NEW d \in Clients, d # c, promised[d][a] > clock
               PROVE  FALSE
    OBVIOUS
  <2>1. leases[a] # NoLease /\ leases[a].owner = OwnerOf[d] /\ leases[a].expires >= promised[d][a]
    BY DEF PromiseKept
  <2>2. leases[a].owner # OwnerOf[c]
    BY <2>1
  <2>3. leases[a].expires \in Int /\ call[c].now \in Int
    BY <1>4, <2>1 DEF Lease, Call, Times
  <2>4. leases[a].expires > call[c].now
    <3>1. call[c].now <= clock
      BY <1>4 DEF CallsRead
    <3> QED
      BY <1>a, <2>1, <2>3, <3>1
  <2> QED
    BY <1>4, <2>1, <2>2, <2>4 DEF HeldByOther
<1>5. ASSUME NEW c \in Clients, AcquireTx(c)
      PROVE  PromiseKept'
  <2> DEFINE k == call[c]
             a == k.action
             old == leases[a]
             new == [owner |-> OwnerOf[c], acquired |-> AcquiredAt(old, OwnerOf[c], k.now),
                     renewed |-> k.now, expires |-> ExpiresAt(k.now, k.ttl)]
  <2>1. /\ k \in Call /\ k # Idle /\ ExpiryFits(k.now, k.ttl) /\ a \in Actions
        /\ k.now \in Times /\ k.ttl \in Nat
    BY <1>5, CallShapes DEF AcquireTx, CallsRead, Call
  <2>2. new \in Lease /\ new.owner = OwnerOf[c]
    <3>1. AcquiredAt(old, OwnerOf[c], k.now) \in Times
      BY <2>1 DEF AcquiredAt, Lease
    <3>2. ExpiresAt(k.now, k.ttl) \in Times /\ OwnerOf[c] \in Owners
      BY <2>1, ExpiryTyped DEF LeaseAssumption
    <3> QED
      BY <2>1, <3>1, <3>2 DEF Lease
  <2>3. CASE ~HeldByOther(old, OwnerOf[c], k.now) /\ leases' = [leases EXCEPT ![a] = new]
             /\ Told(c, a, new.expires)
    <3>1. \A d \in Clients \ {c} : ~(promised[d][a] > clock)
      BY <1>4, <2>1, <2>3
    <3> HIDE DEF new
    <3> QED
      BY <1>3, <1>5, <2>1, <2>2, <2>3, <3>1 DEF AcquireTx
  <2>4. CASE Told(c, a, 0) /\ UNCHANGED leases
    BY <1>2, <1>5, <2>1, <2>4 DEF AcquireTx
  <2> QED
    BY <1>5, <2>3, <2>4 DEF AcquireTx
<1>6. ASSUME NEW c \in Clients, RenewTx(c)
      PROVE  PromiseKept'
  <2> DEFINE k == call[c]
             a == k.action
             old == leases[a]
             new == [old EXCEPT !.renewed = k.now, !.expires = ExpiresAt(k.now, k.ttl)]
  <2>1. k \in Call /\ k # Idle /\ a \in Actions /\ k.now \in Times /\ k.ttl \in Nat
    BY <1>6, CallShapes DEF RenewTx, Call
  <2>2. CASE Told(c, a, 0) /\ UNCHANGED leases
    BY <1>2, <1>6, <2>1, <2>2 DEF RenewTx
  <2>3. CASE /\ old # NoLease /\ old.owner = OwnerOf[c] /\ ExpiryFits(k.now, k.ttl)
             /\ leases' = [leases EXCEPT ![a] = new] /\ Told(c, a, new.expires)
    <3>1. old \in Lease /\ ExpiresAt(k.now, k.ttl) \in Times
      BY <2>1, <2>3, ExpiryTyped
    <3>2. new \in Lease /\ new.owner = OwnerOf[c]
      BY <2>1, <2>3, <3>1 DEF Lease
    <3>3. \A d \in Clients \ {c} : ~(promised[d][a] > clock)
      <4>1. ~HeldByOther(old, OwnerOf[c], k.now)
        BY <2>3 DEF HeldByOther
      <4> QED
        BY <1>4, <2>1, <4>1
    <3> HIDE DEF new
    <3> QED
      BY <1>3, <1>6, <2>1, <2>3, <3>2, <3>3 DEF RenewTx
  <2> QED
    BY <1>6, <2>2, <2>3 DEF RenewTx
<1>7. ASSUME NEW c \in Clients, ExpireTx(c)
      PROVE  PromiseKept'
  <2>1. call[c] \in ExpireCall /\ call[c].now <= clock /\ call[c].now \in Int
    BY <1>7, CallShapes DEF ExpireTx, CallsRead, ExpireCall, Times
  <2> DEFINE gone == Expired(call[c].actions, call[c].now)
  <2>2. /\ leases' = [a \in Actions |-> IF a \in gone THEN NoLease ELSE leases[a]]
        /\ UNCHANGED <<clock, promised>>
    BY <1>7 DEF ExpireTx
  <2>3. ASSUME NEW d \in Clients, NEW a \in Actions, promised[d][a] > clock
        PROVE  a \notin gone
    <3>1. leases[a] # NoLease /\ leases[a].expires >= promised[d][a]
      BY <2>3 DEF PromiseKept
    <3>2. leases[a].expires \in Int
      BY <3>1 DEF Lease, Times
    <3> QED
      BY <1>a, <2>1, <2>3, <3>1, <3>2 DEF Expired
  <2> HIDE DEF gone
  <2> QED
    BY <2>2, <2>3 DEF PromiseKept
<1>8. ASSUME \/ Tick \/ UNCHANGED vars
             \/ \E c \in Clients :
                  \/ \E op \in {"acquire", "renew"}, a \in Actions, ttl \in TTLs :
                       Begin(c, op, a, ttl)
                  \/ \E as \in {Actions} \cup {{a} : a \in Actions} : BeginExpire(c, as)
                  \/ Rollback(c)
      PROVE  PromiseKept'
  <2>1. UNCHANGED <<leases, promised>> /\ clock' \in {clock, clock + 1}
    BY <1>8 DEF Tick, vars, Begin, BeginExpire, Rollback
  <2> QED
    BY <1>1, <2>1
<1> QED
  BY <1>5, <1>6, <1>7, <1>8 DEF Next, ClientStep

\* A granted lease is kept until it runs out, whatever clocks the other calls
\* carry, when every client names an owner of its own.
THEOREM PromisesKept ==
  (\A c, d \in Clients : OwnerOf[c] = OwnerOf[d] => c = d) => (Spec => []PromiseKept)
<1> SUFFICES ASSUME \A c, d \in Clients : OwnerOf[c] = OwnerOf[d] => c = d
             PROVE  Spec => []PromiseKept
  OBVIOUS
<1> USE LeaseAssumption
<1>1. Init => PromiseKept
  BY DEF Init, PromiseKept
<1>2. TypeOK /\ CallsRead /\ PromiseKept /\ [Next]_vars => PromiseKept'
  BY PromiseInductive
<1> QED
  BY <1>1, <1>2, AlwaysTyped, PTL DEF Spec

\* No two owners ever both believe they hold an action.
THEOREM HoldIsExclusive ==
  (\A c, d \in Clients : OwnerOf[c] = OwnerOf[d] => c = d) => (Spec => []ExclusiveHold)
<1> SUFFICES ASSUME \A c, d \in Clients : OwnerOf[c] = OwnerOf[d] => c = d
             PROVE  Spec => []ExclusiveHold
  OBVIOUS
<1>1. PromiseKept => ExclusiveHold
  BY DEF PromiseKept, ExclusiveHold
<1> QED
  BY <1>1, PromisesKept, PTL
-----------------------------------------------------------------------------
\* The audit tells the leases

\* No entry of the audit is changed.
Appends ==
  /\ Len(audit) <= Len(audit')
  /\ \A i \in DOMAIN audit : i \in DOMAIN audit' /\ audit'[i] = audit[i]

\* What a step does to the lease of an action, and to the entries about it.
Untouched(a) == leases'[a] = leases[a] /\ Changes(a)' = Changes(a)

Added(a, n) ==
  /\ n \in DOMAIN audit' \ DOMAIN audit /\ Changes(a)' = Changes(a) \cup {n}

Granted(a) ==
  /\ leases'[a] # NoLease
  /\ \E n \in Nat :
       /\ Added(a, n)
       /\ audit'[n].actor = leases'[a].owner /\ audit'[n].expires = leases'[a].expires
       /\ \/ audit'[n].decision = "acquired" /\ audit'[n].created = leases'[a].acquired
          \/ /\ audit'[n].decision \in {"acquired", "renewed"}
             /\ leases[a] # NoLease /\ leases[a].owner = leases'[a].owner
             /\ leases'[a].acquired = leases[a].acquired
             /\ audit'[n].created < leases[a].expires

Released(a) ==
  /\ leases'[a] = NoLease
  /\ \E n \in Nat : Added(a, n) /\ audit'[n].decision = "expired"

IsChange(e, a) ==
  /\ e.action = a
  /\ \/ e.decision \in {"acquired", "renewed"}
     \/ e.decision = "expired" /\ e.expires > 0

LEMMA LeasesAreLeases == \A l \in Lease : l # NoLease
<1>1. \A l \in Lease : "acquired" \in DOMAIN l
  BY DEF Lease
<1>2. "acquired" \notin DOMAIN NoLease
  BY DEF NoLease
<1> QED
  BY <1>1, <1>2

\* One more entry, about one action.
LEMMA OneEntry ==
  ASSUME audit \in Seq(Event), NEW a, NEW actor, NEW decision, NEW expires, NEW now,
         Record(a, actor, decision, expires, now)
  PROVE  LET n == Len(audit) + 1
             e == [action |-> a, actor |-> actor, decision |-> decision,
                   expires |-> expires, created |-> now]
         IN /\ Appends
            /\ n \in DOMAIN audit' \ DOMAIN audit /\ audit'[n] = e
            /\ \A b : Changes(b)' = IF IsChange(e, b) THEN Changes(b) \cup {n} ELSE Changes(b)
<1> DEFINE n == Len(audit) + 1
           e == [action |-> a, actor |-> actor, decision |-> decision,
                 expires |-> expires, created |-> now]
<1>1. audit' = Append(audit, e)
  BY DEF Record
<1> HIDE DEF e
<1>2. /\ Len(audit) \in Nat /\ DOMAIN audit = 1..Len(audit)
      /\ Len(audit') = n /\ DOMAIN audit' = 1..n
      /\ \A i \in 1..Len(audit) : audit'[i] = audit[i]
      /\ audit'[n] = e
  BY <1>1
<1> HIDE DEF n
<1>3. n \in DOMAIN audit' /\ n \notin DOMAIN audit /\ DOMAIN audit' = DOMAIN audit \cup {n}
  BY <1>2 DEF n
<1>4. Appends
  BY <1>2, <1>3 DEF Appends, n
<1>5. ASSUME NEW b
      PROVE  Changes(b)' = IF IsChange(e, b) THEN Changes(b) \cup {n} ELSE Changes(b)
  <2>1. Changes(b) = {i \in DOMAIN audit : IsChange(audit[i], b)}
    BY DEF Changes, IsChange
  <2>2. Changes(b)' = {i \in DOMAIN audit' : IsChange(audit'[i], b)}
    BY DEF Changes, IsChange
  <2> QED
    BY <1>2, <1>3, <2>1, <2>2
<1> QED
  BY <1>2, <1>3, <1>4, <1>5 DEF e, n

\* An acquisition grants the action, or leaves all as it was.
LEMMA AcquireChanges ==
  ASSUME LeaseAssumption, TypeOK, CallsRead, NEW c \in Clients, AcquireTx(c), NEW b \in Actions
  PROVE  Appends /\ (Untouched(b) \/ Granted(b))
<1> DEFINE k == call[c]
           a == k.action
           old == leases[a]
           new == [owner |-> OwnerOf[c], acquired |-> AcquiredAt(old, OwnerOf[c], k.now),
                   renewed |-> k.now, expires |-> ExpiresAt(k.now, k.ttl)]
           n == Len(audit) + 1
<1>1. /\ k \in Call /\ k # Idle /\ ExpiryFits(k.now, k.ttl) /\ a \in Actions
      /\ k.now \in Times /\ k.ttl \in Nat /\ OwnerOf[c] \in Owners
  BY CallShapes DEF AcquireTx, CallsRead, Call, TypeOK, LeaseAssumption
<1>2. audit \in Seq(Event) /\ Len(audit) \in Nat /\ n \in Nat /\ leases \in [Actions -> Lease \cup {NoLease}]
  BY DEF TypeOK
<1>3. CASE /\ Record(a, OwnerOf[c], "held_by_other", old.expires, k.now)
           /\ UNCHANGED leases
  <2> DEFINE e == [action |-> a, actor |-> OwnerOf[c], decision |-> "held_by_other",
                   expires |-> old.expires, created |-> k.now]
  <2>1. ~IsChange(e, b)
    BY DEF IsChange
  <2>2. Appends /\ Changes(b)' = IF IsChange(e, b) THEN Changes(b) \cup {n} ELSE Changes(b)
    BY <1>2, <1>3, OneEntry
  <2> QED
    BY <1>3, <2>1, <2>2 DEF Untouched
<1>4. CASE /\ leases' = [leases EXCEPT ![a] = new]
           /\ Record(a, OwnerOf[c], "acquired", new.expires, k.now)
  <2> DEFINE e == [action |-> a, actor |-> OwnerOf[c], decision |-> "acquired",
                   expires |-> new.expires, created |-> k.now]
  <2>1. /\ Appends /\ Changes(b)' = IF IsChange(e, b) THEN Changes(b) \cup {n} ELSE Changes(b)
        /\ n \in DOMAIN audit' \ DOMAIN audit /\ audit'[n] = e
    BY <1>2, <1>4, OneEntry
  <2>2. CASE b # a
    <3>1. ~IsChange(e, b)
      BY <2>2 DEF IsChange
    <3>2. leases'[b] = leases[b]
      BY <1>4, <2>2
    <3> QED
      BY <2>1, <3>1, <3>2 DEF Untouched
  <2>3. CASE b = a
    <3>1. IsChange(e, b) /\ e.decision = "acquired" /\ e.created = k.now
          /\ e.actor = OwnerOf[c] /\ e.expires = ExpiresAt(k.now, k.ttl)
      BY <2>3 DEF IsChange
    <3>2. new \in Lease
      <4>1. AcquiredAt(old, OwnerOf[c], k.now) \in Times
        BY <1>1, <1>2 DEF AcquiredAt, Lease
      <4>2. ExpiresAt(k.now, k.ttl) \in Times
        BY <1>1, ExpiryTyped
      <4> QED
        BY <1>1, <4>1, <4>2 DEF Lease
    <3>3. /\ leases'[b] # NoLease /\ leases'[b].owner = OwnerOf[c]
          /\ leases'[b].expires = ExpiresAt(k.now, k.ttl)
          /\ leases'[b].acquired = AcquiredAt(old, OwnerOf[c], k.now)
      <4>1. leases'[b] = new
        BY <1>2, <1>4, <2>3
      <4> QED
        BY <3>2, <4>1, LeasesAreLeases
    <3>4. \/ leases'[b].acquired = k.now
          \/ old # NoLease /\ old.owner = OwnerOf[c] /\ k.now < old.expires /\ leases'[b].acquired = old.acquired
      <4>1. old # NoLease => old.expires \in Int
        BY <1>1, <1>2 DEF Lease, Times
      <4> QED
        BY <1>1, <3>3, <4>1 DEF AcquiredAt, Times
    <3>5. Added(b, n)
      BY <2>1, <3>1 DEF Added
    <3> HIDE DEF e, n
    <3> QED
      BY <1>2, <2>1, <2>3, <3>1, <3>3, <3>4, <3>5 DEF Granted
  <2> QED
    BY <2>2, <2>3
<1> QED
  BY <1>3, <1>4 DEF AcquireTx

\* A renewal grants the action for longer, or leaves all as it was.
LEMMA RenewChanges ==
  ASSUME LeaseAssumption, TypeOK, NEW c \in Clients, RenewTx(c), NEW b \in Actions
  PROVE  Appends /\ (Untouched(b) \/ Granted(b))
<1> DEFINE k == call[c]
           a == k.action
           old == leases[a]
           new == [old EXCEPT !.renewed = k.now, !.expires = ExpiresAt(k.now, k.ttl)]
           n == Len(audit) + 1
<1>1. /\ k \in Call /\ k # Idle /\ a \in Actions
      /\ k.now \in Times /\ k.ttl \in Nat /\ OwnerOf[c] \in Owners
  BY CallShapes DEF RenewTx, Call, TypeOK, LeaseAssumption
<1>2. audit \in Seq(Event) /\ Len(audit) \in Nat /\ n \in Nat /\ leases \in [Actions -> Lease \cup {NoLease}]
  BY DEF TypeOK
<1>3. ASSUME NEW decision \in {"expired", "held_by_other"}, NEW expires,
             decision = "expired" => expires = 0,
             Record(a, OwnerOf[c], decision, expires, k.now), UNCHANGED leases
      PROVE  Appends /\ Untouched(b)
  <2> DEFINE e == [action |-> a, actor |-> OwnerOf[c], decision |-> decision,
                   expires |-> expires, created |-> k.now]
  <2>1. ~IsChange(e, b)
    BY <1>3 DEF IsChange
  <2>2. Appends /\ Changes(b)' = IF IsChange(e, b) THEN Changes(b) \cup {n} ELSE Changes(b)
    BY <1>2, <1>3, OneEntry
  <2> QED
    BY <1>3, <2>1, <2>2 DEF Untouched
<1>4. CASE /\ old # NoLease /\ old.expires > k.now /\ old.owner = OwnerOf[c] /\ ExpiryFits(k.now, k.ttl)
           /\ leases' = [leases EXCEPT ![a] = new]
           /\ Record(a, OwnerOf[c], "renewed", RenewedUntil(old, new), k.now)
  <2> DEFINE e == [action |-> a, actor |-> OwnerOf[c], decision |-> "renewed",
                   expires |-> RenewedUntil(old, new), created |-> k.now]
  <2>1. /\ Appends /\ Changes(b)' = IF IsChange(e, b) THEN Changes(b) \cup {n} ELSE Changes(b)
        /\ n \in DOMAIN audit' \ DOMAIN audit /\ audit'[n] = e
    BY <1>2, <1>4, OneEntry
  <2>2. CASE b # a
    <3>1. ~IsChange(e, b)
      BY <2>2 DEF IsChange
    <3>2. leases'[b] = leases[b]
      BY <1>4, <2>2
    <3> QED
      BY <2>1, <3>1, <3>2 DEF Untouched
  <2>3. CASE b = a
    <3>1. IsChange(e, b) /\ e.decision = "renewed" /\ e.created = k.now
          /\ e.actor = OwnerOf[c] /\ e.expires = new.expires
      BY <2>3 DEF IsChange, RenewedUntil
    <3>2. /\ new \in Lease /\ new.owner = old.owner /\ new.acquired = old.acquired
      <4>1. ExpiresAt(k.now, k.ttl) \in Times /\ old \in Lease
        BY <1>1, <1>2, <1>4, ExpiryTyped
      <4> QED
        BY <1>1, <4>1 DEF Lease
    <3>3. /\ leases'[b] # NoLease /\ leases'[b].owner = old.owner
          /\ leases'[b].expires = new.expires /\ leases'[b].acquired = old.acquired
      <4>1. leases'[b] = new
        BY <1>2, <1>4, <2>3
      <4> HIDE DEF new
      <4> QED
        BY <3>2, <4>1, LeasesAreLeases
    <3>4. k.now < old.expires
      <4>1. old.expires \in Int
        BY <1>1, <1>2, <1>4 DEF Lease, Times
      <4> QED
        BY <1>1, <1>4, <4>1 DEF Times
    <3>5. Added(b, n)
      BY <2>1, <3>1 DEF Added
    <3> HIDE DEF e, n, new
    <3> QED
      BY <1>2, <1>4, <2>1, <2>3, <3>1, <3>3, <3>4, <3>5 DEF Granted
  <2> QED
    BY <2>2, <2>3
<1> QED
  BY <1>3, <1>4 DEF RenewTx

\* The expired leases go, and the audit has an entry for each.
LEMMA ExpireChanges ==
  ASSUME LeaseAssumption, TypeOK, NEW c \in Clients, ExpireTx(c), NEW b \in Actions
  PROVE  Appends /\ (Untouched(b) \/ Released(b))
<1> DEFINE gone == Expired(call[c].actions, call[c].now)
           m == Cardinality(gone)
           event(a) == [action |-> a, actor |-> leases[a].owner, decision |-> "expired",
                        expires |-> leases[a].expires, created |-> call[c].now]
<1>1. call[c] \in ExpireCall /\ audit \in Seq(Event) /\ Len(audit) \in Nat
  BY CallShapes DEF TypeOK, ExpireTx
<1>2. gone \subseteq Actions /\ IsFiniteSet(gone) /\ m \in Nat
  <2>1. gone \subseteq Actions
    BY <1>1 DEF Expired, ExpireCall
  <2> QED
    BY <2>1, FS_Subset, FS_CardinalityType DEF LeaseAssumption
<1>3. PICK order \in InExpiryOrder(gone) : audit' = audit \o [i \in 1..m |-> event(order[i])]
  BY DEF ExpireTx
<1>4. \A a \in gone : leases[a] \in Lease /\ leases[a].expires > 0
  BY <1>2 DEF Expired, TypeOK, Lease, Times
<1>5. /\ \A i \in 1..m : order[i] \in gone
      /\ \A a \in gone : \E i \in 1..m : order[i] = a
      /\ \A i, j \in 1..m : i # j => order[i] # order[j]
  <2>1. order \in [1..m -> gone] /\ \A i, j \in 1..m : i # j => order[i] # order[j]
    BY DEF InExpiryOrder
  <2>2. order \in Injection(1..m, gone)
    BY <2>1 DEF Injection, IsInjective
  <2>3. IsFiniteSet(1..m) /\ Cardinality(1..m) = m
    BY <1>2, FS_Interval
  <2>4. order \in Surjection(1..m, gone)
    BY <1>2, <2>2, <2>3, FS_Injection
  <2> QED
    BY <2>1, <2>4 DEF Surjection
<1> HIDE DEF gone, m
<1>6. /\ Len(audit') = Len(audit) + m
      /\ DOMAIN audit = 1..Len(audit) /\ DOMAIN audit' = 1..(Len(audit) + m)
      /\ \A i \in 1..Len(audit) : audit'[i] = audit[i]
      /\ \A i \in 1..m : audit'[Len(audit) + i] = event(order[i])
  <2> DEFINE more == [i \in 1..m |-> event(order[i])]
  <2>1. more \in Seq({event(order[i]) : i \in 1..m}) /\ Len(more) = m /\ \A i \in 1..m : more[i] = event(order[i])
    <3> HIDE DEF event
    <3> QED BY <1>2
  <2> HIDE DEF more
  <2> QED
    BY <1>1, <1>2, <1>3, <2>1, ConcatProperties DEF more
<1>7. Appends
  BY <1>1, <1>2, <1>6 DEF Appends
<1>8. /\ Changes(b) = {i \in DOMAIN audit : IsChange(audit[i], b)}
      /\ Changes(b)' = {i \in DOMAIN audit' : IsChange(audit'[i], b)}
  BY DEF Changes, IsChange
<1>9. \A i \in 1..m : IsChange(audit'[Len(audit) + i], b) <=> order[i] = b
  <2> SUFFICES ASSUME NEW i \in 1..m
               PROVE  IsChange(audit'[Len(audit) + i], b) <=> order[i] = b
    OBVIOUS
  <2>1. /\ audit'[Len(audit) + i].action = order[i]
        /\ audit'[Len(audit) + i].decision = "expired"
        /\ audit'[Len(audit) + i].expires = leases[order[i]].expires
    <3>1. audit'[Len(audit) + i] = event(order[i])
      BY <1>6
    <3> QED
      BY <3>1
  <2>2. leases[order[i]].expires > 0
    BY <1>4, <1>5
  <2> HIDE DEF event
  <2> QED
    BY <2>1, <2>2 DEF IsChange
<1>10. leases' = [a \in Actions |-> IF a \in gone THEN NoLease ELSE leases[a]]
  BY DEF ExpireTx, gone
<1>11. CASE b \notin gone
  <2>1. leases'[b] = leases[b]
    BY <1>10, <1>11
  <2>2. \A i \in DOMAIN audit' : i \notin DOMAIN audit => ~IsChange(audit'[i], b)
    <3> SUFFICES ASSUME NEW i \in DOMAIN audit', i \notin DOMAIN audit
                 PROVE  ~IsChange(audit'[i], b)
      OBVIOUS
    <3>1. i - Len(audit) \in 1..m /\ i = Len(audit) + (i - Len(audit))
      BY <1>1, <1>2, <1>6
    <3> QED
      BY <1>5, <1>9, <1>11, <3>1
  <2>3. Changes(b)' = Changes(b)
    BY <1>1, <1>2, <1>6, <1>7, <1>8, <2>2 DEF Appends
  <2> QED
    BY <1>7, <2>1, <2>3 DEF Untouched
<1>12. CASE b \in gone
  <2>1. leases'[b] = NoLease
    BY <1>10, <1>12
  <2>2. PICK i \in 1..m : order[i] = b
    BY <1>5, <1>12
  <2> DEFINE n == Len(audit) + i
  <2>3. n \in Nat /\ n \in DOMAIN audit' /\ n \notin DOMAIN audit
    BY <1>1, <1>2, <1>6
  <2>4. \A j \in DOMAIN audit' : j \notin DOMAIN audit => (IsChange(audit'[j], b) <=> j = n)
    <3> SUFFICES ASSUME NEW j \in DOMAIN audit', j \notin DOMAIN audit
                 PROVE  IsChange(audit'[j], b) <=> j = n
      OBVIOUS
    <3>1. PICK x \in 1..m : j = Len(audit) + x
      <4>1. j - Len(audit) \in 1..m /\ j = Len(audit) + (j - Len(audit))
        BY <1>1, <1>2, <1>6
      <4> QED
        BY <4>1
    <3>2. IsChange(audit'[j], b) <=> x = i
      BY <1>5, <1>9, <2>2, <3>1
    <3> QED
      BY <1>1, <3>1, <3>2
  <2>5. Changes(b)' = Changes(b) \cup {n}
    <3> HIDE DEF n
    <3> QED BY <1>6, <1>7, <1>8, <2>3, <2>4 DEF Appends
  <2>6. audit'[n].decision = "expired"
    <3>1. audit'[n] = event(order[i])
      BY <1>6
    <3> QED
      BY <3>1
  <2> QED
    BY <1>7, <2>1, <2>3, <2>5, <2>6 DEF Released, Added
<1> QED
  BY <1>11, <1>12

\* What a step does to the lease of an action it tells the audit.
LEMMA LeaseStep ==
  ASSUME LeaseAssumption, TypeOK, CallsRead, [Next]_vars, NEW a \in Actions
  PROVE  Appends /\ (Untouched(a) \/ Granted(a) \/ Released(a))
<1>1. ASSUME UNCHANGED <<leases, audit>>
      PROVE  Appends /\ Untouched(a)
  <2>1. Len(audit) \in Nat
    BY DEF TypeOK
  <2> QED
    BY <1>1, <2>1 DEF Appends, Untouched, Changes
<1>2. CASE \E c \in Clients : AcquireTx(c)
  BY <1>2, AcquireChanges
<1>3. CASE \E c \in Clients : RenewTx(c)
  BY <1>3, RenewChanges
<1>4. CASE \E c \in Clients : ExpireTx(c)
  BY <1>4, ExpireChanges
<1>5. CASE \/ Tick \/ UNCHANGED vars
           \/ \E c \in Clients :
                \/ \E op \in {"acquire", "renew"}, x \in Actions, ttl \in TTLs : Begin(c, op, x, ttl)
                \/ \E as \in {Actions} \cup {{x} : x \in Actions} : BeginExpire(c, as)
                \/ Rollback(c)
  <2>1. UNCHANGED <<leases, audit>>
    BY <1>5 DEF Tick, vars, Begin, BeginExpire, Rollback
  <2> QED
    BY <1>1, <2>1
<1> QED
  BY <1>2, <1>3, <1>4, <1>5 DEF Next, ClientStep

\* The newest entry of an action is that of its lease.
LEMMA AuditExplainsStep ==
  ASSUME LeaseAssumption, TypeOK, CallsRead, AuditExplainsLeases, [Next]_vars
  PROVE  AuditExplainsLeases'
<1> DEFINE Explained(a) ==
      \/ leases[a] = NoLease
         /\ \A i \in Changes(a) : (\A j \in Changes(a) : j <= i) => audit[i].decision = "expired"
      \/ leases[a] # NoLease
         /\ \E i \in Changes(a) :
              /\ \A j \in Changes(a) : j <= i
              /\ audit[i].decision \in {"acquired", "renewed"}
              /\ audit[i].actor = leases[a].owner /\ audit[i].expires = leases[a].expires
<1> SUFFICES ASSUME NEW a \in Actions
             PROVE  Explained(a)'
  BY DEF AuditExplainsLeases
<1>1. Explained(a)
  BY DEF AuditExplainsLeases
<1>2. Appends /\ (Untouched(a) \/ Granted(a) \/ Released(a))
  BY LeaseStep
<1>3. /\ Len(audit) \in Nat /\ DOMAIN audit = 1..Len(audit)
      /\ Changes(a) \subseteq DOMAIN audit
      /\ \A i \in Changes(a) : audit'[i] = audit[i]
  BY <1>2 DEF TypeOK, Changes, Appends
<1>4. CASE Untouched(a)
  BY <1>1, <1>3, <1>4 DEF Untouched
<1>5. ASSUME NEW n \in Nat, Added(a, n)
      PROVE  n \in Changes(a)' /\ \A j \in Changes(a)' : j <= n /\ (n <= j => j = n)
  <2>1. \A j \in 1..Len(audit) : j < n
    <3>1. n >= 1 /\ n \notin 1..Len(audit)
      <4>1. audit' \in Seq(Event)
        BY TypeInductive DEF TypeOK
      <4> QED
        BY <1>3, <1>5, <4>1 DEF Added
    <3> QED
      BY <1>3, <3>1
  <2> QED
    BY <1>3, <1>5, <2>1 DEF Added
<1>6. CASE Granted(a)
  <2>1. PICK n \in Nat :
          /\ Added(a, n)
          /\ audit'[n].actor = leases'[a].owner /\ audit'[n].expires = leases'[a].expires
          /\ audit'[n].decision \in {"acquired", "renewed"}
    BY <1>6 DEF Granted
  <2> QED
    BY <1>5, <1>6, <2>1 DEF Granted
<1>7. CASE Released(a)
  <2>1. PICK n \in Nat : Added(a, n) /\ audit'[n].decision = "expired"
    BY <1>7 DEF Released
  <2>2. \A i \in Changes(a)' : (\A j \in Changes(a)' : j <= i) => i = n
    BY <1>5, <2>1
  <2> QED
    BY <1>7, <2>1, <2>2 DEF Released
<1> QED
  BY <1>2, <1>4, <1>6, <1>7

\* Since an owner acquired its lease, the entries of the action are its own and leave no gap.
LEMMA TenureStep ==
  ASSUME LeaseAssumption, TypeOK, CallsRead, AuditExplainsLeases, UnbrokenTenure, [Next]_vars
  PROVE  UnbrokenTenure'
<1> DEFINE Since(a, i) ==
      /\ audit[i].decision = "acquired" /\ audit[i].created = leases[a].acquired
      /\ \A j \in Changes(a) : j >= i =>
           audit[j].actor = leases[a].owner /\ audit[j].decision # "expired"
      /\ \A j, k \in Changes(a) :
           i <= j /\ j < k /\ (\A m \in Changes(a) : m <= j \/ m >= k)
           => audit[k].created < audit[j].expires
<1> SUFFICES ASSUME NEW a \in Actions, leases'[a] # NoLease
             PROVE  (\E i \in Changes(a) : Since(a, i))'
  BY DEF UnbrokenTenure
<1>1. leases[a] # NoLease => \E i \in Changes(a) : Since(a, i)
  BY DEF UnbrokenTenure
<1>2. Appends /\ (Untouched(a) \/ Granted(a))
  BY LeaseStep DEF Released
<1>3. /\ Len(audit) \in Nat /\ DOMAIN audit = 1..Len(audit)
      /\ Changes(a) \subseteq DOMAIN audit
      /\ \A i \in Changes(a) : audit'[i] = audit[i]
  BY <1>2 DEF TypeOK, Changes, Appends
<1>4. CASE Untouched(a)
  BY <1>1, <1>3, <1>4 DEF Untouched
<1>5. CASE Granted(a)
  <2>1. PICK n \in Nat :
          /\ Added(a, n)
          /\ audit'[n].actor = leases'[a].owner
          /\ \/ audit'[n].decision = "acquired" /\ audit'[n].created = leases'[a].acquired
             \/ /\ audit'[n].decision \in {"acquired", "renewed"}
                /\ leases[a] # NoLease /\ leases[a].owner = leases'[a].owner
                /\ leases'[a].acquired = leases[a].acquired
                /\ audit'[n].created < leases[a].expires
    BY <1>5 DEF Granted
  <2>2. /\ n \in Changes(a)' /\ \A j \in Changes(a) : j < n
        /\ Changes(a)' = Changes(a) \cup {n} /\ Changes(a) \subseteq Nat
    <3>1. n >= 1 /\ n \notin 1..Len(audit)
      <4>1. audit' \in Seq(Event)
        BY TypeInductive DEF TypeOK
      <4> QED
        BY <1>3, <2>1, <4>1 DEF Added
    <3> QED
      BY <1>3, <2>1, <3>1 DEF Added
  <2>3. CASE audit'[n].decision = "acquired" /\ audit'[n].created = leases'[a].acquired
    <3>1. \A j \in Changes(a)' : n <= j => j = n
      BY <2>2
    <3>2. Since(a, n)'
      BY <2>1, <2>2, <2>3, <3>1
    <3> QED
      BY <2>2, <3>2
  <2>4. CASE /\ audit'[n].decision \in {"acquired", "renewed"}
             /\ leases[a] # NoLease /\ leases[a].owner = leases'[a].owner
             /\ leases'[a].acquired = leases[a].acquired
             /\ audit'[n].created < leases[a].expires
    <3>1. PICK i \in Changes(a) : Since(a, i)
      BY <1>1, <2>4
    <3>2. PICK newest \in Changes(a) :
            (\A j \in Changes(a) : j <= newest) /\ audit[newest].expires = leases[a].expires
      BY <2>4 DEF AuditExplainsLeases
    <3>3. audit'[i].decision = "acquired" /\ audit'[i].created = leases'[a].acquired
      BY <1>3, <2>4, <3>1
    <3>4. ASSUME NEW j \in Changes(a)', j >= i
          PROVE  audit'[j].actor = leases'[a].owner /\ audit'[j].decision # "expired"
      <4>1. CASE j = n
        BY <2>1, <2>4, <4>1
      <4>2. CASE j \in Changes(a)
        BY <1>3, <2>4, <3>1, <3>4, <4>2
      <4> QED
        BY <2>2, <4>1, <4>2
    <3>5. ASSUME NEW j \in Changes(a)', NEW k \in Changes(a)', i <= j, j < k,
                 \A m \in Changes(a)' : m <= j \/ m >= k
          PROVE  audit'[k].created < audit'[j].expires
      <4>1. j \in Changes(a) /\ (k \in Changes(a) \/ k = n)
        BY <2>2, <3>5
      <4>2. CASE k \in Changes(a)
        <5>1. \A m \in Changes(a) : m <= j \/ m >= k
          BY <2>2, <3>5
        <5> QED
          BY <1>3, <3>1, <3>5, <4>1, <4>2, <5>1
      <4>3. CASE k = n
        <5>1. j = newest
          BY <2>2, <3>2, <3>5, <4>1, <4>3
        <5> QED
          BY <1>3, <2>4, <3>2, <4>1, <4>3, <5>1
      <4> QED
        BY <4>1, <4>2, <4>3
    <3>6. i \in Changes(a)' /\ Since(a, i)'
      BY <2>2, <3>3, <3>4, <3>5
    <3> QED
      BY <3>6
  <2> QED
    BY <2>1, <2>3, <2>4
<1> QED
  BY <1>2, <1>4, <1>5

LEMMA AlwaysExplained == Spec => [](AuditExplainsLeases /\ UnbrokenTenure)
<1> USE LeaseAssumption
<1>1. Init => AuditExplainsLeases /\ UnbrokenTenure
  BY DEF Init, AuditExplainsLeases, UnbrokenTenure, Changes
<1>2. TypeOK /\ CallsRead /\ AuditExplainsLeases /\ UnbrokenTenure /\ [Next]_vars
      => AuditExplainsLeases' /\ UnbrokenTenure'
  BY AuditExplainsStep, TenureStep
<1> QED
  BY <1>1, <1>2, AlwaysTyped, PTL DEF Spec

\* The audit of an action replays to its lease, whatever clocks the calls carry
\* and however their transactions take turns.
THEOREM AuditReplays == Spec => []AuditExplainsLeases
BY AlwaysExplained, PTL

\* acquired_at is the start of a hold without a gap and without another owner.
THEOREM TenureIsUnbroken == Spec => []UnbrokenTenure
BY AlwaysExplained, PTL
-----------------------------------------------------------------------------
\* The graph of actions

LEMMA GraphInit == PartInit => Graph!Init
BY DEF PartInit

LEMMA GraphStep ==
  /\ part = "graph" /\ [PartNext]_<<part, vars, graphVars, reviewVars, agentVars, importVars,
                                    watchVars, factVars, ruleVars>>
       => (part = "graph")' /\ [Graph!Next]_(Graph!vars)
  /\ ~(part = "graph") /\ [PartNext]_<<part, vars, graphVars, reviewVars, agentVars, importVars,
                                       watchVars, factVars, ruleVars>>
       => ~(part = "graph")'
BY DEF PartNext, graphVars, Graph!vars

\* What a client's call holds at each step of an upsert and of a reading.
Upsert(r) ==
  r.at \in {"node", "clear"} =>
    r.action \in Planned /\ r = [at |-> r.at, action |-> r.action, list |-> r.list, status |-> r.status]
Insert(r) ==
  r.at = "insert" =>
    r.action \in Planned /\ r = [at |-> r.at, action |-> r.action, list |-> r.list, todo |-> r.todo]
Reading(r) ==
  r.at = "read" =>
    /\ r = [at |-> r.at, nodes |-> r.nodes, done |-> r.done, todo |-> r.todo,
            blocked |-> r.blocked, expected |-> r.expected, settled |-> r.settled]
    /\ r.settled \subseteq Planned
    /\ r.blocked \cap r.todo = {}

GraphShape ==
  /\ status = [a \in Planned |-> status[a]]
  /\ deps = [a \in Planned |-> deps[a]]
  /\ last = [a \in Planned |-> last[a]]
  /\ graphCall = [c \in Clients |-> graphCall[c]]
  /\ sealed \subseteq Planned
  /\ \A c \in Clients :
       /\ graphCall[c].at \in {"idle", "node", "clear", "insert", "read"}
       /\ Upsert(graphCall[c]) /\ Insert(graphCall[c]) /\ Reading(graphCall[c])

Upserts(c, a) == graphCall[c].at \in {"node", "clear", "insert"} /\ graphCall[c].action = a

\* No upsert under way brings an older status of a completed action with it.
Sealed ==
  \A a \in sealed :
    /\ status[a] = "done"
    /\ \A c \in Clients : graphCall[c].at = "node" /\ graphCall[c].action = a => graphCall[c].status = "done"

\* The one upsert of an action that is not torn has written what it has not to write still.
Written ==
  \A a \in Planned \ torn :
    /\ \A c, k \in Clients : Upserts(c, a) /\ Upserts(k, a) => c = k
    /\ (\A c \in Clients : ~Upserts(c, a)) => deps[a] = last[a]
    /\ \A c \in Clients : graphCall[c].at = "insert" /\ graphCall[c].action = a =>
         graphCall[c].todo \subseteq graphCall[c].list /\ deps[a] = graphCall[c].list \ graphCall[c].todo

LEMMA Entered ==
  ASSUME graphCall = [c \in Clients |-> graphCall[c]], NEW c \in Clients, NEW r,
         graphCall' = [graphCall EXCEPT ![c] = r]
  PROVE  /\ graphCall'[c] = r
         /\ \A k \in Clients : k # c => graphCall'[k] = graphCall[k]
         /\ graphCall' = [k \in Clients |-> graphCall'[k]]
OBVIOUS

\* The call of one client may change, and nothing that the shapes of the others are about.
LEMMA OneCall ==
  ASSUME GraphShape, NEW c \in Clients, NEW r, graphCall' = [graphCall EXCEPT ![c] = r],
         r.at \in {"idle", "node", "clear", "insert", "read"}, Upsert(r), Insert(r), Reading(r),
         status' = [a \in Planned |-> status'[a]], deps' = [a \in Planned |-> deps'[a]],
         last' = [a \in Planned |-> last'[a]], sealed' \subseteq Planned
  PROVE  GraphShape'
<1>1. graphCall'[c] = r /\ (\A k \in Clients : k # c => graphCall'[k] = graphCall[k])
      /\ graphCall' = [k \in Clients |-> graphCall'[k]]
  BY Entered DEF GraphShape
<1>2. ASSUME NEW k \in Clients
      PROVE  /\ graphCall'[k].at \in {"idle", "node", "clear", "insert", "read"}
             /\ Upsert(graphCall'[k]) /\ Insert(graphCall'[k]) /\ Reading(graphCall'[k])
  <2>1. CASE k = c
    BY <1>1, <2>1
  <2>2. CASE k # c
    BY <1>1, <2>2 DEF GraphShape
  <2> QED
    BY <2>1, <2>2
<1> QED
  BY <1>1, <1>2 DEF GraphShape, Upsert, Insert, Reading

\* Calls as records.
LEMMA ClearAt ==
  \A k, a, list, kept : k = [at |-> "node", action |-> a, list |-> list, status |-> kept]
    => [k EXCEPT !.at = "clear"] = [at |-> "clear", action |-> a, list |-> list, status |-> kept]
OBVIOUS

LEMMA TodoLess ==
  \A k, a, list, todo, d : k = [at |-> "insert", action |-> a, list |-> list, todo |-> todo]
    => [k EXCEPT !.todo = @ \ {d}] = [at |-> "insert", action |-> a, list |-> list, todo |-> todo \ {d}]
OBVIOUS

LEMMA IdleShape ==
  Graph!Idle.at = "idle" /\ Upsert(Graph!Idle) /\ Insert(Graph!Idle) /\ Reading(Graph!Idle)
BY DEF Graph!Idle, Upsert, Insert, Reading

\* No other step than an upsert's of an action concerns what it holds.
GraphInv == GraphShape /\ Sealed /\ Written /\ Graph!FrontierTellsTheGraph

LEMMA GraphInvInit == Graph!Init => GraphInv
<1> SUFFICES ASSUME Graph!Init PROVE GraphInv
  OBVIOUS
<1>1. \A c \in Clients : graphCall[c] = Graph!Idle
  BY DEF Graph!Init
<1>2. GraphShape
  BY <1>1, IdleShape DEF Graph!Init, GraphShape
<1>3. Sealed /\ Written /\ Graph!FrontierTellsTheGraph
  BY <1>1, IdleShape DEF Graph!Init, Sealed, Written, Upserts, Graph!FrontierTellsTheGraph
<1> QED
  BY <1>2, <1>3 DEF GraphInv

\* A call that leaves an upsert or a reading, having written nothing.
LEMMA StepAside ==
  ASSUME GraphInv, NEW c \in Clients, NEW r, graphCall' = [graphCall EXCEPT ![c] = r],
         r.at \in {"idle", "read"}, Reading(r),
         r.at = "read" => \A a \in r.settled \ r.todo :
                            a \in r.blocked <=> ~(r.expected[a] \subseteq r.done),
         torn \subseteq torn',
         \A a \in Planned \ torn' : ~Upserts(c, a),
         UNCHANGED <<status, deps, last, sealed>>
  PROVE  GraphInv'
<1>1. graphCall'[c] = r /\ (\A k \in Clients : k # c => graphCall'[k] = graphCall[k])
  BY Entered DEF GraphInv, GraphShape
<1>2. GraphShape'
  <2>1. Upsert(r) /\ Insert(r)
    BY DEF Upsert, Insert
  <2> QED
    BY <2>1, OneCall DEF GraphInv, GraphShape
<1>3. Sealed'
  BY <1>1 DEF GraphInv, Sealed
<1>4. Written'
  <2> SUFFICES ASSUME NEW a \in Planned, a \notin torn'
               PROVE  /\ \A d, k \in Clients : Upserts(d, a)' /\ Upserts(k, a)' => d = k
                      /\ (\A d \in Clients : ~Upserts(d, a)') => deps'[a] = last'[a]
                      /\ \A d \in Clients : graphCall'[d].at = "insert" /\ graphCall'[d].action = a =>
                           /\ graphCall'[d].todo \subseteq graphCall'[d].list
                           /\ deps'[a] = graphCall'[d].list \ graphCall'[d].todo
    BY DEF Written
  <2>1. \A d \in Clients : Upserts(d, a)' <=> Upserts(d, a)
    BY <1>1 DEF Upserts
  <2>2. a \in Planned \ torn
    OBVIOUS
  <2> QED
    BY <1>1, <2>1, <2>2 DEF GraphInv, Written, Upserts
<1>5. Graph!FrontierTellsTheGraph'
  BY <1>1 DEF GraphInv, Graph!FrontierTellsTheGraph
<1> QED
  BY <1>2, <1>3, <1>4, <1>5 DEF GraphInv

LEMMA FailureTears ==
  ASSUME GraphInv, NEW c \in Clients, graphCall[c].at \in {"node", "clear", "insert"}, Graph!Fails(c),
         UNCHANGED <<status, deps, last, sealed>>
  PROVE  GraphInv'
<1>1. /\ graphCall' = [graphCall EXCEPT ![c] = Graph!Idle]
      /\ torn' = torn \cup {graphCall[c].action}
  BY DEF Graph!Fails, Graph!Return, Graph!Enter
<1>2. \A a \in Planned \ torn' : ~Upserts(c, a)
  BY <1>1 DEF Upserts
<1> QED
  BY <1>1, <1>2, IdleShape, StepAside

LEMMA BeginKeeps ==
  ASSUME GraphInv, NEW c \in Clients, NEW a \in Planned, NEW list, Graph!BeginUpsert(c, a, list)
  PROVE  GraphInv'
<1> DEFINE r == [at |-> "node", action |-> a, list |-> list, status |-> Graph!StatusKept(a)]
<1>1. /\ graphCall[c] = Graph!Idle
      /\ graphCall' = [graphCall EXCEPT ![c] = r]
      /\ torn' = IF Graph!Upserting(a) = {} THEN torn ELSE torn \cup {a}
      /\ UNCHANGED <<status, deps, last, sealed>>
  BY DEF Graph!BeginUpsert, Graph!Enter
<1>2. graphCall'[c] = r /\ (\A k \in Clients : k # c => graphCall'[k] = graphCall[k])
  BY <1>1, Entered DEF GraphInv, GraphShape
<1>3. GraphShape'
  <2>1. r.at = "node" /\ Upsert(r) /\ Insert(r) /\ Reading(r)
    BY DEF Upsert, Insert, Reading
  <2> HIDE DEF r
  <2> QED
    BY <1>1, <2>1, OneCall DEF GraphInv, GraphShape
<1>4. Sealed'
  <2>1. \A b \in sealed : status[b] = "done" /\ Graph!StatusKept(b) = "done"
    BY DEF GraphInv, Sealed, Graph!StatusKept
  <2> QED
    BY <1>1, <1>2, <2>1 DEF GraphInv, Sealed
<1>5. Written'
  <2> SUFFICES ASSUME NEW b \in Planned, b \notin torn'
               PROVE  /\ \A d, k \in Clients : Upserts(d, b)' /\ Upserts(k, b)' => d = k
                      /\ (\A d \in Clients : ~Upserts(d, b)') => deps'[b] = last'[b]
                      /\ \A d \in Clients : graphCall'[d].at = "insert" /\ graphCall'[d].action = b =>
                           /\ graphCall'[d].todo \subseteq graphCall'[d].list
                           /\ deps'[b] = graphCall'[d].list \ graphCall'[d].todo
    BY DEF Written
  <2>1. \A d \in Clients : Upserts(d, b)' <=> Upserts(d, b) \/ (d = c /\ a = b)
    BY <1>1, <1>2, IdleShape DEF Upserts
  <2>2. b \in Planned \ torn
    BY <1>1
  <2>3. a = b => \A d \in Clients : ~Upserts(d, b)
    BY <1>1 DEF Graph!Upserting, Upserts
  <2> QED
    BY <1>1, <1>2, <2>1, <2>2, <2>3 DEF GraphInv, Written
<1>6. Graph!FrontierTellsTheGraph'
  BY <1>2 DEF GraphInv, Graph!FrontierTellsTheGraph
<1> QED
  BY <1>3, <1>4, <1>5, <1>6 DEF GraphInv

LEMMA NodeKeeps ==
  ASSUME GraphInv, NEW c \in Clients, Graph!UpsertNode(c)
  PROVE  GraphInv'
<1> DEFINE a == graphCall[c].action
           r == [at |-> "clear", action |-> graphCall[c].action, list |-> graphCall[c].list,
                 status |-> graphCall[c].status]
<1>1. CASE Graph!Fails(c) /\ UNCHANGED status
  BY <1>1, FailureTears DEF Graph!UpsertNode
<1>2. CASE /\ status' = [status EXCEPT ![graphCall[c].action] = graphCall[c].status]
           /\ Graph!Enter(c, [graphCall[c] EXCEPT !.at = "clear"])
           /\ UNCHANGED torn
  <2>1. graphCall[c].at = "node" /\ UNCHANGED <<deps, last, sealed, torn>>
    BY <1>2 DEF Graph!UpsertNode
  <2>2. /\ graphCall[c] = [at |-> "node", action |-> a, list |-> graphCall[c].list,
                           status |-> graphCall[c].status]
        /\ a \in Planned
    BY <2>1 DEF GraphInv, GraphShape, Upsert
  <2>3. graphCall' = [graphCall EXCEPT ![c] = r] /\ r.action = a
    <3> DEFINE q == graphCall[c]
               kept == graphCall[c].status
               list == graphCall[c].list
    <3>1. graphCall' = [graphCall EXCEPT ![c] = [q EXCEPT !.at = "clear"]]
      BY <1>2 DEF Graph!Enter
    <3>2. q = [at |-> "node", action |-> a, list |-> list, status |-> kept]
      BY <2>2
    <3>3. r = [at |-> "clear", action |-> a, list |-> list, status |-> kept]
      OBVIOUS
    <3> HIDE DEF r, q, a, list, kept
    <3>4. [q EXCEPT !.at = "clear"] = r
      BY <3>2, <3>3, ClearAt
    <3>5. r.action = a
      BY <3>3
    <3> QED
      BY <3>1, <3>4, <3>5
  <2>4. graphCall'[c] = r /\ (\A k \in Clients : k # c => graphCall'[k] = graphCall[k])
    BY <2>3, Entered DEF GraphInv, GraphShape
  <2>5. r.at = "clear" /\ r.action = a /\ Upsert(r) /\ Insert(r) /\ Reading(r)
    BY <2>2 DEF Upsert, Insert, Reading
  <2>6. /\ status' = [b \in Planned |-> status'[b]]
        /\ status'[a] = graphCall[c].status
        /\ \A b \in Planned : b # a => status'[b] = status[b]
    BY <1>2, <2>2 DEF GraphInv, GraphShape
  <2> HIDE DEF r, a
  <2>7. GraphShape'
    BY <2>1, <2>3, <2>5, <2>6, OneCall DEF GraphInv, GraphShape
  <2>8. Sealed'
    BY <2>1, <2>4, <2>5, <2>6 DEF GraphInv, Sealed, GraphShape, a
  <2>9. Written'
    <3>1. \A d \in Clients, b \in Planned : Upserts(d, b)' <=> Upserts(d, b)
      BY <2>1, <2>4, <2>5 DEF Upserts, a
    <3> QED
      BY <2>1, <2>4, <2>5, <3>1 DEF GraphInv, Written
  <2>10. Graph!FrontierTellsTheGraph'
    BY <2>4, <2>5 DEF GraphInv, Graph!FrontierTellsTheGraph
  <2> QED
    BY <2>7, <2>8, <2>9, <2>10 DEF GraphInv
<1> QED
  BY <1>1, <1>2 DEF Graph!UpsertNode

\* What the three statements on a dependency list, and the end of an upsert, keep.
LEMMA ListStep ==
  ASSUME GraphInv, NEW c \in Clients, graphCall[c].at \in {"clear", "insert"}, NEW r,
         graphCall' = [graphCall EXCEPT ![c] = r], r.at \in {"idle", "insert"}, Insert(r),
         r.at = "insert" => r.action = graphCall[c].action,
         NEW a \in Planned, a = graphCall[c].action,
         deps' = [b \in Planned |-> deps'[b]], last' = [b \in Planned |-> last'[b]],
         \A b \in Planned : b # a => deps'[b] = deps[b] /\ last'[b] = last[b],
         a \notin torn /\ r.at = "insert" => r.todo \subseteq r.list /\ deps'[a] = r.list \ r.todo,
         a \notin torn /\ r.at = "idle" => deps'[a] = last'[a],
         UNCHANGED <<status, sealed, torn>>
  PROVE  GraphInv'
<1>1. graphCall'[c] = r /\ (\A k \in Clients : k # c => graphCall'[k] = graphCall[k])
  BY Entered DEF GraphInv, GraphShape
<1>2. GraphShape'
  <2>1. Upsert(r) /\ Reading(r)
    BY DEF Upsert, Reading
  <2> QED
    BY <2>1, OneCall DEF GraphInv, GraphShape
<1>3. Sealed'
  BY <1>1 DEF GraphInv, Sealed
<1>4. Graph!FrontierTellsTheGraph'
  BY <1>1 DEF GraphInv, Graph!FrontierTellsTheGraph
<1>5. Written'
  <2> SUFFICES ASSUME NEW b \in Planned, b \notin torn
               PROVE  /\ \A d, k \in Clients : Upserts(d, b)' /\ Upserts(k, b)' => d = k
                      /\ (\A d \in Clients : ~Upserts(d, b)') => deps'[b] = last'[b]
                      /\ \A d \in Clients : graphCall'[d].at = "insert" /\ graphCall'[d].action = b =>
                           /\ graphCall'[d].todo \subseteq graphCall'[d].list
                           /\ deps'[b] = graphCall'[d].list \ graphCall'[d].todo
    BY DEF Written
  <2>1. \A d \in Clients : Upserts(d, b)' => Upserts(d, b)
    BY <1>1 DEF Upserts
  <2>2. /\ \A d, k \in Clients : Upserts(d, b) /\ Upserts(k, b) => d = k
        /\ (\A d \in Clients : ~Upserts(d, b)) => deps[b] = last[b]
        /\ \A d \in Clients : graphCall[d].at = "insert" /\ graphCall[d].action = b =>
             graphCall[d].todo \subseteq graphCall[d].list /\ deps[b] = graphCall[d].list \ graphCall[d].todo
    BY DEF GraphInv, Written
  <2>3. CASE b # a
    <3>1. \A d \in Clients : Upserts(d, b)' <=> Upserts(d, b)
      BY <1>1, <2>3 DEF Upserts
    <3> QED
      BY <1>1, <2>2, <2>3, <3>1
  <2>4. CASE b = a
    <3>1. Upserts(c, b) /\ (\A d \in Clients : d # c => ~Upserts(d, b))
      BY <2>2, <2>4 DEF Upserts
    <3>2. Upserts(c, b)' <=> r.at = "insert"
      BY <1>1, <2>4 DEF Upserts
    <3>3. \A d \in Clients : d # c => ~(graphCall'[d].at = "insert" /\ graphCall'[d].action = b)
      BY <1>1, <3>1 DEF Upserts
    <3> QED
      BY <1>1, <2>1, <2>4, <3>1, <3>2, <3>3
  <2> QED
    BY <2>3, <2>4
<1> QED
  BY <1>2, <1>3, <1>4, <1>5 DEF GraphInv

LEMMA ClearKeeps ==
  ASSUME GraphInv, NEW c \in Clients, Graph!ClearDeps(c)
  PROVE  GraphInv'
<1> DEFINE a == graphCall[c].action
           r == [at |-> "insert", action |-> graphCall[c].action, list |-> graphCall[c].list,
                 todo |-> graphCall[c].list]
<1>1. CASE Graph!Fails(c) /\ UNCHANGED deps
  BY <1>1, FailureTears DEF Graph!ClearDeps
<1>2. CASE /\ deps' = [deps EXCEPT ![a] = {}]
           /\ Graph!Enter(c, r)
           /\ UNCHANGED torn
  <2>1. graphCall[c].at = "clear" /\ UNCHANGED <<status, last, sealed, torn>>
    BY <1>2 DEF Graph!ClearDeps
  <2>2. a \in Planned
    BY <2>1 DEF GraphInv, GraphShape, Upsert
  <2>3. graphCall' = [graphCall EXCEPT ![c] = r]
    BY <1>2 DEF Graph!Enter
  <2>4. r.at = "insert" /\ r.action = a /\ Insert(r) /\ r.todo = r.list
    BY <2>2 DEF Insert
  <2>5. /\ deps' = [b \in Planned |-> deps'[b]] /\ last' = [b \in Planned |-> last'[b]]
        /\ deps'[a] = {}
        /\ \A b \in Planned : b # a => deps'[b] = deps[b] /\ last'[b] = last[b]
    BY <1>2, <2>1, <2>2 DEF GraphInv, GraphShape
  <2>6. r.todo \subseteq r.list /\ deps'[a] = r.list \ r.todo
    BY <2>4, <2>5
  <2>7. r.at = "insert" /\ r.todo \subseteq r.list /\ deps'[a] = r.list \ r.todo
    BY <2>4, <2>6
  <2>8. /\ graphCall[c].at \in {"clear", "insert"} /\ r.at \in {"idle", "insert"} /\ Insert(r)
        /\ r.at = "insert" => r.action = graphCall[c].action
        /\ r.at = "insert" => r.action = a
        /\ UNCHANGED <<status, sealed, torn>>
    BY <2>1, <2>4
  <2>9. /\ deps' = [b \in Planned |-> deps'[b]] /\ last' = [b \in Planned |-> last'[b]]
        /\ \A b \in Planned : b # a => deps'[b] = deps[b] /\ last'[b] = last[b]
    BY <2>5
  <2>10. a = graphCall[c].action
    OBVIOUS
  <2> HIDE DEF r, a
  <2> QED
    BY <2>2, <2>3, <2>7, <2>8, <2>9, <2>10, ListStep
<1> QED
  BY <1>1, <1>2 DEF Graph!ClearDeps, Graph!Cleared

LEMMA InsertKeeps ==
  ASSUME GraphInv, NEW c \in Clients, NEW d \in Planned, Graph!InsertDep(c, d)
  PROVE  GraphInv'
<1> DEFINE a == graphCall[c].action
           r == [at |-> "insert", action |-> graphCall[c].action, list |-> graphCall[c].list,
                 todo |-> graphCall[c].todo \ {d}]
<1>0. /\ graphCall[c].at = "insert" /\ d \in graphCall[c].todo
      /\ UNCHANGED <<status, last, sealed>>
      /\ \/ /\ d \notin deps[a]
            /\ deps' = [deps EXCEPT ![a] = @ \cup {d}]
            /\ Graph!Enter(c, [graphCall[c] EXCEPT !.todo = @ \ {d}])
            /\ UNCHANGED torn
         \/ Graph!Fails(c) /\ UNCHANGED deps
  BY DEF Graph!InsertDep
<1>1. CASE Graph!Fails(c) /\ UNCHANGED deps
  BY <1>0, <1>1, FailureTears
<1>2. CASE /\ deps' = [deps EXCEPT ![a] = @ \cup {d}]
           /\ Graph!Enter(c, [graphCall[c] EXCEPT !.todo = @ \ {d}])
           /\ UNCHANGED torn
  <2>1. /\ a \in Planned
        /\ graphCall[c] = [at |-> "insert", action |-> a, list |-> graphCall[c].list,
                           todo |-> graphCall[c].todo]
    BY <1>0 DEF GraphInv, GraphShape, Insert
  <2>2. graphCall' = [graphCall EXCEPT ![c] = r]
    <3> DEFINE q == graphCall[c]
               todo == graphCall[c].todo
               list == graphCall[c].list
    <3>1. graphCall' = [graphCall EXCEPT ![c] = [q EXCEPT !.todo = @ \ {d}]]
      BY <1>2 DEF Graph!Enter
    <3>2. q = [at |-> "insert", action |-> a, list |-> list, todo |-> todo]
      BY <2>1
    <3>3. r = [at |-> "insert", action |-> a, list |-> list, todo |-> todo \ {d}]
      OBVIOUS
    <3> HIDE DEF r, q, a, list, todo
    <3>4. [q EXCEPT !.todo = @ \ {d}] = r
      BY <3>2, <3>3, TodoLess
    <3> QED
      BY <3>1, <3>4
  <2>3. /\ r.at = "insert" /\ r.action = a /\ r.list = graphCall[c].list
        /\ r.todo = graphCall[c].todo \ {d} /\ Insert(r)
    BY <2>1 DEF Insert
  <2>4. /\ deps' = [b \in Planned |-> deps'[b]] /\ last' = [b \in Planned |-> last'[b]]
        /\ deps'[a] = deps[a] \cup {d}
        /\ \A b \in Planned : b # a => deps'[b] = deps[b] /\ last'[b] = last[b]
    BY <1>0, <1>2, <2>1 DEF GraphInv, GraphShape
  <2>5. a \notin torn => r.todo \subseteq r.list /\ deps'[a] = r.list \ r.todo
    BY <1>0, <2>1, <2>3, <2>4 DEF GraphInv, Written
  <2> HIDE DEF r
  <2> QED
    BY ZenonT(40), <1>0, <1>2, <2>1, <2>2, <2>3, <2>4, <2>5, ListStep
<1> QED
  BY <1>0, <1>1, <1>2

LEMMA FinishKeeps ==
  ASSUME GraphInv, NEW c \in Clients, Graph!FinishUpsert(c)
  PROVE  GraphInv'
<1> DEFINE a == graphCall[c].action
<1>1. /\ graphCall[c].at = "insert" /\ graphCall[c].todo = {}
      /\ last' = [last EXCEPT ![a] = graphCall[c].list]
      /\ graphCall' = [graphCall EXCEPT ![c] = Graph!Idle]
      /\ UNCHANGED <<status, deps, torn, sealed>>
  BY DEF Graph!FinishUpsert, Graph!Return, Graph!Enter
<1>2. a \in Planned
  BY <1>1 DEF GraphInv, GraphShape, Insert
<1>3. /\ deps' = [b \in Planned |-> deps'[b]] /\ last' = [b \in Planned |-> last'[b]]
      /\ last'[a] = graphCall[c].list
      /\ \A b \in Planned : b # a => deps'[b] = deps[b] /\ last'[b] = last[b]
  BY <1>1, <1>2 DEF GraphInv, GraphShape
<1>4. a \notin torn => deps'[a] = last'[a]
  <2>1. a \notin torn => deps[a] = graphCall[c].list \ graphCall[c].todo
    BY <1>1, <1>2 DEF GraphInv, Written
  <2>2. \A S, T : T = {} => S \ T = S
    OBVIOUS
  <2> QED
    BY <1>1, <1>3, <2>1, <2>2
<1> QED
  BY ZenonT(40), <1>1, <1>2, <1>3, <1>4, IdleShape, ListStep

LEMMA CompleteKeeps ==
  ASSUME GraphInv, NEW a \in Planned, Graph!CompleteAction(a)
  PROVE  GraphInv'
<1>1. /\ status' = [status EXCEPT ![a] = "done"]
      /\ sealed' = IF \E c \in Graph!Upserting(a) : graphCall[c].at = "node" /\ graphCall[c].status # "done"
                   THEN sealed ELSE sealed \cup {a}
      /\ UNCHANGED <<deps, graphCall, last, torn>>
  BY DEF Graph!CompleteAction
<1>2. /\ status' = [b \in Planned |-> status'[b]]
      /\ status'[a] = "done"
      /\ \A b \in Planned : b # a => status'[b] = status[b]
  BY <1>1 DEF GraphInv, GraphShape
<1>3. GraphShape'
  BY <1>1, <1>2 DEF GraphInv, GraphShape, Upsert, Insert, Reading
<1>4. Sealed'
  <2>1. CASE sealed' = sealed
    BY <1>1, <1>2, <2>1 DEF GraphInv, Sealed, GraphShape
  <2>2. CASE /\ sealed' = sealed \cup {a}
             /\ \A c \in Graph!Upserting(a) : graphCall[c].at = "node" => graphCall[c].status = "done"
    BY <1>1, <1>2, <2>2 DEF GraphInv, Sealed, GraphShape, Graph!Upserting
  <2> QED
    BY <1>1, <2>1, <2>2
<1>5. Written' /\ Graph!FrontierTellsTheGraph'
  BY <1>1 DEF GraphInv, Written, Upserts, Graph!FrontierTellsTheGraph
<1> QED
  BY <1>3, <1>4, <1>5 DEF GraphInv

LEMMA ListNodesKeeps ==
  ASSUME GraphInv, NEW c \in Clients, Graph!ListNodes(c)
  PROVE  GraphInv'
<1> DEFINE ids == {a \in Planned : status[a] # "absent"}
           finished == {a \in ids : status[a] = "done"}
           quiet == {a \in ids : Graph!Upserting(a) = {} /\ a \notin torn}
           r == [at |-> "read", nodes |-> ids, done |-> finished,
                 todo |-> ids, blocked |-> {}, expected |-> last, settled |-> quiet]
<1>1. /\ graphCall[c] = Graph!Idle
      /\ graphCall' = [graphCall EXCEPT ![c] = r]
      /\ UNCHANGED <<status, deps, last, torn, sealed>>
  BY DEF Graph!ListNodes, Graph!Enter
<1>2. quiet \subseteq ids /\ quiet \subseteq Planned
  OBVIOUS
<1> HIDE DEF ids, finished, quiet
<1>3. r.at = "read" /\ Reading(r) /\ r.settled \ r.todo = {}
  BY <1>2 DEF Reading
<1>4. \A a \in Planned : ~Upserts(c, a)
  BY <1>1, IdleShape DEF Upserts
<1> HIDE DEF r
<1> QED
  BY <1>1, <1>3, <1>4, StepAside

LEMMA ListDepsKeeps ==
  ASSUME GraphInv, NEW c \in Clients, Graph!ListDeps(c)
  PROVE  GraphInv'
<1> DEFINE q == graphCall[c]
           a == CHOOSE x \in graphCall[c].todo : \A y \in graphCall[c].todo : x <= y
           blocked == IF Graph!Blocks(deps[a], q) THEN q.blocked \cup {a} ELSE q.blocked
           settled == IF Graph!Upserting(a) = {} /\ a \notin torn /\ last[a] = q.expected[a]
                      THEN q.settled ELSE q.settled \ {a}
           r == [at |-> "read", nodes |-> q.nodes, done |-> q.done, todo |-> q.todo \ {a},
                 blocked |-> blocked, expected |-> q.expected, settled |-> settled]
<1>1. /\ q.at = "read"
      /\ graphCall' = [graphCall EXCEPT ![c] = r]
      /\ UNCHANGED <<status, deps, last, torn, sealed>>
  BY DEF Graph!ListDeps, Graph!Enter
<1>2. /\ q = [at |-> q.at, nodes |-> q.nodes, done |-> q.done, todo |-> q.todo,
              blocked |-> q.blocked, expected |-> q.expected, settled |-> q.settled]
      /\ q.settled \subseteq Planned /\ q.blocked \cap q.todo = {}
  BY <1>1 DEF GraphInv, GraphShape, Reading
<1>3. \A b \in q.settled \ q.todo : b \in q.blocked <=> ~(q.expected[b] \subseteq q.done)
  BY <1>1 DEF GraphInv, Graph!FrontierTellsTheGraph
<1>4. Graph!Upserting(a) = {} => \A k \in Clients : ~Upserts(k, a)
  BY DEF Graph!Upserting, Upserts
<1> HIDE DEF a, q
<1>6. /\ a \in settled => deps[a] = q.expected[a]
      /\ a \in blocked <=> (a \in q.blocked \/ ~(deps[a] \subseteq q.done))
      /\ \A b : b # a => (b \in blocked <=> b \in q.blocked)
      /\ settled \subseteq q.settled
  BY <1>2, <1>4 DEF GraphInv, Written, Graph!Blocks
<1> HIDE DEF blocked, settled
<1>7. \A b \in settled \ (q.todo \ {a}) : b \in blocked <=> ~(q.expected[b] \subseteq q.done)
  <2> SUFFICES ASSUME NEW b \in settled, b \notin q.todo \ {a}
               PROVE  b \in blocked <=> ~(q.expected[b] \subseteq q.done)
    OBVIOUS
  <2>1. CASE b # a
    BY <1>3, <1>6, <2>1
  <2>2. CASE b = a /\ a \in q.todo
    BY <1>2, <1>6, <2>2
  <2>3. CASE b = a /\ a \notin q.todo
    BY <1>3, <1>6, <2>3
  <2> QED
    BY <2>1, <2>2, <2>3
<1>8. blocked \cap (q.todo \ {a}) = {} /\ settled \subseteq Planned
  BY <1>2, <1>6
<1>9. /\ r.at = "read" /\ Reading(r)
      /\ r.settled = settled /\ r.todo = q.todo \ {a} /\ r.blocked = blocked
      /\ r.expected = q.expected /\ r.done = q.done
  BY <1>1, <1>8 DEF Reading
<1>10. \A b \in Planned : ~Upserts(c, b)
  BY <1>1 DEF Upserts, q
<1> HIDE DEF r
<1> QED
  BY <1>1, <1>7, <1>9, <1>10, StepAside

LEMMA ReturnKeeps ==
  ASSUME GraphInv, NEW c \in Clients, Graph!ReturnGraph(c)
  PROVE  GraphInv'
<1>1. /\ graphCall[c].at = "read"
      /\ graphCall' = [graphCall EXCEPT ![c] = Graph!Idle]
      /\ UNCHANGED <<status, deps, last, torn, sealed>>
  BY DEF Graph!ReturnGraph, Graph!Return, Graph!Enter
<1>2. \A a \in Planned : ~Upserts(c, a)
  BY <1>1 DEF Upserts
<1> QED
  BY <1>1, <1>2, IdleShape, StepAside

LEMMA GraphInvNext == GraphInv /\ [Graph!Next]_(Graph!vars) => GraphInv'
<1> SUFFICES ASSUME GraphInv, [Graph!Next]_(Graph!vars) PROVE GraphInv'
  OBVIOUS
<1>1. CASE UNCHANGED <<status, deps, graphCall, last, torn, sealed>>
  BY SMTT(30), <1>1 DEF GraphInv, GraphShape, Upsert, Insert, Reading, Sealed, Written, Upserts, Graph!FrontierTellsTheGraph
<1>2. ASSUME NEW c \in Clients, Graph!ClientStep(c) PROVE GraphInv'
  <2>1. graphCall[c].at \notin {"receipt", "audit"}
    BY DEF GraphInv, GraphShape
  <2>2. ~Graph!UpsertReceipt(c) /\ ~Graph!AuditReceipt(c)
    BY <2>1 DEF Graph!UpsertReceipt, Graph!AuditReceipt
  <2> QED
    BY <1>2, <2>2, BeginKeeps, NodeKeeps, ClearKeeps, InsertKeeps, FinishKeeps, ListNodesKeeps, ListDepsKeeps,
       ReturnKeeps DEF Graph!ClientStep
<1>3. ASSUME NEW a \in Planned, Graph!CompleteAction(a) PROVE GraphInv'
  BY <1>3, CompleteKeeps
<1>4. ASSUME NEW a \in Planned, Graph!SignalAction(a) PROVE GraphInv'
  BY <1>1, <1>4 DEF Graph!SignalAction
<1>5. ASSUME Graph!FeedNext PROVE GraphInv'
  <2>1. \A c \in Clients : graphCall[c].at \notin {"page", "fed"}
    BY DEF GraphInv, GraphShape
  <2> QED
    BY <1>4, <1>5, <2>1 DEF Graph!FeedNext, Graph!AuditPage, Graph!LeaveFeed
<1>6. CASE UNCHANGED Graph!vars
  BY <1>1, <1>6 DEF Graph!vars
<1> QED
  BY <1>2, <1>3, <1>4, <1>5, <1>6 DEF Graph!Next

LEMMA GraphInvTells ==
  GraphInv => Graph!DepsAreTheLastList /\ Graph!FrontierTellsTheGraph /\ Graph!CompletionSticks
BY DEF GraphInv, Sealed, Written, Upserts, Graph!Upserting, Graph!DepsAreTheLastList, Graph!CompletionSticks

\* A completed action stays done, an action has the dependencies of its last upsert, and a
\* graph read without a rewriting calls blocked what they block (action_graph.go:127-130,
\* 259-268, 374-402), for any actions and any number of callers.
THEOREM GraphIsTrue == PartSpec => []GraphTellsTheTruth
<1>1. PartSpec /\ part = "graph" => []GraphInv
  BY GraphInit, GraphStep, GraphInvInit, GraphInvNext, PTL DEF PartSpec
<1>2. PartSpec /\ ~(part = "graph") => []~(part = "graph")
  BY GraphStep, PTL DEF PartSpec
<1>3. (~(part = "graph") \/ GraphInv) => GraphTellsTheTruth
  BY GraphInvTells DEF GraphTellsTheTruth
<1> QED
  BY <1>1, <1>2, <1>3, PTL

-----------------------------------------------------------------------------
\* The receipts of signals

LEMMA ReceiptsInit == PartInit => Receipts!Init
BY DEF PartInit, Graph!Init, Receipts!Init, Graph!Idle, Receipts!Idle

LEMMA ReceiptsStep ==
  /\ part = "receipts" /\ [PartNext]_<<part, vars, graphVars, reviewVars, agentVars, importVars,
                                       watchVars, factVars, ruleVars>>
       => (part = "receipts")' /\ [Receipts!Next]_(Receipts!vars)
  /\ ~(part = "receipts") /\ [PartNext]_<<part, vars, graphVars, reviewVars, agentVars, importVars,
                                          watchVars, factVars, ruleVars>>
       => ~(part = "receipts")'
BY DEF PartNext, graphVars, Receipts!vars

Recording(r) ==
  r.at \in {"receipt", "audit"} => r = [at |-> r.at, receipt |-> r.receipt] /\ r.receipt[2] \notin Foreign

\* A call on its way to a receipt has an actor of the scope.
ReceiptsInv ==
  /\ graphs = 0
  /\ graphCall = [c \in Clients |-> graphCall[c]]
  /\ \A c \in Clients : graphCall[c].at \in {"idle", "receipt", "audit"} /\ Recording(graphCall[c])
  /\ Receipts!ReceiptsAudited

LEMMA RestingShape == Receipts!Idle.at = "idle" /\ Recording(Receipts!Idle)
BY DEF Receipts!Idle, Recording

LEMMA AuditAt ==
  \A k, r : k = [at |-> "receipt", receipt |-> r] => [k EXCEPT !.at = "audit"] = [at |-> "audit", receipt |-> r]
OBVIOUS

LEMMA ReceiptsInvInit == Receipts!Init => ReceiptsInv
<1> SUFFICES ASSUME Receipts!Init PROVE ReceiptsInv
  OBVIOUS
<1>1. \A c \in Clients : graphCall[c] = Receipts!Idle
  BY DEF Receipts!Init
<1> QED
  BY <1>1, RestingShape DEF Receipts!Init, ReceiptsInv, Receipts!ReceiptsAudited

\* A call of one client goes on, and every receipt it was at is audited or told to have failed.
LEMMA OneReceipt ==
  ASSUME ReceiptsInv, NEW c \in Clients, NEW r, graphCall' = [graphCall EXCEPT ![c] = r],
         r.at \in {"idle", "receipt", "audit"}, Recording(r), graphs' = graphs,
         receiptAudit \subseteq receiptAudit', unaudited \subseteq unaudited',
         receipts \subseteq receipts',
         \A x \in receipts' : x \notin receipts => x[2] \notin Foreign,
         \A x \in receipts' : x \notin receipts \/ (graphCall[c].at = "audit" /\ graphCall[c].receipt = x) =>
           \/ <<x, "allowed">> \in receiptAudit'
           \/ x \in unaudited'
           \/ r.at = "audit" /\ r.receipt = x
  PROVE  ReceiptsInv'
<1>1. graphCall'[c] = r /\ (\A k \in Clients : k # c => graphCall'[k] = graphCall[k])
      /\ graphCall' = [k \in Clients |-> graphCall'[k]]
  BY Entered DEF ReceiptsInv
<1>2. \A k \in Clients : graphCall'[k].at \in {"idle", "receipt", "audit"} /\ Recording(graphCall'[k])
  BY <1>1 DEF ReceiptsInv
<1>3. ASSUME NEW x \in receipts'
      PROVE  /\ x[2] \notin Foreign
             /\ \/ <<x, "allowed">> \in receiptAudit'
                \/ x \in unaudited'
                \/ \E k \in Clients : graphCall'[k].at = "audit" /\ graphCall'[k].receipt = x
  <2>1. CASE x \notin receipts
    BY <1>1, <2>1
  <2>2. CASE x \in receipts
    BY <1>1, <2>2 DEF ReceiptsInv, Receipts!ReceiptsAudited
  <2> QED
    BY <2>1, <2>2
<1> QED
  BY <1>1, <1>2, <1>3 DEF ReceiptsInv, Receipts!ReceiptsAudited, Recording

LEMMA ReceiptsInvNext == ReceiptsInv /\ [Receipts!Next]_(Receipts!vars) => ReceiptsInv'
<1> SUFFICES ASSUME ReceiptsInv, [Receipts!Next]_(Receipts!vars) PROVE ReceiptsInv'
  OBVIOUS
<1>0. CASE UNCHANGED <<graphs, graphCall, receipts, receiptAudit, unaudited>>
  BY <1>0 DEF ReceiptsInv, Receipts!ReceiptsAudited, Recording
<1>1. ASSUME NEW c \in Clients, NEW s, NEW actor, Receipts!BeginReceipt(c, s, actor) PROVE ReceiptsInv'
  <2> DEFINE r == [at |-> "receipt", receipt |-> <<s, actor>>]
  <2>1. /\ graphCall[c] = Receipts!Idle /\ graphCall' = [graphCall EXCEPT ![c] = r]
        /\ UNCHANGED <<graphs, receipts, receiptAudit, unaudited>>
        /\ actor \notin Foreign
    BY <1>1 DEF Receipts!BeginReceipt, Receipts!Enter
  <2>2. r.at = "receipt" /\ Recording(r)
    BY <2>1 DEF Recording
  <2> HIDE DEF r
  <2> QED
    BY <2>1, <2>2, RestingShape, OneReceipt
<1>2. ASSUME NEW c \in Clients, Receipts!UpsertReceipt(c) PROVE ReceiptsInv'
  <2> DEFINE x == graphCall[c].receipt
             r == [at |-> "audit", receipt |-> graphCall[c].receipt]
  <2>1. graphCall[c].at = "receipt" /\ UNCHANGED <<graphs, receiptAudit>>
    BY <1>2 DEF Receipts!UpsertReceipt
  <2>2. graphCall[c] = [at |-> "receipt", receipt |-> x] /\ x[2] \notin Foreign
    BY <2>1 DEF ReceiptsInv, Recording
  <2>3. r.at = "audit" /\ r.receipt = x /\ Recording(r)
    BY <2>2 DEF Recording
  <2>4. [graphCall[c] EXCEPT !.at = "audit"] = r
    <3> DEFINE q == graphCall[c]
    <3> HIDE DEF q, x
    <3>1. q = [at |-> "receipt", receipt |-> x]
      BY <2>2 DEF q
    <3>2. r = [at |-> "audit", receipt |-> x]
      BY DEF x
    <3> HIDE DEF r
    <3>3. [q EXCEPT !.at = "audit"] = r
      BY <3>1, <3>2, AuditAt
    <3> QED
      BY <3>3 DEF q
  <2>5. CASE /\ receipts' = receipts \cup {x}
             /\ graphCall' = [graphCall EXCEPT ![c] = r]
             /\ UNCHANGED unaudited
    <3> HIDE DEF r, x
    <3> QED
      BY <2>1, <2>2, <2>3, <2>5, OneReceipt
  <2>6. CASE /\ receipts' = receipts \cup {x}
             /\ graphCall' = [graphCall EXCEPT ![c] = Receipts!Idle]
             /\ unaudited' = unaudited \cup {x}
    BY <2>1, <2>2, <2>6, RestingShape, OneReceipt
  <2>7. CASE graphCall' = [graphCall EXCEPT ![c] = Receipts!Idle] /\ UNCHANGED <<receipts, unaudited>>
    BY <2>1, <2>7, RestingShape, OneReceipt
  <2>8. \/ /\ receipts' = receipts \cup {x}
           /\ \/ graphCall' = [graphCall EXCEPT ![c] = [graphCall[c] EXCEPT !.at = "audit"]] /\ UNCHANGED unaudited
              \/ graphCall' = [graphCall EXCEPT ![c] = Receipts!Idle] /\ unaudited' = unaudited \cup {x}
        \/ graphCall' = [graphCall EXCEPT ![c] = Receipts!Idle] /\ UNCHANGED <<receipts, unaudited>>
    BY <1>2 DEF Receipts!UpsertReceipt, Receipts!Enter, Receipts!Return
  <2> HIDE DEF r
  <2>9. \/ /\ receipts' = receipts \cup {x}
           /\ \/ graphCall' = [graphCall EXCEPT ![c] = r] /\ UNCHANGED unaudited
              \/ graphCall' = [graphCall EXCEPT ![c] = Receipts!Idle] /\ unaudited' = unaudited \cup {x}
        \/ graphCall' = [graphCall EXCEPT ![c] = Receipts!Idle] /\ UNCHANGED <<receipts, unaudited>>
    BY <2>4, <2>8
  <2> QED
    BY <2>5, <2>6, <2>7, <2>9
<1>3. ASSUME NEW c \in Clients, Receipts!AuditReceipt(c) PROVE ReceiptsInv'
  <2>1. /\ graphCall[c].at = "audit" /\ graphCall' = [graphCall EXCEPT ![c] = Receipts!Idle]
        /\ UNCHANGED <<graphs, receipts>>
        /\ \/ receiptAudit' = receiptAudit \cup {<<graphCall[c].receipt, "allowed">>} /\ UNCHANGED unaudited
           \/ unaudited' = unaudited \cup {graphCall[c].receipt} /\ UNCHANGED receiptAudit
    BY <1>3 DEF Receipts!AuditReceipt, Receipts!Return, Receipts!Enter, Receipts!AllowedDecision
  <2> QED
    BY <2>1, RestingShape, OneReceipt
<1>4. ASSUME NEW c \in Clients, Receipts!ClientStep(c) PROVE ReceiptsInv'
  <2>1. graphCall[c].at \notin {"node", "clear", "insert", "read"} /\ ~(graphs < 0)
    BY DEF ReceiptsInv
  <2>2. \A a \in Planned : NoLists[a] = {}
    BY DEF NoLists
  <2> QED
    BY <1>1, <1>2, <1>3, <1>4, <2>1, <2>2 DEF Receipts!ClientStep, Receipts!UpsertNode, Receipts!ClearDeps,
       Receipts!FinishUpsert, Receipts!InsertDep, Receipts!ListNodes, Receipts!ListDeps, Receipts!ReturnGraph
<1>5. ASSUME NEW a \in Planned, Receipts!CompleteAction(a) \/ Receipts!SignalAction(a) PROVE ReceiptsInv'
  BY <1>0, <1>5 DEF Receipts!CompleteAction, Receipts!SignalAction
<1>6. ASSUME NEW s, NEW actor, Receipts!DenyReceipt(s, actor) PROVE ReceiptsInv'
  BY <1>6 DEF Receipts!DenyReceipt, ReceiptsInv, Receipts!ReceiptsAudited, Recording
<1>7. ASSUME Receipts!FeedNext PROVE ReceiptsInv'
  <2>1. \A c \in Clients : graphCall[c].at \notin {"page", "fed"}
    BY DEF ReceiptsInv
  <2> QED
    BY <1>5, <1>7, <2>1 DEF Receipts!FeedNext, Receipts!AuditPage, Receipts!LeaveFeed, Receipts!BeginFeed,
       Receipts!DenyFeed
<1>8. CASE UNCHANGED Receipts!vars
  BY <1>0, <1>8 DEF Receipts!vars
<1> QED
  BY <1>4, <1>5, <1>6, <1>7, <1>8 DEF Receipts!Next

LEMMA ReceiptsAlwaysAudited == PartSpec /\ part = "receipts" => []Receipts!ReceiptsAudited
<1>1. ReceiptsInv => Receipts!ReceiptsAudited
  BY DEF ReceiptsInv
<1> QED
  BY <1>1, ReceiptsInit, ReceiptsStep, ReceiptsInvInit, ReceiptsInvNext, PTL DEF PartSpec

-----------------------------------------------------------------------------
\* The feed of a team, page by page

LEMMA FeedsInit == PartInit => Feeds!Init
BY DEF PartInit, Graph!Init, Feeds!Init, Graph!Idle, Feeds!Idle

LEMMA FeedsStep ==
  /\ part = "feeds" /\ [PartNext]_<<part, vars, graphVars, reviewVars, agentVars, importVars,
                                    watchVars, factVars, ruleVars>>
       => (part = "feeds")' /\ [Feeds!FeedNext]_(Feeds!vars)
  /\ ~(part = "feeds") /\ [PartNext]_<<part, vars, graphVars, reviewVars, agentVars, importVars,
                                       watchVars, factVars, ruleVars>>
       => ~(part = "feeds")'
BY DEF PartNext, graphVars, Feeds!vars

LEMMA FeedCountsAreCounts == \A S : Feeds!Cardinality(S) = Cardinality(S)
BY DEF Feeds!Cardinality, Cardinality

\* The number of signals a page with this cursor is taken from.
Before(cursor) == IF cursor = 0 THEN Len(signals) ELSE cursor - 1

\* A page is the newest of the signals before its cursor.
LEMMA PageIsNewest ==
  ASSUME signals \in Seq(Planned), NEW cursor \in 0 .. Len(signals), NEW n \in Nat
  PROVE  Feeds!Page(cursor, n) = {id \in 1 .. Before(cursor) : Before(cursor) - id < n}
<1> DEFINE m == Before(cursor)
           before == {id \in DOMAIN signals : Feeds!BeforeCursor(id, cursor)}
<1>1. m \in Nat /\ Len(signals) \in Nat /\ DOMAIN signals = 1 .. Len(signals)
  BY DEF Before
<1>2. before = 1 .. m
  BY <1>1 DEF Before, Feeds!BeforeCursor
<1>3. Feeds!Page(cursor, n) = {id \in before : Feeds!Cardinality({later \in before : later > id}) < n}
  BY DEF Feeds!Page
<1> HIDE DEF before, m
<1>4. ASSUME NEW id \in 1 .. m
      PROVE  Feeds!Cardinality({later \in 1 .. m : later > id}) = m - id
  <2>1. {later \in 1 .. m : later > id} = (id + 1) .. m
    BY <1>1
  <2>2. Cardinality((id + 1) .. m) = m - id
    <3>1. id + 1 \in Int /\ m \in Int
      BY <1>1
    <3>2. Cardinality((id + 1) .. m) = IF id + 1 > m THEN 0 ELSE m - (id + 1) + 1
      BY <3>1, FS_Interval
    <3> QED
      BY <1>1, <3>2
  <2> QED
    BY <2>1, <2>2, FeedCountsAreCounts
<1>5. Feeds!Page(cursor, n) = {id \in 1 .. m : m - id < n}
  BY <1>2, <1>3, <1>4
<1> QED
  BY <1>5 DEF m

\* What a page and its cursor are: either all that is left, or the newest n of it.
LEMMA PageAndCursor ==
  ASSUME signals \in Seq(Planned), NEW cursor \in 0 .. Len(signals), NEW n \in {1, 2}
  PROVE  \/ /\ Feeds!Page(cursor, n) = 1 .. Before(cursor)
            /\ Feeds!NextCursor(Feeds!Page(cursor, n + 1), Feeds!Page(cursor, n)) = 0
         \/ \E k \in 2 .. Before(cursor) :
              /\ Feeds!Page(cursor, n) = k .. Before(cursor)
              /\ Feeds!NextCursor(Feeds!Page(cursor, n + 1), Feeds!Page(cursor, n)) = k
<1> DEFINE m == Before(cursor)
           page == Feeds!Page(cursor, n)
           more == Feeds!Page(cursor, n + 1)
<1>1. m \in Nat /\ n \in Nat /\ n + 1 \in Nat
  BY DEF Before
<1>2. /\ page = {id \in 1 .. m : m - id < n}
      /\ more = {id \in 1 .. m : m - id < n + 1}
  BY <1>1, PageIsNewest
<1>3. Feeds!NextCursor(more, page)
        = IF more = page THEN 0 ELSE CHOOSE id \in page : \A other \in page : id <= other
  BY DEF Feeds!NextCursor
<1> HIDE DEF m, page, more
<1>4. CASE m <= n
  <2>1. page = 1 .. m /\ more = 1 .. m
    BY <1>1, <1>2, <1>4
  <2> QED
    BY <1>3, <2>1 DEF m, page, more
<1>5. CASE m > n
  <2> DEFINE k == m - n + 1
  <2>1. k \in 2 .. m
    BY <1>1, <1>5
  <2>2. page = k .. m
    BY <1>1, <1>2, <1>5
  <2>3. m - n \in more /\ m - n \notin page
    BY <1>1, <1>2, <1>5
  <2>4. k \in page /\ \A other \in page : k <= other
    BY <1>1, <2>1, <2>2
  <2> HIDE DEF k
  <2>5. \A id \in page : (\A other \in page : id <= other) => id = k
    BY <1>1, <2>1, <2>2, <2>4
  <2>6. (CHOOSE id \in page : \A other \in page : id <= other) = k
    BY <2>4, <2>5
  <2>7. Feeds!NextCursor(more, page) = k
    BY <1>3, <2>3, <2>6
  <2> QED
    BY <2>1, <2>2, <2>7 DEF m, page, more
<1> QED
  BY <1>1, <1>4, <1>5

\* A client at a feed has seen what lies between its cursor and where it began.
Following(r, known, audited) ==
  r.at \in {"feed", "page", "fed"} =>
    /\ r = [at |-> r.at, actor |-> r.actor, cursor |-> r.cursor, upto |-> r.upto,
            seen |-> r.seen, again |-> r.again]
    /\ r.upto \in 0 .. known
    /\ r.again = FALSE
    /\ \/ r.cursor \in 1 .. r.upto /\ r.seen = r.cursor .. r.upto
       \/ r.cursor = 0 /\ r.seen = IF r.at = "feed" THEN {} ELSE 1 .. r.upto
    /\ r.at = "fed" \/ (r.at = "feed" /\ r.cursor # 0) => << <<0, r.actor>>, "allowed" >> \in audited

FeedsInv ==
  /\ signals \in Seq(Planned)
  /\ graphCall = [c \in Clients |-> graphCall[c]]
  /\ \A c \in Clients : graphCall[c].at \in {"idle", "feed", "page", "fed"} /\ Following(graphCall[c], Len(signals), receiptAudit)

LEMMA FeedsInvInit == Feeds!Init => FeedsInv
BY DEF Feeds!Init, Feeds!Idle, FeedsInv, Following

\* A call of one client goes on; signals and audit only grow.
LEMMA OneFollower ==
  ASSUME FeedsInv, NEW c \in Clients, NEW r, graphCall' = [graphCall EXCEPT ![c] = r],
         r.at \in {"idle", "feed", "page", "fed"}, Following(r, Len(signals'), receiptAudit'), signals' = signals,
         receiptAudit \subseteq receiptAudit'
  PROVE  FeedsInv'
<1>1. graphCall'[c] = r /\ (\A k \in Clients : k # c => graphCall'[k] = graphCall[k])
      /\ graphCall' = [k \in Clients |-> graphCall'[k]]
  BY Entered DEF FeedsInv
<1>2. ASSUME NEW k \in Clients
      PROVE  graphCall'[k].at \in {"idle", "feed", "page", "fed"} /\ Following(graphCall'[k], Len(signals'), receiptAudit')
  <2>1. CASE k = c
    BY <1>1, <2>1 DEF Following
  <2>2. CASE k # c
    BY <1>1, <2>2 DEF FeedsInv, Following
  <2> QED
    BY <2>1, <2>2
<1> QED
  BY <1>1, <1>2 DEF FeedsInv

LEMMA PageAt ==
  \A k, at, actor, cursor, upto, seen, again :
    k = [at |-> "page", actor |-> actor, cursor |-> cursor, upto |-> upto, seen |-> seen, again |-> again]
    => [k EXCEPT !.at = at] =
         [at |-> at, actor |-> actor, cursor |-> cursor, upto |-> upto, seen |-> seen, again |-> again]
OBVIOUS

LEMMA FeedsInvNext == FeedsInv /\ [Feeds!FeedNext]_(Feeds!vars) => FeedsInv'
<1> SUFFICES ASSUME FeedsInv, [Feeds!FeedNext]_(Feeds!vars) PROVE FeedsInv'
  OBVIOUS
<1>0. Len(signals) \in Nat
  BY DEF FeedsInv
<1>1. ASSUME NEW c \in Clients, NEW actor, NEW role, Feeds!BeginFeed(c, actor, role) PROVE FeedsInv'
  <2> DEFINE r == [at |-> "feed", actor |-> actor, cursor |-> 0, upto |-> Len(signals),
                   seen |-> {}, again |-> FALSE]
  <2>1. graphCall' = [graphCall EXCEPT ![c] = r] /\ UNCHANGED <<signals, receiptAudit>>
    BY <1>1 DEF Feeds!BeginFeed, Feeds!Enter
  <2>2. r.at = "feed" /\ Following(r, Len(signals'), receiptAudit')
    BY <1>0, <2>1 DEF Following
  <2> HIDE DEF r
  <2> QED
    BY <2>1, <2>2, OneFollower
<1>2. ASSUME NEW c \in Clients, NEW n \in {1, 2}, Feeds!ReadPage(c, n) PROVE FeedsInv'
  <2> DEFINE q == graphCall[c]
             page == Feeds!Page(q.cursor, n)
             next == Feeds!NextCursor(Feeds!Page(q.cursor, n + 1), page)
             upto == IF q.cursor = 0 THEN Len(signals) ELSE q.upto
             seen == q.seen \cup page
             again == q.again \/ q.seen \cap page # {}
             r == [at |-> "page", actor |-> q.actor, cursor |-> next, upto |-> upto,
                   seen |-> seen, again |-> again]
  <2>1. /\ q.at = "feed" /\ graphCall' = [graphCall EXCEPT ![c] = r]
        /\ UNCHANGED <<signals, receiptAudit>>
    BY <1>2 DEF Feeds!ReadPage, Feeds!Enter
  <2>2. /\ q.upto \in 0 .. Len(signals) /\ q.again = FALSE
        /\ \/ q.cursor \in 1 .. q.upto /\ q.seen = q.cursor .. q.upto
           \/ q.cursor = 0 /\ q.seen = {}
    BY <2>1 DEF FeedsInv, Following
  <2>3. q.cursor \in 0 .. Len(signals) /\ signals \in Seq(Planned)
    BY <1>0, <2>2 DEF FeedsInv
  <2>4. \/ page = 1 .. Before(q.cursor) /\ next = 0
        \/ next \in 2 .. Before(q.cursor) /\ page = next .. Before(q.cursor)
    BY <2>3, PageAndCursor
  <2> HIDE DEF page, next, q
  <2>5. upto \in 0 .. Len(signals) /\ Before(q.cursor) \in 0 .. upto
    BY <1>0, <2>2 DEF Before
  <2>6. q.seen \cap page = {}
    BY <1>0, <2>2, <2>4, <2>5 DEF Before
  <2>7. \/ next \in 1 .. upto /\ q.seen \cup page = next .. upto
        \/ next = 0 /\ q.seen \cup page = 1 .. upto
    <3>1. CASE q.cursor = 0
      <4>1. upto = Before(q.cursor) /\ q.seen = {}
        BY <1>0, <2>2, <3>1 DEF Before
      <4> QED
        BY <1>0, <2>4, <2>5, <4>1
    <3>2. CASE q.cursor # 0
      <4>1. upto = q.upto /\ Before(q.cursor) = q.cursor - 1 /\ q.seen = q.cursor .. upto
            /\ q.cursor \in 1 .. upto /\ upto \in Nat
        BY <1>0, <2>2, <3>2 DEF Before
      <4> HIDE DEF upto
      <4>2. \A k \in 1 .. q.cursor : (k .. (q.cursor - 1)) \cup (q.cursor .. upto) = k .. upto
        BY <4>1
      <4> QED
        BY <2>4, <4>1, <4>2
    <3> QED
      BY <3>1, <3>2
  <2>8. r.at = "page" /\ Following(r, Len(signals'), receiptAudit')
    <3> DEFINE actor == q.actor
    <3>1. again = FALSE
      BY <2>2, <2>6
    <3>2. r = [at |-> "page", actor |-> actor, cursor |-> next, upto |-> upto,
               seen |-> seen, again |-> again]
      OBVIOUS
    <3>3. seen = q.seen \cup page
      OBVIOUS
    <3> HIDE DEF r, seen, again, upto, actor
    <3>4. /\ r.at = "page" /\ r.actor = actor /\ r.cursor = next /\ r.upto = upto
          /\ r.seen = seen /\ r.again = again
      BY <3>2
    <3> QED
      BY <2>1, <2>5, <2>7, <3>1, <3>2, <3>3, <3>4 DEF Following
  <2> HIDE DEF r
  <2> QED
    BY <2>1, <2>8, OneFollower
<1>3. ASSUME NEW c \in Clients, Feeds!AuditPage(c) PROVE FeedsInv'
  <2> DEFINE q == graphCall[c]
             at == IF q.cursor = 0 THEN "fed" ELSE "feed"
             r == [at |-> at, actor |-> q.actor, cursor |-> q.cursor, upto |-> q.upto,
                   seen |-> q.seen, again |-> q.again]
  <2>1. q.at = "page" /\ signals' = signals
        /\ \/ /\ receiptAudit' = receiptAudit \cup {<< <<0, q.actor>>, "allowed" >>}
              /\ graphCall' = [graphCall EXCEPT ![c] = [q EXCEPT !.at = at]]
           \/ graphCall' = [graphCall EXCEPT ![c] = Feeds!Idle] /\ UNCHANGED receiptAudit
    BY <1>3 DEF Feeds!AuditPage, Feeds!Enter, Feeds!Return, Feeds!AllowedDecision, Feeds!Feed
  <2>2. CASE /\ receiptAudit' = receiptAudit \cup {<< <<0, q.actor>>, "allowed" >>}
             /\ graphCall' = [graphCall EXCEPT ![c] = [q EXCEPT !.at = at]]
    <3>1. Following(q, Len(signals), receiptAudit)
      BY DEF FeedsInv
    <3> HIDE DEF q
    <3>2. [q EXCEPT !.at = at] = r
      <4>1. q = [at |-> "page", actor |-> q.actor, cursor |-> q.cursor, upto |-> q.upto,
                 seen |-> q.seen, again |-> q.again]
        BY <2>1, <3>1 DEF Following
      <4> DEFINE cursor == q.cursor
                 actor == q.actor
                 upto == q.upto
                 seen == q.seen
                 again == q.again
      <4>2. r = [at |-> at, actor |-> actor, cursor |-> cursor, upto |-> upto,
                 seen |-> seen, again |-> again]
        OBVIOUS
      <4>3. q = [at |-> "page", actor |-> actor, cursor |-> cursor, upto |-> upto,
                 seen |-> seen, again |-> again]
        BY <4>1
      <4> HIDE DEF q, at, r, cursor, actor, upto, seen, again
      <4> QED
        BY <4>2, <4>3, PageAt
    <3>3. r.at \in {"feed", "fed"} /\ Following(r, Len(signals'), receiptAudit')
      BY <1>0, <2>1, <2>2, <3>1 DEF Following
    <3>4. graphCall' = [graphCall EXCEPT ![c] = r]
      BY <2>2, <3>2
    <3> HIDE DEF r
    <3> QED
      BY <2>1, <2>2, <3>3, <3>4, OneFollower
  <2>3. CASE graphCall' = [graphCall EXCEPT ![c] = Feeds!Idle] /\ UNCHANGED receiptAudit
    <3>1. Feeds!Idle.at = "idle" /\ Following(Feeds!Idle, Len(signals'), receiptAudit')
      BY DEF Feeds!Idle, Following
    <3> QED
      BY <2>1, <2>3, <3>1, OneFollower
  <2> QED
    BY <2>1, <2>2, <2>3
<1>4. ASSUME NEW c \in Clients, Feeds!LeaveFeed(c) PROVE FeedsInv'
  <2>1. graphCall' = [graphCall EXCEPT ![c] = Feeds!Idle] /\ UNCHANGED <<signals, receiptAudit>>
    BY <1>4 DEF Feeds!LeaveFeed, Feeds!Return, Feeds!Enter
  <2>2. Feeds!Idle.at = "idle" /\ Following(Feeds!Idle, Len(signals'), receiptAudit')
    BY DEF Feeds!Idle, Following
  <2> QED
    BY <2>1, <2>2, OneFollower
<1>5. ASSUME NEW actor, NEW role, Feeds!DenyFeed(actor, role) PROVE FeedsInv'
  <2>1. receiptAudit \subseteq receiptAudit' /\ UNCHANGED <<signals, graphCall>>
    BY <1>5 DEF Feeds!DenyFeed
  <2> QED
    BY <2>1 DEF FeedsInv, Following
<1>6. ASSUME NEW a \in Planned, Feeds!SignalAction(a) PROVE FeedsInv'
  <2>1. signals' = Append(signals, a) /\ UNCHANGED <<graphCall, receiptAudit>>
    BY <1>6 DEF Feeds!SignalAction
  <2>2. signals' \in Seq(Planned) /\ Len(signals') = Len(signals) + 1
    BY <2>1 DEF FeedsInv
  <2>3. 0 .. Len(signals) \subseteq 0 .. Len(signals')
    BY <1>0, <2>2
  <2> QED
    BY <2>1, <2>2, <2>3 DEF FeedsInv, Following
<1>7. CASE UNCHANGED Feeds!vars
  BY <1>7 DEF FeedsInv, Following, Feeds!vars
<1> QED
  BY <1>1, <1>2, <1>3, <1>4, <1>5, <1>6, <1>7 DEF Feeds!FeedNext

LEMMA FeedsInvWhole == FeedsInv => Feeds!FeedIsWhole
<1> SUFFICES ASSUME FeedsInv, NEW c \in Clients, graphCall[c].at \in {"feed", "page", "fed"}
             PROVE  /\ graphCall[c].seen # {} =>
                         /\ ~graphCall[c].again
                         /\ graphCall[c].seen = (IF graphCall[c].cursor = 0 THEN 1 ELSE graphCall[c].cursor)
                                                  .. graphCall[c].upto
                    /\ graphCall[c].at = "fed" \/ (graphCall[c].at = "feed" /\ graphCall[c].seen # {}) =>
                         << <<0, graphCall[c].actor>>, "allowed" >> \in receiptAudit
  BY DEF Feeds!FeedIsWhole, Feeds!Feed
<1>1. /\ graphCall[c].again = FALSE
      /\ \/ graphCall[c].cursor \in 1 .. graphCall[c].upto
            /\ graphCall[c].seen = graphCall[c].cursor .. graphCall[c].upto
         \/ graphCall[c].cursor = 0
            /\ graphCall[c].seen = IF graphCall[c].at = "feed" THEN {} ELSE 1 .. graphCall[c].upto
      /\ graphCall[c].at = "fed" \/ (graphCall[c].at = "feed" /\ graphCall[c].cursor # 0) =>
           << <<0, graphCall[c].actor>>, "allowed" >> \in receiptAudit
  BY DEF FeedsInv, Following
<1>2. CASE graphCall[c].cursor = 0
  BY <1>1, <1>2
<1>3. CASE graphCall[c].cursor # 0
  BY <1>1, <1>3
<1> QED
  BY <1>2, <1>3

\* Replaying a lease's audit gives the lease, a receipt is audited as allowed unless its call
\* failed or is still at it, and the pages of a feed, each of them audited, are all its
\* signals, each once (action_signal_receipts.go:125-161, team_feed.go:109-136 and 204-236).
THEOREM AuditsTell == PartSpec => []AuditsExplain
<1>1. PartSpec => []AuditExplainsLeases
  <2>1. PartInit => Init
    BY DEF PartInit
  <2>2. [PartNext]_<<part, vars, graphVars, reviewVars, agentVars, importVars, watchVars, factVars, ruleVars>>
        => [Next]_vars
    BY DEF PartNext, vars
  <2> QED
    BY <2>1, <2>2, AuditReplays, PTL DEF PartSpec, Spec
<1>2. PartSpec /\ ~(part = "receipts") => []~(part = "receipts")
  BY ReceiptsStep, PTL DEF PartSpec
<1>3. PartSpec /\ part = "feeds" => []Feeds!FeedIsWhole
  BY FeedsInit, FeedsStep, FeedsInvInit, FeedsInvNext, FeedsInvWhole, PTL DEF PartSpec
<1>4. PartSpec /\ ~(part = "feeds") => []~(part = "feeds")
  BY FeedsStep, PTL DEF PartSpec
<1>5. /\ AuditExplainsLeases
      /\ ~(part = "receipts") \/ Receipts!ReceiptsAudited
      /\ ~(part = "feeds") \/ Feeds!FeedIsWhole
      => AuditsExplain
  BY DEF AuditsExplain
<1> QED
  BY <1>1, <1>2, <1>3, <1>4, <1>5, ReceiptsAlwaysAudited, PTL

-----------------------------------------------------------------------------
\* The items of reviews

LEMMA ReviewsInit == PartInit => Log!Init
BY DEF PartInit

LEMMA ReviewsStep ==
  /\ part = "reviews" /\ [PartNext]_<<part, vars, graphVars, reviewVars, agentVars, importVars,
                                      watchVars, factVars, ruleVars>>
       => (part = "reviews")' /\ [Log!Next]_(Log!vars)
  /\ ~(part = "reviews") /\ [PartNext]_<<part, vars, graphVars, reviewVars, agentVars, importVars,
                                         watchVars, factVars, ruleVars>>
       => ~(part = "reviews")'
BY DEF PartNext, reviewVars, Log!vars

ItemShaped(x) ==
  /\ x = [table |-> x.table, subject |-> x.subject, status |-> x.status]
  /\ x.table \in {"review", "skill"} /\ (x.table = "skill" => x.subject = "skill")
Listed(r) ==
  r.at = "list" => r = [at |-> "list", todo |-> r.todo, limit |-> r.limit]
\* A client between its look for an open item of the subject and its own item.
Making(c, s) == reviewCall[c].at = "create" /\ Head(reviewCall[c].todo) = s
Open(i, s) == items[i].subject = s /\ items[i].status = "open"
ReadingBack(c, i) == reviewCall[c].at = "readback" /\ reviewCall[c].item = i
\* What ResolvedOnce says of an item.
Settled(i) ==
  IF items[i].status = "open" THEN told[i] = {} /\ \A c \in Clients : ~ReadingBack(c, i)
  ELSE \/ /\ told[i] = {}
          /\ \E c \in Clients : /\ ReadingBack(c, i) /\ reviewCall[c].asked = items[i].status
                                /\ \A d \in Clients : ReadingBack(d, i) => d = c
       \/ told[i] \in {{items[i].status}, {"error"}} /\ \A c \in Clients : ~ReadingBack(c, i)

\* A subject whose lookers did not meet has one open item or one that makes it.
OneAtATime(s) ==
  /\ \A i, j \in 1..Len(items) : Open(i, s) /\ Open(j, s) => i = j
  /\ \A c, d \in Clients : Making(c, s) /\ Making(d, s) => c = d
  /\ \A c \in Clients, i \in 1..Len(items) : ~(Making(c, s) /\ Open(i, s))

ReviewsInv ==
  /\ Len(items) \in 0..MaxItems /\ items = [i \in 1..Len(items) |-> items[i]]
  /\ \A i \in 1..Len(items) : ItemShaped(items[i])
  /\ reviewCall = [c \in Clients |-> reviewCall[c]]
  /\ \A c \in Clients : Listed(reviewCall[c])
  /\ told = [i \in 1..MaxItems |-> told[i]]
  /\ \A i \in 1..MaxItems : i > Len(items) => told[i] = {}
  /\ \A c \in Clients : reviewCall[c].at = "readback" => reviewCall[c].item \in 1..Len(items)
  /\ \A i \in 1..Len(items) : Settled(i)
  /\ \A s \in (Tools \cup Messages) \ met : OneAtATime(s)

LEMMA SettledKept ==
  ASSUME NEW i, Settled(i), items'[i] = items[i], told'[i] = told[i],
         \A k \in Clients : /\ ReadingBack(k, i)' <=> ReadingBack(k, i)
                            /\ ReadingBack(k, i) => reviewCall'[k] = reviewCall[k]
  PROVE  Settled(i)'
<1>1. CASE items[i].status = "open"
  BY <1>1 DEF Settled, ReadingBack
<1>2. CASE items[i].status # "open" /\ told[i] \in {{items[i].status}, {"error"}}
           /\ \A c \in Clients : ~ReadingBack(c, i)
  BY <1>2 DEF Settled, ReadingBack
<1>3. CASE items[i].status # "open" /\ told[i] = {}
           /\ \E c \in Clients : /\ ReadingBack(c, i) /\ reviewCall[c].asked = items[i].status
                                 /\ \A d \in Clients : ReadingBack(d, i) => d = c
  <2>1. PICK c \in Clients : /\ ReadingBack(c, i) /\ reviewCall[c].asked = items[i].status
                             /\ \A d \in Clients : ReadingBack(d, i) => d = c
    BY <1>3
  <2>2. ReadingBack(c, i)' /\ reviewCall'[c].asked = items'[i].status
        /\ \A d \in Clients : ReadingBack(d, i)' => d = c
    BY <2>1 DEF ReadingBack
  <2> QED
    BY <1>3, <2>2 DEF Settled, ReadingBack
<1> QED
  BY <1>1, <1>2, <1>3 DEF Settled, ReadingBack

LEMMA IdleListed == Log!Idle.at = "idle" /\ Listed(Log!Idle)
BY DEF Log!Idle, Listed

LEMMA ReviewsInvInit == Log!Init => ReviewsInv
<1> SUFFICES ASSUME Log!Init PROVE ReviewsInv
  OBVIOUS
<1>1. items = <<>> /\ Len(items) = 0 /\ MaxItems \in Nat /\ \A c \in Clients : reviewCall[c] = Log!Idle
  BY ReviewsAssumption DEF Log!Init
<1>2. \A s : OneAtATime(s)
  BY <1>1, IdleListed DEF OneAtATime, Making
<1> QED
  BY <1>1, <1>2, IdleListed DEF Log!Init, ReviewsInv

LEMMA NextSubjectListed ==
  ASSUME NEW c, NEW limit, NEW full, Log!NextSubject(c, limit, full)
  PROVE  \E r : reviewCall' = [reviewCall EXCEPT ![c] = r] /\ Listed(r) /\ ~(r.at \in {"create", "readback"})
<1> DEFINE r == [at |-> "list", todo |-> Tail(reviewCall[c].todo), limit |-> limit]
<1>1. Listed(r) /\ ~(r.at \in {"create", "readback"})
  BY DEF Listed
<1>2. reviewCall' = [reviewCall EXCEPT ![c] = r] \/ reviewCall' = [reviewCall EXCEPT ![c] = Log!Idle]
  BY DEF Log!NextSubject, Log!Goto
<1> HIDE DEF r
<1> QED
  BY <1>1, <1>2, IdleListed

\* A call goes on to something other than its own item: nothing is opened.
LEMMA CallGoesOn ==
  ASSUME ReviewsInv, NEW c \in Clients, NEW r, reviewCall' = [reviewCall EXCEPT ![c] = r],
         reviewCall[c].at # "readback", Listed(r), ~(r.at \in {"create", "readback"}),
         UNCHANGED <<items, told, met>>
  PROVE  ReviewsInv'
<1>1. reviewCall'[c] = r /\ (\A k \in Clients : k # c => reviewCall'[k] = reviewCall[k])
      /\ reviewCall' = [k \in Clients |-> reviewCall'[k]]
  BY DEF ReviewsInv
<1>2. \A k \in Clients : \A s : Making(k, s)' => Making(k, s)
  BY <1>1 DEF Making
<1>3. \A s \in (Tools \cup Messages) \ met' : OneAtATime(s)'
  BY <1>2 DEF ReviewsInv, OneAtATime, Open
<1>4. \A k \in Clients : Listed(reviewCall'[k])
  BY <1>1 DEF ReviewsInv
<1>5. \A k \in Clients, i \in 1..Len(items) :
        (ReadingBack(k, i)' <=> ReadingBack(k, i)) /\ (ReadingBack(k, i) => reviewCall'[k] = reviewCall[k])
  BY <1>1 DEF ReadingBack
<1>6. \A i \in 1..Len(items) : Settled(i)'
  BY <1>5, SettledKept DEF ReviewsInv
<1>7. \A k \in Clients : reviewCall'[k].at = "readback" => reviewCall'[k].item \in 1..Len(items')
  BY <1>1 DEF ReviewsInv
<1> QED
  BY <1>1, <1>3, <1>4, <1>6, <1>7 DEF ReviewsInv

\* What an item of no looked for subject, or of the one its call looked for, adds.
LEMMA ItemAdded ==
  ASSUME ReviewsInv, NEW c \in Clients, NEW r, reviewCall' = [reviewCall EXCEPT ![c] = r],
         reviewCall[c].at # "readback", Listed(r), ~(r.at \in {"create", "readback"}), NEW table \in {"review", "skill"}, NEW subject,
         table = "skill" => subject = "skill", Log!Add(table, subject),
         subject \in Tools \cup Messages => Making(c, subject), UNCHANGED <<told, met>>
  PROVE  ReviewsInv'
<1> DEFINE n == Len(items) + 1
           new == [table |-> table, subject |-> subject, status |-> "open"]
<1>1. /\ Len(items) \in Nat /\ items \in Seq({items[i] : i \in 1..Len(items)}) /\ Len(items) < MaxItems
      /\ MaxItems \in Nat /\ items' = Append(items, new)
  <2>1. /\ Len(items) \in Nat /\ items = [i \in 1..Len(items) |-> items[i]] /\ MaxItems \in Nat
    BY ReviewsAssumption DEF ReviewsInv
  <2>2. Len(items) < MaxItems /\ items' = Append(items, new)
    BY DEF Log!Add
  <2> QED
    BY <2>1, <2>2
<1>2. /\ Len(items') = n /\ items'[n] = new /\ \A i \in 1..Len(items) : items'[i] = items[i]
      /\ items' = [i \in 1..n |-> items'[i]]
  BY <1>1
<1>3. reviewCall'[c] = r /\ (\A k \in Clients : k # c => reviewCall'[k] = reviewCall[k])
      /\ reviewCall' = [k \in Clients |-> reviewCall'[k]]
  BY DEF ReviewsInv
<1>4. \A k \in Clients : \A s : Making(k, s)' => Making(k, s) /\ k # c
  BY <1>3 DEF Making
<1>5. \A i \in 1..n : (i = n \/ i \in 1..Len(items)) /\ ItemShaped(items'[i])
  BY <1>1, <1>2 DEF ReviewsInv, ItemShaped
<1>6. ASSUME NEW s \in (Tools \cup Messages) \ met' PROVE OneAtATime(s)'
  <2>1. OneAtATime(s)
    BY <1>6 DEF ReviewsInv
  <2>2. \A i \in 1..n : Open(i, s)' => IF i = n THEN s = subject ELSE Open(i, s)
    BY <1>2, <1>5 DEF Open
  <2>3. s = subject => Making(c, s)
    OBVIOUS
  <2> QED
    BY <1>2, <1>4, <1>5, <2>1, <2>2, <2>3 DEF OneAtATime
<1>7. \A i \in 1..n : Settled(i)'
  <2>1. told' = told /\ told[n] = {} /\ items'[n].status = "open"
    <3>1. n \in 1..MaxItems /\ n > Len(items) /\ items'[n].status = "open"
      BY <1>1, <1>2
    <3> HIDE DEF n
    <3> QED
      BY <3>1 DEF ReviewsInv
  <2>2. \A k \in Clients : \A i : /\ ReadingBack(k, i)' <=> ReadingBack(k, i)
                                  /\ ReadingBack(k, i) => reviewCall'[k] = reviewCall[k]
    BY <1>3 DEF ReadingBack
  <2>3. \A k \in Clients : ~ReadingBack(k, n)
    BY <1>1 DEF ReadingBack, ReviewsInv
  <2>4. \A i \in 1..Len(items) : Settled(i) /\ i \in 1..n
    BY <1>1 DEF ReviewsInv
  <2> HIDE DEF n
  <2>5. \A i \in 1..Len(items) : Settled(i)'
    <3> TAKE i \in 1..Len(items)
    <3>1. items'[i] = items[i] /\ told'[i] = told[i] /\ Settled(i)
      BY <1>2, <2>1, <2>4
    <3>2. \A k \in Clients : /\ ReadingBack(k, i)' <=> ReadingBack(k, i)
                             /\ ReadingBack(k, i) => reviewCall'[k] = reviewCall[k]
      BY <2>2
    <3> QED
      BY <3>1, <3>2, SettledKept
  <2>6. ASSUME NEW i, i = n PROVE Settled(i)'
    BY <2>1, <2>2, <2>3, <2>6 DEF Settled, ReadingBack
  <2> QED
    BY <1>5, <2>5, <2>6
<1>8. \A k \in Clients : Listed(reviewCall'[k])
  BY <1>3 DEF ReviewsInv
<1>9. Len(items') \in 0..MaxItems /\ \A i \in 1..MaxItems : i > Len(items') => told'[i] = {}
  <2>1. Len(items') \in 0..MaxItems /\ told' = told /\ Len(items') > Len(items)
    BY <1>1, <1>2
  <2> QED
    BY <1>1, <2>1 DEF ReviewsInv
<1>10. \A k \in Clients : reviewCall'[k].at = "readback" => reviewCall'[k].item \in 1..n
  BY <1>1, <1>3 DEF ReviewsInv
<1> QED
  BY <1>2, <1>3, <1>5, <1>6, <1>7, <1>8, <1>9, <1>10 DEF ReviewsInv

LEMMA ListOpenKeeps ==
  ASSUME ReviewsInv, NEW c \in Clients, Log!ListOpen(c)
  PROVE  ReviewsInv'
<1> DEFINE s == Head(reviewCall[c].todo)
           r == [at |-> "create", todo |-> reviewCall[c].todo, limit |-> reviewCall[c].limit]
<1>1. CASE Log!HasOpen(s)
  <2>1. PICK k : reviewCall' = [reviewCall EXCEPT ![c] = k] /\ Listed(k) /\ ~(k.at \in {"create", "readback"})
    BY <1>1, NextSubjectListed DEF Log!ListOpen
  <2> QED
    BY <1>1, <2>1, CallGoesOn DEF Log!ListOpen
<1>2. CASE ~Log!HasOpen(s)
  <2>1. /\ reviewCall' = [reviewCall EXCEPT ![c] = r] /\ UNCHANGED <<items, told>>
        /\ met' = IF \E d \in Clients : Making(d, s) THEN met \cup {s} ELSE met
    BY <1>2 DEF Log!ListOpen, Log!Goto, ReviewsInv, Listed, Making
  <2>2. reviewCall'[c] = r /\ (\A k \in Clients : k # c => reviewCall'[k] = reviewCall[k])
        /\ reviewCall' = [k \in Clients |-> reviewCall'[k]]
    BY <2>1 DEF ReviewsInv
  <2>3. \A k \in Clients : \A t : Making(k, t)' => IF k = c THEN t = s ELSE Making(k, t)
    BY <2>2 DEF Making
  <2>4. ASSUME NEW t \in (Tools \cup Messages) \ met' PROVE OneAtATime(t)'
    <3>1. OneAtATime(t) /\ t \in (Tools \cup Messages) \ met /\ (t = s => \A d \in Clients : ~Making(d, s))
      BY <2>1, <2>4 DEF ReviewsInv
    <3>2. t = s => \A i \in 1..Len(items) : ~Open(i, s)
      BY <1>2, ReviewsAssumption DEF Log!HasOpen, Open, ReviewsInv, ItemShaped
    <3>3. \A i : Open(i, t)' = Open(i, t)
      BY <2>1 DEF Open
    <3> QED
      BY <2>1, <2>3, <3>1, <3>2, <3>3 DEF OneAtATime
  <2>5. \A k \in Clients : Listed(reviewCall'[k])
    BY <2>2 DEF ReviewsInv, Listed
  <2>6. \A k \in Clients, i \in 1..Len(items) :
          (ReadingBack(k, i)' <=> ReadingBack(k, i)) /\ (ReadingBack(k, i) => reviewCall'[k] = reviewCall[k])
    BY <2>2 DEF ReadingBack, Log!ListOpen
  <2>7. \A i \in 1..Len(items) : Settled(i)'
    BY <2>1, <2>6, SettledKept DEF ReviewsInv
  <2>8. \A k \in Clients : reviewCall'[k].at = "readback" => reviewCall'[k].item \in 1..Len(items')
    BY <2>1, <2>2 DEF ReviewsInv
  <2> QED
    BY <2>1, <2>2, <2>4, <2>5, <2>7, <2>8 DEF ReviewsInv
<1> QED
  BY <1>1, <1>2

LEMMA ResolveKeeps ==
  ASSUME ReviewsInv, NEW c \in Clients, Log!Resolve(c)
  PROVE  ReviewsInv'
<1>1. PICK i \in 1..Len(items), r \in {"accepted", "rejected"} :
        /\ items[i].status = "open" /\ items' = [items EXCEPT ![i].status = r]
        /\ reviewCall' = [reviewCall EXCEPT ![c] = [at |-> "readback", item |-> i, asked |-> r]]
        /\ reviewCall[c] = Log!Idle /\ UNCHANGED <<told, met>>
  BY DEF Log!Resolve, Log!Undecided, Log!Resolutions, Log!Goto, ReviewsInv
<1>2. MaxItems \in Nat /\ Len(items) \in 0..MaxItems /\ i \in 1..MaxItems
  BY ReviewsAssumption DEF ReviewsInv
<1>3. /\ items' = [j \in 1..Len(items) |-> items'[j]] /\ \A j \in 1..Len(items) : j # i => items'[j] = items[j]
      /\ items'[i] = [items[i] EXCEPT !.status = r]
  BY <1>1 DEF ReviewsInv
<1>4. Len(items') = Len(items)
  BY <1>2, <1>3
<1>5. /\ items'[i] = [table |-> items[i].table, subject |-> items[i].subject, status |-> r]
      /\ ItemShaped(items'[i])
  BY <1>1, <1>3 DEF ReviewsInv, ItemShaped
<1>6. /\ \A k \in Clients : k # c => reviewCall'[k] = reviewCall[k]
      /\ reviewCall'[c].at = "readback" /\ reviewCall'[c].item = i /\ reviewCall'[c].asked = r
      /\ reviewCall' = [k \in Clients |-> reviewCall'[k]]
  BY <1>1 DEF ReviewsInv
<1>7. \A j \in 1..Len(items) : Settled(j)'
  <2>1. Settled(i)'
    <3>1. told'[i] = {} /\ \A k \in Clients : ~ReadingBack(k, i)
      BY <1>1 DEF ReviewsInv, Settled
    <3>2. ReadingBack(c, i)' /\ reviewCall'[c].asked = items'[i].status /\ items'[i].status # "open"
      BY <1>5, <1>6 DEF ReadingBack
    <3>3. \A k \in Clients : ReadingBack(k, i)' => k = c
      BY <1>6, <3>1 DEF ReadingBack
    <3> QED
      BY <3>1, <3>2, <3>3 DEF Settled, ReadingBack
  <2>2. ASSUME NEW j \in 1..Len(items), j # i PROVE Settled(j)'
    <3>1. items'[j] = items[j] /\ told' = told /\ Settled(j)
      BY <1>1, <1>3, <2>2 DEF ReviewsInv
    <3>2. \A k \in Clients : (ReadingBack(k, j)' <=> ReadingBack(k, j))
                            /\ (ReadingBack(k, j) => reviewCall'[k] = reviewCall[k])
      BY <1>1, <1>6, <2>2 DEF ReadingBack, Log!Idle
    <3> QED
      BY <3>1, <3>2, SettledKept
  <2> QED
    BY <2>1, <2>2
<1>8. \A j \in 1..Len(items) : \A s : Open(j, s)' => Open(j, s)
  BY <1>3, <1>5 DEF Open
<1>9. \A k \in Clients : Listed(reviewCall'[k]) /\ \A s : Making(k, s)' => Making(k, s)
  BY <1>6 DEF ReviewsInv, Making, Listed
<1>10. \A s \in (Tools \cup Messages) \ met' : OneAtATime(s)'
  BY <1>1, <1>4, <1>8, <1>9 DEF ReviewsInv, OneAtATime
<1>11. \A k \in Clients : reviewCall'[k].at = "readback" => reviewCall'[k].item \in 1..Len(items')
  BY <1>4, <1>6 DEF ReviewsInv
<1>12. \A j \in 1..Len(items') : ItemShaped(items'[j])
  BY <1>3, <1>4, <1>5 DEF ReviewsInv
<1> QED
  BY <1>1, <1>2, <1>3, <1>4, <1>6, <1>7, <1>9, <1>10, <1>11, <1>12 DEF ReviewsInv

LEMMA ReadBackKeeps ==
  ASSUME ReviewsInv, NEW c \in Clients, Log!ReadBack(c)
  PROVE  ReviewsInv'
<1>1. PICK i :
      /\ i = reviewCall[c].item /\ ReadingBack(c, i) /\ i \in 1..Len(items) /\ UNCHANGED <<items, met>>
      /\ reviewCall' = [reviewCall EXCEPT ![c] = Log!Idle]
  BY DEF Log!ReadBack, Log!Goto, ReadingBack, ReviewsInv
<1>2. PICK reply \in {items[i].status, "error"} : told' = [told EXCEPT ![i] = told[i] \cup {reply}]
  BY <1>1 DEF Log!ReadBack
<1>3. i \in 1..MaxItems
  BY <1>1, ReviewsAssumption DEF ReviewsInv
<1>4. /\ told' = [j \in 1..MaxItems |-> told'[j]] /\ told'[i] = told[i] \cup {reply}
      /\ \A j \in 1..MaxItems : j # i => told'[j] = told[j]
  BY <1>2, <1>3 DEF ReviewsInv
<1>5. /\ \A k \in Clients : k # c => reviewCall'[k] = reviewCall[k]
      /\ reviewCall'[c] = Log!Idle /\ reviewCall' = [k \in Clients |-> reviewCall'[k]]
  BY <1>1 DEF ReviewsInv
<1>6. Settled(i)'
  <2>1. /\ items[i].status # "open" /\ told[i] = {}
        /\ \A d \in Clients : ReadingBack(d, i) => d = c
    BY <1>1 DEF ReviewsInv, Settled
  <2>2. told'[i] = {reply}
    BY <1>4, <2>1
  <2>3. \A d \in Clients : ~ReadingBack(d, i)'
    BY <1>1, <1>5, <2>1 DEF ReadingBack, Log!Idle
  <2> QED
    BY <1>1, <2>1, <2>2, <2>3 DEF Settled, ReadingBack
<1>7. ASSUME NEW j \in 1..Len(items), j # i PROVE Settled(j)'
  <2>1. items'[j] = items[j] /\ told'[j] = told[j] /\ Settled(j)
    <3>1. j \in 1..MaxItems
      BY ReviewsAssumption DEF ReviewsInv
    <3> QED
      BY <1>1, <1>4, <1>7, <3>1 DEF ReviewsInv
  <2>2. \A k \in Clients : (ReadingBack(k, j)' <=> ReadingBack(k, j))
                          /\ (ReadingBack(k, j) => reviewCall'[k] = reviewCall[k])
    BY <1>1, <1>5, <1>7 DEF ReadingBack, Log!Idle
  <2> QED
    BY <2>1, <2>2, SettledKept
<1>8. \A j \in 1..MaxItems : j > Len(items') => told'[j] = {}
  BY <1>1, <1>4 DEF ReviewsInv
<1>9. \A k \in Clients : /\ Listed(reviewCall'[k]) /\ \A s : Making(k, s)' => Making(k, s)
                         /\ reviewCall'[k].at = "readback" => reviewCall'[k].item \in 1..Len(items')
  BY <1>1, <1>5, IdleListed DEF ReviewsInv, Making
<1>10. \A s \in (Tools \cup Messages) \ met' : OneAtATime(s)'
  BY <1>1, <1>9 DEF ReviewsInv, OneAtATime, Open
<1> QED
  BY <1>1, <1>4, <1>5, <1>6, <1>7, <1>8, <1>9, <1>10 DEF ReviewsInv

LEMMA ReviewsStay ==
  ASSUME ReviewsInv, UNCHANGED <<items, reviewCall, told, met>>
  PROVE  ReviewsInv'
<1>1. \A s : OneAtATime(s) => OneAtATime(s)'
  BY DEF OneAtATime, Making, Open
<1>2. \A i : Settled(i) => Settled(i)'
  BY DEF Settled, ReadingBack
<1> QED
  BY <1>1, <1>2 DEF ReviewsInv

LEMMA ReviewsInvNext == ReviewsInv /\ [Log!Next]_(Log!vars) => ReviewsInv'
<1> SUFFICES ASSUME ReviewsInv, [Log!Next]_(Log!vars) PROVE ReviewsInv'
  OBVIOUS
<1>1. CASE Log!ObserveTool
  BY <1>1, ReviewsStay DEF Log!ObserveTool
<1>2. ASSUME NEW c \in Clients,
             \/ Log!BeginNegative(c) \/ Log!BeginExtract(c) \/ Log!InsertFeedback(c) \/ Log!CallFails(c)
      PROVE  ReviewsInv'
  <2>1. PICK r : reviewCall' = [reviewCall EXCEPT ![c] = r] /\ Listed(r) /\ ~(r.at \in {"create", "readback"})
    <3>1. CASE Log!BeginNegative(c) \/ Log!BeginExtract(c)
      <4>1. PICK todo, limit : Log!Goto(c, [at |-> "list", todo |-> todo, limit |-> limit])
        BY <3>1 DEF Log!BeginNegative, Log!BeginExtract
      <4> DEFINE r == [at |-> "list", todo |-> todo, limit |-> limit]
      <4>2. reviewCall' = [reviewCall EXCEPT ![c] = r] /\ Listed(r) /\ ~(r.at \in {"create", "readback"})
        BY <4>1 DEF Log!Goto, Listed
      <4> HIDE DEF r
      <4> QED
        BY <4>2
    <3>2. CASE Log!InsertFeedback(c) \/ Log!CallFails(c)
      BY <3>2, IdleListed DEF Log!InsertFeedback, Log!CallFails, Log!Goto
    <3> QED
      BY <1>2, <3>1, <3>2
  <2>2. UNCHANGED <<items, told, met>> /\ reviewCall[c].at # "readback"
    BY <1>2, IdleListed DEF Log!BeginNegative, Log!BeginExtract, Log!InsertFeedback, Log!CallFails
  <2> QED
    BY <2>1, <2>2, CallGoesOn
<1>3. ASSUME NEW c \in Clients, Log!Create(c) PROVE ReviewsInv'
  <2>1. PICK r : reviewCall' = [reviewCall EXCEPT ![c] = r] /\ Listed(r) /\ ~(r.at \in {"create", "readback"})
    BY <1>3, NextSubjectListed DEF Log!Create
  <2>2. Making(c, Head(reviewCall[c].todo)) /\ Log!Add("review", Head(reviewCall[c].todo)) /\ UNCHANGED <<told, met>>
        /\ reviewCall[c].at # "readback"
    BY <1>3 DEF Log!Create, Making
  <2> QED
    BY <2>1, <2>2, ItemAdded
<1>4. ASSUME NEW c \in Clients, Log!BeginFeedback(c) PROVE ReviewsInv'
  <2>1. PICK m \in Recalled : Log!Add("review", m) /\
          Log!Goto(c, [at |-> "feedback", memory |-> m, item |-> Len(items) + 1])
    BY <1>4 DEF Log!BeginFeedback
  <2>2. PICK r : reviewCall' = [reviewCall EXCEPT ![c] = r] /\ Listed(r) /\ ~(r.at \in {"create", "readback"})
    <3> DEFINE r == [at |-> "feedback", memory |-> m, item |-> Len(items) + 1]
    <3>1. reviewCall' = [reviewCall EXCEPT ![c] = r] /\ Listed(r) /\ ~(r.at \in {"create", "readback"})
      BY <2>1 DEF Log!Goto, Listed
    <3> HIDE DEF r
    <3> QED
      BY <3>1
  <2>3. m \notin Tools \cup Messages /\ UNCHANGED <<told, met>> /\ reviewCall[c].at # "readback"
    BY <1>4, ReviewsAssumption, IdleListed DEF Log!BeginFeedback
  <2> QED
    BY <2>1, <2>2, <2>3, ItemAdded
<1>5. ASSUME NEW c \in Clients, Log!SubmitSkill(c) PROVE ReviewsInv'
  <2>1. reviewCall' = [reviewCall EXCEPT ![c] = Log!Idle] /\ UNCHANGED <<told, met>> /\ Log!Add("skill", "skill")
        /\ reviewCall[c].at # "readback"
    BY <1>5, IdleListed DEF Log!SubmitSkill, ReviewsInv
  <2> QED
    BY <2>1, IdleListed, ReviewsAssumption, ItemAdded
<1>6. ASSUME NEW c \in Clients, Log!ListOpen(c) \/ Log!Resolve(c) \/ Log!ReadBack(c)
      PROVE  ReviewsInv'
  BY <1>6, ListOpenKeeps, ResolveKeeps, ReadBackKeeps
<1>7. CASE UNCHANGED Log!vars
  BY <1>7, ReviewsStay DEF Log!vars
<1> QED
  BY <1>1, <1>2, <1>3, <1>4, <1>5, <1>6, <1>7 DEF Log!Next

LEMMA OneIsCountedOnce ==
  ASSUME NEW S, \A x, y \in S : x = y
  PROVE  Log!Cardinality(S) <= 1
<1>1. CASE S = {}
  BY <1>1, FS_EmptySet DEF Log!Cardinality, Cardinality
<1>2. ASSUME NEW x \in S PROVE Log!Cardinality(S) <= 1
  <2>1. S = {x}
    OBVIOUS
  <2>2. Log!Cardinality(S) = Cardinality(S)
    BY DEF Log!Cardinality, Cardinality
  <2> QED
    BY <2>1, <2>2, FS_Singleton
<1> QED
  BY <1>1, <1>2

LEMMA ReviewsInvTells == ReviewsInv => Log!OneOpenItem /\ Log!ResolvedOnce
<1> SUFFICES ASSUME ReviewsInv PROVE Log!OneOpenItem /\ Log!ResolvedOnce
  OBVIOUS
<1>1. DOMAIN items = 1..Len(items)
  BY DEF ReviewsInv
<1>2. ASSUME NEW s \in (Tools \cup Messages) \ met
      PROVE  Log!Cardinality({i \in DOMAIN items : items[i].subject = s /\ items[i].status = "open"}) <= 1
  <2>1. OneAtATime(s)
    BY <1>2 DEF ReviewsInv
  <2> QED
    BY <1>1, <2>1, OneIsCountedOnce DEF OneAtATime, Open
<1>3. ASSUME NEW i \in 1..Len(items)
      PROVE  LET reading == {c \in Clients : reviewCall[c].at = "readback" /\ reviewCall[c].item = i}
                 now == items[i].status
             IN IF now = "open" THEN reading = {} /\ told[i] = {}
                ELSE \/ told[i] = {} /\ \E c \in reading : reading = {c} /\ reviewCall[c].asked = now
                     \/ reading = {} /\ told[i] \in {{now}, {"error"}}
  <2>1. Settled(i)
    BY DEF ReviewsInv
  <2> QED
    BY <2>1 DEF Settled, ReadingBack
<1> QED
  BY <1>1, <1>2, <1>3 DEF Log!OneOpenItem, Log!Subjects, Log!ResolvedOnce

-----------------------------------------------------------------------------
\* Who may read

LEMMA BroaderIsReadable ==
  ASSUME NEW t, NEW u, t \in Rules!ReadableBy(u)
  PROVE  Rules!ReadableBy(t) \subseteq Rules!ReadableBy(u)
<1> DEFINE H == <<"global", "project", "task", "workspace", "decision">>
<1>1. \A i, j \in 1..5 : H[i] = H[j] => i = j
  OBVIOUS
<1>2. DOMAIN Rules!Hierarchy = 1..5 /\ Rules!Hierarchy = H
  BY DEF Rules!Hierarchy
<1>3. PICK j, k \in 1..5 : H[j] = t /\ H[k] = u /\ j <= k
  BY <1>2 DEF Rules!ReadableBy
<1>4. ASSUME NEW x \in Rules!ReadableBy(t) PROVE x \in Rules!ReadableBy(u)
  <2>1. PICK i, m \in 1..5 : x \in Rules!Tiers /\ H[i] = x /\ H[m] = t /\ i <= m
    BY <1>2, <1>4 DEF Rules!ReadableBy
  <2>2. m = j
    BY <1>1, <1>3, <2>1
  <2>3. i \in 1..5 /\ k \in 1..5 /\ i <= k
    BY <1>3, <2>1, <2>2
  <2> HIDE DEF H
  <2> QED
    BY <1>2, <1>3, <2>1, <2>3 DEF Rules!ReadableBy
<1> QED
  BY <1>4

LEMMA TierIsReadable ==
  ASSUME NEW t \in Rules!Tiers
  PROVE  t \in Rules!ReadableBy(t)
<1>1. PICK i \in DOMAIN Rules!Hierarchy : Rules!Hierarchy[i] = t
  BY DEF Rules!Tiers, Rules!ToSet
<1>2. i <= i
  BY <1>1 DEF Rules!Hierarchy
<1> QED
  BY <1>1, <1>2 DEF Rules!ReadableBy

AccessInv ==
  \A g \in grants : g = [memory |-> g.memory, agent |-> g.agent, permission |-> g.permission]

LEMMA AccessStep ==
  /\ part = "access" /\ [PartNext]_<<part, vars, graphVars, reviewVars, agentVars, importVars,
                                     watchVars, factVars, ruleVars>>
       => (part = "access")' /\ (Rules!AccessNext \/ UNCHANGED <<grants, active>>)
  /\ ~(part = "access") /\ [PartNext]_<<part, vars, graphVars, reviewVars, agentVars, importVars,
                                        watchVars, factVars, ruleVars>>
       => ~(part = "access")'
BY DEF PartNext, ruleVars

LEMMA AccessInvInit == PartInit => AccessInv
BY DEF PartInit, Rules!GovernanceInit, AccessInv

LEMMA AccessInvNext == AccessInv /\ (Rules!AccessNext \/ UNCHANGED <<grants, active>>) => AccessInv'
BY DEF AccessInv, Rules!AccessNext, Rules!GrantACL, Rules!RevokeACL, Rules!Tombstone

\* The clause of a query reads what it is granted, what is of its tiers and its own notes.
LEMMA ScopeReads ==
  ASSUME AccessInv, NEW a, NEW w, NEW tiers, tiers # {}, NEW m \in MemoryRows
  PROVE  m \in Rules!ReadScopeSQL(a, w, tiers) <=>
           \/ Rules!Granted(m, a)
           \/ m.workspace = w /\ m.tier \in tiers
           \/ m.workspace = w /\ m.agent = a /\ m.tier = "workspace"
<1>1. m.id \in {g.memory : g \in {g \in grants : g.agent = a /\ g.permission = "read"}} <=> Rules!Granted(m, a)
  BY DEF Rules!Granted, AccessInv
<1> QED
  BY <1>1 DEF Rules!ReadScopeSQL

LEMMA AccessInvTells == AccessInv => Rules!AccessAgrees
<1> SUFFICES ASSUME AccessInv PROVE Rules!AccessAgrees
  OBVIOUS
<1>1. ASSUME NEW a \in Agents, NEW w \in Workspaces, NEW t \in Rules!Tiers
      PROVE  LET can == {m \in MemoryRows : Rules!AgentCanAccessMemory(m, a, w, Rules!ReadableBy(t))} IN
               /\ can = {m \in Rules!ReadScopeSQL(a, w, Rules!ReadableBy(t)) : m.id \in active}
               /\ \A u \in Rules!Tiers :
                    t \in Rules!ReadableBy(u) => can \subseteq Rules!ReadScopeSQL(a, w, Rules!ReadableBy(u))
               /\ \A m \in can : m.workspace # w => Rules!Granted(m, a)
  <2> DEFINE can == {m \in MemoryRows : Rules!AgentCanAccessMemory(m, a, w, Rules!ReadableBy(t))}
  <2>1. Rules!ReadScopeSQL(a, w, Rules!ReadableBy(t)) \subseteq MemoryRows
    BY DEF Rules!ReadScopeSQL
  <2>2. Rules!ReadableBy(t) # {}
    BY TierIsReadable
  <2>3. can = {m \in Rules!ReadScopeSQL(a, w, Rules!ReadableBy(t)) : m.id \in active}
    BY <2>1, <2>2, ScopeReads DEF Rules!AgentCanAccessMemory
  <2>4. ASSUME NEW u \in Rules!Tiers, t \in Rules!ReadableBy(u), NEW m \in can
        PROVE  m \in Rules!ReadScopeSQL(a, w, Rules!ReadableBy(u))
    BY <2>4, BroaderIsReadable, ScopeReads DEF Rules!AgentCanAccessMemory
  <2>5. \A m \in can : m.workspace # w => Rules!Granted(m, a)
    BY DEF Rules!AgentCanAccessMemory
  <2> QED
    BY <2>3, <2>4, <2>5
<1>2. \A raw : \A parent \in BOOLEAN : {t \in Rules!Tiers : Rules!CanWrite([isParent |-> parent, writeTier |-> Rules!NormalizeTier(raw)], t)}
        \subseteq Rules!WritableBy(parent)
  BY DEF Rules!CanWrite, Rules!WritableBy
<1> QED
  BY <1>1, <1>2 DEF Rules!AccessAgrees

-----------------------------------------------------------------------------
\* Proposals

LEMMA ProposalsStep ==
  /\ part = "proposals" /\ [PartNext]_<<part, vars, graphVars, reviewVars, agentVars, importVars,
                                        watchVars, factVars, ruleVars>>
       => (part = "proposals")' /\ (Rules!ProposalsNext \/ UNCHANGED <<proposals, decided>>)
  /\ ~(part = "proposals") /\ [PartNext]_<<part, vars, graphVars, reviewVars, agentVars, importVars,
                                           watchVars, factVars, ruleVars>>
       => ~(part = "proposals")'
BY DEF PartNext, ruleVars

ProposalShaped(p) ==
  /\ p = [table |-> p.table, id |-> p.id, parent |-> p.parent, at |-> p.at, status |-> p.status,
          by |-> p.by, committed |-> p.committed]
  /\ p.table \in {"memory", "skill"} /\ p.status \in {"pending", "accepted", "rejected"}
  /\ p.at \in Stamps /\ (p.table = "skill" => p.id = <<p.at>>)
  /\ p.committed # None => p.status = "accepted"

\* An ID is one row's, and every row that is decided is so by one decision.
ProposalsInv ==
  /\ IsFiniteSet(proposals)
  /\ \A p \in proposals : ProposalShaped(p)
  /\ \A p, q \in proposals : p.table = q.table /\ p.id = q.id => p = q
  /\ \A p \in proposals : p.status # "pending" => \E d \in decided : d.of = p
  /\ \A d, e \in decided : d.of = e.of => d = e
  /\ \A d \in decided : /\ d = [of |-> d.of, answer |-> d.answer] /\ d.of \in proposals
                        /\ d.of.status # "pending" /\ d.answer \in {None, {}, {d.of}}

LEMMA ProposalsInvInit == PartInit => ProposalsInv
<1> SUFFICES ASSUME PartInit PROVE ProposalsInv
  OBVIOUS
<1>1. proposals = {} /\ decided = {}
  BY DEF PartInit, Rules!GovernanceInit
<1> QED
  BY <1>1, FS_EmptySet DEF ProposalsInv

LEMMA ProposalAdded ==
  ASSUME ProposalsInv, NEW table \in {"memory", "skill"}, NEW id, NEW parent, NEW at \in Stamps,
         table = "skill" => id = <<at>>, Rules!Add(table, id, parent, at)
  PROVE  ProposalsInv'
<1> DEFINE row == [table |-> table, id |-> id, parent |-> parent, at |-> at, status |-> "pending",
                   by |-> None, committed |-> None]
<1>1. proposals' = proposals \cup {row} /\ decided' = decided
      /\ \A p \in proposals : ~(p.table = table /\ p.id = id)
  BY DEF Rules!Add
<1>2. ProposalShaped(row) /\ row.status = "pending" /\ row.table = table /\ row.id = id
  BY DEF ProposalShaped
<1> HIDE DEF row
<1>3. IsFiniteSet(proposals')
  BY <1>1, FS_AddElement DEF ProposalsInv
<1> QED
  BY <1>1, <1>2, <1>3 DEF ProposalsInv

LEMMA DecideKeeps ==
  ASSUME ProposalsInv, NEW p \in proposals, NEW said \in {"accepted", "rejected"}, NEW by, NEW committed,
         committed # None => said = "accepted", Rules!Decide(p, said, by, committed)
  PROVE  ProposalsInv'
<1> DEFINE row == [table |-> p.table, id |-> p.id, parent |-> p.parent, at |-> p.at, status |-> said,
                   by |-> by, committed |-> committed]
<1>1. ProposalShaped(p)
  BY DEF ProposalsInv
<1>2. [p EXCEPT !.status = said, !.by = by, !.committed = committed] = row
  <2>1. p = [table |-> p.table, id |-> p.id, parent |-> p.parent, at |-> p.at, status |-> p.status,
             by |-> p.by, committed |-> p.committed]
    BY <1>1 DEF ProposalShaped
  <2>2. PICK x : x = [p EXCEPT !.status = said]
    OBVIOUS
  <2>3. x = [table |-> p.table, id |-> p.id, parent |-> p.parent, at |-> p.at, status |-> said,
             by |-> p.by, committed |-> p.committed]
    BY <2>1, <2>2
  <2>4. PICK y : y = [x EXCEPT !.by = by]
    OBVIOUS
  <2>5. y = [table |-> p.table, id |-> p.id, parent |-> p.parent, at |-> p.at, status |-> said,
             by |-> by, committed |-> p.committed]
    BY <2>3, <2>4
  <2>6. [y EXCEPT !.committed = committed] = row
    BY <2>5
  <2> QED
    BY <2>2, <2>4, <2>6
<1> DEFINE new == [of |-> row, answer |-> IF p.table = "skill" THEN None ELSE {row}]
<1>3. /\ p.status = "pending" /\ proposals' = (proposals \ {p}) \cup {row} /\ decided' = decided \cup {new}
  BY <1>2 DEF Rules!Decide, Rules!Pending
<1>4. ProposalShaped(row) /\ row.status # "pending" /\ row.table = p.table /\ row.id = p.id
  BY <1>1 DEF ProposalShaped
<1>5. /\ new = [of |-> new.of, answer |-> new.answer] /\ new.of = row /\ new.answer \in {None, {}, {row}}
  OBVIOUS
<1> HIDE DEF row, new
<1>6. IsFiniteSet(proposals')
  BY <1>3, FS_AddElement, FS_RemoveElement DEF ProposalsInv
<1>7. row \notin proposals /\ \A d \in decided : d.of # p /\ d.of # row
  BY <1>3, <1>4 DEF ProposalsInv
<1>8. \A q, x \in proposals' : q.table = x.table /\ q.id = x.id => q = x
  BY <1>3, <1>4 DEF ProposalsInv
<1>9. \A d, e \in decided' : d.of = e.of => d = e
  BY <1>3, <1>5, <1>7 DEF ProposalsInv
<1>10. \A d \in decided' : /\ d = [of |-> d.of, answer |-> d.answer] /\ d.of \in proposals'
                           /\ d.of.status # "pending" /\ d.answer \in {None, {}, {d.of}}
  BY <1>3, <1>4, <1>5, <1>7 DEF ProposalsInv
<1>11. \A q \in proposals' : q.status # "pending" => \E d \in decided' : d.of = q
  BY <1>3, <1>5 DEF ProposalsInv
<1>12. \A q \in proposals' : ProposalShaped(q)
  BY <1>3, <1>4 DEF ProposalsInv
<1> QED
  BY <1>6, <1>8, <1>9, <1>10, <1>11, <1>12 DEF ProposalsInv

\* A reviewer reads the row back.
LEMMA DecisionReadBack ==
  ASSUME ProposalsInv, NEW d \in decided, Rules!ReadBack(d)
  PROVE  ProposalsInv'
<1>1. d.of \in proposals /\ d.of.table = "skill" /\ UNCHANGED proposals
  BY DEF Rules!ReadBack, ProposalsInv
<1>2. Rules!GetSkillLearningProposal(d.of.id) = {d.of}
  BY <1>1 DEF Rules!GetSkillLearningProposal, ProposalsInv
<1>3. PICK reply \in {{d.of}, {}} : decided' = (decided \ {d}) \cup {[of |-> d.of, answer |-> reply]}
  BY <1>2 DEF Rules!ReadBack
<1> DEFINE e == [of |-> d.of, answer |-> reply]
<1>4. /\ e = [of |-> e.of, answer |-> e.answer] /\ e.of = d.of /\ e.answer \in {{d.of}, {}}
      /\ decided' = (decided \ {d}) \cup {e}
  BY <1>3
<1> HIDE DEF e
<1>5. \A x, y \in decided' : x.of = y.of => x = y
  BY <1>4 DEF ProposalsInv
<1>6. \A p \in proposals : p.status # "pending" => \E x \in decided' : x.of = p
  BY <1>4 DEF ProposalsInv
<1>7. \A x \in decided' : /\ x = [of |-> x.of, answer |-> x.answer] /\ x.of \in proposals
                          /\ x.of.status # "pending" /\ x.answer \in {None, {}, {x.of}}
  BY <1>1, <1>4 DEF ProposalsInv
<1> QED
  BY <1>1, <1>5, <1>6, <1>7 DEF ProposalsInv

LEMMA ProposalsInvNext == ProposalsInv /\ (Rules!ProposalsNext \/ UNCHANGED <<proposals, decided>>) => ProposalsInv'
<1> SUFFICES ASSUME ProposalsInv, Rules!ProposalsNext \/ UNCHANGED <<proposals, decided>> PROVE ProposalsInv'
  OBVIOUS
<1>1. ASSUME NEW child, NEW parent, NEW at \in Stamps, Rules!Add("memory", <<child, at>>, parent, at)
      PROVE  ProposalsInv'
  BY <1>1, ProposalAdded
<1>2. ASSUME NEW at \in Stamps, Rules!Add("skill", <<at>>, None, at) PROVE ProposalsInv'
  BY <1>2, ProposalAdded
<1>3. ASSUME NEW p \in proposals, NEW by, NEW committed, Rules!Decide(p, "accepted", by, committed)
      PROVE  ProposalsInv'
  BY <1>3, DecideKeeps
<1>4. ASSUME NEW p \in proposals, NEW by, Rules!Decide(p, "rejected", by, None) PROVE ProposalsInv'
  BY <1>4, DecideKeeps
<1>5. CASE UNCHANGED <<proposals, decided>>
  BY <1>5 DEF ProposalsInv
<1>6. CASE Rules!ProposalsNext
  <2>1. ASSUME NEW child, NEW parent, NEW at \in Stamps, NEW tier, NEW kind,
               \/ Rules!PolicySubmitProposal(child, parent, at, tier, kind)
               \/ Rules!SubmitProposal(child, parent, at, tier, kind)
        PROVE  ProposalsInv'
    BY <1>1, <2>1 DEF Rules!PolicySubmitProposal, Rules!SubmitProposal
  <2>2. ASSUME NEW at \in Stamps, Rules!SubmitSkillLearningProposal(at) PROVE ProposalsInv'
    BY <1>2, <2>2 DEF Rules!SubmitSkillLearningProposal
  <2>3. ASSUME NEW p \in proposals, NEW by,
               \/ Rules!PolicyRejectProposal(p, by)
               \/ \E committed \in {None, "memory"} : Rules!PolicyAcceptProposal(p, by, committed)
               \/ Rules!AcceptProposal(p, by) \/ Rules!RejectProposal(p, by)
        PROVE  ProposalsInv'
    BY <1>3, <1>4, <2>3 DEF Rules!PolicyRejectProposal, Rules!PolicyAcceptProposal, Rules!AcceptProposal,
                            Rules!RejectProposal
  <2>4. ASSUME NEW d \in decided, Rules!ReadBack(d) PROVE ProposalsInv'
    BY <2>4, DecisionReadBack
  <2> QED
    BY <1>6, <2>1, <2>2, <2>3, <2>4 DEF Rules!ProposalsNext
<1> QED
  BY <1>5, <1>6

\* Of a finite set ranked by numbers that differ, the first places are taken: by a rank
\* that is the number of those ahead of a member, all ranks below its size are reached.
LEMMA FirstPlaces ==
  ASSUME NEW S, IsFiniteSet(S), NEW L \in Nat, NEW at \in [S -> Int],
         \A p, q \in S : at[p] = at[q] => p = q
  PROVE  Cardinality({p \in S : Cardinality({q \in S : at[q] > at[p]}) < L})
           = IF L < Cardinality(S) THEN L ELSE Cardinality(S)
<1> DEFINE Ahead(p) == {q \in S : at[q] > at[p]}
           n == Cardinality(S)
           Place(p) == Cardinality(Ahead(p))
           rank == [p \in S |-> Place(p)]
           m == IF L < n THEN L ELSE n
           T == {p \in S : Place(p) < L}
<1>1. n \in Nat /\ m \in Nat /\ m <= L /\ m <= n /\ (m = L \/ m = n)
  BY FS_CardinalityType
<1>2. \A p \in S : Ahead(p) \subseteq S /\ p \notin Ahead(p)
  OBVIOUS
<1>3. ASSUME NEW p \in S, NEW q \in S, at[p] > at[q] PROVE Ahead(p) \subseteq Ahead(q) /\ p \in Ahead(q)
  BY <1>3
<1> HIDE DEF Ahead
<1>4. \A p \in S : IsFiniteSet(Ahead(p)) /\ Place(p) \in Nat /\ Place(p) < n
  <2>1. TAKE p \in S
  <2>2. IsFiniteSet(Ahead(p)) /\ Place(p) <= n /\ (n = Place(p) => S = Ahead(p))
    BY <1>2, FS_Subset
  <2>3. Place(p) \in Nat
    BY <2>2, FS_CardinalityType
  <2> HIDE DEF Place, n
  <2> QED
    BY <1>1, <1>2, <2>2, <2>3
<1>5. ASSUME NEW p \in S, NEW q \in S, at[p] > at[q] PROVE Place(p) < Place(q)
  <2>1. Ahead(p) \subseteq Ahead(q) /\ p \in Ahead(q) /\ p \notin Ahead(p)
    BY <1>2, <1>3, <1>5
  <2>2. Place(p) <= Place(q) /\ (Place(q) = Place(p) => Ahead(q) = Ahead(p))
    BY <1>4, <2>1, FS_Subset
  <2> HIDE DEF Place
  <2> QED
    BY <1>4, <2>1, <2>2
<1> HIDE DEF Place, n, m
<1>6. rank \in Injection(S, 0..(n - 1))
  <2>1. rank \in [S -> 0..(n - 1)]
    BY <1>1, <1>4
  <2>2. ASSUME NEW p \in S, NEW q \in S, rank[p] = rank[q] PROVE p = q
    <3>1. Place(p) = Place(q) /\ Place(p) \in Nat /\ at[p] \in Int /\ at[q] \in Int
      BY <1>4, <2>2
    <3>2. ~(at[p] > at[q]) /\ ~(at[q] > at[p])
      BY <1>5, <3>1
    <3> QED
      BY <3>1, <3>2
  <2> QED
    BY <2>1, <2>2 DEF Injection, IsInjective
<1>7. rank \in Surjection(S, 0..(n - 1))
  <2>1. IsFiniteSet(0..(n - 1)) /\ Cardinality(0..(n - 1)) = n
    BY <1>1, FS_Interval
  <2> QED
    BY <1>6, <2>1, FS_Injection DEF n
<1>8. [p \in T |-> rank[p]] \in Bijection(T, 0..(m - 1))
  <2> DEFINE f == [p \in T |-> rank[p]]
  <2>1. f \in [T -> 0..(m - 1)]
    BY <1>1, <1>4
  <2>2. \A p, q \in T : f[p] = f[q] => p = q
    BY <1>6 DEF Injection, IsInjective
  <2>3. \A k \in 0..(m - 1) : \E p \in T : f[p] = k
    <3>1. TAKE k \in 0..(m - 1)
    <3>2. k \in 0..(n - 1) /\ k < L
      BY <1>1
    <3>3. PICK p \in S : rank[p] = k
      BY <1>7, <3>2 DEF Surjection
    <3> QED
      BY <3>2, <3>3
  <2> QED
    BY <2>1, <2>2, <2>3 DEF Bijection, Injection, Surjection, IsInjective
<1> HIDE DEF rank
<1>9. Cardinality(T) = m
  <2>1. T \subseteq S
    OBVIOUS
  <2> HIDE DEF T
  <2>2. ExistsBijection(T, 0..(m - 1)) /\ IsFiniteSet(T)
    BY <1>8, <2>1, FS_Subset DEF ExistsBijection
  <2>3. Cardinality(0..(m - 1)) = m
    BY <1>1, FS_Interval
  <2> QED
    BY <2>2, <2>3, FS_Bijection
<1> QED
  BY <1>9 DEF Place, Ahead, m, n

LEMMA SkillsListed ==
  Rules!ListSkills("pending", 0)
    = {p \in {q \in proposals : q.table = "skill" /\ q.status = "pending"} :
         Rules!Cardinality({q \in {r \in proposals : r.table = "skill" /\ r.status = "pending"} : q.at > p.at}) < ListMax}
<1>1. Rules!ListLimit(0) = ListMax
  BY DEF Rules!ListLimit
<1>2. {p \in proposals : p.table = "skill" /\ ("pending" = "" \/ p.status = "pending")}
        = {p \in proposals : p.table = "skill" /\ p.status = "pending"}
  BY ZenonT(20)
<1> QED
  BY <1>1, <1>2, ZenonT(20) DEF Rules!ListSkills

LEMMA ProposalsInvTells == ProposalsInv => Rules!DecidedOnce
<1> SUFFICES ASSUME ProposalsInv PROVE Rules!DecidedOnce
  OBVIOUS
<1>1. ASSUME NEW p \in proposals
      PROVE  LET decisions == {d \in decided : d.of.table = p.table /\ d.of.id = p.id} IN
               IF Rules!Pending(p) THEN decisions = {}
               ELSE \E reply \in {None, {}, {p}} : decisions = {[of |-> p, answer |-> reply]}
  <2> DEFINE decisions == {d \in decided : d.of.table = p.table /\ d.of.id = p.id}
  <2>1. decisions = {d \in decided : d.of = p}
    BY DEF ProposalsInv
  <2>2. CASE Rules!Pending(p)
    BY <2>1, <2>2 DEF ProposalsInv, Rules!Pending
  <2>3. CASE ~Rules!Pending(p)
    <3>1. PICK d \in decided : d.of = p
      BY <2>3 DEF ProposalsInv, Rules!Pending
    <3>2. decisions = {d} /\ d = [of |-> p, answer |-> d.answer] /\ d.answer \in {None, {}, {p}}
      BY <2>1, <3>1 DEF ProposalsInv
    <3> QED
      BY <2>3, <3>2
  <2> QED
    BY <2>2, <2>3
<1> DEFINE found == {p \in proposals : p.table = "skill" /\ p.status = "pending"}
<1>2. Rules!ListSkills("pending", 0) \subseteq found
  BY SkillsListed
<1>3. \A p \in proposals :
        /\ p.committed # None => p.status = "accepted"
        /\ p.table = "memory" =>
             /\ p \in Rules!ListPendingProposals(p.parent) <=> Rules!Pending(p)
             /\ Rules!PolicyListPendingProposals(p.parent) = Rules!ListPendingProposals(p.parent)
             /\ Rules!GetProposal(p.id) = {p} /\ Rules!PolicyGetProposal(p.id) = {p}
        /\ p \in Rules!ListSkills("pending", 0) => Rules!Pending(p)
  BY <1>2 DEF ProposalsInv, ProposalShaped, Rules!ListPendingProposals, Rules!PolicyListPendingProposals,
              Rules!Pending, Rules!GetProposal, Rules!PolicyGetProposal
<1>4. Rules!Cardinality(Rules!ListSkills("pending", 0)) = Rules!Min({ListMax, Rules!Cardinality(found)})
  <2>1. IsFiniteSet(found) /\ Cardinality(found) \in Nat /\ ListMax \in Nat
    BY FS_Subset, FS_CardinalityType, RulesAssumption DEF ProposalsInv
  <2>2. /\ \A p \in found : p.at \in Int
        /\ \A p, q \in found : p.at = q.at => p = q
    BY RulesAssumption DEF ProposalsInv, ProposalShaped
  <2>3. Cardinality({p \in found : Cardinality({q \in found : q.at > p.at}) < ListMax})
          = IF ListMax < Cardinality(found) THEN ListMax ELSE Cardinality(found)
    <3> DEFINE at == [p \in found |-> p.at]
               First == {p \in found : Cardinality({q \in found : at[q] > at[p]}) < ListMax}
    <3>1. at \in [found -> Int] /\ \A p, q \in found : at[p] = at[q] => p = q
      BY <2>2
    <3>2. Cardinality(First) = IF ListMax < Cardinality(found) THEN ListMax ELSE Cardinality(found)
      <4> HIDE DEF found, at
      <4> QED
        BY <2>1, <3>1, FirstPlaces
    <3>3. \A p \in found : {q \in found : at[q] > at[p]} = {q \in found : q.at > p.at}
      OBVIOUS
    <3>4. First = {p \in found : Cardinality({q \in found : q.at > p.at}) < ListMax}
      BY <3>3
    <3> HIDE DEF First, found, at
    <3> QED
      BY <3>2, <3>4
  <2>4. \A S : Rules!Cardinality(S) = Cardinality(S)
    BY DEF Rules!Cardinality, Cardinality
  <2>5. \A a, b \in Nat : Rules!Min({a, b}) = IF a < b THEN a ELSE b
    BY DEF Rules!Min
  <2>6. Rules!ListSkills("pending", 0) = {p \in found : Cardinality({q \in found : q.at > p.at}) < ListMax}
    BY <2>4, SkillsListed
  <2> HIDE DEF found
  <2> QED
    BY <2>1, <2>3, <2>4, <2>5, <2>6
<1>5. found = {p \in proposals : p.table = "skill" /\ Rules!Pending(p)}
  BY DEF Rules!Pending
<1> QED
  BY <1>1, <1>3, <1>4, <1>5 DEF Rules!DecidedOnce

-----------------------------------------------------------------------------
\* Sentinels

LEMMA SentinelsStep ==
  /\ part = "sentinels" /\ [PartNext]_<<part, vars, graphVars, reviewVars, agentVars, importVars,
                                        watchVars, factVars, ruleVars>>
       => (part = "sentinels")' /\ (Rules!SentinelsNext \/ UNCHANGED <<sentinels, upserts>>)
  /\ ~(part = "sentinels") /\ [PartNext]_<<part, vars, graphVars, reviewVars, agentVars, importVars,
                                           watchVars, factVars, ruleVars>>
       => ~(part = "sentinels")'
BY DEF PartNext, ruleVars

IdOf(n) == Rules!SentinelID(upserts[n].of)
\* A row has what was told last of its ID, and the workspace that told of it first.
RowTells(id, row) ==
  /\ row.at \in Rules!ToldOf(id) /\ (\A n \in Rules!ToldOf(id) : n <= row.at) /\ row.of = upserts[row.at].of
  /\ \E n \in Rules!ToldOf(id) :
       row.workspace = upserts[n].workspace /\ \A m \in Rules!ToldOf(id) : n <= m

SentinelsInv ==
  /\ Len(upserts) \in Nat /\ upserts = [n \in 1..Len(upserts) |-> upserts[n]]
  /\ DOMAIN sentinels = {IdOf(n) : n \in 1..Len(upserts)}
  /\ \A id \in DOMAIN sentinels : RowTells(id, sentinels[id])

LEMMA SentinelsInvInit == PartInit => SentinelsInv
<1> SUFFICES ASSUME PartInit PROVE SentinelsInv
  OBVIOUS
<1>1. sentinels = <<>> /\ upserts = <<>>
  BY DEF PartInit, Rules!GovernanceInit
<1>2. DOMAIN sentinels = {} /\ Len(upserts) = 0 /\ 1..Len(upserts) = {}
  BY <1>1
<1> QED
  BY <1>1, <1>2 DEF SentinelsInv

LEMMA SentinelsInvNext == SentinelsInv /\ (Rules!SentinelsNext \/ UNCHANGED <<sentinels, upserts>>) => SentinelsInv'
<1> SUFFICES ASSUME SentinelsInv, Rules!SentinelsNext \/ UNCHANGED <<sentinels, upserts>> PROVE SentinelsInv'
  OBVIOUS
<1>1. CASE UNCHANGED <<sentinels, upserts>>
  BY <1>1 DEF SentinelsInv, RowTells, IdOf, Rules!ToldOf
<1>2. ASSUME NEW w, NEW p, Rules!UpsertSentinel(w, p) PROVE SentinelsInv'
  <2>0. PICK N, key, row :
          N = Len(upserts) + 1 /\ key = Rules!SentinelID(p) /\ row = Rules!Upserted(sentinels, w, p)
    OBVIOUS
  <2>1. /\ sentinels' = [id \in DOMAIN sentinels \cup {key} |-> IF id = key THEN row ELSE sentinels[id]]
        /\ upserts' = Append(upserts, [workspace |-> w, of |-> p])
    BY <1>2, <2>0 DEF Rules!UpsertSentinel
  <2>2. N \in Nat \ {0} /\ Len(upserts) \in Nat /\ upserts \in Seq({upserts[n] : n \in 1..Len(upserts)})
    BY <2>0 DEF SentinelsInv
  <2>3. /\ Len(upserts') = N /\ upserts'[N] = [workspace |-> w, of |-> p]
        /\ \A n \in 1..Len(upserts) : upserts'[n] = upserts[n]
        /\ upserts' = [n \in 1..N |-> upserts'[n]]
    BY <2>0, <2>1, <2>2
  <2>4. \A id : Rules!ToldOf(id) = {n \in 1..Len(upserts) : IdOf(n) = id}
    BY DEF SentinelsInv, Rules!ToldOf, IdOf
  <2>5. \A id : Rules!ToldOf(id)' = {n \in 1..N : IdOf(n)' = id}
    BY <2>3 DEF Rules!ToldOf, IdOf
  <2>6. 1..N = (1..Len(upserts)) \cup {N} /\ N \notin 1..Len(upserts)
    BY <2>0, <2>2
  <2>7. IdOf(N)' = key /\ \A n \in 1..Len(upserts) : IdOf(n)' = IdOf(n)
    BY <2>0, <2>3 DEF IdOf
  <2>8. \A id : Rules!ToldOf(id)' = IF id = key THEN Rules!ToldOf(id) \cup {N} ELSE Rules!ToldOf(id)
    BY <2>4, <2>5, <2>6, <2>7
  <2>9. DOMAIN sentinels' = {IdOf(n)' : n \in 1..Len(upserts')}
    <3>1. DOMAIN sentinels' = {IdOf(n) : n \in 1..Len(upserts)} \cup {key}
      <4>1. DOMAIN sentinels' = DOMAIN sentinels \cup {key}
        BY <2>1
      <4>2. DOMAIN sentinels = {IdOf(n) : n \in 1..Len(upserts)}
        BY DEF SentinelsInv
      <4> QED
        BY <4>1, <4>2
    <3>2. {IdOf(n)' : n \in 1..N} = {IdOf(n) : n \in 1..Len(upserts)} \cup {key}
      BY <2>6, <2>7, ZenonT(20)
    <3> QED
      BY <2>3, <3>1, <3>2
  <2>10. \A id : \A n \in Rules!ToldOf(id) : n \in 1..Len(upserts) /\ n < N
    BY <2>0, <2>2, <2>4
  <2>11. ASSUME NEW id \in DOMAIN sentinels, id # key PROVE RowTells(id, sentinels[id])'
    <3>1. RowTells(id, sentinels[id]) /\ sentinels'[id] = sentinels[id] /\ Rules!ToldOf(id)' = Rules!ToldOf(id)
      <4>1. RowTells(id, sentinels[id])
        BY DEF SentinelsInv
      <4>2. sentinels'[id] = sentinels[id]
        BY <2>1, <2>11
      <4>3. Rules!ToldOf(id)' = Rules!ToldOf(id)
        BY <2>8, <2>11
      <4> QED
        BY <4>1, <4>2, <4>3
    <3> QED
      BY <2>3, <2>10, <3>1 DEF RowTells
  <2>12. RowTells(key, sentinels[key])'
    <3>1. sentinels'[key] = row /\ Rules!ToldOf(key)' = Rules!ToldOf(key) \cup {N}
      BY <2>1, <2>8
    <3>2. row.at = N /\ row.of = p
          /\ row.workspace = IF key \in DOMAIN sentinels THEN sentinels[key].workspace ELSE w
      BY <2>0 DEF Rules!Upserted
    <3>3. N <= N /\ \A n \in Rules!ToldOf(key) : n <= N
      BY <2>2, <2>10
    <3>4. \E n \in Rules!ToldOf(key) \cup {N} :
            row.workspace = upserts'[n].workspace /\ \A m \in Rules!ToldOf(key) \cup {N} : n <= m
      <4>1. CASE key \in DOMAIN sentinels
        <5>1. PICK n \in Rules!ToldOf(key) :
                sentinels[key].workspace = upserts[n].workspace /\ \A m \in Rules!ToldOf(key) : n <= m
          BY <4>1 DEF SentinelsInv, RowTells
        <5>2. n <= N /\ upserts'[n] = upserts[n]
          BY <2>2, <2>3, <2>10
        <5> QED
          BY <3>2, <4>1, <5>1, <5>2
      <4>2. CASE key \notin DOMAIN sentinels
        <5>1. Rules!ToldOf(key) = {}
          BY <2>4, <4>2 DEF SentinelsInv
        <5> QED
          BY <2>2, <2>3, <3>2, <4>2, <5>1
      <4> QED
        BY <4>1, <4>2
    <3> QED
      BY <2>3, <3>1, <3>2, <3>3, <3>4 DEF RowTells
  <2>13. \A id \in DOMAIN sentinels' : RowTells(id, sentinels[id])'
    BY <2>1, <2>11, <2>12
  <2>14. Len(upserts') \in Nat
    BY <2>2, <2>3
  <2> QED
    BY <2>3, <2>9, <2>13, <2>14 DEF SentinelsInv
<1> QED
  BY <1>1, <1>2 DEF Rules!SentinelsNext

LEMMA SentinelsInvTells == SentinelsInv => Rules!SentinelsWatch
<1> SUFFICES ASSUME SentinelsInv, NEW w \in Workspaces, NEW peer \in {"p", "q"}, NEW context \in SUBSET Rules!Words
             PROVE  LET warned == Rules!sentinelContextWarnings(w, peer, context)
                        due(id) == LET final == upserts[Rules!Max(Rules!ToldOf(id))].of IN
                                     /\ upserts[Rules!Min(Rules!ToldOf(id))].workspace = w
                                     /\ final.peer \in {"", peer} /\ ~({final.first, final.rest} \subseteq context)
                    IN /\ warned = {id \in {Rules!SentinelID(upserts[n].of) : n \in DOMAIN upserts} : due(id)}
                       /\ \A query \in SUBSET Rules!Words :
                            Rules!sentinelRecallWarnings(w, peer, query, context) \subseteq warned
  BY ZenonT(20) DEF Rules!SentinelsWatch
<1>1. DOMAIN sentinels = {Rules!SentinelID(upserts[n].of) : n \in DOMAIN upserts}
  BY DEF SentinelsInv, IdOf
<1>2. ASSUME NEW id \in DOMAIN sentinels
      PROVE  /\ upserts[Rules!Max(Rules!ToldOf(id))].of = sentinels[id].of
             /\ upserts[Rules!Min(Rules!ToldOf(id))].workspace = sentinels[id].workspace
  <2>1. \A n \in Rules!ToldOf(id) : n \in Nat
    BY DEF SentinelsInv, Rules!ToldOf
  <2>2. PICK n \in Rules!ToldOf(id) :
          sentinels[id].workspace = upserts[n].workspace /\ \A m \in Rules!ToldOf(id) : n <= m
    BY DEF SentinelsInv, RowTells
  <2>3. Rules!Min(Rules!ToldOf(id)) = n
    BY <2>1, <2>2 DEF Rules!Min
  <2>4. PICK k \in Rules!ToldOf(id) : sentinels[id].of = upserts[k].of /\ \A m \in Rules!ToldOf(id) : m <= k
    BY DEF SentinelsInv, RowTells
  <2>5. Rules!Max(Rules!ToldOf(id)) = k
    BY <2>1, <2>4 DEF Rules!Max
  <2> QED
    BY <2>2, <2>3, <2>4, <2>5
<1>3. \A id \in DOMAIN sentinels : Rules!ForPeer(sentinels[id], peer) <=> sentinels[id].of.peer \in {"", peer}
  BY ZenonT(20) DEF Rules!ForPeer
<1>4. Rules!sentinelContextWarnings(w, peer, context) =
        {id \in DOMAIN sentinels :
           /\ sentinels[id].workspace = w /\ Rules!ForPeer(sentinels[id], peer)
           /\ ~({sentinels[id].of.first, sentinels[id].of.rest} \subseteq context)}
  BY DEF Rules!sentinelContextWarnings, Rules!activeSentinels, Rules!Expected
<1>5. \A query : Rules!sentinelRecallWarnings(w, peer, query, context)
                   \subseteq Rules!sentinelContextWarnings(w, peer, context)
  BY DEF Rules!sentinelRecallWarnings, Rules!sentinelContextWarnings
<1> QED
  BY <1>1, <1>2, <1>3, <1>4, <1>5, ZenonT(40)

-----------------------------------------------------------------------------
\* Keys of scopes

LEMMA KeysStep ==
  /\ part = "keys" /\ [PartNext]_<<part, vars, graphVars, reviewVars, agentVars, importVars,
                                   watchVars, factVars, ruleVars>>
       => (part = "keys")' /\ (Rules!KeysNext \/ UNCHANGED issued)
  /\ ~(part = "keys") /\ [PartNext]_<<part, vars, graphVars, reviewVars, agentVars, importVars,
                                      watchVars, factVars, ruleVars>>
       => ~(part = "keys")'
BY DEF PartNext, ruleVars

\* A key as it was signed for what it was asked for with.
KeySigned(k) ==
  /\ k.asked \in AskedKeys /\ Rules!HasScope(k.asked)
  /\ k.key.signature = <<k.key.claims, k.asked.secret>>
  /\ k.key.claims.workspace = TrimmedNames[k.asked.workspace] /\ k.key.claims.peer = TrimmedNames[k.asked.peer]
  /\ k.key.claims.session = TrimmedNames[k.asked.session]
  /\ k.key.claims.expires = IF k.asked.expires = 0 THEN 0 ELSE Rules!RFC3339(k.asked.expires)
Blank(secret) == TrimmedNames[secret] = ""
KeysInv == \A k \in issued : KeySigned(k) /\ ~Blank(k.asked.secret)

LEMMA KeysInvInit == PartInit => KeysInv
BY DEF PartInit, Rules!GovernanceInit, KeysInv

LEMMA KeysInvNext == KeysInv /\ (Rules!KeysNext \/ UNCHANGED issued) => KeysInv'
<1> SUFFICES ASSUME KeysInv, Rules!KeysNext \/ UNCHANGED issued PROVE KeysInv'
  OBVIOUS
<1>1. CASE UNCHANGED issued
  BY <1>1 DEF KeysInv
<1>2. ASSUME NEW p \in AskedKeys, Rules!CreateScopedKey(p) PROVE KeysInv'
  <2>0. PICK k : k = [asked |-> p, key |-> Rules!sign(Rules!Claims(p), p.secret)]
    OBVIOUS
  <2>1. Rules!HasScope(p) /\ ~Blank(p.secret) /\ issued' = issued \cup {k}
    BY <1>2, <2>0, ZenonT(20) DEF Rules!CreateScopedKey, Blank
  <2>2. KeySigned(k) /\ k.asked = p
    BY <2>0, <2>1 DEF KeySigned, Rules!sign, Rules!signature, Rules!Claims
  <2> QED
    BY <2>1, <2>2 DEF KeysInv
<1> QED
  BY <1>1, <1>2 DEF Rules!KeysNext

LEMMA WholeSeconds ==
  ASSUME NEW t \in Nat
  PROVE  /\ Rules!RFC3339(t) \in Nat /\ Rules!RFC3339(t) <= t /\ t <= Rules!RFC3339(t) + 1
         /\ t >= 2 => Rules!RFC3339(t) >= 2
BY DEF Rules!RFC3339

\* What a key is good for.
Ended(ends, now) == ends # 0 /\ now >= ends
LEMMA GoodKeys ==
  ASSUME NEW key, NEW secret, NEW now
  PROVE  Rules!VerifyScopedKey(key, secret, now) = "" <=>
           ~Blank(secret) /\ key.signature = <<key.claims, secret>> /\ ~Ended(key.claims.expires, now)
<1>1. Rules!verifyExpiration(key.claims.expires, now) = "" <=> ~Ended(key.claims.expires, now)
  BY ZenonT(20) DEF Rules!verifyExpiration, Rules!isExpired, Ended
<1> QED
  BY <1>1, ZenonT(20) DEF Rules!VerifyScopedKey, Rules!signature, Blank

LEMMA KeysInvTells == KeysInv => Rules!KeysHold
<1> SUFFICES ASSUME KeysInv PROVE Rules!KeysHold
  OBVIOUS
<1>1. ASSUME NEW k \in issued, NEW secret \in DOMAIN TrimmedNames, NEW now \in 1..MaxTime
      PROVE  LET good == Rules!VerifyScopedKey(k.key, secret, now) = ""
             IN /\ good => secret = k.asked.secret /\ (k.asked.expires = 0 \/ now < k.asked.expires)
                /\ secret = k.asked.secret /\ (k.asked.expires = 0 \/ now + 1 < k.asked.expires) => good
  <2>0. PICK good \in BOOLEAN : good <=> Rules!VerifyScopedKey(k.key, secret, now) = ""
    BY ZenonT(20)
  <2>1. good <=> ~Blank(secret) /\ k.key.signature = <<k.key.claims, secret>> /\ ~Ended(k.key.claims.expires, now)
    BY <2>0, GoodKeys, ZenonT(20)
  <2>2. k.asked.expires \in Nat \ {1} /\ now \in Nat
    BY RulesAssumption DEF KeysInv, KeySigned
  <2>3. k.key.signature = <<k.key.claims, k.asked.secret>> /\ ~Blank(k.asked.secret)
    BY DEF KeysInv, KeySigned
  <2>4. good <=> secret = k.asked.secret /\ ~Ended(k.key.claims.expires, now)
    BY <2>1, <2>3
  <2>5. k.key.claims.expires = IF k.asked.expires = 0 THEN 0 ELSE Rules!RFC3339(k.asked.expires)
    BY DEF KeysInv, KeySigned
  <2>6. /\ ~Ended(k.key.claims.expires, now) => k.asked.expires = 0 \/ now < k.asked.expires
        /\ (k.asked.expires = 0 \/ now + 1 < k.asked.expires) => ~Ended(k.key.claims.expires, now)
    BY <2>2, <2>5, WholeSeconds DEF Ended
  <2> QED
    BY <2>0, <2>4, <2>6, ZenonT(20)
<1>2. ASSUME NEW k \in issued
      PROVE  \E scope \in {k.key.claims.workspace, k.key.claims.peer, k.key.claims.session} : scope # ""
  <2>1. KeySigned(k)
    BY DEF KeysInv
  <2> QED
    BY <2>1, ZenonT(20) DEF KeySigned, Rules!HasScope
<1>3. ASSUME NEW raw
      PROVE  Rules!ServerModeCapabilityReport(raw).leases
               <=> Rules!requireDistributedServerMode(Rules!normalizeServerMode(raw))
  BY RulesAssumption DEF Rules!ServerModeCapabilityReport, Rules!requireDistributedServerMode,
                         Rules!normalizeServerMode
<1>4. ASSUME NEW actor, NEW s, NEW t, Rules!SameScope(actor, s), Rules!SameScope(actor, t)
      PROVE  s.profile = t.profile /\ (actor.workspace # "" => s = t)
  <2>1. Rules!NormalizeActorScope(actor, s) = s /\ Rules!NormalizeActorScope(actor, t) = t
    BY <1>4 DEF Rules!SameScope
  <2>2. ASSUME NEW x PROVE Rules!NormalizeActorScope(actor, x).profile = actor.profile
    BY ZenonT(20) DEF Rules!NormalizeActorScope
  <2>3. ASSUME actor.workspace # "", NEW x
        PROVE  Rules!NormalizeActorScope(actor, x) = [workspace |-> actor.workspace, profile |-> actor.profile]
    BY <2>3, ZenonT(20) DEF Rules!NormalizeActorScope
  <2> QED
    BY <2>1, <2>2, <2>3, ZenonT(20)
<1> QED
  BY <1>1, <1>2, <1>3, <1>4, ZenonT(40) DEF Rules!KeysHold

\* A subject has one open item unless two clients looked before either made one, and an item
\* one resolution, told or not (negative_evidence_candidates.go:92, log.go:146-161); the two
\* forms of a read check agree (policy.go:101-186); a proposal is decided once, whether its
\* row is read back or not, listed until then and not afterwards (proposals.go:108-234); a
\* sentinel is watched for as it was told last
\* (sentinels_facets.go:78-157); a key opens for its own secret until it ends, the report of a
\* server mode is what is served, and an actor has one profile (scopedkey.go:48-124,
\* server_mode.go:14-30, scope.go:13-23).
THEOREM ReviewsAreSettled == PartSpec => []ReviewsSettle
<1>1. PartSpec => [](part = "reviews" => (Log!OneOpenItem /\ Log!ResolvedOnce))
  <2>1. PartSpec /\ part = "reviews" => [](Log!OneOpenItem /\ Log!ResolvedOnce)
    BY ReviewsInit, ReviewsStep, ReviewsInvInit, ReviewsInvNext, ReviewsInvTells, PTL DEF PartSpec
  <2>2. PartSpec /\ ~(part = "reviews") => []~(part = "reviews")
    BY ReviewsStep, PTL DEF PartSpec
  <2> QED
    BY <2>1, <2>2, PTL
<1>2. PartSpec => [](part = "access" => Rules!AccessAgrees)
  <2>1. PartSpec /\ part = "access" => []Rules!AccessAgrees
    BY AccessStep, AccessInvInit, AccessInvNext, AccessInvTells, PTL DEF PartSpec
  <2>2. PartSpec /\ ~(part = "access") => []~(part = "access")
    BY AccessStep, PTL DEF PartSpec
  <2> QED
    BY <2>1, <2>2, PTL
<1>3. PartSpec => [](part = "proposals" => Rules!DecidedOnce)
  <2>1. PartSpec /\ part = "proposals" => []Rules!DecidedOnce
    BY ProposalsStep, ProposalsInvInit, ProposalsInvNext, ProposalsInvTells, PTL DEF PartSpec
  <2>2. PartSpec /\ ~(part = "proposals") => []~(part = "proposals")
    BY ProposalsStep, PTL DEF PartSpec
  <2> QED
    BY <2>1, <2>2, PTL
<1>4. PartSpec => [](part = "sentinels" => Rules!SentinelsWatch)
  <2>1. PartSpec /\ part = "sentinels" => []Rules!SentinelsWatch
    BY SentinelsStep, SentinelsInvInit, SentinelsInvNext, SentinelsInvTells, PTL DEF PartSpec
  <2>2. PartSpec /\ ~(part = "sentinels") => []~(part = "sentinels")
    BY SentinelsStep, PTL DEF PartSpec
  <2> QED
    BY <2>1, <2>2, PTL
<1>5. PartSpec => [](part = "keys" => Rules!KeysHold)
  <2>1. PartSpec /\ part = "keys" => []Rules!KeysHold
    BY KeysStep, KeysInvInit, KeysInvNext, KeysInvTells, PTL DEF PartSpec
  <2>2. PartSpec /\ ~(part = "keys") => []~(part = "keys")
    BY KeysStep, PTL DEF PartSpec
  <2> QED
    BY <2>1, <2>2, PTL
<1>6. /\ part = "reviews" => Log!OneOpenItem /\ Log!ResolvedOnce
      /\ part = "access" => Rules!AccessAgrees
      /\ part = "proposals" => Rules!DecidedOnce
      /\ part = "sentinels" => Rules!SentinelsWatch
      /\ part = "keys" => Rules!KeysHold
      => ReviewsSettle
  BY DEF ReviewsSettle
<1> QED
  BY <1>1, <1>2, <1>3, <1>4, <1>5, <1>6, PTL
=============================================================================
