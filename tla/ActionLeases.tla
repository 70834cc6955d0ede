---------------------------- MODULE ActionLeases ----------------------------
(***************************************************************************)
(* service/action_leases.go: leases on actions, with an audit log written  *)
(* in the same transaction.  A call reads its clock first and waits for    *)
(* the one database connection afterwards, so its "now" is old by the time *)
(* its transaction runs.                                                   *)
(***************************************************************************)
EXTENDS Integers, Sequences, FiniteSets

CONSTANTS
  Clients,              \* goroutines calling the lease API of a team-enabled server
  Owners, OwnerOf,      \* the owner each client names in its calls
  Actions, KnownActions,
  TTLs,                 \* requested lifetimes, in nanoseconds
  MaxInt,               \* the largest int64
  MaxClock, MaxAudit    \* bounds

ASSUME LeaseAssumption ==
  /\ OwnerOf \in [Clients -> Owners]
  /\ KnownActions \subseteq Actions
  /\ IsFiniteSet(Actions) /\ TTLs \subseteq Nat
  /\ MaxInt \in Nat /\ MaxClock \in 1..MaxInt /\ MaxAudit \in Nat

VARIABLES
  clock,                \* time.Now().UnixNano()
  leases,               \* goncho_action_leases, by action
  audit,                \* goncho_action_lease_audit, by id
  call,                 \* the call each client is in
  promised              \* history: until when a client was last told it holds an action

vars == <<clock, leases, audit, call, promised>>

-----------------------------------------------------------------------------
\* Types

Times == 1..MaxInt
NoLease == [owner |-> "none"]
Idle == [op |-> "idle"]

Lease == [owner : Owners, acquired : Times, renewed : Times, expires : Times]
Event == [action : Actions, actor : Owners, expires : 0..MaxInt, created : Times,
          decision : {"acquired", "held_by_other", "renewed", "expired"}]
Call == [op : {"acquire", "renew"}, action : Actions, ttl : Nat, now : Times]
ExpireCall == [op : {"expire"}, actions : SUBSET Actions, now : Times]

TypeOK ==
  /\ clock \in 1..MaxClock
  /\ leases \in [Actions -> Lease \cup {NoLease}]
  /\ audit \in Seq(Event)
  /\ call \in [Clients -> Call \cup ExpireCall \cup {Idle}]
  /\ promised \in [Clients -> [Actions -> 0..MaxInt]]

Init ==
  /\ clock = 1
  /\ leases = [a \in Actions |-> NoLease]
  /\ audit = <<>>
  /\ call = [c \in Clients |-> Idle]
  /\ promised = [c \in Clients |-> [a \in Actions |-> 0]]

-----------------------------------------------------------------------------
\* Helpers

\* Mutant: an expiry past the largest int64 is accepted and wraps around.
NeverOverflows(now, ttl) == ttl > 0

\* actionLeaseExpiresAt succeeds.
ExpiryFits(now, ttl) == ttl > 0 /\ now <= MaxInt - ttl

ExpiresAt(now, ttl) == IF now + ttl > MaxInt THEN now + ttl - 2 * MaxInt - 2 ELSE now + ttl

\* Mutant: only the lease's owner is compared, its expiry twice.
HeldUntilRenewal(l, owner, now) == l # NoLease /\ l.renewed > now /\ l.owner # owner

\* An unexpired lease of another owner.
HeldByOther(l, owner, now) == l # NoLease /\ l.expires > now /\ l.owner # owner

\* Mutant: the acquisition survives a lapse.
AcquiredAtFirst(l, owner, now) == IF l # NoLease /\ l.owner = owner THEN l.acquired ELSE now

\* actionLeaseAcquiredAt: an owner's unexpired lease keeps its acquisition.
AcquiredAt(l, owner, now) ==
  IF l # NoLease /\ l.owner = owner /\ l.expires > now THEN l.acquired ELSE now

\* Mutant: the audit records the lease as it was before the renewal.
AuditOld(old, new) == old.expires
RenewedUntil(old, new) == new.expires

Record(a, actor, decision, expires, now) ==
  audit' = Append(audit, [action |-> a, actor |-> actor, decision |-> decision,
                          expires |-> expires, created |-> now])

Return(c) == call' = [call EXCEPT ![c] = Idle]

\* What a client knows after its call: the expiry it was granted, or nothing.
Told(c, a, until) == promised' = [promised EXCEPT ![c][a] = until]

-----------------------------------------------------------------------------
\* AcquireActionLease and RenewActionLease

Begin(c, op, a, ttl) ==
  /\ call[c] = Idle
  /\ ttl > 0
  /\ op = "acquire" => ExpiryFits(clock, ttl)
  /\ call' = [call EXCEPT ![c] = [op |-> op, action |-> a, ttl |-> ttl, now |-> clock]]
  /\ UNCHANGED <<clock, leases, audit, promised>>

\* The transaction takes the lease unless another owner's is unexpired.
AcquireTx(c) ==
  LET k == call[c]  a == k.action  owner == OwnerOf[c]
      old == leases[a]
      new == [owner |-> owner, acquired |-> AcquiredAt(old, owner, k.now),
              renewed |-> k.now, expires |-> ExpiresAt(k.now, k.ttl)]
  IN
  /\ k.op = "acquire"
  /\ a \in KnownActions
  /\ Len(audit) < MaxAudit
  /\ \/ /\ HeldByOther(old, owner, k.now)
        /\ Record(a, owner, "held_by_other", old.expires, k.now)
        /\ Told(c, a, 0)
        /\ UNCHANGED leases
     \/ /\ ~HeldByOther(old, owner, k.now)
        /\ leases' = [leases EXCEPT ![a] = new]
        /\ Record(a, owner, "acquired", new.expires, k.now)
        /\ Told(c, a, new.expires)
  /\ Return(c)
  /\ UNCHANGED clock

\* The transaction renews the client's own unexpired lease.
RenewTx(c) ==
  LET k == call[c]  a == k.action  owner == OwnerOf[c]
      old == leases[a]
      live == old # NoLease /\ old.expires > k.now
      new == [old EXCEPT !.renewed = k.now, !.expires = ExpiresAt(k.now, k.ttl)]
  IN
  /\ k.op = "renew"
  /\ a \in KnownActions
  /\ Len(audit) < MaxAudit
  /\ \/ /\ ~live
        /\ Record(a, owner, "expired", 0, k.now)
        /\ Told(c, a, 0)
        /\ UNCHANGED leases
     \/ /\ live /\ old.owner # owner
        /\ Record(a, owner, "held_by_other", old.expires, k.now)
        /\ Told(c, a, 0)
        /\ UNCHANGED leases
     \/ /\ live /\ old.owner = owner /\ ExpiryFits(k.now, k.ttl)
        /\ leases' = [leases EXCEPT ![a] = new]
        /\ Record(a, owner, "renewed", RenewedUntil(old, new), k.now)
        /\ Told(c, a, new.expires)
  /\ Return(c)
  /\ UNCHANGED clock

-----------------------------------------------------------------------------
\* ExpireActionLeases

BeginExpire(c, as) ==
  /\ call[c] = Idle
  /\ call' = [call EXCEPT ![c] = [op |-> "expire", actions |-> as, now |-> clock]]
  /\ UNCHANGED <<clock, leases, audit, promised>>

Expired(as, now) == {a \in as : leases[a] # NoLease /\ leases[a].expires <= now}

\* The order its query gives the expired leases: by expiry, then by action.
InExpiryOrder(as) ==
  {order \in [1..Cardinality(as) -> as] :
     /\ \A i, j \in DOMAIN order : i # j => order[i] # order[j]
     /\ \A i, j \in DOMAIN order : i < j => leases[order[i]].expires <= leases[order[j]].expires}

ExpireTx(c) ==
  LET k == call[c]  gone == Expired(k.actions, k.now) IN
  /\ k.op = "expire"
  /\ Len(audit) + Cardinality(gone) <= MaxAudit
  /\ leases' = [a \in Actions |-> IF a \in gone THEN NoLease ELSE leases[a]]
  /\ \E order \in InExpiryOrder(gone) :
       audit' = audit \o [i \in 1..Cardinality(gone) |->
         LET a == order[i] IN
         [action |-> a, actor |-> leases[a].owner, decision |-> "expired",
          expires |-> leases[a].expires, created |-> k.now]]
  /\ Return(c)
  /\ UNCHANGED <<clock, promised>>

-----------------------------------------------------------------------------
\* An unknown action, an expiry that overflows, or a failing statement: the
\* transaction is rolled back and the call returns the error.
Rollback(c) ==
  /\ call[c] # Idle
  /\ Return(c)
  /\ UNCHANGED <<clock, leases, audit, promised>>

Tick ==
  /\ clock < MaxClock
  /\ clock' = clock + 1
  /\ UNCHANGED <<leases, audit, call, promised>>

ClientStep(c) ==
  \/ \E op \in {"acquire", "renew"}, a \in Actions, ttl \in TTLs : Begin(c, op, a, ttl)
  \/ \E as \in {Actions} \cup {{a} : a \in Actions} : BeginExpire(c, as)
  \/ AcquireTx(c) \/ RenewTx(c) \/ ExpireTx(c) \/ Rollback(c)

Next == Tick \/ \E c \in Clients : ClientStep(c)

Spec == Init /\ [][Next]_vars

-----------------------------------------------------------------------------
\* Properties

\* A client that was granted an action and whose lease has not run out is
\* still its owner in the table, for at least that long, whatever older
\* clocks the other calls carry (AcquireActionLease, action_leases.go:125-163,
\* ExpireActionLeases, :247-260).
PromiseKept ==
  \A c \in Clients, a \in Actions :
    promised[c][a] > clock =>
      /\ leases[a] # NoLease
      /\ leases[a].owner = OwnerOf[c]
      /\ leases[a].expires >= promised[c][a]

\* No two owners may both believe they hold an action
\* (TestActionLeaseConcurrentAcquireAllowsOnlyOneOwner,
\* action_leases_test.go:58, at every later time).
ExclusiveHold ==
  \A c, d \in Clients, a \in Actions :
    promised[c][a] > clock /\ promised[d][a] > clock => OwnerOf[c] = OwnerOf[d]

\* The audit entries that changed the lease of an action; a missed renewal
\* is recorded with no expiry.
Changes(a) == {i \in DOMAIN audit : /\ audit[i].action = a
                                    /\ \/ audit[i].decision \in {"acquired", "renewed"}
                                       \/ audit[i].decision = "expired" /\ audit[i].expires > 0}

\* Replaying the audit log gives the lease table: the transaction of every
\* change writes both (action_leases.go:163-170, 226-233, 259-268).
AuditExplainsLeases ==
  \A a \in Actions :
    \/ leases[a] = NoLease
       /\ \A i \in Changes(a) : (\A j \in Changes(a) : j <= i) => audit[i].decision = "expired"
    \/ leases[a] # NoLease
       /\ \E i \in Changes(a) :
            /\ \A j \in Changes(a) : j <= i
            /\ audit[i].decision \in {"acquired", "renewed"}
            /\ audit[i].actor = leases[a].owner /\ audit[i].expires = leases[a].expires

\* acquired_at is the start of the owner's unbroken hold: since then the audit
\* shows only its own acquisitions and renewals, each before the one before
\* ran out (actionLeaseAcquiredAt, action_leases.go:318-323).
UnbrokenTenure ==
  \A a \in Actions : leases[a] # NoLease =>
    \E i \in Changes(a) :
      /\ audit[i].decision = "acquired" /\ audit[i].created = leases[a].acquired
      /\ \A j \in Changes(a) : j >= i =>
           audit[j].actor = leases[a].owner /\ audit[j].decision # "expired"
      /\ \A j, k \in Changes(a) :
           i <= j /\ j < k /\ (\A m \in Changes(a) : m <= j \/ m >= k)
           => audit[k].created < audit[j].expires
=============================================================================
