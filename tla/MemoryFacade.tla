---------------------------- MODULE MemoryFacade ----------------------------
(***************************************************************************)
(* service/memory_facade.go: add, update and delete of one memory of a     *)
(* user, kept as the JSON of an envelope in a memory slot. A call reads    *)
(* the memory (Get), has the slot written by the calls of MemorySlots, and *)
(* then observes what changed: three steps, with no transaction and no     *)
(* lock over them. The slot is reached through the facade only.            *)
(***************************************************************************)
EXTENDS MemorySlots, FiniteSetTheorems, SequenceTheorems, TLAPS

VARIABLES
  facade,    \* the facade's call of each client, around its call of the slot
  history,   \* the observations of recordMemoryHistory, in order
  untold     \* history: writes whose event failed

facadeVars == <<facade, history, untold>>
allVars == <<vars, facadeVars>>

Outside == [at |-> "outside"]
NoContent == "none"

Event == [action : {"add", "update", "delete"}, previous : Texts \cup {NoContent},
          next : Texts \cup {NoContent}, revision : 1..MaxWrites, write : 1..MaxWrites,
          read : 0..MaxWrites]

FacadeTypeOK ==
  /\ TypeOK
  /\ \A c \in Clients : facade[c].at \in {"outside", "got", "writing", "told"}
  /\ history \in Seq(Event)
  /\ untold \subseteq DOMAIN log

FacadeInit == Init /\ facade = [c \in Clients |-> Outside] /\ history = <<>> /\ untold = {}

\* The content of the envelope in a row.
Content(r) == IF r = NoRow THEN NoContent ELSE Head(r.value)

\* MemoryFacade.Get: an absent or deleted slot is ErrMemoryNotFound.
Get(c, action, text) ==
  /\ facade[c] = Outside /\ Live
  /\ facade' = [facade EXCEPT ![c] = [at |-> "got", action |-> action, text |-> text,
                                      old |-> Content(row), read |-> Len(log)]]
  /\ UNCHANGED <<vars, history, untold>>

\* The slot's call starts; a slot that has gone meanwhile ends both calls.
SlotCall(c, op, text, action, old, read) ==
  /\ \/ /\ \/ op = "create" /\ CreateMemorySlot(c, text)
           \/ op = "replace" /\ ReplaceMemorySlot(c, text)
           \/ op = "delete" /\ DeleteMemorySlot(c)
        /\ facade' = [facade EXCEPT ![c] = [at |-> "writing", action |-> action, text |-> text,
                                            old |-> old, read |-> read]]
     \/ /\ op # "create" /\ ~Live
        /\ facade' = [facade EXCEPT ![c] = Outside]
        /\ UNCHANGED vars
  /\ UNCHANGED <<history, untold>>

Unclaimed(t) == \A c \in Clients : facade[c].at = "got" => facade[c].text # t

Add(c, t) ==
  /\ facade[c] = Outside /\ Unclaimed(t)
  /\ SlotCall(c, "create", t, "add", NoContent, Len(log))

Update(c, t) == Unused(t) /\ Unclaimed(t) /\ Get(c, "update", t)

Delete(c) == Get(c, "delete", NoContent)

Write(c) ==
  /\ facade[c].at = "got"
  /\ SlotCall(c, IF facade[c].action = "update" THEN "replace" ELSE "delete",
              facade[c].text, facade[c].action, facade[c].old, facade[c].read)

\* The slot's upsert, or its failure, which is the facade's.
SlotStep(c) ==
  /\ facade[c].at = "writing"
  /\ \/ Upsert(c) /\ UNCHANGED facade
     \/ UpsertFails(c) /\ facade' = [facade EXCEPT ![c] = Outside]
  /\ UNCHANGED <<history, untold>>

\* The slot's observation; when it fails the write stays and has no event.
SlotAudited(c) ==
  /\ facade[c].at = "writing" /\ AuditMemorySlot(c)
  /\ IF lost' # lost
     THEN facade' = [facade EXCEPT ![c] = Outside] /\ untold' = untold \cup {call[c].write}
     ELSE /\ facade' = [facade EXCEPT ![c] =
                          [at |-> "told", action |-> @.action, text |-> @.text, old |-> @.old,
                           revision |-> call[c].revision, write |-> call[c].write,
                           read |-> @.read]]
          /\ UNCHANGED untold
  /\ UNCHANGED history

\* Mutant: the previous content is read once the slot is written.
OldFromSlot(c) == Content(row)
Old(c) == facade[c].old

EventOf(c) ==
  [action |-> facade[c].action, previous |-> Old(c), next |-> facade[c].text,
   revision |-> facade[c].revision, write |-> facade[c].write, read |-> facade[c].read]

\* recordMemoryHistory, the call's last step; its failure leaves the write.
Record(c) ==
  /\ facade[c].at = "told"
  /\ \/ history' = Append(history, EventOf(c)) /\ UNCHANGED untold
     \/ untold' = untold \cup {facade[c].write} /\ UNCHANGED history
  /\ facade' = [facade EXCEPT ![c] = Outside]
  /\ UNCHANGED vars

FacadeNext ==
  \E c \in Clients :
    \/ \E t \in Texts : Add(c, t) \/ Update(c, t)
    \/ Delete(c) \/ Write(c) \/ SlotStep(c) \/ SlotAudited(c) \/ Record(c)

FacadeSpec == FacadeInit /\ [][FacadeNext]_allVars

-----------------------------------------------------------------------------
\* Properties

Before(i) == IF i = 1 THEN NoRow ELSE log[i - 1].row

\* The history names each write once and says what it replaced: the content
\* before it, unless another write came between the call's Get and its own
\* (memory_facade.go:165-178 and 190-205). What no event names is under way,
\* or was told to its caller as an error.
HistoryTellsWrites ==
  /\ \A i \in DOMAIN history : LET e == history[i] IN
       /\ e.next = (IF e.action = "delete" THEN NoContent ELSE Content(log[e.write].row))
       /\ \/ e.action = "add"
          \/ e.previous = Content(Before(e.write))
          \/ e.read < e.write - 1
       /\ \A j \in DOMAIN history : history[j].write = e.write => i = j
  /\ \A w \in DOMAIN log :
       \/ \E i \in DOMAIN history : history[i].write = w
       \/ w \in untold
       \/ \E c \in Clients : \/ facade[c].at = "told" /\ facade[c].write = w
                             \/ call[c].at = "audit" /\ call[c].write = w

-----------------------------------------------------------------------------
\* Proofs, for any clients, texts and number of writes

Rows == [value : Seq(Texts), revision : Nat, deleted : BOOLEAN]
Written == [op : Ops, text : Texts \cup {NoText}, row : Rows, seen : Nat]

\* A write is computed from the row it has seen, which is not deleted unless it creates.
ComputedFrom(w, r) ==
  /\ w.op = "create" => w.row.value = <<w.text>>
  /\ w.op = "append" => w.row.value = Append(r.value, w.text) /\ w.text \in Texts
  /\ w.op = "replace" => w.row.value = <<w.text>>
  /\ w.op = "delete" => w.row.value = r.value /\ w.row.deleted
  /\ w.op # "create" => w.seen > 0 /\ ~r.deleted /\ w.row.revision = r.revision + 1

\* The row is the one written last, and every write is computed from the one it has seen.
Computed ==
  /\ log \in Seq(Written) /\ row \in Rows
  /\ log = <<>> => row = NoRow
  /\ log # <<>> => row = log[Len(log)].row
  /\ \A n \in DOMAIN log : log[n].seen < n /\ ComputedFrom(log[n], log[log[n].seen].row)
  /\ call = [c \in Clients |-> call[c]]
  /\ \A c \in Clients : call[c].at = "write" =>
       /\ call[c].op \in Ops /\ call[c].text \in Texts \cup {NoText} /\ call[c].row \in Rows
       /\ call[c].seen \in 0..Len(log)
       /\ ComputedFrom(call[c], log[call[c].seen].row)

\* A call that has read the last row of a slot computes its own from it.
LEMMA ReadComputes ==
  ASSUME Computed, NEW c \in Clients, NEW op \in Ops, NEW text \in Texts \cup {NoText}, NEW next \in Rows,
         Read(c, op, text, next),
         ComputedFrom([op |-> op, text |-> text, row |-> next, seen |-> Len(log)], row),
         op # "create" => Live
  PROVE  Computed'
<1> DEFINE w == [at |-> "write", op |-> op, text |-> text, row |-> next, seen |-> Len(log)]
<1>1. /\ call' = [d \in Clients |-> call'[d]] /\ call'[c] = w
      /\ \A d \in Clients \ {c} : call'[d] = call[d]
      /\ row' = row /\ log' = log
  BY DEF Read, Computed
<1>2. Len(log) \in Nat /\ (op # "create" => log # <<>>)
  BY DEF Computed, Live
<1>3. op # "create" => row = log[Len(log)].row
  BY <1>2 DEF Computed
<1>4. ComputedFrom(w, log[w.seen].row)
  BY <1>3 DEF ComputedFrom, Ops
<1>5. \A d \in Clients : call'[d].at = "write" =>
       /\ call'[d].op \in Ops /\ call'[d].text \in Texts \cup {NoText} /\ call'[d].row \in Rows
       /\ call'[d].seen \in 0..Len(log)
       /\ ComputedFrom(call'[d], log[call'[d].seen].row)
  <2> TAKE d \in Clients
  <2>1. CASE d = c
    BY <1>1, <1>2, <1>4, <2>1
  <2>2. CASE d # c
    BY <1>1, <2>2 DEF Computed
  <2> QED
    BY <2>1, <2>2
<1> QED
  BY <1>1, <1>5 DEF Computed

\* What a write is computed from does not change with the writes that follow.
LEMMA StillComputed ==
  ASSUME log \in Seq(Written), NEW x \in Written, NEW w, w.seen \in 0..Len(log),
         ComputedFrom(w, log[w.seen].row)
  PROVE  ComputedFrom(w, Append(log, x)[w.seen].row)
<1>1. CASE w.seen = 0
  BY <1>1 DEF ComputedFrom
<1>2. CASE w.seen # 0
  <2>1. Append(log, x)[w.seen] = log[w.seen]
    BY <1>2
  <2> QED
    BY <2>1
<1> QED
  BY <1>1, <1>2

\* A row written over the slot's: it was computed when the call read the slot.
LEMMA UpsertComputes ==
  ASSUME Computed, NEW c \in Clients, Upsert(c)
  PROVE  Computed'
<1> DEFINE w == [op |-> call[c].op, text |-> call[c].text, row |-> call[c].row,
                 seen |-> call[c].seen]
<1>1. /\ log' = Append(log, w) /\ row' = w.row
      /\ call' = [d \in Clients |-> call'[d]] /\ call'[c].at = "audit"
      /\ \A d \in Clients \ {c} : call'[d] = call[d]
  BY DEF Upsert, Stored, Computed
<1>2. /\ log \in Seq(Written) /\ w \in Written /\ w.seen \in 0..Len(log)
      /\ ComputedFrom(w, log[w.seen].row)
  BY SMTT(30) DEF Upsert, Computed, ComputedFrom, Written
<1>3. /\ log' \in Seq(Written) /\ Len(log') = Len(log) + 1 /\ log'[Len(log')] = w
      /\ \A n \in DOMAIN log : log'[n] = log[n]
      /\ DOMAIN log' = 1..Len(log) + 1 /\ DOMAIN log = 1..Len(log) /\ Len(log) \in Nat
  BY <1>1, <1>2
<1>4. \A n \in DOMAIN log' : log'[n].seen < n /\ ComputedFrom(log'[n], log'[log'[n].seen].row)
  <2> TAKE n \in DOMAIN log'
  <2>1. CASE n = Len(log')
    <3>1. ComputedFrom(w, Append(log, w)[w.seen].row)
      BY <1>2, StillComputed
    <3>2. log'[n] = w /\ w.seen < n
      BY <1>2, <1>3, <2>1
    <3> QED
      BY <1>1, <3>1, <3>2
  <2>2. CASE n # Len(log')
    <3>1. n \in DOMAIN log /\ log'[n] = log[n]
      BY <1>3, <2>2
    <3>2. log[n] \in Written /\ log[n].seen < n /\ ComputedFrom(log[n], log[log[n].seen].row)
      BY <1>2, <1>3, <3>1 DEF Computed
    <3>3. log[n].seen \in 0..Len(log)
      BY <1>3, <3>1, <3>2 DEF Written
    <3> QED
      BY <1>1, <1>2, <3>1, <3>2, <3>3, StillComputed
  <2> QED
    BY <2>1, <2>2
<1>5. \A d \in Clients : call'[d].at = "write" =>
       /\ call'[d].op \in Ops /\ call'[d].text \in Texts \cup {NoText} /\ call'[d].row \in Rows
       /\ call'[d].seen \in 0..Len(log')
       /\ ComputedFrom(call'[d], log'[call'[d].seen].row)
  <2> SUFFICES ASSUME NEW d \in Clients, call'[d].at = "write"
               PROVE  /\ call'[d].op \in Ops /\ call'[d].text \in Texts \cup {NoText}
                      /\ call'[d].row \in Rows
                      /\ call'[d].seen \in 0..Len(log')
                      /\ ComputedFrom(call'[d], log'[call'[d].seen].row)
    OBVIOUS
  <2>1. d # c /\ call'[d] = call[d]
    BY <1>1
  <2>2. /\ call[d].op \in Ops /\ call[d].text \in Texts \cup {NoText} /\ call[d].row \in Rows
        /\ call[d].seen \in 0..Len(log) /\ ComputedFrom(call[d], log[call[d].seen].row)
    BY <2>1 DEF Computed
  <2>3. ComputedFrom(call[d], log'[call[d].seen].row)
    BY <1>1, <1>2, <2>2, StillComputed
  <2> QED
    BY <1>3, <2>1, <2>2, <2>3
<1>6. log' # <<>> /\ row' = log'[Len(log')].row /\ row' \in Rows
  BY <1>1, <1>2, <1>3 DEF Written
<1> QED
  BY <1>1, <1>3, <1>4, <1>5, <1>6 DEF Computed

\* The calls that read keep the log, and their rows are computed from the slot's.
LEMMA Reads ==
  ASSUME Computed, NEW c \in Clients,
         \/ \E t \in Texts : \/ CreateMemorySlot(c, t) \/ AppendMemorySlot(c, t)
                             \/ ReplaceMemorySlot(c, t)
         \/ DeleteMemorySlot(c)
  PROVE  Computed' /\ UNCHANGED <<row, log>>
<1> USE DEF Rows, Ops
<1>0. /\ row \in Rows /\ Len(log) \in Nat
      /\ Live => ~row.deleted /\ Len(log) > 0
  BY DEF Computed, Live
<1>9. ASSUME NEW v \in Seq(Texts), NEW b \in BOOLEAN
      PROVE  /\ Revised(v, b) \in Rows /\ Revised(v, b).value = v
             /\ Revised(v, b).revision = row.revision + 1 /\ Revised(v, b).deleted = b
  BY <1>0 DEF Revised
<1>1. ASSUME NEW t \in Texts, CreateMemorySlot(c, t)
      PROVE  Computed' /\ UNCHANGED <<row, log>>
  <2>1. NewSlot(t) \in Rows /\ NewSlot(t).value = <<t>>
    BY DEF NewSlot
  <2>2. ComputedFrom([op |-> "create", text |-> t, row |-> NewSlot(t), seen |-> Len(log)], row)
    BY <2>1 DEF ComputedFrom
  <2> QED
    BY <1>1, <2>1, <2>2, ReadComputes DEF CreateMemorySlot, Read
<1>2. ASSUME NEW t \in Texts, AppendMemorySlot(c, t)
      PROVE  Computed' /\ UNCHANGED <<row, log>>
  <2> DEFINE r == Revised(Append(row.value, t), FALSE)
  <2>1. Append(row.value, t) \in Seq(Texts)
    BY <1>0
  <2>2. Live /\ Read(c, "append", t, r)
    BY <1>2 DEF AppendMemorySlot
  <2>3. ComputedFrom([op |-> "append", text |-> t, row |-> r, seen |-> Len(log)], row)
    BY <1>0, <1>9, <2>1, <2>2 DEF ComputedFrom
  <2> QED
    BY <1>9, <2>1, <2>2, <2>3, ReadComputes DEF Read
<1>3. ASSUME NEW t \in Texts, ReplaceMemorySlot(c, t)
      PROVE  Computed' /\ UNCHANGED <<row, log>>
  <2> DEFINE r == Revised(<<t>>, FALSE)
  <2>1. <<t>> \in Seq(Texts)
    OBVIOUS
  <2>2. Live /\ Read(c, "replace", t, r)
    BY <1>3 DEF ReplaceMemorySlot
  <2>3. ComputedFrom([op |-> "replace", text |-> t, row |-> r, seen |-> Len(log)], row)
    BY <1>0, <1>9, <2>1, <2>2 DEF ComputedFrom
  <2> QED
    BY <1>9, <2>1, <2>2, <2>3, ReadComputes DEF Read
<1>4. ASSUME DeleteMemorySlot(c)
      PROVE  Computed' /\ UNCHANGED <<row, log>>
  <2>1. row.value \in Seq(Texts)
    BY <1>0
  <2>2. Live /\ Read(c, "delete", NoText, Tombstone)
    BY <1>4 DEF DeleteMemorySlot
  <2>3. ComputedFrom([op |-> "delete", text |-> NoText, row |-> Tombstone, seen |-> Len(log)], row)
    BY <1>0, <1>9, <2>1, <2>2 DEF ComputedFrom, Tombstone
  <2> QED
    BY <1>9, <2>1, <2>2, <2>3, ReadComputes DEF Read, Tombstone
<1> QED
  BY <1>1, <1>2, <1>3, <1>4

\* A step writes one row, computed before, or none.
LEMMA OneWrite ==
  ASSUME Computed, [Next]_vars
  PROVE  /\ Computed'
         /\ \/ UNCHANGED <<row, log>>
            \/ \E w \in Written : log' = Append(log, w) /\ row' = w.row
<1>1. ASSUME NEW c \in Clients, Upsert(c)
      PROVE  Computed' /\ \E w \in Written : log' = Append(log, w) /\ row' = w.row
  <2> DEFINE w == [op |-> call[c].op, text |-> call[c].text, row |-> call[c].row,
                   seen |-> call[c].seen]
  <2>1. w \in Written /\ log' = Append(log, w) /\ row' = w.row
    BY <1>1 DEF Upsert, Stored, Computed, Written
  <2> QED
    BY <1>1, <2>1, UpsertComputes
<1>2. ASSUME NEW c \in Clients, UpsertFails(c) \/ AuditMemorySlot(c)
      PROVE  Computed' /\ UNCHANGED <<row, log>>
  <2>1. /\ row' = row /\ log' = log /\ call' = [d \in Clients |-> call'[d]]
        /\ call'[c] = Idle /\ \A d \in Clients \ {c} : call'[d] = call[d]
    BY <1>2 DEF UpsertFails, AuditMemorySlot, Computed
  <2>2. Idle.at # "write"
    BY DEF Idle
  <2> QED
    BY <2>1, <2>2 DEF Computed
<1>3. CASE UNCHANGED vars
  BY <1>3 DEF vars, Computed
<1> QED
  BY <1>1, <1>2, <1>3, Reads DEF Next
\* What write w did is gone from row r.
GoneFrom(r, w) == IF w.op = "delete" THEN ~r.deleted ELSE ~Contains(r.value, w.text)

\* Write j may drop what write i did.
Drops(j, i) ==
  Missed(j, i) \/ log[j].op = "create" \/ (log[j].op = "replace" /\ log[i].op # "delete")

\* WritesLostOnlyToStaleOnes, in every row the slot has had.
LostOnlyToStaleOnes ==
  \A n \in DOMAIN log : \A i \in 1..n :
    GoneFrom(log[n].row, log[i]) => \E j \in i+1..n : Drops(j, i)

SlotInv == Computed /\ LostOnlyToStaleOnes /\ RevisionsTellVersions

\* A write does what it says to its own row ...
LEMMA WriteIsThere ==
  ASSUME NEW w \in Written, NEW r, w.op # "create" => r \in Rows, ComputedFrom(w, r)
  PROVE  ~GoneFrom(w.row, w)
<1> USE DEF GoneFrom, ComputedFrom, Contains
<1>1. CASE w.op = "append"
  <2>1. r.value \in Seq(Texts) /\ w.row.value = Append(r.value, w.text)
    BY <1>1 DEF Rows
  <2>2. Len(w.row.value) = Len(r.value) + 1 /\ w.row.value[Len(r.value) + 1] = w.text
    BY <2>1
  <2> QED
    BY <1>1, <2>1, <2>2
<1>2. CASE w.op \in {"create", "replace"}
  <2>1. w.row.value = <<w.text>>
    BY <1>2
  <2>2. Len(w.row.value) = 1 /\ w.row.value[1] = w.text
    BY <2>1
  <2> QED
    BY <1>2, <2>2
<1>3. CASE w.op = "delete"
  BY <1>3
<1> QED
  BY <1>1, <1>2, <1>3 DEF Written, Ops

\* ... and keeps what the row it was computed from had, unless it starts or replaces the value.
LEMMA WriteKeeps ==
  ASSUME NEW w \in Written, NEW x \in Written, NEW r \in Rows, ComputedFrom(w, r),
         w.op # "create", w.op = "replace" => x.op = "delete", GoneFrom(w.row, x)
  PROVE  GoneFrom(r, x)
<1>1. CASE x.op = "delete"
  BY <1>1 DEF GoneFrom, ComputedFrom
<1>2. CASE x.op # "delete" /\ w.op = "append"
  <2>1. r.value \in Seq(Texts) /\ w.row.value = Append(r.value, w.text)
    BY <1>2 DEF ComputedFrom, Rows
  <2>2. /\ Len(w.row.value) = Len(r.value) + 1
        /\ \A k \in 1..Len(r.value) : w.row.value[k] = r.value[k]
    BY <2>1
  <2> QED
    BY <1>2, <2>1, <2>2 DEF GoneFrom, Contains
<1>3. CASE x.op # "delete" /\ w.op = "delete"
  BY <1>3 DEF GoneFrom, ComputedFrom
<1> QED
  BY <1>1, <1>2, <1>3 DEF Written, Ops

\* A further write keeps what was known of the ones before.
LEMMA WritesAccountedFor ==
  ASSUME SlotInv, Computed', NEW w \in Written, log' = Append(log, w)
  PROVE  LostOnlyToStaleOnes' /\ RevisionsTellVersions'
<1>0. PICK N \in Nat : N = Len(log) + 1
  BY DEF SlotInv, Computed
<1>1. /\ N = Len(log) + 1 /\ log \in Seq(Written) /\ Len(log) \in Nat /\ DOMAIN log = 1..Len(log)
      /\ DOMAIN log' = 1..N /\ log'[N] = w /\ \A n \in 1..Len(log) : log'[n] = log[n]
  BY <1>0 DEF SlotInv, Computed
<1>2. w.seen \in 0..Len(log) /\ ComputedFrom(w, log'[w.seen].row)
  <2>1. log'[N].seen < N /\ ComputedFrom(log'[N], log'[log'[N].seen].row)
    <3>1. N \in DOMAIN log'
      BY <1>1
    <3> QED
      BY <3>1 DEF Computed
  <2>2. w.seen \in Nat
    BY DEF Written
  <2> QED
    BY <1>1, <2>1, <2>2
<1>3. \A n \in 1..N : log'[n] \in Written /\ log'[n].row \in Rows
  <2> SUFFICES ASSUME NEW n \in 1..N PROVE log'[n] \in Written
    BY DEF Written
  <2>1. CASE n = N
    BY <1>1, <2>1
  <2>2. CASE n # N
    <3>1. n \in 1..Len(log) /\ log'[n] = log[n]
      BY <1>1, <2>2
    <3> QED
      BY <1>1, <3>1
  <2> QED
    BY <2>1, <2>2
<1>4. \A i, j \in 1..Len(log) : (Missed(j, i)' <=> Missed(j, i)) /\ (Drops(j, i)' <=> Drops(j, i))
  BY <1>1 DEF Drops, Missed
<1>5. w.op # "create" => w.seen \in 1..Len(log) /\ log'[w.seen] = log[w.seen]
  BY <1>1, <1>2 DEF ComputedFrom
<1>6. LostOnlyToStaleOnes'
  <2> SUFFICES ASSUME NEW n \in 1..N, NEW i \in 1..n, GoneFrom(log'[n].row, log'[i])
               PROVE  \E j \in i+1..n : Drops(j, i)'
    BY <1>1 DEF LostOnlyToStaleOnes
  <2>1. CASE n # N
    <3>1. n \in 1..Len(log) /\ i \in 1..Len(log) /\ GoneFrom(log[n].row, log[i])
      BY <1>1, <2>1
    <3>2. PICK j \in i+1..n : Drops(j, i)
      BY <1>1, <3>1 DEF SlotInv, LostOnlyToStaleOnes
    <3> QED
      BY <1>1, <1>4, <3>1, <3>2
  <2>2. CASE n = N /\ i = N
    BY <1>1, <1>2, <1>3, <1>5, <2>2, WriteIsThere
  <2>3. CASE n = N /\ i # N /\ Drops(N, i)'
    BY <1>1, <2>3
  <2>4. CASE n = N /\ i # N /\ ~Drops(N, i)'
    <3>1. i \in 1..Len(log) /\ log'[i] = log[i]
      BY <1>1, <2>4
    <3>2. /\ w.op # "create" /\ (w.op = "replace" => log[i].op = "delete") /\ w.seen >= i
      BY <1>1, <1>2, <2>4, <3>1 DEF Drops, Missed
    <3>3. w.seen \in i..Len(log) /\ i \in 1..w.seen /\ w.seen \in DOMAIN log
      BY <1>1, <1>5, <3>1, <3>2
    <3>4. log[w.seen].row \in Rows /\ log[i] \in Written /\ ComputedFrom(w, log[w.seen].row)
      BY <1>1, <1>2, <1>3, <1>5, <3>1, <3>2
    <3>5. GoneFrom(w.row, log[i])
      BY <1>1, <2>4, <3>1
    <3>6. GoneFrom(log[w.seen].row, log[i])
      BY <3>2, <3>4, <3>5, WriteKeeps
    <3>7. PICK j \in i+1..w.seen : Drops(j, i)
      BY <3>3, <3>6 DEF SlotInv, LostOnlyToStaleOnes
    <3>8. j \in 1..Len(log) /\ j \in i+1..n
      BY <1>1, <2>4, <3>1, <3>3
    <3> QED
      BY <1>4, <3>1, <3>7, <3>8
  <2> QED
    BY <1>1, <2>1, <2>2, <2>3, <2>4
<1>7. RevisionsTellVersions'
  <2> SUFFICES ASSUME NEW i \in 1..N, NEW j \in 1..N, i < j, ~Missed(j, i)',
                      \A k \in i+1..j : log'[k].op # "create"
               PROVE  \/ log'[j].row.revision > log'[i].row.revision
                      \/ \E k \in i+1..j : Missed(k, i)'
    BY <1>1 DEF RevisionsTellVersions
  <2>0. i \in 1..Len(log) /\ log'[i] = log[i]
    BY <1>1
  <2>1. CASE j # N
    <3>1. j \in 1..Len(log) /\ ~Missed(j, i) /\ \A k \in i+1..j : log[k].op # "create"
      BY <1>1, <1>4, <2>0, <2>1
    <3>2. \/ log[j].row.revision > log[i].row.revision
          \/ \E k \in i+1..j : Missed(k, i)
      BY <1>1, <2>0, <3>1 DEF SlotInv, RevisionsTellVersions
    <3> QED
      BY <1>1, <1>4, <2>0, <3>1, <3>2
  <2>2. CASE j = N
    <3>1. w.op # "create" /\ w.seen >= i
      BY <1>1, <1>2, <2>0, <2>2 DEF Missed
    <3>2. /\ w.seen \in i..Len(log) /\ w.seen \in DOMAIN log /\ log'[w.seen] = log[w.seen]
          /\ w.row.revision = log[w.seen].row.revision + 1
      BY <1>1, <1>2, <1>5, <2>0, <3>1 DEF ComputedFrom
    <3>3. log[i].row.revision \in Nat /\ log[w.seen].row.revision \in Nat
      BY <1>3, <2>0, <3>2, <1>1 DEF Rows
    <3>4. CASE w.seen = i
      BY <1>1, <2>0, <2>2, <3>2, <3>3, <3>4
    <3>5. CASE w.seen # i /\ Missed(w.seen, i)
      BY <1>1, <1>4, <2>0, <2>2, <3>2, <3>5
    <3>6. CASE w.seen # i /\ ~Missed(w.seen, i)
      <4>1. \A k \in i+1..w.seen : log[k].op # "create"
        BY <1>1, <2>0, <2>2, <3>2
      <4>2. \/ log[w.seen].row.revision > log[i].row.revision
            \/ \E k \in i+1..w.seen : Missed(k, i)
        <5>1. i \in DOMAIN log /\ w.seen \in DOMAIN log /\ i < w.seen
          BY <1>1, <2>0, <3>2, <3>6
        <5> QED
          BY <3>6, <4>1, <5>1 DEF SlotInv, RevisionsTellVersions
      <4> QED
        BY SMTT(30), <1>1, <1>4, <2>0, <2>2, <3>2, <3>3, <4>2
    <3> QED
      BY <3>4, <3>5, <3>6
  <2> QED
    BY <2>1, <2>2
<1> QED
  BY <1>6, <1>7

\* Computed, LostOnlyToStaleOnes and RevisionsTellVersions hold together.
LEMMA SlotInvInductive == Spec => []SlotInv
<1>1. Init => SlotInv
  <2> SUFFICES ASSUME Init PROVE SlotInv
    OBVIOUS
  <2>1. log = <<>> /\ log \in Seq(Written) /\ DOMAIN log = {} /\ row = NoRow /\ NoRow \in Rows
    BY DEF Init, NoRow, Rows
  <2>2. call = [c \in Clients |-> call[c]] /\ \A c \in Clients : call[c].at # "write"
    BY DEF Init, Idle
  <2> QED
    BY <2>1, <2>2 DEF SlotInv, Computed, LostOnlyToStaleOnes, RevisionsTellVersions
<1>2. SlotInv /\ [Next]_vars => SlotInv'
  <2> SUFFICES ASSUME SlotInv, [Next]_vars PROVE SlotInv'
    OBVIOUS
  <2>1. /\ Computed'
        /\ UNCHANGED <<row, log>> \/ \E w \in Written : log' = Append(log, w) /\ row' = w.row
    BY OneWrite DEF SlotInv
  <2>2. CASE UNCHANGED <<row, log>>
    BY <2>1, <2>2 DEF SlotInv, LostOnlyToStaleOnes, RevisionsTellVersions, Drops, Missed
  <2>3. CASE \E w \in Written : log' = Append(log, w) /\ row' = w.row
    BY <2>1, <2>3, WritesAccountedFor DEF SlotInv
  <2> QED
    BY <2>1, <2>2, <2>3
<1> QED
  BY <1>1, <1>2, PTL DEF Spec

\* However the calls on a slot overlap, what a write did is lost only to a write
\* that started or replaced the value or had read the row before it
\* (memory_slots.go:119-133, 286-297).
THEOREM LostOnlyToStale == Spec => []WritesLostOnlyToStaleOnes
<1>1. SlotInv => WritesLostOnlyToStaleOnes
  <2> SUFFICES ASSUME SlotInv, NEW i \in DOMAIN log,
                      IF log[i].op = "delete" THEN Live ELSE ~Contains(row.value, log[i].text)
               PROVE  \E j \in DOMAIN log : j > i /\ Drops(j, i)
    BY DEF WritesLostOnlyToStaleOnes, Drops
  <2>1. /\ DOMAIN log = 1..Len(log) /\ Len(log) \in DOMAIN log /\ Len(log) \in Nat
        /\ i \in 1..Len(log) /\ row = log[Len(log)].row
    BY DEF SlotInv, Computed
  <2>2. GoneFrom(log[Len(log)].row, log[i])
    BY <2>1 DEF GoneFrom, Live
  <2>3. PICK j \in i+1..Len(log) : Drops(j, i)
    BY <2>1, <2>2 DEF SlotInv, LostOnlyToStaleOnes
  <2> QED
    BY <2>1, <2>3
<1> QED
  BY <1>1, SlotInvInductive, PTL

\* However the calls on a slot overlap, from one create to the next a write has
\* a greater revision than those it had read (memory_slots.go:131, 158 and 185).
THEOREM RevisionsIdentify == Spec => []RevisionsTellVersions
<1>1. SlotInv => RevisionsTellVersions
  BY DEF SlotInv
<1> QED
  BY <1>1, SlotInvInductive, PTL

-----------------------------------------------------------------------------
\* The observations of the writes

InAudit == {call[c].write : c \in {d \in Clients : call[d].at = "audit"}}
WritesOf(op, rev) == {i \in DOMAIN log : log[i].op = op /\ log[i].row.revision = rev}
Told(op, rev) == WritesOf(op, rev) \ (InAudit \cup lost)
AuditsOf(op, rev) == {n \in DOMAIN audit : audit[n] = <<op, rev>>}

\* A call at its observation has written the row it tells of, alone, and its
\* observation has not failed.
Observing ==
  /\ audit \in Seq(Ops \X Nat)
  /\ lost \subseteq DOMAIN log
  /\ \A c \in Clients : call[c].at = "audit" =>
       /\ call[c].write \in DOMAIN log \ lost
       /\ log[call[c].write].op = call[c].op /\ log[call[c].write].row.revision = call[c].revision
       /\ \A d \in Clients \ {c} : call[d].at = "audit" => call[d].write # call[c].write

Audited ==
  \A op \in Ops, rev \in Nat : Cardinality(Told(op, rev)) = Cardinality(AuditsOf(op, rev))

AuditInv == Computed /\ Observing /\ Audited

LEMMA ToldFinite ==
  ASSUME AuditInv, NEW op, NEW rev
  PROVE  IsFiniteSet(Told(op, rev)) /\ IsFiniteSet(AuditsOf(op, rev))
<1>0. Len(log) \in Nat /\ Len(audit) \in Nat
  BY DEF AuditInv, Computed, Observing
<1>1. IsFiniteSet(1..Len(log)) /\ IsFiniteSet(1..Len(audit))
  BY <1>0, FS_Interval
<1>2. Told(op, rev) \subseteq 1..Len(log) /\ AuditsOf(op, rev) \subseteq 1..Len(audit)
  BY DEF AuditInv, Computed, Observing, Told, WritesOf, AuditsOf
<1> QED
  BY <1>1, <1>2, FS_Subset

\* What is told does not change while a call reads, or fails before it writes.
LEMMA NothingTold ==
  ASSUME AuditInv, Computed', NEW c \in Clients, UNCHANGED <<audit, log, lost>>,
         call[c].at # "audit", call'[c].at # "audit", \A d \in Clients \ {c} : call'[d] = call[d]
  PROVE  AuditInv'
<1>1. InAudit' = InAudit
  BY DEF InAudit
<1>2. Observing'
  BY DEF AuditInv, Observing
<1>3. \A op, rev : Told(op, rev)' = Told(op, rev) /\ AuditsOf(op, rev)' = AuditsOf(op, rev)
  BY <1>1 DEF Told, WritesOf, AuditsOf
<1>4. Audited'
  BY <1>3 DEF AuditInv, Audited
<1> QED
  BY <1>2, <1>4 DEF AuditInv

\* A row that is written is not told of yet.
LEMMA UpsertTold ==
  ASSUME AuditInv, Computed', NEW c \in Clients, Upsert(c)
  PROVE  AuditInv'
<1> DEFINE w == [op |-> call[c].op, text |-> call[c].text, row |-> call[c].row,
                 seen |-> call[c].seen]
           N == Len(log) + 1
<1>1. /\ log' = Append(log, w) /\ UNCHANGED <<audit, lost>>
      /\ w.op = call[c].op /\ w.row.revision = call[c].row.revision
      /\ call'[c] = [at |-> "audit", op |-> call[c].op, revision |-> call[c].row.revision, write |-> N]
      /\ call[c].at = "write" /\ \A d \in Clients \ {c} : call'[d] = call[d]
  BY DEF Upsert, AuditInv, Computed
<1>2. /\ log \in Seq(Written) /\ log' \in Seq(Written)
  BY DEF AuditInv, Computed
<1> HIDE DEF w
<1>3. /\ Len(log) \in Nat /\ DOMAIN log = 1..Len(log) /\ DOMAIN log' = 1..N /\ log'[N] = w
      /\ \A n \in 1..Len(log) : log'[n] = log[n]
  BY <1>1, <1>2
<1> HIDE DEF N
<1>4. N \notin DOMAIN log /\ DOMAIN log' = DOMAIN log \cup {N}
  BY <1>3 DEF N
<1>5. /\ call'[c].at = "audit" /\ call'[c].write = N
      /\ call'[c].op = w.op /\ call'[c].revision = w.row.revision
  BY <1>1
<1>6. InAudit' = InAudit \cup {N}
  BY <1>1, <1>5 DEF InAudit
<1>7. Observing'
  <2>1. \A d \in Clients \ {c} : call'[d].at = "audit" =>
          /\ call'[d].write \in DOMAIN log \ lost
          /\ log'[call'[d].write] = log[call'[d].write]
          /\ log[call'[d].write].op = call'[d].op
          /\ log[call'[d].write].row.revision = call'[d].revision
          /\ \A e \in Clients \ {d} : call'[e].at = "audit" => call'[e].write # call'[d].write
    <3> SUFFICES ASSUME NEW d \in Clients \ {c}, call[d].at = "audit"
                 PROVE  /\ call[d].write \in DOMAIN log \ lost
                        /\ log'[call[d].write] = log[call[d].write]
                        /\ log[call[d].write].op = call[d].op
                        /\ log[call[d].write].row.revision = call[d].revision
                        /\ \A e \in Clients \ {d} : call'[e].at = "audit" => call'[e].write # call[d].write
      BY <1>1
    <3>1. call[d].write \in DOMAIN log \ lost /\ call[d].write # N
      BY <1>4 DEF AuditInv, Observing
    <3>2. log'[call[d].write] = log[call[d].write]
      BY <1>3, <3>1
    <3>3. \A e \in Clients \ {d} : call'[e].at = "audit" => call'[e].write # call[d].write
      BY <1>1, <1>5, <3>1 DEF AuditInv, Observing
    <3> QED
      BY <3>1, <3>2, <3>3 DEF AuditInv, Observing
  <2>2. \A e \in Clients \ {c} : call'[e].at = "audit" => call'[e].write # call'[c].write
    BY <1>4, <1>5, <2>1
  <2>3. call'[c].write \in DOMAIN log' \ lost' /\ log'[call'[c].write] = w
    BY <1>1, <1>3, <1>4, <1>5 DEF AuditInv, Observing
  <2>4. audit' \in Seq(Ops \X Nat) /\ lost' \subseteq DOMAIN log'
    BY <1>1, <1>4 DEF AuditInv, Observing
  <2>5. \A d \in Clients : call'[d].at = "audit" =>
          /\ call'[d].write \in DOMAIN log' \ lost'
          /\ log'[call'[d].write].op = call'[d].op
          /\ log'[call'[d].write].row.revision = call'[d].revision
          /\ \A e \in Clients \ {d} : call'[e].at = "audit" => call'[e].write # call'[d].write
    <3> TAKE d \in Clients
    <3>1. CASE d = c
      BY <1>5, <2>2, <2>3, <3>1
    <3>2. CASE d # c
      BY <1>1, <1>4, <2>1, <3>2
    <3> QED
      BY <3>1, <3>2
  <2> QED
    BY <2>4, <2>5 DEF Observing
<1>8. ASSUME NEW op \in Ops, NEW rev \in Nat
      PROVE  Told(op, rev)' = Told(op, rev) /\ AuditsOf(op, rev)' = AuditsOf(op, rev)
  <2>1. \A i \in DOMAIN log : i \in Told(op, rev)' <=> i \in Told(op, rev)
    BY <1>1, <1>3, <1>4, <1>6 DEF Told, WritesOf
  <2>2. N \notin Told(op, rev)'
    BY <1>6 DEF Told
  <2>3. Told(op, rev) \subseteq DOMAIN log /\ Told(op, rev)' \subseteq DOMAIN log'
    BY DEF Told, WritesOf
  <2> QED
    BY <1>1, <1>4, <2>1, <2>2, <2>3 DEF AuditsOf
<1>9. Audited'
  BY <1>8 DEF AuditInv, Audited
<1> QED
  BY <1>7, <1>9 DEF AuditInv

\* An observation tells of one more write, or loses it for good.
LEMMA ObservationTold ==
  ASSUME AuditInv, Computed', NEW c \in Clients, AuditMemorySlot(c)
  PROVE  AuditInv'
<1> DEFINE x == call[c].write
           op0 == call[c].op
           rev0 == call[c].revision
<1>1. /\ call[c].at = "audit" /\ call'[c].at # "audit" /\ UNCHANGED <<row, log>>
      /\ \A d \in Clients \ {c} : call'[d] = call[d]
  BY DEF AuditMemorySlot, Idle, AuditInv, Computed
<1>2. /\ x \in DOMAIN log \ lost /\ x \in InAudit /\ log[x].op = op0 /\ log[x].row.revision = rev0
      /\ \A d \in Clients \ {c} : call[d].at = "audit" => call[d].write # x
  BY <1>1 DEF AuditInv, Observing, InAudit
<1>3. op0 \in Ops /\ rev0 \in Nat
  <2>1. log[x] \in Written
    BY <1>2 DEF AuditInv, Computed
  <2> QED
    BY <1>2, <2>1 DEF Written, Rows
<1>4. \/ audit' = Append(audit, <<op0, rev0>>) /\ lost' = lost
      \/ lost' = lost \cup {x} /\ audit' = audit
  BY DEF AuditMemorySlot, Observation
<1> HIDE DEF x, op0, rev0
<1>5. InAudit' = InAudit \ {x}
  BY <1>1, <1>2 DEF InAudit, x
<1>6. Observing'
  <2>0. <<op0, rev0>> \in Ops \X Nat
    BY <1>3
  <2>1. audit' \in Seq(Ops \X Nat)
    BY <1>4, <2>0 DEF AuditInv, Observing
  <2>2. log' = log /\ lost' \subseteq DOMAIN log' /\ lost' \subseteq lost \cup {x}
    BY <1>1, <1>2, <1>4 DEF AuditInv, Observing
  <2>3. \A d \in Clients : call'[d].at = "audit" =>
          /\ call'[d].write \in DOMAIN log' \ lost'
          /\ log'[call'[d].write].op = call'[d].op
          /\ log'[call'[d].write].row.revision = call'[d].revision
          /\ \A e \in Clients \ {d} : call'[e].at = "audit" => call'[e].write # call'[d].write
    <3> SUFFICES ASSUME NEW d \in Clients, call'[d].at = "audit"
                 PROVE  /\ call'[d].write \in DOMAIN log' \ lost'
                        /\ log'[call'[d].write].op = call'[d].op
                        /\ log'[call'[d].write].row.revision = call'[d].revision
                        /\ \A e \in Clients \ {d} : call'[e].at = "audit" => call'[e].write # call'[d].write
      OBVIOUS
    <3>1. d # c /\ call'[d] = call[d]
      BY <1>1
    <3>2. call[d].write \in DOMAIN log \ lost' /\ log[call[d].write].op = call[d].op
          /\ log[call[d].write].row.revision = call[d].revision
      BY <1>2, <2>2, <3>1 DEF AuditInv, Observing
    <3>3. \A e \in Clients \ {d} : call'[e].at = "audit" => call'[e].write # call'[d].write
      BY <1>1, <3>1 DEF AuditInv, Observing
    <3> QED
      BY <2>2, <3>1, <3>2, <3>3
  <2> QED
    BY <2>1, <2>2, <2>3 DEF Observing
<1>7. ASSUME NEW op \in Ops, NEW rev \in Nat
      PROVE  Cardinality(Told(op, rev)') = Cardinality(AuditsOf(op, rev)')
  <2>0. Cardinality(Told(op, rev)) = Cardinality(AuditsOf(op, rev))
    BY DEF AuditInv, Audited
  <2>1. CASE lost' = lost \cup {x} /\ audit' = audit
    <3>1. Told(op, rev)' = Told(op, rev) /\ AuditsOf(op, rev)' = AuditsOf(op, rev)
      BY <1>1, <1>2, <1>5, <2>1 DEF Told, WritesOf, AuditsOf
    <3> QED
      BY <2>0, <3>1
  <2>2. CASE audit' = Append(audit, <<op0, rev0>>) /\ lost' = lost /\ ~(op = op0 /\ rev = rev0)
    <3>1. Told(op, rev)' = Told(op, rev)
      BY <1>1, <1>2, <1>5, <2>2 DEF Told, WritesOf
    <3>2. AuditsOf(op, rev)' = AuditsOf(op, rev)
      BY <2>2 DEF AuditInv, Observing, AuditsOf
    <3> QED
      BY <2>0, <3>1, <3>2
  <2>3. CASE audit' = Append(audit, <<op0, rev0>>) /\ lost' = lost /\ op = op0 /\ rev = rev0
    <3>1. Told(op, rev)' = Told(op, rev) \cup {x} /\ x \notin Told(op, rev)
      BY <1>1, <1>2, <1>5, <2>3 DEF Told, WritesOf
    <3>2. AuditsOf(op, rev)' = AuditsOf(op, rev) \cup {Len(audit) + 1} /\ Len(audit) + 1 \notin AuditsOf(op, rev)
      BY <2>3 DEF AuditInv, Observing, AuditsOf
    <3>3. /\ Cardinality(Told(op, rev)') = Cardinality(Told(op, rev)) + 1
          /\ Cardinality(AuditsOf(op, rev)') = Cardinality(AuditsOf(op, rev)) + 1
      BY <3>1, <3>2, ToldFinite, FS_AddElement
    <3> QED
      BY <2>0, <3>3
  <2> QED
    BY <1>4, <2>1, <2>2, <2>3
<1> QED
  BY <1>6, <1>7 DEF AuditInv, Audited

LEMMA AuditInvInductive == AuditInv /\ [Next]_vars => AuditInv'
<1> SUFFICES ASSUME AuditInv, [Next]_vars PROVE AuditInv'
  OBVIOUS
<1>1. Computed'
  BY OneWrite DEF AuditInv
<1>0. call = [c \in Clients |-> call[c]]
  BY DEF AuditInv, Computed
<1>2. ASSUME NEW c \in Clients, NEW op, NEW text, NEW next, Read(c, op, text, next)
      PROVE  AuditInv'
  <2>1. call[c].at # "audit" /\ call'[c].at # "audit" /\ \A d \in Clients \ {c} : call'[d] = call[d]
    BY <1>0, <1>2 DEF Read, Idle
  <2>2. UNCHANGED <<audit, log, lost>>
    BY <1>2 DEF Read
  <2> QED
    BY <1>1, <2>1, <2>2, NothingTold
<1>3. ASSUME NEW c \in Clients, UpsertFails(c)
      PROVE  AuditInv'
  <2>1. call[c].at # "audit" /\ call'[c].at # "audit" /\ \A d \in Clients \ {c} : call'[d] = call[d]
    BY <1>0, <1>3 DEF UpsertFails, Idle
  <2>2. UNCHANGED <<audit, log, lost>>
    BY <1>3 DEF UpsertFails
  <2> QED
    BY <1>1, <2>1, <2>2, NothingTold
<1>4. CASE UNCHANGED vars
  BY <1>1, <1>4 DEF vars, AuditInv, Observing, Audited, Told, WritesOf, InAudit, AuditsOf
<1> QED
  BY <1>1, <1>2, <1>3, <1>4, UpsertTold, ObservationTold
     DEF Next, CreateMemorySlot, AppendMemorySlot, ReplaceMemorySlot, DeleteMemorySlot

LEMMA AuditInvInit == Init => AuditInv
<1> SUFFICES ASSUME Init PROVE AuditInv
  OBVIOUS
<1>1. log = <<>> /\ audit = <<>> /\ lost = {} /\ row = NoRow /\ NoRow \in Rows /\ \A c \in Clients : call[c].at = "idle"
  BY DEF Init, NoRow, Rows, Idle
<1>2. Computed
  BY <1>1 DEF Init, Computed
<1>3. \A op, rev : Told(op, rev) = {} /\ AuditsOf(op, rev) = {}
  BY <1>1 DEF Told, WritesOf, AuditsOf
<1>4. Audited
  BY <1>3 DEF Audited
<1>5. Observing
  BY <1>1 DEF Observing
<1> QED
  BY <1>2, <1>4, <1>5 DEF AuditInv

\* Every written row has its one observation, but for the calls still at it and
\* those whose observation failed (memory_slots.go:307-327).
THEOREM WritesAreAudited == Spec => []WritesAudited
<1>1. AuditInv => WritesAudited
  <2> SUFFICES ASSUME AuditInv, NEW op \in Ops, NEW rev \in 1..MaxWrites
               PROVE  Cardinality(Told(op, rev)) = Cardinality(AuditsOf(op, rev))
    BY DEF WritesAudited, Told, WritesOf, InAudit, AuditsOf
  <2> QED
    BY DEF AuditInv, Audited
<1> QED
  BY <1>1, AuditInvInit, AuditInvInductive, PTL DEF Spec
-----------------------------------------------------------------------------
\* The history of the facade

After(n) == IF n = 0 THEN NoRow ELSE log[n].row

\* What is said of write w: the content it left, and the one before it unless
\* another write came in between.
Tells(action, previous, next, read, w) ==
  /\ w \in DOMAIN log
  /\ next = (IF action = "delete" THEN NoContent ELSE Content(log[w].row))
  /\ action = "add" \/ previous = Content(After(w - 1)) \/ read < w - 1

\* A call of the facade that has written its row, and has no event yet.
Holding(c) == facade[c].at = "told" \/ call[c].at = "audit"
Held(c) == IF facade[c].at = "told" THEN facade[c].write ELSE call[c].write

\* Where a call of the facade stands with its call of the slot.
Stage(c) ==
  /\ facade[c].at # "writing" => call[c] = Idle
  /\ facade[c].at = "got" =>
       \/ facade[c].action = "update" /\ facade[c].text \in Texts
       \/ facade[c].action = "delete" /\ facade[c].text = NoContent
  /\ facade[c].at \in {"got", "writing"} /\ call[c].at # "audit" =>
       \/ facade[c].action = "add"
       \/ facade[c].read \in 0..Len(log) /\ facade[c].old = Content(After(facade[c].read))
  /\ facade[c].at = "writing" /\ call[c].at = "write" =>
       \/ facade[c].action = "delete" /\ facade[c].text = NoContent
       \/ /\ facade[c].action \in {"add", "update"} /\ call[c].op \in {"create", "replace"}
          /\ call[c].text = facade[c].text
  /\ Holding(c) =>
       Tells(facade[c].action, facade[c].old, facade[c].text, facade[c].read, Held(c))

InHistory(w) == \E i \in DOMAIN history : history[i].write = w

EventsTell ==
  \A i \in DOMAIN history :
    Tells(history[i].action, history[i].previous, history[i].next, history[i].read,
          history[i].write)

\* Each write has one place: an event, a call that holds it, or it is untold.
Placed ==
  /\ EventsTell
  /\ \A i, j \in DOMAIN history : history[i].write = history[j].write => i = j
  /\ \A c \in Clients : Holding(c) =>
       /\ ~InHistory(Held(c))
       /\ \A d \in Clients \ {c} : Holding(d) => Held(d) # Held(c)
  /\ \A w \in DOMAIN log :
       InHistory(w) \/ w \in untold \/ \E c \in Clients : Holding(c) /\ Held(c) = w

FacadeInv ==
  /\ AuditInv
  /\ facade = [c \in Clients |-> facade[c]] /\ history \in Seq(Range(history))
  /\ \A c \in Clients : Stage(c)
  /\ Placed
\* A step of the facade is a step of its slot, or leaves the slot alone.
LEMMA FacadeStepsSlot == FacadeInv /\ FacadeNext => [Next]_vars
<1> SUFFICES ASSUME FacadeInv, NEW c \in Clients,
                    \/ \E t \in Texts : Add(c, t) \/ Update(c, t)
                    \/ Delete(c) \/ Write(c) \/ SlotStep(c) \/ SlotAudited(c) \/ Record(c)
             PROVE  [Next]_vars
  BY DEF FacadeNext
<1>1. ASSUME NEW op, NEW text, NEW action, NEW old, NEW read,
             SlotCall(c, op, text, action, old, read), op \in {"create", "replace"} => text \in Texts
      PROVE  [Next]_vars
  BY <1>1 DEF SlotCall, Next
<1>2. ASSUME NEW action, NEW text, Get(c, action, text)
      PROVE  [Next]_vars
  BY <1>2 DEF Get
<1>3. ASSUME SlotStep(c) \/ SlotAudited(c) \/ Record(c)
      PROVE  [Next]_vars
  BY <1>3 DEF SlotStep, SlotAudited, Record, Next
<1>4. ASSUME Write(c) PROVE [Next]_vars
  <2>1. Stage(c) /\ facade[c].at = "got"
    BY <1>4 DEF FacadeInv, Write
  <2>2. CASE facade[c].action = "update" /\ facade[c].text \in Texts
    BY <1>4, <2>2 DEF Write, SlotCall, Next
  <2>3. CASE facade[c].action = "delete"
    BY <1>4, <2>3 DEF Write, SlotCall, Next
  <2> QED
    BY <2>1, <2>2, <2>3 DEF Stage
<1> QED
  BY <1>1, <1>2, <1>3, <1>4 DEF Add, Update, Delete

LEMMA LogGrows ==
  ASSUME AuditInv, [Next]_vars
  PROVE  /\ Len(log) \in Nat /\ DOMAIN log = 1..Len(log) /\ Len(log') \in Nat
         /\ DOMAIN log' = 1..Len(log') /\ Len(log) <= Len(log')
         /\ \A n \in 1..Len(log) : log'[n] = log[n]
<1>1. log \in Seq(Written) /\ (log' = log \/ \E w \in Written : log' = Append(log, w))
  BY OneWrite DEF AuditInv, Computed
<1> QED
  BY <1>1

\* What is said of a write stays true, and so does the stage of a call that rests.
LEMMA StageKept ==
  ASSUME FacadeInv, [Next]_vars
  PROVE  /\ \A a, p, n, r, w : Tells(a, p, n, r, w) => Tells(a, p, n, r, w)'
         /\ \A n \in 0..Len(log) : After(n)' = After(n)
         /\ \A d \in Clients : facade'[d] = facade[d] /\ call'[d] = call[d] =>
              /\ Stage(d)' /\ Held(d)' = Held(d) /\ Holding(d)' = Holding(d)
<1>0. /\ Len(log) \in Nat /\ DOMAIN log = 1..Len(log) /\ Len(log') \in Nat
      /\ DOMAIN log' = 1..Len(log') /\ Len(log) <= Len(log')
      /\ \A n \in 1..Len(log) : log'[n] = log[n]
  BY LogGrows DEF FacadeInv
<1>1. \A n \in 0..Len(log) : After(n)' = After(n)
  BY <1>0 DEF After
<1>2. ASSUME NEW a, NEW p, NEW n, NEW r, NEW w, Tells(a, p, n, r, w)
      PROVE  Tells(a, p, n, r, w)'
  <2>1. w \in 1..Len(log) /\ w \in DOMAIN log' /\ log'[w] = log[w] /\ After(w - 1)' = After(w - 1)
    BY <1>0, <1>1, <1>2 DEF Tells
  <2> QED
    BY <1>2, <2>1 DEF Tells, Content
<1>3. ASSUME NEW d \in Clients, facade'[d] = facade[d], call'[d] = call[d]
      PROVE  Stage(d)' /\ Held(d)' = Held(d) /\ Holding(d)' = Holding(d)
  <2>1. Held(d)' = Held(d) /\ Holding(d)' = Holding(d)
    BY <1>3 DEF Held, Holding
  <2>2. Stage(d)
    BY DEF FacadeInv
  <2>3. Holding(d) => Tells(facade[d].action, facade[d].old, facade[d].text, facade[d].read, Held(d))'
    <3>1. ASSUME Holding(d)
          PROVE  Tells(facade[d].action, facade[d].old, facade[d].text, facade[d].read, Held(d))
      BY <2>2, <3>1 DEF Stage
    <3> QED
      BY <1>0, <1>1, <1>3, <2>1, <3>1 DEF Tells, Content
  <2>4. facade[d].read \in 0..Len(log) =>
          facade[d].read \in 0..Len(log') /\ After(facade[d].read)' = After(facade[d].read)
    BY <1>0, <1>1, <1>3 DEF After
  <2> QED
    BY <1>0, <1>3, <2>1, <2>2, <2>3, <2>4 DEF Stage, Content
<1> QED
  BY <1>1, <1>2, <1>3
\* A step that writes nothing, of a call that has written nothing.
LEMMA NothingHeld ==
  ASSUME FacadeInv, AuditInv', [Next]_vars, NEW c \in Clients, UNCHANGED <<log, history, untold>>,
         facade' = [d \in Clients |-> facade'[d]], \A d \in Clients \ {c} : facade'[d] = facade[d],
         \A d \in Clients \ {c} : call'[d] = call[d],
         ~Holding(c), facade'[c].at # "told", call'[c].at # "audit", Stage(c)'
  PROVE  FacadeInv'
<1>1. \A d \in Clients \ {c} : Stage(d)' /\ Held(d)' = Held(d) /\ Holding(d)' = Holding(d)
  BY StageKept
<1>2. Holding(c)' = FALSE /\ Holding(c) = FALSE
  BY DEF Holding
<1>3. \A w : InHistory(w)' = InHistory(w)
  BY DEF InHistory
<1>4. Placed'
  <2>1. EventsTell'
    BY DEF FacadeInv, Placed, EventsTell, Tells, After, Content
  <2>2. \A d \in Clients : Holding(d)' =>
          /\ ~InHistory(Held(d))'
          /\ \A e \in Clients \ {d} : Holding(e)' => Held(e)' # Held(d)'
    BY <1>1, <1>2, <1>3 DEF FacadeInv, Placed
  <2>3. \A w \in DOMAIN log' :
          InHistory(w)' \/ w \in untold' \/ \E d \in Clients : Holding(d)' /\ Held(d)' = w
    BY <1>1, <1>2, <1>3 DEF FacadeInv, Placed
  <2> QED
    BY <2>1, <2>2, <2>3 DEF FacadeInv, Placed
<1> QED
  BY <1>1, <1>4 DEF FacadeInv
\* Get: the content read is the one the last write left.
LEMMA GetKeeps ==
  ASSUME FacadeInv, AuditInv', [Next]_vars, NEW c \in Clients, NEW action, NEW text,
         \/ action = "update" /\ text \in Texts
         \/ action = "delete" /\ text = NoContent,
         Get(c, action, text)
  PROVE  FacadeInv'
<1>1. /\ facade[c] = Outside /\ UNCHANGED <<vars, history, untold>>
      /\ facade' = [d \in Clients |-> facade'[d]] /\ \A d \in Clients \ {c} : facade'[d] = facade[d]
      /\ facade'[c] = [at |-> "got", action |-> action, text |-> text,
                       old |-> Content(row), read |-> Len(log)]
  BY DEF Get, FacadeInv
<1>2. /\ row' = row /\ audit' = audit /\ call' = call /\ log' = log /\ lost' = lost
  BY <1>1 DEF vars
<1>3. call[c] = Idle /\ Idle.at # "audit" /\ Idle.at # "write"
  <2>1. facade[c].at # "writing" /\ Stage(c)
    BY <1>1 DEF Outside, FacadeInv
  <2> QED
    BY <2>1 DEF Stage, Idle
<1>4. row = After(Len(log)) /\ Len(log) \in Nat
  BY DEF FacadeInv, AuditInv, Computed, After
<1>5. /\ facade'[c].at = "got" /\ facade'[c].action = action /\ facade'[c].text = text
      /\ facade'[c].old = Content(After(Len(log))) /\ facade'[c].read = Len(log)
  BY <1>1, <1>4
<1>6. Stage(c)'
  <2>1. After(facade[c].read)' = After(Len(log))
    BY <1>2, <1>5 DEF After
  <2> QED
    BY <1>2, <1>3, <1>4, <1>5, <2>1 DEF Stage, Holding, Content, Idle
<1>7. ~Holding(c)
  BY <1>1, <1>3 DEF Holding, Outside
<1> QED
  BY <1>1, <1>2, <1>3, <1>5, <1>6, <1>7, NothingHeld

\* The slot's call starts, or its slot has gone and both calls end.
LEMMA SlotCallKeeps ==
  ASSUME FacadeInv, AuditInv', [Next]_vars, NEW c \in Clients,
         NEW op, NEW text, NEW action, NEW old, NEW read,
         facade[c].at \in {"outside", "got"},
         \/ action = "add" /\ op = "create"
         \/ action = "update" /\ op = "replace"
         \/ action = "delete" /\ op = "delete" /\ text = NoContent,
         action = "add" \/ (read \in 0..Len(log) /\ old = Content(After(read))),
         SlotCall(c, op, text, action, old, read)
  PROVE  FacadeInv'
<1>1. /\ UNCHANGED <<log, history, untold>>
      /\ facade' = [d \in Clients |-> facade'[d]] /\ \A d \in Clients \ {c} : facade'[d] = facade[d]
      /\ \A d \in Clients \ {c} : call'[d] = call[d]
  BY DEF SlotCall, CreateMemorySlot, ReplaceMemorySlot, DeleteMemorySlot, Read, vars,
         FacadeInv, AuditInv, Computed
<1>2. call[c] = Idle /\ Idle.at # "audit" /\ Idle.at # "write"
  BY DEF FacadeInv, Stage, Idle
<1>3. ~Holding(c)
  BY <1>2 DEF Holding
<1>4. CASE facade'[c] = Outside /\ call' = call
  <2>1. Stage(c)'
    BY <1>2, <1>4 DEF Stage, Holding, Outside, Idle
  <2> QED
    BY <1>1, <1>2, <1>3, <1>4, <2>1, NothingHeld DEF Outside
<1>5. CASE /\ facade'[c] = [at |-> "writing", action |-> action, text |-> text,
                            old |-> old, read |-> read]
           /\ call'[c].at = "write" /\ call'[c].op = op /\ (op # "delete" => call'[c].text = text)
  <2>1. /\ facade'[c].at = "writing" /\ facade'[c].action = action /\ facade'[c].text = text
        /\ facade'[c].old = old /\ facade'[c].read = read
    BY <1>5
  <2>2. Holding(c)' = FALSE
    BY <1>5, <2>1 DEF Holding
  <2>3. action = "add" \/ (facade'[c].read \in 0..Len(log') /\ facade'[c].old = Content(After(facade[c].read))')
    BY <1>1, <2>1 DEF After, Content
  <2>4. Stage(c)'
    BY <1>5, <2>1, <2>2, <2>3 DEF Stage
  <2> QED
    BY <1>1, <1>3, <1>5, <2>1, <2>4, NothingHeld
<1>6. \/ facade'[c] = Outside /\ call' = call
      \/ /\ facade'[c] = [at |-> "writing", action |-> action, text |-> text,
                            old |-> old, read |-> read]
         /\ call'[c].at = "write" /\ call'[c].op = op /\ (op # "delete" => call'[c].text = text)
  <2>1. facade = [d \in Clients |-> facade[d]] /\ call = [d \in Clients |-> call[d]]
    BY DEF FacadeInv, AuditInv, Computed
  <2>2. ASSUME NEW o, NEW t, NEW r, Read(c, o, t, r)
        PROVE  call'[c].at = "write" /\ call'[c].op = o /\ call'[c].text = t
    BY <2>1, <2>2 DEF Read
  <2>3. CASE UNCHANGED vars /\ facade' = [facade EXCEPT ![c] = Outside]
    BY <2>1, <2>3 DEF vars
  <2>4. CASE /\ \/ op = "create" /\ CreateMemorySlot(c, text)
                \/ op = "replace" /\ ReplaceMemorySlot(c, text)
                \/ op = "delete" /\ DeleteMemorySlot(c)
             /\ facade' = [facade EXCEPT ![c] = [at |-> "writing", action |-> action, text |-> text,
                                                 old |-> old, read |-> read]]
    BY <2>1, <2>2, <2>4 DEF CreateMemorySlot, ReplaceMemorySlot, DeleteMemorySlot
  <2> QED
    BY <2>3, <2>4 DEF SlotCall
<1> QED
  BY <1>4, <1>5, <1>6
\* A row is written: what the call has read was the row before it, or an older one.
LEMMA UpsertKeeps ==
  ASSUME FacadeInv, AuditInv', [Next]_vars, NEW c \in Clients, facade[c].at = "writing", Upsert(c),
         UNCHANGED facadeVars
  PROVE  FacadeInv'
<1>0. PICK N : N = Len(log) + 1
  OBVIOUS
<1>1. /\ facade' = facade /\ history' = history /\ untold' = untold
      /\ call[c].at = "write" /\ log' = Append(log, log'[N]) /\ log'[N].row = call[c].row
      /\ call'[c].at = "audit" /\ call'[c].write = N /\ \A d \in Clients \ {c} : call'[d] = call[d]
  BY <1>0 DEF facadeVars, Upsert, FacadeInv, AuditInv, Computed
<1>2. /\ Len(log) \in Nat /\ DOMAIN log = 1..Len(log) /\ DOMAIN log' = 1..N /\ N = Len(log) + 1
      /\ \A n \in 1..Len(log) : log'[n] = log[n]
  BY <1>0, <1>1, LogGrows DEF FacadeInv
<1>3. \A d \in Clients \ {c} : Stage(d)' /\ Held(d)' = Held(d) /\ Holding(d)' = Holding(d)
  BY <1>1, StageKept
<1>4. ~Holding(c) /\ Holding(c)' = TRUE /\ Held(c)' = N
  BY <1>1 DEF Holding, Held
<1>5. Stage(c)'
  <2>1. \/ facade[c].action = "delete" /\ facade[c].text = NoContent
        \/ /\ facade[c].action \in {"add", "update"} /\ call[c].op \in {"create", "replace"}
           /\ call[c].text = facade[c].text
    BY <1>1 DEF FacadeInv, Stage
  <2>2. call[c].op \in {"create", "replace"} => Content(call[c].row) = call[c].text
    <3>1. ComputedFrom(call[c], log[call[c].seen].row)
      BY <1>1 DEF FacadeInv, AuditInv, Computed
    <3>2. call[c].op \in {"create", "replace"} => call[c].row.value = <<call[c].text>>
      BY <3>1 DEF ComputedFrom
    <3>3. NoRow.value # <<call[c].text>>
      BY DEF NoRow
    <3>4. call[c].op \in {"create", "replace"} => call[c].row # NoRow
      BY <3>2, <3>3
    <3> QED
      BY <3>2, <3>4 DEF Content
  <2>3. facade[c].text = (IF facade[c].action = "delete" THEN NoContent ELSE Content(log'[N].row))
    BY <1>1, <2>1, <2>2
  <2>4. \/ facade[c].action = "add"
        \/ facade[c].read \in 0..Len(log) /\ facade[c].old = Content(After(facade[c].read))
    BY <1>1 DEF FacadeInv, Stage
  <2>5. \/ facade[c].action = "add" \/ facade[c].old = Content(After(N - 1))'
        \/ facade[c].read < N - 1
    <3>1. N - 1 = Len(log) /\ After(N - 1)' = After(N - 1)
      BY <1>0, <1>2, StageKept
    <3>2. CASE facade[c].read = Len(log)
      BY <1>1, <2>4, <3>1, <3>2 DEF Content
    <3>3. CASE facade[c].read # Len(log)
      BY <1>2, <2>4, <3>1, <3>3
    <3> QED
      BY <3>2, <3>3
  <2>6. Tells(facade[c].action, facade[c].old, facade[c].text, facade[c].read, N)'
    BY <1>1, <1>2, <2>3, <2>5 DEF Tells, Content
  <2> QED
    BY <1>1, <1>4, <2>6 DEF Stage
<1>6. \A w : InHistory(w)' = InHistory(w)
  BY <1>1 DEF InHistory
<1>7. ~InHistory(N) /\ \A d \in Clients : Holding(d) => Held(d) # N
  <2>1. \A i \in DOMAIN history : history[i].write \in DOMAIN log
    BY DEF FacadeInv, Placed, EventsTell, Tells
  <2>2. \A d \in Clients : Holding(d) => Held(d) \in DOMAIN log
    BY DEF FacadeInv, Stage, Tells
  <2> QED
    BY <1>2, <2>1, <2>2 DEF InHistory
<1>8. Placed'
  <2>1. EventsTell'
    <3> SUFFICES ASSUME NEW i \in DOMAIN history
                 PROVE  Tells(history[i].action, history[i].previous, history[i].next,
                              history[i].read, history[i].write)'
      BY <1>1 DEF EventsTell
    <3>1. Tells(history[i].action, history[i].previous, history[i].next,
                history[i].read, history[i].write)
      BY DEF FacadeInv, Placed, EventsTell
    <3>2. After(history[i].write - 1)' = After(history[i].write - 1)
      BY <1>1, <1>2, <3>1 DEF After, Tells
    <3> QED
      BY <1>1, <1>2, <3>1, <3>2 DEF Tells, Content
  <2>2. \A i, j \in DOMAIN history' : history'[i].write = history'[j].write => i = j
    BY <1>1 DEF FacadeInv, Placed
  <2>3. \A d \in Clients : Holding(d)' =>
          /\ ~InHistory(Held(d))'
          /\ \A e \in Clients \ {d} : Holding(e)' => Held(e)' # Held(d)'
    BY <1>1, <1>3, <1>4, <1>6, <1>7 DEF FacadeInv, Placed
  <2>4. \A w \in DOMAIN log' :
          InHistory(w)' \/ w \in untold' \/ \E d \in Clients : Holding(d)' /\ Held(d)' = w
    BY <1>1, <1>2, <1>3, <1>4, <1>6 DEF FacadeInv, Placed
  <2> QED
    BY <2>1, <2>2, <2>3, <2>4 DEF Placed
<1> QED
  BY <1>1, <1>3, <1>5, <1>8 DEF FacadeInv
\* The slot is told of: the call holds its write on to the event, or the write is untold.
LEMMA SlotAuditedKeeps ==
  ASSUME FacadeInv, AuditInv', [Next]_vars, NEW c \in Clients, SlotAudited(c)
  PROVE  FacadeInv'
<1>0. PICK w : w = call[c].write
  OBVIOUS
<1>1. /\ facade[c].at = "writing" /\ call[c].at = "audit" /\ call'[c] = Idle /\ log' = log
      /\ history' = history /\ facade' = [d \in Clients |-> facade'[d]]
      /\ \A d \in Clients \ {c} : call'[d] = call[d] /\ facade'[d] = facade[d]
  BY DEF SlotAudited, AuditMemorySlot, FacadeInv, AuditInv, Computed
<1>2. \A d \in Clients \ {c} : Stage(d)' /\ Held(d)' = Held(d) /\ Holding(d)' = Holding(d)
  BY <1>1, StageKept
<1>3. Holding(c) /\ Held(c) = w /\ Stage(c)
  BY <1>0, <1>1 DEF Holding, Held, FacadeInv
<1>4. Tells(facade[c].action, facade[c].old, facade[c].text, facade[c].read, w)
  BY <1>3 DEF Stage
<1>5. \A x : InHistory(x)' = InHistory(x)
  BY <1>1 DEF InHistory
<1>6. EventsTell'
  BY <1>1 DEF FacadeInv, Placed, EventsTell, Tells, After, Content
<1>7. CASE facade'[c] = Outside /\ untold' = untold \cup {w}
  <2>1. Stage(c)' /\ ~Holding(c)'
    BY <1>1, <1>7 DEF Stage, Holding, Outside, Idle
  <2>2. \A d \in Clients : Holding(d)' =>
          /\ ~InHistory(Held(d))'
          /\ \A e \in Clients \ {d} : Holding(e)' => Held(e)' # Held(d)'
    BY <1>2, <1>5, <2>1 DEF FacadeInv, Placed
  <2>3. \A x \in DOMAIN log' :
          InHistory(x)' \/ x \in untold' \/ \E d \in Clients : Holding(d)' /\ Held(d)' = x
    BY <1>1, <1>2, <1>3, <1>5, <1>7 DEF FacadeInv, Placed
  <2>4. Placed'
    BY <1>1, <1>6, <2>2, <2>3 DEF FacadeInv, Placed
  <2> QED
    BY <1>1, <1>2, <2>1, <2>4 DEF FacadeInv
<1>8. CASE /\ facade'[c].at = "told" /\ facade'[c].action = facade[c].action
           /\ facade'[c].text = facade[c].text /\ facade'[c].old = facade[c].old
           /\ facade'[c].read = facade[c].read /\ facade'[c].write = w /\ untold' = untold
  <2>1. Holding(c)' = TRUE /\ Held(c)' = w
    BY <1>8 DEF Holding, Held
  <2>2. Tells(facade[c].action, facade[c].old, facade[c].text, facade[c].read, Held(c))'
    BY <1>1, <1>4, <1>8, <2>1 DEF Tells, After, Content
  <2>3. Stage(c)'
    BY <1>1, <1>8, <2>1, <2>2 DEF Stage, Idle
  <2>4. \A d \in Clients : Holding(d)' = Holding(d) /\ (Holding(d) => Held(d)' = Held(d))
    BY <1>2, <1>3, <2>1
  <2>5. \A d \in Clients : Holding(d)' =>
          /\ ~InHistory(Held(d))'
          /\ \A e \in Clients \ {d} : Holding(e)' => Held(e)' # Held(d)'
    BY <1>5, <2>4 DEF FacadeInv, Placed
  <2>6. \A x \in DOMAIN log' :
          InHistory(x)' \/ x \in untold' \/ \E d \in Clients : Holding(d)' /\ Held(d)' = x
    BY <1>1, <1>5, <1>8, <2>4 DEF FacadeInv, Placed
  <2>7. Placed'
    BY <1>1, <1>6, <2>5, <2>6 DEF FacadeInv, Placed
  <2> QED
    BY <1>1, <1>2, <2>3, <2>7 DEF FacadeInv
<1>9. \/ facade'[c] = Outside /\ untold' = untold \cup {w}
      \/ /\ facade'[c].at = "told" /\ facade'[c].action = facade[c].action
         /\ facade'[c].text = facade[c].text /\ facade'[c].old = facade[c].old
         /\ facade'[c].read = facade[c].read /\ facade'[c].write = w /\ untold' = untold
  BY <1>0 DEF SlotAudited, FacadeInv
<1> QED
  BY <1>7, <1>8, <1>9

\* The event of a write that has none yet, or its failure.
LEMMA RecordKeeps ==
  ASSUME FacadeInv, AuditInv', [Next]_vars, NEW c \in Clients, Record(c)
  PROVE  FacadeInv'
<1>0. PICK w : w = facade[c].write
  OBVIOUS
<1>1. /\ facade[c].at = "told" /\ facade'[c] = Outside /\ log' = log /\ call' = call
      /\ facade' = [d \in Clients |-> facade'[d]]
      /\ \A d \in Clients \ {c} : facade'[d] = facade[d]
  BY DEF Record, FacadeInv, vars
<1>2. \A d \in Clients \ {c} : Stage(d)' /\ Held(d)' = Held(d) /\ Holding(d)' = Holding(d)
  BY <1>1, StageKept
<1>3. Holding(c) /\ Held(c) = w /\ Stage(c) /\ call[c] = Idle
  BY <1>0, <1>1 DEF Holding, Held, FacadeInv, Stage
<1>4. Tells(facade[c].action, facade[c].old, facade[c].text, facade[c].read, w)
  BY <1>3 DEF Stage
<1>5. Stage(c)' /\ Holding(c)' = FALSE
  BY <1>1, <1>3 DEF Stage, Holding, Outside, Idle
<1>6. ~InHistory(w) /\ \A d \in Clients \ {c} : Holding(d) => Held(d) # w
  BY <1>3 DEF FacadeInv, Placed
<1>7. CASE untold' = untold \cup {w} /\ history' = history
  <2>1. \A x : InHistory(x)' = InHistory(x)
    BY <1>7 DEF InHistory
  <2>2. EventsTell'
    BY <1>1, <1>7 DEF FacadeInv, Placed, EventsTell, Tells, After, Content
  <2>3. \A d \in Clients : Holding(d)' =>
          /\ ~InHistory(Held(d))'
          /\ \A e \in Clients \ {d} : Holding(e)' => Held(e)' # Held(d)'
    BY <1>2, <1>5, <2>1 DEF FacadeInv, Placed
  <2>4. \A x \in DOMAIN log' :
          InHistory(x)' \/ x \in untold' \/ \E d \in Clients : Holding(d)' /\ Held(d)' = x
    BY <1>1, <1>2, <1>3, <1>7, <2>1 DEF FacadeInv, Placed
  <2>5. Placed'
    BY <1>7, <2>2, <2>3, <2>4 DEF FacadeInv, Placed
  <2> QED
    BY <1>1, <1>2, <1>5, <1>7, <2>5 DEF FacadeInv
<1>8. CASE history' = Append(history, EventOf(c)) /\ untold' = untold
  <2> DEFINE e == EventOf(c)
  <2>1. /\ e.action = facade[c].action /\ e.previous = facade[c].old /\ e.next = facade[c].text
        /\ e.read = facade[c].read /\ e.write = w
    BY <1>0 DEF EventOf, Old
  <2> HIDE DEF e
  <2>2. /\ Len(history) \in Nat /\ DOMAIN history = 1..Len(history)
        /\ DOMAIN history' = 1..Len(history) + 1 /\ history'[Len(history) + 1] = e
        /\ \A i \in 1..Len(history) : history'[i] = history[i]
    BY <1>8 DEF FacadeInv, e
  <2>3. history' \in Seq(Range(history'))
    <3>1. history \in Seq(Range(history) \cup {e}) /\ e \in Range(history) \cup {e}
      BY DEF FacadeInv
    <3>2. history' \in Seq(Range(history) \cup {e})
      BY <1>8, <3>1 DEF e
    <3> QED
      BY <3>2 DEF Range
  <2>4. \A x : InHistory(x)' <=> InHistory(x) \/ x = w
    BY <2>1, <2>2 DEF InHistory
  <2>5. EventsTell'
    <3> SUFFICES ASSUME NEW i \in 1..Len(history) + 1
                 PROVE  Tells(history[i].action, history[i].previous, history[i].next,
                              history[i].read, history[i].write)'
      BY <2>2 DEF EventsTell
    <3>1. CASE i = Len(history) + 1
      BY <1>1, <1>4, <2>1, <2>2, <3>1 DEF Tells, After, Content
    <3>2. CASE i # Len(history) + 1
      <4>1. i \in DOMAIN history /\ history'[i] = history[i]
        BY <2>2, <3>2
      <4>2. Tells(history[i].action, history[i].previous, history[i].next,
                  history[i].read, history[i].write)
        BY <4>1 DEF FacadeInv, Placed, EventsTell
      <4> QED
        BY <1>1, <4>1, <4>2 DEF Tells, After, Content
    <3> QED
      BY <3>1, <3>2
  <2>6. \A i, j \in DOMAIN history' : history'[i].write = history'[j].write => i = j
    BY <1>6, <2>1, <2>2 DEF FacadeInv, Placed, InHistory
  <2>7. \A d \in Clients : Holding(d)' =>
          /\ ~InHistory(Held(d))'
          /\ \A o \in Clients \ {d} : Holding(o)' => Held(o)' # Held(d)'
    <3> SUFFICES ASSUME NEW d \in Clients, Holding(d)'
                 PROVE  /\ ~InHistory(Held(d))'
                        /\ \A o \in Clients \ {d} : Holding(o)' => Held(o)' # Held(d)'
      OBVIOUS
    <3>1. d # c /\ Holding(d) /\ Held(d)' = Held(d) /\ Held(d) # w
      BY <1>2, <1>5, <1>6
    <3>2. ~InHistory(Held(d)) /\ \A i \in DOMAIN history : history[i].write # Held(d)
      BY <3>1 DEF FacadeInv, Placed, InHistory
    <3>3. \A i \in DOMAIN history' : history'[i].write # Held(d)
      BY <2>1, <2>2, <3>1, <3>2
    <3> QED
      BY <1>2, <1>5, <3>1, <3>3 DEF FacadeInv, Placed, InHistory
  <2>8. \A x \in DOMAIN log' :
          InHistory(x)' \/ x \in untold' \/ \E d \in Clients : Holding(d)' /\ Held(d)' = x
    BY <1>1, <1>2, <1>3, <1>8, <2>4 DEF FacadeInv, Placed
  <2>9. Placed'
    BY <2>5, <2>6, <2>7, <2>8 DEF Placed
  <2> QED
    BY <1>1, <1>2, <1>5, <2>3, <2>9 DEF FacadeInv
<1>9. \/ untold' = untold \cup {w} /\ history' = history
      \/ history' = Append(history, EventOf(c)) /\ untold' = untold
  BY <1>0 DEF Record
<1> QED
  BY <1>7, <1>8, <1>9
LEMMA FacadeInvInductive == FacadeInv /\ [FacadeNext]_allVars => FacadeInv'
<1> SUFFICES ASSUME FacadeInv, [FacadeNext]_allVars PROVE FacadeInv'
  OBVIOUS
<1>1. CASE UNCHANGED allVars
  <2>1. /\ row' = row /\ audit' = audit /\ call' = call /\ log' = log /\ lost' = lost
        /\ facade' = facade /\ history' = history /\ untold' = untold
    BY <1>1 DEF allVars, vars, facadeVars
  <2>2. AuditInv' /\ [Next]_vars
    BY <1>1, AuditInvInductive DEF FacadeInv, allVars
  <2>3. (\A c \in Clients : Stage(c))'
    BY <2>1, <2>2, StageKept
  <2>4. Placed'
    BY <2>1 DEF FacadeInv, Placed, EventsTell, Tells, After, Content, InHistory, Holding, Held
  <2> QED
    BY <2>1, <2>2, <2>3, <2>4 DEF FacadeInv
<1>2. CASE FacadeNext
  <2>1. [Next]_vars /\ AuditInv'
    BY <1>2, FacadeStepsSlot, AuditInvInductive DEF FacadeInv
  <2> SUFFICES ASSUME NEW c \in Clients,
                      \/ \E t \in Texts : Add(c, t) \/ Update(c, t)
                      \/ Delete(c) \/ Write(c) \/ SlotStep(c) \/ SlotAudited(c) \/ Record(c)
               PROVE  FacadeInv'
    BY <1>2 DEF FacadeNext
  <2>2. ASSUME NEW t \in Texts, Add(c, t) PROVE FacadeInv'
    BY <2>1, <2>2, SlotCallKeeps DEF Add, Outside
  <2>3. ASSUME NEW t \in Texts, Update(c, t) PROVE FacadeInv'
    BY <2>1, <2>3, GetKeeps DEF Update
  <2>4. ASSUME Delete(c) PROVE FacadeInv'
    BY <2>1, <2>4, GetKeeps DEF Delete
  <2>5. ASSUME Write(c) PROVE FacadeInv'
    <3>1. facade[c].at = "got" /\ Stage(c)
      BY <2>5 DEF Write, FacadeInv
    <3>2. call[c].at # "audit"
      BY <3>1 DEF Stage, Idle
    <3>3. facade[c].action # "add" /\ facade[c].read \in 0..Len(log)
          /\ facade[c].old = Content(After(facade[c].read))
      BY <3>1, <3>2 DEF Stage
    <3>4. CASE facade[c].action = "update"
      <4>1. SlotCall(c, "replace", facade[c].text, "update", facade[c].old, facade[c].read)
        BY <2>5, <3>4 DEF Write
      <4> QED
        BY <2>1, <3>1, <3>3, <4>1, SlotCallKeeps
    <3>5. CASE facade[c].action = "delete" /\ facade[c].text = NoContent
      <4>1. SlotCall(c, "delete", facade[c].text, "delete", facade[c].old, facade[c].read)
        BY <2>5, <3>5 DEF Write
      <4> QED
        BY <2>1, <3>1, <3>3, <3>5, <4>1, SlotCallKeeps
    <3> QED
      BY <3>1, <3>4, <3>5 DEF Stage
  <2>6. ASSUME SlotStep(c) PROVE FacadeInv'
    <3>1. CASE Upsert(c) /\ UNCHANGED facadeVars
      BY <2>1, <2>6, <3>1, UpsertKeeps DEF SlotStep
    <3>2. CASE UpsertFails(c) /\ facade' = [facade EXCEPT ![c] = Outside] /\ UNCHANGED <<history, untold>>
      <4>1. /\ call[c].at = "write" /\ call'[c] = Idle /\ facade'[c] = Outside
            /\ UNCHANGED <<log, history, untold>>
            /\ facade' = [d \in Clients |-> facade'[d]]
            /\ \A d \in Clients \ {c} : call'[d] = call[d] /\ facade'[d] = facade[d]
        BY <3>2 DEF UpsertFails, FacadeInv, AuditInv, Computed
      <4>2. ~Holding(c) /\ Stage(c)'
        BY <2>6, <4>1 DEF SlotStep, Holding, Stage, Outside, Idle
      <4> QED
        BY <2>1, <4>1, <4>2, NothingHeld DEF Outside, Idle
    <3> QED
      BY <2>6, <3>1, <3>2 DEF SlotStep, facadeVars
  <2> QED
    BY <2>1, <2>2, <2>3, <2>4, <2>5, <2>6, SlotAuditedKeeps, RecordKeeps
<1> QED
  BY <1>1, <1>2

LEMMA FacadeInvInit == FacadeInit => FacadeInv
<1> SUFFICES ASSUME FacadeInit PROVE FacadeInv
  OBVIOUS
<1>1. /\ AuditInv /\ facade = [c \in Clients |-> Outside] /\ history = <<>> /\ DOMAIN log = {}
      /\ \A c \in Clients : facade[c] = Outside /\ call[c] = Idle
  BY AuditInvInit DEF FacadeInit, Init
<1>2. \A c \in Clients : Stage(c) /\ ~Holding(c)
  BY <1>1 DEF Stage, Holding, Outside, Idle
<1>3. history \in Seq(Range(history)) /\ DOMAIN history = {}
  BY <1>1
<1>4. Placed
  BY <1>1, <1>2, <1>3 DEF Placed, EventsTell
<1> QED
  BY <1>1, <1>2, <1>3, <1>4 DEF FacadeInv

\* However the calls of the facade overlap and fail, the history names each
\* write once and says what it replaced, unless another write came between;
\* what no event names is under way or was told to its caller as an error
\* (memory_facade.go:165-178 and 190-205).
THEOREM HistoryTells == FacadeSpec => []HistoryTellsWrites
<1>1. FacadeInv => HistoryTellsWrites
  <2> SUFFICES ASSUME FacadeInv PROVE HistoryTellsWrites
    OBVIOUS
  <2>1. ASSUME NEW i \in DOMAIN history
        PROVE  /\ history[i].next = (IF history[i].action = "delete" THEN NoContent
                                     ELSE Content(log[history[i].write].row))
               /\ \/ history[i].action = "add"
                  \/ history[i].previous = Content(Before(history[i].write))
                  \/ history[i].read < history[i].write - 1
               /\ \A j \in DOMAIN history : history[j].write = history[i].write => i = j
    <3>1. Tells(history[i].action, history[i].previous, history[i].next, history[i].read,
                history[i].write)
      BY DEF FacadeInv, Placed, EventsTell
    <3>2. history[i].write \in 1..Len(log) /\ Len(log) \in Nat
      BY <3>1 DEF FacadeInv, AuditInv, Computed, Tells
    <3>3. Before(history[i].write) = After(history[i].write - 1)
      BY <3>2 DEF Before, After
    <3> QED
      BY <3>1, <3>3 DEF FacadeInv, Placed, Tells
  <2>2. ASSUME NEW w \in DOMAIN log
        PROVE  \/ \E i \in DOMAIN history : history[i].write = w
               \/ w \in untold
               \/ \E c \in Clients : \/ facade[c].at = "told" /\ facade[c].write = w
                                     \/ call[c].at = "audit" /\ call[c].write = w
    BY DEF FacadeInv, Placed, InHistory, Holding, Held
  <2> QED
    BY <2>1, <2>2 DEF HistoryTellsWrites
<1> QED
  BY <1>1, FacadeInvInit, FacadeInvInductive, PTL DEF FacadeSpec
=============================================================================
