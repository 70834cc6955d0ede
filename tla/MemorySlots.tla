----------------------------- MODULE MemorySlots -----------------------------
(***************************************************************************)
(* service/memory_slots.go: a named slot of a peer's memory, as one row of *)
(* SQLite. A call reads the row, writes the whole row back and audits it,  *)
(* in three statements without a transaction. Slots with other keys share  *)
(* nothing with this one.                                                  *)
(***************************************************************************)
EXTENDS Integers, Sequences, FiniteSets, SequencesExt

CONSTANTS
  Clients,   \* goroutines calling the slot API
  Texts,     \* the values of the calls, each used once
  MaxWrites  \* bound on the rows written

VARIABLES
  row,       \* the row of goncho_memory_slots, or NoRow
  audit,     \* the slot's observations: <<action, revision>>, in order
  call,      \* the call each client is in
  log,       \* history: the rows written, in order
  lost       \* history: writes whose observation failed

vars == <<row, audit, call, log, lost>>

Ops == {"create", "append", "replace", "delete"}
NoRow == [value |-> <<>>, revision |-> 0, deleted |-> TRUE]
Idle == [at |-> "idle"]
NoText == "none"

Row == [value : Seq(Texts), revision : 1..MaxWrites, deleted : BOOLEAN]

TypeOK ==
  /\ row \in Row \cup {NoRow}
  /\ audit \in Seq(Ops \X (1..MaxWrites))
  /\ \A c \in Clients : call[c].at \in {"idle", "write", "audit"}
  /\ \A i \in DOMAIN log : log[i].row \in Row /\ log[i].op \in Ops /\ log[i].seen < i
  /\ lost \subseteq DOMAIN log

Init ==
  /\ row = NoRow
  /\ audit = <<>>
  /\ call = [c \in Clients |-> Idle]
  /\ log = <<>>
  /\ lost = {}

Unused(t) ==
  /\ \A c \in Clients : call[c].at = "write" => call[c].text # t
  /\ \A i \in DOMAIN log : log[i].text # t

\* getMemorySlotRow without the deleted rows.
Live == row # NoRow /\ ~row.deleted

Read(c, op, text, next) ==
  /\ call[c] = Idle
  /\ call' = [call EXCEPT ![c] = [at |-> "write", op |-> op, text |-> text, row |-> next,
                                  seen |-> Len(log)]]
  /\ UNCHANGED <<row, audit, log, lost>>

\* Mutant: a slot starts at revision 0.
RevisionZero(t) == [value |-> <<t>>, revision |-> 0, deleted |-> FALSE]
NewSlot(t) == [value |-> <<t>>, revision |-> 1, deleted |-> FALSE]

\* A live slot is a conflict; a deleted one starts again.
CreateMemorySlot(c, t) == Unused(t) /\ ~Live /\ Read(c, "create", t, NewSlot(t))

\* The live row a call has read, changed.
Revised(value, deleted) ==
  [value |-> value, revision |-> row.revision + 1, deleted |-> deleted]

AppendMemorySlot(c, t) ==
  Unused(t) /\ Live /\ Read(c, "append", t, Revised(Append(row.value, t), FALSE))

ReplaceMemorySlot(c, t) ==
  Unused(t) /\ Live /\ Read(c, "replace", t, Revised(<<t>>, FALSE))

\* Mutant: the revision stays.
OnlyMarked == [row EXCEPT !.deleted = TRUE]
Tombstone == Revised(row.value, TRUE)

DeleteMemorySlot(c) == Live /\ Read(c, "delete", NoText, Tombstone)

\* Mutant: the update of a conflicting row leaves out deleted.
DeletedKept(c) ==
  IF row = NoRow THEN call[c].row ELSE [call[c].row EXCEPT !.deleted = row.deleted]
Stored(c) == call[c].row

\* upsertMemorySlotRow: the whole row, whatever was written since the read.
Upsert(c) ==
  /\ call[c].at = "write" /\ Len(log) < MaxWrites
  /\ row' = Stored(c)
  /\ log' = Append(log, [op |-> call[c].op, text |-> call[c].text, row |-> call[c].row,
                         seen |-> call[c].seen])
  /\ call' = [call EXCEPT ![c] = [at |-> "audit", op |-> call[c].op,
                                  revision |-> call[c].row.revision, write |-> Len(log) + 1]]
  /\ UNCHANGED <<audit, lost>>

UpsertFails(c) ==
  /\ call[c].at = "write"
  /\ call' = [call EXCEPT ![c] = Idle]
  /\ UNCHANGED <<row, audit, log, lost>>

\* Mutant: the observation names the revision that was read.
OldRevision(c) == <<call[c].op, call[c].revision - 1>>
Observation(c) == <<call[c].op, call[c].revision>>

\* The observation of a written row; when it fails the call does, the row stays.
AuditMemorySlot(c) ==
  /\ call[c].at = "audit"
  /\ \/ audit' = Append(audit, Observation(c)) /\ UNCHANGED lost
     \/ lost' = lost \cup {call[c].write} /\ UNCHANGED audit
  /\ call' = [call EXCEPT ![c] = Idle]
  /\ UNCHANGED <<row, log>>

Next ==
  \E c \in Clients :
    \/ \E t \in Texts : \/ CreateMemorySlot(c, t) \/ AppendMemorySlot(c, t)
                        \/ ReplaceMemorySlot(c, t)
    \/ DeleteMemorySlot(c)
    \/ Upsert(c) \/ UpsertFails(c) \/ AuditMemorySlot(c)

Spec == Init /\ [][Next]_vars

-----------------------------------------------------------------------------
\* Properties

\* Write j was computed from a row older than write i.
Missed(j, i) == log[j].seen < i

\* What a write did is still seen in the slot - its text is there, or the slot
\* is deleted - unless a later write started or replaced the value, or had
\* read the row before it (memory_slots.go:119-133, 286-297).
WritesLostOnlyToStaleOnes ==
  \A i \in DOMAIN log :
    (IF log[i].op = "delete" THEN Live ELSE ~Contains(row.value, log[i].text)) =>
      \E j \in DOMAIN log : j > i /\
        \/ Missed(j, i)
        \/ log[j].op = "create"
        \/ log[j].op = "replace" /\ log[i].op # "delete"

\* The revision identifies a version of a slot: from one create to the next,
\* a write has a greater revision than those it had read
\* (memory_slots.go:131, 158 and 185).
RevisionsTellVersions ==
  \A i, j \in DOMAIN log :
    i < j /\ ~Missed(j, i) /\ (\A k \in i+1..j : log[k].op # "create") =>
      \/ log[j].row.revision > log[i].row.revision
      \/ \E k \in i+1..j : Missed(k, i)

\* Every written row has its observation, with the same action and revision,
\* but for the calls still at it and those whose observation failed
\* (auditMemorySlot, memory_slots.go:307-327).
WritesAudited ==
  LET InAudit == {call[c].write : c \in {d \in Clients : call[d].at = "audit"}}
      Writes(op, rev) == {i \in DOMAIN log : log[i].op = op /\ log[i].row.revision = rev}
  IN
  \A op \in Ops, rev \in 1..MaxWrites :
    Cardinality(Writes(op, rev) \ (InAudit \cup lost))
      = Cardinality({n \in DOMAIN audit : audit[n] = <<op, rev>>})
=============================================================================
