---------------------------- MODULE MemoryLedger ----------------------------
(***************************************************************************)
(* What the write queue promises its callers, with no mutex, no goroutines *)
(* and no seams: memories enter the store one at a time, a relation is     *)
(* only ever recorded between the newest memory and an older one, and a    *)
(* cancellation accepted before its write began is spent by refusing that  *)
(* write.                                                                  *)
(***************************************************************************)
EXTENDS Sequences, Functions

CONSTANT Ids            \* memory IDs

VARIABLES
  store,                \* the memories, in the order they were written
  links,                \* the pairs <<newer, older>> a relation joins
  promised              \* IDs whose accepted cancellation is still owed

ledgerVars == <<store, links, promised>>

Older(s) == Range(s) \ {s[Len(s)]}

LedgerInit ==
  /\ store = <<>>
  /\ links = {}
  /\ promised = {}

\* A memory is written; a memory whose cancellation is owed never is.
Write(id) ==
  /\ id \notin promised
  /\ store' = Append(store, id)
  /\ UNCHANGED <<links, promised>>

\* Relations of the newest memory, and of no other, are recorded.
Relate ==
  /\ store # <<>>
  /\ \E S \in SUBSET ({store[Len(store)]} \X Older(store)) : links' = links \cup S
  /\ UNCHANGED <<store, promised>>

\* A cancellation is accepted in time, and later spent.
Withdraw(id) ==
  /\ promised' = promised \cup {id}
  /\ UNCHANGED <<store, links>>

Refuse(id) ==
  /\ id \in promised
  /\ promised' = promised \ {id}
  /\ UNCHANGED <<store, links>>

LedgerNext ==
  \/ \E id \in Ids : Write(id) \/ Withdraw(id) \/ Refuse(id)
  \/ Relate

LedgerSpec == LedgerInit /\ [][LedgerNext]_ledgerVars
=============================================================================
