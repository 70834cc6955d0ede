----------------------------- MODULE ActionGraph -----------------------------
(***************************************************************************)
(* service/action_graph.go, action_signal_receipts.go and team_feed.go: a  *)
(* graph of actions kept in SQLite, with the signals of its actions, their *)
(* receipts and a feed of them page by page; written and read statement by *)
(* statement, with no transaction around a call.                           *)
(***************************************************************************)
EXTENDS Integers, Sequences, FiniteSets

CONSTANTS
  Clients,              \* goroutines calling the action API
  Actions,              \* action IDs, in order; all created in one second
  Lists,                \* Lists[a]: the dependency lists a host gives to a
  Actors, Foreign,      \* actors of receipts and feeds, and those of another scope
  PageSizes,            \* the limits of a feed's pages
  MaxSignals, MaxGraphs \* bounds: signals, and graphs read

VARIABLES
  status,               \* goncho_actions.status, or "absent"
  deps,                 \* goncho_action_dependencies, by action
  signals,              \* goncho_action_signals: the action of each
  receipts,             \* goncho_action_signal_receipts: <<signal, actor>>
  audit,                \* the audit tables: decisions on receipts, and on feeds
  call,                 \* the call each client is in
  graphs,               \* graphs read so far
  last,                 \* history: the list of the last finished upsert
  torn,                 \* history: actions whose upserts overlapped or failed
  sealed,               \* history: completed with no upsert of them under way
  unaudited             \* history: receipts whose audit row failed

vars == <<status, deps, signals, receipts, audit, call, graphs, last, torn, sealed, unaudited>>

\* The lists of hosts that always give an action the one before it.
Chain == [a \in Actions |-> {{b \in Actions : b = a - 1}}]

Statuses == {"absent", "pending", "done"}
Idle == [at |-> "idle"]

TypeOK ==
  /\ status \in [Actions -> Statuses]
  /\ deps \in [Actions -> SUBSET Actions]
  /\ signals \in Seq(Actions)
  /\ receipts \subseteq (DOMAIN signals) \X Actors
  /\ audit \subseteq (Nat \X Actors) \X {"allowed", "denied"}
  /\ \A c \in Clients : call[c].at \in 
       {"idle", "node", "clear", "insert", "read", "receipt", "audit", "feed", "page", "fed"}
  /\ {torn, sealed} \subseteq SUBSET Actions

Init ==
  /\ status = [a \in Actions |-> "absent"]
  /\ deps = [a \in Actions |-> {}]
  /\ signals = <<>> /\ receipts = {} /\ audit = {}
  /\ call = [c \in Clients |-> Idle]
  /\ graphs = 0
  /\ last = [a \in Actions |-> {}]
  /\ torn = {} /\ sealed = {} /\ unaudited = {}

Enter(c, step) == call' = [call EXCEPT ![c] = step]
Return(c) == Enter(c, Idle)

Upserting(a) == {c \in Clients : call[c].at \in {"node", "clear", "insert"} /\ call[c].action = a}

\* A statement of an upsert fails and the call returns the error.
Fails(c) == torn' = torn \cup {call[c].action} /\ Return(c)

-----------------------------------------------------------------------------
\* UpsertAction

\* Mutant: an existing action is set to pending again.
AlwaysPending(a) == "pending"
StatusKept(a) == IF status[a] = "absent" THEN "pending" ELSE status[a]

\* getActionNode: an existing action keeps the status read here.
BeginUpsert(c, a, list) ==
  /\ call[c] = Idle
  /\ Enter(c, [at |-> "node", action |-> a, list |-> list, status |-> StatusKept(a)])
  /\ torn' = IF Upserting(a) = {} THEN torn ELSE torn \cup {a}
  /\ UNCHANGED <<status, deps, signals, receipts, audit, graphs, last, sealed, unaudited>>

UpsertNode(c) ==
  /\ call[c].at = "node"
  /\ \/ /\ status' = [status EXCEPT ![call[c].action] = call[c].status]
        /\ Enter(c, [call[c] EXCEPT !.at = "clear"])
        /\ UNCHANGED torn
     \/ Fails(c) /\ UNCHANGED status
  /\ UNCHANGED <<deps, signals, receipts, audit, graphs, last, sealed, unaudited>>

\* Mutant: the dependencies given before are not cleared.
NotCleared(a) == deps[a]
Cleared(a) == {}

ClearDeps(c) ==
  /\ call[c].at = "clear"
  /\ \/ /\ deps' = [deps EXCEPT ![call[c].action] = Cleared(call[c].action)]
        /\ Enter(c, [at |-> "insert", action |-> call[c].action, list |-> call[c].list,
                     todo |-> call[c].list])
        /\ UNCHANGED torn
     \/ Fails(c) /\ UNCHANGED deps
  /\ UNCHANGED <<status, signals, receipts, audit, graphs, last, sealed, unaudited>>

\* One row at a time; a row that is already there is a key conflict.
InsertDep(c, d) ==
  LET a == call[c].action IN
  /\ call[c].at = "insert" /\ d \in call[c].todo
  /\ \/ /\ d \notin deps[a]
        /\ deps' = [deps EXCEPT ![a] = @ \cup {d}]
        /\ Enter(c, [call[c] EXCEPT !.todo = @ \ {d}])
        /\ UNCHANGED torn
     \/ Fails(c) /\ UNCHANGED deps
  /\ UNCHANGED <<status, signals, receipts, audit, graphs, last, sealed, unaudited>>

FinishUpsert(c) ==
  /\ call[c].at = "insert" /\ call[c].todo = {}
  /\ last' = [last EXCEPT ![call[c].action] = call[c].list]
  /\ Return(c)
  /\ UNCHANGED <<status, deps, signals, receipts, audit, graphs, torn, sealed, unaudited>>

-----------------------------------------------------------------------------
\* CompleteAction and SignalAction

CompleteAction(a) ==
  /\ status[a] # "absent"
  /\ status' = [status EXCEPT ![a] = "done"]
  /\ sealed' = IF \E c \in Upserting(a) : call[c].at = "node" /\ call[c].status # "done"
               THEN sealed ELSE sealed \cup {a}
  /\ UNCHANGED <<deps, signals, receipts, audit, call, graphs, last, torn, unaudited>>

\* The action is looked up but may be missing.
SignalAction(a) ==
  /\ Len(signals) < MaxSignals
  /\ signals' = Append(signals, a)
  /\ UNCHANGED <<status, deps, receipts, audit, call, graphs, last, torn, sealed, unaudited>>

-----------------------------------------------------------------------------
\* RecordActionSignalReceipt

\* An actor of another scope leaves only its denial in the audit.
DenyReceipt(s, actor) ==
  /\ actor \in Foreign
  /\ audit' = audit \cup {<< <<s, actor>>, "denied" >>}
  /\ UNCHANGED <<status, deps, signals, receipts, call, graphs, last, torn, sealed, unaudited>>

\* Mutant: any signal ID is taken.
AnySignal(s) == TRUE

\* ensureActionSignalExists
SignalExists(s) == s \in DOMAIN signals

BeginReceipt(c, s, actor) ==
  /\ call[c] = Idle
  /\ actor \notin Foreign /\ SignalExists(s)
  /\ Enter(c, [at |-> "receipt", receipt |-> <<s, actor>>])
  /\ UNCHANGED <<status, deps, signals, receipts, audit, graphs, last, torn, sealed, unaudited>>

\* The row is stored and its id read back, or one of the two fails.
UpsertReceipt(c) ==
  /\ call[c].at = "receipt"
  /\ \/ /\ receipts' = receipts \cup {call[c].receipt}
        /\ \/ Enter(c, [call[c] EXCEPT !.at = "audit"]) /\ UNCHANGED unaudited
           \/ Return(c) /\ unaudited' = unaudited \cup {call[c].receipt}
     \/ Return(c) /\ UNCHANGED <<receipts, unaudited>>
  /\ UNCHANGED <<status, deps, signals, audit, graphs, last, torn, sealed>>

\* Mutant: recorded receipts are audited as denied.
AlwaysDenied == "denied"
AllowedDecision == "allowed"

AuditReceipt(c) ==
  /\ call[c].at = "audit"
  /\ \/ /\ audit' = audit \cup {<<call[c].receipt, AllowedDecision>>}
        /\ UNCHANGED unaudited
     \/ unaudited' = unaudited \cup {call[c].receipt} /\ UNCHANGED audit
  /\ Return(c)
  /\ UNCHANGED <<status, deps, signals, receipts, graphs, last, torn, sealed>>

-----------------------------------------------------------------------------
\* TeamFeed: the signals of the peer, newest first, page by page

\* The feed's rows are kept in the audit under no signal.
Feed == 0

FeedAllowed(actor, role) == role = "admin" \/ actor \notin Foreign

DenyFeed(actor, role) ==
  /\ PageSizes # {} /\ ~FeedAllowed(actor, role)
  /\ audit' = audit \cup {<< <<Feed, actor>>, "denied" >>}
  /\ UNCHANGED <<status, deps, signals, receipts, call, graphs, last, torn, sealed, unaudited>>

\* A client begins to follow the feed. upto and seen are history.
BeginFeed(c, actor, role) ==
  /\ call[c] = Idle /\ PageSizes # {}
  /\ FeedAllowed(actor, role)
  /\ Enter(c, [at |-> "feed", actor |-> actor, cursor |-> 0, upto |-> Len(signals),
               seen |-> {}, again |-> FALSE])
  /\ UNCHANGED <<status, deps, signals, receipts, audit, graphs, last, torn, sealed, unaudited>>

\* Mutant: the page begins with the row the cursor names.
FromCursor(id, cursor) == cursor = 0 \/ id <= cursor

\* id < cursor, when there is one.
BeforeCursor(id, cursor) == cursor = 0 \/ id < cursor

\* ORDER BY id DESC LIMIT n
Page(cursor, n) ==
  LET before == {id \in DOMAIN signals : BeforeCursor(id, cursor)}
  IN {id \in before : Cardinality({later \in before : later > id}) < n}

\* Mutant: the cursor is the row that was read to see that there is more.
CursorPastPage(more, page) ==
  IF more = page THEN 0 ELSE CHOOSE id \in more : id \notin page

\* NextCursor: the last row of the page, when one more row was found.
NextCursor(more, page) ==
  IF more = page THEN 0 ELSE CHOOSE id \in page : \A other \in page : id <= other

\* listTeamFeedEntries; the client's first page fixes what it is about to read.
ReadPage(c, n) ==
  LET r == call[c]
      page == Page(r.cursor, n)
  IN
  /\ r.at = "feed"
  /\ Enter(c, [at |-> "page", actor |-> r.actor,
               cursor |-> NextCursor(Page(r.cursor, n + 1), page),
               upto |-> IF r.cursor = 0 THEN Len(signals) ELSE r.upto,
               seen |-> r.seen \cup page, again |-> r.again \/ r.seen \cap page # {}])
  /\ UNCHANGED <<status, deps, signals, receipts, audit, graphs, last, torn, sealed, unaudited>>

\* The page is returned once its reading is audited; otherwise the client gets
\* the error, and no page.
AuditPage(c) ==
  /\ call[c].at = "page"
  /\ \/ /\ audit' = audit \cup {<< <<Feed, call[c].actor>>, AllowedDecision >>}
        /\ Enter(c, [call[c] EXCEPT !.at = IF call[c].cursor = 0 THEN "fed" ELSE "feed"])
     \/ Return(c) /\ UNCHANGED audit
  /\ UNCHANGED <<status, deps, signals, receipts, graphs, last, torn, sealed, unaudited>>

LeaveFeed(c) ==
  /\ call[c].at = "fed"
  /\ Return(c)
  /\ UNCHANGED <<status, deps, signals, receipts, audit, graphs, last, torn, sealed, unaudited>>

-----------------------------------------------------------------------------
\* ReadActionGraph

\* listActionNodes. settled is history: nothing of these actions' lists has
\* been torn or was being written since.
ListNodes(c) ==
  LET ids == {a \in Actions : status[a] # "absent"} IN
  /\ call[c] = Idle /\ graphs < MaxGraphs
  /\ graphs' = graphs + 1
  /\ Enter(c, [at |-> "read", nodes |-> ids, done |-> {a \in ids : status[a] = "done"},
               todo |-> ids, blocked |-> {}, expected |-> last,
               settled |-> {a \in ids : Upserting(a) = {} /\ a \notin torn}])
  /\ UNCHANGED <<status, deps, signals, receipts, audit, last, torn, sealed, unaudited>>

\* Mutant: a dependency that is no action is ignored.
MissingIgnored(ds, r) == ~(ds \cap r.nodes \subseteq r.done)
Blocks(ds, r) == ~(ds \subseteq r.done)

\* listActionDependencies of the next node.
ListDeps(c) ==
  LET r == call[c]
      a == CHOOSE x \in r.todo : \A y \in r.todo : x <= y
  IN
  /\ r.at = "read" /\ r.todo # {}
  /\ Enter(c, [at |-> "read", nodes |-> r.nodes, done |-> r.done, todo |-> r.todo \ {a},
               blocked |-> IF Blocks(deps[a], r) THEN r.blocked \cup {a} ELSE r.blocked,
               expected |-> r.expected,
               settled |-> IF Upserting(a) = {} /\ a \notin torn /\ last[a] = r.expected[a]
                           THEN r.settled ELSE r.settled \ {a}])
  /\ UNCHANGED <<status, deps, signals, receipts, audit, graphs, last, torn, sealed, unaudited>>

\* actionFrontier over what was listed; NextAction is its first.
Frontier(r) == r.nodes \ (r.done \cup r.blocked)

ReturnGraph(c) ==
  /\ call[c].at = "read" /\ call[c].todo = {}
  /\ Return(c)
  /\ UNCHANGED <<status, deps, signals, receipts, audit, graphs, last, torn, sealed, unaudited>>

ClientStep(c) ==
  \/ \E a \in Actions : \E list \in Lists[a] : BeginUpsert(c, a, list)
  \/ UpsertNode(c) \/ ClearDeps(c) \/ FinishUpsert(c)
  \/ \E d \in Actions : InsertDep(c, d)
  \/ \E s \in 1..MaxSignals, actor \in Actors : BeginReceipt(c, s, actor)
  \/ UpsertReceipt(c) \/ AuditReceipt(c)
  \/ ListNodes(c) \/ ListDeps(c) \/ ReturnGraph(c)

FeedNext ==
  \/ \E c \in Clients :
       \/ \E actor \in Actors, role \in {"", "admin"} : BeginFeed(c, actor, role)
       \/ \E n \in PageSizes : ReadPage(c, n)
       \/ AuditPage(c) \/ LeaveFeed(c)
  \/ \E actor \in Actors : DenyFeed(actor, "")
  \/ \E a \in Actions : SignalAction(a)

Next ==
  \/ \E c \in Clients : ClientStep(c)
  \/ \E a \in Actions : CompleteAction(a) \/ SignalAction(a)
  \/ \E s \in 1..MaxSignals, actor \in Actors : DenyReceipt(s, actor)
  \/ FeedNext

Spec == Init /\ [][Next]_vars

-----------------------------------------------------------------------------
\* Properties

\* An action completed while no UpsertAction of it holds an older status
\* stays done, whatever is upserted later (action_graph.go:127-130).
CompletionSticks == \A a \in sealed : status[a] = "done"

\* Between upserts an action has exactly the dependencies of the last one,
\* unless two upserts of it overlapped or one failed (action_graph.go:259-268).
DepsAreTheLastList ==
  \A a \in Actions : Upserting(a) = {} /\ a \notin torn => deps[a] = last[a]

\* A reading whose action was not being rewritten calls it blocked exactly
\* when a dependency of its last list was not done (actionFrontier,
\* action_graph.go:374-402).
FrontierTellsTheGraph ==
  \A c \in Clients : call[c].at = "read" =>
    \A a \in call[c].settled \ call[c].todo :
      a \in call[c].blocked <=> ~(call[c].expected[a] \subseteq call[c].done)

\* Every receipt is audited as allowed, but for the calls still at it or that
\* failed after storing it; a foreign actor has none
\* (RecordActionSignalReceipt, action_signal_receipts.go:125-161).
ReceiptsAudited ==
  \A r \in receipts :
    /\ r[2] \notin Foreign
    /\ \/ <<r, "allowed">> \in audit
       \/ r \in unaudited
       \/ \E c \in Clients : call[c].at = "audit" /\ call[c].receipt = r

\* The pages of a feed are all the signals there were at the first of them,
\* each once, though the limit may change from page to page and signals keep
\* coming; and nobody gets a page whose reading is not audited as allowed
\* (TeamFeed, team_feed.go:109-136 and :204-236).
FeedIsWhole ==
  \A c \in Clients :
    /\ call[c].at \in {"feed", "page", "fed"} /\ call[c].seen # {} =>
         /\ ~call[c].again
         /\ call[c].seen = (IF call[c].cursor = 0 THEN 1 ELSE call[c].cursor)..call[c].upto
    /\ call[c].at = "fed" \/ (call[c].at = "feed" /\ call[c].seen # {}) =>
         << <<Feed, call[c].actor>>, "allowed" >> \in audit

\* "`graph.Frontier` for unblocked actions" (goncho-adapter-api.md:290): when
\* a host always gives an action the same list, no action of a frontier has a
\* dependency of that list that was not done.
FrontierIsUnblocked ==
  \A c \in Clients : call[c].at = "read" /\ call[c].todo = {} =>
    \A a \in Frontier(call[c]) : \E list \in Lists[a] : list \subseteq call[c].done
=============================================================================
