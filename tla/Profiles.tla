------------------------------ MODULE Profiles -------------------------------
(***************************************************************************)
(* What is known of a peer. service/service.go and service/sql.go: the     *)
(* cards that hosts curate, of one workspace, profile and observer each.   *)
(* typedmemory/: the entries of one goroutine, typed, that age and that    *)
(* conflict. A card is a sequence of facts, and names are trimmed; a type  *)
(* and a content make the fact an entry states. They share nothing, and    *)
(* each is a behaviour of its own: CardsNext and TypedNext.                *)
(***************************************************************************)
EXTENDS Integers, Sequences, FiniteSets, FiniteSetsExt, TLC

CONSTANTS
  Workspaces, Own,      \* workspaces a host names, and the service's own
  ProfileIds,           \* profiles; "" is none
  Peers, Observer,      \* peers, "" for a blank name, and the default observer
  Cards, MaxFacts,      \* what hosts set, and maxPeerCardFacts
  MaxCards,             \* bound on the calls that set cards
  EntryIds,             \* IDs of entries; a blank one becomes a new one
  States,               \* [type, content, confidence, durability]: tenths
  Entries,              \* [of, updated, used]: what hosts tell; 0 for a time is none
  ActiveStale, DurableDecay,  \* 21 and 120 days
  MaxTime, Absent

VARIABLES
  cards,        \* goncho_peer_cards, by workspace, profile, observer and peer
  enabled,      \* peerCardEnabled
  calls,        \* history: what was called, in order
  entries,      \* TypedMemoryStore.entries
  clock,
  last,         \* history: what the last step was
  touched       \* history: when a call last asked for the entry, or its own stamp

cardVars == <<cards, enabled, calls>>
typedVars == <<entries, clock, last, touched>>

ProfilesInit ==
  /\ cards = <<>> /\ enabled \in BOOLEAN /\ calls = <<>>
  /\ entries = [i \in EntryIds |-> Absent] /\ clock = 1
  /\ last = "" /\ touched = [i \in EntryIds |-> 0]

-----------------------------------------------------------------------------
\* Peer cards

defaultPeerCardScope(peer) == <<Own, "", Observer, peer>>
directionalPeerCardScope(peer, target) == <<Own, "", peer, target>>
NamespaceScope(ns) == <<IF ns.workspace = "" THEN Own ELSE ns.workspace, ns.profile, Observer, ns.peer>>

normalizePeerCard(card) == SubSeq(card, 1, IF Len(card) > MaxFacts THEN MaxFacts ELSE Len(card))

upsertPeerCard(scope, card) == cards' = (scope :> card) @@ cards
getPeerCard(scope) == IF scope \in DOMAIN cards THEN cards[scope] ELSE <<>>

Told(call) == calls' = Append(calls, call) /\ UNCHANGED enabled
Sets == Cardinality({n \in DOMAIN calls : calls[n].form # "delete"})

\* A call with a blank name is refused.
SetProfile(peer, card) ==
  /\ Sets < MaxCards /\ peer # ""
  /\ upsertPeerCard(defaultPeerCardScope(peer), normalizePeerCard(card))
  /\ Told([form |-> "profile", of |-> <<peer>>, card |-> card])

SetProfileForTarget(peer, target, card) ==
  /\ Sets < MaxCards /\ "" \notin {peer, target}
  /\ upsertPeerCard(directionalPeerCardScope(peer, target), normalizePeerCard(card))
  /\ Told([form |-> "target", of |-> <<peer, target>>, card |-> card])

SetProfileInNamespace(ns, card) ==
  /\ Sets < MaxCards /\ ns.peer # ""
  /\ upsertPeerCard(NamespaceScope(ns), normalizePeerCard(card))
  /\ Told([form |-> "namespace", of |-> ns, card |-> card])

\* deleteLifecycleWorkspace: what the service's own workspace has, of any profile.
DeleteWorkspace ==
  /\ calls # <<>> /\ calls[Len(calls)].form # "delete"
  /\ cards' = [scope \in {s \in DOMAIN cards : s[1] # Own} |-> cards[scope]]
  /\ Told([form |-> "delete"])

\* A profile that is not enabled, or empty, says so in a hint.
Answered(card) ==
  [card |-> IF enabled THEN card ELSE <<>>,
   hint |-> IF ~enabled THEN "disabled" ELSE IF card = <<>> THEN "empty" ELSE ""]

Profile(peer) == Answered(getPeerCard(defaultPeerCardScope(peer)))
ProfileForTarget(peer, target) == Answered(getPeerCard(directionalPeerCardScope(peer, target)))
ProfileInNamespace(ns) == Answered(getPeerCard(NamespaceScope(ns)))
\* A context of a profile, and a chat, which has none, look the card up themselves.
ContextCard(profile, peer) == getPeerCard(<<Own, profile, Observer, peer>>)
ChatCard(peer) == getPeerCard(defaultPeerCardScope(peer))

Namespaces == [workspace : Workspaces \cup {""}, profile : ProfileIds, peer : Peers]

CardsNext ==
  \/ \E card \in Cards, peer \in Peers :
       \/ SetProfile(peer, card)
       \/ \E target \in Peers : SetProfileForTarget(peer, target, card)
  \/ \E card \in Cards, ns \in Namespaces : SetProfileInNamespace(ns, card)
  \/ DeleteWorkspace

-----------------------------------------------------------------------------
\* Typed memory

Stored == {i \in EntryIds : entries[i] # Absent}
SameFact(e, i) == entries[i].of.type = e.of.type /\ entries[i].of.content = e.of.content

InRange(e) == e.of.confidence \in 0..10 /\ e.of.durability \in 0..10

\* The entry is the store's from now on; a stamp of its own for its use is kept.
Create(i, e) ==
  [e EXCEPT !.updated = clock, !.used = IF @ = 0 THEN clock ELSE @]
\* What an operation of this name leaves; touched follows the times that calls told.
Became(op, new, told) ==
  /\ entries' = new /\ last' = op
  /\ touched' = [i \in EntryIds |-> IF new[i] = Absent THEN 0 ELSE told[i]]
  /\ UNCHANGED clock
Touched(i, at) == [touched EXCEPT ![i] = at]
ToldUse(e) == IF e.used = 0 THEN clock ELSE e.used

CreateEntry(i, e) ==
  InRange(e) /\ Became("create", [entries EXCEPT ![i] = Create(i, e)], Touched(i, ToldUse(e)))

\* Mutant: a reading leaves no trace.
LeftAlone(i) == entries[i]
Used(i) == [entries[i] EXCEPT !.used = clock]

Read(i) == i \in Stored /\ Became("read", [entries EXCEPT ![i] = Used(i)], Touched(i, clock))

\* The host's function changes what it likes; nothing is refused.
Update(i, s) ==
  /\ i \in Stored
  /\ Became("update", [entries EXCEPT ![i] = [of |-> s, updated |-> clock, used |-> clock]], Touched(i, clock))

Delete(i) == i \in Stored /\ Became("delete", [entries EXCEPT ![i] = Absent], touched)

shouldPrune(e) == clock - e.used > (IF e.of.durability < 5 THEN ActiveStale ELSE DurableDecay)
GetPruningCandidates == {i \in Stored : shouldPrune(entries[i])}

Prune ==
  Became("prune", [i \in EntryIds |-> IF i \in GetPruningCandidates THEN Absent ELSE entries[i]], touched)

\* Mutant: the one that is told last wins.
ToldLast(e, i) == entries[i].of.type = e.of.type
\* ResolveConflict: whether the incoming entry replaces the existing one. Entries of two
\* types do not conflict, and the one that is there stays.
IncomingWins(e, i) ==
  /\ entries[i].of.type = e.of.type
  /\ \/ e.of.confidence > entries[i].of.confidence
     \/ e.of.confidence = entries[i].of.confidence /\ e.updated > entries[i].updated

Conflicting(e) == {i \in Stored : SameFact(e, i)}

\* The entry under the ID, or any of its fact, for a map is read in no order. What the
\* winner takes the place of is deleted even if the winner was refused.
UpsertWithConflictResolution(i, e) ==
  LET wins(j, rest) ==
        IF ~IncomingWins(e, j) THEN Became("upsert", entries, touched)
        ELSE IF InRange(e) THEN Became("upsert", [rest EXCEPT ![i] = Create(i, e)], Touched(i, ToldUse(e)))
        ELSE Became("refused", rest, touched)
  IN \/ i \in Stored /\ wins(i, entries)
     \/ i \notin Stored /\ Conflicting(e) = {} /\ CreateEntry(i, e)
     \/ i \notin Stored /\ \E j \in Conflicting(e) : wins(j, [entries EXCEPT ![j] = Absent])

\* An entry that was read is told again: it wins over itself.
UpsertStored(i) ==
  /\ i \in Stored /\ InRange(entries[i])
  /\ Became("upsert", [entries EXCEPT ![i] = Create(i, entries[i])], touched)

Tick == clock < MaxTime /\ clock' = clock + 1 /\ last' = "" /\ UNCHANGED <<entries, touched>>

TypedNext ==
  \/ \E i \in EntryIds :
       \/ \E e \in {f \in Entries : f.updated <= clock /\ f.used <= clock} :
            CreateEntry(i, e) \/ UpsertWithConflictResolution(i, e)
       \/ \E s \in States : Update(i, s)
       \/ Read(i) \/ Delete(i) \/ UpsertStored(i)
  \/ Prune \/ Tick

-----------------------------------------------------------------------------
\* Properties

ProfilesTypeOK ==
  /\ enabled \in BOOLEAN /\ \A scope \in DOMAIN cards : Len(cards[scope]) <= MaxFacts
  /\ \A i \in Stored : entries[i].of \in States /\ {entries[i].updated, entries[i].used} \subseteq 1..MaxTime
  /\ clock \in 1..MaxTime

\* A card is read, through each form of call, in a context and in a chat, as any form of
\* call told it last for its workspace, profile, observer and peer - to say nothing of whom
\* stands for the default observer or the service's own workspace -, until the workspace is
\* deleted. A profile that has none says why; one that is disabled shows none, while a chat
\* and a context do (service.go:107-253, 323, retrieval_module.go:498).
About(call) ==
  CASE call.form = "profile" -> <<Own, "", Observer, call.of[1]>>
    [] call.form = "target" -> <<Own, "", call.of[1], call.of[2]>>
    [] call.form = "namespace" ->
         <<IF call.of.workspace = "" THEN Own ELSE call.of.workspace, call.of.profile, Observer, call.of.peer>>
    [] OTHER -> Absent
LastTold(scope) ==
  LET since == Max({0} \cup {n \in DOMAIN calls : calls[n].form = "delete" /\ scope[1] = Own})
      about == {n \in DOMAIN calls : n > since /\ About(calls[n]) = scope}
  IN IF about = {} THEN <<>> ELSE calls[Max(about)].card
CardsReadBack ==
  LET known(scope) == SubSeq(LastTold(scope), 1, Min({MaxFacts, Len(LastTold(scope))}))
      tells(answer, scope) ==
        /\ answer.card = (IF enabled THEN known(scope) ELSE <<>>)
        /\ answer.hint = "" <=> answer.card # <<>>
  IN /\ \A p \in Peers : tells(Profile(p), <<Own, "", Observer, p>>) /\ ChatCard(p) = known(<<Own, "", Observer, p>>)
     /\ \A p, t \in Peers : tells(ProfileForTarget(p, t), <<Own, "", p, t>>)
     /\ \A f \in ProfileIds, p \in Peers : ContextCard(f, p) = known(<<Own, f, Observer, p>>)
     /\ \A ns \in Namespaces : tells(ProfileInNamespace(ns), About([form |-> "namespace", of |-> ns]))

\* An upsert loses no fact: what it removes under another ID is there, from its entry, and
\* no less trusted, and what it replaces under its own is of the same type, and no more
\* trusted - but for an entry that is refused, whose rival is gone all the same
\* (conflict_resolution.go:67-78). A pruning takes nothing that a call used within the
\* shorter time, and leaves nothing that none used within the longer
\* (typed_memory.go:65-124).
TypedStep ==
  /\ last' = "upsert" =>
       \A i \in Stored :
         IF entries'[i] = Absent
         THEN \E j \in EntryIds :
                /\ entries'[j] # Absent /\ SameFact(entries'[j], i)
                /\ entries'[j].of.confidence >= entries[i].of.confidence
         ELSE /\ entries'[i].of.type = entries[i].of.type
              /\ entries'[i].of.confidence >= entries[i].of.confidence
  /\ last' = "prune" =>
       \A i \in Stored :
         /\ entries'[i] = Absent => clock - touched[i] > ActiveStale
         /\ entries'[i] # Absent => clock - touched[i] <= DurableDecay
=============================================================================
