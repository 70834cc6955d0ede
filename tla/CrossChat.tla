----------------------------- MODULE CrossChat ------------------------------
(***************************************************************************)
(* service/retrieval_module.go, service/memory.go and session/session.go:  *)
(* a search that found nothing else falls back to turns, those of the      *)
(* current chat or, asked for the scope of a user, those of every session  *)
(* of that user - if the current chat is known to be the user's. The       *)
(* directory of sessions is read twice, and chats are bound to other users *)
(* and turns stored meanwhile. Only turns that match the query are in the  *)
(* model; a chat key is a value with an origin, and sessions have names.   *)
(***************************************************************************)
EXTENDS Integers, Sequences, SequencesExt, FiniteSetsExt

CONSTANTS
  SessionIds,
  Chats,
  Origin,     \* the source of each chat, as its key tells it
  Users,
  Metas,      \* [session, chat, user, parent] a host may put into the directory
  Rows,       \* [session, chat] of turns
  Requests,   \* [user, key, scope, sources, sessions, limit]
  MaxPuts, MaxTurns

VARIABLES
  meta,       \* MemMap.meta: the metadata of each session, or none
  chatUsers,  \* MemMap.chatUsers: the user of each chat, or nobody
  turns,      \* table turns, in the order of its stamps
  directory,  \* whether the service has a session directory
  request, stage,
  listed,     \* metas: what the directory listed
  owner,      \* boundUserID: whose chat the current one is
  evidence, hits,
  puts        \* how often metadata was put; a bound

crossVars == <<meta, chatUsers, turns, directory, request, stage, listed, owner, evidence, hits, puts>>
world == <<meta, chatUsers, turns, directory, puts>>

Nobody == "nobody"
Nowhere == "nowhere"   \* no chat, no key, no parent
NoMeta == [session |-> Nowhere, chat |-> Nowhere, user |-> Nobody, parent |-> Nowhere]
SourceOf(chat) == IF chat \in Chats THEN Origin[chat] ELSE Nowhere

Undecided == [decision |-> "none", reason |-> "", sessions |-> {}]

CrossTypeOK ==
  /\ meta \in [SessionIds -> Metas \cup {NoMeta}]
  /\ chatUsers \in [Chats -> Users \cup {Nobody}]
  /\ \A i \in DOMAIN turns : turns[i] \in Rows
  /\ directory \in BOOLEAN /\ request \in Requests
  /\ stage \in {"begin", "list", "resolve", "messages", "turns", "done", "failed"}
  /\ listed \subseteq Metas /\ owner \in Users \cup {Nobody}
  /\ evidence.decision \in {"none", "allowed", "denied", "degraded"}
  /\ evidence.sessions \subseteq Metas

CrossInit ==
  /\ meta = [s \in SessionIds |-> NoMeta] /\ chatUsers = [c \in Chats |-> Nobody]
  /\ turns = <<>> /\ directory \in BOOLEAN /\ puts = 0
  /\ request \in Requests /\ stage = "begin"
  /\ listed = {} /\ owner = Nobody /\ evidence = Undecided /\ hits = <<>>

-----------------------------------------------------------------------------
\* The directory and the turns

\* PutMetadata: a chat gets the user of the last metadata that names both.
PutMetadata(m) ==
  /\ puts < MaxPuts /\ puts' = puts + 1
  /\ meta' = [meta EXCEPT ![m.session] = m]
  /\ chatUsers' = IF m.chat # Nowhere /\ m.user # Nobody
                  THEN [chatUsers EXCEPT ![m.chat] = m.user] ELSE chatUsers
  /\ UNCHANGED <<turns, directory, request, stage, listed, owner, evidence, hits>>

StoreTurn(r) ==
  /\ Len(turns) < MaxTurns
  /\ turns' = Append(turns, r)
  /\ UNCHANGED <<meta, chatUsers, directory, puts, request, stage, listed, owner, evidence, hits>>

ListMetadataByUserID(user) == {meta[s] : s \in {t \in SessionIds : meta[t].user = user}}

-----------------------------------------------------------------------------
\* Who may read what

metadataMatchesCurrent(m) == request.key # Nowhere /\ request.key \in {m.session, m.chat}

AllowsKindOrOrigin(origin) ==
  \/ request.sources = {} \/ "turn" \in request.sources
  \/ origin # Nowhere /\ origin \in request.sources

Passes(m) ==
  /\ m.user = request.user
  /\ AllowsKindOrOrigin(SourceOf(m.chat))
  /\ request.sessions = {} \/ m.session \in request.sessions

Denied(why) == [decision |-> "denied", reason |-> why, sessions |-> {}]

ExplainCrossChatRecall(metas) ==
  LET current == {m \in metas : metadataMatchesCurrent(m)}
      sessions == {m \in metas : Passes(m)}
  IN CASE \E m \in current : m.user = Nobody -> Denied("unresolved current binding")
       [] \E m \in current : m.user # request.user -> Denied("conflicting current binding")
       [] request.key # Nowhere /\ current = {} -> Denied("unknown current binding")
       [] sessions = {} -> Denied("unresolved user binding")
       [] OTHER -> [decision |-> "allowed", reason |-> "", sessions |-> sessions]

\* Mutant: sources and sessions are filtered in the evidence alone.
AllOfTheUser(metas) == {m \in metas : m.user = request.user}
\* selectMetadata, when it does not deny.
selectMetadata(metas) == {m \in metas : Passes(m)}
SelectDenies(metas) ==
  request.key # Nowhere /\
    LET current == {m \in metas : metadataMatchesCurrent(m)}
    IN current = {} \/ \E m \in current : m.user # request.user

\* crossChatEvidenceMetadata: a chat that is someone else's is a meta of its own.
\* Mutant: a binding of the chat to somebody else is not looked at.
Unasked(metas, user) == metas
Evidenced(metas, user) ==
  IF request.key \in Chats /\ user \notin {Nobody, request.user}
  THEN metas \cup {[session |-> request.key, chat |-> request.key, user |-> user, parent |-> Nowhere]}
  ELSE metas

-----------------------------------------------------------------------------
\* Lineage, from the metadata that was selected

ParentIn(metas, s) == IF \E m \in metas : m.session = s
                      THEN (CHOOSE m \in metas : m.session = s).parent ELSE Nowhere

\* Mutant: a parent that was not selected ends a lineage like a root.
Rootless(known, s) == "ok"
Beyond(known, s) == IF s \in known THEN "ok" ELSE "orphan"

\* statusFor
LineageStatus(metas, s) ==
  LET known == {m.session : m \in metas}
      walk[current \in SessionIds \cup {Nowhere}, seen \in SUBSET SessionIds] ==
        CASE current = Nowhere -> "ok"
          [] current \in seen -> "loop"
          [] Beyond(known, current) = "orphan" -> "orphan"
          [] OTHER -> walk[ParentIn(metas, current), seen \cup {current}]
  IN IF s \notin known THEN "unavailable" ELSE walk[ParentIn(metas, s), {s}]

Lineage(metas, s) ==
  [status |-> LineageStatus(metas, s),
   parent |-> ParentIn(metas, s),
   children |-> {m.session : m \in {n \in metas : n.parent = s}}]
Unavailable == [status |-> "unavailable", parent |-> Nowhere, children |-> {}]

-----------------------------------------------------------------------------
\* The search

Newest(rows) == SubSeq(Reverse(rows), 1, Min({Len(rows), request.limit}))

\* SearchMessages: the turns of the selected sessions, and of their chats.
SearchMessages(metas) ==
  LET selected == selectMetadata(metas)
      mine(t) == \E m \in selected : m.session = t.session \/ (t.chat # Nowhere /\ m.chat = t.chat)
      found == Newest(SelectSeq(turns, mine))
  IN [i \in DOMAIN found |-> [of |-> found[i], lineage |-> Lineage(selected, found[i].session)]]

\* findTurns: those of the current chat or session.
findTurns ==
  LET here(t) ==
        /\ request.key # Nowhere /\ request.key \in {t.chat, t.session}
        /\ AllowsKindOrOrigin(SourceOf(request.key))
        /\ request.sessions = {} \/ t.session \in request.sessions
      found == Newest(SelectSeq(turns, here))
  IN [i \in DOMAIN found |-> [of |-> found[i], lineage |-> Unavailable]]

BeginFallback ==
  /\ stage = "begin"
  /\ stage' = IF request.scope = "user" /\ directory THEN "list" ELSE "turns"
  /\ evidence' = IF request.scope = "user" /\ ~directory
                 THEN [Undecided EXCEPT !.decision = "degraded"] ELSE evidence
  /\ UNCHANGED <<world, request, listed, owner, hits>>

List ==
  /\ stage = "list" /\ stage' = "resolve"
  /\ listed' = ListMetadataByUserID(request.user)
  /\ UNCHANGED <<world, request, owner, evidence, hits>>

\* ResolveUserID, and the decision.
Resolve ==
  /\ stage = "resolve"
  /\ owner' = IF request.key \in Chats THEN chatUsers[request.key] ELSE Nobody
  /\ evidence' = ExplainCrossChatRecall(Evidenced(listed, owner'))
  /\ stage' = IF evidence'.decision = "allowed" /\ ~SelectDenies(listed) THEN "messages" ELSE "turns"
  /\ UNCHANGED <<world, request, listed, hits>>

ReadMessages ==
  /\ stage = "messages" /\ stage' = "done"
  /\ hits' = SearchMessages(listed)
  /\ UNCHANGED <<world, request, listed, owner, evidence>>

ReadTurns ==
  /\ stage = "turns" /\ stage' = "done"
  /\ hits' = findTurns
  /\ UNCHANGED <<world, request, listed, owner, evidence>>

FallbackFails ==
  /\ stage \notin {"begin", "done", "failed"} /\ stage' = "failed"
  /\ UNCHANGED <<world, request, listed, owner, evidence, hits>>

CrossNext ==
  \/ /\ stage \notin {"done", "failed"}
     /\ \/ \E m \in Metas : PutMetadata(m)
        \/ \E r \in Rows : StoreTurn(r)
  \/ BeginFallback \/ List \/ Resolve \/ ReadMessages \/ ReadTurns \/ FallbackFails

CrossSpec == CrossInit /\ [][CrossNext]_crossVars

-----------------------------------------------------------------------------
\* Properties

Here(t) == request.key # Nowhere /\ request.key \in {t.chat, t.session}

\* A search shows turns of another chat or session only if its evidence allows it and
\* lists the session or the chat they are of, under the filters that were asked for;
\* and it allows it only for a current chat that the directory listed as the user's
\* and, when it was asked, bound to nobody else. What binds chats in between changes
\* nothing (retrieval_module.go:333-446, memory.go:94-156, 246-284).
WidensAsExplained ==
  stage = "done" =>
    /\ \A i \in DOMAIN hits :
         LET t == hits[i].of
         IN Here(t) \/ \E m \in evidence.sessions :
                         m.session = t.session \/ (m.chat # Nowhere /\ m.chat = t.chat)
    /\ evidence.decision = "allowed" =>
         /\ \A m \in evidence.sessions : Passes(m)
         /\ request.key # Nowhere =>
              (\E m \in listed : m.user = request.user /\ metadataMatchesCurrent(m))
         /\ owner \in {Nobody, request.user}

\* The lineage of a hit tells the sessions it was searched with: it loops iff no number
\* of steps to a parent ends it, and is an orphan's iff it ends outside of them
\* (memory.go:289-366).
LineageTells ==
  stage = "done" /\ evidence.decision = "allowed" =>
    LET selected == evidence.sessions
        known == {m.session : m \in selected}
        up[n \in Nat, s \in SessionIds \cup {Nowhere}] ==
          IF n = 0 \/ s \notin known THEN s ELSE up[n - 1, ParentIn(selected, s)]
        top(s) == up[Cardinality(known) + 1, s]
        verdict(s) == CASE s \notin known -> "unavailable"
                        [] top(s) \in known -> "loop"
                        [] top(s) = Nowhere -> "ok"
                        [] OTHER -> "orphan"
    IN \A i \in DOMAIN hits :
         hits[i].lineage.status = verdict(hits[i].of.session)
=============================================================================
