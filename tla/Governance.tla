----------------------------- MODULE Governance ------------------------------
(***************************************************************************)
(* Who may read, write and decide. Tiers of memories and the grants over   *)
(* them (internal/memorypolicy); what child agents propose to remember and *)
(* to learn, and their parents decide (memory_proposals.go,                *)
(* skillproposals); what is extracted from a session's messages, and what  *)
(* a context says of the reviews that wait for an operator                 *)
(* (memory_extraction_proposals.go, reviewlog); and what an operator wants *)
(* every context to contain, and files memories under                      *)
(* (sentinels_facets.go). Each has its tables and is a behaviour of its    *)
(* own: AccessNext, ProposalsNext, ExtractNext, SentinelsNext, FacetsNext, *)
(* KeysNext, the keys of scopes (scopedkey) beside the modes of a server.  *)
(* Reviews has the interleaving of two calls that look for an open item.   *)
(***************************************************************************)
EXTENDS Integers, Sequences, SequencesExt, FiniteSets, FiniteSetsExt, TLC

CONSTANTS
  Agents, Workspaces,
  MemoryRows,    \* [id, workspace, agent, tier]: rows of goncho_memory_items
  Spelled,       \* spellings of tiers, and the tiers they spell
  Stamps, MaxProposals,
  Messages,      \* [peer, profile, marker, hedged, secret, subject, body]
  Conclusions,   \* [id, source, body, mentions]: what a search may find
  Others,        \* [kind, peer, session]: items of other subjects
  Peers, Profiles, Session, SessionKeys, Windows, DefaultWindow,
  ListMax, ListCap, Details, MaxItems, MaxMessages, Absent,
  Sentinels,     \* [id, peer, first, rest]: an expected text is its first word and the rest
  Viewed,        \* [id, workspace]: conclusions in the order of their creation
  FacetValues, MaxUpserts,
  Asked,         \* what keys are asked for with: scopes, expiry or 0, and credentials
  Trimmed,       \* spellings of scopes and secrets, and what is left of them
  Modes,         \* spellings of server modes, and the modes they spell
  Scopes,        \* [workspace, profile] of actors and of what they ask for
  MaxTime, MaxKeys

VARIABLES
  grants, active,                    \* rows of memory_acl; memories not tombstoned
  proposals, decided,                \* rows; history: decisions, and what their reviewers were answered
  messages, waiting, extracted,      \* of one session; review items; what was just extracted
  sentinels, facets, archived,       \* rows by ID; rows; conclusions that are not active
  upserts,                           \* history: the calls of UpsertSentinel that returned
  issued, time                       \* keys and what they were asked for with; half seconds

accessVars == <<grants, active>>
proposalVars == <<proposals, decided>>
extractVars == <<messages, waiting, extracted>>
operatorVars == <<sentinels, facets, archived, upserts>>
keyVars == <<issued, time>>

GovernanceInit ==
  /\ grants = {} /\ active = {m.id : m \in MemoryRows}
  /\ proposals = {} /\ decided = {}
  /\ messages = <<>> /\ waiting = <<>> /\ extracted = Absent
  /\ sentinels = <<>> /\ facets = {} /\ archived = {} /\ upserts = <<>>
  /\ issued = {} /\ time = 2

-----------------------------------------------------------------------------
\* Tiers and grants

\* From the broadest to the most governed.
Hierarchy == <<"global", "project", "task", "workspace", "decision">>
Tiers == ToSet(Hierarchy)

ValidTier(raw) == Spelled[raw] \in Tiers
NormalizeTier(raw) == IF ValidTier(raw) THEN Spelled[raw] ELSE "global"

ReadableBy(tier) ==
  {t \in Tiers : \E i, j \in DOMAIN Hierarchy : Hierarchy[i] = t /\ Hierarchy[j] = tier /\ i <= j}
WritableBy(isParent) == IF isParent THEN Tiers ELSE {"workspace"}
CanWrite(q, tier) == q.isParent \/ (tier = "workspace" /\ q.writeTier = "workspace")

\* Mutant: any permission lets its holder read.
AnyPermission(m, agent) == \E g \in grants : g.memory = m.id /\ g.agent = agent
Granted(m, agent) == [memory |-> m.id, agent |-> agent, permission |-> "read"] \in grants

AgentCanAccessMemory(m, agent, workspace, tiers) ==
  /\ m.id \in active
  /\ \/ Granted(m, agent)
     \/ m.workspace = workspace /\ m.tier \in tiers
     \/ m.workspace = workspace /\ m.agent = agent /\ m.tier = "workspace"

\* The clause of a query, of tombstones too; without a tier nothing is readable, whatever
\* is granted.
ReadScopeSQL(agent, workspace, tiers) ==
  LET shared == {g.memory : g \in {g \in grants : g.agent = agent /\ g.permission = "read"}}
      tiered == {m \in MemoryRows : m.workspace = workspace /\ m.tier \in tiers}
      own == {m \in MemoryRows : m.workspace = workspace /\ m.agent = agent /\ m.tier = "workspace"}
  IN IF tiers = {} THEN {} ELSE {m \in MemoryRows : m.id \in shared} \cup tiered \cup own

\* Grants of what is not read are rows of other programs.
GrantACL(m, agent, permission) ==
  /\ grants' = grants \cup {[memory |-> m.id, agent |-> agent, permission |-> permission]}
  /\ UNCHANGED active

RevokeACL(m, agent, permission) ==
  /\ grants' = grants \ {[memory |-> m.id, agent |-> agent, permission |-> permission]}
  /\ UNCHANGED active

Tombstone(m) == active' = active \ {m.id} /\ UNCHANGED grants

AccessNext ==
  \/ \E m \in MemoryRows, a \in Agents, p \in {"read", "propose"} : GrantACL(m, a, p) \/ RevokeACL(m, a, p)
  \/ \E m \in MemoryRows : Tombstone(m)

-----------------------------------------------------------------------------
\* Proposals

Kinds == {"fact", "preference", "decision", "observation", "report", "artifact"}

\* A proposal's ID is its child's and the clock's reading; a skill's only the time its
\* caller gives it.
Add(table, id, parent, stamp) ==
  /\ Cardinality(proposals) < MaxProposals
  /\ ~\E p \in proposals : p.table = table /\ p.id = id
  /\ proposals' = proposals \cup
       {[table |-> table, id |-> id, parent |-> parent, at |-> stamp, status |-> "pending",
         by |-> Absent, committed |-> Absent]}
  /\ UNCHANGED decided

SubmitProposal(child, parent, stamp, tier, kind) ==
  ValidTier(tier) /\ kind \in Kinds /\ Add("memory", <<child, stamp>>, parent, stamp)
SubmitSkillLearningProposal(stamp) == Add("skill", <<stamp>>, Absent, stamp)

\* Mutant: the last reviewer decides.
WhateverItsStatus(p) == TRUE
Pending(p) == p.status = "pending"

\* Any agent may review: an UPDATE of a row that is pending.  A memory's reviewer is
\* answered by it; a skill's reads the row back first.  A skill's table has no memory
\* that was committed.
Decide(p, status, by, committed) ==
  LET row == [p EXCEPT !.status = status, !.by = by, !.committed = committed] IN
    /\ Pending(p)
    /\ proposals' = (proposals \ {p}) \cup {row}
    /\ decided' = decided \cup
         {[of |-> row, answer |-> IF p.table = "skill" THEN Absent ELSE {row}]}

\* getSkillLearningProposal: it may fail, or find nothing.
GetSkillLearningProposal(id) == {p \in proposals : p.table = "skill" /\ p.id = id}
ReadBack(d) ==
  /\ d.of.table = "skill" /\ d.answer = Absent
  /\ \E answer \in {GetSkillLearningProposal(d.of.id), {}} :
       decided' = (decided \ {d}) \cup {[of |-> d.of, answer |-> answer]}
  /\ UNCHANGED proposals

AcceptProposal(p, by) ==
  \E committed \in {Absent, "memory"} :
    /\ p.table = "memory" \/ committed = Absent
    /\ Decide(p, "accepted", by, committed)
RejectProposal(p, by) == Decide(p, "rejected", by, Absent)

GetProposal(id) == {p \in proposals : p.table = "memory" /\ p.id = id}

\* policy/memory_proposals.go: the public package has statements of its own, over the same
\* table.
PolicySubmitProposal(child, parent, stamp, tier, kind) ==
  ValidTier(tier) /\ kind \in Kinds /\ Add("memory", <<child, stamp>>, parent, stamp)
PolicyAcceptProposal(p, by, committed) == p.table = "memory" /\ Decide(p, "accepted", by, committed)
PolicyRejectProposal(p, by) == p.table = "memory" /\ Decide(p, "rejected", by, Absent)
PolicyGetProposal(id) == GetProposal(id)
PolicyListPendingProposals(parent) ==
  {p \in proposals : p.table = "memory" /\ p.parent = parent /\ p.status = "pending"}

ProposalsNext ==
  \/ \E child, parent \in Agents, at \in Stamps, tier \in DOMAIN Spelled, kind \in Kinds \cup {"other"} :
       PolicySubmitProposal(child, parent, at, tier, kind)
  \/ \E p \in proposals, by \in Agents :
       \/ PolicyRejectProposal(p, by)
       \/ \E committed \in {Absent, "memory"} : PolicyAcceptProposal(p, by, committed)
  \/ \E child, parent \in Agents, at \in Stamps, tier \in DOMAIN Spelled :
       SubmitProposal(child, parent, at, tier, "fact")
  \/ \E at \in Stamps : SubmitSkillLearningProposal(at)
  \/ \E p \in proposals, by \in Agents : AcceptProposal(p, by) \/ RejectProposal(p, by)
  \/ \E d \in decided : ReadBack(d)

ListLimit(n) == IF n <= 0 \/ n > ListCap THEN ListMax ELSE n
ListPendingProposals(parent) ==
  {p \in proposals : p.table = "memory" /\ p.parent = parent /\ Pending(p)}
ListSkills(status, limit) ==
  LET found == {p \in proposals : p.table = "skill" /\ (status = "" \/ p.status = status)}
  IN {p \in found : Cardinality({q \in found : q.at > p.at}) < ListLimit(limit)}

-----------------------------------------------------------------------------
\* Extraction

AddMessage(m) ==
  /\ Len(messages) < MaxMessages
  /\ messages' = Append(messages, m)
  /\ extracted' = Absent /\ UNCHANGED waiting

\* The newest messages of the peer, and of the profile if one is named.
filterProposalMessagesByScope(peer, profile) ==
  SelectSeq([i \in DOMAIN messages |-> i],
            LAMBDA i : messages[i].peer = peer /\ profile \in {"", messages[i].profile})
selectProposalWindow(scoped, requested) ==
  LET window == IF requested <= 0 THEN DefaultWindow ELSE requested IN
    SubSeq(scoped, Max({1, Len(scoped) - window + 1}), Len(scoped))

Operation(marker) ==
  CASE marker \in {"remember", "preference", "procedure", "lesson"} -> "add"
    [] marker \in {"update", "supersede"} -> marker
    [] marker \in {"forget", "delete"} -> "delete"
    [] OTHER -> "noop"
Kind(marker) ==
  CASE marker = "preference" -> "preference"
    [] marker \in {"procedure", "lesson"} -> "procedure"
    [] OTHER -> "fact"

\* What searches of the subject find: conclusions that speak of it and say something else.
\* A search that fails finds nothing.
findContradictoryMemory(m, found) ==
  {h.id : h \in {h \in found : h.source = "conclusion" /\ h.body # m.body /\
                              m.subject # "" /\ m.subject \in h.mentions}}

\* Mutant: what is marked to be forgotten or changed is not looked at.
OnlyAdded(m, related) == Operation(m.marker) = "add" /\ (m.hedged \/ m.secret \/ related # {})
ReviewRequired(m, related) ==
  /\ Operation(m.marker) # "noop"
  /\ m.hedged \/ m.secret \/ related # {}

memoryProposalFromMessage(i, found) ==
  LET m == messages[i]
      plain == Operation(m.marker) = "add" /\ Kind(m.marker) = "fact" /\ ~m.hedged /\ ~m.secret
      related == IF plain THEN findContradictoryMemory(m, found) ELSE {}
  IN [operation |-> Operation(m.marker), kind |-> Kind(m.marker), body |-> m.body, evidence |-> i,
      related |-> related,
      status |-> IF ReviewRequired(m, related) THEN "review_required" ELSE "ready"]
memoryProposalID(p) == <<p.operation, p.kind, p.body, p.evidence>>

\* Mutant: an item is created for each call.
NoneOpen(peer, subject) == {}
OpenItems(peer, subject) ==
  {i \in DOMAIN waiting :
     /\ waiting[i].status = "open" /\ waiting[i].subject = subject
     /\ waiting[i].peer = peer /\ waiting[i].session = Session}

ReviewItem(kind, peer, session, subject, evidence) ==
  [kind |-> kind, peer |-> peer, session |-> session, subject |-> subject, evidence |-> evidence,
   status |-> "open"]

\* Nothing is written but the items of reviews; every subject names its message, so the
\* items of one call are of different subjects.
ExtractMemoryProposals(peer, profile, requested, found) ==
  LET chosen == selectProposalWindow(filterProposalMessagesByScope(peer, profile), requested)
      made == [k \in DOMAIN chosen |-> memoryProposalFromMessage(chosen[k], found)]
      new == SelectSeq(made, LAMBDA p : /\ p.status = "review_required"
                                        /\ OpenItems(peer, memoryProposalID(p)) = {})
  IN
    /\ Len(waiting) + Len(new) <= MaxItems
    /\ waiting' = waiting \o [k \in DOMAIN new |->
         ReviewItem("conflict", peer, Session, memoryProposalID(new[k]), <<new[k].evidence>>)]
    /\ extracted' = [of |-> <<peer, profile>>, made |-> made]
    /\ UNCHANGED messages

\* Items of other subjects, of any session or of none.
CreateReviewItem(o) ==
  /\ Len(waiting) < MaxItems
  /\ waiting' = Append(waiting, ReviewItem(o.kind, o.peer, o.session, <<>>, <<0, 0>>))
  /\ extracted' = Absent /\ UNCHANGED messages

ResolveReviewItem(i) ==
  /\ waiting[i].status = "open"
  /\ waiting' = [waiting EXCEPT ![i].status = "resolved"]
  /\ extracted' = Absent /\ UNCHANGED messages

ExtractNext ==
  \/ \E m \in Messages : AddMessage(m)
  \/ \E peer \in Peers, profile \in Profiles \cup {""}, n \in Windows, found \in SUBSET Conclusions :
       ExtractMemoryProposals(peer, profile, n, found)
  \/ \E o \in Others : CreateReviewItem(o)
  \/ \E i \in DOMAIN waiting : ResolveReviewItem(i)

-----------------------------------------------------------------------------
\* What a context says of open items

\* The newest first, up to the limit; a blank field does not restrict.
ListReviewItems(peer, subject, status, kind, limit) ==
  LET found == SelectSeq(Reverse([i \in DOMAIN waiting |-> i]),
        LAMBDA i : /\ peer \in {"", waiting[i].peer} /\ subject \in {Absent, waiting[i].subject}
                   /\ status \in {"", waiting[i].status} /\ kind \in {"", waiting[i].kind})
  IN SubSeq(found, 1, Min({Len(found), ListLimit(limit)}))

\* Mutant: items without a session belong to none.
OfThatSession(listed, session) == SelectSeq(listed, LAMBDA i : session \in {"", waiting[i].session})
ReviewItemsForContextSession(listed, session) ==
  SelectSeq(listed, LAMBDA i : session = "" \/ waiting[i].session \in {"", session})

FirstOf(s) == SubSeq(s, 1, Min({Len(s), Details}))
Distinct(s) == SelectSeq([i \in DOMAIN s |-> i], LAMBDA i : \A j \in 1..i - 1 : s[j] # s[i])
reviewItemEvidenceIDs(shown) ==
  LET all == FlattenSeq([k \in DOMAIN shown |-> waiting[shown[k]].evidence]) IN
    [k \in DOMAIN Distinct(all) |-> all[Distinct(all)[k]]]
reviewItemSessionKeys(shown) ==
  LET all == SelectSeq([k \in DOMAIN shown |-> waiting[shown[k]].session], LAMBDA s : s # "") IN
    [k \in DOMAIN Distinct(all) |-> all[Distinct(all)[k]]]

\* The newest open items of the peer are listed first, and then those of the session kept.
reviewContextUnavailableEvidence(peer, session) ==
  LET shown == ReviewItemsForContextSession(ListReviewItems(peer, Absent, "open", "", 0), session)
      evidence == reviewItemEvidenceIDs(shown)
      sessions == reviewItemSessionKeys(shown)
  IN IF shown = <<>> THEN Absent
     ELSE [count |-> Len(shown),
           conflicts |-> Cardinality({i \in ToSet(shown) : waiting[i].kind = "conflict"}),
           stale |-> Cardinality({i \in ToSet(shown) : waiting[i].kind = "stale"}),
           sessions |-> IF session # "" THEN <<session>> ELSE FirstOf(sessions),
           sessionsOmitted |-> IF session # "" THEN 0 ELSE Len(sessions) - Len(FirstOf(sessions)),
           items |-> FirstOf(shown), itemsOmitted |-> Len(shown) - Len(FirstOf(shown)),
           evidence |-> FirstOf(evidence), evidenceOmitted |-> Len(evidence) - Len(FirstOf(evidence))]

-----------------------------------------------------------------------------
\* Sentinels and facets of an operator

\* Without an ID of its own a sentinel is known by its text, in every workspace.
SentinelID(p) == IF p.id = 0 THEN <<p.first, p.rest>> ELSE <<p.id>>

\* Mutant: a sentinel that is there is kept.
IfNew(row, workspace, p) ==
  IF SentinelID(p) \in DOMAIN row THEN row[SentinelID(p)] ELSE [of |-> p, workspace |-> workspace, at |-> 0]
\* A row that is there stays in its workspace.
Upserted(row, workspace, p) ==
  [of |-> p, at |-> Len(upserts) + 1,
   workspace |-> IF SentinelID(p) \in DOMAIN row THEN row[SentinelID(p)].workspace ELSE workspace]

UpsertSentinel(workspace, p) ==
  /\ Len(upserts) < MaxUpserts
  /\ sentinels' = [id \in DOMAIN sentinels \cup {SentinelID(p)} |->
       IF id = SentinelID(p) THEN Upserted(sentinels, workspace, p) ELSE sentinels[id]]
  /\ upserts' = Append(upserts, [workspace |-> workspace, of |-> p])
  /\ UNCHANGED <<facets, archived>>

\* Mutant: a sentinel for everybody is one for a peer without a name.
ExactPeer(row, peer) == row.of.peer = peer
ForPeer(row, peer) == row.of.peer \in {"", peer}
activeSentinels(workspace, peer) ==
  {id \in DOMAIN sentinels : sentinels[id].workspace = workspace /\ ForPeer(sentinels[id], peer)}

\* A text is a set of words here, and contains what it has the words of.
Expected(id) == {sentinels[id].of.first, sentinels[id].of.rest}
sentinelContextWarnings(workspace, peer, context) ==
  {id \in activeSentinels(workspace, peer) : ~(Expected(id) \subseteq context)}
\* A recall is asked about a sentinel when its question has the first long word of it.
sentinelRecallWarnings(workspace, peer, query, selected) ==
  {id \in activeSentinels(workspace, peer) :
     sentinels[id].of.first \in query /\ ~(Expected(id) \subseteq query \cup selected)}

UpsertMemoryFacet(workspace, c, facet, value) ==
  /\ Cardinality(facets) < MaxUpserts
  /\ facets' = facets \cup {[workspace |-> workspace, stable |-> c, facet |-> facet, value |-> value]}
  /\ UNCHANGED <<sentinels, archived, upserts>>

ArchiveOrRestore(c) ==
  /\ archived' = SymDiff(archived, {c}) /\ UNCHANGED <<sentinels, facets, upserts>>

\* Mutant: facets of a conclusion of any workspace.
AnyWorkspace(c, facet, value) ==
  {f \in facets : f.stable = c.id /\ f.facet = facet /\ value \in {"", f.value}}
\* The rows a conclusion is joined with: one of each value, unless a value is asked for.
Joined(c, facet, value) ==
  {f \in facets : f.workspace = c.workspace /\ f.stable = c.id /\ f.facet = facet /\ value \in {"", f.value}}
ViewerMemoryReport(workspace, facet, value, limit) ==
  LET times(c) == IF facet = "" THEN 1 ELSE Cardinality(Joined(c, facet, value))
      newest == Reverse(SetToSortSeq({c \in Viewed : c.workspace = workspace /\ c.id \notin archived},
                                     LAMBDA c, d : c.id < d.id))
      items == FlattenSeq([i \in DOMAIN newest |-> [n \in 1..times(newest[i]) |-> newest[i].id]])
  IN SubSeq(items, 1, Min({ListLimit(limit), Len(items)}))

SentinelsNext == \E w \in Workspaces, p \in Sentinels : UpsertSentinel(w, p)
FacetsNext ==
  \/ \E w \in Workspaces, c \in Viewed, v \in FacetValues : UpsertMemoryFacet(w, c.id, "topic", v)
  \/ \E c \in Viewed : ArchiveOrRestore(c.id)

-----------------------------------------------------------------------------
\* Keys of scopes, and modes of a server

\* A time as a key tells it, in whole seconds.
RFC3339(t) == t - (t % 2)

Claims(p) ==
  [workspace |-> Trimmed[p.workspace], peer |-> Trimmed[p.peer], session |-> Trimmed[p.session],
   at |-> RFC3339(time), expires |-> IF p.expires = 0 THEN 0 ELSE RFC3339(p.expires)]
signature(claims, secret) == <<claims, secret>>
sign(claims, secret) == [claims |-> claims, signature |-> signature(claims, secret)]

\* Mutant: a scope of blanks is one.
Named(p) == {p.workspace, p.peer, p.session} # {""}
HasScope(p) == \E scope \in {p.workspace, p.peer, p.session} : Trimmed[scope] # ""

\* Create: with authentication on, by an administrator, for some scope, under a secret.
CreateScopedKey(p) ==
  /\ Cardinality(issued) < MaxKeys
  /\ p.auth /\ p.admin /\ HasScope(p) /\ Trimmed[p.secret] # ""
  /\ issued' = issued \cup {[asked |-> p, key |-> sign(Claims(p), p.secret)]}
  /\ UNCHANGED time

KeysNext ==
  \/ \E p \in Asked : CreateScopedKey(p)
  \/ time < MaxTime /\ time' = time + 1 /\ UNCHANGED issued

\* Mutant: a key is good at the time it expires, too.
ExpiredAfter(expires, now) == now > expires
isExpired(expires, now) == now >= expires
verifyExpiration(expires, now) == IF expires # 0 /\ isExpired(expires, now) THEN "expired" ELSE ""
VerifyScopedKey(key, secret, now) ==
  IF Trimmed[secret] = "" THEN "missing"
  ELSE IF key.signature # signature(key.claims, secret) THEN "invalid"
  ELSE verifyExpiration(key.claims.expires, now)

normalizeServerMode(raw) == IF Modes[raw] \in {"team-preview", "team-enabled"} THEN Modes[raw] ELSE "local-only"
\* A service normalizes its mode when it is made, and again when it is asked.
requireDistributedServerMode(mode) == normalizeServerMode(mode) = "team-enabled"
ServerModeCapabilityReport(raw) ==
  [capability |-> normalizeServerMode(raw), leases |-> normalizeServerMode(raw) = "team-enabled",
   signals |-> normalizeServerMode(raw) = "team-enabled", enforcement |-> normalizeServerMode(raw) = "team-enabled"]

\* An actor that names no workspace is of the one it asks for; one of no profile of none.
NormalizeActorScope(actor, target) ==
  [workspace |-> IF actor.workspace = "" THEN target.workspace ELSE actor.workspace, profile |-> actor.profile]
SameScope(actor, target) == NormalizeActorScope(actor, target) = target

-----------------------------------------------------------------------------
\* Properties

GovernanceTypeOK ==
  /\ grants \subseteq [memory : {m.id : m \in MemoryRows}, agent : Agents, permission : {"read", "propose"}]
  /\ \A p \in proposals : p.table \in {"memory", "skill"} /\ p.status \in {"pending", "accepted", "rejected"}
  /\ messages \in Seq(Messages) /\ Len(waiting) <= MaxItems

\* The check of one memory and the clause of a query agree on what an agent with a tier
\* reads: what was granted to it, its workspace up to its tier, and its own notes. A higher
\* tier reads no less, and what an agent may write is among what its kind may write
\* (policy.go:107-143, 164-173).
AccessAgrees ==
  /\ \A a \in Agents, w \in Workspaces, t \in Tiers :
       LET can == {m \in MemoryRows : AgentCanAccessMemory(m, a, w, ReadableBy(t))} IN
         /\ can = {m \in ReadScopeSQL(a, w, ReadableBy(t)) : m.id \in active}
         /\ \A u \in Tiers :
              t \in ReadableBy(u) => can \subseteq ReadScopeSQL(a, w, ReadableBy(u))
         /\ \A m \in can : m.workspace # w => Granted(m, a)
  /\ \A raw \in DOMAIN Spelled, parent \in BOOLEAN :
       {t \in Tiers : CanWrite([isParent |-> parent, writeTier |-> NormalizeTier(raw)], t)}
         \subseteq WritableBy(parent)

\* A proposal is decided by one reviewer and for good, whoever of the others asks while
\* that one still reads it back, and also if the reading fails; a reviewer who is answered
\* is told of the decision that stands. Until it is decided its parent finds it, or the
\* skills' list does unless newer ones fill it, and afterwards neither - whichever of the
\* two packages was called (proposals.go:172-223, policy/memory_proposals.go:170-223,
\* skillproposals/proposals.go:198-252).
DecidedOnce ==
  /\ \A p \in proposals :
       LET decisions == {d \in decided : d.of.table = p.table /\ d.of.id = p.id} IN
         IF Pending(p) THEN decisions = {}
         ELSE \E answer \in {Absent, {}, {p}} : decisions = {[of |-> p, answer |-> answer]}
  /\ \A p \in proposals :
       /\ p.committed # Absent => p.status = "accepted"
       /\ p.table = "memory" =>
            /\ p \in ListPendingProposals(p.parent) <=> Pending(p)
            /\ PolicyListPendingProposals(p.parent) = ListPendingProposals(p.parent)
            /\ GetProposal(p.id) = {p} /\ PolicyGetProposal(p.id) = {p}
       /\ p \in ListSkills("pending", 0) => Pending(p)
  /\ Cardinality(ListSkills("pending", 0)) =
       Min({ListMax, Cardinality({p \in proposals : p.table = "skill" /\ Pending(p)})})

\* However often a session is extracted from, a text that is private, hedged or contradicted
\* is never ready to be written, and waits under one open item
\* (memory_extraction_proposals.go:146-165, 211-227).
ExtractionsAgree ==
  /\ extracted # Absent =>
       \A k \in DOMAIN extracted.made :
         LET p == extracted.made[k]
             m == messages[p.evidence]
         IN
           /\ m.peer = extracted.of[1] /\ extracted.of[2] \in {"", m.profile}
           /\ p.status = "ready" /\ p.operation # "noop" => ~m.secret /\ ~m.hedged /\ p.related = {}
           /\ p.status = "review_required" =>
                \E i \in DOMAIN waiting : waiting[i].subject = memoryProposalID(p)
  /\ \A i, j \in DOMAIN waiting :
       i # j /\ waiting[i].subject = waiting[j].subject /\ waiting[i].subject # <<>> =>
         "resolved" \in {waiting[i].status, waiting[j].status}

\* A context tells of the open items of its peer and session, and of those of no session,
\* all of them unless more of the peer's are open than a list holds, and its parts add up
\* (log.go:170-240, retrieval_module.go:688-694).
ContextsTellWaiting ==
  \A peer \in Peers, session \in SessionKeys \cup {""} :
    LET told == reviewContextUnavailableEvidence(peer, session)
        open == {i \in DOMAIN waiting : waiting[i].status = "open" /\ waiting[i].peer = peer}
        mine == {i \in open : session = "" \/ waiting[i].session \in {"", session}}
        reached == {i \in mine : Cardinality({j \in open : j > i}) < ListMax}
    IN IF told = Absent THEN reached = {}
       ELSE /\ told.count = Cardinality(reached) /\ ToSet(told.items) \subseteq reached
            /\ told.conflicts + told.stale = told.count
            /\ Len(told.items) + told.itemsOmitted = told.count
            /\ Len(told.evidence) + told.evidenceOmitted =
                 Cardinality(UNION {ToSet(waiting[i].evidence) : i \in reached})
            /\ Len(told.sessions) + told.sessionsOmitted >=
                 Cardinality({waiting[i].session : i \in reached} \ {""})

\* A sentinel is watched for as it was told last, in the workspace that told of it first -
\* another one that tells of it is answered that it is active, and never warned - and a
\* recall warns of nothing that a context of what it selected would not warn of
\* (sentinels_facets.go:78-107, 124-157).
ToldOf(id) == {n \in DOMAIN upserts : SentinelID(upserts[n].of) = id}
Words == UNION {{p.first, p.rest} : p \in Sentinels}
SentinelsWatch ==
  \A w \in Workspaces, peer \in Peers, context \in SUBSET Words :
    LET warned == sentinelContextWarnings(w, peer, context)
        due(id) == LET last == upserts[Max(ToldOf(id))].of IN
                     /\ upserts[Min(ToldOf(id))].workspace = w
                     /\ last.peer \in {"", peer} /\ ~({last.first, last.rest} \subseteq context)
    IN /\ warned = {id \in {SentinelID(upserts[n].of) : n \in DOMAIN upserts} : due(id)}
       /\ \A query \in SUBSET Words : sentinelRecallWarnings(w, peer, query, context) \subseteq warned

\* The report of a facet lists active conclusions of its workspace that were filed under it
\* there, the newest first; with a value, each of them once, up to the limit
\* (sentinels_facets.go:180-229).
FacetsList ==
  \A w \in Workspaces, value \in FacetValues \cup {""}, limit \in 0..ListMax :
    LET listed == ViewerMemoryReport(w, "topic", value, limit)
        filed == {c.id : c \in {d \in Viewed :
                    /\ d.workspace = w /\ d.id \notin archived
                    /\ \E v \in FacetValues : value \in {"", v} /\
                         [workspace |-> w, stable |-> d.id, facet |-> "topic", value |-> v] \in facets}}
    IN /\ ToSet(listed) \subseteq filed
       /\ \A i, j \in DOMAIN listed : i < j => listed[i] >= listed[j]
       /\ value # "" => IsInjective(listed) /\ Len(listed) = Min({ListLimit(limit), Cardinality(filed)})

\* A key is good for its own secret, names a scope, and never outlives what it was asked
\* for with; being told in whole seconds, it ends less than one before. The report of a
\* server mode and the calls of leases agree on what is served, however the mode is spelled,
\* and no actor may read of two profiles (scopedkey.go:56-122, server_mode.go:14-30,
\* scope.go:13-23).
KeysHold ==
  /\ \A k \in issued, secret \in DOMAIN Trimmed, now \in 1..MaxTime :
       LET ends == k.asked.expires
           good == VerifyScopedKey(k.key, secret, now) = ""
       IN /\ good => secret = k.asked.secret /\ (ends = 0 \/ now < ends)
          /\ secret = k.asked.secret /\ (ends = 0 \/ now + 1 < ends) => good
          /\ \E scope \in {k.key.claims.workspace, k.key.claims.peer, k.key.claims.session} : scope # ""
  /\ \A raw \in DOMAIN Modes :
       ServerModeCapabilityReport(raw).leases <=> requireDistributedServerMode(normalizeServerMode(raw))
  /\ \A actor, s, t \in Scopes :
       SameScope(actor, s) /\ SameScope(actor, t) => s.profile = t.profile /\ (actor.workspace # "" => s = t)
=============================================================================
