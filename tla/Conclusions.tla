---------------------------- MODULE Conclusions -----------------------------
(***************************************************************************)
(* The conclusions of a workspace and those who change them: hosts tell    *)
(* and delete them (conclusion_module.go), retention archives what is old  *)
(* (retention_policy.go), a dream compresses what is alike                 *)
(* (dream_compression.go) and a consolidation derives new ones             *)
(* (four_tier_consolidation.go). Every statement commits alone; the one    *)
(* connection lets them take turns. Images, which retention archives too,  *)
(* have a table of their own and one row per checksum.                     *)
(***************************************************************************)
EXTENDS Integers, Sequences, FiniteSets, SequencesExt, FiniteSetsExt, TLC

CONSTANTS
  Clients,    \* goroutines calling the service
  Peers,      \* who the conclusions are about
  Texts,      \* what hosts tell
  Alike,      \* pairs of texts with a wordSimilarity above 0.6, in both orders
  Length,     \* the length of each text
  Tiers,      \* texts of the consolidations of the turns
  MaxWraps,   \* consolidations of consolidations until compactText cuts the text
  Images,     \* checksums of images
  Limits,     \* values of PerWorkspaceLimit; 0 is none
  MaxRows     \* bound on the conclusions ever stored

VARIABLES
  rows,       \* goncho_conclusions
  nextId,     \* the AUTOINCREMENT sequence
  horizon,    \* rows up to this ID are older than MaxAge
  images,     \* the status of each image, or Absent
  audits,     \* how often each target was audited
  running,    \* the call each client is in
  told,       \* history: contents a Conclude has stored
  forgotten,  \* history: a host deleted a conclusion
  unlogged    \* history: targets archived by a call that failed to audit them

conclusionVars == <<rows, nextId, horizon, images, audits, running, told, forgotten, unlogged>>

Waiting == [at |-> "waiting"]
Absent == "absent"
NoneYet == "none"   \* "no prior semantic conclusion available"
Content == [text : Texts \cup Tiers \cup {NoneYet}, wraps : 0..MaxWraps]
Row == [id : 1..MaxRows, peer : Peers, content : Content,
        status : {"processed", "archived"}]
Targets == (1..MaxRows) \cup Images

ConclusionsTypeOK ==
  /\ rows \subseteq Row /\ nextId \in 1..MaxRows+1
  /\ horizon \in 0..MaxRows
  /\ images \in [Images -> {Absent, "deferred", "archived"}]
  /\ audits \in [Targets -> Nat] /\ unlogged \subseteq Targets
  /\ told \subseteq Content /\ forgotten \in BOOLEAN
  /\ \A c \in Clients : running[c].at \in {"waiting", "image", "preview",
                                           "archive", "audit", "tombstone", "derive"}

ConclusionsInit ==
  /\ rows = {} /\ nextId = 1 /\ horizon = 0
  /\ images = [i \in Images |-> Absent]
  /\ audits = [t \in Targets |-> 0]
  /\ running = [c \in Clients |-> Waiting]
  /\ told = {} /\ forgotten = FALSE /\ unlogged = {}

Go(c, k) == running' = [running EXCEPT ![c] = k]
Finish(c) == Go(c, Waiting)

Bare(t) == [text |-> t, wraps |-> 0]
ContentLength(x) == (IF x.text \in Texts THEN Length[x.text] ELSE 0) + x.wraps
Similar(x, y) == x.text = y.text \/ <<x.text, y.text>> \in Alike
ById(S) == SetToSortSeq(S, LAMBDA r, s : r.id < s.id)

-----------------------------------------------------------------------------
\* Hosts

\* upsertConclusion: the same content of a peer keeps its row, its age and its
\* status; only updated_at changes.
Upsert(peer, content) ==
  IF \E r \in rows : r.peer = peer /\ r.content = content
  THEN UNCHANGED <<rows, nextId>>
  ELSE /\ nextId <= MaxRows
       /\ rows' = rows \cup {[id |-> nextId, peer |-> peer, content |-> content,
                              status |-> "processed"]}
       /\ nextId' = nextId + 1

\* Conclude, and every conclusion of ExecuteDreamFactExtraction. Its annotations
\* follow in statements of their own, and go with the row (ON DELETE CASCADE);
\* that it cancels the pending dreams is in DreamScheduler.
Conclude(c, peer, text) ==
  /\ running[c] = Waiting
  /\ Upsert(peer, Bare(text))
  /\ told' = told \cup {Bare(text)}
  /\ UNCHANGED <<horizon, images, audits, running, forgotten, unlogged>>

DeleteRow(id) == rows' = {r \in rows : r.id # id}

DeleteConclusion(c, id) ==
  /\ running[c] = Waiting /\ \E r \in rows : r.id = id
  /\ DeleteRow(id) /\ forgotten' = TRUE
  /\ UNCHANGED <<horizon, nextId, images, audits, running, told, unlogged>>

\* Time passes.
GetsOld ==
  /\ horizon < nextId - 1 /\ horizon' = horizon + 1
  /\ UNCHANGED <<rows, nextId, images, audits, running, told, forgotten, unlogged>>

\* StoreImageMemory: a known checksum is a replay, whatever its status.
StoreImageMemory(c, image) ==
  /\ running[c] = Waiting /\ images[image] = Absent
  /\ Go(c, [at |-> "image", image |-> image])
  /\ UNCHANGED <<horizon, rows, nextId, images, audits, told, forgotten, unlogged>>

\* The unique checksum refuses a second row.
InsertImage(c) ==
  /\ running[c].at = "image"
  /\ images' = [images EXCEPT ![running[c].image] = IF @ = Absent THEN "deferred" ELSE @]
  /\ Finish(c)
  /\ UNCHANGED <<horizon, rows, nextId, audits, told, forgotten, unlogged>>

-----------------------------------------------------------------------------
\* Retention

Processed(r) == r.status = "processed"
AgedOut == ById({r \in rows : r.id <= horizon /\ Processed(r)})
LiveImages == SetToSeq({i \in Images : images[i] = "deferred"})

FirstOf(s, limit) == IF limit = 0 THEN s ELSE SubSeq(s, 1, Min({limit, Len(s)}))

\* retentionCandidates, in two queries: first the conclusions.
PreviewRetention(c) ==
  /\ running[c] = Waiting
  /\ Go(c, [at |-> "preview", targets |-> [i \in DOMAIN AgedOut |-> AgedOut[i].id]])
  /\ UNCHANGED <<horizon, rows, nextId, images, audits, told, forgotten, unlogged>>

\* Then the images, if their directory is over budget; a policy that only previews
\* ends here.
PreviewImages(c) ==
  /\ running[c].at = "preview"
  /\ \E over \in BOOLEAN, limit \in Limits :
       LET targets == FirstOf(running[c].targets \o IF over THEN LiveImages ELSE <<>>, limit)
       IN IF targets = <<>> THEN Finish(c) ELSE Go(c, [at |-> "archive", targets |-> targets])
  /\ UNCHANGED <<horizon, rows, nextId, images, audits, told, forgotten, unlogged>>

NextTarget(c, rest) == IF rest = <<>> THEN Waiting ELSE [at |-> "archive", targets |-> rest]

\* Mutant: a row that is archived already is archived again.
AnyRow(t) == t \in Images \/ \E r \in rows : r.id = t
StillLive(t) ==
  IF t \in Images THEN images[t] = "deferred" ELSE \E r \in rows : r.id = t /\ Processed(r)

\* ApplyRetention: what is not live any more is passed over, without an audit.
Archive(c) ==
  /\ running[c].at = "archive"
  /\ LET t == Head(running[c].targets) IN
     IF StillLive(t)
     THEN /\ rows' = {IF r.id = t THEN [r EXCEPT !.status = "archived"] ELSE r : r \in rows}
          /\ images' = [i \in Images |-> IF i = t THEN "archived" ELSE images[i]]
          /\ Go(c, [running[c] EXCEPT !.at = "audit"])
     ELSE /\ Go(c, NextTarget(c, Tail(running[c].targets)))
          /\ UNCHANGED <<rows, images>>
  /\ UNCHANGED <<horizon, nextId, audits, told, forgotten, unlogged>>

\* insertRetentionAudit; when it fails the call does, and the target stays archived.
Audit(c) ==
  /\ running[c].at = "audit"
  /\ LET t == Head(running[c].targets) IN
     \/ /\ audits' = [audits EXCEPT ![t] = @ + 1]
        /\ Go(c, NextTarget(c, Tail(running[c].targets)))
        /\ UNCHANGED unlogged
     \/ /\ unlogged' = unlogged \cup {t}
        /\ Finish(c)
        /\ UNCHANGED audits
  /\ UNCHANGED <<horizon, rows, nextId, images, told, forgotten>>

-----------------------------------------------------------------------------
\* Compression

Pairs(n) == SetToSortSeq({p \in (1..n) \X (1..n) : p[1] < p[2]},
                         LAMBDA p, q : p[1] < q[1] \/ (p[1] = q[1] /\ p[2] < q[2]))

\* Mutant: the longer one is marked too.
BothMarked(s, i, j) ==
  [list |-> [s.list EXCEPT ![i] = s.list[j]], dead |-> s.dead \cup {s.list[i].id, s.list[j].id}]
\* The longer one takes the place of the shorter.
Replaced(s, i, j) ==
  [list |-> [s.list EXCEPT ![i] = s.list[j]], dead |-> s.dead \cup {s.list[i].id}]

Compared(s, pair) ==
  LET i == pair[1]
      j == pair[2]
      x == s.list[i].content
      y == s.list[j].content
  IN IF s.list[i].id \in s.dead \/ s.list[j].id \in s.dead \/ ~Similar(x, y) THEN s
     ELSE IF ContentLength(y) > ContentLength(x) THEN Replaced(s, i, j)
     ELSE [s EXCEPT !.dead = @ \cup {s.list[j].id}]

\* The rows to delete, of any peer and status.
Tombstoned(list) == FoldLeft(Compared, [list |-> list, dead |-> {}], Pairs(Len(list))).dead

\* ExecuteDreamCompression reads all conclusions, in the order they were created,
BeginCompression(c) ==
  /\ running[c] = Waiting
  /\ LET dead == Tombstoned(ById(rows))
     IN dead # {} /\ Go(c, [at |-> "tombstone", dead |-> dead])
  /\ UNCHANGED <<horizon, rows, nextId, images, audits, told, forgotten, unlogged>>

\* and deletes the tombstoned by their IDs, in any order; a failure is logged.
Tombstone(c) ==
  /\ running[c].at = "tombstone"
  /\ \E id \in running[c].dead :
       /\ \/ DeleteRow(id)
          \/ UNCHANGED rows
       /\ Go(c, IF running[c].dead = {id} THEN Waiting ELSE [running[c] EXCEPT !.dead = @ \ {id}])
  /\ UNCHANGED <<horizon, nextId, images, audits, told, forgotten, unlogged>>

-----------------------------------------------------------------------------
\* Consolidation

\* firstConclusionContent, of any peer, wrapped once more; compactText cuts it.
Semantic ==
  LET first == IF rows = {} THEN Bare(NoneYet) ELSE Head(ById(rows)).content
  IN [first EXCEPT !.wraps = Min({MaxWraps, @ + 1})]

\* ExecuteFourTierConsolidation reads the turns and the conclusions.
BeginConsolidation(c, peer) ==
  /\ running[c] = Waiting
  /\ LET turns == SetToSeq(Tiers)
     IN Go(c, [at |-> "derive", peer |-> peer,
               contents |-> Append([i \in DOMAIN turns |-> Bare(turns[i])], Semantic)])
  /\ UNCHANGED <<horizon, rows, nextId, images, audits, told, forgotten, unlogged>>

\* persistConsolidatedMemory, one tier after the other.
Derive(c) ==
  /\ running[c].at = "derive"
  /\ Upsert(running[c].peer, Head(running[c].contents))
  /\ LET rest == Tail(running[c].contents)
     IN Go(c, IF rest = <<>> THEN Waiting ELSE [running[c] EXCEPT !.contents = rest])
  /\ UNCHANGED <<horizon, images, audits, told, forgotten, unlogged>>

-----------------------------------------------------------------------------
\* A statement fails, or the caller gives up: what is committed stays.
Fails(c) ==
  /\ running[c].at \in {"image", "preview", "archive", "derive"}
  /\ Finish(c)
  /\ UNCHANGED <<horizon, rows, nextId, images, audits, told, forgotten, unlogged>>

ConclusionsNext ==
  \/ GetsOld
  \/ \E c \in Clients :
       \/ \E peer \in Peers : \/ \E text \in Texts : Conclude(c, peer, text)
                              \/ BeginConsolidation(c, peer)
       \/ \E id \in 1..MaxRows : DeleteConclusion(c, id)
       \/ \E i \in Images : StoreImageMemory(c, i)
       \/ InsertImage(c)
       \/ PreviewRetention(c) \/ PreviewImages(c) \/ Archive(c) \/ Audit(c)
       \/ BeginCompression(c) \/ Tombstone(c) \/ Derive(c) \/ Fails(c)

ConclusionsSpec == ConclusionsInit /\ [][ConclusionsNext]_conclusionVars

-----------------------------------------------------------------------------
\* Properties

\* Contents alike, or alike by way of others.
Linked(x, y) == \E z \in Content : Similar(x, z) /\ Similar(z, y)

\* However dreams, consolidations and tellings interleave, what a host told is
\* there as long as no host deletes anything: itself, or a conclusion at least as
\* long that it is linked to - of whichever peer, derived or archived even, for a
\* dream compares all of a workspace (dream_compression.go:20-47).
ToldStays ==
  forgotten \/ \A x \in told : \E r \in rows :
                 Linked(x, r.content) /\ ContentLength(r.content) >= ContentLength(x)

\* What retention archives it audits once - were it two at the same candidates -
\* unless the audit failed or is under way, and nothing brings it back: not to
\* tell it again (retention_policy.go:166-202, sql.go:430-431).
ArchivedOnce ==
  LET InAudit == {Head(running[c].targets) : c \in {d \in Clients : running[d].at = "audit"}}
      Archived == {r.id : r \in {s \in rows : ~Processed(s)}} \cup {i \in Images : images[i] = "archived"}
  IN
  \A t \in Targets :
    /\ audits[t] <= 1
    /\ t \in Archived \ (InAudit \cup unlogged) => audits[t] = 1
    /\ audits[t] = 1 => t \in Archived \/ \A r \in rows : r.id # t
=============================================================================
