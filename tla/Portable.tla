------------------------------ MODULE Portable ------------------------------
(***************************************************************************)
(* service/portable_export.go: the tables of a workspace read one after    *)
(* the other into a file, and the file imported into the same or another   *)
(* database: first every record is looked up, then every record is         *)
(* inserted, each in a statement of its own. Hosts write meanwhile.        *)
(* service/snapshots.go: what the memory of a peer is, captured statement  *)
(* by statement into a manifest of checksums, and two manifests compared.  *)
(***************************************************************************)
EXTENDS ObservationLog, Sequences, SequencesExt, FiniteSetsExt, TLC

CONSTANTS
  Values,    \* contents of the other records
  MaxWrites, \* bound on the writes of hosts
  Gits       \* what hosts tell of their checkouts: branch, directory, worktree, commit

VARIABLES
  rows,     \* the other tables: the content of each ID, or None
  writes,   \* writes of hosts
  export,   \* the export that runs: the tables read, and their records
  file,     \* the records exported last
  import,   \* the import that runs, or Idle
  torn,     \* history: a host wrote while a file was exported
  late,     \* history: slots hosts set, and rows they deleted, since the import looked
  lost,     \* history: a row an import overwrote, known before it looked
  used,     \* sqlite_sequence: the IDs the tables of messages and conclusions have given
  gone,     \* history: conclusions this database may lack, deleted ones or of imported reviews
  left,     \* history: conclusions the file may lack, gone or left out by its filters
  imported, \* history: observations an import brought
  memory,   \* what a manifest is about: the payload of each entry, or None
  taking,   \* the capture that runs, or Idle
  manifests \* the manifests captured, the first two

tables == <<observations, audits, rows, used>>
history == <<torn, late, lost, gone, left, imported>>
vars == <<logVars, rows, used, writes, export, file, import, history>>

\* Mutant: reviews go before what they review.
ReviewsFirst == <<"observation", "message", "review_item", "conclusion", "memory_slot">>
\* portableTypeOrder, which is the order the tables are read in
Kinds == <<"observation", "message", "conclusion", "review_item", "memory_slot">>
Others == ToSet(Kinds) \ {"observation"}
Numbered == {"message", "conclusion"}
Idle == [at |-> "idle"]
NoRows == [kind \in Others |-> [id \in Ids |-> None]]
Record == [kind : ToSet(Kinds), id : Ids, value : Stored \cup Values]

TypeOK ==
  /\ LogTypeOK
  /\ rows \in [Others -> [Ids -> Values \cup {None}]]
  /\ writes \in 0..MaxWrites
  /\ file \in Seq(Record) /\ import.at \in {"idle", "preview", "apply"}
  /\ torn \in BOOLEAN /\ lost \in BOOLEAN /\ late \subseteq Others \X Ids
  /\ used \in [Numbered -> SUBSET Ids]
  /\ gone \subseteq Ids /\ left \subseteq Ids /\ imported \subseteq Ids

Init ==
  /\ LogInit
  /\ rows = NoRows /\ used = [kind \in Numbered |-> {}] /\ writes = 0
  /\ export = Idle /\ file = <<>> /\ import = Idle
  /\ torn = FALSE /\ late = {} /\ lost = FALSE
  /\ gone = {} /\ left = {} /\ imported = {}

Table(kind) == IF kind = "observation" THEN observations ELSE rows[kind]
Known(kind) == {id \in Ids : Table(kind)[id] # None}
Put(kind, id, value) == rows' = [rows EXCEPT ![kind][id] = value]

-----------------------------------------------------------------------------
\* Hosts

HostWrites ==
  /\ writes < MaxWrites /\ writes' = writes + 1
  /\ torn' = (torn \/ export # Idle)
  /\ UNCHANGED <<export, file, import, lost, left, imported>>

HostObserves ==
  /\ \E id \in Ids, text \in Texts : Observe(id, text)
  /\ HostWrites
  /\ UNCHANGED <<rows, used, late, gone>>

\* The next row of an AUTOINCREMENT table. A conclusion told again is no new row.
HostAdds ==
  /\ \E kind \in Numbered, value \in Values :
       /\ kind = "conclusion" => \A id \in Ids : rows[kind][id] # value
       /\ \E id \in Ids : /\ used[kind] = {i \in Ids : i < id}
                          /\ Put(kind, id, value)
                          /\ used' = [used EXCEPT ![kind] = @ \cup {id}]
  /\ HostWrites
  /\ UNCHANGED <<logVars, late, gone>>

\* An item is opened about a conclusion.
HostReviews ==
  /\ \E id \in Known("conclusion") \ Known("review_item"), value \in Values :
       Put("review_item", id, value)
  /\ HostWrites
  /\ UNCHANGED <<logVars, used, late, gone>>

Late(rs) == late' = IF import = Idle THEN late ELSE late \cup rs

HostSetsSlot ==
  /\ \E id \in Ids, value \in Values :
       Put("memory_slot", id, value) /\ Late({<<"memory_slot", id>>})
  /\ HostWrites
  /\ UNCHANGED <<logVars, used, gone>>

\* A conclusion is deleted, or messages and conclusions are with their session or
\* workspace. The items about them stay.
HostDeletes ==
  /\ \E those \in SUBSET (Numbered \X Ids) :
       /\ those # {} /\ \A row \in those : row[2] \in Known(row[1])
       /\ rows' = [kind \in Others |-> [id \in Ids |-> IF <<kind, id>> \in those THEN None ELSE rows[kind][id]]]
       /\ gone' = gone \cup {id \in Ids : <<"conclusion", id>> \in those}
       /\ Late(those)
  /\ HostWrites
  /\ UNCHANGED <<logVars, used>>

-----------------------------------------------------------------------------
\* ExportPortableJSONL

\* portableExportRecords sorts its records by kind and ID.
InOrder(S) == {s \in [1..Cardinality(S) -> S] : \A i, j \in DOMAIN s : i < j => s[i] < s[j]}
Exported(kind, ids) ==
  [i \in DOMAIN ids |-> [kind |-> kind, id |-> ids[i], value |-> Table(kind)[ids[i]]]]

BeginExport ==
  /\ export = Idle /\ import = Idle
  /\ export' = [at |-> "read", tables |-> 0, records |-> <<>>]
  /\ file' = <<>> /\ left' = {}
  /\ UNCHANGED <<logVars, rows, used, writes, import, torn, late, lost, gone, imported>>

\* A table is read by filters of its own (its observer, profile, session and times, or the
\* newest items), so that any of its rows may be left out.
ReadTable ==
  /\ export # Idle
  /\ LET n == export.tables + 1 IN
     \E told \in SUBSET Known(Kinds[n]) : \E ids \in InOrder(told) :
       LET records == export.records \o Exported(Kinds[n], ids) IN
       /\ left' = IF Kinds[n] = "conclusion" THEN gone \cup (Known(Kinds[n]) \ told) ELSE left
       /\ IF n < Len(Kinds)
          THEN export' = [export EXCEPT !.tables = n, !.records = records] /\ UNCHANGED file
          ELSE export' = Idle /\ file' = records
  /\ UNCHANGED <<logVars, rows, used, writes, import, torn, late, lost, gone, imported>>

\* The file is taken to another database, which has nothing yet.
NewDatabase ==
  /\ file # <<>> /\ export = Idle /\ import = Idle
  /\ observations' = [id \in Ids |-> None] /\ audits' = {} /\ answers' = {}
  /\ rows' = NoRows /\ used' = [kind \in Numbered |-> {}]
  /\ gone' = {} /\ imported' = {}
  /\ UNCHANGED <<writes, export, file, import, torn, late, lost, left>>

-----------------------------------------------------------------------------
\* ImportPortableJSONL

\* Mutant: a slot is not looked up, for it is upserted.
ExistsUnlessSlot(r) == r.kind # "memory_slot" /\ Table(r.kind)[r.id] # None
portableRecordExists(r) == Table(r.kind)[r.id] # None

BeginImport ==
  /\ file # <<>> /\ import = Idle
  /\ import' = [at |-> "preview", next |-> 1, known |-> Known("memory_slot")]
  /\ late' = {} /\ gone' = gone \cup left
  /\ UNCHANGED <<logVars, rows, used, writes, export, file, torn, lost, left, imported>>

\* PreviewPortableImport: one conflict, found at the end, refuses the import.
Preview ==
  /\ import.at = "preview"
  /\ IF portableRecordExists(file[import.next]) THEN import' = Idle
     ELSE import' = IF import.next < Len(file) THEN [import EXCEPT !.next = @ + 1]
                    ELSE [import EXCEPT !.at = "apply", !.next = 1]
  /\ UNCHANGED <<tables, answers, writes, export, file, history>>

\* The primary key, and the unique idempotency key of a conclusion.
Refused(r) ==
  \/ r.kind # "memory_slot" /\ Table(r.kind)[r.id] # None
  \/ r.kind = "conclusion" /\ \E id \in Ids : rows["conclusion"][id] = r.value

\* importPortableRecord: an observation comes without an audit event, a slot
\* replaces what is there. A refused record ends the import; the others stay.
ImportRecord ==
  /\ import.at = "apply" /\ import.next <= Len(file)
  /\ LET r == file[import.next] IN
     IF Refused(r) THEN import' = Idle /\ UNCHANGED <<observations, rows, used, lost, imported>>
     ELSE /\ import' = [import EXCEPT !.next = @ + 1]
          /\ IF r.kind = "observation"
             THEN /\ observations' = [observations EXCEPT ![r.id] = r.value]
                  /\ imported' = imported \cup {r.id}
                  /\ UNCHANGED <<rows, used, lost>>
             ELSE /\ Put(r.kind, r.id, r.value) /\ UNCHANGED <<observations, imported>>
                  /\ used' = [kind \in Numbered |-> used[kind] \cup {i \in Ids : kind = r.kind /\ i <= r.id}]
                  /\ lost' = (lost \/ (r.kind = "memory_slot" /\ r.id \in import.known))
  /\ UNCHANGED <<audits, answers, writes, export, file, torn, late, gone, left>>

ImportDone ==
  /\ import.at = "apply" /\ import.next > Len(file)
  /\ import' = Idle
  /\ UNCHANGED <<tables, answers, writes, export, file, history>>

\* A statement fails, or the caller gives up: what is inserted stays.
ImportFails ==
  /\ import # Idle
  /\ import' = Idle
  /\ UNCHANGED <<tables, answers, writes, export, file, history>>

Next ==
  \/ HostObserves \/ HostAdds \/ HostReviews \/ HostSetsSlot \/ HostDeletes
  \/ BeginExport \/ ReadTable \/ NewDatabase
  \/ BeginImport \/ Preview \/ ImportRecord \/ ImportDone \/ ImportFails

Spec == Init /\ [][Next]_vars

-----------------------------------------------------------------------------
\* Snapshots: the profile, the conclusions, the slots and the actions of one peer.

snapshotVars == <<memory, taking, manifests>>

\* A row or its dependencies that were deleted, or a card that was emptied.
Gone == "gone"
Present(value) == value \notin {None, Gone}
\* The kinds in the order they are read. An action's dependencies are rows of their own.
Captured == <<"profile", "conclusion", "slot", "action">>
Profile == CHOOSE id \in Ids : TRUE

SnapshotTypeOK ==
  /\ memory \in [ToSet(Captured) \cup {"dependency"} -> [Ids -> Values \cup {None, Gone}]]
  /\ \A m \in ToSet(manifests) : {e.key : e \in m.entries} \subseteq ToSet(Captured) \X Ids
  /\ Len(manifests) <= 2 /\ writes \in 0..MaxWrites

SnapshotInit ==
  /\ memory = [kind \in ToSet(Captured) \cup {"dependency"} |-> [id \in Ids |-> None]]
  /\ taking = Idle /\ manifests = <<>>

\* What is told of each key, gone or not.
Told(mem) == {<<kind, id, mem[kind][id]>> : kind \in DOMAIN mem, id \in Ids}

\* A statement of a host. Slots are marked deleted, which is a value of theirs,
\* and actions are not deleted; the ID of a conclusion is not used again.
HostChanges ==
  /\ writes < MaxWrites /\ writes' = writes + 1
  /\ \E kind \in DOMAIN memory, id \in Ids, value \in Values \cup {Gone} :
       /\ memory[kind][id] # value
       /\ kind = "profile" => id = Profile
       /\ kind = "conclusion" => memory[kind][id] # Gone
       /\ kind = "dependency" => Present(memory["action"][id])
       /\ value = Gone => kind \notin {"slot", "action"} /\ memory[kind][id] # None
       /\ memory' = [memory EXCEPT ![kind][id] = value]
  /\ taking' = IF taking = Idle THEN Idle
               ELSE [taking EXCEPT !.seen = @ \cup Told(memory'), !.always = @ \cap Told(memory')]
  /\ UNCHANGED manifests

snapshotEntry(kind, id, payload) == [key |-> <<kind, id>>, checksum |-> payload]
Entries(kind) == {snapshotEntry(kind, id, memory[kind][id]) : id \in {i \in Ids : Present(memory[kind][i])}}

\* The base of an absolute worktree, which names the user's directories.
snapshotGitMetadata(git) ==
  [branch |-> git.branch, worktree |-> git.base, commit |-> git.commit, redacted |-> git.dir # ""]

BeginSnapshot ==
  /\ taking = Idle /\ Len(manifests) < 2
  /\ taking' = [at |-> "read", kind |-> 1, nodes |-> {}, entries |-> {},
                seen |-> Told(memory), always |-> Told(memory)]
  /\ UNCHANGED <<memory, manifests, writes>>

\* Mutant: each table's entries take the place of those before.
LastTable(entries, more) == more
Appended(entries, more) == entries \cup more

\* The tables but the last; the actions are listed, and then the dependencies of each.
ReadEntries ==
  /\ taking # Idle /\ taking.kind <= Len(Captured)
  /\ LET kind == Captured[taking.kind] IN
     taking' = IF kind = "action" THEN [taking EXCEPT !.kind = @ + 1, !.nodes = Entries(kind)]
               ELSE [taking EXCEPT !.kind = @ + 1, !.entries = Appended(@, Entries(kind))]
  /\ UNCHANGED <<memory, manifests, writes>>

DependsOn(id) == IF Present(memory["dependency"][id]) THEN memory["dependency"][id] ELSE Gone
snapshotActionEntry ==
  /\ taking # Idle
  /\ \E node \in taking.nodes :
       LET checksum == <<node.checksum, DependsOn(node.key[2])>>
           entries == Appended(taking.entries, {snapshotEntry("action", node.key[2], checksum)})
       IN taking' = [taking EXCEPT !.nodes = taking.nodes \ {node}, !.entries = entries]
  /\ UNCHANGED <<memory, manifests, writes>>

\* The entries are sorted by kind and key, so that a manifest is the set of them;
\* what the host told of its checkout is used at the end.
ExportSnapshotManifest ==
  /\ taking # Idle /\ taking.kind > Len(Captured) /\ taking.nodes = {}
  /\ \E git \in Gits :
       manifests' = Append(manifests, [git |-> snapshotGitMetadata(git), entries |-> taking.entries])
  /\ taking' = Idle
  /\ UNCHANGED <<memory, writes>>

\* A statement fails: there is no manifest.
SnapshotFails ==
  /\ taking # Idle
  /\ taking' = Idle
  /\ UNCHANGED <<memory, manifests, writes>>

SnapshotNext ==
  \/ HostChanges \/ BeginSnapshot \/ ReadEntries \/ snapshotActionEntry
  \/ ExportSnapshotManifest \/ SnapshotFails

snapshotCounts(entries) ==
  [kind \in {e.key[1] : e \in entries} |-> Cardinality({e \in entries : e.key[1] = kind})]
\* What a digest is of: not the checkout, which the checkpoint adds to it.
snapshotManifestID(m) == [counts |-> snapshotCounts(m.entries), entries |-> m.entries]
\* Mutant: a checkpoint of another branch is the same.
WithoutBranch(m) ==
  IF m.git.worktree = "" /\ m.git.commit = "" THEN None
  ELSE <<snapshotManifestID(m), m.git.worktree, m.git.commit>>
snapshotCheckpointID(m) ==
  IF {m.git.branch, m.git.worktree, m.git.commit} = {""} THEN None
  ELSE <<snapshotManifestID(m), m.git.branch, m.git.worktree, m.git.commit>>

GitChanged(from, to) == \E f \in {"branch", "worktree", "commit"} : from.git[f] # to.git[f]
StaleBranch(from, to) ==
  from.git.branch # "" /\ to.git.branch # "" /\ from.git.branch # to.git.branch
Without(entries, others) == {e \in entries : \A o \in others : o.key # e.key}
\* Mutant: entries that keep their key are not compared.
KeysOnly(from, to) ==
  [added |-> Without(to.entries, from.entries), removed |-> Without(from.entries, to.entries), changed |-> {}]
DiffSnapshotManifests(from, to) ==
  [added   |-> Without(to.entries, from.entries),
   removed |-> Without(from.entries, to.entries),
   changed |-> {e \in to.entries : \E o \in from.entries : o.key = e.key /\ o.checksum # e.checksum}]

-----------------------------------------------------------------------------
\* Properties

\* An import that succeeds has stored every record as the file tells it - but
\* for slots that hosts set, and rows they deleted, meanwhile - and no slot that
\* was there before it looked is overwritten (portable_export.go:273-296).
ImportIsWholeAndKeeps ==
  /\ ~lost
  /\ import.at = "apply" /\ import.next > Len(file) =>
       \A i \in DOMAIN file : LET r == file[i] IN
         Table(r.kind)[r.id] = r.value \/ <<r.kind, r.id>> \in late

\* If no host ever wrote during an export, a review item in a file lacks its
\* conclusion only if that was deleted, or left out by the filters of this export
\* or of one it was imported from; also after an import that stopped half way:
\* conclusions are read and imported first (portable_export.go:165-243, 334-351).
ReviewsHaveSubjects ==
  torn \/ \A i \in DOMAIN file : file[i].kind = "review_item" =>
    \/ \E j \in DOMAIN file : file[j].kind = "conclusion" /\ file[j].id = file[i].id
    \/ file[i].id \in left

\* An observation that is sent again is answered with what is stored, unless an
\* import brought it: then it is refused whenever it is sent (log.go:161-176, 881-897).
RetriesAnswered ==
  \A id \in Ids : observations[id] # None => (id \in audits <=> id \notin imported)

\* Payloads an entry is made of, each as it is told of its key.
ToldBy(e) ==
  LET kind == e.key[1]
      id == e.key[2]
  IN IF kind = "action" THEN {<<kind, id, e.checksum[1]>>} ELSE {<<kind, id, e.checksum>>}
\* Every entry of a capture was in its table at a moment of the capture, the
\* dependencies of an action too, if not at the same; and what was there all
\* the while, in a table that was read, is an entry (snapshots.go:82-123, 228-246).
EntriesAreOfTheirTime ==
  taking # Idle =>
    /\ \A e \in taking.entries :
         /\ ToldBy(e) \subseteq taking.seen
         /\ e.key[1] = "action" =>
              \E value \in {e.checksum[2]} \cup (IF e.checksum[2] = Gone THEN {None} ELSE {}) :
                <<"dependency", e.key[2], value>> \in taking.seen
    /\ \A now \in taking.always : \A n \in 1..(taking.kind - 1) :
         Captured[n] = now[1] /\ Present(now[3]) =>
           \/ \E e \in taking.entries : now \in ToldBy(e)
           \/ \E e \in taking.nodes : e.key = <<now[1], now[2]>>

\* A difference leads from one manifest to the other, and back; two manifests
\* with one ID differ in nothing, and with one checkpoint not in their checkouts
\* (snapshots.go:125-158, 284-304).
DiffsLeadAcross ==
  \A from, to \in ToSet(manifests) :
    LET d == DiffSnapshotManifests(from, to)
        back == DiffSnapshotManifests(to, from)
    IN /\ Without(from.entries, d.removed \cup d.changed) \cup d.added \cup d.changed = to.entries
       /\ d.added = back.removed /\ {e.key : e \in d.changed} = {e.key : e \in back.changed}
       /\ snapshotManifestID(from) = snapshotManifestID(to) <=> d.added \cup d.removed \cup d.changed = {}
       /\ StaleBranch(from, to) => GitChanged(from, to)
       /\ snapshotCheckpointID(from) = snapshotCheckpointID(to) /\ snapshotCheckpointID(to) # None =>
            snapshotManifestID(from) = snapshotManifestID(to) /\ ~GitChanged(from, to)

SnapshotsTell == EntriesAreOfTheirTime /\ DiffsLeadAcross
=============================================================================
