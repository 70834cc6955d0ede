------------------------------ MODULE MCStores ------------------------------
(***************************************************************************)
(* Stores of the service: the memory slots and the facade over them, the   *)
(* webhooks, the local markdown memory (once more with contents that hold  *)
(* markers of its format), the plugin's async writer, a streamed answer,   *)
(* the hooks of a host that are captured, the portable export and import,  *)
(* the intake of the observation log, and what is known of peers. They     *)
(* share no table, file or field the others change, so each is checked     *)
(* with the others at rest: part names the store a behaviour is about.     *)
(***************************************************************************)
EXTENDS Integers, Sequences, FiniteSets, TLC

CONSTANTS
  Clients,
  Texts, MaxWrites,
  Ids, Limits, MaxAttempts, again, once,
  MaxResults, MaxFailures,  \* bounds on the results the store of the hooks records, and fails at
  Memories, MaxVersions,
  Queueable, Cacheable, key,
  KeyOf,        \* a session's key
  MaxAccepted,  \* bound on the sessions of one history, of either kind
  MaxChunks,
  MaxBytes, MaxHooks,
  MaxCopies, None

VARIABLES
  part,
  row, slotAudit, slotCall, log, lost, facade, slotHistory, untold,
  table, unused, disabled, attempts, tries, retry, delivery, failed, late,
  items, file, memoryCall, versions, met, doubt,
  queue, cache, closed, flush, stored, storedCached, accepted, raced, refused, overlapped,
  chunks, completed, interrupted, content, answer, completing, crossed,
  observed, messages, summary, capture, sent, broken,
  observations, audits, answers, rows, writes, export, copy, import, torn, lateRows, lostRow,
  used, gone, left, imported,
  seen, trail, replies, listed, snapMemory, taking, manifests,
  cards, enabled, calls, entries, clock, last, touched

slotVars == <<row, slotAudit, slotCall, log, lost, facade, slotHistory, untold>>
hookVars == <<table, unused, disabled, attempts, tries, retry, delivery, failed, late>>
memoryVars == <<items, file, memoryCall, versions, met, doubt>>
writerVars == <<queue, cache, closed, flush, stored, storedCached, accepted, raced, refused,
                overlapped>>
streamVars == <<chunks, completed, interrupted, content, answer, completing, crossed>>
captureVars == <<observed, messages, summary, capture, sent, broken>>
portableVars == <<observations, audits, answers, rows, writes, export, copy, import, torn,
                  lateRows, lostRow, used, gone, left, imported>>
intakeVars == <<seen, trail, replies, listed>>
snapshotVars == <<snapMemory, taking, manifests>>
cardVars == <<cards, enabled, calls>>
typedVars == <<entries, clock, last, touched>>

\* One event is delivered while a retry is asked for, and once beyond; one is delivered once.
Calls == (again :> MaxAttempts + 1) @@ (once :> 1)

\* A session is either queued or cached, and is not the mark of an empty cache entry.
ASSUME WriterAssumption == Queueable \cap Cacheable = {} /\ "none" \notin Cacheable

\* Some goroutine calls, and an attempt count of 0 means the default (delivery.go).
ASSUME HookAssumption == IsFiniteSet(Clients) /\ Clients # {} /\ MaxAttempts \in Nat \ {0}

\* Sessions of one key: a newer one replaces what is cached.
OneKey == [s \in Queueable \cup Cacheable |-> key]

\* A field is blank, a whole passage to redact after one letter, or just that passage.
Fields == {<<>>, <<"a", "<", "s", ">">>, <<"<", "s", ">">>}

\* Reports of observations: kinds, metadata and IDs that are refused, own and new IDs,
\* passages and tokens to redact at and beyond the cuts, the same ID with other texts.
Pair(name, value) == <<"'">> \o name \o <<"'", ":", "'">> \o value \o <<"'">>
Plain == [id |-> "", kind |-> "custom", workspace |-> "", profile |-> "", peer |-> "p", session |-> "",
          context |-> "", input |-> <<"a">>, output |-> <<>>, success |-> TRUE,
          metadata |-> ("custom_kind" :> <<"a">>), at |-> 0, reason |-> <<>>]
Other == [Plain EXCEPT !.id = "o", !.kind = "error", !.metadata = <<>>]
Reports ==
  { Plain, [Plain EXCEPT !.metadata = <<>>], [Plain EXCEPT !.metadata = ("custom_kind" :> <<>>)],
    [Plain EXCEPT !.metadata = ("custom_kind" :> <<"a">>) @@ (" custom_kind" :> <<"a">>)],
    [Plain EXCEPT !.workspace = "*"], [Plain EXCEPT !.id = "\t"],
    Other, [Other EXCEPT !.input = <<"k">>, !.at = 1, !.workspace = "w2"],
    [Other EXCEPT !.input = <<"a", "<", "s", "k", ">">>, !.id = " o"],
    [Other EXCEPT !.input = <<"u", "k", "u">>, !.id = "o2", !.at = 2, !.success = FALSE],
    [Other EXCEPT !.output = <<"<", "s", "s", ">">> \o Pair(<<"k">>, <<"a">>), !.id = "o2", !.reason = <<"k", "a">>],
    [Other EXCEPT !.output = Pair(<<"k">>, <<"a">>), !.metadata = ("x" :> <<"k">>), !.id = "o2", !.reason = <<"a">>],
    [Other EXCEPT !.metadata = ("x" :> <<"k">>) @@ ("custom_kind" :> <<"e", "a">>)] }
AnyRow == [workspace |-> "", profile |-> "", peer |-> "", session |-> "", context |-> "",
           kinds |-> {}, success |-> {TRUE, FALSE}, since |-> 0, until |-> 0, limit |-> 0]
Listings == { AnyRow, [AnyRow EXCEPT !.workspace = "*", !.limit = 1], [AnyRow EXCEPT !.kinds = {"error"}, !.limit = 9],
    [AnyRow EXCEPT !.success = {FALSE}, !.since = 2], [AnyRow EXCEPT !.workspace = "w2", !.peer = " p", !.until = 1],
    [AnyRow EXCEPT !.session = "o", !.kinds = {"x"}] }
AnyEvent == [workspace |-> "", peer |-> "", session |-> "", target |-> "", since |-> 0, until |-> 0, limit |-> 0,
             action |-> "observe", targetType |-> ""]
Trails == { [AnyEvent EXCEPT !.target = " o"], [AnyEvent EXCEPT !.workspace = "*", !.since = 2, !.limit = 2] }

TrimmedKey == [k \in {"", "*", "\t", "p", "w", "w2", "o", "o2", "custom", "error", "custom_kind", "x", "n1", "n2"} |-> k] @@
  (" o" :> "o") @@ (" p" :> "p") @@ (" custom_kind" :> "custom_kind")
\* "w" is a word for secrets, "e" sets a variable of such a name, "k" is a token.
Openings ==
  ("private" :> "<") @@ ("pem_private_key" :> "BEGIN") @@ ("authorization" :> "Bearer") @@
  ("json_secret" :> "'") @@ ("env_secret" :> "e") @@ ("api_key" :> "k")
Closings == [rule \in DOMAIN Openings |-> IF rule = "pem_private_key" THEN "END" ELSE ">"]
PieceBytes ==
  [p \in {"a", "<", ">", "s", "w", "e", "k", "'", ":", " ", "BEGIN", "END", "Bearer", "[", "observe"} |-> 1] @@
  [p \in {"u"} \cup DOMAIN Openings |-> 2]
SecretWords == {"w", "e", "Bearer"} \cup (DOMAIN Openings \ {"private"})

\* Texts to redact: a pair of JSON, of whatever key, within and before what other rules match.
Names == {<<a, b>> : a, b \in {"a", "w", "e", "k", ":", " ", "<", "BEGIN", "Bearer"}} \cup {<<"k">>, <<">">>}
ToRedact ==
  {before \o Pair(name, value) \o after :
     before \in {<<>>, <<"e">>, <<"<">>, <<"'", "w">>}, name \in Names,
     value \in {<<"a">>, <<"e", " ">>, <<"s", ">">>, <<"END">>},
     after \in {<<>>, <<":", "'", "a", "'">>, <<">", "'", " ">>}}

\* Checkouts: none, two branches of one directory, and another directory of its name.
Told == [branch |-> "main", dir |-> "/a", base |-> "w", commit |-> "c"]
Checkouts == { [Told EXCEPT !.branch = "", !.dir = "", !.base = "", !.commit = ""], Told,
               [Told EXCEPT !.branch = "dev"], [Told EXCEPT !.dir = "/b"] }

Slots == INSTANCE MemoryFacade WITH call <- slotCall, audit <- slotAudit, history <- slotHistory
Hooks == INSTANCE WebhookDelivery WITH
  call <- delivery, Workers <- Clients, Events <- {again, once}, MaxCalls <- Calls
Memory == INSTANCE LocalMarkdown WITH
  call <- memoryCall, Ids <- Memories, Failing <- TRUE, Editing <- TRUE, Marked <- {}
\* Memories that hold markers of the file's format, of fewer contents.
Marking == INSTANCE LocalMarkdown WITH
  call <- memoryCall, Ids <- Memories, Failing <- TRUE, Editing <- TRUE,
  Marked <- {Memory!Cut, Memory!Spoils, Memory!Splits(1)}, MaxVersions <- MaxVersions - 1
\* Rows to rank: old and new ones, important and not, forgotten, with a tag; questions of
\* a phrase, of words and of nothing; reviews with and without their own thresholds.
Entry(id, contains, importance, created, updated, active) ==
  [id |-> id, contains |-> contains, tags |-> IF id = 3 THEN {"db"} ELSE {}, importance |-> importance,
   created |-> created, updated |-> updated, active |-> active]
SomeEntries ==
  {Entry(1, {"ann", "owns", "ann owns"}, 2, 1, 9, TRUE), Entry(2, {"ann"}, 10, 1, 6, TRUE),
   Entry(3, {"owns"}, 2, 2, 6, TRUE), Entry(4, {"vm"}, 12, 3, 10, TRUE), Entry(5, {"vm", "db"}, 1, 1, 2, TRUE),
   Entry(6, {"ann"}, 9, 8, 8, FALSE), Entry(7, {"owns"}, 10, 4, 5, TRUE)}
Timeless == Entry(8, {"vm"}, 3, -1, -1, TRUE)
SomeWords ==
  {[phrase |-> "ann owns", words |-> <<"ann", "owns">>], [phrase |-> "db ann", words |-> <<"db", "ann">>],
   [phrase |-> "", words |-> <<>>]}
SomeReviews == [minAge : {0, 4}, minEffective : {0, 8, 16, 400}, limit : {0, 2}]
Writer == INSTANCE AsyncWriter WITH Flushers <- Clients
Stream == INSTANCE ChatStream WITH turns <- answer, call <- completing, overlapped <- crossed
Host == INSTANCE HookCapture WITH HookTexts <- Fields
\* "p" is private: it is stored as "a". Values are permuted with the IDs of endpoints.
Copies == INSTANCE Portable WITH
  Ids <- Memories, Texts <- {"a", "p", "b"}, Redacted <- [t \in {"a", "p", "b"} |-> IF t = "p" THEN "a" ELSE t],
  Values <- Queueable, MaxWrites <- MaxCopies, file <- copy, late <- lateRows, lost <- lostRow,
  Gits <- Checkouts, memory <- snapMemory

Intake == INSTANCE ObservationIntake WITH rows <- seen, events <- trail, answers <- replies,
  Requests <- Reports, ListQueries <- Listings, TrailQueries <- Trails,
  OwnIds <- {"o", "o2"}, NewIds <- {"n1", "n2"}, IdOrder <- <<"n1", "n2", "o", "o2">>,
  Times <- {1, 2}, Default <- "w", MaxObserved <- 2, KnownKinds <- {"custom", "error"},
  Trimmed <- TrimmedKey, Malformed <- {"\t"}, Bytes <- PieceBytes, Words <- SecretWords,
  Opening <- Openings, Closing <- Closings, Placeholder <- [rule \in DOMAIN Openings |-> rule],
  Half <- [p \in DOMAIN PieceBytes |-> IF p \in DOMAIN Openings THEN <<"[">> ELSE <<>>],
  InputMax <- 4, OutputMax <- 8, ValueMax <- 2, MetadataMax <- 5,
  DefaultLimit <- 2, MaxLimit <- 3, Absent <- None

\* Entries of one fact and of others, one of them out of range, with and without times.
State(type, told, confidence, durability) ==
  [type |-> type, content |-> told, confidence |-> confidence, durability |-> durability]
SomeStates ==
  {State("goal", "x", 5, 4), State("goal", "x", 8, 5), State("goal", "x", 11, 5), State("goal", "y", 5, 10),
   State("habit", "x", 5, 4)}
People == INSTANCE Profiles WITH Workspaces <- {"w", "v"}, Own <- "w", ProfileIds <- {"", "f"}, Peers <- {"", "g", "p"},
  Observer <- "g", Cards <- {<<"a">>, <<"b", "a", "b">>}, MaxFacts <- 2, MaxCards <- 2, EntryIds <- {1, 2},
  States <- SomeStates, Entries <- [of : SomeStates, updated : {0, 3}, used : {0, 1}],
  ActiveStale <- 1, DurableDecay <- 2, MaxTime <- 4, Absent <- None

\* What stands for no entry, no observation and no record is neither of these. The tables
\* of a workspace number their rows.
ASSUME NoneAssumption ==
  /\ None \notin [of : SomeStates, updated : Nat, used : Nat]
  /\ \A p \in Reports : Intake!Content(p) # None
  /\ None \notin Queueable \cup {"a", "b"}
ASSUME CaptureAssumption == MaxBytes \in Nat /\ MaxHooks \in Nat
ASSUME MemoriesAssumption == Memories \subseteq Int /\ IsFiniteSet(Memories)

\* A report that is not refused has a blank ID or one of a host.
ASSUME ReportAssumption == \A p \in Reports : Intake!Valid(p) => TrimmedKey[p.id] \in {"", "o", "o2"}

vars == <<part, slotVars, hookVars, memoryVars, writerVars, streamVars, captureVars, portableVars,
          intakeVars, snapshotVars, cardVars, typedVars>>

Init ==
  /\ part \in {"slots", "facade", "hooks", "memory", "marked", "writer", "stream", "capture", "portable",
               "intake", "snapshots", "ranking", "cards", "typed"}
  /\ Slots!FacadeInit /\ Hooks!Init /\ Memory!Init /\ Writer!Init
  /\ Stream!Init /\ Host!HookInit /\ Copies!Init /\ Copies!SnapshotInit /\ Intake!IntakeInit /\ People!ProfilesInit
  /\ part = "cards" \/ enabled

HooksFit == Cardinality(attempts') <= MaxResults /\ Cardinality(failed') <= MaxFailures

Next ==
  /\ UNCHANGED part
  /\ CASE part = "slots" -> Slots!Next /\ UNCHANGED <<facade, slotHistory, untold>>
       [] part = "facade" -> Slots!FacadeNext
       [] OTHER -> UNCHANGED slotVars
  /\ IF part = "hooks" THEN Hooks!Next /\ HooksFit ELSE UNCHANGED hookVars
  /\ IF part = "memory" THEN Memory!Next
     ELSE IF part = "marked" THEN Marking!Next ELSE UNCHANGED memoryVars
  /\ IF part = "writer" THEN Writer!Next /\ Len(accepted') <= MaxAccepted ELSE UNCHANGED writerVars
  /\ IF part = "stream" THEN Stream!Next ELSE UNCHANGED streamVars
  /\ IF part = "capture" THEN Host!HookNext ELSE UNCHANGED captureVars
  /\ CASE part = "portable" -> Copies!Next /\ UNCHANGED snapshotVars
       [] part = "snapshots" ->
            /\ Copies!SnapshotNext /\ writes' < MaxCopies  \* one write less is enough here
            /\ UNCHANGED <<observations, audits, answers, rows, export, copy, import, torn, lateRows, lostRow,
                           used, gone, left, imported>>
       [] OTHER -> UNCHANGED <<portableVars, snapshotVars>>
  /\ IF part = "intake" THEN Intake!IntakeNext ELSE UNCHANGED intakeVars
  /\ IF part = "cards" THEN People!CardsNext ELSE UNCHANGED cardVars
  /\ IF part = "typed" THEN People!TypedNext ELSE UNCHANGED typedVars

Spec == Init /\ [][Next]_vars

-----------------------------------------------------------------------------
\* The properties of the modules; a store at rest keeps its initial state.

TypeOK ==
  /\ part = "slots" => Slots!TypeOK
  /\ part = "facade" => Slots!FacadeTypeOK
  /\ part = "hooks" => Hooks!TypeOK
  /\ part \in {"memory", "marked"} => Memory!TypeOK
  /\ part = "writer" => Writer!TypeOK
  /\ part = "stream" => Stream!TypeOK
  /\ part = "capture" => Host!HookTypeOK
  /\ part = "portable" => Copies!TypeOK
  /\ part = "snapshots" => Copies!SnapshotTypeOK
  /\ part = "intake" => Intake!IntakeTypeOK
  /\ part \in {"cards", "typed"} => People!ProfilesTypeOK

WritesLostOnlyToStaleOnes == part = "slots" => Slots!WritesLostOnlyToStaleOnes

\* The observations of the slots, and the history the facade keeps with them.
ChangesTold ==
  /\ part = "slots" => Slots!WritesAudited /\ Slots!RevisionsTellVersions
  /\ part = "facade" => Slots!HistoryTellsWrites

\* Retries come to an end, a disabled endpoint gets no new posts, and its reason is true.
DeliveriesEnd ==
  part = "hooks" => Hooks!RetriesEnd /\ Hooks!DisableStopsPosts /\ Hooks!DisabledTellsFailures
\* A clean call covers all that is due, a call of the log is one of what it promises, and
\* entries are lost and pruned as their store promises.
CallsAsPromised ==
  /\ Hooks!CleanCallCoversAll
  /\ [][part = "intake" => Intake!LogStep]_intakeVars
  /\ [][part = "typed" => People!TypedStep]_typedVars

QuietWritesMirror ==
  /\ part \in {"memory", "marked"} => Memory!QuietWritesMirror
  /\ part = "ranking" =>
       /\ Memory!RetrievesTheBest(SUBSET SomeEntries, SomeWords, 2, 5, 10)
       /\ Memory!ReviewsReachAll(SomeEntries \cup {Timeless}, SomeReviews, 10, 20)
UndoneOnlyInDoubt == Memory!UndoneOnlyInDoubt

\* The queue stores each session once, and in order.
QueueInOrder == part = "writer" => Writer!QueueExactlyOnce /\ Writer!FifoPastFailures
CacheLossNeedsRace == part = "writer" => Writer!CacheLossNeedsRace

\* "want failed write retained" (write_test.go:61), of any two flushes.
FailedWriteRetained == part = "writer" => Writer!FailedWriteRetained

StoredOnceWhole == part = "stream" => Stream!StoredOnceWhole
CapturesAgree == part = "capture" => Host!CapturesAgree
\* A file is an image of the tables it is imported into and exported from, and a
\* manifest of the memory it was captured from.
CopiesAreWhole ==
  /\ part = "portable" => Copies!ImportIsWholeAndKeeps /\ Copies!ReviewsHaveSubjects
  /\ part = "snapshots" => Copies!SnapshotsTell

\* The clients, the flushers and the workers are the same goroutines.
Symmetric == Permutations(Clients) \cup Permutations(Ids)
=============================================================================
