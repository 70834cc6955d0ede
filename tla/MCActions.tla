----------------------------- MODULE MCActions ------------------------------
(***************************************************************************)
(* What agents share: the leases on actions (ActionLeases), the graph of   *)
(* actions, the receipts of their signals, and the log of what is up for   *)
(* review; and what comes in from outside: agents spawned at run time,     *)
(* uploaded files, changes of watched files, facts in what is told; and    *)
(* who may read, decide and be asked (Governance). A lease is found by its *)
(* action's ID alone, no statement about receipts touches the tables of    *)
(* actions and dependencies, and the others have tables of their own, so   *)
(* each is checked with the rest standing still: part names the one a      *)
(* behaviour is about.                                                     *)
(***************************************************************************)
EXTENDS ActionLeases, TLC, SequencesExt

CONSTANTS
  Planned, Actors, Foreign, MaxSignals, MaxGraphs,
  Tools, Messages, Recalled, MinFailures, Limits, MaxObserved, MaxItems,
  Tuples, MaxLength, MaxAgents, Letters, MessageSizes, MaxTurns,
  Paths, Included, Contents, Binary, MaxChanges, None,
  Agents, Workspaces, MemoryRows, Spelled, Stamps, MaxProposals, ListMax, ListCap,
  Sentinels, MaxUpserts, AskedKeys, TrimmedNames, Modes, Scopes, MaxTime, MaxKeys

VARIABLES
  part,
  status, deps, signals, receipts, receiptAudit, graphCall, graphs, last, torn, sealed, unaudited,
  observed, items, feedback, reviewCall, told, met,
  agents, bindings, turns, uploading, uploads,
  observations, audits, answers, files, changes, watching, tornSizes, limits, refused,
  content, stored, asked, answer,
  grants, active, proposals, decided, messages, waiting, extracted,
  sentinels, facets, archived, upserts,
  issued, time

graphVars == <<status, deps, signals, receipts, receiptAudit, graphCall, graphs, last, torn,
               sealed, unaudited>>
reviewVars == <<observed, items, feedback, reviewCall, told, met>>
agentVars == <<agents, bindings>>
importVars == <<turns, uploading, uploads>>
ruleVars == <<grants, active, proposals, decided, messages, waiting, extracted,
              sentinels, facets, archived, upserts, issued, time>>
factVars == <<content, stored, asked, answer>>
watchVars == <<observations, audits, answers, files, changes, watching, tornSizes, limits, refused>>

\* Items of different kinds have subjects of different kinds. Times are numbers, and a key
\* ends at 0, for never, or no earlier than the first whole second; a mode spells itself.
ASSUME ReviewsAssumption ==
  MaxItems \in Nat /\ Recalled \cap (Tools \cup Messages) = {} /\ "skill" \notin Tools \cup Messages
ASSUME RulesAssumption ==
  /\ Stamps \subseteq Nat /\ MaxProposals \in Nat /\ ListMax \in Nat
  /\ MaxTime \in Nat /\ MaxKeys \in Nat /\ \A p \in AskedKeys : p.expires \in Nat \ {1}
  /\ \A m \in {"local-only", "team-preview", "team-enabled"} : Modes[m] = m

\* One client per owner.
OneClientPerOwner == [c \in Clients |-> c]
Symmetric == Permutations(Clients) \cup Permutations(Actions)

\* Action 1 depends on nothing; action 2 on action 1, or on nothing any more.
OneOrNone == (1 :> {{}} @@ 2 :> {{}, {1}})
NoLists == [p \in Planned |-> {}]

Graph == INSTANCE ActionGraph WITH
  Actions <- Planned, call <- graphCall, audit <- receiptAudit, Lists <- OneOrNone,
  Actors <- {}, Foreign <- {}, MaxSignals <- 0, PageSizes <- {}
Receipts == INSTANCE ActionGraph WITH
  Actions <- Planned, call <- graphCall, audit <- receiptAudit, Lists <- NoLists, MaxGraphs <- 0,
  PageSizes <- {}
Feeds == INSTANCE ActionGraph WITH
  Actions <- Planned, call <- graphCall, audit <- receiptAudit, Lists <- NoLists, MaxGraphs <- 0,
  MaxSignals <- 3, PageSizes <- {1, 2}
Log == INSTANCE Reviews WITH call <- reviewCall

\* Every name of three letters, and some longer ones.
SomeNames == SeqOf(Letters, 3) \cup {<<"!", "a">>, <<"a", "!", "-">>, <<"-", "!", "-", "a">>}
Spawned == INSTANCE DynamicAgents WITH Names <- SomeNames, Reserved <- {{}, {<<"a">>}}

\* Every text of five letters without the marker, and a few with it.
SomeFiles == SeqOf({"n", " ", ".", "x"}, 5) \cup {<<"x", "!", "x">>, <<"x", " ", "!">>, <<"?">>}
Uploads == INSTANCE FileImport WITH
  Files <- SomeFiles, importing <- uploading, MaxUploads <- 1

Observed == [of : Contents, shown : 0..3, size : 0..3]
Batches == {<<"p">>, <<"p", "q", "p">>}
Watch == INSTANCE FileWatcher WITH
  Ids <- Paths \X Contents, Texts <- Observed, Redacted <- [t \in Observed |-> t],
  Size <- [a |-> 1, b |-> 2, z |-> 3], Previews <- {1, 2},
  importing <- watching, torn <- tornSizes

\* Every form of a told fact, about every kind of phrase.
Words == {<<"bob">>, <<"a", "the", "cache">>, <<"cache", ",", "redis">>, <<"plan", ":", "cache">>,
          <<"redis", "and", "cache">>, <<"ask">>, <<"5ms">>, <<"1", ",", "500ms">>, <<"v1.2">>,
          <<"first", "redis", "then", "cache">>, <<"authentic", "plan", "firstly">>}
Forms == {<<>>, <<"'s", "owner", "is">>, <<"'s", "color", "preference", "is">>, <<"location", "is">>,
          <<"is", "in">>, <<"'s", "rule", "is">>, <<"is", "scheduled", "for">>, <<"version", "is">>,
          <<"is">>, <<"owns">>, <<":">>, <<"depends", "on">>, <<"uses">>}
Openings == {<<"i", "never">>, <<"project", "note", ":", "we", "decided", "to">>,
             <<"owner", "of">>}
Values == Words \ {<<"ask">>, <<"redis", "and", "cache">>}
SomeSayings ==
  {w \o f \o v : w \in Words, f \in Forms, v \in Values} \cup
  {o \o w \o f \o v : o \in Openings, w \in Words, f \in {<<>>, <<"is">>, <<"uses">>}, v \in Values} \cup
          {<<"bob", "'s", "owner", "is", "redis", "?">>,
           <<"it", "is", "5ms", "?", "cache", "is", "5ms", "!">>}
HoldingMarkers ==
  [authentic |-> [marker |-> <<"then">>, head |-> <<"au">>, tail |-> <<"thentic">>],
   thentic |-> [marker |-> <<"then">>, head |-> <<>>, tail |-> <<"thentic">>],
   firstly |-> [marker |-> <<"first">>, head |-> <<>>, tail |-> <<"firstly">>]]
Facts == INSTANCE MemoryAnnotations WITH
  Short <- {"a", "is", "1", "i", "we", "to", "of", "on", "in", "me", "au", "it"},
  Stems <- [word \in {} |-> word], Metrics <- {"5ms"}, Unprefixed <- ("v1.2" :> "1.2"),
  Within <- HoldingMarkers,
  Sayings <- SomeSayings


\* An agent's own note, and one of another agent in another workspace; messages of every
\* kind of proposal; what contradicts them, and a turn that says the same.
SpelledTiers == [t \in {"global", "task", "workspace", "decision"} |-> t] @@ (" Task" :> "task") @@ ("none" :> "none")
TieredRows == {[id |-> 1, workspace |-> "w", agent |-> "c", tier |-> "workspace"],
         [id |-> 2, workspace |-> "v", agent |-> "b", tier |-> "task"]}
Msg(marker, hedged, secret) == [peer |-> "p", profile |-> "", marker |-> marker, hedged |-> hedged, secret |-> secret, subject |-> "x", body |-> "x is y"]
ToldOf == {Msg("remember", FALSE, FALSE), Msg("", FALSE, TRUE),
         [Msg("preference", FALSE, TRUE) EXCEPT !.profile = "f"], [Msg("update", TRUE, FALSE) EXCEPT !.peer = "q"]}
KnownOf == {[id |-> 1, source |-> "conclusion", body |-> "x is z", mentions |-> {"x"}], [id |-> 3, source |-> "turn", body |-> "x is z", mentions |-> {"x"}]}
Unrelated == {[kind |-> "stale", peer |-> "p", session |-> ""], [kind |-> "conflict", peer |-> "p", session |-> "t"]}
SomeSentinels ==
  {[id |-> 0, peer |-> "p", first |-> "release", rest |-> "friday"],
   [id |-> 1, peer |-> "", first |-> "release", rest |-> "monday"],
   [id |-> 1, peer |-> "q", first |-> "deploy", rest |-> "friday"]}
Filed == {[id |-> 1, workspace |-> "w"], [id |-> 2, workspace |-> "w"], [id |-> 3, workspace |-> "v"]}
\* Keys asked for with and without what they need, in spellings with blanks.
Spaced == [s \in {"", "w", "v", "p", "k", "l"} |-> s] @@ (" " :> "") @@ (" w" :> "w") @@ (" k" :> "k")
SpelledModes == [m \in {"local-only", "team-preview", "team-enabled"} |-> m] @@ ("" :> "") @@ (" Team-Enabled" :> "team-enabled")
KeyOf == [workspace |-> "", peer |-> "p", session |-> "", expires |-> 0, auth |-> TRUE, admin |-> TRUE, secret |-> "k"]
SomeKeys ==
  {KeyOf, [KeyOf EXCEPT !.auth = FALSE], [KeyOf EXCEPT !.admin = FALSE], [KeyOf EXCEPT !.peer = " "],
   [KeyOf EXCEPT !.workspace = " w", !.expires = 4], [KeyOf EXCEPT !.session = "w", !.expires = 5, !.secret = "l"],
   [KeyOf EXCEPT !.secret = " "], [KeyOf EXCEPT !.secret = " k", !.expires = 3]}
SomeScopes == [workspace : {"", "w", "v"}, profile : {"", "f"}]
Rules == INSTANCE Governance WITH
  Messages <- ToldOf, Conclusions <- KnownOf, Others <- Unrelated, Peers <- {"p", "q"}, Profiles <- {"f"},
  Session <- "s", SessionKeys <- {"s", "t"}, Windows <- {0, 1}, DefaultWindow <- 2, Details <- 1, MaxItems <- 3,
  MaxMessages <- 2, Absent <- None, Viewed <- Filed, FacetValues <- {"x", "y"},
  Asked <- AskedKeys, Trimmed <- TrimmedNames

PartInit ==
  /\ part \in {"leases", "graph", "receipts", "feeds", "reviews", "agents", "uploads", "watcher", "facts",
               "access", "proposals", "extract", "sentinels", "facets", "keys"}
  /\ Init /\ Graph!Init /\ Log!Init /\ Spawned!AgentsInit /\ Uploads!ImportInit /\ Watch!WatchInit
  /\ Facts!FactsInit /\ Rules!GovernanceInit
  /\ part = "watcher" \/ files = [p \in Paths |-> None]
  /\ \A p \in Paths \ Included : files[p] \in {"a", None}

PartNext ==
  /\ UNCHANGED part
  /\ IF part = "leases" THEN Next ELSE UNCHANGED vars
  /\ CASE part = "graph" -> Graph!Next
       [] part = "receipts" -> Receipts!Next
       [] part = "feeds" -> Feeds!FeedNext
       [] OTHER -> UNCHANGED graphVars
  /\ IF part = "reviews" THEN Log!Next ELSE UNCHANGED reviewVars
  /\ IF part = "agents" THEN Spawned!AgentsNext ELSE UNCHANGED agentVars
  /\ IF part = "uploads" THEN Uploads!ImportNext ELSE UNCHANGED importVars
  /\ IF part = "watcher" THEN Watch!WatchNext ELSE UNCHANGED watchVars
  /\ IF part = "facts" THEN Facts!FactsNext ELSE UNCHANGED factVars
  /\ IF part = "access" THEN Rules!AccessNext ELSE UNCHANGED <<grants, active>>
  /\ IF part = "proposals" THEN Rules!ProposalsNext ELSE UNCHANGED <<proposals, decided>>
  /\ IF part = "extract" THEN Rules!ExtractNext ELSE UNCHANGED <<messages, waiting, extracted>>
  /\ CASE part = "sentinels" -> Rules!SentinelsNext
       [] part = "facets" -> Rules!FacetsNext
       [] OTHER -> UNCHANGED <<sentinels, facets, archived, upserts>>
  /\ IF part = "keys" THEN Rules!KeysNext ELSE UNCHANGED <<issued, time>>

PartSpec ==
  PartInit /\ [][PartNext]_<<part, vars, graphVars, reviewVars, agentVars, importVars, watchVars,
                       factVars, ruleVars>>

-----------------------------------------------------------------------------
\* The properties of the modules; a part at rest keeps its initial state.

PartTypeOK ==
  /\ TypeOK
  /\ part = "graph" => Graph!TypeOK
  /\ part = "receipts" => Receipts!TypeOK
  /\ part = "feeds" => Feeds!TypeOK
  /\ part = "reviews" => Log!TypeOK
  /\ part = "agents" => Spawned!AgentsTypeOK
  /\ part = "uploads" => Uploads!ImportTypeOK
  /\ part = "watcher" => Watch!WatchTypeOK
  /\ part = "facts" => Facts!FactsTypeOK
  /\ part \in {"access", "proposals", "extract", "sentinels", "facets", "keys"} => Rules!GovernanceTypeOK

\* The audit tables of leases, of receipts and of feeds; a feed's pages are the feed.
AuditsExplain ==
  /\ AuditExplainsLeases
  /\ part = "receipts" => Receipts!ReceiptsAudited
  /\ part = "feeds" => Feeds!FeedIsWhole

\* Dependencies are the ones given last, a graph's frontier follows from them, and
\* completion is for good.
GraphTellsTheTruth ==
  part = "graph" =>
    Graph!DepsAreTheLastList /\ Graph!FrontierTellsTheGraph /\ Graph!CompletionSticks

\* One open item per subject, one resolution per item, one decision per proposal; what an
\* operator watches for is watched, nobody reads what is not theirs, and keys end.
ReviewsSettle ==
  /\ part = "reviews" => Log!OneOpenItem /\ Log!ResolvedOnce
  /\ part = "access" => Rules!AccessAgrees
  /\ part = "proposals" => Rules!DecidedOnce
  /\ part = "sentinels" => Rules!SentinelsWatch
  /\ part = "keys" => Rules!KeysHold

\* What comes in keeps its identity: an agent its ID, a file its text, a change its content,
\* a conclusion what its facts say. What is extracted or filed is listed: it waits for a
\* review that a context tells of, or is in the report of its facet.
IntakeAgrees ==
  /\ part = "agents" => Spawned!NamesFindTheirAgent
  /\ part = "uploads" => Uploads!FilesWhole
  /\ part = "watcher" => Watch!RefusedOnlyTorn
  /\ part = "facts" => Facts!FactsAnswer /\ Facts!RelationsReadBack /\ Facts!AnswersStay
  /\ part = "extract" => Rules!ExtractionsAgree /\ Rules!ContextsTellWaiting
  /\ part = "facets" => Rules!FacetsList
=============================================================================
