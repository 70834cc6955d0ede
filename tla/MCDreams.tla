------------------------------ MODULE MCDreams ------------------------------
(***************************************************************************)
(* What dreams work on: the scheduler that decides when (DreamScheduler),  *)
(* the conclusions that tellings, compression, consolidation and retention *)
(* change, and the turns and summaries of a session. The scheduler only    *)
(* counts conclusions, and no statement about them reads a turn, so each   *)
(* is checked with the others at rest: part names the one a behaviour is   *)
(* about.  The scheduler is checked alone, and with calls for the queue's  *)
(* status between its statements.                                          *)
(***************************************************************************)
EXTENDS DreamScheduler, TLC

CONSTANTS
  Clients, Attempts, MaxTurns,
  a, b, about, tier, image, MaxRows

VARIABLES
  part,
  rows, nextId, horizon, images, audits, running, told, forgotten, unlogged,
  turns, turnId, summaries, ending, call, backdated, misread

factVars == <<rows, nextId, horizon, images, audits, running, told, forgotten, unlogged>>
turnVars == <<turns, turnId, summaries, ending, call, backdated, misread>>

\* b is alike to a, and longer.
Lengths == (a :> 2) @@ (b :> 3)

Facts == INSTANCE Conclusions WITH
  Peers <- {about}, Texts <- {a, b}, Alike <- {<<a, b>>, <<b, a>>}, Length <- Lengths,
  Tiers <- {tier}, MaxWraps <- 1, Images <- {image}, Limits <- {0, 1}

\* The long summary costs more and is due later; every other turn costs two tokens.
Session == INSTANCE Sessions WITH
  lastId <- turnId, Times <- {1, 2}, Cadence <- [short |-> 2, long |-> 3],
  SummaryCost <- [short |-> 1, long |-> 2], Cost <- [i \in 1..MaxTurns |-> 1 + (i % 2)],
  Limits <- {0, 3}, RecentLimit <- 1, MaxEndings <- 1

PartInit ==
  /\ part \in {"scheduler", "status", "facts", "session"}
  /\ Init /\ AskedInit /\ Facts!ConclusionsInit /\ Session!Init
  /\ part = "scheduler" \/ (host.enabled /\ host.table)

\* MaxRows counts the image too, and a row that is deleted twice.
RowsFit == (images'[image] = Facts!Absent /\ ~forgotten') \/ nextId' <= MaxRows

\* A structured summary, which no context reads, is stored before the first turn.
StructuredFirst == turnId' = 0 \/ (ending' = 0 /\ summaries'["structured"] = Session!NoSummary)

\* A status is asked for within two seconds and about one conclusion.
StatusFits == lastId' <= 1 /\ clock' <= 2

PartNext ==
  /\ UNCHANGED part
  /\ CASE part = "scheduler" -> Next /\ UNCHANGED asked
       [] part = "status" -> WatchedNext /\ StatusFits
       [] OTHER -> UNCHANGED <<vars, asked>>
  /\ IF part = "facts" THEN Facts!ConclusionsNext /\ RowsFit ELSE UNCHANGED factVars
  /\ IF part = "session" THEN Session!Next /\ StructuredFirst ELSE UNCHANGED turnVars

PartSpec == PartInit /\ [][PartNext]_<<part, vars, asked, factVars, turnVars>>

-----------------------------------------------------------------------------
\* The properties of the modules; a part at rest keeps its initial state.

PartTypeOK ==
  /\ TypeOK
  /\ part = "facts" => Facts!ConclusionsTypeOK
  /\ part = "session" => Session!TypeOK

\* What was told stays until it is deleted, superseded or archived, and is archived once.
\* A context hides no turn it does not account for.
ToldIsKept ==
  /\ part = "facts" => Facts!ToldStays /\ Facts!ArchivedOnce
  /\ part = "session" => Session!ContextAccounts

\* The clients are the same goroutines.
PartSymmetric ==
  Permutations(Contents) \cup Permutations(Writers) \cup Permutations(Observers) \cup Permutations(Clients)
=============================================================================
