--------------------------- MODULE DreamScheduler ---------------------------
(***************************************************************************)
(* internal/dreamscheduler and service/conclusion_module.go over the       *)
(* shared SQLite tables.  Every SQL statement is one atomic step (one      *)
(* connection, no transaction around them), so a Schedule, a Conclude, a   *)
(* queue status (internal/queuestatus) and the host's dream worker         *)
(* interleave between their statements.                                    *)
(***************************************************************************)
EXTENDS Naturals, Sequences, FiniteSetsExt

CONSTANTS
  Schedulers,           \* goroutines calling ScheduleDream
  Writers,              \* goroutines calling Conclude
  Readers,              \* goroutines asking for the queue's status
  EvidenceRows,         \* dreams of a kind that a status names (10 in the code)
  Observers, Peers,     \* observer and observed peers of one workspace
  Contents,             \* conclusion texts; equal texts share a row
  MinConclusions, Cooldown, IdleTimeout,
  ManualAllowed,        \* BOOLEAN: do hosts request manual dreams
  Completions,          \* what the host's worker stamps on a completed dream
  MaxClock, MaxConclusions, MaxDreams       \* bounds

ASSUME ConfigAssumption ==
  /\ {MinConclusions, Cooldown, IdleTimeout, EvidenceRows} \subseteq Nat \ {0}
  /\ ManualAllowed \in BOOLEAN
  /\ Completions \subseteq {"cooldown", "time", "status"}
  /\ {MaxConclusions, MaxDreams} \subseteq Nat /\ MaxClock \in Nat \ {0}

VARIABLES
  host,                 \* is dreaming enabled, is the table present
  clock,                \* Unix time
  conclusions,          \* goncho_conclusions: the processed rows
  lastId,               \* their AUTOINCREMENT sequence
  dreams,               \* goncho_dreams: row i has id i
  sched,                \* the call each scheduler is in
  write,                \* the Conclude each writer is in
  asked                 \* the status each reader is asking for

\* A status only reads: what it is about is all the rest.
vars == <<host, clock, conclusions, lastId, dreams, sched, write>>

-----------------------------------------------------------------------------
\* Types

Times == 1..MaxClock
Statuses == {"pending", "in_progress", "completed", "stale"}
Conclusion == [id : Nat, observer : Observers, peer : Peers, content : Contents,
               created : Times]

\* covers is history: the conclusions counted for the dream.
Eligibility == [count : Nat, last : Nat, act : Nat, cool : Nat, covers : SUBSET Nat]

Dream == [observer : Observers, peer : Peers, status : Statuses, manual : BOOLEAN,
          elig : Eligibility, scheduledFor : Times, done : Nat, cool : Nat, updated : Times]

Idle == [at |-> "idle"]

TypeOK ==
  /\ host \in [enabled : BOOLEAN, table : BOOLEAN]
  /\ clock \in Times
  /\ conclusions \subseteq Conclusion
  /\ lastId \in Nat
  /\ \A d \in DOMAIN dreams : dreams[d] \in Dream
  /\ \A s \in Schedulers : sched[s].at \in {"idle", "latest", "counting", "inserting", "finding"}
  /\ \A w \in Writers : write[w].at \in {"idle", "upserting", "cancelling"}

Init ==
  /\ host \in [enabled : BOOLEAN, table : BOOLEAN]
  /\ clock = 1
  /\ conclusions = {}
  /\ lastId = 0
  /\ dreams = <<>>
  /\ sched = [s \in Schedulers |-> Idle]
  /\ write = [w \in Writers |-> Idle]

-----------------------------------------------------------------------------
\* The queries

\* Mutant: a dream that runs is not seen as active work.
OnlyPending == {"pending"}

\* status IN ('pending', 'in_progress')
ActiveStatuses == {"pending", "in_progress"}

\* findActiveIntent finds a row.
HasActive(o, p) ==
  \E d \in DOMAIN dreams :
    /\ dreams[d].observer = o /\ dreams[d].peer = p
    /\ dreams[d].status \in ActiveStatuses

\* latestCompleted: newest by completion time, then by id; {} when there is none.
FinishedAt(d) == IF dreams[d].done > 0 THEN dreams[d].done ELSE dreams[d].updated

LatestCompleted(o, p) ==
  LET done == {d \in DOMAIN dreams : /\ dreams[d].observer = o /\ dreams[d].peer = p
                                     /\ dreams[d].status = "completed"}
  IN {d \in done : \A e \in done :
        \/ FinishedAt(e) < FinishedAt(d)
        \/ FinishedAt(e) = FinishedAt(d) /\ e <= d}

\* Mutant: the threshold counts conclusions of earlier dreams again.
NoWatermark(o, p) == 0

\* The last conclusion the last completed dream covered.
Watermark(o, p) == IF LatestCompleted(o, p) = {} THEN 0
                   ELSE LET d == CHOOSE d \in LatestCompleted(o, p) : TRUE
                        IN dreams[d].elig.last

\* Mutant: the last completed dream never cools down.
NoCooldown(o, p) == 0

\* Mutant: the cooldown is taken off the last activity.
CooldownBefore(o, p) ==
  IF LatestCompleted(o, p) = {} THEN 0
  ELSE dreams[CHOOSE d \in LatestCompleted(o, p) : TRUE].elig.act - Cooldown

\* The end of the cooldown: the row's own stamp, or computed from its
\* completion time, or from its last activity when it has neither.
CooldownUntil(o, p) ==
  IF LatestCompleted(o, p) = {} THEN 0
  ELSE LET d == dreams[CHOOSE d \in LatestCompleted(o, p) : TRUE]
       IN IF d.cool > 0 THEN d.cool
          ELSE IF d.done > 0 THEN d.done + Cooldown
          ELSE d.elig.act + Cooldown

\* Mutant: activity is dated by the oldest row, MIN for MAX.
FirstActivity(rows) == IF rows = {} THEN 0 ELSE Min({c.created : c \in rows})

\* MAX(created_at)
LastActivity(rows) == IF rows = {} THEN 0 ELSE Max({c.created : c \in rows})

\* The end of readEligibility: processed conclusions past a watermark.
ReadEligibility(o, p, mark, cool) ==
  LET rows == {c \in conclusions : c.observer = o /\ c.peer = p /\ c.id > mark}
  IN [count |-> Cardinality(rows),
      last  |-> IF rows = {} THEN 0 ELSE Max({c.id : c \in rows}),
      act   |-> LastActivity(rows),
      cool  |-> cool,
      covers |-> {c.id : c \in rows}]

-----------------------------------------------------------------------------
\* ScheduleDream

Return(s) == sched' = [sched EXCEPT ![s] = Idle]

\* The call reads its clock, then asks for active work and reuses it.
Schedule(s, o, p, manual) ==
  /\ sched[s].at = "idle"
  /\ host.enabled /\ host.table
  /\ manual => ManualAllowed
  /\ ~HasActive(o, p)
  /\ sched' = [sched EXCEPT ![s] =
       [at |-> "latest", observer |-> o, peer |-> p, manual |-> manual, now |-> clock]]
  /\ UNCHANGED <<host, clock, conclusions, lastId, dreams, write>>

\* readEligibility asks for the last completed dream ...
ReadLatest(s) ==
  LET call == sched[s] IN
  /\ call.at = "latest"
  /\ sched' = [sched EXCEPT ![s] =
       [at |-> "counting", observer |-> call.observer, peer |-> call.peer,
        manual |-> call.manual, now |-> call.now,
        mark |-> Watermark(call.observer, call.peer),
        cool |-> CooldownUntil(call.observer, call.peer)]]
  /\ UNCHANGED <<host, clock, conclusions, lastId, dreams, write>>

\* The threshold, cooldown and idle gates an automatic request passes.
Eligible(call, elig) ==
  \/ call.manual
  \/ /\ elig.count >= MinConclusions
     /\ elig.cool <= call.now
     /\ elig.act > 0 => elig.act + IdleTimeout <= call.now

\* ... and counts the conclusions since; the gates admit the call or end it.
CountConclusions(s) ==
  LET call == sched[s]
      elig == ReadEligibility(call.observer, call.peer, call.mark, call.cool)
  IN
  /\ call.at = "counting"
  /\ \/ /\ Eligible(call, elig)
        /\ sched' = [sched EXCEPT ![s] =
             [at |-> "inserting", observer |-> call.observer, peer |-> call.peer,
              manual |-> call.manual, now |-> call.now, elig |-> elig]]
     \/ ~Eligible(call, elig) /\ Return(s)
  /\ UNCHANGED <<host, clock, conclusions, lastId, dreams, write>>

\* insertIntent: the row also carries the cooldown its eligibility read.
NewDream(call) ==
  [observer |-> call.observer, peer |-> call.peer, status |-> "pending",
   manual |-> call.manual, elig |-> call.elig, scheduledFor |-> call.now, done |-> 0,
   cool |-> call.elig.cool, updated |-> call.now]

InsertIntent(s) ==
  /\ sched[s].at = "inserting"
  /\ Len(dreams) < MaxDreams
  /\ dreams' = Append(dreams, NewDream(sched[s]))
  /\ Return(s)
  /\ UNCHANGED <<host, clock, conclusions, lastId, write>>

\* The insert fails; Schedule looks for active work once more and answers
\* "reused" or the error: neither changes anything.
InsertFails(s) ==
  /\ sched[s].at = "inserting"
  /\ sched' = [sched EXCEPT ![s].at = "finding"]
  /\ UNCHANGED <<host, clock, conclusions, lastId, dreams, write>>

FindAfterFailure(s) ==
  /\ sched[s].at = "finding"
  /\ Return(s)
  /\ UNCHANGED <<host, clock, conclusions, lastId, dreams, write>>

-----------------------------------------------------------------------------
\* The status of the queue

\* "dream_" before the status.
EvidenceCode ==
  [pending |-> "dream_pending", in_progress |-> "dream_in_progress",
   completed |-> "dream_completed", stale |-> "dream_stale"]

\* EvidenceFromIntent.
RowEvidence(d) ==
  [code |-> EvidenceCode[dreams[d].status], dream |-> d, observed |-> dreams[d].peer,
   cool |-> dreams[d].cool]

\* ORDER BY at DESC, id DESC LIMIT n
Newest(rows, at(_), n) ==
  {d \in rows : Cardinality({e \in rows : at(e) > at(d) \/ (at(e) = at(d) /\ e > d)}) < n}

\* readDreamWorkUnitCounts: a stale dream only counts in the total.
WorkUnits(o) ==
  LET mine == {d \in DOMAIN dreams : dreams[d].observer = o}
      count(st) == Cardinality({d \in mine : dreams[d].status = st})
  IN [total |-> Cardinality(mine), pending |-> count("pending"),
      running |-> count("in_progress"), completed |-> count("completed")]

\* An observer's dreams that wait or run.
ActiveOf(o) == {d \in DOMAIN dreams : dreams[d].observer = o /\ dreams[d].status \in ActiveStatuses}

\* Mutant: the stamp of a completed row is not looked at.
SinceFinished(d) == FinishedAt(d)

\* When the status takes the cooldown of a completed dream to end.
CoolingUntil(d) == IF dreams[d].cool > 0 THEN dreams[d].cool ELSE FinishedAt(d) + Cooldown

CoolingOf(o, now) ==
  {d \in DOMAIN dreams : /\ dreams[d].observer = o /\ dreams[d].status = "completed"
                         /\ CoolingUntil(d) > now}

\* The evidence of the rows that wait or run, and of those that cool down.
ActiveEvidence(o) ==
  LET updated(d) == dreams[d].updated
  IN {RowEvidence(d) : d \in Newest(ActiveOf(o), updated, EvidenceRows)}

CooldownEvidence(o, now) ==
  {[RowEvidence(d) EXCEPT !.code = "dream_cooldown", !.cool = CoolingUntil(d)] :
     d \in Newest(CoolingOf(o, now), CoolingUntil, EvidenceRows)}

\* Mutant: a dream that runs is not work.
OnlyWaiting(units) == units.pending > 0

AnyActive(units) == units.pending > 0 \/ units.running > 0

Answered(r) == asked' = [asked EXCEPT ![r] = Idle]

\* Read takes the time, and answers at once where dreams are disabled or have no
\* table.  active and known are history: the dreams it begins with.
AskStatus(r, o) ==
  /\ asked[r].at = "idle"
  /\ host.enabled /\ host.table
  /\ asked' = [asked EXCEPT ![r] = [at |-> "counting", observer |-> o, now |-> clock,
                                    active |-> ActiveOf(o), known |-> Len(dreams)]]

\* It counts the rows of every status ...
CountUnits(r) ==
  LET call == asked[r] IN
  /\ call.at = "counting"
  /\ asked' = [asked EXCEPT ![r] =
       [at |-> "naming", observer |-> call.observer, now |-> call.now,
        active |-> call.active, known |-> call.known, units |-> WorkUnits(call.observer)]]

\* ... reads those that wait or run ...
NameActive(r) ==
  LET call == asked[r] IN
  /\ call.at = "naming"
  /\ asked' = [asked EXCEPT ![r] =
       [at |-> "cooling", observer |-> call.observer, now |-> call.now,
        active |-> call.active, known |-> call.known, units |-> call.units,
        named |-> ActiveEvidence(call.observer)]]

\* ... and those that cool down, and tells of all three.
QueueStatus(call) ==
  LET evidence == call.named \cup CooldownEvidence(call.observer, call.now)
  IN [status |-> IF AnyActive(call.units) THEN "active"
                 ELSE IF \E e \in evidence : e.code = "dream_cooldown" THEN "cooldown"
                 ELSE "idle",
      units |-> call.units, evidence |-> evidence]

TellStatus(r) == asked[r].at = "cooling" /\ Answered(r)

\* Any of the statements fails.
StatusFails(r) == asked[r].at # "idle" /\ Answered(r)

-----------------------------------------------------------------------------
\* Conclude

Conclude(w, o, p, content) ==
  /\ write[w].at = "idle"
  /\ write' = [write EXCEPT ![w] = [at |-> "upserting", observer |-> o, peer |-> p,
                                    content |-> content, now |-> clock]]
  /\ UNCHANGED <<host, clock, conclusions, lastId, dreams, sched>>

\* Insert, or touch the row that already holds this conclusion.  Storing its
\* fact annotations then succeeds or ends the call with an error.
UpsertConclusion(w) ==
  LET call == write[w]
      same(c) == /\ c.observer = call.observer /\ c.peer = call.peer
                 /\ c.content = call.content
  IN
  /\ call.at = "upserting"
  /\ IF \E c \in conclusions : same(c) THEN UNCHANGED <<conclusions, lastId>>
     ELSE /\ lastId < MaxConclusions
          /\ lastId' = lastId + 1
          /\ conclusions' = conclusions \cup
               {[id |-> lastId + 1, observer |-> call.observer, peer |-> call.peer,
                 content |-> call.content, created |-> call.now]}
  /\ \/ host.enabled /\ write' = [write EXCEPT ![w].at = "cancelling"]
     \/ write' = [write EXCEPT ![w] = Idle]
  /\ UNCHANGED <<host, clock, dreams, sched>>

\* status = 'pending'
Cancellable == {"pending"}

\* CancelPendingForObserved: every observer's pending dream of the peer.
CancelPending(w) ==
  /\ write[w].at = "cancelling"
  /\ dreams' = [d \in DOMAIN dreams |->
       IF host.table /\ dreams[d].peer = write[w].peer /\ dreams[d].status \in Cancellable
         THEN [dreams[d] EXCEPT !.status = "stale", !.updated = clock]
         ELSE dreams[d]]
  /\ write' = [write EXCEPT ![w] = Idle]
  /\ UNCHANGED <<host, clock, conclusions, lastId, sched>>

\* Conclude with delete_id: the row goes, the dreams stay.
DeleteConclusion(w, c) ==
  /\ write[w].at = "idle"
  /\ conclusions' = conclusions \ {c}
  /\ UNCHANGED <<host, clock, lastId, dreams, sched, write>>

-----------------------------------------------------------------------------
\* The host: its dream worker and the passing of time

StartDream(d) ==
  /\ dreams[d].status = "pending"
  /\ dreams' = [dreams EXCEPT ![d].status = "in_progress", ![d].updated = clock]
  /\ UNCHANGED <<host, clock, conclusions, lastId, sched, write>>

CompleteDream(d, how) ==
  /\ dreams[d].status = "in_progress"
  /\ dreams' = [dreams EXCEPT
       ![d].status = "completed",
       ![d].updated = clock,
       ![d].done = IF how = "status" THEN 0 ELSE clock,
       ![d].cool = IF how = "cooldown" THEN clock + Cooldown ELSE @]
  /\ UNCHANGED <<host, clock, conclusions, lastId, sched, write>>

Tick ==
  /\ clock < MaxClock
  /\ clock' = clock + 1
  /\ UNCHANGED <<host, conclusions, lastId, dreams, sched, write>>

SchedulerStep(s) ==
  \/ \E o \in Observers, p \in Peers, manual \in BOOLEAN : Schedule(s, o, p, manual)
  \/ ReadLatest(s) \/ CountConclusions(s) \/ InsertIntent(s) \/ InsertFails(s) \/ FindAfterFailure(s)

WriterStep(w) ==
  \/ \E o \in Observers, p \in Peers, content \in Contents : Conclude(w, o, p, content)
  \/ UpsertConclusion(w) \/ CancelPending(w)
  \/ \E c \in conclusions : DeleteConclusion(w, c)

WorkerStep ==
  \E d \in DOMAIN dreams : StartDream(d) \/ \E how \in Completions : CompleteDream(d, how)

Next ==
  \/ \E s \in Schedulers : SchedulerStep(s)
  \/ \E w \in Writers : WriterStep(w)
  \/ WorkerStep
  \/ Tick

Spec == Init /\ [][Next]_vars

StatusStep(r) ==
  \/ \E o \in Observers : AskStatus(r, o)
  \/ CountUnits(r) \/ NameActive(r) \/ TellStatus(r) \/ StatusFails(r)

AskedInit == asked = [r \in Readers |-> Idle]

\* The same with calls that ask for the status between any two statements.
WatchedNext ==
  \/ Next /\ UNCHANGED asked
  \/ \E r \in Readers : StatusStep(r) /\ UNCHANGED vars

WatchedSpec == Init /\ AskedInit /\ [][WatchedNext]_<<vars, asked>>

-----------------------------------------------------------------------------
\* Properties

\* "Manual requests bypass threshold/cooldown/idle gates but still dedupe
\* active work" (scheduler.go:32-33): a peer never has two active dreams.
AtMostOneActive ==
  \A d, e \in DOMAIN dreams :
    /\ dreams[d].status \in {"pending", "in_progress"}
    /\ dreams[e].status \in {"pending", "in_progress"}
    /\ dreams[d].observer = dreams[e].observer /\ dreams[d].peer = dreams[e].peer
    => d = e

\* New activity makes a dream stale only before it has started, and staleness
\* and completion are final: the history is never rewritten
\* (CancelPendingForObserved, scheduler.go:255-264).
DreamLifecycle ==
  [][/\ Len(dreams) <= Len(dreams')
     /\ \A d \in DOMAIN dreams :
          /\ <<dreams[d].status, dreams'[d].status>> \in
               {<<x, x>> : x \in Statuses} \cup
               {<<"pending", "stale">>, <<"pending", "in_progress">>,
                <<"in_progress", "completed">>}
          /\ dreams'[d].elig = dreams[d].elig]_vars

\* What completed dreams have consolidated for an observer of a peer.
Consolidated(o, p) ==
  UNION {dreams[d].elig.covers : d \in {e \in DOMAIN dreams :
           /\ dreams[e].observer = o /\ dreams[e].peer = p
           /\ dreams[e].status = "completed"}}

NewRows == {d \in DOMAIN dreams' : d > Len(dreams)}

Renews(d) ==
  LET row == dreams'[d] IN
  ~row.manual =>
    Cardinality(row.elig.covers \ Consolidated(row.observer, row.peer)) >= MinConclusions

\* "dream requires at least %d new conclusions since the last completed dream"
\* (scheduler.go:170): an automatic dream is created only for that many
\* conclusions no completed dream has consolidated.
AutomaticDreamIsNew == [][\A d \in NewRows : Renews(d)]_vars

\* The same where no dream was ever requested by hand: deletions, late rows
\* and stale dreams never bring a consolidated conclusion back.
NewWithoutManual ==
  [][(\A e \in DOMAIN dreams : ~dreams[e].manual) => \A d \in NewRows : Renews(d)]_vars

\* An automatic dream covers no conclusion younger than the idle timeout at
\* the time it is scheduled for, whatever order the rows were stored in
\* (scheduler.go:194-208).
AutomaticDreamIsQuiet ==
  [][\A d \in NewRows :
       LET row == dreams'[d] IN
       ~row.manual =>
         \A c \in conclusions :
           c.id \in row.elig.covers => c.created + IdleTimeout <= row.scheduledFor]_vars

\* A status is put together from three statements (status.go:145-170, 209-269), between
\* which requests, deletions and the worker go on.  It is still true of the call:
\* a dream that a request would have been refused for all along makes it active
\* and is named, nothing that ended before the call does, and what it names but
\* has not counted was created meanwhile; told idle, no peer's request of that
\* time waits for a cooldown; and a cooldown that it names holds such a request up,
\* unless it is that of a row with no time of its own, which the status dates by
\* its last change and scheduling by its last activity (scheduler.go:355).
StatusTellsGates ==
  \A r \in Readers : asked[r].at = "cooling" =>
    LET call == asked[r]
        o == call.observer
        told == QueueStatus(call)
        active == {d \in call.active : dreams[d].status \in ActiveStatuses}
        shown == {e \in told.evidence : e.code # "dream_cooldown"}
    IN
    /\ active # {} => told.status = "active" /\ shown # {}
    /\ told.status = "active" => call.active # {} \/ Len(dreams) > call.known
    /\ told.status # "active" =>
         /\ \A e \in shown : e.dream > call.known
         /\ \A d \in ActiveOf(o) : d > call.known
    /\ told.status = "idle" => \A p \in Peers : CooldownUntil(o, p) <= call.now
    /\ \A e \in told.evidence \ shown :
         dreams[e.dream].done > 0 \/ dreams[e.dream].cool > 0 =>
           CooldownUntil(o, e.observed) > call.now /\ e.cool <= CooldownUntil(o, e.observed)

\* "dream cooldown has not elapsed since the last completed dream"
\* (scheduler.go:182): an automatic dream is scheduled a cooldown after every
\* completion of a dream of that peer.
CooldownElapsed ==
  [][\A d \in NewRows :
       LET row == dreams'[d] IN
       ~row.manual =>
         \A e \in DOMAIN dreams :
           /\ dreams[e].observer = row.observer /\ dreams[e].peer = row.peer
           /\ dreams[e].status = "completed" /\ dreams[e].done > 0
           => dreams[e].done + Cooldown <= row.scheduledFor]_vars
=============================================================================
