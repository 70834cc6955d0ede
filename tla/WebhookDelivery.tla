--------------------------- MODULE WebhookDelivery ---------------------------
(***************************************************************************)
(* internal/webhooks: the endpoints a workspace registers, in SQLite, and  *)
(* the worker that posts an event to each of them. The worker's store and  *)
(* HTTP client are the host's: its store lists the registered endpoints    *)
(* and remembers which are disabled, and it delivers an event again, one   *)
(* attempt up, while a result asks for a retry.                            *)
(***************************************************************************)
EXTENDS Integers, FiniteSets

CONSTANTS
  Workers,      \* goroutines calling Deliver
  Events,
  Ids,          \* the random IDs of endpoints
  Limits,       \* CreateParams.Limit of the calls
  MaxAttempts,  \* Worker.MaxAttempts
  MaxCalls      \* bound: calls of Deliver, by event

VARIABLES
  table,        \* the IDs in goncho_webhook_endpoints
  unused,       \* the IDs not drawn yet
  disabled,     \* the host's marks: why an ID is disabled, or "no"
  attempts,     \* the results the store recorded
  tries, retry, \* the last attempt of each event, and whether to try again
  call,         \* the Deliver each worker is in
  failed,       \* history: results whose recording or disabling failed
  late          \* history: posts to an endpoint since it was disabled

vars == <<table, unused, disabled, attempts, tries, retry, call, failed, late>>

Reasons == {"max_attempts_exhausted", "permanent_failure"}
Idle == [at |-> "idle"]
NoEndpoint == "none"

TypeOK ==
  /\ table \subseteq Ids \ unused
  /\ disabled \in [Ids -> Reasons \cup {"no"}]
  /\ tries \in [Events -> Nat] /\ retry \in [Events -> BOOLEAN]
  /\ \A w \in Workers : call[w].at \in {"idle", "send", "record", "disable"}

Init ==
  /\ table = {} /\ unused = Ids
  /\ disabled = [i \in Ids |-> "no"]
  /\ attempts = {}
  /\ tries = [e \in Events |-> 0] /\ retry = [e \in Events |-> TRUE]
  /\ call = [w \in Workers |-> Idle]
  /\ failed = {} /\ late = [i \in Ids |-> 0]

-----------------------------------------------------------------------------
\* Endpoints

\* In one transaction; a URL of the table keeps its row, and nothing changes.
GetOrCreate(i, limit) ==
  /\ i \in unused
  /\ Cardinality(table) < limit
  /\ table' = table \cup {i}
  /\ unused' = unused \ {i}
  /\ UNCHANGED <<disabled, attempts, tries, retry, call, failed, late>>

Delete(i) ==
  /\ i \in table
  /\ table' = table \ {i}
  /\ UNCHANGED <<unused, disabled, attempts, tries, retry, call, failed, late>>

-----------------------------------------------------------------------------
\* Deliver

\* Mutant: one attempt too many.
Passed(n) == n > MaxAttempts
Exhausted(n) == n >= MaxAttempts

\* classify and failureOrRetry: the post ends in a 2xx status, in an error
\* that may pass (network, 408, 429, 5xx), or in any other status.
Status(outcome, n) ==
  IF outcome = "2xx" THEN "delivered"
  ELSE IF outcome = "passing" /\ ~Exhausted(n) THEN "retryable"
  ELSE "failed"

\* Mutant: any failure counts as permanent.
AlwaysPermanent(result) == "permanent_failure"
FailureDisableReason(result) ==
  IF result.outcome = "passing" THEN "max_attempts_exhausted" ELSE "permanent_failure"

Result(c, id, status, outcome) ==
  [event |-> c.event, attempt |-> c.attempt, id |-> id, status |-> status, outcome |-> outcome]

\* c with its next result, to be recorded.
WithResult(c, result) ==
  [c EXCEPT !.at = "record", !.result = result, !.todo = @ \ {result.id},
            !.retry = @ \/ result.status = "retryable"]

\* The call returns its results, and the host sees if one asks for a retry.
Return(w) ==
  /\ call' = [call EXCEPT ![w] = Idle]
  /\ tries' = [tries EXCEPT ![call[w].event] = call[w].attempt]
  /\ retry' = [retry EXCEPT ![call[w].event] = call[w].retry]

\* On to the next endpoint, or back without error.
Proceed(w) ==
  IF call[w].todo # {}
  THEN /\ call' = [call EXCEPT ![w].at = "send"]
       /\ UNCHANGED <<tries, retry>>
  ELSE Return(w)

\* The endpoints as the store lists them now; a call without endpoints, or
\* of a Worker without a secret, has one result in all.
List(w, e, signed) ==
  LET c == [at |-> "send", event |-> e, attempt |-> tries[e] + 1, listed |-> table, todo |-> table,
            off |-> {i \in table : disabled[i] # "no"}, result |-> Idle, retry |-> FALSE]
      alone == [c EXCEPT !.listed = {}, !.todo = {}]
  IN
  /\ call[w] = Idle /\ retry[e] /\ tries[e] < MaxCalls[e]
  /\ \A v \in Workers : call[v] # Idle => call[v].event # e
  /\ call' = [call EXCEPT ![w] =
       IF table = {} THEN WithResult(alone, Result(c, NoEndpoint, "skipped", "none"))
       ELSE IF ~signed THEN WithResult(alone, Result(c, NoEndpoint, "failed", "none"))
       ELSE c]
  /\ UNCHANGED <<table, unused, disabled, attempts, tries, retry, failed, late>>

\* Mutant: the call ends at a disabled endpoint.
StopThere(c, i) == [WithResult(c, Result(c, i, "endpoint_disabled", "none")) EXCEPT !.todo = {}]
Skipping(c, i) == WithResult(c, Result(c, i, "endpoint_disabled", "none"))

\* Mutant: disabled endpoints are posted to.
NoneOff(c) == {}
Off(c) == c.off

SkipDisabled(w, i) ==
  /\ call[w].at = "send" /\ i \in call[w].todo \cap Off(call[w])
  /\ call' = [call EXCEPT ![w] = Skipping(@, i)]
  /\ UNCHANGED <<table, unused, disabled, attempts, tries, retry, failed, late>>

Post(w, i, outcome) ==
  LET c == call[w] IN
  /\ c.at = "send" /\ i \in c.todo \ Off(c)
  /\ call' = [call EXCEPT ![w] =
       WithResult(c, Result(c, i, Status(outcome, c.attempt), outcome))]
  /\ late' = [late EXCEPT ![i] = IF disabled[i] # "no" THEN @ + 1 ELSE @]
  /\ UNCHANGED <<table, unused, disabled, attempts, tries, retry, failed>>

\* A failed endpoint is disabled next; when the store fails the call ends.
Record(w) ==
  LET result == call[w].result IN
  /\ call[w].at = "record"
  /\ \/ /\ attempts' = attempts \cup {result}
        /\ UNCHANGED failed
        /\ IF result.status = "failed" /\ result.id # NoEndpoint
           THEN /\ call' = [call EXCEPT ![w].at = "disable"]
                /\ UNCHANGED <<tries, retry>>
           ELSE Proceed(w)
     \/ /\ failed' = failed \cup {result}
        /\ Return(w)
        /\ UNCHANGED attempts
  /\ UNCHANGED <<table, unused, disabled, late>>

Disable(w) ==
  LET result == call[w].result IN
  /\ call[w].at = "disable"
  /\ \/ /\ disabled' = [disabled EXCEPT ![result.id] = FailureDisableReason(result)]
        /\ Proceed(w)
        /\ UNCHANGED failed
     \/ /\ failed' = failed \cup {result}
        /\ Return(w)
        /\ UNCHANGED disabled
  /\ UNCHANGED <<table, unused, attempts, late>>

Next ==
  \/ \E i \in Ids : Delete(i) \/ \E limit \in Limits : GetOrCreate(i, limit)
  \/ \E w \in Workers :
       \/ \E e \in Events, signed \in BOOLEAN : List(w, e, signed)
       \/ \E i \in Ids : SkipDisabled(w, i)
       \/ \E i \in Ids, outcome \in {"2xx", "passing", "other"} : Post(w, i, outcome)
       \/ Record(w) \/ Disable(w)

Spec == Init /\ [][Next]_vars

-----------------------------------------------------------------------------
\* Properties

\* The failures on record tell which endpoints are disabled, and why: an
\* endpoint with a failure is disabled, or about to be, or the store failed
\* at it; and no endpoint is disabled without a failure, or as exhausted
\* before the last attempt (delivery.go:202-209 and 319-327).
DisabledTellsFailures ==
  /\ \A a \in attempts : a.status = "failed" /\ a.id # NoEndpoint =>
       \/ disabled[a.id] # "no"
       \/ a \in failed
       \/ \E w \in Workers : call[w].at = "disable" /\ call[w].result = a
  /\ \A i \in Ids : disabled[i] # "no" =>
       \E a \in attempts :
         /\ a.id = i /\ a.status = "failed"
         /\ disabled[i] = "max_attempts_exhausted" <=> a.outcome = "passing"
         /\ a.outcome = "passing" => a.attempt = MaxAttempts

\* A host that follows the results tries no event more than MaxAttempts
\* times, whatever endpoints come and go (failureOrRetry, delivery.go:228-234).
RetriesEnd == \A e \in Events : tries[e] <= MaxAttempts /\ (tries[e] = MaxAttempts => ~retry[e])

\* A call that returns without an error of the store has recorded a result
\* for every endpoint it listed (the loop of Deliver, delivery.go:178-210).
CleanCallCoversAll ==
  [][\A w \in Workers : call[w] # Idle /\ call'[w] = Idle /\ failed' = failed =>
       \A i \in call[w].listed : \E a \in attempts' :
         a.id = i /\ a.event = call[w].event /\ a.attempt = call[w].attempt]_vars

\* Once an endpoint is disabled each other worker posts to it at most once
\* more: the call that had listed it before (delivery.go:182-189).
DisableStopsPosts == \A i \in Ids : late[i] < Cardinality(Workers)
=============================================================================
