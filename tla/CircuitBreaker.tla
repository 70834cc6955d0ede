--------------------------- MODULE CircuitBreaker ---------------------------
(***************************************************************************)
(* service/provider_resilience.go: the circuit breaker that recall and     *)
(* search put around the optional embedding provider.  The breaker is      *)
(* locked before and after a call but not during it, so calls overlap and  *)
(* their outcomes arrive in any order.                                     *)
(***************************************************************************)
EXTENDS Integers

CONSTANTS
  Callers,              \* goroutines that recall or search
  Threshold,            \* failureThreshold, after providerpolicy.FailureThreshold
  Cooldown              \* cooldown, in clock ticks

ASSUME BreakerAssumption == Threshold \in Nat \ {0} /\ Cooldown \in Nat \ {0}

VARIABLES
  state,
  failureCount,         \* Threshold at most: larger counts act alike
  sinceOpened,          \* now - openedAt, Cooldown at most; 0 unless open
  calling               \* the callers inside the provider, unlocked

vars == <<state, failureCount, sinceOpened, calling>>

TypeOK ==
  /\ state \in {"closed", "open", "half_open"}
  /\ failureCount \in 0..Threshold
  /\ sinceOpened \in 0..Cooldown
  /\ calling \subseteq Callers

Init ==
  /\ state = "closed" /\ failureCount = 0 /\ sinceOpened = 0
  /\ calling = {}

-----------------------------------------------------------------------------
\* Mutant: an elapsed cooldown is noticed one tick early.
HalfCooled == sinceOpened + 1 < Cooldown

Cooling == sinceOpened < Cooldown

\* Mutant: the probe that finds the cooldown elapsed clears the count.
ForgetFailures == failureCount' = 0
KeepFailures == failureCount' = failureCount

\* beforeCall lets the call through; the first one after the cooldown turns
\* the open circuit half-open.
Admit(c) ==
  /\ c \notin calling
  /\ calling' = calling \cup {c}
  /\ \/ state # "open" /\ UNCHANGED <<state, failureCount, sinceOpened>>
     \/ /\ state = "open" /\ ~Cooling
        /\ state' = "half_open" /\ KeepFailures
        /\ UNCHANGED sinceOpened

\* Mutant: a refusal is recorded like a failure of the provider.
RestartCooldown == sinceOpened' = 0 /\ UNCHANGED <<state, failureCount, calling>>
NoRecord == UNCHANGED vars

\* beforeCall returns ErrProviderCircuitOpen: the caller falls back to its
\* lexical results.
Refusing == state = "open" /\ Cooling
Refuse(c) == c \notin calling /\ Refusing /\ NoRecord

\* Mutant: the failure that fills the count opens the circuit one too late.
TripsLate == failureCount >= Threshold \/ state = "half_open"

Trips == failureCount + 1 >= Threshold \/ state = "half_open"

\* recordFailure: the call returned an error or ran into the timeout.
Fail(c) ==
  /\ c \in calling /\ calling' = calling \ {c}
  /\ failureCount' = IF failureCount < Threshold THEN failureCount + 1 ELSE Threshold
  /\ \/ Trips /\ state' = "open" /\ sinceOpened' = 0
     \/ ~Trips /\ UNCHANGED <<state, sinceOpened>>

\* Mutant: a success takes one failure back.
OneForgiven == failureCount - 1
Cleared == 0

\* recordSuccess.
Succeed(c) ==
  /\ c \in calling /\ calling' = calling \ {c}
  /\ failureCount' = Cleared /\ state' = "closed" /\ sinceOpened' = 0

Tick == state = "open" /\ Cooling /\ sinceOpened' = sinceOpened + 1
        /\ UNCHANGED <<state, failureCount, calling>>

-----------------------------------------------------------------------------
\* What hosts are told of the providers

\* An error is kept with the first failure and cleared with the count; the
\* retry is told as the ticks until it, 0 when it is due.
Told(status) == [status |-> status, circuit |-> state, failures |-> failureCount,
                 error |-> failureCount > 0, retry |-> IF state = "open" THEN Cooldown - sinceOpened ELSE -1]
\* Mutant: a provider is degraded while its circuit is open.
DegradedIfOpen == Told(IF state = "open" THEN "degraded" ELSE "healthy")
Health == Told(IF state = "open" \/ failureCount > 0 THEN "degraded" ELSE "healthy")
Disabled == [status |-> "disabled", circuit |-> "closed", failures |-> 0, error |-> FALSE, retry |-> -1]

\* defaultProviderHealthDiagnostics: the four kinds, by name; NewProviderHealthRegistry
\* makes the breaker of one of them, for a service with a vector store.
Kinds == {"embedding", "extraction", "reranking", "summarization"}
Diagnostics(vectorStore) ==
  [k \in Kinds |-> IF k = "embedding" /\ vectorStore THEN Health ELSE Disabled]

\* providerWarnings
ProviderWarnings(diagnostics) ==
  {[provider |-> k, status |-> diagnostics[k].status, error |-> diagnostics[k].error] :
     k \in {kind \in Kinds : diagnostics[kind].status \in {"disabled", "degraded"}}}

-----------------------------------------------------------------------------
Next == Tick \/ \E c \in Callers : Admit(c) \/ Refuse(c) \/ Fail(c) \/ Succeed(c)

Spec == Init /\ [][Next]_vars

\* Time passes; nothing else is promised of callers or provider.
FairSpec == Spec /\ WF_vars(Tick)

-----------------------------------------------------------------------------
\* Properties

\* The circuit is closed exactly while fewer than Threshold failures came in
\* since the last success, whatever order the outcomes of overlapping calls
\* arrive in (recordFailure, provider_resilience.go:172-181).
ClosedBelowThreshold == state = "closed" <=> failureCount < Threshold

\* The breaker is the two-state shield of CallShield: half-open is the full
\* streak whose cooldown elapsed, and needs no memory of its own.
Shield == INSTANCE CallShield WITH
  streak <- failureCount, busy <- calling, quiet <- sinceOpened
ImplementsShield == Shield!Spec

\* Late failures of calls admitted before the circuit opened restart its
\* cooldown, but only finitely often: every open circuit stops refusing
\* (recordFailure, provider_resilience.go:177-180).
RefusalEnds == state = "open" ~> (state = "open" => ~Cooling)

\* Hosts that read the health know what the next call meets: it is refused as long as
\* the retry lies ahead, and a provider that is called without a warning has not failed
\* since it last answered - the one on probe is still told degraded, though its circuit
\* is not open (Health, provider_resilience.go:152-156).
HealthForetells ==
  /\ Refusing <=> Health.retry > 0
  /\ LET told == Diagnostics(TRUE) IN
     \/ state = "closed" /\ failureCount = 0
     \/ \E w \in ProviderWarnings(told) : w.provider = "embedding" /\ w.error
  /\ \A store \in BOOLEAN : \A w \in ProviderWarnings(Diagnostics(store)) :
       w.status = "disabled" <=> w.provider # "embedding" \/ ~store
=============================================================================
