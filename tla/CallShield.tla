----------------------------- MODULE CallShield -----------------------------
(***************************************************************************)
(* What the provider circuit breaker promises, in terms of the outcomes    *)
(* alone: calls are refused exactly while at least Threshold failures came *)
(* in since the last success and the last failure is younger than the      *)
(* cooldown.                                                               *)
(***************************************************************************)
EXTENDS Integers

CONSTANTS Callers, Threshold, Cooldown

VARIABLES
  streak,               \* failures since the last success, Threshold at most
  quiet,                \* time since the last failure of a full streak
  busy                  \* the callers whose call is at the provider

vars == <<streak, quiet, busy>>

Refusing == streak = Threshold /\ quiet < Cooldown

Init == streak = 0 /\ quiet = 0 /\ busy = {}

Admit(c) ==
  /\ c \notin busy /\ ~Refusing
  /\ busy' = busy \cup {c}
  /\ UNCHANGED <<streak, quiet>>

Refuse(c) ==
  /\ c \notin busy /\ Refusing
  /\ UNCHANGED vars

Fail(c) ==
  /\ c \in busy
  /\ busy' = busy \ {c}
  /\ IF streak + 1 < Threshold THEN streak' = streak + 1 ELSE streak' = Threshold
  /\ quiet' = 0

Succeed(c) ==
  /\ c \in busy
  /\ busy' = busy \ {c}
  /\ streak' = 0 /\ quiet' = 0

Tick == Refusing /\ quiet' = quiet + 1 /\ UNCHANGED <<streak, busy>>

Next == Tick \/ \E c \in Callers : Admit(c) \/ Refuse(c) \/ Fail(c) \/ Succeed(c)

Spec == Init /\ [][Next]_vars
=============================================================================
