--------------------------- MODULE DynamicAgents ----------------------------
(***************************************************************************)
(* internal/dynamicagents/registry.go: agents spawned at run time, under   *)
(* an ID derived from their name, and the channels bound to them. Every    *)
(* call is one statement.                                                  *)
(***************************************************************************)
EXTENDS Integers, Sequences, SequencesExt

CONSTANTS
  Names,       \* names asked for, as sequences of the letters below
  Reserved,    \* sets of IDs a caller may pass as the configured ones
  Tuples,      \* channel, peer kind, peer and thread, normalised
  MaxLength,   \* an ID has 64 characters at most
  MaxAgents    \* bound on the agents

VARIABLES
  agents,      \* the table of agents, in the order of their insertion
  bindings     \* the ID bound to each tuple, or <<>>

agentVars == <<agents, bindings>>

Letter == "a"    \* any lower-case letter, or an upper-case one
Digit == "1"
Dash == "-"      \* a dash, an underscore or a space
\* Everything else is left out of an ID.
Alphabet == {Letter, Digit, Dash}

AgentsTypeOK ==
  /\ \A i \in DOMAIN agents : agents[i].name \in Names /\ Len(agents[i].id) \in 1..MaxLength
  /\ DOMAIN bindings = Tuples

AgentsInit ==
  /\ agents = <<>>
  /\ bindings = [t \in Tuples |-> <<>>]

-----------------------------------------------------------------------------
\* normalizeDynamicAgentID

Trimmed(id) ==
  LET solid == {i \in DOMAIN id : id[i] # Dash}
  IN IF solid = {} THEN <<>>
     ELSE SubSeq(id, CHOOSE i \in solid : \A j \in solid : i <= j,
                     CHOOSE i \in solid : \A j \in solid : j <= i)

\* Runs of dashes become one.
Collapsed(id) ==
  FoldLeft(LAMBDA done, x : IF x = Dash /\ done # <<>> /\ Last(done) = Dash
                            THEN done ELSE Append(done, x), <<>>, id)

\* Mutant: what the cap leaves is not trimmed again.
OnlyCut(id) == IF Len(id) > MaxLength THEN SubSeq(id, 1, MaxLength) ELSE id
Cut(id) == IF Len(id) > MaxLength THEN Trimmed(SubSeq(id, 1, MaxLength)) ELSE id

normalizeDynamicAgentID(name) ==
  Cut(Trimmed(Collapsed(SelectSeq(name, LAMBDA x : x \in Alphabet))))

\* dynamicAgentIDPattern
Valid(id) == Len(id) \in 1..MaxLength /\ id[1] = Letter /\ ToSet(id) \subseteq Alphabet

-----------------------------------------------------------------------------

Taken(id) == \E i \in DOMAIN agents : agents[i].id = id

\* The primary key refuses an ID that is taken.
Create(name, reserved) ==
  /\ Len(agents) < MaxAgents
  /\ LET id == normalizeDynamicAgentID(name)
     IN /\ Valid(id) /\ id \notin reserved /\ ~Taken(id)
        /\ agents' = Append(agents, [id |-> id, name |-> name])
  /\ UNCHANGED bindings

\* Of any agent, whether it exists or not.
Bind(t, id) ==
  /\ bindings' = [bindings EXCEPT ![t] = id]
  /\ UNCHANGED agents

Unbind(t) ==
  /\ bindings' = [bindings EXCEPT ![t] = <<>>]
  /\ UNCHANGED agents

AgentsNext ==
  \/ \E name \in Names, reserved \in Reserved : Create(name, reserved)
  \/ \E t \in Tuples : Unbind(t) \/ \E i \in DOMAIN agents : Bind(t, agents[i].id)

AgentsSpec == AgentsInit /\ [][AgentsNext]_agentVars

-----------------------------------------------------------------------------
\* Properties

\* The ID of an agent is one the configuration accepts and one that normalises to
\* itself, so whoever asks for the ID as a name is refused as a second one, and so is
\* whoever asks for another name that differs in case, in the kind or number of
\* separators, or past the cap (registry.go:81-113, 252-277).
NamesFindTheirAgent ==
  /\ \A i \in DOMAIN agents :
       /\ Valid(agents[i].id)
       /\ agents[i].id = normalizeDynamicAgentID(agents[i].id)
       /\ Last(agents[i].id) # Dash
  /\ \A i, j \in DOMAIN agents :
       normalizeDynamicAgentID(agents[i].name) = normalizeDynamicAgentID(agents[j].name) => i = j
=============================================================================
