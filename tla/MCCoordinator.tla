--------------------------- MODULE MCCoordinator ---------------------------
(***************************************************************************)
(* Coordinator for TLC.  No one set of bounds small enough for TLC has      *)
(* every hard case in it, so a run explores several scopes, each from its   *)
(* own initial state: a scope is a bound on the states a behaviour passes   *)
(* through, and Next is taken as far as it stays in the scope.              *)
(***************************************************************************)
EXTENDS Coordinator, TLC

CONSTANT Scopes   \* the scopes of the run

VARIABLE scope
mcvars == <<scope, vars>>

Symmetry == Permutations(Calls) \cup Permutations(Hashes)

InUse == {m \in Missions : missions[m].state # "None" \/ log.mission[m].state # "None"}
OneMission == Cardinality(InUse) <= 1
OneCall == Cardinality({c \in Calls : call[c] # Idle}) <= 1
NoEffects == (\A c \in Calls : call[c].rest = 0) /\ \A m \in Missions : log.mission[m].next_effect = 0

\* The contracts the Owner said yes to, and the current one.
Contracts(m) == (yes[m] \cup {missions[m].hash, log.mission[m].hash}) \ {NoHash}

\* Effects and faults, at most three; another contract counts for two.
InBudget(m) ==
    log.mission[m].next_effect + faults + (IF Cardinality(Contracts(m)) > 1 THEN 2 ELSE 0) <= 3

InScope ==
    CASE scope = "calls"    -> OneMission
      [] scope = "missions" -> OneCall /\ NoEffects
      [] scope = "budget"   -> OneMission /\ \A m \in InUse : InBudget(m)
      [] scope = "stop"     -> OneMission /\ faults = 0
      [] scope = "open"     -> OneMission /\ OneCall

MCInit == Init /\ scope \in Scopes
MCNext == Next /\ scope' = scope /\ InScope'
MCSpec == MCInit /\ [][MCNext]_mcvars

\* A scope bounds calls of the host and faults, never the steps that are fair.
MCFairSpec == MCSpec /\ Fairness
=============================================================================
