---------------------------- MODULE MCCommitments ----------------------------
(***************************************************************************)
(* Commitments for TLC, in two scopes: one action with every way its time,  *)
(* its grant and the policy may lapse, and two actions that compete for the *)
(* registry's one place, the owner not asked.                               *)
(***************************************************************************)
EXTENDS Commitments, TLC

CONSTANTS c1, c2, r1, g1

VARIABLE scope
mcvars == <<scope, vars>>

OneRun == [c \in Commitments |-> r1]
OneGrant == [c \in Commitments |-> g1]
Symmetry == Permutations(Threads)

\* c2 needs the owner's approval, c1 does not.
InScope ==
    CASE scope = "lapses" -> c1 \notin lease /\ \A t \in Threads : At(t, "record_prepared") => th[t].c # c1
      [] scope = "place"  -> /\ late = {} /\ generation = 0 /\ grant[g1] # "expired"
                             /\ \A t \in Threads : th[t].at # "ask"

MCInit == Init /\ scope \in {"lapses", "place"}
MCNext == Next /\ scope' = scope /\ InScope'
MCSpec == MCInit /\ [][MCNext]_mcvars
=============================================================================
