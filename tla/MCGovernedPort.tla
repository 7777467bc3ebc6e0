--------------------------- MODULE MCGovernedPort ---------------------------
(***************************************************************************)
(* GovernedPort for TLC, in two scopes: one mission, whose action may have  *)
(* survived, with two effects, a thread that ends it and one broker call    *)
(* failing; and two missions with one effect each, which only the fence     *)
(* disturbs, two broker calls failing.                                      *)
(***************************************************************************)
EXTENDS GovernedPort, TLC

CONSTANTS m1, m2

VARIABLE scope
mcvars == <<scope, vars>>

\* Nobody asked the port anything for m.
Untouched(m) ==
    /\ worker[m].pc = "idle" /\ worker[m].told = "none"
    /\ m \notin port.ended /\ \A s \in Stoppers : stopper[s].mission # m

InScope ==
    CASE scope = "one" -> Untouched(m2) /\ faults < 2
      [] scope = "two" -> /\ \A s \in Stoppers : stopper[s].pc = "idle"
                          /\ \A m \in Missions : m \notin port.handed /\ worker[m].action # <<m, 2>>

MCInit == Init /\ scope \in {"one", "two"} /\ InScope
MCNext == Next /\ scope' = scope /\ InScope'
MCSpec == MCInit /\ [][MCNext]_mcvars
=============================================================================
