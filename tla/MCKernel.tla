------------------------------ MODULE MCKernel ------------------------------
(***************************************************************************)
(* The kernel's schedules, its agent supervisor and its consent runtime for *)
(* TLC.  They share no state, so a property of one fails beside the others  *)
(* exactly when it fails alone: a behaviour chooses a part at first and     *)
(* only that part moves.  The supervisor has two instances with bounds of   *)
(* their own, the consent runtime four.                                     *)
(***************************************************************************)
EXTENDS Schedules, Sequences, TLC

CONSTANTS requester, v1, v2, a1, a2, a3, t1, t2, torn

VARIABLES part,
    \* of AgentSupervisor
    agent, task,
    \* of ConsentQueue
    records, index, queueFile, audit, queueUp, tier, allowed, policies, now, answer, credit,
    refused, spent

agentVars == <<agent, task>>
queueVars == <<records, index, queueFile, audit, queueUp, tier, allowed, policies, now,
               answer, credit, refused, spent>>

\* A cron schedule that is retried once and runs twice, and an interval that a
\* failure disables.
KindOf == [s \in Ids |-> IF s = "c" THEN "cron" ELSE "interval"]
MaxRunsOf == [s \in Ids |-> IF s = "c" THEN 2 ELSE 9]
OnFailureOf == [s \in Ids |-> IF s = "c" THEN "retry" ELSE "disable"]

Policy(effect, actions, n, priority) ==
    [effect |-> effect, actions |-> actions, anyResource |-> TRUE,
     minLevel |-> 0, required_approvers |-> n, priority |-> priority]

\* Nothing attached; an Allow for everything; an Allow that asks for nobody
\* over one that asks for three; a Deny behind an Allow of higher priority;
\* policies that name a resource or a level and so never match.
Engines ==
    LET All == {"TerminalCommand", "SovereignPromotion"}
    IN  {<<>>,
         <<Policy("allow", All, -1, 100)>>,
         <<Policy("allow", All, 3, 100), Policy("allow", All, 0, 50)>>,
         <<Policy("allow", All, -1, 50), Policy("deny", {"TerminalCommand"}, -1, 100)>>,
         <<[Policy("allow", All, -1, 100) EXCEPT !.anyResource = FALSE],
           [Policy("deny", All, -1, 100) EXCEPT !.minLevel = 2]>>}

Fuel == INSTANCE AgentSupervisor WITH
    Agents <- {a1}, Tasks <- {t1, t2}, Levels <- {3, 5}, Caps <- {0, 5},
    Flags <- BOOLEAN, MaxL5 <- 1, MaxL6 <- 1, PerRun <- 2, Spends <- {1, 3},
    SpikeUnits <- 3, SlopeUnits <- 4, Window <- 2

Places == INSTANCE AgentSupervisor WITH
    Agents <- {a1, a2, a3}, Tasks <- {}, Levels <- {5, 6}, Caps <- {3},
    Flags <- {FALSE}, MaxL5 <- 1, MaxL6 <- 2, PerRun <- 1, Spends <- {},
    SpikeUnits <- 5, SlopeUnits <- 3, Window <- 2

Clocked == INSTANCE ConsentQueue WITH
    Operations <- {"TerminalCommand"}, Payloads <- {"p"}, Voters <- {v1, v2},
    Requester <- requester, AutoTier1 <- TRUE, Timeout <- 1, PolicySets <- {<<>>},
    Torn <- torn, MaxLive <- 2, Segment <- 2, LastTime <- 2, MaxSets <- 1,
    MaxPolicies <- 0, MaxFaults <- 1, MaxCrashes <- 0, file <- queueFile, up <- queueUp

Restarted == INSTANCE ConsentQueue WITH
    Operations <- {"TerminalCommand"}, Payloads <- {"p"}, Voters <- {v1, v2},
    Requester <- requester, AutoTier1 <- TRUE, Timeout <- 1, PolicySets <- {<<>>},
    Torn <- torn, MaxLive <- 2, Segment <- 2, LastTime <- 2, MaxSets <- 0,
    MaxPolicies <- 0, MaxFaults <- 1, MaxCrashes <- 1, file <- queueFile, up <- queueUp

Terminal == INSTANCE ConsentQueue WITH
    Operations <- {"TerminalCommand"}, Payloads <- {"p"}, Voters <- {requester, v1, v2},
    Requester <- requester, AutoTier1 <- FALSE, Timeout <- 1, PolicySets <- Engines,
    Torn <- torn, MaxLive <- 1, Segment <- 1, LastTime <- 1, MaxSets <- 0,
    MaxPolicies <- 1, MaxFaults <- 0, MaxCrashes <- 0, file <- queueFile, up <- queueUp

Promotion == INSTANCE ConsentQueue WITH
    Operations <- {"SovereignPromotion"}, Payloads <- {"p"}, Voters <- {requester, v1, v2},
    Requester <- requester, AutoTier1 <- FALSE, Timeout <- 1, PolicySets <- Engines,
    Torn <- torn, MaxLive <- 1, Segment <- 1, LastTime <- 1, MaxSets <- 0,
    MaxPolicies <- 1, MaxFaults <- 0, MaxCrashes <- 0, file <- queueFile, up <- queueUp

ASSUME KernelAssumptions ==
    /\ Fuel!SupervisorAssumption /\ Places!SupervisorAssumption
    /\ Clocked!ConsentAssumption /\ Restarted!ConsentAssumption
    /\ Terminal!ConsentAssumption /\ Promotion!ConsentAssumption

\* One of the consent runtime's initial states, where it is not the part.
QueueAtRest == Clocked!Init /\ now = 1 /\ \A op \in DOMAIN allowed : allowed[op] = {}

MCInit ==
    /\ Init
    /\ \/ part \in {"schedules", "fuel"} /\ Fuel!Init /\ QueueAtRest
       \/ part = "places" /\ Places!Init /\ QueueAtRest
       \/ /\ Fuel!Init
          /\ \/ part = "clocked" /\ Clocked!Init
             \/ part = "restarted" /\ Restarted!Init
             \/ part = "terminal" /\ Terminal!Init
             \/ part = "promotion" /\ Promotion!Init

MCNext ==
    \/ part = "schedules" /\ Next /\ UNCHANGED <<part, agentVars, queueVars>>
    \/ part = "fuel" /\ Fuel!Next /\ UNCHANGED <<part, vars, queueVars>>
    \/ part = "places" /\ Places!Next /\ UNCHANGED <<part, vars, queueVars>>
    \/ part = "clocked" /\ Clocked!Next /\ UNCHANGED <<part, vars, agentVars>>
    \/ part = "restarted" /\ Restarted!Next /\ UNCHANGED <<part, vars, agentVars>>
    \/ part = "terminal" /\ Terminal!Next /\ UNCHANGED <<part, vars, agentVars>>
    \/ part = "promotion" /\ Promotion!Next /\ UNCHANGED <<part, vars, agentVars>>

mcvars == <<part, vars, agentVars, queueVars>>
MCSpec == MCInit /\ [][MCNext]_mcvars

\* Agents, tasks and the voters other than the requester are alike.
Symmetry == Permutations({a1, a2, a3}) \cup Permutations({t1, t2}) \cup Permutations({v1, v2})

\* The places that starts take and the fuel are never overdrawn, and an agent's
\* rest is what the audit trail or its registration says (supervisor.rs,
\* scheduler/executor.rs).
AgentsHold == (part = "fuel" => Fuel!AgentsHold) /\ (part = "places" => Places!AgentsHold)

\* One open request per fingerprint, and two approvers for what is critical,
\* whatever fails, restarts or is attached (consent.rs).
ConsentHolds ==
    /\ part = "clocked" => Clocked!ConsentHolds
    /\ part = "restarted" => Restarted!ConsentHolds
    /\ part = "terminal" => Terminal!ConsentHolds
    /\ part = "promotion" => Promotion!ConsentHolds

\* What is over does not come back: a schedule its failure policy ended executes
\* no more, approvals are spent once and a denial is final.
OverIsOver ==
    [][/\ FailureEndsIt
       /\ part = "clocked" => Clocked!AnswersAreSpent
       /\ part = "restarted" => Restarted!AnswersAreSpent]_mcvars
=============================================================================
