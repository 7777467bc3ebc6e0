------------------------------ MODULE MCLimits ------------------------------
(***************************************************************************)
(* The stop and resume of kernel and broker, the kernel's halt log and a    *)
(* mission's model calls for TLC.  They share no state, so a property of    *)
(* one fails beside the others exactly when it fails alone: a behaviour     *)
(* chooses a part at first and only that part moves.                        *)
(***************************************************************************)
EXTENDS StopResume, TLC

CONSTANTS h1, h2, h3, h4, a1, a2

VARIABLES part,
    \* of HaltLog
    log, attached, unrecorded, at, backlog, refused, turn, written,
    \* of ModelCalls
    up, journal, broken, mission, live, acc, revoked, missionCell, late, active, debt,
    attempts, lane, modelCalls, chats, unrecordedCalls

logVars == <<log, attached, unrecorded, at, backlog, refused, turn, written>>
meterVars == <<up, journal, broken, mission, live, acc, revoked, missionCell, late,
               active, debt, attempts, lane, modelCalls, chats, unrecordedCalls>>

Log == INSTANCE HaltLog WITH
    Halts <- {h1, h2, h3, h4}, Durable <- {h1, h2, h3}, Attachers <- {a1, a2},
    Capacity <- 2

Meter == INSTANCE ModelCalls WITH
    Caps <- {0, 2}, Budget <- 3, MaxLanes <- 3, MaxAttempts <- 4,
    cell <- missionCell, calls <- modelCalls, unrecorded <- unrecordedCalls

ASSUME LimitsAssumptions == Log!HaltLogAssumption /\ Meter!CallsAssumption

MCInit == part \in {"stops", "log", "calls"} /\ Init /\ Log!Init /\ Meter!Init

MCNext ==
    \/ part = "stops" /\ Next /\ UNCHANGED <<part, logVars, meterVars>>
    \/ part = "log" /\ Log!Next /\ UNCHANGED <<part, vars, meterVars>>
    \/ part = "calls" /\ Meter!Next /\ UNCHANGED <<part, vars, logVars>>

MCSpec == MCInit /\ [][MCNext]_<<part, vars, logVars, meterVars>>

\* Threads, attachers and the durable halts are alike.
Symmetry == Permutations(Threads) \cup Permutations({a1, a2}) \cup Permutations({h1, h2, h3})

\* Each durable halt reaches the audit once, or is counted as missing.
HaltsAreAccountedFor == Log!HaltsAreAccountedFor

\* Model calls are paid before they are sent, one at a time, recorded before
\* their answer is kept, and replayed to the same sum (model_calls.rs).
CallsAreAccountedFor == Meter!CallsAreAccountedFor
=============================================================================
