------------------------------ MODULE MCBroker ------------------------------
(***************************************************************************)
(* The time budget whose deadlines a mission's calls carry to the broker,   *)
(* the broker's doors and its evidence store for TLC.  They share no state, *)
(* so a property of one fails beside the others exactly when it fails       *)
(* alone: a behaviour chooses a part at first and only that part moves.     *)
(* The doors and the store each have two instances with bounds of their own.*)
(***************************************************************************)
EXTENDS MissionClock, TLC

CONSTANTS g1, g2, r1, r2, q1, q2, owner, c1, c2, none

VARIABLES part,
    \* of Doors
    door, run, question, reg, engaged, halts,
    \* of EvidenceStore
    rows, session, opened, mem, dialog, calls, told, shown, faults

doorVars == <<door, run, question, reg, engaged, halts>>
storeVars == <<rows, session, opened, mem, dialog, calls, told, shown, faults>>

Table == INSTANCE Doors WITH
    Doors <- {g1, g2}, Runs <- {r1, r2}, Questions <- {q1}, Owner <- owner,
    Contracts <- {"c"}, Facts <- {"f"}, MaxDoors <- 2, MaxGroups <- 1, MaxConsents <- 1,
    RunCapacity <- 1, MaxAttempts <- 1, MaxStops <- 1

Asked == INSTANCE Doors WITH
    Doors <- {g1}, Runs <- {r1}, Questions <- {q1, q2}, Owner <- owner, Contracts <- {"c"},
    Facts <- {"f", "other"}, MaxDoors <- 1, MaxGroups <- 1, MaxConsents <- 2,
    RunCapacity <- 1, MaxAttempts <- 1, MaxStops <- 1

Rows == INSTANCE EvidenceStore WITH
    Commitments <- {c1}, NoCommitment <- none,
    EndKinds <- {"finished", "revoked", "run_cancelled"}, Bodies <- {1, 2},
    OwedCapacity <- 2, MaxSessions <- 2, MaxRows <- 5, MaxFaults <- 2, up <- opened

Settled == INSTANCE EvidenceStore WITH
    Commitments <- {c1, c2}, NoCommitment <- none, EndKinds <- {"revoked"}, Bodies <- {1},
    OwedCapacity <- 1, MaxSessions <- 3, MaxRows <- 7, MaxFaults <- 2, up <- opened

ASSUME BrokerAssumptions ==
    /\ Table!DoorsAssumption /\ Asked!DoorsAssumption
    /\ Rows!EvidenceAssumption /\ Settled!EvidenceAssumption

MCInit ==
    /\ Init /\ Rows!Init
    /\ \/ part \in {"clock", "doors", "rows", "settled"} /\ Table!Init
       \/ part = "questions" /\ Asked!Init

MCNext ==
    \/ part = "clock" /\ Next /\ UNCHANGED <<part, doorVars, storeVars>>
    \/ part = "doors" /\ Table!Next /\ UNCHANGED <<part, vars, storeVars>>
    \/ part = "questions" /\ Asked!Next /\ UNCHANGED <<part, vars, storeVars>>
    \/ part = "rows" /\ Rows!Next /\ UNCHANGED <<part, vars, doorVars>>
    \/ part = "settled" /\ Settled!Next /\ UNCHANGED <<part, vars, doorVars>>

mcvars == <<part, vars, doorVars, storeVars>>
MCSpec == MCInit /\ [][MCNext]_mcvars

\* Doors, runs and questions are alike.
Symmetry == Permutations({g1, g2}) \cup Permutations({r1, r2}) \cup Permutations({q1, q2})

\* The door table is sound (authority/run.rs): doors and runs list each other,
\* a halted door has no live member, a cached yes is fresh, and the consent
\* slots are counted.
DoorsHold == (part = "doors" => Table!DoorsHold) /\ (part = "questions" => Asked!DoorsHold)

\* The evidence store tells no lies (evidence_store.rs): memory is the file,
\* records keep their order, what was told stays, and nothing is acknowledged
\* unseen, admitted before its acknowledgement or left unsettled.
StoreHolds == (part = "rows" => Rows!StoreHolds) /\ (part = "settled" => Settled!StoreHolds)

\* What is shut stays shut: an admission binds only a live run under the one
\* answer in force, and a latched store writes and keeps nothing more.
ShutStaysShut ==
    [][/\ part = "doors" => Table!AdmissionsHold
       /\ part = "questions" => Asked!AdmissionsHold
       /\ part = "rows" => Rows!LatchedIsFinal]_mcvars
=============================================================================
