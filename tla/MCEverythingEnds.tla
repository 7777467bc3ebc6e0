-------------------------- MODULE MCEverythingEnds --------------------------
(***************************************************************************)
(* What must eventually happen in the watched child, the broker, the File   *)
(* settlement, the port, the model calls and the schedules, for TLC.  They  *)
(* share no state: a behaviour chooses a part at first, only that part      *)
(* moves, and it is fair as that part is.  The part never changes, so one   *)
(* fairness condition may stand for one of each part.                       *)
(***************************************************************************)
EXTENDS GuardedChild, TLC

CONSTANTS t1, t2, none, c1, r1, g1, m1, s1

VARIABLES part,
    \* of Commitments
    entry, brokerLock, held, brokerRun, retained, brokerHalted, stopped, generation, grant,
    brokerLate, brokerTh, log, ends, lease, world, barrier,
    \* of FileSettlement
    up, journal, broken, m, busy, cell, intent, resolved, port, broker, cancelled, acked,
    th, disk, begun, faults, crashes,
    \* of GovernedPort
    registry, failures, portRun, halted, action, worker, stopper, fence, withdrawn, missed,
    portFaults,
    \* of ModelCalls
    meterUp, meterJournal, meterBroken, mission, live, acc, revoked, meterCell, meterLate,
    active, debt, attempts, lane, calls, chats, unrecorded,
    \* of Schedules
    timedUp, mem, file, watched, timedRun, arrived, fired, inProc, timedFailed, dirty,
    timedFaults, timedCrashes

brokerVars == <<entry, brokerLock, held, brokerRun, retained, brokerHalted, stopped,
                generation, grant, brokerLate, brokerTh, log, ends, lease, world,
                barrier>>
fileVars == <<up, journal, broken, m, busy, cell, intent, resolved, port, broker,
              cancelled, acked, th, disk, begun, faults, crashes>>
portVars == <<registry, failures, portRun, halted, action, worker, stopper, fence,
              withdrawn, missed, portFaults>>
meterVars == <<meterUp, meterJournal, meterBroken, mission, live, acc, revoked, meterCell,
               meterLate, active, debt, attempts, lane, calls, chats, unrecorded>>
timedVars == <<timedUp, mem, file, watched, timedRun, arrived, fired, inProc, timedFailed,
               dirty, timedFaults, timedCrashes>>

Broker == INSTANCE Commitments WITH
    Threads <- {t1, t2}, NoThread <- none, Commitments <- {c1}, Runs <- {r1},
    Grants <- {g1}, DoorRuns <- {r1}, FileActions <- {c1}, R2Actions <- {},
    RunOf <- [c \in {c1} |-> r1], GrantOf <- [c \in {c1} |-> g1], Lapsing <- {},
    Capacity <- 1, MaxGen <- 0, lock <- brokerLock, run <- brokerRun,
    halted <- brokerHalted, late <- brokerLate, th <- brokerTh

File == INSTANCE FileSettlement WITH
    Stoppers <- {"s1"}, Halts <- {"time"}, MaxEffects <- 1, MaxFaults <- 0,
    MaxCrashes <- 1

Port == INSTANCE GovernedPort WITH
    Missions <- {m1}, Stoppers <- {s1}, Survivors <- {}, LastEffect <- 1, MaxFaults <- 1,
    port <- registry, run <- portRun, faults <- portFaults

Meter == INSTANCE ModelCalls WITH
    Threads <- {t1, t2}, Caps <- {2}, Budget <- 2, MaxLanes <- 1, MaxAttempts <- 3,
    up <- meterUp, journal <- meterJournal, broken <- meterBroken, cell <- meterCell,
    late <- meterLate

Timed == INSTANCE Schedules WITH
    Ids <- {"i", "o"},
    Kind <- [s \in {"i", "o"} |-> IF s = "i" THEN "interval" ELSE "oneshot"],
    MaxRuns <- [s \in {"i", "o"} |-> 9],
    OnFailure <- [s \in {"i", "o"} |-> IF s = "i" THEN "disable" ELSE "ignore"],
    MaxAttempts <- 1, NoMax <- 9, MaxFires <- 2, MaxFaults <- 0, MaxCrashes <- 1,
    up <- timedUp, run <- timedRun, failed <- timedFailed, faults <- timedFaults,
    crashes <- timedCrashes

ASSUME EndsAssumptions == Meter!CallsAssumption

\* Only one part moves.
ChildAlone == UNCHANGED <<part, brokerVars, fileVars, portVars, meterVars, timedVars>>
BrokerAlone == UNCHANGED <<part, vars, fileVars, portVars, meterVars, timedVars>>
FileAlone == UNCHANGED <<part, vars, brokerVars, portVars, meterVars, timedVars>>
PortAlone == UNCHANGED <<part, vars, brokerVars, fileVars, meterVars, timedVars>>
MeterAlone == UNCHANGED <<part, vars, brokerVars, fileVars, portVars, timedVars>>
TimedAlone == UNCHANGED <<part, vars, brokerVars, fileVars, portVars, meterVars>>

MCInit ==
    /\ part \in {"child", "commitments", "file", "port", "calls", "schedules"}
    /\ Init /\ Broker!Init /\ File!Init /\ Port!Init /\ Meter!Init /\ Timed!Init

MCNext ==
    \/ part = "child" /\ Next /\ ChildAlone
    \/ part = "commitments" /\ Broker!Next /\ BrokerAlone
    \/ part = "file" /\ File!Next /\ FileAlone
    \/ part = "port" /\ Port!Next /\ PortAlone
    \/ part = "calls" /\ Meter!Next /\ MeterAlone
    \/ part = "schedules" /\ Timed!Next /\ TimedAlone

mcvars == <<part, vars, brokerVars, fileVars, portVars, meterVars, timedVars>>
MCSpec == MCInit /\ [][MCNext]_mcvars

(***************************************************************************)
(* Each behaviour is fair to the steps that its own module's FairSpec      *)
(* names; what executes at the broker is fair as one step there.           *)
(***************************************************************************)
FirstSteps ==
    \/ part = "commitments" /\ Broker!Continues(t1) /\ BrokerAlone
    \/ part = "file" /\ File!StopStep("s1") /\ FileAlone
    \/ part = "port" /\ Port!WorkStep(m1) /\ PortAlone
    \/ part = "calls" /\ Meter!CallStep(t1) /\ MeterAlone
    \/ part = "schedules" /\ Timed!RunnerStep /\ TimedAlone
    \/ part = "child" /\ Owner /\ ChildAlone

SecondSteps ==
    \/ part = "commitments" /\ Broker!Continues(t2) /\ BrokerAlone
    \/ part = "file" /\ File!StopStep("advance") /\ FileAlone
    \/ part = "port" /\ Port!StopStep(s1) /\ PortAlone
    \/ part = "calls" /\ Meter!CallStep(t2) /\ MeterAlone
    \/ part = "child" /\ Watcher /\ ChildAlone

ThirdSteps ==
    \/ part = "commitments" /\ Broker!Awaited(t1) /\ BrokerAlone
    \/ part = "file" /\ File!Recover /\ FileAlone
    \/ part = "port" /\ Port!FenceStep /\ PortAlone
    \/ part = "calls" /\ Meter!LaneStep /\ MeterAlone
    \/ part = "child" /\ EngageNotifies /\ ChildAlone

FourthSteps ==
    \/ part = "commitments" /\ Broker!Awaited(t2) /\ BrokerAlone
    \/ part = "port" /\ (\E a \in Port!Actions : Port!Completes(a)) /\ PortAlone
    \/ part = "child" /\ process = "dying" /\ Exits /\ ChildAlone

Fires(s) == part = "schedules" /\ Timed!Fire(s) /\ TimedAlone

MCFairSpec ==
    /\ MCSpec
    /\ WF_mcvars(FirstSteps) /\ WF_mcvars(SecondSteps)
    /\ WF_mcvars(ThirdSteps) /\ WF_mcvars(FourthSteps)
    /\ SF_mcvars(Fires("i")) /\ SF_mcvars(Fires("o"))

(***************************************************************************)
(* What leads to what.  As the part never changes, one leads-to says of    *)
(* each part what its line says.                                           *)
(***************************************************************************)
Begun ==
    \/ part = "commitments" /\ \E t \in {t1, t2} : Broker!At(t, "start")
    \/ part = "file" /\ File!Serving /\ \E t \in {"s1", "advance"} : th[t].pc = "first"
    \/ part = "port" /\ ~Port!At(m1, "idle")
    \/ part = "calls" /\ lane.pc = "running"
    \/ part = "child" /\ owner = "set_done"
    \/ part = "schedules" /\ "i" \in watched /\ Timed!Enabled("i") /\ fired["i"] = 0

Over ==
    \/ part = "commitments" /\ Broker!Ended(c1)
    \/ part = "file" /\ (File!Ended \/ broken \/ ~up)
    \/ part = "port" /\ Port!At(m1, "idle")
    \/ part = "calls" /\ lane.pc # "running"
    \/ part = "child" /\ owner \notin {"set_done", "wake", "notify_all", "join"}
    \/ part = "schedules" /\ (fired["i"] > 0 \/ ~Timed!Enabled("i"))

\* Work that was begun ends: an effect taken out to be executed, whatever
\* refuses it (commitment.rs, execute); a mission whose engaged cell a call
\* found, unless the journal fails (lite_settle.rs); a call of the port, also
\* one that finds its mutex poisoned (adapter/mod.rs, locked); a lane that was
\* invoked, whether or not the model answers (model_calls.rs); the owner's
\* join of the watcher, whose sleep misses no wakeup (emergency_stop.rs);
\* a watched schedule that is enabled, which fires unless somebody ends it
\* first (scheduler/runner.rs).
BegunEnds == Begun ~> Over

Stopping ==
    \/ part = "file" /\ ~up
    \/ part = "port" /\ fence.pc = "halt"
    \/ part = "child" /\ Halted /\ process = "running"

Stopped ==
    \/ part = "file" /\ (broken \/ (File!Ended /\ (m.open = 0 \/ m.uncertain)))
    \/ /\ part = "port" /\ fence.pc = "done"
       /\ \A r \in Port!Members : portRun[r].at = "live" => r \in missed
    \/ part = "child" /\ (process # "running" \/ failed)

\* A stop takes effect: a mission whose process died ends when it is opened
\* again, its action closed unless its outcome is uncertain (recover_files);
\* a fence, which returns even when it panics, leaves no run of the door live
\* but one whose cancellation failed (adapter/mod.rs, fence, sweep); a stop ends
\* the child whatever its owner does, unless the system refuses the kill.
StopsTakeEffect == Stopping ~> Stopped
=============================================================================
