# Mother Nexus: a TLA+ verification of missions, their journal and their broker

Nexus OS runs *missions* for one Owner. Mother (`mother/`) takes a goal, writes
it as a contract, asks the Owner for consent to exactly that contract, runs it
through lanes (AI roles), sends the lanes' effects to a governed broker
(`crates/nexus-governed-control/`), and journals every step so that a restart
goes on, or holds back, correctly. `kernel/` supplies the emergency stop, the
guarded child process, the supervisor, the schedules and the consent runtime.

What makes this hard is neither a state machine nor any single call. Stop races
lanes, effects and dialogs that hold no lock. A journal append fails with the
line absent, torn, or written without being acknowledged. A process dies between
an effect and its record. The broker records evidence with its lock released and
completes a transition later, if its reservation survived. A resume lifts a stop
by a number it read before a dialog. This project models those parts, checks them
with TLC on small instances, and proves the most important results with TLAPS for
every instance.

Contents: 1 inventory, 2 modules, 3 properties, 4 runs and bounds, 5 fairness,
6 proofs, 7 findings and observations, 8 what is not modelled, 9 plan.

## 1. Inventory

Paths are relative to the repository root. `PROJECT.json` lists every component
with its status, the hazards of the code line by line, and the source lines of
every definition.

### Mother (`mother/src`)

| Part | State | Operations | Hard behaviour | What makes it correct |
|---|---|---|---|---|
| State machine, `state.rs` | one of 13 mission states | `transition(state, trigger)` | none alone | the table; ends are final |
| Coordinator, `coordinator.rs` | `Inner`: missions, generation, pending requests, busy marks, `broken`, `closed`, `session_journaled` | `draft`, `revise`, `submit`, `request_consent`, `resume`, `advance`, `stop`, `stop_all`, `close`, `open` (recovery) | threads interleave at one lock, released for every lane, effect, dialog and broker call | consent first, journal before memory, Stop wins, no effect twice |
| Journal and replay, `coordinator.rs` (`replay`), `journal.rs` | hash-chained lines; sessions, missions, effects | `append`, `replay` | a file the session did not write | accepts only histories that keep consent, holds, waits and ends |
| Time budget, `coordinator.rs` (`spent_ms`) | monotonic reference, wall time of the consent | measured at every step, copied into deadlines | clocks that are set, machines that sleep, processes that restart | no work past the budget |
| Effect port, `adapter/mod.rs` | `Runs`: fence, ended missions, runs, waiting actions | `perform`, `withdraw`, `finish`, `fence`, `approval`, `settled`, `pending`, `adopt` | a fence or an end between two lock sections of a `perform`; a call that panics under the mutex | nothing starts after a fence or an end, no run is forgotten |
| Model calls, `coordinator/model_calls.rs` | invocations, charges, the slot in flight | charge, chat, settle, keep | several threads of one lane; a charge whose append failed | live and replayed totals agree |
| File settlement, `coordinator/lite*.rs`, `adapter/lite_port.rs` | intent, cause, the File at the broker | dispatch, wait, poll, settle, acknowledge, `recover_files` | a two-party settlement across a crash | one true terminal line, first cause kept |
| Sessions, page proofs, contract, evidence, teaching, private store, hosts | contents | validate, store | none concurrent | not modelled |

### Broker (`crates/nexus-governed-control/src`)

| Part | State | Hard behaviour | What makes it correct |
|---|---|---|---|
| Action commitments, `authority/commitment.rs`, `control.rs` | per action: prepared, approved, authorized, executing, ended; reservations; the pending table | evidence is recorded with the lock released; cancellation, denial and expiry arrive meanwhile | a transition completes only if its reservation survived; each commitment ends once |
| Doors and runs, `authority/run.rs`, `halt.rs` | doors, runs, membership, consent slots, admissions | a halt against actions being admitted | no live run behind a halted door; admissions bind live runs only |
| Stop number, `authority/run.rs`, `authority/mod.rs` | stopped, number, last lifted | a resume that read its number before a dialog | a resume lifts the stop it asked about |
| Evidence store, `evidence_store.rs`, `authority/evidence.rs` | rows, latch, owed records | a COMMIT whose outcome is unknown | memory is the file; owed records first and in order |
| Host session, ledger, egress, connectors, browser, display, launcher | | I/O or gates that only refuse | not modelled |

### Kernel (`kernel/src`)

| Part | State | Hard behaviour | What makes it correct |
|---|---|---|---|
| Emergency stop, `emergency_stop.rs` | engaged stop and its number, watches, halt log | lifting one stop while another is engaged; attaching the audit while halts happen | stops stand; every halt is accounted for |
| Guarded child, `emergency_stop.rs` | slot, watcher thread, process | a wakeup between a check and a sleep; kill against exit | nothing runs behind the owner's answer |
| Supervisor and fuel, `supervisor.rs`, `scheduler/executor.rs` | agents, reserved and spent fuel | fuel held between two holds of the mutex; registration in any state | starts keep to the caps, fuel is conserved |
| Schedules, `scheduler/` | entries, their file, the runner | copies written back after the lock was released | file is memory, `max_runs` holds |
| Consent runtime, `consent.rs` | requests, index, votes, file | partial failure of event and file; policies | one open request, two approvers for what is critical |
| Cognitive loop, coding runs, audit, persistence, policy tables, parsing, inference, actuators | | sequential code or I/O | not modelled |

### How the parts interact

A host thread calls the coordinator. `advance` takes the lock, decides, journals
what it decided, marks the mission busy, and releases the lock for a lane or for
`port.perform`. Back from the call it goes on only if its *reservation* (the
mission's generation when it left) still holds; every transition moves the
generation. `stop` journals first and calls `port.withdraw` after it released the
lock. The port opens a run at the broker's door for each mission, and the broker's
registry prepares, authorizes and executes each action as a commitment. An effect
may answer "awaiting approval": the journal records the open action and the mission
waits, polled by later calls of `advance`. `open` replays the journal, hands the
open actions to the new port, withdraws and closes them, abandons lane calls left
open, blocks the missions interrupted in a phase that sent effects, loads
contents, and holds every other unfinished mission unless the last session closed
cleanly. Whenever an append fails, the coordinator is broken, the port fenced and
the journal poisoned, if the poison marker can be written. The emergency stop
engages the kernel's authority, then the broker's registry, then the kernel again;
a resume goes through a dialog and lifts both by number.

## 2. Modules

| Module | Models | Uses |
|---|---|---|
| `MissionStates` | `state.rs`: states, triggers, `transition`; roles of a phase | |
| `MissionLog` | the mission record, `apply`, the journal's records, the replay's conditions and effects | `MissionStates` |
| `EffectPort` | `GovernedPort`'s calls as the coordinator uses them, and the broker's action as the port sees it | `MissionLog` |
| `OwnerPromise` | abstract specification: what Mother promises the Owner | |
| `Coordinator` | every operation of the coordinator outside File mode, with failures, crashes, reopenings | `EffectPort`, `OwnerPromise` |
| `JournalReplay` | the replay reading an arbitrary file, record by record | `MissionLog`, `OwnerPromise` |
| `MissionClock` | `spent_ms`, the deadlines copied from it, both clocks | |
| `ModelCalls` | charging, sending, settling and replaying model calls | |
| `FileSettlement` | File mode: dispatch, wait, every terminal intent, settlement, recovery | |
| `GovernedPort` | the port's calls lock section by lock section | |
| `Commitments` | the commitment registry with its pending table | |
| `Doors` | doors, runs, membership, questions, admissions, halts, stops | |
| `EvidenceStore` | rows, owed records, latch, restart, acknowledgement | |
| `StopResume` | the kernel's and the broker's stop together | |
| `HaltLog` | the bounded halt log and its audit | |
| `GuardedChild` | owner, watcher, stop and process of a guarded child | |
| `AgentSupervisor` | agents registered in any state, caps, fuel, the scheduled executor | |
| `Schedules` | store, file and runner of the schedules | |
| `ConsentQueue` | consent requests, votes, tiers, policies, file | |
| `MCCoordinator`, `MCCommitments`, `MCFileSettlement`, `MCGovernedPort` | one component for TLC, in scopes (section 4) | the component |
| `MCBroker`, `MCLimits`, `MCKernel`, `MCEverythingEnds` | several components for TLC, one at a time | one by EXTENDS, the others by INSTANCE |
| `JournalReplayProofs`, `CoordinatorProofs`, `GovernedPortProofs`, `CommitmentsProofs`, `StopResumeProofs`, `GuardedChildProofs`, `MissionClockProofs`, `SchedulesProofs` | theorems (section 6) | the component by EXTENDS, a second one by INSTANCE in the last four, TLAPS |

`MissionLog` is shared: `Coordinator` feeds it the records the code writes,
`JournalReplay` every record there is. So "the coordinator's journal is accepted"
and "what is accepted is sound" speak of the same replay.

### State and actions against the code

* **One action is one section under a lock, or one call made with no lock held.**
  In `Coordinator` a call in flight is a record `call[c]` with a program counter,
  the mission, role and effect it works on, and what it does `then`: `StopFire`
  and `Withdraw` are the halves of `stop_for`, `CloseAsk` and `CloseTake` those of
  `close_action`, `End` and `EndFire` of `end`, `Lane`/`LaneReturn`,
  `Dispatch`/`Perform`/`Settle`/`Pend`/`Wait`, `Query`/`Resolve`/`Approve` the
  pieces of `advance`. The other modules use program counters in the same way
  (`th`, `worker`, `thread`, `run`, `owner`, `watcher`).
* **Reservations.** The code compares generations only for equality, so a
  reservation is membership of `reserved[m]`, which whatever moves the generation
  empties (`Bump`).
* **The journal** of the coordinator is represented by `log`, the image its
  replay would rebuild, with `log.refused` once the replay would refuse it and
  `readable` once it is torn or poisoned. `FileSettlement` and `ModelCalls` keep
  the records themselves and replay them.
* **A failing append** leaves any prefix of the lines of that call, all of them
  (written, not acknowledged), or an unreadable journal. The coordinator is then
  broken and the port fenced.
* **Dialogs** return any answer at any time, also after the mission was revised,
  stopped or asked about again.
* **Time** in `Coordinator` is a flag `late[m]` that time sets and a revision
  clears; `MissionClock` has the arithmetic behind it.
* **Contents**: a contract is its hash; `LoadContent` may find a content lost.
* **History variables** (`yes`, `told`, `lost`, `sent`, `started`, `ends`, `world`,
  `barrier`, `truth`, `fired`, ...) record what happened for the properties and are
  read by no guard, save where a bound counts them.

Definitions marked *mutant* are deliberately wrong variants, one for each
property, that show the property can fail; no specification uses them.

## 3. Properties

A property that is a conjunction is listed with its parts; each part is defined and
commented in its module.

**`Coordinator`** (runs `interleavings`, `recovery`, `coordinator_ends`)

* `JournalAccepted`: the coordinator never writes a journal its replay refuses.
* `MemoryIsJournal`: while the journal works, memory is what a replay would rebuild
  (holds that the next record writes aside).
* `ToldIsDurable`: an end that a call reported as done is in the journal for good.
* `NothingForgotten`: when no call is in flight, an action the Owner can still
  approve is named in the journal.
* `NothingStartsWrongly`: no effect starts after the call that ended its mission
  returned Ok (`NothingStartsAfterEnd`), nor past the fence of a failed journal
  (`FenceHolds`), and a waiting mission goes on only if its action ran
  (`ApprovedContinuesOnce`).
* `RestartsAreSafe`: no lane is called again for a phase in which its effects were
  sent (`NoEffectTwice`), and a clean close leaves nothing interrupted.
* `ConsentFirst`: a mission past its consent, in memory or in the journal, has the
  Owner's yes to exactly its contract.
* `LostStopRunsNothing`: a Stop or denial whose record was lost is not undone by
  any number of reopenings, until the Owner resumes the mission.
* `PromiseKept`: the journal implements `OwnerPromise`.
* `StopReturns`, `OpeningEnds`: liveness (section 5).

**`JournalReplay`**: `ReplayedConsent`, `HeldIsQuiet`, `AskedIsAwaited`,
`EndIsFinal` and the refinement `AcceptedKeepsPromise`, for a file with any
records in any order.

**`Commitments`**: `EndsOnce` (no effect without its evidence, one end record, the
leases end with it), `NothingIsLost` (no effect without its commitment, a retained
File keeps its run, a publication is reported truly), `EndsAreFinal` (an ended
commitment stays ended, nothing starts behind a cancellation that returned, an
uncertain outcome is kept).

**`FileSettlement`**: `JournalAgrees` (the journal replays, to what memory says),
`SettledTruly` (the recorded outcome is what happened, the broker forgets nothing
unrecorded, the first cause stands, an unanswered request is not called uncertain).

**`GovernedPort`**: `NothingSlipsAway` (no run is forgotten; a waiting mission has
the one action it waits on), `NothingStartsLate` (no action starts past the fence
or past a withdrawal that returned).

**`Doors`**, **`EvidenceStore`**: `DoorsHold` (doors and runs list each other, a
halted door has no live member, a cached yes is fresh, consent slots are counted);
`StoreHolds` (memory is the file, told rows are durable, owed records keep their
order, an acknowledgement was shown before, nothing is admitted before it,
everything is settled); `ShutStaysShut` (admissions bind a live run under the one
answer in force; a latched store writes nothing more).

**`StopResume`**, **`HaltLog`**: `StopsStand` (a Stop that returned stands in
kernel and broker, no earlier work goes on, a lift has its record);
`LiftsAreRight` (a resume lifts the stop it asked about, was told how many runs
ended, and one overtaken by a newer stop is undone); `HaltsAreAccountedFor` (each
durable halt reaches the audit once or is counted as missing).

**`GuardedChild`**, **`MissionClock`**, **`ModelCalls`**: `ChildIsAccountedFor`
(nothing is left running behind the owner's answer, a killed child never exited);
`BudgetHolds` (awake time is counted in the consent's process, elapsed time across
restarts while nobody sets the clock back, a distrusted clock admits nothing, the
deadlines end with the budget); `CallsAreAccountedFor` (replay agrees, chats are
paid before they are sent, one is in flight, a kept answer is recorded).

**`AgentSupervisor`**, **`Schedules`**, **`ConsentQueue`**: `AgentsHold` (starts
take no place beyond the caps, fuel is conserved, an agent in Starting is a failed
start or was registered so, a rest is the audit trail's or the registration's);
`SchedulesHold` (the file is the memory unless a write failed, `max_runs` holds);
`ConsentHolds` (one open request per fingerprint, two approvers for what is
critical); `OverIsOver` (approvals pay once, a denial is final, a schedule its
failure policy ended executes no more).

**Across components** (`everything_ends`): `BegunEnds`, `StopsTakeEffect`.

## 4. Runs and bounds

| Run | Module, config | Distinct states | Question |
|---|---|---|---|
| `interleavings` | `MCCoordinator` | 855 k | two calls at once on one mission; two missions, one call at a time; one fault |
| `recovery` | `MCCoordinator`, `MCRecovery.cfg` | 1.42 M | two faults in a row, two effects, two contracts |
| `coordinator_ends` | `MCCoordinator`, `MCEnds.cfg` | 302 k | Stop and `open` return |
| `journal_replay` | `JournalReplay` | 21 k | the replay of any file |
| `stale_end` | `MCCoordinator`, `MCStaleEnd.cfg` | | the finding of section 7 |
| `commitments` | `MCCommitments` | 1.5 M | two threads on commitments, their run, grants, door and deadlines |
| `file_settlement` | `MCFileSettlement` | 849 k | a File stopped, late, published, with a fault or a crash |
| `governed_port` | `MCGovernedPort` | 2.28 M | fence and withdrawal between the lock sections |
| `broker` | `MCBroker` | 1.73 M | time budget; doors; evidence store |
| `limits` | `MCLimits` | 680 k | stops and resumes; halt log; model calls |
| `kernel` | `MCKernel` | 580 k | schedules; agents; consent requests |
| `everything_ends` | `MCEverythingEnds` | 143 k | what must eventually happen; the guarded child |

Each passing run takes from seconds to less than three minutes on two workers.

**Scopes.** No one set of bounds small enough for TLC has every hard case of a
large component in it. `MCCoordinator`, `MCCommitments`, `MCFileSettlement` and
`MCGovernedPort` therefore explore several *scopes*, each from its own initial
state: a scope is a bound on the states a behaviour passes through (`InScope'` in
the next-state relation), and the run is their union. A scope cuts off calls of
the host and faults, never a step that is assumed fair. For example `interleavings`
explores two calls on one mission, and two missions one call at a time without
effects; what is not explored is two calls on two missions, which share only the
journal's session records, explored by the second scope.

**Several components in one run.** `MCBroker`, `MCLimits`, `MCKernel` and
`MCEverythingEnds` hold components that share no state. A behaviour chooses a part
at first and only that part moves, so a property of one component fails in the run
exactly when it fails alone. A component with two instances has two sets of bounds.

**Why these bounds.** Two threads suffice for a race of a call with any other, for
the code compares a reservation, a number or a copy only with the present. Two
faults are a failure and a second one during the recovery from it. Two effects
distinguish "the rest of this answer" from "the next lane"; two hashes a contract
from its revision. A registry of capacity one, a log of two, a last stop number of
one and a `max_runs` of two make the limit happen. `MaxFaults`, `MaxCrashes`,
`MaxRestarts`, `MaxSets`, `MaxStops`, `MaxResumes`, `MaxGen`, `MaxFires` and the
like bound only how often the environment acts. `MayRevise` turns off the Owner's
revisions: `interleavings` runs without them, because with two calls, a revision
and an effect the finding `stale_end` makes `JournalAccepted` false; that run
shows it.

Threads, calls, hashes, doors, runs, questions, agents and voters are
interchangeable in their specifications, so the safety runs use symmetry; the
liveness runs use none. `CHECK_DEADLOCK FALSE` is said where the system really may
stop: a poisoned journal is never opened again, every mission may be ended, bounds
are used up. The `commitments` run checks deadlock.

## 5. Fairness

Fairness is assumed of a step only where the code runs it on a thread that waits
for nothing but a lock with bounded holds.

* `Coordinator`: the steps of a Stop and the steps of `open`. Nothing is assumed of
  lanes, effects, the Owner, the broker or the host. So `StopReturns` says what
  `stop_for` promises, that it does not wait for them.
* `Commitments`: the steps of a thread that is inside a call, and the effect it
  executes (which the broker bounds).
* `FileSettlement`: the steps of a stopping thread and of `recover_files`.
* `GovernedPort`: the steps of each call inside the port and of the fence; an
  action that executes completes.
* `ModelCalls`: the steps of a call, whose exchange has a hard timeout
  (`kernel/src/inference/exchange.rs`), and of the lane once its calls returned.
* `GuardedChild`: owner, watcher, the notification that follows an engagement; a
  killed process exits.
* `Schedules`: the runner's steps are weakly fair, and `Fire(s)` strongly: each turn
  of the loop reaches every due schedule, although a schedule fired before it may
  take the runner away for a while.

In `MCEverythingEnds` the part never changes, so one fairness condition, and one
leads-to formula, stands for one of each part.

## 6. Proofs

All theorems hold for every value of the constants that satisfies the named
assumptions (`HashAssumption`, `EffectAssumption`, `MissionAssumption`,
`CallAssumption`, `BoundsAssumption`, `CommitmentAssumptions`, `StopAssumption`,
`EngagementsAssumption`, `ClockAssumption`, `SchedulesAssumption`, `HaltLogAssumption`,
`SupervisorAssumption`, `DoorsAssumption`, `ConsentAssumption`): mostly that bounds are
natural numbers and that markers (nobody, none, the Owner among the doors) are not data.
`ClockAssumption` also says that the instants that occur fit the width of the
integers. Runs, doors, questions, halts, agents and executor threads are finitely many,
since they are counted. TLC evaluates each assumption on the instances of the runs.

Four proof modules have a second part, about another component that they take by
INSTANCE; its theorems name that component's assumption as their hypothesis.

| Module | Theorem | Property | What it establishes |
|---|---|---|---|
| `JournalReplayProofs` | `ReplayInvariant`, `ReplayTyped`, `ReplayConsented`, `ReplayHeldQuiet`, `ReplayAsked`, `ReplayEnds`, `ReplayPromises` | the six of run `journal_replay` | what any accepted sequence of records replays to: consents, holds, waits and ends, and that each record is a step of `OwnerPromise` |
| `CoordinatorProofs` | `CoordinatorInvariant`, `ConsentAlwaysFirst`, `PromiseAlwaysKept` | `ConsentFirst`, `PromiseKept` | consent before effects, in memory and in the journal, and the refinement of `OwnerPromise`, under races, failing appends and crashes |
| `CoordinatorProofs` | `JournalInvariant`, `MemoryIsTheJournal`, `ToldIsAlwaysDurable` | `MemoryIsJournal`, `ToldIsDurable`, each where `JournalAccepted` holds | memory is what the journal would rebuild, and a reported end is in it |
| `CoordinatorProofs` | `ActionsInvariant`, `NothingIsForgotten`, `FenceAlwaysHolds` | `NothingForgotten` where `JournalAccepted` holds, and `FenceHolds` of `NothingStartsWrongly` | the journal names every action the Owner can still approve, and nothing starts behind the fence |
| `GovernedPortProofs` | `PortInvariant`, `NothingEverSlipsAway`, `NothingEverStartsLate` | `NothingSlipsAway`, `NothingStartsLate` | no run is forgotten and nothing starts past a fence or a withdrawal |
| `CommitmentsProofs` | `CommitmentsInvariant`, `EveryCommitmentEndsOnce`, `NothingIsEverLost`, `EveryEndIsFinal` | `EndsOnce`, `NothingIsLost`, `EndsAreFinal` | a commitment ends once and for good, and its effect, its run and its records are accounted for |
| `StopResumeProofs` | `StopsAlwaysStand`, `LiftsAlwaysRight` | `StopsStand`, `LiftsAreRight` | a Stop stands in broker and kernel; a resume lifts what was asked about |
| `StopResumeProofs` | `HaltsAlwaysAccountedFor` | `HaltsAreAccountedFor` of `HaltLog` | each durable halt reaches the audit once or is counted as missing |
| `GuardedChildProofs` | `ChildAccounted` | `ChildIsAccountedFor` | the owner's answer is true of the child |
| `GuardedChildProofs` | `ConsentAlwaysHolds`, `AnswersAlwaysSpent` | `ConsentHolds` of `ConsentQueue`, and its half of `OverIsOver` | one open request per fingerprint, two approvers for what is critical; an approval pays once and a denial is final, over failed writes and restarts |
| `MissionClockProofs` | `BudgetAlwaysHolds` | `BudgetHolds` | no mission works longer than its budget |
| `MissionClockProofs` | `DoorsAlwaysHold`, `AdmissionsAlwaysHold` | `DoorsHold` of `Doors`, and its half of `ShutStaysShut` | doors and runs list each other, a halted door has no live member, a yes is fresh, places are counted; a yes binds only a live run under the one answer in force |
| `SchedulesProofs` | `SchedulesAlwaysHold` | `SchedulesHold` | the file is the memory; no schedule runs too often |
| `SchedulesProofs` | `AgentsAlwaysHold` | `AgentsHold` of `AgentSupervisor` | whatever states agents are registered in, starts keep to the caps, no fuel is made, a failed start holds no place, a rest is the audit trail's or the registration's |

### The replay (`JournalReplayProofs`)

None of the properties is inductive alone. `ReplayInv` says of each mission that it
is `MissionOK`: typed, consented when past its consent, quiet when held, `Asked`
(the wait is on a sent, settled effect, the open action is its), and two facts no
property states. `Begun`: a mission whose contract may still be revised has sent
nothing, one before its consent carries none, one that exists has a contract;
without it a revision could replace a contract under which effects were sent.
`Awaited`: the effect whose settlement awaits approval, the open action and the
unsettled effect were sent, the first two exclude an unsettled one and name the
same effect. `TransitionKeeps` and `RecordKeeps` show that an admitted record keeps
a mission `MissionOK`, one case per kind of record; `TransitionPromise` and
`RecordPromise` map it to a step of `OwnerPromise` or to none.

### The coordinator (`CoordinatorProofs`)

The module has four parts: lemmas on what the operators of `MissionLog` do to a
mission and to a journal, the invariant `CInv` with what follows from it, the
invariant `JInv` with what holds while the journal is accepted, and the invariant
`FInv` on the port and the actions at the broker.

The invariant `CInv` has five parts. `LogInv`: every mission of the journal's image
is sound and its consent was said. `MemInv`: the missions in memory are well shaped,
and past their consent only with a consent to their contract that was said.
`ShapeInv` and `CallInv`: what a call in flight carries is of the right shape, and
the trigger it carries is one that ends a mission. `AskInv`, the heart of it: a
consent request that still holds its reservation asks about the contract that stands.
Without it a yes could be taken for a contract it was not said to; it holds because
`revise` moves the generation.

Almost every action is *ordinary*: it journals at most records on missions that
stay sound, leaves contracts and consents alone, and gives no call a new
reservation (`OrdinaryKeeps`). One lemma per action shows this. The actions that
are not ordinary (`Draft`, `Revise`, `RequestConsent`, a yes, `Open`, and the ways
the process ends) have proofs of their own. The same case analysis gives that every
step moves the journal's image by one admitted record, by any prefix of a failed
call's lines, or not at all, and `StepPromise` maps that to `OwnerPromise`. The
argument does not need `JournalAccepted`: a record the replay refuses changes no
mission of the image. That matters, since `JournalAccepted` is not a theorem: the
finding of section 7 refutes it for two calls with revisions.

`MemoryIsJournal` and `ToldIsDurable` do need it: memory takes the stale end, the
journal's image does not. So both are proved where `JournalAccepted` holds, and
the proof shows why that is enough: a refusal is never taken back (`Keeps`), so a
journal accepted now was accepted all along. `JInv` has six parts. `AgreeInv`: while
the coordinator is neither down nor broken, memory and journal agree on all that is
durable (`SameMission`), which leaves out what the replay keeps for itself and a hold
that is due but not journaled. `HeldInv`: a journaled hold is a hold. `EndInv`: a call
that is about to report an end, and has not failed on its way, holds one that memory and
journal share; without it the end it reports could be memory's alone. `ToldInv`: a
reported end is in the journal. `FallInv`: no call outlives the coordinator, and
opening runs alone. `InnerOK` is a shape. A step writes nothing, breaks the
coordinator, or takes in memory what it recorded (`Rests`, `Breaks`, `Takes`;
`RecordsFit` matches each kind of record with what the code takes), and a call that is
not about to report is *mild*: with these two notions the proof has one short lemma per
action. `JInv` was first checked by TLC, on the instances of the runs `coordinator`
and `recovery`, and so was `FInv`.

`NothingForgotten` speaks of states in which no call is in flight, so its invariant must
say who answers for a prepared action while calls are. `KnownInv` does: the journal
names the action, or a call does that will journal it (`Carries`) or withdraw it
(`Withdraws`). A Stop may end the mission between a perform that left an action
waiting and the record of that action, so this holds only because a mission is worked for
by one call at a time (`OwnInv`, the code's `busy`), whose reservation holds
unless the mission was ended by a call that withdraws it (`WorkInv`), and because what
the working call carries is the port's one waiting action, already over if the port
withdrew the mission (`CarryInv`). `CloseInv` says that an action about to be journaled
as closed is over at the broker: without it a closing record could drop the name of an
action that still waits. For the fence, `HandInv` says that what is prepared is on a run
the port holds or was handed to it by an earlier one, `FenceInv` that behind the fence
the first is empty, and `AdoptInv` and `DownInv` that an opening starts unbroken.
`StartedNext` shows that an effect starts only by a perform that the fence lets through
or by the Owner's approval of a prepared action; with `FenceInv` and `HandInv` that is
`FenceHolds`, whether or not the journal is accepted.

### Stop and resume (`StopResumeProofs`)

A thread carries numbers it read before it let go of a lock. `ThreadOK` says what they
are still good for: a number asked about tells whether a newer stop came, a confirmed
number is one that a Stop's second engagement leaves behind, and a lift that
happened has a newer stop in both registers wherever the broker is stopped again.
`BrokerInv` ties the stop number to the stops there were and the count in the dialog
to the runs they ended; `KernelInv` says that wherever the broker is stopped the
kernel is too, or a Stop is about to engage it.

### Guarded child, time budget, schedules

`ChildInv` says for each point of the owner's way what it knows of the watcher, the
process and the slot; the join is where the knowledge becomes stable. `ClockInv`
relates what the program sees (two clocks, the reference, what was spent at it) to
what happened: the monotonic clock has counted the awake time, a wall clock nobody
set back all of it, and a process that distrusts the wall clock has nothing left to
spend. `SchedInv` says that the count in memory is the count of executions but for
the one not yet recorded, and that a copy the runner will write back carries the
count of the entry it replaces.

### The governed port (`GovernedPortProofs`)

`NothingSlipsAway` and `NothingStartsLate` speak of the broker's runs and of actions
that start; a perform in flight carries a run or an action it learned of several lock
sections ago. `PortInv` says what it still knows. `HoldsOK`: the port holds at most
one run of a mission, the one a worker opened is registered nowhere before its
`Register`, and a worker past that point carries the registered one. `ToldOK`: of
the registered run nothing is open but the action the worker carries, or the one the
mission waits on. `ActionOK`: an action waits on a live run only, and on the
registered run of its mission unless it survived. `FenceOK`: what the sweep has passed
is cancelled, or counted; a registration after it is refused. `EndedOK` and
`StopOK`: an ended mission's run is in the hands of a thread that will cancel or
finish it. `WithdrawnOK`: a withdrawal that returned Ok has seen the registered run
not live and the action handed back not waiting, and neither can change, since the
mission has ended.

Nearly every step *shrinks* (`Shrinks`: runs end, actions move on, none waits longer
than its run lives) and is *steady* (`Steady`: no run is registered); `ShrinkKeeps`
shows once that such a step keeps what everybody who stands still knows. Opening a
run, registering it and preparing an action are the three that are not, and have proofs
of their own. `StartsHow` lists the ways an action starts, each on a live run that
is registered or the survivor's; the invariant then leaves none behind a fence or
after a withdrawal. The action property needs the invariant in the state before the
step only.

### The commitments (`CommitmentsProofs`)

A call of the commitment registry lets go of the lock between its steps, and
`EndsOnce` speaks of what several threads did to one commitment. The invariant says
what a thread still knows when it comes back. `PlaceInv`: an effect is in one place,
with the call that creates it, in the table of waiting effects, or with the call that
took it out. `AllowedInv`: a reservation is good for one transition and was recorded
first. `DebtInv`: an end record is owed by the one call that made the end. `RunsInv`:
a run that a call ended does not come back, and past its revocation no commitment of
it may start. `HeldInv`: an effect waits for a commitment that may start or is about to
be dropped, and one that may start has its effect somewhere. `WorldInv` and `PinInv`:
what the world says of a commitment that ran, and that a pinned outcome keeps its
run. Each kind of step has lemmas of its own (what reserves, completes, ends, revokes,
drops or reports); a step that touches one commitment leaves the others' parts alone by
one lemma per part. `EndsAreFinal` follows from the invariant in the state before the
step. The invariant was first checked by TLC on the instance of `MCCommitments`. The
bound on the policy generation in `TypeOK` is the model's own and is not proved.

### Halt log, agents, doors, consent queue (second parts)

*Halt log.* `HaltsAreAccountedFor` is an equation between counts, kept by threads that
each move one halt. `LogInv` gives a durable halt one place at a time: the log, while
no audit is attached, its recorder, the attachment's backlog, the audit, or the count
of the unrecorded. Before the audit nobody holds one, and only the thread that
attached has a backlog; without these an attachment could copy out of the log what a
recorder is about to write.

*Agents.* Fuel is reserved in one hold of the supervisor's mutex and settled in
another, so that none is made is inductive only with the reservations under way:
what an agent has, what its reservations hold and what it spent are within its cap
(`FuelOK`), and a paid reservation belongs to an agent that is still registered.
Methods that pay, punish or move an agent are *tame* (`Tame`): they keep the cap, make
no fuel and give no level. What is left are the ways into a place, whose own checks
keep the caps. `register_agent` stores the state it is given and checks nothing, so the
places it gives are told apart (`given`, an auxiliary field no action reads) and the
caps are about the others (`Took`): a start counts every active agent, given or not, so
it finds room for one it takes.

*Doors.* That doors and runs list each other is inductive once it is said of all of
them, in the table or out of it (`RunsKnow`). A place is counted by the questions
that hold one (`SlotsKnow`), and a question carries the number of the stop it was asked
under (`AskedKnow`): so a yes that comes back after a stop is not cached, and one that is
cached was asked in a door never halted (`YesesKnow`). `AdmissionsHold` follows from
the invariant in the state before the step.

*Consent queue.* Memory and file may differ after a failed write. `AskInv` says the same
of both, unless the file is torn: the book is `Sealed`. A request is filed under its own
fingerprint, a fingerprint has one open request, the approvals of an open request
were not yet spent, and what was denied has an open request with the denial.
An opening that rebuilds the index from a sealed book finds what the index found
(`Points`). An id that comes back after a restart overwrites only a request
that was used, which is why no denial is lost by it.

### Only model-checked, and why

* Liveness (`StopReturns`, `OpeningEnds`, `BegunEnds`, `StopsTakeEffect`): fairness
  and ENABLED are beyond the prover.
* What is computed from sequences by recursion or folds: the replayed totals of
  `ModelCalls`, the replayed journal of `FileSettlement`, the order of owed records
  in `EvidenceStore`. They need induction over data.
* `JournalAccepted` itself is false in general (section 7).
* Of `NothingStartsWrongly`, the parts `NothingStartsAfterEnd` and
  `ApprovedContinuesOnce` (its part `FenceHolds` is proved), and `RestartsAreSafe` and
  `LostStopRunsNothing` of `Coordinator`. They need, beyond `FInv`, an invariant on what
  a reopening finds of the phase that a call held.

## 7. Findings and observations

**`stale_end` (a defect).** "While an effect is unsettled the live coordinator only
stops" (`mother/src/coordinator.rs:3294`). `advance` decides that the budget is
spent, releases the lock with no busy mark and no reservation, and ends the mission
later, although it was meanwhile revised, consented again and has an effect
unsettled. The replay refuses that record: the journal never opens again.

Observations made while modelling: places where a comment says more than the code
does, or where behaviour may surprise. The models follow the code.

* A refused close means "the next open holds every unfinished mission"
  (`coordinator.rs:2850`); if the line is written, its sync fails and the poison
  marker cannot be written (`adapter/mod.rs:1263`), the next open reads a clean close.
* A no to a request that was replaced denies the mission (`coordinator.rs:1390`,
  against `:1429`).
* A second Stop of a mission already ended returns Ok before the first one has
  withdrawn it from the port (`coordinator.rs:2801`, against `:3`).
* Grants are said to stay live until the action starts
  (`authority/commitment.rs:80`); `complete` reads them under the grant store's own
  lock and finalizes later, so one revoked in between does not stop the start.
* A yes at the Owner's front door is said not to count if a stop came meanwhile
  (`authority/mod.rs:549`); the code asks whether the broker is stopped after the
  dialog, so a stop pressed and lifted while it was open leaves the yes in force. An
  agent's door is not affected: its slot carries the stop's number.
* A stop slower than the resume that lifts it may drop the effect of a commitment
  prepared since, so `NoOrphans` is exact only before the first stop.
* A resume that reads the kernel's number between a Stop's two engagements leaves the
  kernel engaged with the broker lifted, until another resume.
* A File action whose debt a second thread retires between another's terminal line
  and its closing (`lite_settle.rs:556`) stays open in this process's journal, and
  the session's end is refused until the next opening.
* "Neither clock alone can stretch the budget" (`coordinator.rs:531`); after a
  restart the time spent is rebuilt from the wall clock alone (`:1076`), so a wall
  clock set back before it gives a mission awake time beyond its budget.
* `transition_agent_state` is said to be the only way to change an agent's state
  (`kernel/src/supervisor.rs:482`); `transition_to_running` assigns it directly, and
  a first start is missing from the audit trail.
* An agent registered as Starting, Running or Paused is in a capped state that nothing
  checked, as the doc of `register_agent` says (`supervisor.rs:287`), and
  `resume_agent` checks no cap either. The one caller outside tests registers Created.
* `execute` takes any error of `reserve_fuel` for a missing agent
  (`scheduler/executor.rs:77`): the task of a registered agent without enough fuel
  runs unpaid, and the agent is charged with a violation.
* A one-shot "won't re-fire regardless" (`scheduler/runner.rs:172`); when the write
  that disables it fails or never happens, the next process fires it again.
* The runner's "cosmetic" update of `next_run` (`runner.rs:337`) writes back a copy of
  the whole entry, so a schedule disabled in between is enabled again.
* `persist` rewrites the schedules' file in place and a file that does not parse
  loads as empty (`scheduler/store.rs`): a write cut off half way loses every schedule.
* A cron or interval schedule added or enabled while the runner runs is not fired
  before the next start (`runner.rs:93`).
* `min_review_seconds` is not read when a vote is submitted
  (`kernel/src/consent.rs:422`); `required_approvers` 2 becomes the tier that one
  approval satisfies (`policy_engine/engine.rs:38`); and with a policy engine
  attached an operation no policy matches is denied, where the comment says it falls
  through (`consent.rs:930`).

## 8. Not modelled

* Mother: page facts and proofs, the NonFile intent, admission and the continuation
  of an approval in another process (`lite.rs` 150-225), session close and result,
  contents, hosts. The host-session gate in front of `advance` only refuses, so
  leaving it out adds behaviours.
* Port: adoption's own lock sections. Model calls: a lane that panics, the
  host-session route, which nothing calls.
* Broker: the host session's cell in the commitment registry, policy evaluation,
  the evidence store's file checks and projections, the ledger's text format,
  egress, connectors, browser, display, launcher.
* Kernel: the stop number's saturation and the host-mode cell; `restore_fuel_report`,
  `clear_all_agents`, consent delegation, simulations; event and webhook triggers;
  the cognitive loop, coding runs, audit storage, persistence, policy tables,
  parsing, inference transport.
* Smaller abstractions. `ApprovalsPayOnce` looks at the steps that change the answer: a
  pass repeated at once with an equal answer is a stuttering step, and another vote or
  a fault in between exposes it. The audit trail's length in `ConsentQueue` moves with
  this runtime's events only, though the trail is shared (`audit/mod.rs:292`); no
  property depends on it. A one-shot that a caller disabled or removed
  between the runner's listing and its firing is disabled once more by the code
  (`runner.rs:173`), so an enabling in between is lost: not modelled. `Prunable` of
  `Doors` leaves out `retained` and `model_pins` (`authority/run.rs:391`) and so prunes
  more than the code; `Reserve` checks and reserves in one step (`run.rs:654`), and the
  answer checks again. `max_runs` 0 is within the assumptions and the proofs, and not
  in the run.
* The verifier sandbox, cryptography, typed decisions, tools: operating-system
  isolation, primitives, pure readers, builds.

The mapped lines are about 10 900 in 35 files, some 5% of the repository's roughly
199 000 implementation lines. The project is deep on the mission path (coordinator,
journal, port, settlement, commitments, stop) and says nothing about the rest. The
largest files left out are `kernel/src/cognitive/loop_runtime.rs`,
`persistence/src/lib.rs`, `files/mod.rs` and `coding_run.rs`. They were surveyed, not
studied: their omission is a matter of order, and no judgement that they are free
of the hazards modelled here.

## 9. Plan

1. Proofs: `RestartsAreSafe` and the rest of `NothingStartsWrongly` of `Coordinator`, on
   top of `FInv`.
2. That `GovernedPort` implements the atomic calls of `EffectPort`.
3. `CodingApply`: the apply protocol of `kernel/src/coding_run/apply.rs`.
