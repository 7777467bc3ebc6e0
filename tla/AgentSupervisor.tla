--------------------------- MODULE AgentSupervisor ---------------------------
(***************************************************************************)
(* The kernel's supervisor: the agents it registers, their life cycle,     *)
(* their fuel, and the threads of the scheduled executor that reserve an   *)
(* agent's fuel in one hold of the supervisor's mutex and settle it in     *)
(* another.                                                                *)
(*                                                                         *)
(* Every method of the supervisor runs under that mutex and is one action. *)
(* The burn detector's spike and slope limits and its window are           *)
(* constants; its baseline is never updated by the code.                   *)
(***************************************************************************)
EXTENDS Integers, Sequences, SequencesExt, FiniteSets

CONSTANTS
  Agents,         \* agent ids
  Tasks,          \* threads inside ScheduledExecutor::execute
  Levels,         \* autonomy levels of manifests
  Caps,           \* monthly fuel caps of manifests
  Flags,          \* values of their scheduled_execution
  MaxL5, MaxL6,   \* SupervisorConfig
  PerRun,         \* a schedule's max_fuel_per_run
  Spends,         \* cost_units of record_llm_spend
  SpikeUnits,     \* a call this dear is a spike
  SlopeUnits,     \* a full window this dear is a slope
  Window          \* window_calls

SupervisorAssumption ==
  /\ IsFiniteSet(Agents) /\ IsFiniteSet(Tasks)
  /\ Levels \subseteq 0..6 /\ Caps \subseteq Nat /\ Spends \subseteq Nat
  /\ Flags \subseteq BOOLEAN
  /\ {MaxL5, MaxL6, PerRun, SpikeUnits, SlopeUnits} \subseteq Nat
  /\ Window \in Nat \ {0}

VARIABLES
  agent,   \* agents and fuel_ledgers: a record per registered agent, or None
  task     \* what each executor thread does

vars == <<agent, task>>

None == [state |-> "None"]
States == {"Created", "Starting", "Running", "Paused", "Stopping", "Stopped",
           "Destroyed"}
Active == {"Running", "Starting", "Paused"}
Idle == [pc |-> "idle"]

\* state, level, fuel: AgentHandle; cap, spent, calls: the ledger's budget and
\* the detector's history; audited: the new_state of the last
\* agent.state_transition event; scheduled: the manifest has
\* scheduled_execution.
\* given is auxiliary: what the agent still has as its registration gave it,
\* the state it is in and the place it holds.  Only the properties read it.
Entry(l, c, s, initial_state) ==
  [state |-> initial_state, level |-> l, fuel |-> c, cap |-> c, spent |-> 0,
   calls |-> <<>>, audited |-> "None", scheduled |-> s,
   given |-> {"state"} \cup (IF initial_state \in Active THEN {"place"} ELSE {})]

Registered(a) == agent[a] # None

-----------------------------------------------------------------------------
(***************************************************************************)
(* The life cycle.                                                         *)
(***************************************************************************)

is_valid_transition(from, to) ==
  <<from, to>> \in
    {<<"Created", "Starting">>,
     <<"Starting", "Running">>, <<"Starting", "Stopped">>,
     <<"Running", "Paused">>, <<"Running", "Stopping">>,
     <<"Paused", "Running">>, <<"Paused", "Stopping">>,
     <<"Stopping", "Stopped">>,
     <<"Stopped", "Starting">>, <<"Stopped", "Destroyed">>}

\* A place that was given is kept from one active state to another.
StillGiven(g, to) == IF to \in Active THEN g.given \cap {"place"} ELSE {}

\* transition_to_running assigns the state itself and records nothing.
SilentlyMoved(g, to) == [g EXCEPT !.state = to, !.given = StillGiven(g, to)]

\* transition_agent_state and force_transition_agent_state: set and recorded.
Moved(g, to) == [SilentlyMoved(g, to) EXCEPT !.audited = to]

-----------------------------------------------------------------------------
(***************************************************************************)
(* Fuel.                                                                   *)
(***************************************************************************)

\* apply_fuel_violation: the agent loses its fuel and its autonomy.
Violated(g) == [g EXCEPT !.fuel = 0, !.level = 0]

\* BurnAnomalyDetector::observe and MonthlyBudget::record_spend.
LastCalls(calls, cost) ==
  LET all == Append(calls, cost)
  IN  IF Len(all) > Window THEN Tail(all) ELSE all

WindowTotal(calls) == FoldLeft(+, 0, calls)

RecordSpend(g, cost) ==
  [g EXCEPT !.spent = @ + cost, !.calls = LastCalls(@, cost)]

Refused(g, cost) ==
  LET after == RecordSpend(g, cost) IN
  \/ cost >= SpikeUnits
  \/ Len(after.calls) = Window /\ WindowTotal(after.calls) >= SlopeUnits
  \/ after.spent > (IF g.cap = 0 THEN 1 ELSE g.cap)

\* commit_fuel: refund what was not used, record the spend, and apply the
\* violation the ledger finds.
Committed(g, reserved, cost) ==
  LET paid == RecordSpend([g EXCEPT !.fuel = @ + reserved - cost], cost)
  IN  IF Refused(g, cost) THEN Violated(paid) ELSE paid

CanReserve(g, units) == g.fuel >= units

\* reserve_fuel: the fuel leaves the balance, or the agent is punished.
Reserved(g, units) ==
  IF CanReserve(g, units) THEN [g EXCEPT !.fuel = @ - units] ELSE Violated(g)

\* consume_fuel_units reserves and commits the same amount.
Pays(g, units) == CanReserve(g, units) /\ ~Refused(g, units)
Consumed(g, units) ==
  IF CanReserve(g, units) THEN Committed(Reserved(g, units), units, units)
  ELSE Violated(g)

-----------------------------------------------------------------------------
(***************************************************************************)
(* The supervisor's methods.                                               *)
(***************************************************************************)

\* Mutant of ActiveStates: a paused agent gives its place away.
ActiveStatesWithoutPaused == {"Running", "Starting"}

ActiveStates == Active

ActiveAt(l) ==
  {a \in Agents : Registered(a) /\ agent[a].level = l
                  /\ agent[a].state \in ActiveStates}

\* The caps transition_to_running and restart_agent enforce.
HasPlace(a) ==
  /\ agent[a].level = 5 => Cardinality(ActiveAt(5) \ {a}) < MaxL5
  /\ agent[a].level = 6 => Cardinality(ActiveAt(6) \ {a}) < MaxL6

Update(a, g) == agent' = [agent EXCEPT ![a] = g] /\ UNCHANGED task

\* transition_to_running past its checks: Starting before the fuel is paid.
Started(g) ==
  LET starting == SilentlyMoved(g, "Starting") IN
  IF Pays(starting, 1) THEN SilentlyMoved(Consumed(starting, 1), "Running")
  ELSE Consumed(starting, 1)

\* In whatever state the caller names, and without a look at the caps.
register_agent(a, l, c, s, initial_state) ==
  /\ ~Registered(a)
  /\ Update(a, Entry(l, c, s, initial_state))

transition_to_running(a) ==
  /\ Registered(a) /\ agent[a].state # "Running"
  /\ HasPlace(a)
  /\ is_valid_transition(agent[a].state, "Starting")
  /\ Update(a, Started(agent[a]))

\* stop_agent of a running or paused agent: paid for first.
Halted(g) ==
  IF Pays(g, 2) THEN Moved(Moved(Consumed(g, 2), "Stopping"), "Stopped")
  ELSE Consumed(g, 2)

stop_agent(a) ==
  /\ Registered(a) /\ agent[a].state \in {"Running", "Paused"}
  /\ Update(a, Halted(agent[a]))

pause_agent(a) ==
  /\ Registered(a) /\ agent[a].state = "Running"
  /\ Update(a, Moved(agent[a], "Paused"))

resume_agent(a) ==
  /\ Registered(a) /\ agent[a].state = "Paused"
  /\ Update(a, Moved(agent[a], "Running"))

\* restart_agent: stop (and give up when the stop fails), pay, start.
restart_agent(a) ==
  LET was == agent[a]
      stops == was.state \in {"Running", "Paused"}
      stopped == IF stops THEN Halted(was) ELSE was
      paid == Consumed(stopped, 1)
  IN
  /\ Registered(a)
  /\ HasPlace(a)
  /\ Update(a,
       IF stops /\ ~Pays(was, 2) THEN stopped
       ELSE IF Pays(stopped, 1) /\ is_valid_transition(paid.state, "Starting")
         THEN Moved(Moved(paid, "Starting"), "Running")
       ELSE paid)

record_llm_spend(a, cost) ==
  /\ Registered(a)
  /\ Update(a,
       IF ~CanReserve(agent[a], cost) THEN Violated(agent[a])
       ELSE LET spent == RecordSpend([agent[a] EXCEPT !.fuel = @ - cost], cost)
            IN  IF Refused(agent[a], cost) THEN Violated(spent) ELSE spent)

\* apply_safety_action: through the legal transition where there is one, by
\* force where there is none (Starting to Stopping); both are recorded.
HaltedBySafety(g) == Moved(Moved(g, "Stopping"), "Stopped")

\* A metric's halt or manual_halt_agent.
safety_halt(a) ==
  /\ Registered(a) /\ agent[a].state \in Active
  /\ Update(a, HaltedBySafety(agent[a]))

update_agent_permission(a, enabled) ==
  /\ Registered(a)
  /\ Update(a, [agent[a] EXCEPT !.scheduled = enabled])

-----------------------------------------------------------------------------
(***************************************************************************)
(* ScheduledExecutor::execute, one action per hold of the mutex.  How the  *)
(* fuel was reserved: "paid", "standalone" (no such agent), "refused".     *)
(***************************************************************************)

Goes(t, r) == task' = [task EXCEPT ![t] = r]

CapabilityCheck(t, a) ==
  /\ task[t] = Idle
  /\ Registered(a) => agent[a].scheduled
  /\ Goes(t, [pc |-> "checked", of |-> a, fuel |-> "none"])
  /\ UNCHANGED agent

\* The error of reserve_fuel is logged and the task goes on without fuel.
ReserveStep(t) ==
  LET a == task[t].of IN
  /\ task[t].pc = "checked"
  /\ Goes(t, [task[t] EXCEPT
       !.pc = "reserved",
       !.fuel = IF ~Registered(a) THEN "standalone"
                ELSE IF CanReserve(agent[a], PerRun) THEN "paid"
                ELSE "refused"])
  /\ agent' = IF Registered(a)
              THEN [agent EXCEPT ![a] = Reserved(@, PerRun)] ELSE agent

\* The arena blocks the task, or it waits for a person: nothing runs.
NotRun(t) ==
  /\ task[t].pc = "reserved"
  /\ Goes(t, [task[t] EXCEPT !.pc = "cancel"])
  /\ UNCHANGED agent

CancelFuel(t) ==
  /\ task[t].pc = "cancel"
  /\ Goes(t, Idle)
  /\ agent' = IF task[t].fuel = "paid"
              THEN [agent EXCEPT ![task[t].of].fuel = @ + PerRun] ELSE agent

RunTask(t) ==
  /\ task[t].pc = "reserved"
  /\ Goes(t, [task[t] EXCEPT !.pc = "ran"])
  /\ UNCHANGED agent

\* The cost is the time it took, and at most what was reserved.
CommitFuel(t, cost) ==
  /\ task[t].pc = "ran"
  /\ Goes(t, Idle)
  /\ agent' = IF task[t].fuel = "paid"
              THEN [agent EXCEPT ![task[t].of] = Committed(@, PerRun, cost)]
              ELSE agent

-----------------------------------------------------------------------------
Init == agent = [a \in Agents |-> None] /\ task = [t \in Tasks |-> Idle]

Next ==
  \/ \E a \in Agents, l \in Levels, c \in Caps, s \in Flags, i \in States :
       register_agent(a, l, c, s, i)
  \/ \E a \in Agents :
       \/ transition_to_running(a)
       \/ stop_agent(a)
       \/ pause_agent(a)
       \/ resume_agent(a)
       \/ restart_agent(a)
       \/ safety_halt(a)
       \/ \E c \in Spends : record_llm_spend(a, c)
       \/ \E b \in Flags : update_agent_permission(a, b)
  \/ \E t \in Tasks :
       \/ \E a \in Agents : CapabilityCheck(t, a)
       \/ ReserveStep(t)
       \/ NotRun(t)
       \/ CancelFuel(t)
       \/ RunTask(t)
       \/ \E c \in 0..PerRun : CommitFuel(t, c)

Spec == Init /\ [][Next]_vars

-----------------------------------------------------------------------------
(***************************************************************************)
(* Properties.                                                             *)
(***************************************************************************)

MaxCap == CHOOSE m \in Caps : \A c \in Caps : c <= m

\* The type of the state.
TypeOK ==
  /\ \A a \in Agents : Registered(a) =>
       /\ agent[a].state \in States
       /\ agent[a].level \in Levels \cup {0}
       /\ agent[a].cap \in Caps
       /\ agent[a].fuel \in 0..MaxCap
       /\ agent[a].spent \in 0..MaxCap
       /\ agent[a].calls \in BoundedSeq(0..MaxCap, Window)
       /\ agent[a].audited \in States \cup {"None"}
       /\ agent[a].scheduled \in BOOLEAN
       /\ agent[a].given \subseteq {"state", "place"}
  /\ \A t \in Tasks : task[t] = Idle
       \/ task[t] \in [pc : {"checked", "reserved", "cancel", "ran"},
                       of : Agents,
                       fuel : {"none", "paid", "standalone", "refused"}]

\* However starts, restarts, pauses, resumes and fuel violations of several
\* agents follow each other, no more L5 and L6 agents hold a place that a start
\* took than the configuration allows: a pause keeps the place a resume takes
\* for granted.  A place that came with a registration (as Starting, Running or
\* Paused) was never checked and is not counted here; its agent keeps it no
\* longer than it stays active.
CapsHold ==
  LET held(l) == {a \in Agents :
        /\ Registered(a) /\ agent[a].level = l
        /\ agent[a].state \in Active /\ "place" \notin agent[a].given}
  IN  Cardinality(held(5)) <= MaxL5 /\ Cardinality(held(6)) <= MaxL6

HeldFor(a) ==
  PerRun * Cardinality({t \in Tasks :
    /\ task[t].pc \in {"reserved", "cancel", "ran"}
    /\ task[t].of = a /\ task[t].fuel = "paid"})

\* Balance, reservations under way and recorded spend never exceed the cap,
\* whatever violation falls between a task's reservation and its settlement:
\* no sequence of reserve, commit, cancel and refund makes fuel.
FuelIsConserved ==
  \A a \in Agents : Registered(a) =>
    agent[a].fuel + HeldFor(a) + agent[a].spent <= agent[a].cap

\* An agent that was not registered so rests in Starting only when its start was
\* refused for fuel, and it has lost its autonomy by then: the stuck agent
\* holds no capped place.
StartingIsAFailedStart ==
  \A a \in Agents : Registered(a) /\ agent[a].state = "Starting" =>
    agent[a].level = 0 \/ "state" \in agent[a].given

\* A paused or stopped agent is so by the last transition in the audit trail,
\* also when a safety halt forced it out of a start that failed, unless it was
\* registered so and has not moved since.
RestIsAudited ==
  \A a \in Agents : Registered(a) /\ agent[a].state \in {"Paused", "Stopped"} =>
    agent[a].audited = agent[a].state \/ "state" \in agent[a].given

\* The places that starts take and the fuel are never overdrawn, and an agent's
\* rest is what the audit trail or its registration says.
AgentsHold == CapsHold /\ FuelIsConserved /\ StartingIsAFailedStart /\ RestIsAudited
=============================================================================
