---------------------------- MODULE GovernedPort ----------------------------
(***************************************************************************)
(* The governed port (mother/src/adapter/mod.rs), lock section by lock      *)
(* section.  A mission's worker performs effects and polls approvals; any   *)
(* thread may end a mission (cancel, withdraw); the coordinator's break     *)
(* fences the port.  Every call enters the port's mutex several times and   *)
(* asks the broker in between with no lock held, so a fence or an end can   *)
(* fall between any two of its steps.  The fence alone calls the broker     *)
(* with the mutex held; a panic there poisons the mutex, and every later    *)
(* section recovers it first.                                               *)
(*                                                                          *)
(* The port of an ordinary (not File) session with no host gate.  The       *)
(* broker is what the port sees of it: runs, the door's group, actions.     *)
(* Adoption happens in the opening, before any call: Init chooses, of an    *)
(* action that survived, whether the port adopted it or was only handed it. *)
(***************************************************************************)
EXTENDS Naturals, FiniteSets

CONSTANTS Missions, Stoppers,
          Survivors,     \* missions an action of which may have survived
          LastEffect,    \* effects of a mission
          MaxFaults      \* broker calls that refuse or panic

ASSUME BoundsAssumption == Survivors \subseteq Missions /\ LastEffect \in Nat /\ MaxFaults \in Nat

VARIABLES
    port,      \* the mutex-guarded Runs, its holder and its poison
    failures,  \* cancel_failures
    run,       \* the broker's runs: run[<<m, k>>], k = 0 the one that survived
    halted,    \* the door's group is halted
    action,    \* the broker's actions: action[<<m, e>>], e = 0 the one that survived
    worker,    \* the worker of each mission
    stopper,   \* the threads that end missions
    fence,     \* the thread that fences
    withdrawn, \* ghost: missions whose withdrawal returned Ok
    missed,    \* ghost: runs whose cancellation the broker refused, or panicked in
    faults

vars == <<port, failures, run, halted, action, worker, stopper, fence, withdrawn, missed, faults>>

None == <<>>
RunIds == Missions \X {0, 1}
Actions == Missions \X (0 .. LastEffect)
OpenStates == {"prepared", "executing"}

Init ==
    /\ \E kept \in [Missions -> {"no", "handed", "adopted"}] :
         (\A m \in Missions \ Survivors : kept[m] = "no") /\
         LET lives(m) == kept[m] # "no"
             mine(m) == kept[m] = "adopted"
         IN  /\ port = [free |-> TRUE, poisoned |-> FALSE, fenced |-> FALSE, ended |-> {},
                        open |-> [m \in Missions |-> IF mine(m) THEN <<m, 0>> ELSE None],
                        waiting |-> [m \in Missions |-> IF mine(m) THEN <<m, 0>> ELSE None],
                        handed |-> {m \in Missions : lives(m)}]
             /\ run = [r \in RunIds |->
                        [at |-> IF r[2] = 0 /\ lives(r[1]) THEN "live" ELSE "none",
                         member |-> r[2] = 0 /\ mine(r[1]), detached |-> FALSE]]
             /\ action = [a \in Actions |->
                        [at |-> IF a[2] = 0 /\ lives(a[1]) THEN "prepared" ELSE "none",
                         run |-> IF a[2] = 0 /\ lives(a[1]) THEN <<a[1], 0>> ELSE None,
                         r2 |-> TRUE, late |-> 0]]
             /\ worker = [m \in Missions |->
                        [pc |-> "idle", run |-> None, action |-> None,
                         told |-> IF mine(m) THEN "awaiting" ELSE "none"]]
    /\ failures = 0 /\ halted = FALSE /\ withdrawn = {} /\ missed = {} /\ faults = 0
    /\ stopper = [s \in Stoppers |-> [pc |-> "idle", call |-> "none", mission |-> None,
                                      entered |-> FALSE, run |-> None]]
    /\ fence = [pc |-> "idle", unswept |-> {}, panic |-> FALSE]

-----------------------------------------------------------------------------
(***************************************************************************)
(* The broker.  Cancelling a run revokes what of it has not started; an     *)
(* action that executes goes on, with its cancellation token set.  A halted *)
(* door cancels every run of its group and admits nothing more.             *)
(***************************************************************************)
Cancelled(S) ==
    /\ run' = [r \in RunIds |-> IF r \in S /\ run[r].at = "live"
                                THEN [run[r] EXCEPT !.at = "cancelled"] ELSE run[r]]
    /\ action' = [a \in Actions |-> IF action[a].run \in S /\ action[a].at = "prepared"
                                    THEN [action[a] EXCEPT !.at = "revoked"] ELSE action[a]]

Members == {r \in RunIds : run[r].member}
Halted == halted' = TRUE /\ Cancelled(Members)

Fails == faults < MaxFaults /\ faults' = faults + 1
Works == faults' = faults

\* door.cancel_run of a run, as the port's cancel_run and withdraw see it: made,
\* or refused and counted.
CancelRun(r) ==
    /\ UNCHANGED halted
    /\ \/ Works /\ Cancelled({r}) /\ UNCHANGED <<failures, missed>>
       \/ Fails /\ failures' = failures + 1 /\ missed' = missed \cup {r} /\ UNCHANGED <<run, action>>

(***************************************************************************)
(* locked: a poisoned mutex is taken back, its port fenced and its door     *)
(* halted (the sweep that was cut short is empty by then: the fence sweeps  *)
(* to the end before it lets its panic go on).                              *)
(***************************************************************************)
Locked == [port EXCEPT !.fenced = @ \/ port.poisoned]

Recovers ==
    /\ port.free
    /\ \/ ~port.poisoned /\ UNCHANGED <<run, halted, action, faults>>
       \/ port.poisoned /\ Works /\ Halted
       \/ port.poisoned /\ Fails /\ UNCHANGED <<run, halted, action>>

\* A section that changes nothing of the port but what its recovery does.
Looks == Recovers /\ port' = Locked

-----------------------------------------------------------------------------
(***************************************************************************)
(* perform: run_for, then the broker's action.  "over": the effect was      *)
(* refused or its wait ended, and the coordinator ends the mission.         *)
(***************************************************************************)
At(m, pc) == worker[m].pc = pc
Goes(m, rec) == worker' = [worker EXCEPT ![m] = rec]
To(m, pc) == [worker[m] EXCEPT !.pc = pc]
Back(m, told) == [pc |-> "idle", run |-> None, action |-> None, told |-> told]
Over(m) == Back(m, "over")

Calls == <<failures, stopper, fence, withdrawn, missed>>

Perform(m) ==
    /\ At(m, "idle") /\ worker[m].told = "none"
    /\ \E e \in 1 .. LastEffect :
          /\ action[<<m, e>>].at = "none"
          /\ \A d \in 1 .. e - 1 : action[<<m, d>>].at # "none"
          /\ Goes(m, [To(m, "enter") EXCEPT !.action = <<m, e>>])
    /\ UNCHANGED <<port, run, halted, action, faults, Calls>>

\* enter, before the run is known and again before the broker acts.
Enter(m) ==
    /\ At(m, "enter") /\ Looks
    /\ Goes(m, IF port'.fenced THEN Over(m) ELSE To(m, "known"))
    /\ UNCHANGED Calls

Known(m) ==
    /\ At(m, "known") /\ Looks
    /\ Goes(m, IF m \in port.ended THEN Over(m)
               ELSE IF port.open[m] # None
               THEN [To(m, "enter_again") EXCEPT !.run = port.open[m]]
               ELSE To(m, "open"))
    /\ UNCHANGED Calls

OpenRun(m) ==
    /\ At(m, "open")
    /\ IF halted THEN Goes(m, Over(m)) /\ UNCHANGED run
       ELSE /\ run' = [run EXCEPT ![<<m, 1>>] = [@ EXCEPT !.at = "live", !.member = TRUE]]
            /\ Goes(m, [To(m, "register") EXCEPT !.run = <<m, 1>>])
    /\ UNCHANGED <<port, halted, action, faults, Calls>>

Registrable(m) == ~Locked.fenced /\ m \notin port.ended /\ port.open[m] = None

Register(m) ==
    /\ At(m, "register") /\ Recovers
    /\ IF Registrable(m)
       THEN port' = [Locked EXCEPT !.open[m] = worker[m].run] /\ Goes(m, To(m, "enter_again"))
       ELSE port' = Locked /\ Goes(m, To(m, "undo"))
    /\ UNCHANGED Calls

\* Mutant of Undo: the run just opened is left as it is.
UndoNot(m) ==
    At(m, "undo") /\ Goes(m, Over(m)) /\ UNCHANGED <<port, run, halted, action, faults, Calls>>

Undo(m) ==
    /\ At(m, "undo") /\ CancelRun(worker[m].run) /\ Goes(m, Over(m))
    /\ UNCHANGED <<port, stopper, fence, withdrawn>>

EnterAgain(m) ==
    /\ At(m, "enter_again") /\ Looks
    /\ Goes(m, IF port'.fenced THEN Over(m) ELSE To(m, "propose"))
    /\ UNCHANGED Calls

\* agent_action: the broker prepares the action on a live run of the door; an
\* R2 action is left for the Owner's approval.
Propose(m) ==
    /\ At(m, "propose")
    /\ IF halted \/ run[worker[m].run].at # "live" THEN Goes(m, Over(m)) /\ UNCHANGED action
       ELSE \E r2 \in BOOLEAN :
              /\ action' = [action EXCEPT ![worker[m].action] =
                               [@ EXCEPT !.at = "prepared", !.run = worker[m].run, !.r2 = r2]]
              /\ Goes(m, To(m, IF r2 THEN "insert" ELSE "execute"))
    /\ UNCHANGED <<port, run, halted, faults, Calls>>

Execute(m) ==
    /\ At(m, "execute")
    /\ IF action[worker[m].action].at = "prepared"
       THEN action' = [action EXCEPT ![worker[m].action].at = "executing"] /\ Goes(m, To(m, "running"))
       ELSE Goes(m, Over(m)) /\ UNCHANGED action
    /\ UNCHANGED <<port, run, halted, faults, Calls>>

Ran(m) ==
    /\ At(m, "running") /\ action[worker[m].action].at \notin OpenStates
    /\ Goes(m, IF action[worker[m].action].at = "succeeded" THEN Back(m, "none") ELSE Over(m))
    /\ UNCHANGED <<port, run, halted, action, faults, Calls>>

Insert(m) ==
    /\ At(m, "insert") /\ Recovers
    /\ port' = [Locked EXCEPT !.waiting[m] = worker[m].action]
    /\ Goes(m, Back(m, "awaiting"))
    /\ UNCHANGED Calls

-----------------------------------------------------------------------------
(***************************************************************************)
(* approval: what became of the action the mission waits on.                *)
(***************************************************************************)
Poll(m) ==
    /\ At(m, "idle") /\ worker[m].told = "awaiting" /\ Looks
    /\ Goes(m, IF port'.fenced THEN Over(m) ELSE To(m, "found"))
    /\ UNCHANGED Calls

Found(m) ==
    /\ At(m, "found") /\ Looks
    /\ Goes(m, IF port.open[m] # None /\ port.waiting[m] # None
               THEN [To(m, "lookup") EXCEPT !.run = port.open[m], !.action = port.waiting[m]]
               ELSE Over(m))
    /\ UNCHANGED Calls

\* status_of: past the port's deadline, which is never later than the
\* broker's, a prepared action is expired.
StatusOf(a) ==
    IF action[a].at = "prepared" /\ action[a].late > 0 THEN "expired"
    ELSE CASE action[a].at \in OpenStates -> "waiting"
           [] action[a].at = "succeeded" -> "approved"
           [] OTHER -> "lapsed"

Lookup(m) ==
    /\ At(m, "lookup")
    /\ LET a == worker[m].action
           known == run[action[a].run].member /\ action[a].run = worker[m].run
           status == IF known THEN StatusOf(a) ELSE "unknown"
       IN  Goes(m, CASE status = "unknown" -> Over(m)
                     [] status = "waiting" -> Back(m, "awaiting")
                     [] status = "approved" -> [To(m, "drop") EXCEPT !.told = "none"]
                     [] OTHER -> [To(m, "drop") EXCEPT !.told = "over"])
    /\ UNCHANGED <<port, run, halted, action, faults, Calls>>

Drop(m) ==
    /\ At(m, "drop") /\ Recovers
    /\ port' = [Locked EXCEPT !.waiting[m] = None]
    /\ Goes(m, Back(m, worker[m].told))
    /\ UNCHANGED Calls

\* finish, once the mission completed: enter, end, and the run finishes when
\* nothing of it waits.
Finish(m) ==
    /\ At(m, "idle") /\ worker[m].told = "none" /\ Looks
    /\ Goes(m, To(m, IF port'.fenced THEN "finish_only" ELSE "finish_end"))
    /\ UNCHANGED Calls

FinishEnd(m) ==
    /\ worker[m].pc \in {"finish_only", "finish_end"} /\ Recovers
    /\ port' = [Locked EXCEPT !.ended = @ \cup {m}]
    /\ Goes(m, IF At(m, "finish_end") /\ port.open[m] # None
               THEN [To(m, "finish") EXCEPT !.run = port.open[m]] ELSE Over(m))
    /\ UNCHANGED Calls

FinishRun(m) ==
    /\ At(m, "finish")
    /\ run' = IF halted THEN run ELSE [run EXCEPT ![worker[m].run].detached = TRUE]
    /\ Goes(m, Over(m))
    /\ UNCHANGED <<port, halted, action, faults, Calls>>

-----------------------------------------------------------------------------
(***************************************************************************)
(* cancel and withdraw.                                                     *)
(***************************************************************************)
StopAt(s, pc) == stopper[s].pc = pc
StopTo(s, pc) == stopper' = [stopper EXCEPT ![s].pc = pc]
StopIdle(s) == stopper' = [stopper EXCEPT ![s] = [@ EXCEPT !.pc = "idle", !.call = "none",
                                                          !.mission = None, !.run = None, !.entered = FALSE]]

\* A call begins with its enter.
Begin(s) ==
    /\ StopAt(s, "idle") /\ Looks
    /\ \E m \in Missions \ withdrawn, call \in {"cancel", "withdraw"} :
          stopper' = [stopper EXCEPT ![s] = [@ EXCEPT !.pc = "end", !.call = call, !.mission = m,
                                                      !.entered = ~port'.fenced]]
    /\ UNCHANGED <<failures, worker, fence, withdrawn, missed>>

Ends(p, m) == [p EXCEPT !.ended = @ \cup {m}]

End(s) ==
    /\ StopAt(s, "end") /\ Recovers
    /\ LET m == stopper[s].mission
           held == port.open[m]
           entered == stopper[s].entered
       IN  /\ port' = Ends(Locked, m)
           /\ IF entered /\ held # None
              THEN stopper' = [stopper EXCEPT ![s] = [@ EXCEPT !.pc = "cancel", !.run = held]]
              ELSE IF entered /\ stopper[s].call = "withdraw"
              THEN StopTo(s, "handed")
              ELSE StopIdle(s)
           /\ withdrawn' = IF stopper[s].call = "withdraw" /\ ~entered /\ held = None /\ m \notin port.handed
                           THEN withdrawn \cup {m} ELSE withdrawn
    /\ UNCHANGED <<failures, worker, fence, missed>>

\* A withdrawal the broker refused returns its error; a cancel returns anyhow.
EndCancel(s) ==
    /\ StopAt(s, "cancel") /\ CancelRun(stopper[s].run)
    /\ IF stopper[s].call = "cancel" \/ failures' # failures THEN StopIdle(s) ELSE StopTo(s, "handed")
    /\ UNCHANGED <<port, worker, fence, withdrawn>>

\* withdrawn: what the broker says of the action handed back for the mission.
WithdrawnAt(a, r) == action[a].run = r \/ action[a].at \notin OpenStates

EndHanded(s) ==
    /\ StopAt(s, "handed")
    /\ LET m == stopper[s].mission
       IN  withdrawn' = IF m \notin port.handed \/ WithdrawnAt(<<m, 0>>, stopper[s].run)
                        THEN withdrawn \cup {m} ELSE withdrawn
    /\ StopIdle(s)
    /\ UNCHANGED <<port, failures, run, halted, action, worker, fence, missed, faults>>

-----------------------------------------------------------------------------
(***************************************************************************)
(* fence, under the port's mutex.                                           *)
(***************************************************************************)
FenceLock ==
    /\ fence.pc = "idle" /\ Recovers
    /\ port' = [Locked EXCEPT !.fenced = TRUE, !.free = FALSE]
    /\ fence' = [fence EXCEPT !.pc = "halt"]
    /\ UNCHANGED <<failures, worker, stopper, withdrawn, missed>>

\* Mutant of HeldRuns: only the runs on which an action waits.
HeldRunsWaiting == {port.open[m] : m \in {n \in Missions : port.waiting[n] # None}} \ {None}

HeldRuns == {port.open[m] : m \in Missions} \ {None}

\* The door's halt: made, refused, or a panic (before or after it took effect).
FenceHalt ==
    /\ fence.pc = "halt"
    /\ \E panic \in BOOLEAN :
          /\ fence' = [pc |-> "sweep", unswept |-> HeldRuns, panic |-> panic]
          /\ \/ ~panic /\ Works /\ Halted /\ UNCHANGED failures
             \/ panic /\ Fails /\ Halted /\ failures' = failures + 1
             \/ Fails /\ failures' = failures + 1 /\ UNCHANGED <<run, halted, action>>
    /\ UNCHANGED <<port, worker, stopper, withdrawn, missed>>

Swept(r, panic) == fence.unswept \ {r}

FenceSweep(r) ==
    /\ fence.pc = "sweep" /\ r \in fence.unswept
    /\ \E panic \in BOOLEAN :
          /\ fence' = [fence EXCEPT !.unswept = Swept(r, panic), !.panic = @ \/ panic]
          /\ CancelRun(r) /\ (panic => failures' # failures)
    /\ UNCHANGED <<port, worker, stopper, withdrawn>>

\* A panic goes on once the sweep is done, and poisons the mutex.
Released(p) == [p EXCEPT !.free = TRUE, !.poisoned = fence.panic]

FenceEnd ==
    /\ fence.pc = "sweep" /\ fence.unswept = {}
    /\ port' = Released(port)
    /\ fence' = [fence EXCEPT !.pc = "done"]
    /\ UNCHANGED <<failures, run, halted, action, worker, stopper, withdrawn, missed, faults>>

-----------------------------------------------------------------------------
(***************************************************************************)
(* The broker behind the port: the Owner's answers, the executions and the  *)
(* clock, as the port sees them; the registry itself is module Commitments. *)
(***************************************************************************)
Moves(a, to) ==
    /\ action' = [action EXCEPT ![a].at = to]
    /\ UNCHANGED <<port, run, halted, worker, faults, Calls>>

OwnerApproves(a) ==
    /\ action[a].at = "prepared" /\ action[a].r2 /\ action[a].late < 2
    /\ run[action[a].run].at = "live"
    /\ Moves(a, "executing")
OwnerDenies(a) == action[a].at = "prepared" /\ action[a].r2 /\ Moves(a, "denied")
Completes(a) == action[a].at = "executing" /\ (Moves(a, "succeeded") \/ Moves(a, "failed"))
Expires(a) == action[a].at = "prepared" /\ action[a].late = 2 /\ Moves(a, "expired")

\* Time passes the port's deadline (1), then the broker's (2).
Passes(a) ==
    /\ action[a].at = "prepared" /\ action[a].r2 /\ action[a].late < 2
    /\ action' = [action EXCEPT ![a].late = @ + 1]
    /\ UNCHANGED <<port, run, halted, worker, faults, Calls>>

\* A detached run finishes once nothing of it waits.
Settles(r) ==
    /\ run[r].detached /\ run[r].at = "live"
    /\ \A a \in Actions : action[a].run = r => action[a].at \notin OpenStates
    /\ run' = [run EXCEPT ![r].at = "finished"]
    /\ UNCHANGED <<port, halted, action, worker, faults, Calls>>

-----------------------------------------------------------------------------
WorkStep(m) ==
    \/ Enter(m) \/ Known(m) \/ OpenRun(m) \/ Register(m) \/ Undo(m)
    \/ EnterAgain(m) \/ Propose(m) \/ Execute(m) \/ Ran(m) \/ Insert(m)
    \/ Found(m) \/ Lookup(m) \/ Drop(m) \/ FinishEnd(m) \/ FinishRun(m)
StopStep(s) == End(s) \/ EndCancel(s) \/ EndHanded(s)
FenceStep == FenceHalt \/ FenceEnd \/ \E r \in RunIds : FenceSweep(r)

Next ==
    \/ \E m \in Missions : Perform(m) \/ Poll(m) \/ Finish(m) \/ WorkStep(m)
    \/ \E s \in Stoppers : Begin(s) \/ StopStep(s)
    \/ FenceLock \/ FenceStep
    \/ \E a \in Actions : OwnerApproves(a) \/ OwnerDenies(a) \/ Completes(a) \/ Expires(a) \/ Passes(a)
    \/ \E r \in RunIds : Settles(r)

Spec == Init /\ [][Next]_vars

\* Each call goes on once it began, and what executes at the broker ends.
FairSpec ==
    /\ Spec
    /\ \A m \in Missions : WF_vars(WorkStep(m))
    /\ \A s \in Stoppers : WF_vars(StopStep(s))
    /\ WF_vars(FenceStep)
    /\ \A a \in Actions : WF_vars(Completes(a))

-----------------------------------------------------------------------------
MaybeRun == RunIds \cup {None}

TypeOK ==
    /\ port \in [free : BOOLEAN, poisoned : BOOLEAN, fenced : BOOLEAN, ended : SUBSET Missions,
                 open : [Missions -> MaybeRun], waiting : [Missions -> Actions \cup {None}],
                 handed : SUBSET Missions]
    /\ failures \in Nat /\ halted \in BOOLEAN /\ faults \in 0 .. MaxFaults
    /\ run \in [RunIds -> [at : {"none", "live", "cancelled", "finished"}, member : BOOLEAN,
                           detached : BOOLEAN]]
    /\ action \in [Actions -> [at : {"none", "prepared", "executing", "succeeded", "failed", "denied",
                                     "expired", "revoked"},
                               run : MaybeRun, r2 : BOOLEAN, late : 0 .. 2]]
    /\ withdrawn \subseteq Missions /\ missed \subseteq RunIds

\* An action starts: it is prepared on a run, or goes from prepared to executing.
Starts(a) ==
    \/ action[a].at = "none" /\ action'[a].at # "none"
    \/ action[a].at # "executing" /\ action'[a].at = "executing"

\* Once the fence returned, nothing starts on a run of the port's door, even
\* where the door's halt failed, save on a run whose own cancellation failed: a
\* perform that passed its check before the break finds its run swept, or its
\* registration refused (enter, run_for, fence).
NothingStartsPastTheFence ==
    [][\A a \in Actions : fence.pc = "done" /\ Starts(a) =>
            action'[a].run \in missed \/ ~run[action'[a].run].member]_vars

\* A withdrawal that returned Ok is the last of its mission: no action of it
\* starts, neither one a perform in flight still brings to the broker nor the
\* one handed back from before (withdraw, end, withdrawn).
NothingStartsPastAWithdrawal ==
    [][\A a \in Actions : a[1] \in withdrawn => ~Starts(a)]_vars

\* Whether some thread is still to do something about run r.
InHand(r) ==
    \/ \E m \in Missions : worker[m].run = r /\ worker[m].pc \in {"register", "undo", "finish"}
    \/ \E s \in Stoppers : stopper[s].run = r /\ StopAt(s, "cancel")
    \/ fence.pc \in {"halt", "sweep"}

\* No run of the door is forgotten: one that is live is the registered run of a
\* mission that goes on, or a thread is about to cancel it, or it finishes as
\* soon as nothing waits, or its cancellation failed and was counted (run_for,
\* cancel_run, finish, fence).
NoRunIsForgotten ==
    /\ \A r \in Members : run[r].at = "live" =>
         \/ r \in missed \/ run[r].detached \/ InHand(r)
         \/ \E m \in Missions \ port.ended : port.open[m] = r /\ ~port.fenced
    /\ Cardinality(missed) <= failures

\* An action the coordinator was told waits for the Owner is the one the port
\* names when asked for it, until the wait is over: a mission keeps one run and
\* one waiting action whatever ends or fences between (pending, waiting).
AwaitedIsNamed ==
    \A m \in Missions : At(m, "idle") /\ worker[m].told = "awaiting" =>
        /\ port.waiting[m] # None /\ port.open[m] # None
        /\ action[port.waiting[m]].run = port.open[m]
        /\ \A a \in Actions : a[1] = m /\ action[a].run = port.open[m] /\ action[a].at \in OpenStates
               => a = port.waiting[m]

\* The port keeps hold of what it opened: no live run of a mission that ended is
\* out of everybody's hands, and a waiting mission's action is the one it names.
NothingSlipsAway == NoRunIsForgotten /\ AwaitedIsNamed

\* Nothing starts past a fence or past a withdrawal that returned Ok.
NothingStartsLate == NothingStartsPastTheFence /\ NothingStartsPastAWithdrawal
=============================================================================
