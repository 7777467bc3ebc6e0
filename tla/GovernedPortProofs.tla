------------------------- MODULE GovernedPortProofs -------------------------
(***************************************************************************)
(* Proofs, for any missions, threads, effects and broker faults, of what    *)
(* module GovernedPort states of the port.  Its properties speak of the     *)
(* broker's runs and of starting actions; the inductive invariant says who  *)
(* holds each run, what each point of a call knows of it, and that an       *)
(* action waits on a live run only.                                         *)
(***************************************************************************)
EXTENDS GovernedPort, FiniteSetTheorems, TLAPS

\* Where a worker holds a run that is not registered, has an action of its own
\* at the broker, or knows that a run is registered.
Opening(m) == worker[m].pc \in {"register", "undo"}
Acting == {"execute", "running", "insert"}
Holding == Acting \cup {"enter_again", "propose", "lookup", "drop", "finish"}
Performing == Acting \cup {"enter", "known", "open", "register", "undo", "enter_again", "propose"}

\* A run that is not live, or whose cancellation failed and was counted.
Dead(r) == run[r].at # "live" \/ r \in missed

PortTypes ==
  /\ TypeOK
  /\ worker \in [Missions -> [pc : Performing \cup Holding \cup
                                   {"idle", "found", "finish_only", "finish_end"},
                              run : MaybeRun, action : Actions \cup {None},
                              told : {"none", "awaiting", "over"}]]
  /\ stopper \in [Stoppers -> [pc : {"idle", "end", "cancel", "handed"},
                               call : {"none", "cancel", "withdraw"},
                               mission : Missions \cup {None},
                               entered : BOOLEAN, run : MaybeRun]]
  /\ fence \in [pc : {"idle", "halt", "sweep", "done"}, unswept : SUBSET RunIds, panic : BOOLEAN]

\* What a worker's place says of its mission's run: the port holds one of the
\* two the mission may have, and the one the worker opens is nowhere else.
HoldsOK(m) ==
  /\ port.open[m] \in {None, <<m, 0>>, <<m, 1>>}
  /\ Opening(m) => worker[m].run = <<m, 1>>
  /\ worker[m].pc \in {"open", "register", "undo"} => port.open[m] = None
  /\ worker[m].pc \in Holding => port.open[m] # None
  /\ worker[m].pc \in {"enter_again", "propose", "lookup", "finish"} => worker[m].run = port.open[m]
  /\ port.open[m] = None /\ ~Opening(m) /\ worker[m].told # "over" => run[<<m, 1>>].at = "none"
  /\ worker[m].pc = "finish_only" => port.fenced

\* What the coordinator was told says of the action the mission waits on: of its
\* run no other is open.
Open(m, a) == a[1] = m /\ action[a].run = port.open[m] /\ action[a].at \in OpenStates

ToldOK(m) ==
  /\ worker[m].pc \in Performing \cup {"finish_only", "finish_end", "finish"} => worker[m].told = "none"
  /\ worker[m].pc \in {"found", "lookup"} => worker[m].told = "awaiting"
  /\ worker[m].pc = "drop" => worker[m].told # "awaiting"
  /\ worker[m].pc \in Performing =>
       worker[m].action \in Actions /\ worker[m].action[1] = m /\ worker[m].action[2] # 0
  /\ worker[m].pc = "lookup" => worker[m].action = port.waiting[m]
  /\ worker[m].pc = "insert" => action[worker[m].action].run = port.open[m]
  /\ worker[m].pc \in Acting => \A a \in Actions : Open(m, a) => a = worker[m].action
  /\ worker[m].pc \notin Acting /\ worker[m].told = "none" => \A a \in Actions : ~Open(m, a)
  /\ worker[m].told = "awaiting" =>
       /\ port.waiting[m] \in Actions /\ port.waiting[m][1] = m /\ port.open[m] # None
       /\ action[port.waiting[m]].run = port.open[m]
       /\ \A a \in Actions : Open(m, a) => a = port.waiting[m]

WorkerOK(m) == HoldsOK(m) /\ ToldOK(m)

\* An action waits on a live run only; one that is not the survivor is on the
\* registered run of its mission.
ActionOK(a) ==
  /\ action[a].at = "prepared" => run[action[a].run].at = "live"
  /\ action[a].at = "none" => action[a].run = None
  /\ action[a].at # "none" => action[a].run \in RunIds
  /\ action[a].run # None => run[action[a].run].at # "none"
  /\ action[a].at # "none" /\ a[2] # 0 => action[a].run = port.open[a[1]]
  /\ a[2] = 0 => action[a].run \in {None, <<a[1], 0>>}
  /\ a[2] = 0 /\ action[a].at # "none" => a[1] \in port.handed

\* A run of the door is registered, or in the hands of the worker that opened it.
MemberOK(r) ==
  run[r].member /\ ~Dead(r) => port.open[r[1]] = r \/ (Opening(r[1]) /\ r[2] = 1)

\* What the fence has reached: behind it no registered run is left.
FenceOK ==
  /\ port.poisoned => fence.pc = "done"
  /\ port.fenced \/ halted => fence.pc # "idle"
  /\ fence.pc # "idle" => port.fenced
  /\ fence.pc \in {"halt", "sweep"} => ~port.free
  /\ fence.pc = "sweep" =>
       \A m \in Missions : port.open[m] # None => port.open[m] \in fence.unswept \/ Dead(port.open[m])
  /\ fence.pc = "done" => \A m \in Missions : port.open[m] # None => Dead(port.open[m])

\* The run of a mission that ended is finished or cancelled, or about to be.
EndedOK(m) ==
  m \in port.ended /\ port.open[m] # None /\ ~port.fenced =>
    \/ Dead(port.open[m]) \/ run[port.open[m]].detached
    \/ worker[m].pc = "finish"
    \/ \E s \in Stoppers : stopper[s].run = port.open[m] /\ StopAt(s, "cancel")

\* What a thread that ends a mission knows of the mission's run.
StopOK(s) ==
  /\ ~StopAt(s, "idle") => stopper[s].mission \in Missions
  /\ StopAt(s, "end") /\ ~stopper[s].entered => port.fenced
  /\ stopper[s].pc \in {"idle", "end"} => stopper[s].run = None
  /\ StopAt(s, "cancel") => stopper[s].run # None
  /\ stopper[s].pc \in {"cancel", "handed"} =>
       stopper[s].mission \in port.ended /\ stopper[s].run = port.open[stopper[s].mission]
  /\ StopAt(s, "handed") /\ stopper[s].run # None => run[stopper[s].run].at # "live"

\* A withdrawn mission has no live run registered and no action that waits.
WithdrawnOK(m) ==
  /\ m \in port.ended
  /\ port.open[m] # None => run[port.open[m]].at # "live"
  /\ action[<<m, 0>>].at # "prepared"

CountOK == IsFiniteSet(missed) /\ Cardinality(missed) <= failures

PortInv ==
  /\ PortTypes /\ FenceOK /\ CountOK
  /\ \A m \in Missions : WorkerOK(m) /\ EndedOK(m)
  /\ \A a \in Actions : ActionOK(a)
  /\ \A r \in RunIds : MemberOK(r)
  /\ \A s \in Stoppers : StopOK(s)
  /\ \A m \in withdrawn : WithdrawnOK(m)

USE BoundsAssumption DEF Acting, Holding, Performing

-----------------------------------------------------------------------------
\* The marker of no run is neither a run nor an action; runs and actions are pairs.
LEMMA NoneIsNoRun ==
  /\ None \notin RunIds /\ None \notin Actions
  /\ \A m \in Missions : <<m, 0>> \in RunIds /\ <<m, 1>> \in RunIds /\ <<m, 0>> \in Actions
  /\ \A m, n \in Missions : <<m, 0>> # <<n, 1>> /\ (<<m, 1>> = <<n, 1>> => m = n)
  /\ \A r \in RunIds : r[1] \in Missions /\ r[2] \in {0, 1} /\ r = <<r[1], r[2]>>
  /\ \A a \in Actions : a[1] \in Missions /\ a[2] \in 0 .. LastEffect /\ a = <<a[1], a[2]>>
  BY DEF None, RunIds, Actions

(***************************************************************************)
(* What a step does to the broker's runs and actions, unless it opens a run *)
(* or prepares an action: runs end, actions that wait or execute move on,   *)
(* and an action waits no longer than its run lives.                        *)
(***************************************************************************)
Shrinks ==
  /\ \A r \in RunIds :
       /\ run'[r].member = run[r].member /\ (run[r].detached => run'[r].detached)
       /\ run'[r].at = run[r].at \/ (run[r].at = "live" /\ run'[r].at # "none")
       /\ run'[r].at = "live" => run[r].at = "live"
  /\ \A a \in Actions :
       /\ action'[a].run = action[a].run
       /\ action'[a].at = action[a].at
            \/ (action[a].at \in OpenStates /\ action'[a].at \notin {"none", "prepared"})
       /\ action'[a].at \in OpenStates => action[a].at \in OpenStates
       /\ action'[a].at = "prepared" /\ action[a].run \in RunIds =>
            run'[action[a].run].at = run[action[a].run].at
  /\ missed \subseteq missed'

\* What it does to the port, unless it registers a run.
Steady ==
  /\ port'.open = port.open /\ port'.handed = port.handed
  /\ port.ended \subseteq port'.ended /\ (port.fenced => port'.fenced)

\* Cancelling runs shrinks.
LEMMA CancelShrinks ==
  ASSUME PortTypes, NEW S, Cancelled(S), missed \subseteq missed' PROVE Shrinks
  <1>1. \A r \in RunIds : run'[r] = IF r \in S /\ run[r].at = "live"
                                 THEN [run[r] EXCEPT !.at = "cancelled"] ELSE run[r]
    BY DEF Cancelled
  <1>2. \A a \in Actions : action'[a] = IF action[a].run \in S /\ action[a].at = "prepared"
                                       THEN [action[a] EXCEPT !.at = "revoked"] ELSE action[a]
    BY DEF Cancelled
  <1>3. ASSUME NEW r \in RunIds
        PROVE /\ run'[r].member = run[r].member /\ (run[r].detached => run'[r].detached)
              /\ run'[r].at = run[r].at \/ (run[r].at = "live" /\ run'[r].at = "cancelled")
    BY <1>1, <1>3 DEF PortTypes, TypeOK
  <1>4. ASSUME NEW a \in Actions
        PROVE /\ action'[a].run = action[a].run
              /\ action'[a].at = action[a].at \/ (action[a].at = "prepared" /\ action'[a].at = "revoked")
              /\ action'[a].at = "prepared" => action[a].run \notin S
    BY <1>2, <1>4 DEF PortTypes, TypeOK
  <1>. QED
    BY <1>1, <1>3, <1>4 DEF Shrinks, OpenStates

\* A broker left alone shrinks.
LEMMA UnchangedShrinks ==
  ASSUME run' = run, action' = action, missed \subseteq missed' PROVE Shrinks
  BY DEF Shrinks

\* Recovering the lock shrinks.
LEMMA RecoverShrinks ==
  ASSUME PortTypes, Recovers, missed \subseteq missed' PROVE Shrinks
  BY CancelShrinks, UnchangedShrinks DEF Recovers, Halted

\* A cancellation, made or refused, shrinks.
LEMMA CancelRunShrinks ==
  ASSUME PortTypes, NEW r, CancelRun(r) PROVE Shrinks
  BY CancelShrinks, UnchangedShrinks DEF CancelRun

\* A step that shrinks and is steady keeps what each part knows, as far as the
\* part itself stands still.
LEMMA ShrinkKeeps ==
  ASSUME PortInv, Shrinks, Steady, PortTypes'
  PROVE  /\ \A a \in Actions : ActionOK(a)'
         /\ \A m \in Missions : worker'[m] = worker[m] /\ port'.waiting[m] = port.waiting[m] => WorkerOK(m)'
         /\ \A r \in RunIds : (Opening(r[1]) => Opening(r[1])') => MemberOK(r)'
         /\ \A s \in Stoppers : stopper'[s] = stopper[s] => StopOK(s)'
         /\ \A m \in withdrawn : WithdrawnOK(m)'
  <1>1. ASSUME NEW a \in Actions PROVE ActionOK(a)'
    BY <1>1, NoneIsNoRun DEF PortInv, PortTypes, TypeOK, ActionOK, Shrinks, Steady, OpenStates, MaybeRun
  <1>2. ASSUME NEW m \in Missions, worker'[m] = worker[m], port'.waiting[m] = port.waiting[m]
        PROVE WorkerOK(m)'
    <2>0. HoldsOK(m) /\ <<m, 1>> \in RunIds
      BY <1>2, NoneIsNoRun DEF PortInv, WorkerOK
    <2>1. HoldsOK(m)'
      BY <1>2, <2>0 DEF HoldsOK, Opening, Shrinks, Steady
    <2>2. \A a \in Actions : Open(m, a)' => Open(m, a)
      BY <1>2 DEF Open, Shrinks, Steady
    <2>3. ToldOK(m)
      BY <1>2 DEF PortInv, WorkerOK
    <2>4. ToldOK(m)'
      BY <1>2, <2>2, <2>3 DEF ToldOK, Shrinks, Steady
    <2>. QED
      BY <2>1, <2>4 DEF WorkerOK
  <1>3. ASSUME NEW r \in RunIds, Opening(r[1]) => Opening(r[1])' PROVE MemberOK(r)'
    BY <1>3 DEF PortInv, MemberOK, Dead, Shrinks, Steady
  <1>4. ASSUME NEW s \in Stoppers, stopper'[s] = stopper[s] PROVE StopOK(s)'
    BY <1>4, NoneIsNoRun DEF PortInv, PortTypes, TypeOK, MaybeRun, StopOK, StopAt, Shrinks, Steady
  <1>5. ASSUME NEW m \in withdrawn PROVE WithdrawnOK(m)'
    <2>1. m \in Missions /\ WithdrawnOK(m) /\ port.open[m] \in RunIds \cup {None} /\ <<m, 0>> \in Actions
      BY <1>5, NoneIsNoRun DEF PortInv, PortTypes, TypeOK, MaybeRun
    <2>. QED
      BY <2>1 DEF WithdrawnOK, Shrinks, Steady, OpenStates
  <1>. QED
    BY <1>1, <1>2, <1>3, <1>4, <1>5

-----------------------------------------------------------------------------
(***************************************************************************)
(* The parts of the invariant a step keeps by leaving their neighbourhood   *)
(* alone.                                                                   *)
(***************************************************************************)
\* What the fence has reached stays, while the fence stands still.
LEMMA FenceKept ==
  ASSUME PortInv, Shrinks, Steady, fence' = fence,
         port'.free = port.free, port'.poisoned = port.poisoned,
         port'.fenced => port.fenced \/ port.poisoned, halted' => halted \/ port.poisoned
  PROVE  FenceOK'
  <1>1. \A m \in Missions : port.open[m] # None /\ Dead(port.open[m]) => Dead(port.open[m])'
    <2>1. \A r \in RunIds : Dead(r) => Dead(r)'
      BY DEF Dead, Shrinks
    <2>2. \A m \in Missions : port.open[m] # None => port.open[m] \in RunIds
      BY DEF PortInv, PortTypes, TypeOK, MaybeRun
    <2>. QED
      BY <2>1, <2>2 DEF Steady, Dead
  <1>. QED
    BY <1>1 DEF PortInv, FenceOK, Steady

\* What is said of an ended mission stays, while its threads stand still.
LEMMA EndedKept ==
  ASSUME PortInv, Shrinks, Steady, NEW m \in Missions,
         m \in port'.ended => m \in port.ended,
         worker[m].pc = "finish" => worker'[m].pc = "finish",
         \A s \in Stoppers : StopAt(s, "cancel") => stopper'[s] = stopper[s]
  PROVE  EndedOK(m)'
  <1>1. port.open[m] # None => port.open[m] \in RunIds
    BY DEF PortInv, PortTypes, TypeOK, MaybeRun
  <1>2. EndedOK(m)
    BY DEF PortInv
  <1>. QED
    BY <1>1, <1>2 DEF EndedOK, Dead, StopAt, Shrinks, Steady

\* A cancellation that fails is counted.
LEMMA CancelCounted ==
  ASSUME PortInv, NEW r \in RunIds, CancelRun(r) PROVE CountOK'
  <1>1. IsFiniteSet(missed) /\ Cardinality(missed) <= failures /\ failures \in Nat
    BY DEF PortInv, PortTypes, TypeOK, CountOK
  <1>2. CASE missed' = missed /\ failures' = failures
    BY <1>1, <1>2 DEF CountOK
  <1>3. CASE missed' = missed \cup {r} /\ failures' = failures + 1
    <2>1. /\ IsFiniteSet(missed \cup {r})
          /\ Cardinality(missed \cup {r}) = IF r \in missed THEN Cardinality(missed) ELSE Cardinality(missed) + 1
      BY <1>1, FS_AddElement
    <2>2. Cardinality(missed) \in Nat
      BY <1>1, FS_CardinalityType
    <2>. QED
      BY <1>1, <1>3, <2>1, <2>2 DEF CountOK
  <1>. QED
    BY <1>2, <1>3 DEF CancelRun

PortType ==
  [free : BOOLEAN, poisoned : BOOLEAN, fenced : BOOLEAN, ended : SUBSET Missions,
   open : [Missions -> MaybeRun], waiting : [Missions -> Actions \cup {None}], handed : SUBSET Missions]

RunType == [at : {"none", "live", "cancelled", "finished"}, member : BOOLEAN, detached : BOOLEAN]

ActionType ==
  [at : {"none", "prepared", "executing", "succeeded", "failed", "denied", "expired", "revoked"},
   run : MaybeRun, r2 : BOOLEAN, late : 0 .. 2]

BrokerTypes ==
  /\ halted \in BOOLEAN /\ faults \in 0 .. MaxFaults
  /\ run \in [RunIds -> RunType] /\ action \in [Actions -> ActionType]

\* Cancelling runs keeps the broker's types.
LEMMA CancelTypes ==
  ASSUME PortTypes, NEW S, Cancelled(S)
  PROVE  run' \in [RunIds -> RunType] /\ action' \in [Actions -> ActionType]
  <1>1. \A r \in RunIds : [run[r] EXCEPT !.at = "cancelled"] \in RunType /\ run[r] \in RunType
    BY DEF PortTypes, TypeOK, RunType
  <1>2. \A a \in Actions : [action[a] EXCEPT !.at = "revoked"] \in ActionType /\ action[a] \in ActionType
    BY DEF PortTypes, TypeOK, ActionType
  <1>. QED
    BY <1>1, <1>2 DEF Cancelled

\* Recovering the lock keeps the broker's types.
LEMMA RecoverTypes == ASSUME PortTypes, Recovers PROVE BrokerTypes'
  <1>1. halted \in BOOLEAN /\ faults \in 0 .. MaxFaults
    BY DEF PortTypes, TypeOK
  <1>2. faults' \in 0 .. MaxFaults
    BY <1>1 DEF Recovers, Works, Fails
  <1>3. halted' \in BOOLEAN
    BY <1>1 DEF Recovers, Halted
  <1>4. CASE Halted
    BY <1>2, <1>3, <1>4, CancelTypes DEF Halted, BrokerTypes
  <1>5. CASE UNCHANGED <<run, action>>
    BY <1>2, <1>3, <1>5 DEF PortTypes, TypeOK, BrokerTypes, RunType, ActionType
  <1>. QED
    BY <1>4, <1>5 DEF Recovers

\* A cancellation, made or refused, keeps the broker's types.
LEMMA CancelRunTypes == ASSUME PortTypes, NEW r, CancelRun(r) PROVE BrokerTypes' /\ failures' \in Nat
  <1>1. halted \in BOOLEAN /\ faults \in 0 .. MaxFaults /\ failures \in Nat
    BY DEF PortTypes, TypeOK
  <1>2. faults' \in 0 .. MaxFaults /\ failures' \in Nat /\ halted' \in BOOLEAN
    BY <1>1 DEF CancelRun, Works, Fails
  <1>4. CASE Cancelled({r})
    BY <1>2, <1>4, CancelTypes DEF BrokerTypes
  <1>5. CASE UNCHANGED <<run, action>>
    BY <1>2, <1>5 DEF PortTypes, TypeOK, BrokerTypes, RunType, ActionType
  <1>. QED
    BY <1>4, <1>5 DEF CancelRun

\* The lock taken: nothing of the port changes but its fence, where it was poisoned.
LEMMA LockedIs ==
  ASSUME PortTypes
  PROVE  /\ Locked \in PortType
         /\ Locked.open = port.open /\ Locked.waiting = port.waiting /\ Locked.handed = port.handed
         /\ Locked.ended = port.ended /\ Locked.free = port.free /\ Locked.poisoned = port.poisoned
         /\ Locked.fenced <=> port.fenced \/ port.poisoned
  BY DEF PortTypes, TypeOK, Locked, PortType

\* A worker's step that shrinks and is steady keeps the invariant, where it
\* keeps what its own place says.
LEMMA WorkerStep ==
  ASSUME PortInv, NEW m \in Missions, PortTypes', Shrinks, Steady, FenceOK', CountOK',
         stopper' = stopper, withdrawn' = withdrawn,
         \A n \in Missions \ {m} :
            worker'[n] = worker[n] /\ port'.waiting[n] = port.waiting[n] /\ (n \in port'.ended => n \in port.ended),
         WorkerOK(m)', EndedOK(m)',
         Opening(m) => Opening(m)' \/ Dead(<<m, 1>>)'
  PROVE  PortInv'
  <1>1. \A a \in Actions : ActionOK(a)'
    BY ShrinkKeeps
  <1>2. \A n \in Missions : WorkerOK(n)'
    BY ShrinkKeeps
  <1>3. \A n \in Missions : EndedOK(n)'
    BY EndedKept
  <1>4. ASSUME NEW r \in RunIds PROVE MemberOK(r)'
    <2>1. r[1] \in Missions /\ (r[2] = 1 => r = <<r[1], 1>>)
      BY NoneIsNoRun
    <2>2. CASE Opening(r[1]) => Opening(r[1])'
      BY <1>4, <2>2, ShrinkKeeps
    <2>3. CASE r[1] = m /\ Opening(m) /\ ~Opening(m)'
      BY <1>4, <2>1, <2>3 DEF PortInv, MemberOK, Dead, Shrinks, Steady
    <2>. QED
      BY <2>1, <2>2, <2>3 DEF Opening
  <1>5. \A s \in Stoppers : StopOK(s)'
    BY ShrinkKeeps
  <1>6. \A n \in withdrawn' : WithdrawnOK(n)'
    BY ShrinkKeeps
  <1>. QED
    BY <1>1, <1>2, <1>3, <1>4, <1>5, <1>6 DEF PortInv

-----------------------------------------------------------------------------
WorkerType ==
  [pc : Performing \cup Holding \cup {"idle", "found", "finish_only", "finish_end"},
   run : MaybeRun, action : Actions \cup {None}, told : {"none", "awaiting", "over"}]

\* A worker whose mission is over, or that was told nothing new, knows nothing
\* that a step could make untrue.
LEMMA OverOK ==
  ASSUME PortInv, NEW m \in Missions, worker'[m] = Over(m), port'.open = port.open
  PROVE  WorkerOK(m)'
  <1>1. HoldsOK(m)
    BY DEF PortInv, WorkerOK
  <1>. QED
    BY <1>1 DEF WorkerOK, HoldsOK, ToldOK, Opening, Over, Back

\* What a worker's mission has open does not grow.
LEMMA OpenShrinks ==
  ASSUME PortInv, Shrinks, Steady, NEW m \in Missions
  PROVE  /\ \A a \in Actions : Open(m, a)' => Open(m, a)
         /\ run[<<m, 1>>].at = "none" => run'[<<m, 1>>].at = "none"
         /\ \A a \in Actions : action'[a].run = action[a].run
         /\ HoldsOK(m) /\ ToldOK(m)
         /\ m \in DOMAIN worker /\ worker[m] \in WorkerType
         /\ port'.open[m] = port.open[m] /\ (port.fenced => port'.fenced)
  BY NoneIsNoRun DEF Open, Shrinks, Steady, PortInv, WorkerOK, PortTypes, WorkerType

\* A section under the port's lock by the worker of mission m.
Section(m, w) ==
  /\ Recovers /\ Goes(m, w) /\ UNCHANGED Calls
  /\ w \in WorkerType /\ port' \in PortType
  /\ port'.open = port.open /\ port'.handed = port.handed
  /\ port'.free = port.free /\ port'.poisoned = port.poisoned
  /\ port'.fenced <=> port.fenced \/ port.poisoned
  /\ port.ended \subseteq port'.ended
  /\ \A n \in Missions \ {m} : port'.waiting[n] = port.waiting[n] /\ (n \in port'.ended => n \in port.ended)

\* A section shrinks, is steady and moves one worker.
LEMMA SectionFacts ==
  ASSUME PortInv, NEW m \in Missions, NEW w, Section(m, w)
  PROVE  Shrinks /\ Steady /\ worker'[m] = w /\ (\A n \in Missions \ {m} : worker'[n] = worker[n])
  <1>1. PortTypes /\ missed' = missed
    BY DEF PortInv, Section, Calls
  <1>2. Shrinks
    BY <1>1, RecoverShrinks DEF Section
  <1>. QED
    BY <1>1, <1>2 DEF Steady, Section, Goes, PortTypes

\* A section keeps the invariant, where it keeps what its own place says.
LEMMA SectionStep ==
  ASSUME PortInv, NEW m \in Missions, NEW w, Section(m, w), WorkerOK(m)', EndedOK(m)',
         Opening(m) => Opening(m)' \/ Dead(<<m, 1>>)'
  PROVE  PortInv'
  <1>1. PortTypes /\ CountOK /\ FenceOK
    BY DEF PortInv
  <1>2. BrokerTypes'
    BY <1>1, RecoverTypes DEF Section
  <1>3. worker' \in [Missions -> WorkerType]
    BY <1>1 DEF Section, Goes, PortTypes, WorkerType
  <1>4. PortTypes'
    BY <1>1, <1>2, <1>3 DEF PortTypes, TypeOK, BrokerTypes, Section, Calls, PortType, WorkerType, RunType, ActionType
  <1>5. CountOK'
    BY <1>1 DEF CountOK, Section, Calls
  <1>6. halted' => halted \/ port.poisoned
    BY DEF Section, Recovers
  <1>7. Shrinks /\ Steady
    BY SectionFacts
  <1>8. FenceOK'
    BY <1>6, <1>7, FenceKept DEF Section, Calls
  <1>9. \A n \in Missions \ {m} : worker'[n] = worker[n]
    BY SectionFacts
  <1>. QED
    BY <1>4, <1>5, <1>7, <1>8, <1>9, WorkerStep DEF Section, Calls

\* One that only looks, by a worker that holds no unregistered run.
LEMMA LookStep ==
  ASSUME PortInv, NEW m \in Missions, Looks, UNCHANGED Calls, NEW w \in WorkerType, Goes(m, w),
         ~Opening(m), worker[m].pc # "finish",
         Section(m, w) => WorkerOK(m)'
  PROVE  PortInv'
  <1>1. Section(m, w)
    <2>1. PortTypes
      BY DEF PortInv
    <2>. QED
      BY <2>1, LockedIs DEF Section, Looks
  <1>2. EndedOK(m)'
    <2>1. Shrinks /\ Steady /\ port'.ended = port.ended
      BY <1>1, SectionFacts, LockedIs DEF PortInv, Looks
    <2>. QED
      BY <1>1, <2>1, EndedKept DEF Section, Calls
  <1>. QED
    BY <1>1, <1>2, SectionStep

-----------------------------------------------------------------------------
(***************************************************************************)
(* perform.                                                                 *)
(***************************************************************************)
\* perform begins: the worker carries the effect it was given.
LEMMA PerformKeeps == ASSUME PortInv, NEW m \in Missions, Perform(m) PROVE PortInv'
  <1>1. PICK e \in 1 .. LastEffect : Goes(m, [To(m, "enter") EXCEPT !.action = <<m, e>>])
    BY DEF Perform
  <1>2. PortTypes /\ worker[m] \in WorkerType /\ HoldsOK(m) /\ ToldOK(m)
    BY DEF PortInv, PortTypes, WorkerType, WorkerOK
  <1>3. <<m, e>> \in Actions /\ <<m, e>>[1] = m /\ <<m, e>>[2] # 0
    BY DEF Actions
  <1>4. worker' \in [Missions -> WorkerType] /\ (\A n \in Missions \ {m} : worker'[n] = worker[n])
    BY <1>1, <1>2, <1>3 DEF Goes, To, PortTypes, WorkerType
  <1>5. worker'[m].pc = "enter" /\ worker'[m].told = "none" /\ worker'[m].action = <<m, e>>
    BY <1>1, <1>2 DEF Goes, To, PortTypes, WorkerType, Perform
  <1>6. Shrinks /\ Steady
    BY UnchangedShrinks DEF Perform, Calls, Steady
  <1>7. PortTypes'
    BY <1>2, <1>4 DEF PortTypes, TypeOK, Perform, Calls, WorkerType
  <1>8. FenceOK' /\ CountOK'
    BY DEF PortInv, FenceOK, CountOK, Perform, Calls, Dead
  <1>9. WorkerOK(m)'
    <2>1. HoldsOK(m)'
      BY <1>2, <1>5 DEF HoldsOK, Opening, Perform, At
    <2>2. ToldOK(m)'
      BY <1>2, <1>3, <1>5 DEF ToldOK, Open, Perform, At
    <2>. QED
      BY <2>1, <2>2 DEF WorkerOK
  <1>10. EndedOK(m)' /\ ~Opening(m)
    BY <1>6, EndedKept DEF Perform, Calls, At, Opening
  <1>. QED
    BY <1>4, <1>6, <1>7, <1>8, <1>9, <1>10, WorkerStep DEF Perform, Calls

\* A worker goes to another place and keeps what it carries.
LEMMA ToFields ==
  ASSUME PortInv, NEW m \in Missions, NEW pc
  PROVE  /\ To(m, pc).pc = pc /\ To(m, pc).run = worker[m].run
         /\ To(m, pc).action = worker[m].action /\ To(m, pc).told = worker[m].told
         /\ pc \in Performing \cup Holding \cup {"idle", "found", "finish_only", "finish_end"} =>
              To(m, pc) \in WorkerType
         /\ Over(m) \in WorkerType
  <1>1. worker[m] \in WorkerType
    BY DEF PortInv, PortTypes, WorkerType
  <1>. QED
    BY <1>1 DEF To, WorkerType, Over, Back, MaybeRun

\* enter passed: the worker's place changes, and says no more than the last one.
LEMMA GoesOn ==
  ASSUME PortInv, NEW m \in Missions, NEW w, Section(m, w),
         \/ At(m, "enter") /\ w = To(m, "known")
         \/ At(m, "enter_again") /\ w = To(m, "propose")
         \/ At(m, "idle") /\ worker[m].told = "awaiting" /\ w = To(m, "found")
         \/ At(m, "idle") /\ worker[m].told = "none" /\ w = To(m, "finish_end")
         \/ At(m, "idle") /\ worker[m].told = "none" /\ port'.fenced /\ w = To(m, "finish_only")
         \/ At(m, "known") /\ port.open[m] = None /\ w = To(m, "open"),
         port'.waiting = port.waiting
  PROVE  WorkerOK(m)'
  <1>1. Shrinks /\ Steady /\ worker'[m] = w
    BY SectionFacts
  <1>2. /\ worker'[m].run = worker[m].run /\ worker'[m].action = worker[m].action
        /\ worker'[m].told = worker[m].told
        /\ \/ worker[m].pc = "enter" /\ worker'[m].pc = "known"
           \/ worker[m].pc = "enter_again" /\ worker'[m].pc = "propose"
           \/ worker[m].pc = "idle" /\ worker[m].told = "awaiting" /\ worker'[m].pc = "found"
           \/ worker[m].pc = "idle" /\ worker[m].told = "none" /\ worker'[m].pc = "finish_end"
           \/ worker[m].pc = "idle" /\ worker[m].told = "none" /\ port'.fenced /\ worker'[m].pc = "finish_only"
           \/ worker[m].pc = "known" /\ port.open[m] = None /\ worker'[m].pc = "open"
    BY <1>1, ToFields DEF At
  <1>3. HoldsOK(m)'
    BY <1>1, <1>2, OpenShrinks DEF HoldsOK, Opening
  <1>4. ToldOK(m) /\ (\A a \in Actions : (Open(m, a)' => Open(m, a)) /\ action'[a].run = action[a].run)
    BY <1>1, OpenShrinks
  <1>5. CASE worker[m].told = "none"
    <2>1. ToldOK(m)'
      BY <1>2, <1>4, <1>5 DEF ToldOK
    <2>. QED
      BY <1>3, <2>1 DEF WorkerOK
  <1>6. CASE worker[m].told = "awaiting"
    <2>1. ToldOK(m)'
      BY <1>1, <1>2, <1>4, <1>6 DEF ToldOK, Steady
    <2>. QED
      BY <1>3, <2>1 DEF WorkerOK
  <1>. QED
    BY <1>2, <1>4, <1>5, <1>6 DEF ToldOK

\* enter: the worker goes on, or its mission is over behind a fence.
LEMMA EnterKeeps == ASSUME PortInv, NEW m \in Missions, Enter(m) \/ EnterAgain(m) PROVE PortInv'
  <1>. DEFINE w == IF port'.fenced THEN Over(m) ELSE To(m, IF At(m, "enter") THEN "known" ELSE "propose")
  <1>1. Looks /\ UNCHANGED Calls /\ Goes(m, w) /\ (At(m, "enter") \/ At(m, "enter_again"))
    BY DEF Enter, EnterAgain, At
  <1>2. w \in WorkerType
    BY ToFields
  <1>3. ASSUME Section(m, w) PROVE WorkerOK(m)'
    <2>1. worker'[m] = w /\ Steady /\ port'.waiting = port.waiting
      BY <1>1, <1>3, SectionFacts, LockedIs DEF Looks, PortInv
    <2>2. CASE port'.fenced
      BY <2>1, <2>2, OverOK DEF Steady
    <2>3. CASE ~port'.fenced
      BY <1>1, <1>3, <2>1, <2>3, GoesOn DEF At
    <2>. QED
      BY <2>2, <2>3
  <1>. QED
    BY <1>1, <1>2, <1>3, LookStep DEF At, Opening

\* run_for finds the registered run, or none.
LEMMA KnownKeeps == ASSUME PortInv, NEW m \in Missions, Known(m) PROVE PortInv'
  <1>. DEFINE w == IF m \in port.ended THEN Over(m)
                   ELSE IF port.open[m] # None
                   THEN [To(m, "enter_again") EXCEPT !.run = port.open[m]]
                   ELSE To(m, "open")
  <1>1. Looks /\ UNCHANGED Calls /\ Goes(m, w) /\ At(m, "known")
    BY DEF Known
  <1>2. /\ port.open[m] \in MaybeRun
        /\ To(m, "enter_again") \in WorkerType
    BY ToFields DEF PortInv, PortTypes, TypeOK
  <1>3. w \in WorkerType
    BY <1>2, ToFields DEF WorkerType
  <1>4. ASSUME Section(m, w) PROVE WorkerOK(m)'
    <2>1. worker'[m] = w /\ Shrinks /\ Steady /\ port'.waiting = port.waiting
      BY <1>1, <1>4, SectionFacts, LockedIs DEF Looks, PortInv
    <2>2. CASE m \in port.ended
      BY <2>1, <2>2, OverOK DEF Steady
    <2>3. CASE m \notin port.ended /\ port.open[m] = None
      BY <1>1, <1>4, <2>1, <2>3, GoesOn
    <2>4. CASE m \notin port.ended /\ port.open[m] # None
      <3>1. /\ worker'[m].pc = "enter_again" /\ worker'[m].run = port.open[m]
            /\ worker'[m].action = worker[m].action /\ worker'[m].told = worker[m].told
        BY <1>2, <2>1, <2>4, ToFields DEF WorkerType
      <3>2. HoldsOK(m)' /\ ToldOK(m)'
        BY <1>1, <2>1, <2>4, <3>1, OpenShrinks DEF HoldsOK, ToldOK, Opening, At
      <3>. QED
        BY <3>2 DEF WorkerOK
    <2>. QED
      BY <2>2, <2>3, <2>4
  <1>. QED
    BY <1>1, <1>3, <1>4, LookStep DEF At, Opening

\* run_for registers its run, unless the port was fenced or the mission ended since.
LEMMA RegisterKeeps == ASSUME PortInv, NEW m \in Missions, Register(m) PROVE PortInv'
  <1>1. PortTypes /\ HoldsOK(m) /\ ToldOK(m) /\ FenceOK /\ CountOK
    BY DEF PortInv, WorkerOK
  <1>2. worker[m].pc = "register" /\ worker[m].run = <<m, 1>> /\ port.open[m] = None
    BY <1>1 DEF Register, At, HoldsOK, Opening
  <1>3. CASE ~Registrable(m)
    <2>. DEFINE w == To(m, "undo")
    <2>1. Section(m, w)
      BY <1>1, <1>3, LockedIs, ToFields DEF Section, Register
    <2>2. Shrinks /\ Steady /\ worker'[m] = w /\ port'.ended = port.ended /\ port'.waiting = port.waiting
      BY <1>1, <1>3, <2>1, SectionFacts, LockedIs DEF Register
    <2>3. /\ worker'[m].pc = "undo" /\ worker'[m].run = worker[m].run
          /\ worker'[m].action = worker[m].action /\ worker'[m].told = worker[m].told
      BY <2>2, ToFields
    <2>4. HoldsOK(m)' /\ ToldOK(m)'
      BY <1>2, <2>2, <2>3, OpenShrinks DEF HoldsOK, ToldOK, Opening
    <2>5. EndedOK(m)' /\ Opening(m)'
      BY <1>2, <2>1, <2>2, <2>3, EndedKept DEF Section, Calls, Opening
    <2>. QED
      BY <2>1, <2>4, <2>5, SectionStep DEF WorkerOK
  <1>4. CASE Registrable(m)
    <2>1. /\ port' = [Locked EXCEPT !.open[m] = <<m, 1>>] /\ Goes(m, To(m, "enter_again"))
          /\ ~port.fenced /\ ~port.poisoned /\ m \notin port.ended
      BY <1>1, <1>2, <1>4, LockedIs DEF Register, Registrable
    <2>2. /\ run' = run /\ halted' = halted /\ action' = action /\ faults' = faults
          /\ UNCHANGED Calls
      BY <2>1 DEF Register, Recovers
    <2>3. <<m, 1>> \in MaybeRun
      BY NoneIsNoRun DEF MaybeRun
    <2>4. /\ port' \in PortType /\ port'.waiting = port.waiting /\ port'.handed = port.handed
          /\ port'.ended = port.ended /\ port'.free = port.free /\ port'.poisoned = port.poisoned
          /\ ~port'.fenced
          /\ port'.open[m] = <<m, 1>> /\ \A n \in Missions \ {m} : port'.open[n] = port.open[n]
      BY <1>1, <2>1, <2>3, LockedIs DEF PortType
    <2>5. /\ worker' \in [Missions -> WorkerType] /\ \A n \in Missions \ {m} : worker'[n] = worker[n]
          /\ worker'[m].pc = "enter_again" /\ worker'[m].run = worker[m].run
          /\ worker'[m].action = worker[m].action /\ worker'[m].told = worker[m].told
      BY <1>1, <2>1, ToFields DEF Goes, PortTypes, WorkerType
    <2>6. PortTypes'
      BY <1>1, <2>2, <2>4, <2>5 DEF PortTypes, TypeOK, Calls, PortType, WorkerType
    <2>7. \A a \in Actions : action[a].run # <<m, 1>>
      <3>. SUFFICES ASSUME NEW a \in Actions, action[a].run = <<m, 1>> PROVE FALSE
        OBVIOUS
      <3>1. ActionOK(a) /\ a[1] \in Missions /\ HoldsOK(a[1]) /\ <<m, 1>> # None
        BY NoneIsNoRun DEF PortInv, WorkerOK
      <3>2. a[1] = m
        BY <3>1, NoneIsNoRun DEF ActionOK, HoldsOK
      <3>3. a[2] # 0 /\ action[a].at # "none"
        BY <3>1, NoneIsNoRun DEF ActionOK
      <3>. QED
        BY <1>2, <3>1, <3>2, <3>3 DEF ActionOK
    <2>8. FenceOK' /\ CountOK'
      BY <1>1, <2>1, <2>2, <2>4 DEF FenceOK, CountOK, Calls
    <2>9. ASSUME NEW n \in Missions PROVE WorkerOK(n)'
      <3>1. CASE n # m
        <4>1. HoldsOK(n) /\ ToldOK(n) /\ worker'[n] = worker[n] /\ port'.open[n] = port.open[n]
          BY <2>4, <2>5, <2>9, <3>1 DEF PortInv, WorkerOK
        <4>2. HoldsOK(n)'
          BY <2>1, <2>2, <2>4, <4>1 DEF HoldsOK, Opening
        <4>3. ToldOK(n)'
          BY <2>2, <2>4, <4>1 DEF ToldOK, Open
        <4>. QED
          BY <4>2, <4>3 DEF WorkerOK
      <3>2. HoldsOK(m)'
        <4>1. <<m, 1>> # None
          BY NoneIsNoRun
        <4>. QED
          BY <1>2, <2>4, <2>5, <4>1 DEF HoldsOK, Opening
      <3>3. ToldOK(m)'
        BY <1>1, <1>2, <2>2, <2>4, <2>5, <2>7, NoneIsNoRun DEF ToldOK, Open
      <3>. QED
        BY <3>1, <3>2, <3>3 DEF WorkerOK
    <2>10. ASSUME NEW n \in Missions PROVE EndedOK(n)'
      BY <2>1, <2>2, <2>4, <2>5, <2>10 DEF PortInv, EndedOK, Dead, Calls, StopAt
    <2>11. ASSUME NEW a \in Actions PROVE ActionOK(a)'
      <3>1. ActionOK(a) /\ a[1] \in Missions
        BY <2>11, NoneIsNoRun DEF PortInv
      <3>2. action[a].at # "none" /\ a[2] # 0 => a[1] # m
        BY <1>2, <3>1, NoneIsNoRun DEF ActionOK
      <3>. QED
        BY <2>2, <2>4, <3>1, <3>2 DEF ActionOK
    <2>12. ASSUME NEW r \in RunIds PROVE MemberOK(r)'
      <3>1. MemberOK(r) /\ r[1] \in Missions /\ (r[2] = 1 => r = <<r[1], 1>>)
        BY <2>12, NoneIsNoRun DEF PortInv
      <3>. QED
        BY <1>2, <2>2, <2>4, <2>5, <3>1, <2>12, NoneIsNoRun DEF MemberOK, Dead, Opening, Calls
    <2>13. ASSUME NEW s \in Stoppers PROVE StopOK(s)'
      BY <2>1, <2>2, <2>4, <2>13 DEF PortInv, StopOK, StopAt, Calls
    <2>14. ASSUME NEW n \in withdrawn PROVE WithdrawnOK(n)'
      <3>1. n # m /\ n \in Missions /\ WithdrawnOK(n)
        BY <1>1, <2>1, <2>14 DEF PortInv, WithdrawnOK, PortTypes, TypeOK
      <3>. QED
        BY <2>2, <2>4, <3>1 DEF WithdrawnOK
    <2>. QED
      BY <2>2, <2>6, <2>8, <2>9, <2>10, <2>11, <2>12, <2>13, <2>14 DEF PortInv, Calls
  <1>. QED
    BY <1>3, <1>4

\* approval and finish begin with an enter.
LEMMA PollKeeps == ASSUME PortInv, NEW m \in Missions, Poll(m) \/ Finish(m) PROVE PortInv'
  <1>. DEFINE w == IF worker[m].told = "none"
                   THEN To(m, IF port'.fenced THEN "finish_only" ELSE "finish_end")
                   ELSE IF port'.fenced THEN Over(m) ELSE To(m, "found")
  <1>1. /\ Looks /\ UNCHANGED Calls /\ Goes(m, w) /\ At(m, "idle")
        /\ worker[m].told = "none" \/ worker[m].told = "awaiting"
    BY DEF Poll, Finish
  <1>2. w \in WorkerType
    BY ToFields
  <1>3. ASSUME Section(m, w) PROVE WorkerOK(m)'
    <2>1. worker'[m] = w /\ Steady /\ port'.waiting = port.waiting
      BY <1>1, <1>3, SectionFacts, LockedIs DEF Looks, PortInv
    <2>2. CASE w = Over(m)
      BY <2>1, <2>2, OverOK DEF Steady
    <2>3. CASE w # Over(m)
      BY <1>1, <1>3, <2>1, <2>3, GoesOn
    <2>. QED
      BY <2>2, <2>3
  <1>. QED
    BY <1>1, <1>2, <1>3, LookStep DEF At, Opening

\* approval finds the waiting action and its run.
LEMMA FoundKeeps == ASSUME PortInv, NEW m \in Missions, Found(m) PROVE PortInv'
  <1>. DEFINE w == IF port.open[m] # None /\ port.waiting[m] # None
                   THEN [To(m, "lookup") EXCEPT !.run = port.open[m], !.action = port.waiting[m]]
                   ELSE Over(m)
  <1>1. Looks /\ UNCHANGED Calls /\ Goes(m, w) /\ At(m, "found")
    BY DEF Found
  <1>2. /\ port.open[m] \in MaybeRun /\ port.waiting[m] \in Actions \cup {None}
        /\ To(m, "lookup") \in WorkerType
    BY ToFields DEF PortInv, PortTypes, TypeOK
  <1>3. w \in WorkerType
    BY <1>2, ToFields DEF WorkerType
  <1>4. ASSUME Section(m, w) PROVE WorkerOK(m)'
    <2>1. worker'[m] = w /\ Shrinks /\ Steady /\ port'.waiting = port.waiting
      BY <1>1, <1>4, SectionFacts, LockedIs DEF Looks, PortInv
    <2>2. CASE ~(port.open[m] # None /\ port.waiting[m] # None)
      BY <2>1, <2>2, OverOK DEF Steady
    <2>3. CASE port.open[m] # None /\ port.waiting[m] # None
      <3>1. /\ worker'[m].pc = "lookup" /\ worker'[m].run = port.open[m]
            /\ worker'[m].action = port.waiting[m] /\ worker'[m].told = worker[m].told
        BY <1>2, <2>1, <2>3, ToFields DEF WorkerType
      <3>2. HoldsOK(m)' /\ ToldOK(m)'
        BY <1>1, <2>1, <2>3, <3>1, OpenShrinks DEF HoldsOK, ToldOK, Opening, At
      <3>. QED
        BY <3>2 DEF WorkerOK
    <2>. QED
      BY <2>2, <2>3
  <1>. QED
    BY <1>1, <1>3, <1>4, LookStep DEF At, Opening

(***************************************************************************)
(* Steps of a worker outside the port's lock.                               *)
(***************************************************************************)
Outside(m, w) ==
  /\ Goes(m, w) /\ w \in WorkerType
  /\ UNCHANGED <<port, halted, stopper, fence, withdrawn>>

\* A step outside the lock keeps the invariant, where it keeps what its own place says.
LEMMA OutsideStep ==
  ASSUME PortInv, NEW m \in Missions, NEW w, Outside(m, w), Shrinks, BrokerTypes',
         failures' \in Nat, missed' \subseteq RunIds, CountOK',
         WorkerOK(m)', EndedOK(m)', Opening(m) => Dead(<<m, 1>>)'
  PROVE  PortInv'
  <1>1. PortTypes
    BY DEF PortInv
  <1>2. worker' \in [Missions -> WorkerType] /\ \A n \in Missions \ {m} : worker'[n] = worker[n]
    BY <1>1 DEF Outside, Goes, PortTypes, WorkerType
  <1>3. PortTypes'
    BY <1>1, <1>2 DEF PortTypes, TypeOK, BrokerTypes, Outside, WorkerType, RunType, ActionType
  <1>4. Steady
    BY DEF Steady, Outside
  <1>5. FenceOK'
    BY <1>4, FenceKept DEF Outside
  <1>. QED
    BY <1>2, <1>3, <1>4, <1>5, WorkerStep DEF Outside

\* A cancelled run is dead.
LEMMA CancelledIsDead ==
  ASSUME PortTypes, NEW r \in RunIds, CancelRun(r)
  PROVE  Dead(r)' /\ (failures' = failures => run'[r].at # "live")
  <1>1. run[r] \in RunType /\ failures \in Nat
    BY DEF PortTypes, TypeOK, RunType
  <1>2. CASE Cancelled({r})
    BY <1>1, <1>2 DEF Cancelled, Dead, RunType
  <1>3. CASE missed' = missed \cup {r} /\ failures' = failures + 1
    BY <1>1, <1>3 DEF Dead
  <1>. QED
    BY <1>2, <1>3 DEF CancelRun

\* A run that could not be registered is cancelled, or counted.
LEMMA UndoKeeps == ASSUME PortInv, NEW m \in Missions, Undo(m) PROVE PortInv'
  <1>1. PortTypes /\ HoldsOK(m) /\ worker[m].run = <<m, 1>> /\ <<m, 1>> \in RunIds /\ CancelRun(<<m, 1>>)
    BY NoneIsNoRun DEF PortInv, WorkerOK, HoldsOK, Opening, Undo, At
  <1>2. Outside(m, Over(m))
    BY ToFields DEF Undo, Outside, CancelRun
  <1>3. Shrinks /\ BrokerTypes' /\ failures' \in Nat /\ CountOK'
    BY <1>1, CancelRunShrinks, CancelRunTypes, CancelCounted
  <1>4. missed' \subseteq RunIds
    BY <1>1 DEF CancelRun, PortTypes, TypeOK
  <1>5. Dead(<<m, 1>>)'
    BY <1>1, CancelledIsDead
  <1>6. worker'[m] = Over(m) /\ Steady /\ port'.open = port.open
    BY <1>1, <1>2 DEF Outside, Goes, PortTypes, Steady
  <1>7. WorkerOK(m)'
    BY <1>6, OverOK
  <1>8. EndedOK(m)'
    BY <1>2, <1>3, <1>6, EndedKept DEF Outside, Undo, At
  <1>. QED
    BY <1>2, <1>3, <1>4, <1>5, <1>7, <1>8, OutsideStep

\* One that leaves the counts alone, by a worker that holds no unregistered run.
LEMMA QuietStep ==
  ASSUME PortInv, NEW m \in Missions, NEW w \in WorkerType, Goes(m, w), Shrinks, BrokerTypes',
         UNCHANGED <<port, halted, Calls>>, ~Opening(m),
         worker'[m] = w => WorkerOK(m)' /\ EndedOK(m)'
  PROVE  PortInv'
  <1>1. Outside(m, w)
    BY DEF Outside, Calls
  <1>2. worker'[m] = w
    BY DEF PortInv, PortTypes, Goes
  <1>3. failures' \in Nat /\ missed' \subseteq RunIds /\ CountOK'
    BY DEF PortInv, PortTypes, TypeOK, CountOK, Calls
  <1>. QED
    BY <1>1, <1>2, <1>3, OutsideStep

\* What the broker has, left as it is or with one action moved on, shrinks.
LEMMA MoveShrinks ==
  ASSUME PortTypes, run' = run, missed' = missed, faults' = faults, halted' = halted,
         NEW a \in Actions, action[a].at \in OpenStates,
         NEW to \in {"executing", "succeeded", "failed", "denied", "expired", "revoked"},
         action' = [action EXCEPT ![a].at = to]
  PROVE  Shrinks /\ BrokerTypes'
  <1>1. action[a] \in ActionType
    BY DEF PortTypes, TypeOK, ActionType
  <1>2. [action[a] EXCEPT !.at = to] \in ActionType
    BY <1>1 DEF ActionType
  <1>3. action' \in [Actions -> ActionType]
    BY <1>2 DEF PortTypes, TypeOK, ActionType
  <1>4. \A b \in Actions : action'[b].run = action[b].run /\
           (action'[b].at = action[b].at \/ (b = a /\ action'[b].at = to))
    BY <1>1 DEF PortTypes, TypeOK, ActionType
  <1>5. BrokerTypes'
    BY <1>3 DEF BrokerTypes, PortTypes, TypeOK, RunType
  <1>6. Shrinks
    BY <1>4 DEF Shrinks, OpenStates
  <1>. QED
    BY <1>5, <1>6

\* A broker left alone keeps its types too.
LEMMA StillShrinks ==
  ASSUME PortTypes, UNCHANGED <<run, action, missed, faults, halted>> PROVE Shrinks /\ BrokerTypes'
  BY UnchangedShrinks DEF PortTypes, TypeOK, BrokerTypes, RunType, ActionType

\* The broker executes a prepared action, or refuses.
LEMMA ExecuteKeeps == ASSUME PortInv, NEW m \in Missions, Execute(m) PROVE PortInv'
  <1>1. PortTypes /\ HoldsOK(m) /\ ToldOK(m) /\ worker[m].pc = "execute" /\ worker[m].action \in Actions
    BY DEF PortInv, WorkerOK, ToldOK, Execute, At
  <1>2. UNCHANGED <<port, run, halted, faults, Calls>> /\ Steady /\ missed' = missed /\ ~Opening(m)
    BY <1>1 DEF Execute, Steady, Opening, Calls
  <1>3. CASE action[worker[m].action].at = "prepared"
    <2>1. action' = [action EXCEPT ![worker[m].action].at = "executing"] /\ Goes(m, To(m, "running"))
      BY <1>3 DEF Execute
    <2>2. Shrinks /\ BrokerTypes'
      BY <1>1, <1>2, <1>3, <2>1, MoveShrinks DEF OpenStates
    <2>3. ASSUME worker'[m] = To(m, "running") PROVE WorkerOK(m)' /\ EndedOK(m)'
      <3>1. /\ worker'[m].pc = "running" /\ worker'[m].run = worker[m].run
            /\ worker'[m].action = worker[m].action /\ worker'[m].told = worker[m].told
        BY <2>3, ToFields
      <3>2. HoldsOK(m)'
        BY <1>1, <1>2, <2>2, <3>1, OpenShrinks DEF HoldsOK, Opening
      <3>3. ToldOK(m)'
        BY <1>1, <1>2, <2>2, <3>1, OpenShrinks DEF ToldOK
      <3>. QED
        BY <1>1, <1>2, <2>2, <3>2, <3>3, EndedKept DEF WorkerOK, Calls
    <2>. QED
      BY <1>2, <2>1, <2>2, <2>3, QuietStep, ToFields
  <1>4. CASE action[worker[m].action].at # "prepared"
    <2>1. UNCHANGED action /\ Goes(m, Over(m))
      BY <1>4 DEF Execute
    <2>2. Shrinks /\ BrokerTypes'
      BY <1>1, <1>2, <2>1, StillShrinks
    <2>3. ASSUME worker'[m] = Over(m) PROVE WorkerOK(m)' /\ EndedOK(m)'
      BY <1>1, <1>2, <2>2, <2>3, OverOK, EndedKept DEF Calls
    <2>. QED
      BY <1>2, <2>1, <2>2, <2>3, QuietStep, ToFields
  <1>. QED
    BY <1>3, <1>4

\* The worker is back at the coordinator.
LEMMA BackFields ==
  ASSUME NEW m, NEW told \in {"none", "awaiting", "over"}
  PROVE  /\ Back(m, told) \in WorkerType
         /\ Back(m, told).pc = "idle" /\ Back(m, told).told = told
  BY DEF Back, WorkerType, MaybeRun

\* The execution ended: nothing of the mission is open.
LEMMA RanKeeps == ASSUME PortInv, NEW m \in Missions, Ran(m) PROVE PortInv'
  <1>1. PortTypes /\ HoldsOK(m) /\ ToldOK(m) /\ worker[m].pc = "running" /\ worker[m].action \in Actions
    BY DEF PortInv, WorkerOK, ToldOK, Ran, At
  <1>2. UNCHANGED <<port, run, halted, action, faults, Calls>> /\ Steady /\ missed' = missed /\ ~Opening(m)
    BY <1>1 DEF Ran, Steady, Opening, Calls
  <1>3. Shrinks /\ BrokerTypes'
    BY <1>1, <1>2, StillShrinks
  <1>4. EndedOK(m)'
    BY <1>1, <1>2, <1>3, EndedKept DEF Calls
  <1>5. \A a \in Actions : ~Open(m, a)'
    BY <1>1, <1>2 DEF Ran, ToldOK, Open
  <1>6. CASE Goes(m, Over(m))
    BY <1>2, <1>3, <1>4, <1>6, OverOK, QuietStep, ToFields
  <1>7. CASE Goes(m, Back(m, "none"))
    <2>1. ASSUME worker'[m] = Back(m, "none") PROVE WorkerOK(m)'
      <3>1. worker'[m].pc = "idle" /\ worker'[m].told = "none"
        BY <2>1, BackFields
      <3>. QED
        BY <1>1, <1>2, <1>5, <3>1 DEF WorkerOK, HoldsOK, ToldOK, Opening
    <2>. QED
      BY <1>2, <1>3, <1>4, <1>7, <2>1, BackFields, QuietStep
  <1>. QED
    BY <1>6, <1>7 DEF Ran

\* approval reads what became of the waiting action.
LEMMA LookupKeeps == ASSUME PortInv, NEW m \in Missions, Lookup(m) PROVE PortInv'
  <1>1. /\ PortTypes /\ HoldsOK(m) /\ ToldOK(m) /\ worker[m].pc = "lookup" /\ worker[m].told = "awaiting"
        /\ worker[m].action = port.waiting[m] /\ worker[m] \in WorkerType
    BY DEF PortInv, WorkerOK, ToldOK, Lookup, At, PortTypes, WorkerType
  <1>2. UNCHANGED <<port, run, halted, action, faults, Calls>> /\ Steady /\ missed' = missed /\ ~Opening(m)
    BY <1>1 DEF Lookup, Steady, Opening, Calls
  <1>3. Shrinks /\ BrokerTypes'
    BY <1>1, <1>2, StillShrinks
  <1>4. EndedOK(m)'
    BY <1>1, <1>2, <1>3, EndedKept DEF Calls
  <1>5. CASE Goes(m, Over(m))
    BY <1>2, <1>3, <1>4, <1>5, OverOK, QuietStep, ToFields
  <1>6. CASE Goes(m, Back(m, "awaiting"))
    <2>1. ASSUME worker'[m] = Back(m, "awaiting") PROVE WorkerOK(m)'
      <3>1. worker'[m].pc = "idle" /\ worker'[m].told = "awaiting"
        BY <2>1, BackFields
      <3>. QED
        BY <1>1, <1>2, <3>1 DEF WorkerOK, HoldsOK, ToldOK, Opening, Open
    <2>. QED
      BY <1>2, <1>3, <1>4, <1>6, <2>1, BackFields, QuietStep
  <1>7. CASE \E told \in {"none", "over"} :
               /\ Goes(m, [To(m, "drop") EXCEPT !.told = told])
               /\ told = "none" => action[worker[m].action].at = "succeeded"
    <2>1. PICK told \in {"none", "over"} :
               /\ Goes(m, [To(m, "drop") EXCEPT !.told = told])
               /\ told = "none" => action[worker[m].action].at = "succeeded"
      BY <1>7
    <2>. DEFINE w == [To(m, "drop") EXCEPT !.told = told]
    <2>2. w \in WorkerType /\ w.pc = "drop" /\ w.told = told
      BY <1>1 DEF To, WorkerType
    <2>3. ASSUME worker'[m] = w PROVE WorkerOK(m)'
      <3>1. worker'[m].pc = "drop" /\ worker'[m].told = told
        BY <2>2, <2>3
      <3>2. HoldsOK(m)'
        BY <1>1, <1>2, <3>1 DEF HoldsOK, Opening
      <3>3. told = "none" => \A a \in Actions : ~Open(m, a)'
        BY <1>1, <1>2, <2>1 DEF ToldOK, Open, OpenStates
      <3>4. ToldOK(m)'
        BY <3>1, <3>3 DEF ToldOK
      <3>. QED
        BY <3>2, <3>4 DEF WorkerOK
    <2>. HIDE DEF w
    <2>. QED
      BY <1>2, <1>3, <1>4, <2>1, <2>2, <2>3, QuietStep DEF w
  <1>. QED
    <2>. DEFINE a == worker[m].action
                known == run[action[a].run].member /\ action[a].run = worker[m].run
                status == IF known THEN StatusOf(a) ELSE "unknown"
    <2>1. Goes(m, CASE status = "unknown" -> Over(m)
                     [] status = "waiting" -> Back(m, "awaiting")
                     [] status = "approved" -> [To(m, "drop") EXCEPT !.told = "none"]
                     [] OTHER -> [To(m, "drop") EXCEPT !.told = "over"])
      BY DEF Lookup
    <2>2. status = "approved" => action[a].at = "succeeded"
      BY DEF StatusOf, OpenStates
    <2>. HIDE DEF status
    <2>3. CASE status = "unknown"
      BY <1>5, <2>1, <2>3
    <2>4. CASE status = "waiting"
      BY <1>6, <2>1, <2>4
    <2>5. CASE status = "approved"
      BY <1>7, <2>1, <2>2, <2>5
    <2>6. CASE status \notin {"unknown", "waiting", "approved"}
      BY <1>7, <2>1, <2>6
    <2>. QED
      BY <2>3, <2>4, <2>5, <2>6

\* The waiting action is kept, or dropped once its wait is over.
LEMMA WaitingKeeps == ASSUME PortInv, NEW m \in Missions, Insert(m) \/ Drop(m) PROVE PortInv'
  <1>. DEFINE told == IF At(m, "insert") THEN "awaiting" ELSE worker[m].told
              what == IF At(m, "insert") THEN worker[m].action ELSE None
              w == Back(m, told)
  <1>1. /\ Recovers /\ port' = [Locked EXCEPT !.waiting[m] = what] /\ Goes(m, w) /\ UNCHANGED Calls
        /\ worker[m].pc = "insert" \/ (worker[m].pc = "drop")
    BY DEF Insert, Drop, At
  <1>2. PortTypes /\ HoldsOK(m) /\ ToldOK(m) /\ worker[m] \in WorkerType
    BY DEF PortInv, WorkerOK, PortTypes, WorkerType
  <1>3. told \in {"none", "awaiting", "over"} /\ what \in Actions \cup {None}
    BY <1>2 DEF WorkerType
  <1>4. /\ port' \in PortType /\ port'.open = port.open /\ port'.handed = port.handed
        /\ port'.free = port.free /\ port'.poisoned = port.poisoned
        /\ port'.fenced <=> port.fenced \/ port.poisoned
        /\ port'.ended = port.ended
        /\ port'.waiting[m] = what /\ \A n \in Missions \ {m} : port'.waiting[n] = port.waiting[n]
    BY <1>1, <1>2, <1>3, LockedIs DEF PortType
  <1>5. Section(m, w)
    BY <1>1, <1>3, <1>4, BackFields DEF Section
  <1>6. Shrinks /\ Steady /\ worker'[m].pc = "idle" /\ worker'[m].told = told
    BY <1>3, <1>5, SectionFacts, BackFields
  <1>7. HoldsOK(m)'
    BY <1>1, <1>2, <1>6, OpenShrinks DEF HoldsOK, Opening, At
  <1>8. CASE worker[m].pc = "insert"
    <2>1. ToldOK(m)'
      BY <1>2, <1>4, <1>6, <1>8, OpenShrinks DEF ToldOK, HoldsOK, At
    <2>. QED
      BY <1>1, <1>4, <1>5, <1>6, <1>7, <1>8, <2>1, SectionStep, EndedKept DEF WorkerOK, Opening, Calls
  <1>9. CASE worker[m].pc = "drop"
    <2>1. ToldOK(m)'
      BY <1>2, <1>4, <1>6, <1>9, OpenShrinks DEF ToldOK, At
    <2>. QED
      BY <1>1, <1>4, <1>5, <1>6, <1>7, <1>9, <2>1, SectionStep, EndedKept DEF WorkerOK, Opening, Calls
  <1>. QED
    BY <1>1, <1>8, <1>9

\* finish marks the mission ended and goes on to its run.
LEMMA FinishEndKeeps == ASSUME PortInv, NEW m \in Missions, FinishEnd(m) PROVE PortInv'
  <1>. DEFINE w == IF At(m, "finish_end") /\ port.open[m] # None
                   THEN [To(m, "finish") EXCEPT !.run = port.open[m]] ELSE Over(m)
  <1>1. /\ Recovers /\ port' = [Locked EXCEPT !.ended = @ \cup {m}] /\ Goes(m, w) /\ UNCHANGED Calls
        /\ worker[m].pc \in {"finish_only", "finish_end"}
    BY DEF FinishEnd
  <1>2. /\ PortTypes /\ HoldsOK(m) /\ ToldOK(m) /\ EndedOK(m) /\ worker[m] \in WorkerType
        /\ port.open[m] \in MaybeRun
    BY DEF PortInv, WorkerOK, PortTypes, WorkerType, TypeOK
  <1>3. /\ port' \in PortType /\ port'.open = port.open /\ port'.handed = port.handed
        /\ port'.free = port.free /\ port'.poisoned = port.poisoned
        /\ port'.fenced <=> port.fenced \/ port.poisoned
        /\ port'.ended = port.ended \cup {m} /\ port'.waiting = port.waiting
    BY <1>1, <1>2, LockedIs DEF PortType
  <1>4. w \in WorkerType
    BY <1>2, ToFields DEF WorkerType, To
  <1>5. Section(m, w)
    BY <1>1, <1>3, <1>4 DEF Section
  <1>6. Shrinks /\ Steady /\ worker'[m] = w
    BY <1>5, SectionFacts
  <1>7. CASE worker[m].pc = "finish_end" /\ port.open[m] # None
    <2>1. /\ worker'[m].pc = "finish" /\ worker'[m].run = port.open[m] /\ worker'[m].told = worker[m].told
      BY <1>2, <1>6, <1>7 DEF At, To, WorkerType
    <2>2. HoldsOK(m)' /\ ToldOK(m)'
      BY <1>2, <1>3, <1>6, <1>7, <2>1, OpenShrinks DEF HoldsOK, ToldOK, Opening
    <2>3. EndedOK(m)'
      BY <2>1 DEF EndedOK
    <2>. QED
      BY <1>5, <1>7, <2>2, <2>3, SectionStep DEF WorkerOK, Opening
  <1>8. CASE ~(worker[m].pc = "finish_end" /\ port.open[m] # None)
    <2>1. WorkerOK(m)'
      BY <1>3, <1>6, <1>8, OverOK DEF At
    <2>2. port'.fenced \/ port'.open[m] = None
      BY <1>1, <1>2, <1>3, <1>8 DEF HoldsOK
    <2>3. EndedOK(m)'
      BY <2>2 DEF EndedOK
    <2>. QED
      BY <1>1, <1>5, <2>1, <2>3, SectionStep DEF Opening
  <1>. QED
    BY <1>7, <1>8

\* finish_run: the run finishes when nothing of it waits.
LEMMA FinishRunKeeps == ASSUME PortInv, NEW m \in Missions, FinishRun(m) PROVE PortInv'
  <1>1. /\ PortTypes /\ HoldsOK(m) /\ EndedOK(m) /\ FenceOK /\ worker[m].pc = "finish" /\ worker[m].run = port.open[m]
        /\ port.open[m] \in RunIds /\ Goes(m, Over(m))
    BY DEF PortInv, WorkerOK, HoldsOK, FinishRun, At, PortTypes, TypeOK, MaybeRun
  <1>2. UNCHANGED <<port, halted, action, faults, Calls>> /\ Steady /\ missed' = missed /\ ~Opening(m)
    BY <1>1 DEF FinishRun, Steady, Opening, Calls
  <1>3. CASE halted
    <2>1. run' = run
      BY <1>3 DEF FinishRun
    <2>2. Shrinks /\ BrokerTypes'
      BY <1>1, <1>2, <2>1, StillShrinks
    <2>3. EndedOK(m)'
      BY <1>1, <1>2, <1>3 DEF FenceOK, EndedOK
    <2>. QED
      BY <1>1, <1>2, <2>2, <2>3, OverOK, QuietStep, ToFields
  <1>4. CASE ~halted
    <2>1. run' = [run EXCEPT ![port.open[m]].detached = TRUE]
      BY <1>1, <1>4 DEF FinishRun
    <2>2. run[port.open[m]] \in RunType
      BY <1>1 DEF PortTypes, TypeOK, RunType
    <2>3. /\ run' \in [RunIds -> RunType] /\ run'[port.open[m]].detached
          /\ \A r \in RunIds : run'[r].at = run[r].at /\ run'[r].member = run[r].member
                               /\ (run[r].detached => run'[r].detached)
      BY <1>1, <2>1, <2>2 DEF PortTypes, TypeOK, RunType
    <2>4. Shrinks /\ BrokerTypes'
      BY <1>1, <1>2, <2>3 DEF Shrinks, BrokerTypes, PortTypes, TypeOK, ActionType
    <2>5. EndedOK(m)'
      BY <1>2, <2>3 DEF EndedOK
    <2>. QED
      BY <1>1, <1>2, <2>4, <2>5, OverOK, QuietStep, ToFields
  <1>. QED
    BY <1>3, <1>4

\* A run is opened: nothing is registered on it, and no action is on it.
LEMMA OpenRunKeeps == ASSUME PortInv, NEW m \in Missions, OpenRun(m) PROVE PortInv'
  <1>1. /\ PortTypes /\ HoldsOK(m) /\ ToldOK(m) /\ FenceOK /\ CountOK
        /\ worker[m].pc = "open" /\ port.open[m] = None /\ worker[m] \in WorkerType
        /\ <<m, 1>> \in RunIds /\ run[<<m, 1>>].at = "none"
    BY NoneIsNoRun DEF PortInv, WorkerOK, HoldsOK, ToldOK, OpenRun, At, Opening, PortTypes, WorkerType
  <1>2. UNCHANGED <<port, halted, action, faults, Calls>> /\ ~Opening(m)
    BY <1>1 DEF OpenRun, Opening
  <1>3. CASE halted
    <2>1. Shrinks /\ BrokerTypes' /\ Steady /\ Goes(m, Over(m))
      BY <1>1, <1>2, <1>3, StillShrinks DEF OpenRun, Calls, Steady
    <2>2. EndedOK(m)'
      BY <1>1, <1>2, <2>1, EndedKept DEF Calls
    <2>. QED
      BY <1>2, <2>1, <2>2, OverOK, QuietStep, ToFields
  <1>4. CASE ~halted
    <2>. DEFINE w == [To(m, "register") EXCEPT !.run = <<m, 1>>]
    <2>1. Goes(m, w) /\ run' = [run EXCEPT ![<<m, 1>>] = [@ EXCEPT !.at = "live", !.member = TRUE]]
      BY <1>4 DEF OpenRun
    <2>2. /\ w \in WorkerType /\ w.pc = "register" /\ w.run = <<m, 1>>
          /\ w.action = worker[m].action /\ w.told = worker[m].told
      BY <1>1 DEF To, WorkerType, MaybeRun
    <2>3. /\ worker' \in [Missions -> WorkerType] /\ worker'[m] = w
          /\ \A n \in Missions \ {m} : worker'[n] = worker[n]
      BY <1>1, <2>1, <2>2 DEF Goes, PortTypes, WorkerType
    <2>4. run[<<m, 1>>] \in RunType
      BY <1>1 DEF PortTypes, TypeOK, RunType
    <2>5. /\ run' \in [RunIds -> RunType]
          /\ \A r \in RunIds : r # <<m, 1>> => run'[r] = run[r]
      BY <1>1, <2>1, <2>4 DEF PortTypes, TypeOK, RunType
    <2>6. PortTypes'
      BY <1>1, <1>2, <2>3, <2>5 DEF PortTypes, TypeOK, Calls, WorkerType, RunType
    <2>7. ASSUME NEW n \in Missions PROVE port.open[n] # <<m, 1>> /\ port.open[n] \in RunIds \cup {None}
      <3>1. HoldsOK(n)
        BY <2>7 DEF PortInv, WorkerOK
      <3>2. <<m, 1>> # None /\ <<m, 1>> # <<n, 0>> /\ (<<m, 1>> = <<n, 1>> => m = n)
        BY <2>7, NoneIsNoRun
      <3>3. port.open[n] \in RunIds \cup {None}
        BY <1>1, <2>7 DEF PortTypes, TypeOK, MaybeRun
      <3>. QED
        BY <1>1, <3>1, <3>2, <3>3 DEF HoldsOK
    <2>8. ASSUME NEW r \in RunIds, r # <<m, 1>> PROVE Dead(r)' <=> Dead(r)
      BY <1>2, <2>5, <2>8 DEF Dead, Calls
    <2>9. FenceOK' /\ CountOK'
      BY <1>1, <1>2, <2>7, <2>8 DEF FenceOK, CountOK, Calls
    <2>10. ASSUME NEW n \in Missions PROVE WorkerOK(n)'
      <3>1. CASE n # m
        <4>1. HoldsOK(n) /\ ToldOK(n) /\ worker'[n] = worker[n] /\ run'[<<n, 1>>] = run[<<n, 1>>]
          BY <2>3, <2>5, <2>10, <3>1, NoneIsNoRun DEF PortInv, WorkerOK
        <4>2. HoldsOK(n)'
          BY <1>2, <4>1 DEF HoldsOK, Opening
        <4>3. ToldOK(n)'
          BY <1>2, <4>1 DEF ToldOK, Open
        <4>. QED
          BY <4>2, <4>3 DEF WorkerOK
      <3>2. /\ worker'[m].pc = "register" /\ worker'[m].run = <<m, 1>>
            /\ worker'[m].action = worker[m].action /\ worker'[m].told = worker[m].told
        BY <2>2, <2>3
      <3>3. HoldsOK(m)'
        BY <1>1, <1>2, <3>2 DEF HoldsOK, Opening
      <3>4. ToldOK(m)'
        BY <1>1, <1>2, <3>2 DEF ToldOK, Open
      <3>. QED
        BY <3>1, <3>3, <3>4 DEF WorkerOK
    <2>11. ASSUME NEW n \in Missions PROVE EndedOK(n)'
      <3>1. EndedOK(n) /\ (worker[n].pc = "finish" => worker'[n].pc = "finish")
        BY <1>1, <2>3, <2>11 DEF PortInv
      <3>. QED
        BY <1>2, <2>5, <2>7, <2>8, <2>11, <3>1 DEF EndedOK, Calls, StopAt
    <2>12. ASSUME NEW a \in Actions PROVE ActionOK(a)'
      <3>1. ActionOK(a) /\ action[a].run # <<m, 1>> /\ action[a].run \in RunIds \cup {None}
        <4>1. ActionOK(a) /\ <<m, 1>> # None /\ action[a].run \in RunIds \cup {None}
          BY <1>1, <2>12, NoneIsNoRun DEF PortInv, PortTypes, TypeOK, MaybeRun
        <4>. QED
          BY <1>1, <4>1 DEF ActionOK
      <3>. QED
        BY <1>2, <2>5, <3>1 DEF ActionOK
    <2>13. ASSUME NEW r \in RunIds PROVE MemberOK(r)'
      <3>1. CASE r = <<m, 1>>
        BY <2>2, <2>3, <3>1 DEF MemberOK, Opening
      <3>2. CASE r # <<m, 1>>
        <4>1. MemberOK(r) /\ r[1] \in Missions /\ (Opening(r[1]) => Opening(r[1])')
          BY <1>2, <2>3, <2>13, NoneIsNoRun DEF PortInv, Opening
        <4>. QED
          BY <1>2, <2>5, <2>8, <2>13, <3>2, <4>1 DEF MemberOK
      <3>. QED
        BY <3>1, <3>2
    <2>14. ASSUME NEW s \in Stoppers PROVE StopOK(s)'
      <3>1. StopOK(s) /\ stopper[s].run # <<m, 1>> /\ stopper[s].run \in RunIds \cup {None}
        BY <1>1, <2>7, <2>14, NoneIsNoRun DEF PortInv, StopOK, StopAt, PortTypes, MaybeRun
      <3>. QED
        BY <1>2, <2>5, <3>1 DEF StopOK, StopAt, Calls
    <2>15. ASSUME NEW n \in withdrawn PROVE WithdrawnOK(n)'
      BY <1>1, <1>2, <2>5, <2>7, <2>15 DEF PortInv, WithdrawnOK, PortTypes, TypeOK
    <2>. QED
      BY <1>2, <2>6, <2>9, <2>10, <2>11, <2>12, <2>13, <2>14, <2>15 DEF PortInv, Calls
  <1>. QED
    BY <1>3, <1>4

\* An action is prepared: on the registered run, live, of a mission not withdrawn.
LEMMA ProposeKeeps == ASSUME PortInv, NEW m \in Missions, Propose(m) PROVE PortInv'
  <1>1. /\ PortTypes /\ HoldsOK(m) /\ ToldOK(m) /\ FenceOK /\ CountOK
        /\ worker[m].pc = "propose" /\ worker[m].run = port.open[m] /\ port.open[m] \in RunIds
        /\ worker[m].action \in Actions /\ worker[m].action[1] = m /\ worker[m].action[2] # 0
        /\ worker[m].told = "none"
    <2>1. PortTypes /\ HoldsOK(m) /\ ToldOK(m) /\ FenceOK /\ CountOK /\ worker[m].pc = "propose"
      BY DEF PortInv, WorkerOK, Propose, At
    <2>2. port.open[m] \in RunIds \cup {None}
      BY <2>1 DEF PortTypes, TypeOK, MaybeRun
    <2>3. worker[m].run = port.open[m] /\ port.open[m] # None
      BY <2>1 DEF HoldsOK
    <2>. QED
      BY <2>1, <2>2, <2>3 DEF ToldOK
  <1>2. UNCHANGED <<port, run, halted, faults, Calls>> /\ ~Opening(m)
    BY <1>1 DEF Propose, Opening
  <1>3. CASE UNCHANGED action /\ Goes(m, Over(m))
    <2>1. Shrinks /\ BrokerTypes' /\ Steady
      BY <1>1, <1>2, <1>3, StillShrinks DEF Calls, Steady
    <2>2. EndedOK(m)'
      BY <1>1, <1>2, <2>1, EndedKept DEF Calls
    <2>. QED
      BY <1>2, <1>3, <2>1, <2>2, OverOK, QuietStep, ToFields
  <1>4. ASSUME run[worker[m].run].at = "live", NEW r2 \in BOOLEAN, NEW pc \in {"insert", "execute"},
               action' = [action EXCEPT ![worker[m].action] =
                               [@ EXCEPT !.at = "prepared", !.run = worker[m].run, !.r2 = r2]],
               Goes(m, To(m, pc))
        PROVE PortInv'
    <2>. DEFINE mine == worker[m].action
    <2>1. action[mine] \in ActionType
      BY <1>1 DEF PortTypes, TypeOK, ActionType
    <2>2. [action[mine] EXCEPT !.at = "prepared", !.run = worker[m].run, !.r2 = r2] \in ActionType
      BY <1>1, <2>1 DEF ActionType, MaybeRun
    <2>3. /\ action' \in [Actions -> ActionType]
          /\ action'[mine].at = "prepared" /\ action'[mine].run = port.open[m]
          /\ \A a \in Actions : a # mine => action'[a] = action[a]
      BY <1>1, <1>4, <2>1, <2>2 DEF PortTypes, TypeOK, ActionType
    <2>4. /\ worker' \in [Missions -> WorkerType] /\ worker'[m] = To(m, pc)
          /\ \A n \in Missions \ {m} : worker'[n] = worker[n]
      BY <1>1, <1>4, ToFields DEF Goes, PortTypes, WorkerType
    <2>5. /\ worker'[m].pc = pc /\ worker'[m].run = worker[m].run
          /\ worker'[m].action = worker[m].action /\ worker'[m].told = worker[m].told
      BY <2>4, ToFields
    <2>6. PortTypes'
      BY <1>1, <1>2, <2>3, <2>4 DEF PortTypes, TypeOK, Calls, WorkerType, ActionType
    <2>7. FenceOK' /\ CountOK'
      BY <1>1, <1>2 DEF FenceOK, CountOK, Calls, Dead
    <2>8. ASSUME NEW n \in Missions PROVE WorkerOK(n)'
      <3>1. CASE n # m
        <4>1. HoldsOK(n) /\ ToldOK(n) /\ worker'[n] = worker[n]
          BY <2>4, <2>8, <3>1 DEF PortInv, WorkerOK
        <4>2. HoldsOK(n)'
          BY <1>2, <4>1 DEF HoldsOK, Opening
        <4>3. \A a \in Actions : a[1] = n => action'[a] = action[a]
          BY <1>1, <2>3, <3>1
        <4>4. ToldOK(n)'
          BY <1>2, <4>1, <4>3 DEF ToldOK, Open
        <4>. QED
          BY <4>2, <4>4 DEF WorkerOK
      <3>2. HoldsOK(m)'
        BY <1>1, <1>2, <2>5, NoneIsNoRun DEF HoldsOK, Opening
      <3>3. \A a \in Actions : Open(m, a)' => a = mine
        BY <1>1, <1>2, <2>3 DEF ToldOK, Open
      <3>4. ToldOK(m)'
        BY <1>1, <1>2, <2>3, <2>5, <3>3 DEF ToldOK
      <3>. QED
        BY <3>1, <3>2, <3>4 DEF WorkerOK
    <2>9. ASSUME NEW n \in Missions PROVE EndedOK(n)'
      <3>1. EndedOK(n) /\ (worker[n].pc = "finish" => worker'[n].pc = "finish")
        BY <1>1, <2>4, <2>9 DEF PortInv
      <3>. QED
        BY <1>2, <2>9, <3>1 DEF EndedOK, Dead, Calls, StopAt
    <2>10. ASSUME NEW a \in Actions PROVE ActionOK(a)'
      <3>1. CASE a # mine
        BY <1>2, <2>3, <2>10, <3>1 DEF PortInv, ActionOK
      <3>2. CASE a = mine
        BY <1>1, <1>2, <1>4, <2>3, <3>2, NoneIsNoRun DEF ActionOK
      <3>. QED
        BY <3>1, <3>2
    <2>11. ASSUME NEW r \in RunIds PROVE MemberOK(r)'
      <3>1. MemberOK(r) /\ r[1] \in Missions /\ (Opening(r[1]) => Opening(r[1])')
        BY <1>2, <2>4, <2>11, NoneIsNoRun DEF PortInv, Opening
      <3>. QED
        BY <1>2, <3>1 DEF MemberOK, Dead, Calls
    <2>12. ASSUME NEW s \in Stoppers PROVE StopOK(s)'
      BY <1>2, <2>12 DEF PortInv, StopOK, StopAt, Calls
    <2>13. ASSUME NEW n \in withdrawn PROVE WithdrawnOK(n)'
      <3>1. WithdrawnOK(n) /\ n \in Missions /\ <<n, 0>> \in Actions /\ <<n, 0>>[2] = 0
        BY <1>1, <2>13, NoneIsNoRun DEF PortInv, PortTypes, TypeOK
      <3>. QED
        BY <1>1, <1>2, <2>3, <3>1 DEF WithdrawnOK
    <2>. QED
      BY <1>2, <2>6, <2>7, <2>8, <2>9, <2>10, <2>11, <2>12, <2>13 DEF PortInv, Calls
  <1>. QED
    BY <1>3, <1>4 DEF Propose

-----------------------------------------------------------------------------
(***************************************************************************)
(* cancel and withdraw.                                                     *)
(***************************************************************************)
StopType ==
  [pc : {"idle", "end", "cancel", "handed"}, call : {"none", "cancel", "withdraw"},
   mission : Missions \cup {None}, entered : BOOLEAN, run : MaybeRun]

\* A stopper's step that shrinks and is steady keeps the invariant, where it
\* keeps what its own place says and what ends.
LEMMA StopStepKeeps ==
  ASSUME PortInv, NEW s \in Stoppers, PortTypes', Shrinks, Steady, FenceOK', CountOK',
         worker' = worker, port'.waiting = port.waiting,
         \A t \in Stoppers \ {s} : stopper'[t] = stopper[t],
         StopOK(s)', \A m \in Missions : EndedOK(m)', \A m \in withdrawn' \ withdrawn : WithdrawnOK(m)'
  PROVE  PortInv'
  <1>1. \A n \in Missions : WorkerOK(n)'
    BY ShrinkKeeps
  <1>2. \A r \in RunIds : MemberOK(r)'
    BY ShrinkKeeps DEF Opening
  <1>3. \A t \in Stoppers : StopOK(t)'
    BY ShrinkKeeps
  <1>4. \A n \in withdrawn' : WithdrawnOK(n)'
    BY ShrinkKeeps
  <1>5. \A a \in Actions : ActionOK(a)'
    BY ShrinkKeeps
  <1>. QED
    BY <1>1, <1>2, <1>3, <1>4, <1>5 DEF PortInv

\* cancel and withdraw begin with an enter.
LEMMA BeginKeeps == ASSUME PortInv, NEW s \in Stoppers, Begin(s) PROVE PortInv'
  <1>1. PICK m \in Missions, call \in {"cancel", "withdraw"} :
          stopper' = [stopper EXCEPT ![s] = [@ EXCEPT !.pc = "end", !.call = call, !.mission = m,
                                                      !.entered = ~port'.fenced]]
    BY DEF Begin
  <1>2. PortTypes /\ CountOK /\ StopOK(s) /\ stopper[s] \in StopType /\ stopper[s].pc = "idle"
    BY DEF PortInv, PortTypes, StopType, Begin, StopAt
  <1>3. /\ Recovers /\ port' = Locked
        /\ UNCHANGED <<failures, worker, fence, withdrawn, missed>>
    BY DEF Begin, Looks
  <1>4. BrokerTypes' /\ Shrinks
    BY <1>2, <1>3, RecoverTypes, RecoverShrinks
  <1>5. /\ port' \in PortType /\ Steady /\ port'.waiting = port.waiting /\ port'.ended = port.ended
        /\ port'.free = port.free /\ port'.poisoned = port.poisoned
        /\ port'.fenced <=> port.fenced \/ port.poisoned
    BY <1>2, <1>3, LockedIs DEF Steady
  <1>6. port'.fenced \in BOOLEAN
    BY <1>5 DEF PortType
  <1>7. /\ stopper' \in [Stoppers -> StopType] /\ \A t \in Stoppers \ {s} : stopper'[t] = stopper[t]
        /\ stopper'[s].pc = "end" /\ stopper'[s].mission = m /\ stopper'[s].run = stopper[s].run
        /\ stopper'[s].entered = ~port'.fenced
    BY <1>1, <1>2, <1>6 DEF PortTypes, StopType
  <1>8. PortTypes'
    BY <1>2, <1>3, <1>4, <1>5, <1>7 DEF PortTypes, TypeOK, BrokerTypes, PortType, StopType, RunType, ActionType
  <1>9. FenceOK'
    <2>1. halted' => halted \/ port.poisoned
      BY <1>3 DEF Recovers
    <2>. QED
      BY <1>3, <1>4, <1>5, <2>1, FenceKept
  <1>10. CountOK'
    BY <1>2, <1>3 DEF CountOK
  <1>11. StopOK(s)'
    BY <1>2, <1>7 DEF StopOK, StopAt
  <1>12. \A n \in Missions : EndedOK(n)'
    BY <1>2, <1>3, <1>4, <1>5, <1>7, EndedKept DEF StopAt
  <1>. QED
    BY <1>3, <1>4, <1>5, <1>7, <1>8, <1>9, <1>10, <1>11, <1>12, StopStepKeeps

\* What a withdrawal that returned Ok has seen: no live run, and of the action
\* handed back for its mission that it does not wait.
LEMMA WithdrawnSound ==
  ASSUME PortInv, NEW m \in Missions, m \in port.ended,
         port.open[m] # None => run[port.open[m]].at # "live",
         m \notin port.handed \/ action[<<m, 0>>].at \notin OpenStates
           \/ action[<<m, 0>>].run = port.open[m]
  PROVE  WithdrawnOK(m)
  <1>1. <<m, 0>> \in Actions /\ ActionOK(<<m, 0>>) /\ <<m, 0>>[1] = m /\ <<m, 0>>[2] = 0
    BY NoneIsNoRun DEF PortInv
  <1>2. action[<<m, 0>>].at = "prepared" => action[<<m, 0>>].run # None
    BY <1>1, NoneIsNoRun DEF ActionOK
  <1>. QED
    BY <1>1, <1>2 DEF WithdrawnOK, ActionOK, OpenStates

\* end: the mission is ended, and its registered run is the one to cancel.
LEMMA EndKeeps == ASSUME PortInv, NEW s \in Stoppers, End(s) PROVE PortInv'
  <1>. DEFINE m == stopper[s].mission
              held == port.open[m]
              entered == stopper[s].entered
  <1>1. /\ PortTypes /\ CountOK /\ StopOK(s) /\ stopper[s] \in StopType /\ stopper[s].pc = "end"
        /\ m \in Missions /\ stopper[s].run = None
    BY DEF PortInv, PortTypes, StopType, End, StopAt, StopOK
  <1>2. /\ Recovers /\ port' = Ends(Locked, m)
        /\ UNCHANGED <<failures, worker, fence, missed>>
    BY DEF End
  <1>3. BrokerTypes' /\ Shrinks
    BY <1>1, <1>2, RecoverTypes, RecoverShrinks
  <1>4. /\ port' \in PortType /\ port'.open = port.open /\ port'.handed = port.handed
        /\ port'.waiting = port.waiting /\ port'.ended = port.ended \cup {m}
        /\ port'.free = port.free /\ port'.poisoned = port.poisoned
        /\ port'.fenced <=> port.fenced \/ port.poisoned
    BY <1>1, <1>2, LockedIs DEF Ends, PortType
  <1>5. Steady
    BY <1>4 DEF Steady
  <1>6. held \in MaybeRun
    BY <1>1 DEF PortTypes, TypeOK
  <1>7. /\ stopper' \in [Stoppers -> StopType] /\ \A t \in Stoppers \ {s} : stopper'[t] = stopper[t]
        /\ \/ /\ entered /\ held # None
              /\ stopper'[s].pc = "cancel" /\ stopper'[s].run = held /\ stopper'[s].mission = m
           \/ /\ held = None \/ ~entered
              /\ stopper'[s].pc = "handed" => entered
              /\ stopper'[s].pc \in {"handed", "idle"} /\ stopper'[s].run = None
              /\ stopper'[s].pc = "handed" => stopper'[s].mission = m
    <2>1. CASE entered /\ held # None
      <3>1. stopper' = [stopper EXCEPT ![s] = [@ EXCEPT !.pc = "cancel", !.run = held]]
        BY <2>1 DEF End
      <3>. QED
        BY <1>1, <1>6, <2>1, <3>1 DEF PortTypes, StopType
    <2>2. CASE ~(entered /\ held # None) /\ StopTo(s, "handed") /\ entered
      BY <1>1, <2>2 DEF PortTypes, StopType, StopTo
    <2>3. CASE ~(entered /\ held # None) /\ StopIdle(s)
      BY <1>1, <2>3 DEF PortTypes, StopType, StopIdle, MaybeRun
    <2>. QED
      BY <2>1, <2>2, <2>3 DEF End
  <1>8. withdrawn' = withdrawn \/ (withdrawn' = withdrawn \cup {m} /\ held = None /\ m \notin port.handed)
    BY DEF End
  <1>9. PortTypes'
    BY <1>1, <1>2, <1>3, <1>4, <1>7, <1>8 DEF PortTypes, TypeOK, BrokerTypes, PortType, StopType, RunType, ActionType
  <1>10. FenceOK'
    <2>1. halted' => halted \/ port.poisoned
      BY <1>2 DEF Recovers
    <2>. QED
      BY <1>2, <1>3, <1>4, <1>5, <2>1, FenceKept
  <1>11. CountOK'
    BY <1>1, <1>2 DEF CountOK
  <1>12. StopOK(s)'
    BY <1>1, <1>4, <1>7 DEF StopOK, StopAt
  <1>13. ASSUME NEW n \in Missions PROVE EndedOK(n)'
    <2>1. CASE n # m
      BY <1>1, <1>2, <1>3, <1>4, <1>5, <1>7, <1>13, <2>1, EndedKept DEF StopAt
    <2>2. CASE n = m /\ entered /\ held # None
      BY <1>4, <1>7, <2>2 DEF EndedOK, StopAt
    <2>3. CASE n = m /\ ~(entered /\ held # None)
      BY <1>1, <1>4, <2>3 DEF EndedOK, StopOK, StopAt
    <2>. QED
      BY <2>1, <2>2, <2>3
  <1>14. ASSUME NEW n \in withdrawn' \ withdrawn PROVE WithdrawnOK(n)'
    <2>1. n = m /\ held = None /\ m \notin port.handed
      BY <1>8, <1>14
    <2>2. <<m, 0>> \in Actions /\ ActionOK(<<m, 0>>) /\ <<m, 0>>[1] = m /\ <<m, 0>>[2] = 0
      BY <1>1, NoneIsNoRun DEF PortInv
    <2>3. action[<<m, 0>>].at = "none"
      BY <2>1, <2>2 DEF ActionOK
    <2>. QED
      BY <1>3, <1>4, <2>1, <2>2, <2>3 DEF WithdrawnOK, Shrinks, OpenStates
  <1>. QED
    BY <1>2, <1>3, <1>4, <1>5, <1>7, <1>9, <1>10, <1>11, <1>12, <1>13, <1>14, StopStepKeeps

\* The registered run is cancelled, or counted.
LEMMA EndCancelKeeps == ASSUME PortInv, NEW s \in Stoppers, EndCancel(s) PROVE PortInv'
  <1>. DEFINE r == stopper[s].run
  <1>1. /\ PortTypes /\ StopOK(s) /\ stopper[s] \in StopType /\ stopper[s].pc = "cancel"
        /\ r \in RunIds /\ stopper[s].mission \in Missions /\ CancelRun(r)
    BY DEF PortInv, PortTypes, StopType, EndCancel, StopAt, StopOK, MaybeRun
  <1>2. UNCHANGED <<port, halted, worker, fence, withdrawn>> /\ Steady
    BY <1>1 DEF EndCancel, CancelRun, Steady
  <1>3. Shrinks /\ BrokerTypes' /\ failures' \in Nat /\ CountOK'
    BY <1>1, CancelRunShrinks, CancelRunTypes, CancelCounted
  <1>4. missed' \subseteq RunIds
    BY <1>1 DEF CancelRun, PortTypes, TypeOK
  <1>5. /\ stopper' \in [Stoppers -> StopType] /\ \A t \in Stoppers \ {s} : stopper'[t] = stopper[t]
        /\ \/ stopper'[s].pc = "idle" /\ stopper'[s].run = None
           \/ /\ stopper'[s].pc = "handed" /\ stopper'[s].run = r /\ failures' = failures
              /\ stopper'[s].mission = stopper[s].mission
    <2>1. CASE StopIdle(s)
      BY <1>1, <2>1 DEF PortTypes, StopType, StopIdle, MaybeRun
    <2>2. CASE StopTo(s, "handed") /\ failures' = failures
      BY <1>1, <2>2 DEF PortTypes, StopType, StopTo
    <2>. QED
      BY <2>1, <2>2 DEF EndCancel
  <1>6. PortTypes'
    BY <1>1, <1>2, <1>3, <1>4, <1>5 DEF PortTypes, TypeOK, BrokerTypes, StopType, RunType, ActionType
  <1>7. \A q \in RunIds : q = r => Dead(q)' /\ (failures' = failures => run'[q].at # "live")
    BY <1>1, CancelledIsDead
  <1>8. FenceOK'
    BY <1>2, <1>3, FenceKept
  <1>9. StopOK(s)'
    BY <1>1, <1>2, <1>5, <1>7 DEF StopOK, StopAt
  <1>10. ASSUME NEW n \in Missions PROVE EndedOK(n)'
    <2>1. CASE port.open[n] = r
      <3>1. port.open[n] \in RunIds /\ port'.open[n] = port.open[n]
        BY <1>1, <1>2, <2>1
      <3>. QED
        BY <1>7, <2>1, <3>1 DEF EndedOK, Dead
    <2>2. CASE port.open[n] # r
      <3>1. EndedOK(n) /\ (port.open[n] # None => port.open[n] \in RunIds)
        BY <1>1, <1>10 DEF PortInv, PortTypes, TypeOK, MaybeRun
      <3>. QED
        BY <1>2, <1>3, <1>5, <2>2, <3>1 DEF EndedOK, StopAt, Dead, Shrinks
    <2>. QED
      BY <2>1, <2>2
  <1>. QED
    BY <1>2, <1>3, <1>5, <1>6, <1>8, <1>9, <1>10, StopStepKeeps

\* withdrawn: the answer on the action handed back.
LEMMA EndHandedKeeps == ASSUME PortInv, NEW s \in Stoppers, EndHanded(s) PROVE PortInv'
  <1>. DEFINE m == stopper[s].mission
  <1>1. /\ PortTypes /\ CountOK /\ FenceOK /\ StopOK(s) /\ stopper[s] \in StopType /\ stopper[s].pc = "handed"
        /\ m \in Missions
    BY DEF PortInv, PortTypes, StopType, EndHanded, StopAt, StopOK
  <1>2. /\ UNCHANGED <<port, failures, run, halted, action, worker, fence, missed, faults>>
        /\ Steady /\ Shrinks
    BY UnchangedShrinks DEF EndHanded, Steady
  <1>3. /\ stopper' \in [Stoppers -> StopType] /\ \A t \in Stoppers \ {s} : stopper'[t] = stopper[t]
        /\ stopper'[s].pc = "idle" /\ stopper'[s].run = None
    BY <1>1 DEF PortTypes, StopType, StopIdle, MaybeRun, EndHanded
  <1>4. \/ withdrawn' = withdrawn
        \/ /\ withdrawn' = withdrawn \cup {m}
           /\ m \notin port.handed \/ WithdrawnAt(<<m, 0>>, stopper[s].run)
    BY DEF EndHanded
  <1>5. PortTypes'
    BY <1>1, <1>2, <1>3, <1>4 DEF PortTypes, TypeOK, StopType
  <1>6. FenceOK' /\ CountOK' /\ StopOK(s)'
    BY <1>1, <1>2, <1>3 DEF FenceOK, CountOK, StopOK, StopAt, Dead
  <1>7. \A n \in Missions : EndedOK(n)'
    BY <1>1, <1>2, <1>3, EndedKept DEF StopAt
  <1>8. ASSUME NEW n \in withdrawn' \ withdrawn PROVE WithdrawnOK(n)'
    <2>1. n = m /\ (m \notin port.handed \/ WithdrawnAt(<<m, 0>>, stopper[s].run))
      BY <1>4, <1>8
    <2>2. m \in port.ended /\ (port.open[m] # None => run[port.open[m]].at # "live")
             /\ stopper[s].run = port.open[m]
      BY <1>1 DEF StopOK, StopAt
    <2>3. WithdrawnOK(m)
      BY <1>1, <2>1, <2>2, WithdrawnSound DEF WithdrawnAt
    <2>. QED
      BY <1>2, <2>1, <2>3 DEF WithdrawnOK
  <1>. QED
    BY <1>2, <1>3, <1>5, <1>6, <1>7, <1>8, StopStepKeeps

-----------------------------------------------------------------------------
(***************************************************************************)
(* fence, and the steps outside the port.                                   *)
(***************************************************************************)
\* A step in which no worker and no stopper moves keeps the invariant.
LEMMA ElseStep ==
  ASSUME PortInv, PortTypes', Shrinks, Steady, FenceOK', CountOK',
         UNCHANGED <<worker, stopper, withdrawn>>,
         port'.waiting = port.waiting, port'.ended = port.ended
  PROVE  PortInv'
  <1>1. \A n \in Missions : WorkerOK(n)' /\ EndedOK(n)'
    BY ShrinkKeeps, EndedKept
  <1>2. \A r \in RunIds : MemberOK(r)'
    BY ShrinkKeeps DEF Opening
  <1>3. \A s \in Stoppers : StopOK(s)'
    BY ShrinkKeeps
  <1>4. \A n \in withdrawn' : WithdrawnOK(n)'
    BY ShrinkKeeps
  <1>5. \A a \in Actions : ActionOK(a)'
    BY ShrinkKeeps
  <1>. QED
    BY <1>1, <1>2, <1>3, <1>4, <1>5 DEF PortInv

\* fence takes the lock.
LEMMA FenceLockKeeps == ASSUME PortInv, FenceLock PROVE PortInv'
  <1>1. PortTypes /\ FenceOK /\ CountOK /\ fence.pc = "idle" /\ ~port.poisoned
    BY DEF PortInv, FenceLock, FenceOK
  <1>2. UNCHANGED <<failures, run, halted, action, worker, stopper, withdrawn, missed, faults>> /\ Shrinks
    BY <1>1, UnchangedShrinks DEF FenceLock, Recovers
  <1>3. /\ port' \in PortType /\ Steady /\ port'.waiting = port.waiting /\ port'.ended = port.ended
        /\ port'.fenced /\ ~port'.free /\ ~port'.poisoned
    BY <1>1, LockedIs DEF FenceLock, PortType, Steady
  <1>4. fence' \in [pc : {"idle", "halt", "sweep", "done"}, unswept : SUBSET RunIds, panic : BOOLEAN]
           /\ fence'.pc = "halt"
    BY <1>1 DEF FenceLock, PortTypes
  <1>5. PortTypes'
    BY <1>1, <1>2, <1>3, <1>4 DEF PortTypes, TypeOK, PortType
  <1>6. FenceOK' /\ CountOK'
    BY <1>1, <1>2, <1>3, <1>4 DEF FenceOK, CountOK
  <1>. QED
    BY <1>2, <1>3, <1>5, <1>6, ElseStep

\* fence halts the door, and has every registered run still to sweep.
LEMMA FenceHaltKeeps == ASSUME PortInv, FenceHalt PROVE PortInv'
  <1>1. /\ PortTypes /\ FenceOK /\ CountOK /\ fence.pc = "halt" /\ failures \in Nat /\ halted \in BOOLEAN
        /\ faults \in 0 .. MaxFaults
    BY DEF PortInv, FenceHalt, PortTypes, TypeOK
  <1>2. UNCHANGED <<port, worker, stopper, withdrawn, missed>> /\ Steady
    BY DEF FenceHalt, Steady
  <1>3. PICK panic \in BOOLEAN : fence' = [pc |-> "sweep", unswept |-> HeldRuns, panic |-> panic]
    BY DEF FenceHalt
  <1>4. /\ faults' \in 0 .. MaxFaults /\ failures' \in Nat /\ failures' >= failures
    BY <1>1 DEF FenceHalt, Works, Fails
  <1>6. Shrinks /\ BrokerTypes'
    <2>1. CASE Halted
      BY <1>1, <1>2, <1>4, <2>1, CancelShrinks, CancelTypes DEF Halted, BrokerTypes
    <2>2. CASE UNCHANGED <<run, halted, action>>
      BY <1>1, <1>2, <1>4, <2>2, UnchangedShrinks DEF BrokerTypes, PortTypes, TypeOK, RunType, ActionType
    <2>. QED
      BY <2>1, <2>2 DEF FenceHalt
  <1>7. HeldRuns \subseteq RunIds
    BY <1>1 DEF HeldRuns, PortTypes, TypeOK, MaybeRun
  <1>8. PortTypes'
    BY <1>1, <1>2, <1>3, <1>4, <1>6, <1>7 DEF PortTypes, TypeOK, BrokerTypes, RunType, ActionType
  <1>9. FenceOK'
    <2>1. \A m \in Missions : port.open[m] # None => port.open[m] \in HeldRuns
      BY DEF HeldRuns
    <2>. QED
      BY <1>1, <1>2, <1>3, <2>1 DEF FenceOK
  <1>10. CountOK'
    <2>1. Cardinality(missed) \in Nat
      BY <1>1, FS_CardinalityType DEF CountOK
    <2>. QED
      BY <1>1, <1>2, <1>4, <2>1 DEF CountOK
  <1>. QED
    BY <1>2, <1>6, <1>8, <1>9, <1>10, ElseStep

\* fence cancels a registered run, or counts it.
LEMMA FenceSweepKeeps == ASSUME PortInv, NEW r \in RunIds, FenceSweep(r) PROVE PortInv'
  <1>1. PortTypes /\ FenceOK /\ fence.pc = "sweep" /\ CancelRun(r)
    BY DEF PortInv, FenceSweep
  <1>2. UNCHANGED <<port, halted, worker, stopper, withdrawn>> /\ Steady
    BY <1>1 DEF FenceSweep, Steady, CancelRun
  <1>3. PICK panic \in BOOLEAN : fence' = [fence EXCEPT !.unswept = fence.unswept \ {r}, !.panic = @ \/ panic]
    BY DEF FenceSweep, Swept
  <1>4. /\ fence' \in [pc : {"idle", "halt", "sweep", "done"}, unswept : SUBSET RunIds, panic : BOOLEAN]
        /\ fence'.pc = "sweep" /\ fence'.unswept = fence.unswept \ {r}
    BY <1>1, <1>3 DEF PortTypes
  <1>5. Shrinks /\ BrokerTypes' /\ failures' \in Nat /\ CountOK' /\ Dead(r)'
    BY <1>1, CancelRunShrinks, CancelRunTypes, CancelCounted, CancelledIsDead
  <1>6. missed' \subseteq RunIds
    BY <1>1 DEF CancelRun, PortTypes, TypeOK
  <1>7. PortTypes'
    BY <1>1, <1>2, <1>4, <1>5, <1>6 DEF PortTypes, TypeOK, BrokerTypes, RunType, ActionType
  <1>8. FenceOK'
    <2>1. ASSUME NEW m \in Missions, port.open[m] # None
          PROVE port.open[m] \in fence'.unswept \/ (Dead(port.open[m]))'
      <3>1. port.open[m] \in RunIds
        BY <1>1, <2>1 DEF PortTypes, TypeOK, MaybeRun
      <3>. QED
        BY <1>1, <1>2, <1>4, <1>5, <2>1, <3>1 DEF FenceOK, Dead, Shrinks
    <2>. QED
      BY <1>1, <1>2, <1>4, <2>1 DEF FenceOK
  <1>. QED
    BY <1>2, <1>5, <1>7, <1>8, ElseStep

\* fence returns: every registered run is dead.
LEMMA FenceEndKeeps == ASSUME PortInv, FenceEnd PROVE PortInv'
  <1>1. PortTypes /\ FenceOK /\ CountOK /\ fence.pc = "sweep" /\ fence.unswept = {}
    BY DEF PortInv, FenceEnd
  <1>2. UNCHANGED <<failures, run, halted, action, worker, stopper, withdrawn, missed, faults>> /\ Shrinks
    BY UnchangedShrinks DEF FenceEnd
  <1>3. /\ port' \in PortType /\ Steady /\ port'.waiting = port.waiting /\ port'.ended = port.ended
        /\ port'.fenced = port.fenced
    BY <1>1 DEF FenceEnd, Released, PortType, PortTypes, TypeOK, Steady
  <1>4. fence' \in [pc : {"idle", "halt", "sweep", "done"}, unswept : SUBSET RunIds, panic : BOOLEAN]
           /\ fence'.pc = "done"
    BY <1>1 DEF FenceEnd, PortTypes
  <1>5. PortTypes'
    BY <1>1, <1>2, <1>3, <1>4 DEF PortTypes, TypeOK, PortType
  <1>6. FenceOK' /\ CountOK'
    BY <1>1, <1>2, <1>3, <1>4 DEF FenceOK, CountOK, Dead, Steady
  <1>. QED
    BY <1>2, <1>3, <1>5, <1>6, ElseStep

\* The broker moves on by itself.
LEMMA BrokerKeeps ==
  ASSUME PortInv, Shrinks, BrokerTypes', UNCHANGED <<port, halted, worker, Calls>> PROVE PortInv'
  <1>1. PortTypes /\ CountOK /\ Steady
    BY DEF PortInv, Steady
  <1>2. PortTypes'
    BY <1>1 DEF PortTypes, TypeOK, BrokerTypes, RunType, ActionType, Calls
  <1>3. FenceOK'
    BY <1>1, FenceKept DEF Calls
  <1>. QED
    BY <1>1, <1>2, <1>3, ElseStep DEF CountOK, Calls

\* The Owner's answers, executions that end and deadlines that pass.
LEMMA ExternalKeeps ==
  ASSUME PortInv, NEW a \in Actions,
         OwnerApproves(a) \/ OwnerDenies(a) \/ Completes(a) \/ Expires(a) \/ Passes(a)
  PROVE  PortInv'
  <1>1. PortTypes
    BY DEF PortInv
  <1>2. CASE Passes(a)
    <2>1. /\ action' = [action EXCEPT ![a].late = @ + 1] /\ action[a].late < 2
          /\ UNCHANGED <<port, run, halted, worker, faults, Calls>>
      BY <1>2 DEF Passes
    <2>2. action[a] \in ActionType
      BY <1>1 DEF PortTypes, TypeOK, ActionType
    <2>3. [action[a] EXCEPT !.late = @ + 1] \in ActionType
      BY <2>1, <2>2 DEF ActionType
    <2>4. /\ action' \in [Actions -> ActionType]
          /\ \A b \in Actions : action'[b].at = action[b].at /\ action'[b].run = action[b].run
      BY <1>1, <2>1, <2>2, <2>3 DEF PortTypes, TypeOK, ActionType
    <2>5. Shrinks /\ BrokerTypes'
      BY <1>1, <2>1, <2>4 DEF Shrinks, BrokerTypes, PortTypes, TypeOK, RunType, Calls
    <2>. QED
      BY <2>1, <2>5, BrokerKeeps
  <1>3. ASSUME NEW to \in {"executing", "succeeded", "failed", "denied", "expired", "revoked"},
               action[a].at \in OpenStates, Moves(a, to)
        PROVE PortInv'
    <2>1. Shrinks /\ BrokerTypes'
      BY <1>1, <1>3, MoveShrinks DEF Moves, Calls
    <2>. QED
      BY <1>3, <2>1, BrokerKeeps DEF Moves
  <1>. QED
    BY <1>2, <1>3 DEF OwnerApproves, OwnerDenies, Completes, Expires, OpenStates

\* A detached run finishes once nothing of it waits.
LEMMA SettlesKeeps == ASSUME PortInv, NEW r \in RunIds, Settles(r) PROVE PortInv'
  <1>1. PortTypes /\ run[r] \in RunType
    BY DEF PortInv, PortTypes, TypeOK, RunType
  <1>2. /\ run' = [run EXCEPT ![r].at = "finished"] /\ run[r].at = "live"
        /\ UNCHANGED <<port, halted, action, worker, faults, Calls>>
        /\ \A a \in Actions : action[a].run = r => action[a].at # "prepared"
    BY DEF Settles, OpenStates
  <1>3. /\ run' \in [RunIds -> RunType] /\ run'[r].at = "finished"
        /\ \A q \in RunIds : /\ run'[q].member = run[q].member /\ run'[q].detached = run[q].detached
                             /\ q # r => run'[q].at = run[q].at
    BY <1>1, <1>2 DEF PortTypes, TypeOK, RunType
  <1>4. Shrinks /\ BrokerTypes'
    BY <1>1, <1>2, <1>3 DEF Shrinks, BrokerTypes, PortTypes, TypeOK, ActionType, Calls
  <1>. QED
    BY <1>2, <1>4, BrokerKeeps

-----------------------------------------------------------------------------
\* The invariant holds of a port just opened, whatever survived.
LEMMA InitPortInv == Init => PortInv
  <1>. SUFFICES ASSUME Init PROVE PortInv
    OBVIOUS
  <1>1. PICK kept \in [Missions -> {"no", "handed", "adopted"}] :
          /\ port = [free |-> TRUE, poisoned |-> FALSE, fenced |-> FALSE, ended |-> {},
                     open |-> [m \in Missions |-> IF kept[m] = "adopted" THEN <<m, 0>> ELSE None],
                     waiting |-> [m \in Missions |-> IF kept[m] = "adopted" THEN <<m, 0>> ELSE None],
                     handed |-> {m \in Missions : kept[m] # "no"}]
          /\ run = [r \in RunIds |->
                     [at |-> IF r[2] = 0 /\ kept[r[1]] # "no" THEN "live" ELSE "none",
                      member |-> r[2] = 0 /\ kept[r[1]] = "adopted", detached |-> FALSE]]
          /\ action = [a \in Actions |->
                     [at |-> IF a[2] = 0 /\ kept[a[1]] # "no" THEN "prepared" ELSE "none",
                      run |-> IF a[2] = 0 /\ kept[a[1]] # "no" THEN <<a[1], 0>> ELSE None,
                      r2 |-> TRUE, late |-> 0]]
          /\ worker = [m \in Missions |->
                     [pc |-> "idle", run |-> None, action |-> None,
                      told |-> IF kept[m] = "adopted" THEN "awaiting" ELSE "none"]]
    BY DEF Init
  <1>2. /\ failures = 0 /\ halted = FALSE /\ withdrawn = {} /\ missed = {} /\ faults = 0
        /\ stopper = [s \in Stoppers |-> [pc |-> "idle", call |-> "none", mission |-> None,
                                          entered |-> FALSE, run |-> None]]
        /\ fence = [pc |-> "idle", unswept |-> {}, panic |-> FALSE]
    BY DEF Init
  <1>3. port \in PortType
    BY <1>1, NoneIsNoRun DEF PortType, MaybeRun
  <1>4. run \in [RunIds -> RunType]
    <2>1. \A r \in RunIds : (r[2] = 0 /\ kept[r[1]] = "adopted") \in BOOLEAN
      OBVIOUS
    <2>. QED
      BY <1>1, <2>1 DEF RunType
  <1>5. action \in [Actions -> ActionType]
    <2>1. ASSUME NEW a \in Actions PROVE action[a] \in ActionType
      <3>1. a[1] \in Missions /\ <<a[1], 0>> \in MaybeRun /\ None \in MaybeRun
        BY <2>1, NoneIsNoRun DEF MaybeRun
      <3>2. CASE a[2] = 0 /\ kept[a[1]] # "no"
        BY <1>1, <2>1, <3>1, <3>2 DEF ActionType
      <3>3. CASE ~(a[2] = 0 /\ kept[a[1]] # "no")
        BY <1>1, <2>1, <3>1, <3>3 DEF ActionType
      <3>. QED
        BY <3>2, <3>3
    <2>. QED
      BY <1>1, <2>1
  <1>6. worker \in [Missions -> WorkerType] /\ stopper \in [Stoppers -> StopType]
    BY <1>1, <1>2 DEF WorkerType, StopType, MaybeRun
  <1>7. PortTypes
    <2>1. halted \in BOOLEAN
      BY <1>2, Zenon
    <2>2. fence \in [pc : {"idle", "halt", "sweep", "done"}, unswept : SUBSET RunIds, panic : BOOLEAN]
      BY <1>2
    <2>3. failures \in Nat /\ faults \in 0 .. MaxFaults /\ withdrawn \subseteq Missions /\ missed \subseteq RunIds
      BY <1>2
    <2>. QED
      BY <1>3, <1>4, <1>5, <1>6, <2>1, <2>2, <2>3
      DEF PortTypes, TypeOK, PortType, RunType, ActionType, WorkerType, StopType
  <1>8. FenceOK /\ CountOK
    BY <1>1, <1>2, FS_EmptySet DEF FenceOK, CountOK
  <1>9. ASSUME NEW a \in Actions PROVE ActionOK(a)
    <2>1. a[1] \in Missions /\ <<a[1], 0>> \in RunIds /\ <<a[1], 0>> # None
      BY <1>9, NoneIsNoRun
    <2>2. CASE a[2] = 0 /\ kept[a[1]] # "no"
      BY <1>1, <1>9, <2>1, <2>2 DEF ActionOK
    <2>3. CASE ~(a[2] = 0 /\ kept[a[1]] # "no")
      BY <1>1, <1>9, <2>1, <2>3 DEF ActionOK
    <2>. QED
      BY <2>2, <2>3
  <1>10. ASSUME NEW m \in Missions PROVE WorkerOK(m) /\ EndedOK(m)
    <2>1. /\ worker[m].pc = "idle" /\ worker[m].told = (IF kept[m] = "adopted" THEN "awaiting" ELSE "none")
          /\ port.open[m] = (IF kept[m] = "adopted" THEN <<m, 0>> ELSE None)
          /\ port.waiting[m] = (IF kept[m] = "adopted" THEN <<m, 0>> ELSE None)
          /\ run[<<m, 1>>].at = "none"
      BY <1>1, <1>10, NoneIsNoRun
    <2>2. HoldsOK(m)
      BY <2>1 DEF HoldsOK, Opening
    <2>3. <<m, 0>> \in Actions /\ <<m, 0>> # None /\ <<m, 0>>[1] = m
      BY <1>10, NoneIsNoRun
    <2>4. CASE kept[m] = "adopted"
      <3>1. \A a \in Actions : Open(m, a) => a = <<m, 0>>
        BY <1>1, <1>10, <2>4, NoneIsNoRun DEF Open, OpenStates
      <3>2. action[<<m, 0>>].run = <<m, 0>>
        BY <1>1, <2>3, <2>4
      <3>3. ToldOK(m)
        BY <2>1, <2>3, <2>4, <3>1, <3>2 DEF ToldOK
      <3>. QED
        BY <1>1, <2>2, <3>3 DEF WorkerOK, EndedOK
    <2>5. CASE kept[m] # "adopted"
      <3>1. \A a \in Actions : ~Open(m, a)
        BY <1>1, <1>10, <2>1, <2>5, NoneIsNoRun DEF Open, OpenStates
      <3>2. ToldOK(m)
        BY <2>1, <2>5, <3>1 DEF ToldOK
      <3>. QED
        BY <1>1, <2>2, <3>2 DEF WorkerOK, EndedOK
    <2>. QED
      BY <2>4, <2>5
  <1>11. ASSUME NEW r \in RunIds PROVE MemberOK(r)
    <2>1. r[1] \in Missions /\ r = <<r[1], r[2]>>
      BY <1>11, NoneIsNoRun
    <2>2. run[r].member => r[2] = 0 /\ kept[r[1]] = "adopted"
      BY <1>1, <1>11
    <2>3. kept[r[1]] = "adopted" => port.open[r[1]] = <<r[1], 0>>
      BY <1>1, <2>1
    <2>. QED
      BY <2>1, <2>2, <2>3 DEF MemberOK
  <1>12. ASSUME NEW s \in Stoppers PROVE StopOK(s)
    BY <1>2, <1>12 DEF StopOK, StopAt
  <1>. QED
    BY <1>2, <1>7, <1>8, <1>9, <1>10, <1>11, <1>12 DEF PortInv

\* A step of something else keeps the invariant.
LEMMA StutterKeeps == ASSUME PortInv, UNCHANGED vars PROVE PortInv'
  <1>1. Shrinks /\ Steady /\ UNCHANGED <<worker, stopper, withdrawn, port, fence, missed, failures>>
    BY UnchangedShrinks DEF vars, Steady
  <1>2. PortTypes' /\ CountOK'
    BY DEF PortInv, vars, PortTypes, TypeOK, CountOK
  <1>3. FenceOK'
    BY <1>1, FenceKept DEF vars
  <1>. QED
    BY <1>1, <1>2, <1>3, ElseStep

\* Every step keeps the invariant.
LEMMA NextKeeps == ASSUME PortInv, [Next]_vars PROVE PortInv'
  <1>1. ASSUME NEW m \in Missions, Perform(m) \/ Poll(m) \/ Finish(m) \/ WorkStep(m) PROVE PortInv'
    BY <1>1, PerformKeeps, PollKeeps, EnterKeeps, KnownKeeps, OpenRunKeeps, RegisterKeeps, UndoKeeps,
       ProposeKeeps, ExecuteKeeps, RanKeeps, WaitingKeeps, FoundKeeps, LookupKeeps, FinishEndKeeps,
       FinishRunKeeps DEF WorkStep
  <1>2. ASSUME NEW s \in Stoppers, Begin(s) \/ StopStep(s) PROVE PortInv'
    BY <1>2, BeginKeeps, EndKeeps, EndCancelKeeps, EndHandedKeeps DEF StopStep
  <1>3. CASE FenceLock \/ FenceStep
    BY <1>3, FenceLockKeeps, FenceHaltKeeps, FenceEndKeeps, FenceSweepKeeps DEF FenceStep
  <1>. QED
    BY <1>1, <1>2, <1>3, ExternalKeeps, SettlesKeeps, StutterKeeps DEF Next

\* The port's inductive invariant: the port, its threads and the broker agree on
\* who holds each run (mother/src/adapter/mod.rs).
THEOREM PortInvariant == Spec => []PortInv
  BY InitPortInv, NextKeeps, PTL DEF Spec

\* No run of the door is forgotten and a waiting mission's action is the one the
\* port names, for any missions, threads and failures (run_for, fence, withdraw).
THEOREM NothingEverSlipsAway == Spec => []NothingSlipsAway
  <1>1. PortInv => NothingSlipsAway
    <2>. SUFFICES ASSUME PortInv PROVE NothingSlipsAway
      OBVIOUS
    <2>1. PortTypes /\ FenceOK /\ CountOK
      BY DEF PortInv
    <2>2. ASSUME NEW r \in Members, run[r].at = "live", r \notin missed, ~run[r].detached, ~InHand(r)
          PROVE \E m \in Missions \ port.ended : port.open[m] = r /\ ~port.fenced
      <3>1. r \in RunIds /\ run[r].member /\ r[1] \in Missions /\ r # None /\ (r[2] = 1 => r = <<r[1], 1>>)
        BY <2>2, NoneIsNoRun DEF Members
      <3>2. HoldsOK(r[1]) /\ EndedOK(r[1]) /\ MemberOK(r) /\ ~Dead(r)
        BY <2>2, <3>1 DEF PortInv, WorkerOK, Dead
      <3>3. port.open[r[1]] = r
        BY <2>2, <3>1, <3>2 DEF MemberOK, Opening, HoldsOK, InHand
      <3>4. ~port.fenced
        BY <2>1, <2>2, <3>1, <3>2, <3>3 DEF FenceOK, InHand, PortTypes
      <3>5. r[1] \notin port.ended
        BY <2>2, <3>1, <3>2, <3>3, <3>4 DEF EndedOK, InHand, HoldsOK
      <3>. QED
        BY <3>1, <3>3, <3>4, <3>5
    <2>3. NoRunIsForgotten
      BY <2>1, <2>2 DEF NoRunIsForgotten, CountOK
    <2>4. ASSUME NEW m \in Missions, At(m, "idle"), worker[m].told = "awaiting"
          PROVE /\ port.waiting[m] # None /\ port.open[m] # None
                /\ action[port.waiting[m]].run = port.open[m]
                /\ \A a \in Actions : a[1] = m /\ action[a].run = port.open[m] /\ action[a].at \in OpenStates
                       => a = port.waiting[m]
      BY <2>4, NoneIsNoRun DEF PortInv, WorkerOK, ToldOK, Open
    <2>. QED
      BY <2>3, <2>4 DEF NothingSlipsAway, AwaitedIsNamed
  <1>. QED
    BY <1>1, PortInvariant, PTL

-----------------------------------------------------------------------------
(***************************************************************************)
(* What starts an action: a worker's proposal or execution, or the Owner.   *)
(***************************************************************************)
NoStarts == \A a \in Actions : ~Starts(a)

\* Cancelling runs starts nothing.
LEMMA CancelStartsNothing ==
  ASSUME PortTypes, NEW S, Cancelled(S) PROVE NoStarts
  <1>. SUFFICES ASSUME NEW a \in Actions PROVE ~Starts(a)
    BY DEF NoStarts
  <1>1. action[a] \in ActionType
    BY DEF PortTypes, TypeOK, ActionType
  <1>2. action'[a] = IF action[a].run \in S /\ action[a].at = "prepared"
                     THEN [action[a] EXCEPT !.at = "revoked"] ELSE action[a]
    BY DEF Cancelled
  <1>. QED
    BY <1>1, <1>2 DEF Starts, ActionType

\* Nothing starts where no action moves.
LEMMA UnchangedStartsNothing == ASSUME action' = action PROVE NoStarts
  BY DEF NoStarts, Starts

\* Recovering the lock starts nothing.
LEMMA RecoverStartsNothing == ASSUME PortTypes, Recovers PROVE NoStarts
  BY CancelStartsNothing, UnchangedStartsNothing DEF Recovers, Halted

\* A cancellation, made or refused, starts nothing.
LEMMA CancelRunStartsNothing == ASSUME PortTypes, NEW r, CancelRun(r) PROVE NoStarts
  BY CancelStartsNothing, UnchangedStartsNothing DEF CancelRun

\* An action that ends starts nothing.
LEMMA MoveStartsNothing ==
  ASSUME PortTypes, NEW a \in Actions, action[a].at \in OpenStates,
         NEW to \in {"succeeded", "failed", "denied", "expired"}, Moves(a, to)
  PROVE  NoStarts
  <1>. SUFFICES ASSUME NEW b \in Actions PROVE ~Starts(b)
    BY DEF NoStarts
  <1>1. action[a] \in ActionType /\ action' = [action EXCEPT ![a].at = to]
    BY DEF PortTypes, TypeOK, ActionType, Moves
  <1>2. b # a => action'[b] = action[b]
    BY <1>1 DEF PortTypes, TypeOK
  <1>3. action'[a].at = to
    BY <1>1 DEF PortTypes, TypeOK, ActionType
  <1>. QED
    BY <1>2, <1>3 DEF Starts, OpenStates

\* An action that starts is on a live run: the registered one of its mission,
\* or that of the survivor, which waited.
LEMMA StartsHow ==
  ASSUME PortInv, [Next]_vars, NEW a \in Actions, Starts(a)
  PROVE  /\ action'[a].run \in RunIds /\ run[action'[a].run].at = "live"
         /\ \/ action'[a].run = port.open[a[1]]
            \/ a[2] = 0 /\ action'[a].run = <<a[1], 0>> /\ action[a].at = "prepared"
  <1>1. PortTypes /\ ActionOK(a) /\ a[1] \in Missions /\ ~NoStarts
    BY NoneIsNoRun DEF PortInv, NoStarts
  <1>2. CASE action[a].at = "prepared" /\ action'[a].run = action[a].run
    BY <1>1, <1>2, NoneIsNoRun DEF ActionOK
  <1>3. ASSUME NEW m \in Missions, Propose(m)
        PROVE /\ action'[a].run \in RunIds /\ run[action'[a].run].at = "live"
              /\ action'[a].run = port.open[a[1]]
    <2>1. /\ HoldsOK(m) /\ ToldOK(m) /\ worker[m].pc = "propose"
      BY <1>3 DEF PortInv, WorkerOK, Propose, At
    <2>2. /\ worker[m].run = port.open[m] /\ port.open[m] \in RunIds
          /\ worker[m].action \in Actions /\ worker[m].action[1] = m
      BY <1>1, <2>1 DEF HoldsOK, ToldOK, PortTypes, TypeOK, MaybeRun
    <2>3. PICK r2 \in BOOLEAN :
            /\ run[worker[m].run].at = "live"
            /\ action' = [action EXCEPT ![worker[m].action] =
                               [@ EXCEPT !.at = "prepared", !.run = worker[m].run, !.r2 = r2]]
      BY <1>1, <1>3, UnchangedStartsNothing DEF Propose
    <2>4. a = worker[m].action
      BY <1>1, <2>2, <2>3 DEF Starts, PortTypes, TypeOK
    <2>5. action[a] \in ActionType
      BY <1>1 DEF PortTypes, TypeOK, ActionType
    <2>6. action'[a].run = worker[m].run
      BY <1>1, <2>2, <2>3, <2>4, <2>5 DEF PortTypes, TypeOK, ActionType
    <2>. QED
      BY <2>2, <2>3, <2>4, <2>6
  <1>4. ASSUME NEW b \in Actions, action[b].at = "prepared", action' = [action EXCEPT ![b].at = "executing"]
        PROVE action[a].at = "prepared" /\ action'[a].run = action[a].run
    <2>1. a = b
      BY <1>1, <1>4 DEF Starts, PortTypes, TypeOK
    <2>2. action[b] \in ActionType
      BY <1>1, <1>4 DEF PortTypes, TypeOK, ActionType
    <2>. QED
      BY <1>1, <1>4, <2>1, <2>2 DEF PortTypes, TypeOK, ActionType
  <1>5. ASSUME NEW m \in Missions, Execute(m) PROVE action[a].at = "prepared" /\ action'[a].run = action[a].run
    <2>1. worker[m].action \in Actions
      BY <1>5 DEF PortInv, WorkerOK, ToldOK, Execute, At
    <2>. QED
      BY <1>1, <1>4, <1>5, <2>1, UnchangedStartsNothing DEF Execute
  <1>6. ASSUME NEW m \in Missions, Perform(m) \/ Poll(m) \/ Finish(m) \/ WorkStep(m), ~Propose(m), ~Execute(m)
        PROVE FALSE
    <2>1. UNCHANGED action \/ Recovers \/ CancelRun(worker[m].run)
      BY <1>6 DEF Perform, Poll, Finish, WorkStep, Looks, Enter, Known, OpenRun, Register, Undo, EnterAgain,
                  Ran, Insert, Found, Lookup, Drop, FinishEnd, FinishRun
    <2>. QED
      BY <1>1, <2>1, UnchangedStartsNothing, RecoverStartsNothing, CancelRunStartsNothing
  <1>7. ASSUME NEW s \in Stoppers, Begin(s) \/ StopStep(s) PROVE FALSE
    <2>1. UNCHANGED action \/ Recovers \/ CancelRun(stopper[s].run)
      BY <1>7 DEF Begin, StopStep, End, EndCancel, EndHanded, Looks
    <2>. QED
      BY <1>1, <2>1, UnchangedStartsNothing, RecoverStartsNothing, CancelRunStartsNothing
  <1>8. CASE FenceLock \/ FenceStep
    <2>1. UNCHANGED action \/ Recovers \/ Halted \/ \E r \in RunIds : CancelRun(r)
      BY <1>8 DEF FenceLock, FenceStep, FenceHalt, FenceEnd, FenceSweep
    <2>. QED
      BY <1>1, <2>1, UnchangedStartsNothing, RecoverStartsNothing, CancelRunStartsNothing,
         CancelStartsNothing DEF Halted
  <1>9. ASSUME NEW b \in Actions, OwnerApproves(b)
        PROVE action[a].at = "prepared" /\ action'[a].run = action[a].run
    BY <1>4, <1>9 DEF OwnerApproves, Moves
  <1>10. ASSUME NEW b \in Actions, OwnerDenies(b) \/ Completes(b) \/ Expires(b) PROVE FALSE
    BY <1>1, <1>10, MoveStartsNothing DEF OwnerDenies, Completes, Expires, OpenStates
  <1>11. ASSUME NEW b \in Actions, Passes(b) PROVE FALSE
    <2>1. action' = [action EXCEPT ![b].late = @ + 1] /\ action[b] \in ActionType
      BY <1>1, <1>11 DEF Passes, PortTypes, TypeOK, ActionType
    <2>2. action'[a].at = action[a].at
      BY <1>1, <2>1 DEF PortTypes, TypeOK, ActionType
    <2>. QED
      BY <2>2 DEF Starts
  <1>12. ASSUME UNCHANGED vars \/ \E r \in RunIds : Settles(r) PROVE FALSE
    BY <1>1, <1>12, UnchangedStartsNothing DEF vars, Settles
  <1>. QED
    BY <1>2, <1>3, <1>5, <1>6, <1>7, <1>8, <1>9, <1>10, <1>11, <1>12 DEF Next

\* Nothing starts past a fence or a withdrawal, for any missions, threads and
\* failures of the broker (enter, run_for, fence, withdraw).
THEOREM NothingEverStartsLate == Spec => NothingStartsLate
  <1>1. PortInv /\ [Next]_vars =>
          [\A a \in Actions : fence.pc = "done" /\ Starts(a) =>
               action'[a].run \in missed \/ ~run[action'[a].run].member]_vars
    <2>. SUFFICES ASSUME PortInv, [Next]_vars, NEW a \in Actions, fence.pc = "done", Starts(a),
                         action'[a].run \notin missed, run[action'[a].run].member
                  PROVE FALSE
      OBVIOUS
    <2>. DEFINE r == action'[a].run
    <2>1. /\ r \in RunIds /\ run[r].at = "live" /\ MemberOK(r) /\ FenceOK /\ a[1] \in Missions
          /\ r[1] \in Missions /\ HoldsOK(r[1]) /\ r # None
          /\ port.open[a[1]] = r \/ (a[2] = 0 /\ r = <<a[1], 0>>)
      BY StartsHow, NoneIsNoRun DEF PortInv, WorkerOK
    <2>2. ~(run[r].at # "live" \/ r \in missed)
      BY <2>1
    <2>3. \A m \in Missions : port.open[m] # r
      BY <2>1, <2>2 DEF FenceOK, Dead
    <2>4. Opening(r[1]) /\ r[2] = 1
      BY <2>1, <2>2, <2>3 DEF MemberOK, Dead
    <2>. QED
      BY <2>1, <2>3, <2>4
  <1>2. PortInv /\ [Next]_vars => [\A a \in Actions : a[1] \in withdrawn => ~Starts(a)]_vars
    <2>. SUFFICES ASSUME PortInv, [Next]_vars, NEW a \in Actions, a[1] \in withdrawn, Starts(a)
                  PROVE FALSE
      OBVIOUS
    <2>1. WithdrawnOK(a[1]) /\ a[1] \in Missions /\ a = <<a[1], a[2]>>
      BY NoneIsNoRun DEF PortInv
    <2>. QED
      BY <2>1, StartsHow, NoneIsNoRun DEF WithdrawnOK
  <1>3. Spec => NothingStartsPastTheFence
    BY <1>1, PortInvariant, PTL DEF Spec, NothingStartsPastTheFence
  <1>4. Spec => NothingStartsPastAWithdrawal
    BY <1>2, PortInvariant, PTL DEF Spec, NothingStartsPastAWithdrawal
  <1>. QED
    BY <1>3, <1>4 DEF NothingStartsLate
=============================================================================
