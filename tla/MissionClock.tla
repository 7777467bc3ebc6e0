---------------------------- MODULE MissionClock ----------------------------
(***************************************************************************)
(* A mission's time budget, measured by two clocks that disagree.          *)
(*                                                                         *)
(* The monotonic clock counts the time this process was awake and starts   *)
(* again with the process; the wall clock also counts suspension and the   *)
(* time no process ran, but anybody may set it.  Consent notes both; a     *)
(* restart has only the wall clock and the journaled consent to rebuild    *)
(* the measure from.  A lane's reservation and the File session copy the   *)
(* budget's end as absolute instants of both clocks.                       *)
(*                                                                         *)
(* Time is a number of ticks up to Top, which stands for u64::MAX: every   *)
(* sum and difference saturates as the code's do.                          *)
(***************************************************************************)
EXTENDS Integers

CONSTANTS
  Top,            \* u64::MAX
  MaxDuration,    \* the contract's budget.max_duration_ms
  FirstWall,      \* what the wall clock shows at the start
  LastWall,       \* bound: the latest instant somebody sets it to
  MaxReal,        \* bound: ticks of real time
  MaxSets,        \* bound: times somebody sets the wall clock
  MaxRestarts     \* bound: times the process ends

None == -1
Time == 0..Top

ASSUME ClockAssumption ==
  /\ {MaxReal, MaxSets, MaxRestarts, LastWall, FirstWall} \subseteq Nat
  /\ MaxDuration \in Nat \ {0} /\ FirstWall <= LastWall
  /\ Top \in Nat /\ LastWall + MaxReal <= Top
  /\ MaxDuration + MaxReal + LastWall <= Top

VARIABLES
  up,         \* the process runs
  wall,       \* wall_ms
  mono,       \* monotonic_ms, of this process
  monoRead,   \* the monotonic value a consent step has read, or None
  approved,   \* approved_wall_ms, journaled with the consent, or None
  monoRef,    \* mono_ref
  spentAtRef, \* spent_at_ref
  lane,       \* the reservation's deadlines, a set of at most one record
  life,       \* FileLife's mono_deadline and wall_deadline
  ended,      \* the mission ended for its time budget
  worked,     \* the truth at the last step the budget admitted, at most one
  truth,      \* what happened since the consent, which no program can see
  real, sets, restarts

measure == <<monoRead, approved, monoRef, spentAtRef, lane, life, ended>>
bounds == <<real, sets, restarts>>
vars == <<up, wall, mono, measure, worked, truth, bounds>>

\* awake: ticks awake; elapsed: ticks; setBack: the wall clock was set back;
\* restarted: by another process; distrusted: this process started with a
\* wall clock earlier than the consent.
Fresh == [awake |-> 0, elapsed |-> 0, setBack |-> FALSE,
          restarted |-> FALSE, distrusted |-> FALSE]

Sub(a, b) == IF a >= b THEN a - b ELSE 0
Add(a, b) == IF a + b <= Top THEN a + b ELSE Top
Larger(a, b) == IF a >= b THEN a ELSE b

SpentByWall == IF approved = None THEN 0 ELSE Sub(wall, approved)
SpentByMono == Add(spentAtRef, Sub(mono, monoRef))

(* Mission::spent_ms: the larger of what the two clocks measured. *)
SpentMs == Larger(SpentByWall, SpentByMono)

(* Mission::out_of_time. *)
OutOfTime == SpentMs >= MaxDuration

(* MissionDeadline::expired, FileLife::check_budget. *)
Expired(d) == mono >= d.mono \/ wall >= d.wall

(* reserve_lane: the instants copied into the live invocation. *)
LaneDeadline ==
  [mono |-> Add(monoRef, Sub(MaxDuration, spentAtRef)),
   wall |-> Add(approved, MaxDuration)]
-----------------------------------------------------------------------------
(* The clocks, and who moves them. *)

Passing(awakeTicks) ==
  /\ real < MaxReal
  /\ real' = real + 1
  /\ wall' = wall + 1
  /\ mono' = mono + awakeTicks
  /\ truth' = IF approved = None THEN truth
              ELSE [truth EXCEPT !.elapsed = @ + 1, !.awake = @ + awakeTicks]
  /\ UNCHANGED <<up, measure, worked, sets, restarts>>

\* The process runs for a tick.
Tick == up /\ Passing(1)

\* The machine sleeps for a tick, or no process runs.
Sleep == Passing(0)

\* Somebody sets the wall clock.
SetWall(w) ==
  /\ sets < MaxSets
  /\ sets' = sets + 1
  /\ wall' = w
  /\ truth' = [truth EXCEPT !.setBack = @ \/ (approved # None /\ w < wall)]
  /\ UNCHANGED <<up, mono, measure, worked, real, restarts>>
-----------------------------------------------------------------------------
(* consent: the monotonic clock is read, then the wall clock, which the    *)
(* journal keeps.  Time may pass between the two.                          *)
ReadMono ==
  /\ up /\ approved = None /\ monoRead = None
  /\ monoRead' = mono
  /\ UNCHANGED <<up, wall, mono, approved, monoRef, spentAtRef, lane, life,
                 ended, worked, truth, bounds>>

ConsentStep ==
  /\ up /\ monoRead # None
  /\ approved' = wall
  /\ monoRef' = monoRead
  /\ spentAtRef' = 0
  /\ life' = [mono |-> Add(monoRead, MaxDuration),
              wall |-> Add(wall, MaxDuration)]
  /\ monoRead' = None
  /\ truth' = Fresh
  /\ UNCHANGED <<up, wall, mono, lane, ended, worked, bounds>>

Going == up /\ approved # None /\ ~ended

(* advance, dispatch, reserve_lane: the budget admits a step, or ends the  *)
(* mission.                                                                *)
Step ==
  /\ Going
  /\ IF OutOfTime THEN ended' = TRUE /\ UNCHANGED worked
                  ELSE worked' = {truth} /\ UNCHANGED ended
  /\ UNCHANGED <<up, wall, mono, monoRead, approved, monoRef, spentAtRef, lane,
                 life, truth, bounds>>

Reserve ==
  /\ Going /\ lane = {} /\ ~OutOfTime
  /\ lane' = {LaneDeadline}
  /\ UNCHANGED <<up, wall, mono, monoRead, approved, monoRef, spentAtRef, life,
                 ended, worked, truth, bounds>>

\* The lane returns or is overtaken.
Return ==
  /\ up /\ lane # {}
  /\ lane' = {}
  /\ UNCHANGED <<up, wall, mono, monoRead, approved, monoRef, spentAtRef, life,
                 ended, worked, truth, bounds>>
-----------------------------------------------------------------------------
Crash ==
  /\ up /\ restarts < MaxRestarts
  /\ restarts' = restarts + 1
  /\ up' = FALSE
  /\ monoRead' = None
  /\ lane' = {}
  /\ UNCHANGED <<wall, mono, approved, monoRef, spentAtRef, life, ended,
                 worked, truth, real, sets>>

(* recover: what was spent before this process, from the wall clock. *)
Rebuilt == IF wall < approved THEN Top ELSE wall - approved

Restart ==
  /\ ~up
  /\ up' = TRUE
  /\ mono' = 0
  /\ IF approved = None
       THEN UNCHANGED <<monoRef, spentAtRef, truth>>
       ELSE /\ monoRef' = 0
            /\ spentAtRef' = Rebuilt
            /\ truth' = [truth EXCEPT !.restarted = TRUE,
                                      !.distrusted = wall < approved]
  /\ life' = [mono |-> Top, wall |-> Top]
  /\ UNCHANGED <<wall, monoRead, approved, lane, ended, worked, bounds>>

Init ==
  /\ up = TRUE
  /\ wall = FirstWall
  /\ mono = 0
  /\ monoRead = None /\ approved = None
  /\ monoRef = 0 /\ spentAtRef = 0
  /\ lane = {}
  /\ life = [mono |-> Top, wall |-> Top]
  /\ ended = FALSE
  /\ worked = {}
  /\ truth = Fresh
  /\ real = 0 /\ sets = 0 /\ restarts = 0

Next ==
  \/ Tick \/ Sleep \/ (\E w \in 0..LastWall : SetWall(w))
  \/ ReadMono \/ ConsentStep \/ Step \/ Reserve \/ Return
  \/ Crash \/ Restart

Spec == Init /\ [][Next]_vars
-----------------------------------------------------------------------------
Deadline == [mono : Time, wall : Time]
Truth == [awake : 0..MaxReal, elapsed : 0..MaxReal, setBack : BOOLEAN,
          restarted : BOOLEAN, distrusted : BOOLEAN]

(* Every measure stays a u64: nothing is subtracted below zero or added    *)
(* past u64::MAX, whatever the clocks do.                                  *)
TypeOK ==
  /\ up \in BOOLEAN /\ ended \in BOOLEAN
  /\ wall \in Time /\ mono \in Time
  /\ monoRead \in Time \cup {None} /\ approved \in Time \cup {None}
  /\ monoRef \in Time /\ spentAtRef \in Time
  /\ SpentMs \in Time
  /\ lane \in SUBSET Deadline /\ life \in Deadline
  /\ worked \in SUBSET Truth /\ truth \in Truth
  /\ real \in 0..MaxReal /\ sets \in 0..MaxSets /\ restarts \in 0..MaxRestarts

(* However the wall clock is set, the process that got the consent never   *)
(* works longer, awake, than the budget (spent_ms's monotonic measure).    *)
AwakeTimeIsCounted ==
  \A w \in worked : ~w.restarted => w.awake < MaxDuration

(* A wall clock nobody sets back counts every moment since the consent:    *)
(* those asleep, and those between two processes (spent_ms, recover).      *)
ElapsedTimeIsCounted ==
  \A w \in worked : ~w.setBack => w.elapsed < MaxDuration

(* A process that starts with a wall clock earlier than the consent does   *)
(* no work for the mission, even if the clock is put right again later     *)
(* (recover counts the whole budget as spent).                             *)
DistrustedClockAdmitsNothing == \A w \in worked : ~w.distrusted

(* The instants copied from the budget never outlive it: whenever the      *)
(* mission is out of time, so are its lane's calls (MissionDeadline) and,  *)
(* in the consent's own process, its File session (FileLife).              *)
DeadlinesEndWithTheBudget ==
  up /\ approved # None /\ OutOfTime =>
    /\ \A d \in lane : Expired(d)
    /\ ~truth.restarted => Expired(life)

(* The time budget holds against any clock: awake time and elapsed time    *)
(* are counted, a distrusted clock admits nothing, and no deadline copied  *)
(* from the budget outlives it.                                            *)
BudgetHolds ==
  /\ AwakeTimeIsCounted /\ ElapsedTimeIsCounted
  /\ DistrustedClockAdmitsNothing /\ DeadlinesEndWithTheBudget
=============================================================================
