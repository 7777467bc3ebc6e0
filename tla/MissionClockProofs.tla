------------------------- MODULE MissionClockProofs -------------------------
(***************************************************************************)
(* Proofs, for every budget and every width of the integers that holds the  *)
(* instants which occur, of what module MissionClock states of the time     *)
(* budget.  The inductive invariant relates what the program can see (two   *)
(* clocks, the reference and what was spent at it) to what really happened: *)
(* in the consent's own process the monotonic clock has counted the awake   *)
(* time, a wall clock nobody set back has counted all of it, and a process  *)
(* that distrusts the wall clock has nothing left to spend.                 *)
(*                                                                          *)
(* The second part is about the doors a mission's runs go through: the      *)
(* broker's table of doors, runs, owner's answers and their places.         *)
(***************************************************************************)
EXTENDS MissionClock, FiniteSetTheorems, TLAPS

\* Where the clocks can be: neither runs ahead of real time, save that somebody
\* sets the wall clock.
ClocksInv ==
  /\ real \in 0..MaxReal
  /\ mono \in Nat /\ mono <= real
  /\ wall \in Nat /\ wall <= LastWall + real
  /\ truth \in [awake : Nat, elapsed : Nat, setBack : BOOLEAN,
                restarted : BOOLEAN, distrusted : BOOLEAN]
  /\ truth.awake <= real /\ truth.elapsed <= real

\* What the mission keeps: the consent's readings of the clocks.
ReferenceInv ==
  /\ monoRead = None \/ (monoRead \in Nat /\ monoRead <= mono /\ approved = None)
  /\ approved = None \/ (approved \in Nat /\ approved <= LastWall + real)
  /\ monoRef \in Nat /\ monoRef <= mono
  /\ spentAtRef \in Time
  /\ approved = None => monoRef = 0 /\ spentAtRef = 0 /\ lane = {}
  /\ ~up => monoRead = None /\ lane = {}

\* What the clocks have counted of what happened.
CountedInv ==
  approved # None =>
    /\ ~truth.restarted => spentAtRef = 0 /\ truth.awake <= mono - monoRef
    /\ ~truth.setBack => truth.elapsed <= wall - approved
    /\ truth.distrusted => spentAtRef = Top

\* What was copied from the budget is still its end.
DeadlineInv ==
  /\ lane \subseteq {LaneDeadline}
  /\ approved # None /\ ~truth.restarted =>
       life = [mono |-> Add(monoRef, MaxDuration), wall |-> Add(approved, MaxDuration)]

WorkedInv ==
  AwakeTimeIsCounted /\ ElapsedTimeIsCounted /\ DistrustedClockAdmitsNothing

ClockInv == ClocksInv /\ ReferenceInv /\ CountedInv /\ DeadlineInv /\ WorkedInv

USE DEF None, Time

\* The budget starts with both clocks unread and nothing spent.
LEMMA InitClockInv == ASSUME Init PROVE ClockInv
  BY ClockAssumption DEF Init, Fresh, ClockInv, ClocksInv, ReferenceInv, CountedInv,
         DeadlineInv, WorkedInv, AwakeTimeIsCounted, ElapsedTimeIsCounted,
         DistrustedClockAdmitsNothing

\* Time passes: the monotonic clock counts it awake, the wall clock always.
LEMMA PassingKeepsInv ==
  ASSUME ClockInv, NEW n \in {0, 1}, Passing(n) PROVE ClockInv'
  <1>1. ClocksInv'
    <2>1. CASE approved = None
      BY <2>1, ClockAssumption DEF Passing, ClockInv, ClocksInv
    <2>2. CASE approved # None
      <3>1. truth' = [truth EXCEPT !.elapsed = @ + 1, !.awake = @ + n]
        BY <2>2 DEF Passing
      <3>2. truth.awake \in Nat /\ truth.elapsed \in Nat /\ truth.setBack \in BOOLEAN
            /\ truth.restarted \in BOOLEAN /\ truth.distrusted \in BOOLEAN
        BY DEF ClockInv, ClocksInv
      <3>3. truth' = [awake |-> truth.awake + n, elapsed |-> truth.elapsed + 1,
                      setBack |-> truth.setBack, restarted |-> truth.restarted,
                      distrusted |-> truth.distrusted]
        BY <3>1 DEF ClockInv, ClocksInv
      <3>. QED
        BY <3>2, <3>3, ClockAssumption DEF Passing, ClockInv, ClocksInv
    <2>. QED
      BY <2>1, <2>2
  <1>2. ReferenceInv'
    BY ClockAssumption DEF Passing, measure, ClockInv, ClocksInv, ReferenceInv
  <1>3. CountedInv'
    BY ClockAssumption DEF Passing, measure, ClockInv, ClocksInv, ReferenceInv, CountedInv
  <1>4. DeadlineInv'
    BY DEF Passing, measure, ClockInv, DeadlineInv, LaneDeadline, Add, Sub
  <1>5. WorkedInv'
    BY DEF Passing, ClockInv, WorkedInv, AwakeTimeIsCounted, ElapsedTimeIsCounted,
           DistrustedClockAdmitsNothing
  <1>. QED
    BY <1>1, <1>2, <1>3, <1>4, <1>5 DEF ClockInv

\* Somebody sets the wall clock: back, which is noted, or forward.
LEMMA SetWallKeepsInv ==
  ASSUME ClockInv, NEW w \in 0..LastWall, SetWall(w) PROVE ClockInv'
  <1>1. ClocksInv'
    <2>1. PICK b \in BOOLEAN : truth' = [truth EXCEPT !.setBack = b]
      BY Zenon DEF SetWall
    <2>. QED
      BY <2>1, ClockAssumption DEF SetWall, ClockInv, ClocksInv
  <1>2. ReferenceInv'
    BY ClockAssumption DEF SetWall, measure, ClockInv, ClocksInv, ReferenceInv
  <1>3. CountedInv'
    <2>1. /\ truth'.awake = truth.awake /\ truth'.elapsed = truth.elapsed
          /\ truth'.restarted = truth.restarted /\ truth'.distrusted = truth.distrusted
      BY DEF SetWall, ClockInv, ClocksInv
    <2>2. ~truth'.setBack => ~truth.setBack /\ ~(approved # None /\ w < wall)
      BY Zenon DEF SetWall, ClockInv, ClocksInv
    <2>. QED
      BY <2>1, <2>2, ClockAssumption DEF SetWall, measure, ClockInv, ClocksInv, ReferenceInv,
             CountedInv
  <1>4. DeadlineInv'
    BY DEF SetWall, measure, ClockInv, DeadlineInv, LaneDeadline, Add, Sub
  <1>5. WorkedInv'
    BY DEF SetWall, ClockInv, WorkedInv, AwakeTimeIsCounted, ElapsedTimeIsCounted,
           DistrustedClockAdmitsNothing
  <1>. QED
    BY <1>1, <1>2, <1>3, <1>4, <1>5 DEF ClockInv

\* Consent: between its two readings the clocks only moved on.
LEMMA ConsentKeepsInv ==
  ASSUME ClockInv, ReadMono \/ ConsentStep PROVE ClockInv'
  <1>1. CASE ReadMono
    BY <1>1 DEF ReadMono, bounds, ClockInv, ClocksInv, ReferenceInv, CountedInv, DeadlineInv,
         LaneDeadline, WorkedInv, AwakeTimeIsCounted, ElapsedTimeIsCounted,
         DistrustedClockAdmitsNothing
  <1>2. CASE ConsentStep
    <2>1. ClocksInv'
      BY <1>2, ClockAssumption DEF ConsentStep, Fresh, bounds, ClockInv, ClocksInv
    <2>2. ReferenceInv'
      BY <1>2, ClockAssumption DEF ConsentStep, bounds, ClockInv, ClocksInv, ReferenceInv
    <2>3. CountedInv'
      BY <1>2 DEF ConsentStep, Fresh, ClockInv, ClocksInv, ReferenceInv, CountedInv
    <2>4. DeadlineInv'
      BY <1>2 DEF ConsentStep, ClockInv, ReferenceInv, DeadlineInv, Add
    <2>5. WorkedInv'
      BY <1>2 DEF ConsentStep, ClockInv, WorkedInv, AwakeTimeIsCounted, ElapsedTimeIsCounted,
             DistrustedClockAdmitsNothing
    <2>. QED
      BY <2>1, <2>2, <2>3, <2>4, <2>5 DEF ClockInv
  <1>. QED
    BY <1>1, <1>2

\* What the budget admits has used less than the budget, by either measure.
LEMMA StepKeepsInv ==
  ASSUME ClockInv, Step PROVE ClockInv'
  <1>1. ClocksInv' /\ ReferenceInv' /\ CountedInv'
    BY DEF Step, bounds, ClockInv, ClocksInv, ReferenceInv, CountedInv
  <1>2. DeadlineInv'
    BY DEF Step, ClockInv, DeadlineInv, LaneDeadline, Add, Sub
  <1>3. CASE OutOfTime
    BY <1>1, <1>2, <1>3 DEF Step, ClockInv, WorkedInv, AwakeTimeIsCounted, ElapsedTimeIsCounted,
           DistrustedClockAdmitsNothing
  <1>4. CASE ~OutOfTime
    <2>1. worked' = {truth} /\ approved # None
      BY <1>4 DEF Step, Going
    <2>2. SpentByWall < MaxDuration /\ SpentByMono < MaxDuration
      <3>1. SpentByWall \in Nat /\ SpentByMono \in Nat
        BY <2>1, ClockAssumption DEF SpentByWall, SpentByMono, Add, Sub, ClockInv, ClocksInv,
               ReferenceInv
      <3>. QED
        BY <1>4, <3>1, ClockAssumption DEF OutOfTime, SpentMs, Larger
    <2>3. ~truth.restarted => truth.awake < MaxDuration
      BY <2>1, <2>2, ClockAssumption DEF SpentByMono, Add, Sub, ClockInv, ClocksInv, ReferenceInv,
             CountedInv
    <2>4. ~truth.setBack => truth.elapsed < MaxDuration
      BY <2>1, <2>2, ClockAssumption DEF SpentByWall, Sub, ClockInv, ClocksInv, ReferenceInv,
             CountedInv
    <2>5. ~truth.distrusted
      BY <2>1, <2>2, ClockAssumption DEF SpentByMono, Add, Sub, ClockInv, ClocksInv, ReferenceInv,
             CountedInv
    <2>6. WorkedInv'
      BY <2>1, <2>3, <2>4, <2>5 DEF WorkedInv, AwakeTimeIsCounted, ElapsedTimeIsCounted,
             DistrustedClockAdmitsNothing
    <2>. QED
      BY <1>1, <1>2, <2>6 DEF ClockInv
  <1>. QED
    BY <1>3, <1>4

\* A reservation copies the budget's end; its return forgets the copy.
LEMMA LaneKeepsInv ==
  ASSUME ClockInv, Reserve \/ Return PROVE ClockInv'
  <1>1. ClocksInv' /\ ReferenceInv' /\ CountedInv'
    BY DEF Reserve, Return, Going, bounds, ClockInv, ClocksInv, ReferenceInv, CountedInv
  <1>2. DeadlineInv'
    BY DEF Reserve, Return, ClockInv, DeadlineInv, LaneDeadline, Add, Sub
  <1>3. WorkedInv'
    BY DEF Reserve, Return, ClockInv, WorkedInv, AwakeTimeIsCounted, ElapsedTimeIsCounted,
           DistrustedClockAdmitsNothing
  <1>. QED
    BY <1>1, <1>2, <1>3 DEF ClockInv

\* The process ends and another one rebuilds the measure from the wall clock.
LEMMA ProcessKeepsInv ==
  ASSUME ClockInv, Crash \/ Restart PROVE ClockInv'
  <1>1. CASE Crash
    <2>1. ClocksInv' /\ ReferenceInv' /\ CountedInv'
      BY <1>1 DEF Crash, ClockInv, ClocksInv, ReferenceInv, CountedInv
    <2>2. DeadlineInv'
      BY <1>1 DEF Crash, ClockInv, DeadlineInv
    <2>3. WorkedInv'
      BY <1>1 DEF Crash, ClockInv, WorkedInv, AwakeTimeIsCounted, ElapsedTimeIsCounted,
             DistrustedClockAdmitsNothing
    <2>. QED
      BY <2>1, <2>2, <2>3 DEF ClockInv
  <1>2. CASE Restart
    <2>1. ClocksInv'
      <3>1. truth' = truth \/ \E b \in BOOLEAN :
              truth' = [truth EXCEPT !.restarted = TRUE, !.distrusted = b]
        <4>1. (wall < approved) \in BOOLEAN
          OBVIOUS
        <4>2. CASE approved = None
          BY <1>2, <4>2 DEF Restart
        <4>3. CASE approved # None
          <5>1. truth' = [truth EXCEPT !.restarted = TRUE, !.distrusted = wall < approved]
            BY <1>2, <4>3, Zenon DEF Restart
          <5>. QED
            BY <4>1, <5>1, Zenon
        <4>. QED
          BY <4>2, <4>3
      <3>2. /\ truth' \in [awake : Nat, elapsed : Nat, setBack : BOOLEAN,
                            restarted : BOOLEAN, distrusted : BOOLEAN]
            /\ truth'.awake = truth.awake /\ truth'.elapsed = truth.elapsed
        BY <3>1 DEF ClockInv, ClocksInv
      <3>. QED
        BY <1>2, <3>2 DEF Restart, bounds, ClockInv, ClocksInv
    <2>2. ReferenceInv'
      BY <1>2, ClockAssumption DEF Restart, Rebuilt, bounds, ClockInv, ClocksInv, ReferenceInv
    <2>3. CountedInv'
      BY <1>2 DEF Restart, Rebuilt, ClockInv, ClocksInv, ReferenceInv, CountedInv
    <2>4. DeadlineInv'
      <3>1. lane' = {} /\ approved' = approved
        BY <1>2 DEF Restart, ClockInv, ReferenceInv
      <3>2. approved # None => truth'.restarted
        BY <1>2 DEF Restart, ClockInv, ClocksInv
      <3>. QED
        BY <3>1, <3>2 DEF DeadlineInv
    <2>5. WorkedInv'
      BY <1>2 DEF Restart, ClockInv, WorkedInv, AwakeTimeIsCounted, ElapsedTimeIsCounted,
             DistrustedClockAdmitsNothing
    <2>. QED
      BY <2>1, <2>2, <2>3, <2>4, <2>5 DEF ClockInv
  <1>. QED
    BY <1>1, <1>2
\* A step that changes nothing keeps it.
LEMMA StutterKeepsInv == ASSUME ClockInv, UNCHANGED vars PROVE ClockInv'
  BY DEF vars, measure, bounds, ClockInv, ClocksInv, ReferenceInv, CountedInv, DeadlineInv,
         LaneDeadline, WorkedInv, AwakeTimeIsCounted, ElapsedTimeIsCounted,
         DistrustedClockAdmitsNothing

\* Where the invariant holds, a copied deadline has passed when the budget has:
\* by the wall clock, or by the monotonic one.
LEMMA CopiesEnd == ASSUME ClockInv PROVE DeadlinesEndWithTheBudget
  <1>. SUFFICES ASSUME up, approved # None, OutOfTime
                PROVE  (\A d \in lane : Expired(d)) /\ (~truth.restarted => Expired(life))
    BY DEF DeadlinesEndWithTheBudget
  <1>1. /\ approved \in Nat /\ approved <= LastWall + MaxReal
        /\ monoRef \in Nat /\ monoRef <= mono /\ mono \in Nat /\ mono <= MaxReal
        /\ wall \in Nat /\ spentAtRef \in 0..Top
    BY ClockAssumption DEF ClockInv, ClocksInv, ReferenceInv
  <1>2. SpentByWall >= MaxDuration \/ SpentByMono >= MaxDuration
    BY DEF OutOfTime, SpentMs, Larger
  <1>3. SpentByWall >= MaxDuration => wall >= Add(approved, MaxDuration)
    BY <1>1, ClockAssumption DEF SpentByWall, Sub, Add
  <1>4. SpentByMono >= MaxDuration => mono >= Add(monoRef, Sub(MaxDuration, spentAtRef))
    BY <1>1, ClockAssumption DEF SpentByMono, Sub, Add
  <1>5. \A d \in lane : Expired(d)
    <2>1. \A d \in lane : d.mono = Add(monoRef, Sub(MaxDuration, spentAtRef))
                            /\ d.wall = Add(approved, MaxDuration)
      BY DEF ClockInv, DeadlineInv, LaneDeadline
    <2>. QED
      BY <1>2, <1>3, <1>4, <2>1 DEF Expired
  <1>6. ~truth.restarted => Expired(life)
    <2>. SUFFICES ASSUME ~truth.restarted PROVE Expired(life)
      OBVIOUS
    <2>1. life.mono = Add(monoRef, MaxDuration) /\ life.wall = Add(approved, MaxDuration)
      BY DEF ClockInv, DeadlineInv
    <2>2. Sub(MaxDuration, spentAtRef) = MaxDuration
      BY ClockAssumption DEF ClockInv, CountedInv, Sub
    <2>. QED
      BY <1>2, <1>3, <1>4, <2>1, <2>2 DEF Expired
  <1>. QED
    BY <1>5, <1>6

(* For every budget: whatever is done to the wall clock and however often    *)
(* the process ends, the mission works no longer than its budget, awake in   *)
(* the consent's process and altogether while nobody sets the clock back; a  *)
(* process that starts before the consent's time works not at all; and the   *)
(* deadlines of lanes and of the File session end with the budget (spent_ms, *)
(* recover, reserve_lane).                                                   *)
THEOREM BudgetAlwaysHolds == Spec => []BudgetHolds
  <1>1. Init => ClockInv
    BY InitClockInv
  <1>2. ClockInv /\ [Next]_vars => ClockInv'
    <2>. SUFFICES ASSUME ClockInv, [Next]_vars PROVE ClockInv'
      OBVIOUS
    <2>1. CASE Tick \/ Sleep
      BY <2>1, PassingKeepsInv DEF Tick, Sleep
    <2>2. CASE \E w \in 0..LastWall : SetWall(w)
      BY <2>2, SetWallKeepsInv
    <2>3. CASE ReadMono \/ ConsentStep
      BY <2>3, ConsentKeepsInv
    <2>4. CASE Step
      BY <2>4, StepKeepsInv
    <2>5. CASE Reserve \/ Return
      BY <2>5, LaneKeepsInv
    <2>6. CASE Crash \/ Restart
      BY <2>6, ProcessKeepsInv
    <2>7. CASE UNCHANGED vars
      BY <2>7, StutterKeepsInv
    <2>. QED
      BY <2>1, <2>2, <2>3, <2>4, <2>5, <2>6, <2>7 DEF Next
  <1>3. ClockInv => BudgetHolds
    BY CopiesEnd DEF ClockInv, WorkedInv, BudgetHolds
  <1>. QED
    BY <1>1, <1>2, <1>3, PTL DEF Spec
-----------------------------------------------------------------------------
(***************************************************************************)
(* The doors: that doors and runs list each other is inductive once it is   *)
(* said of all of them, in the table or out of it; that a door never halted *)
(* holds each cached yes needs the question to carry the stop's number it   *)
(* was asked under; and a place is counted by the questions that hold one.  *)
(***************************************************************************)
CONSTANTS Doors, Runs, Questions, Owner, Contracts, Facts, MaxDoors, MaxGroups,
          MaxConsents, RunCapacity, MaxAttempts, MaxStops
VARIABLES door, run, question, reg, engaged, halts

Table == INSTANCE Doors

HeldAt == {"reserved", "recorded", "open"}
KeptAt == {"inserted", "open"}

DoorRec ==
  [at : HeldAt \cup {"none", "gone"}, alive : BOOLEAN, active : BOOLEAN, halted : BOOLEAN,
   cell : BOOLEAN, members : SUBSET Runs, consents : SUBSET Questions, pending : Nat]
RunRec ==
  [at : KeptAt \cup {"none", "gone"}, cancelled : BOOLEAN, finished : BOOLEAN,
   groups : SUBSET Doors, by : Doors \cup {Table!None}, cell : BOOLEAN,
   files : Questions \cup {Table!None}, inference : Questions \cup {Table!None},
   attempts : Nat]
QuestionRec ==
  [at : {"none", "asked", "recorded", "yes", "ended"}, door : Doors \cup {Owner, Table!None},
   contract : Contracts \cup {Table!None}, facts : Facts \cup {Table!None}, epoch : Nat,
   asked : Nat]

TableShape ==
  /\ door \in [Doors -> DoorRec]
  /\ run \in [Runs -> RunRec]
  /\ question \in [Questions -> QuestionRec]
  /\ reg \in [stopped : BOOLEAN, epoch : Nat, closed : BOOLEAN]
  /\ engaged \in BOOLEAN
  /\ halts \in [Doors -> BOOLEAN]

\* A door that is not in the table lists nothing; one never asked for was
\* neither halted nor asked in; one in the table knows of its halt.
DoorsKnow ==
  \A g \in Doors :
    /\ door[g].at \notin HeldAt => door[g].members = {} /\ door[g].consents = {}
    /\ door[g].at = "none" => ~halts[g] /\ Table!Slots(g) = {}
    /\ door[g].at \in HeldAt /\ halts[g] => door[g].halted

\* A yes in a door was asked in it, since the last stop, and the door was never
\* halted.
YesesKnow ==
  \A g \in Doors : \A q \in door[g].consents :
    /\ question[q].at = "yes" /\ question[q].door = g
    /\ question[q].epoch = reg.epoch /\ question[q].asked = reg.epoch
    /\ ~halts[g]

\* A question holds one of its door's places until it is over.
SlotsKnow ==
  \A g \in Doors : door[g].at \in HeldAt =>
    /\ door[g].pending = Cardinality(Table!Slots(g))
    /\ Cardinality(door[g].consents) + door[g].pending <= MaxConsents

\* Doors and runs list each other, in the table or out of it.
RunsKnow ==
  /\ \A r \in Runs :
       /\ run[r].at \notin KeptAt => run[r].groups = {}
       /\ run[r].at = "none" => run[r].files = Table!None /\ run[r].inference = Table!None
  /\ \A g \in Doors, r \in Runs : r \in door[g].members <=> g \in run[r].groups
  /\ \A g \in Doors, r \in Runs : halts[g] /\ g \in run[r].groups => Table!Ended(r)

TableInv == TableShape /\ DoorsKnow /\ YesesKnow /\ SlotsKnow /\ RunsKnow

\* The instance's finite sets are the finite sets.
LEMMA SameCount ==
  \A S : (Table!IsFiniteSet(S) <=> IsFiniteSet(S)) /\ Table!Cardinality(S) = Cardinality(S)
<1>1. \A S : Table!IsFiniteSet(S) <=> IsFiniteSet(S)
  BY Zenon DEF IsFiniteSet, Table!IsFiniteSet
<1>2. \A S : Table!Cardinality(S) = Cardinality(S)
  BY Zenon DEF Cardinality, Table!Cardinality
<1> QED BY <1>1, <1>2

\* One question more, one less.
LEMMA CountedQuestions ==
  ASSUME Table!DoorsAssumption, NEW S, S \subseteq Questions
  PROVE  /\ Cardinality(S) \in Nat
         /\ \A q : q \notin S => Cardinality(S \cup {q}) = Cardinality(S) + 1
         /\ \A q \in S : Cardinality(S \ {q}) + 1 = Cardinality(S)
<1>1. S \in SUBSET Questions /\ IsFiniteSet(Questions)
  BY SameCount DEF Table!DoorsAssumption
<1>2. IsFiniteSet(S) /\ Cardinality(S) \in Nat
  BY <1>1, FS_Subset, FS_CardinalityType
<1>3. \A q : q \notin S => Cardinality(S \cup {q}) = Cardinality(S) + 1
  BY <1>2, FS_AddElement
<1>4. \A q \in S : Cardinality(S \ {q}) + 1 = Cardinality(S)
  <2>1. \A q \in S : Cardinality(S \ {q}) = Cardinality(S) - 1
    BY <1>2, FS_RemoveElement
  <2> QED BY <1>2, <2>1
<1> QED BY <1>2, <1>3, <1>4

LEMMA TableInitially ==
  ASSUME Table!DoorsAssumption, Table!Init
  PROVE  TableInv
<1>1. TableShape
  BY DEF Table!Init, TableShape, DoorRec, RunRec, QuestionRec, Table!NewDoor, Table!NewRun,
         Table!NewQuestion, HeldAt, KeptAt, Table!None
<1>2. DoorsKnow /\ YesesKnow /\ SlotsKnow
  BY DEF Table!Init, DoorsKnow, YesesKnow, SlotsKnow, Table!NewDoor, Table!NewQuestion,
         Table!Slots, HeldAt
<1>3. RunsKnow
  BY DEF Table!Init, RunsKnow, Table!NewDoor, Table!NewRun, KeptAt
<1> QED BY <1>1, <1>2, <1>3 DEF TableInv

\* The parts that rest on the questions alone, when no question changes.
LEMMA SameQuestions ==
  ASSUME question' = question
  PROVE  \A g \in Doors : Table!Slots(g)' = Table!Slots(g)
BY DEF Table!Slots

\* A step at one door that leaves its lists, its halt and its places alone.
LEMMA DoorStep ==
  ASSUME TableInv, NEW g \in Doors, NEW d \in DoorRec, door' = [door EXCEPT ![g] = d],
         door[g].at \in HeldAt, d.at \in HeldAt, d.halted = door[g].halted,
         d.members = door[g].members, d.consents = door[g].consents,
         d.pending = door[g].pending,
         run' = run, question' = question, reg' = reg, engaged' = engaged, halts' = halts
  PROVE  TableInv'
<1>1. TableShape /\ DoorsKnow /\ YesesKnow /\ SlotsKnow /\ RunsKnow
  BY DEF TableInv
<1>2. TableShape'
  BY <1>1 DEF TableShape
<1>3. \A h \in Doors :
        /\ door'[h].members = door[h].members /\ door'[h].consents = door[h].consents
        /\ door'[h].pending = door[h].pending /\ door'[h].halted = door[h].halted
        /\ door'[h].at = door[h].at \/ (door'[h].at \in HeldAt /\ door[h].at \in HeldAt)
        /\ Table!Slots(h)' = Table!Slots(h)
  BY <1>1, SameQuestions DEF TableShape
<1>4. DoorsKnow'
  BY <1>1, <1>3 DEF DoorsKnow, HeldAt
<1>5. YesesKnow'
  BY <1>1, <1>3 DEF YesesKnow
<1>6. SlotsKnow'
  BY <1>1, <1>3 DEF SlotsKnow, HeldAt
<1>7. RunsKnow'
  BY <1>1, <1>3 DEF RunsKnow, Table!Ended, Table!None
<1> QED BY <1>2, <1>4, <1>5, <1>6, <1>7 DEF TableInv

\* A step at one run that keeps it in the table, in its doors, and ended if it
\* was.
LEMMA RunStep ==
  ASSUME TableInv, NEW r \in Runs, NEW x \in RunRec, run' = [run EXCEPT ![r] = x],
         run[r].at \in KeptAt, x.at \in KeptAt, x.groups = run[r].groups,
         Table!Ended(r) => x.cancelled \/ x.finished,
         door' = door, question' = question, reg' = reg, engaged' = engaged, halts' = halts
  PROVE  TableInv'
<1>1. TableShape /\ DoorsKnow /\ YesesKnow /\ SlotsKnow /\ RunsKnow
  BY DEF TableInv
<1>2. TableShape'
  BY <1>1 DEF TableShape
<1>3. \A s \in Runs :
        /\ run'[s].groups = run[s].groups
        /\ s # r => run'[s] = run[s]
        /\ run'[r].at \in KeptAt
        /\ Table!Ended(s) => run'[s].cancelled \/ run'[s].finished
  BY <1>1 DEF TableShape, Table!Ended
<1>4. DoorsKnow' /\ YesesKnow' /\ SlotsKnow'
  BY <1>1, SameQuestions DEF DoorsKnow, YesesKnow, SlotsKnow
<1>5. RunsKnow'
  <2>1. \A s \in Runs :
          /\ run'[s].at \notin KeptAt => run'[s].groups = {}
          /\ run'[s].at = "none" => run'[s].files = Table!None
                                    /\ run'[s].inference = Table!None
    BY <1>1, <1>3 DEF RunsKnow, KeptAt
  <2>2. \A g \in Doors, s \in Runs : s \in door'[g].members <=> g \in run'[s].groups
    BY <1>1, <1>3 DEF RunsKnow
  <2>3. \A g \in Doors, s \in Runs : halts'[g] /\ g \in run'[s].groups =>
          run'[s].cancelled \/ run'[s].finished
    BY <1>1, <1>3 DEF RunsKnow
  <2> QED BY <2>1, <2>2, <2>3 DEF RunsKnow, Table!Ended, Table!None
<1> QED BY <1>2, <1>4, <1>5 DEF TableInv

\* A step that changes neither doors nor runs nor questions nor the stop's number.
LEMMA RegistryStep ==
  ASSUME TableInv, TableShape', door' = door, run' = run, question' = question,
         reg'.epoch = reg.epoch, halts' = halts
  PROVE  TableInv'
<1>1. DoorsKnow /\ YesesKnow /\ SlotsKnow /\ RunsKnow
  BY DEF TableInv
<1>2. DoorsKnow' /\ SlotsKnow' /\ YesesKnow'
  BY <1>1, SameQuestions DEF DoorsKnow, YesesKnow, SlotsKnow
<1>3. RunsKnow'
  BY <1>1 DEF RunsKnow, Table!Ended, Table!None
<1> QED BY <1>2, <1>3 DEF TableInv

LEMMA AloneAtADoor ==
  ASSUME Table!DoorsAssumption, TableInv, NEW g \in Doors,
         Table!AnswerDoor(g) \/ Table!Activate(g) \/ Table!DropDoor(g) \/ Table!AttachCell(g)
  PROVE  TableInv'
<1>0. TableShape /\ door[g] \in DoorRec
  BY DEF TableInv, TableShape
<1>1. run' = run /\ question' = question /\ reg' = reg /\ engaged' = engaged
      /\ halts' = halts
  BY DEF Table!AnswerDoor, Table!Activate, Table!DropDoor, Table!AttachCell
<1>2. PICK at \in HeldAt, alive \in BOOLEAN, active \in BOOLEAN, cell \in BOOLEAN :
        /\ door[g].at \in HeldAt
        /\ door' = [door EXCEPT ![g] = [door[g] EXCEPT
                      !.at = at, !.alive = alive, !.active = active, !.cell = cell]]
  <2>1. CASE Table!AnswerDoor(g)
    <3>1. door[g].at = "reserved" /\ door[g].alive \in BOOLEAN
          /\ door[g].active \in BOOLEAN /\ door[g].cell \in BOOLEAN
      BY <1>0, <2>1 DEF Table!AnswerDoor, DoorRec
    <3>2. CASE door' = [door EXCEPT ![g].at = "recorded"]
      <4>1. door' = [door EXCEPT ![g] = [door[g] EXCEPT !.at = "recorded",
               !.alive = door[g].alive, !.active = door[g].active, !.cell = door[g].cell]]
        BY <1>0, <3>1, <3>2 DEF DoorRec, TableShape
      <4> QED BY <3>1, <4>1 DEF HeldAt
    <3>3. CASE door' = [door EXCEPT ![g].alive = FALSE]
      <4>1. door' = [door EXCEPT ![g] = [door[g] EXCEPT !.at = "reserved",
               !.alive = FALSE, !.active = door[g].active, !.cell = door[g].cell]]
        BY <1>0, <3>1, <3>3 DEF DoorRec, TableShape
      <4> QED BY <3>1, <4>1 DEF HeldAt
    <3> QED BY <2>1, <3>2, <3>3 DEF Table!AnswerDoor
  <2>2. CASE Table!Activate(g)
    <3>1. door[g].at = "recorded" /\ door[g].alive \in BOOLEAN /\ door[g].cell \in BOOLEAN
      BY <1>0, <2>2 DEF Table!Activate, DoorRec
    <3>2. door' = [door EXCEPT ![g] = [door[g] EXCEPT !.at = "open",
             !.alive = door[g].alive, !.active = TRUE, !.cell = door[g].cell]]
      BY <1>0, <2>2, <3>1 DEF Table!Activate, DoorRec, TableShape
    <3> QED BY <3>1, <3>2 DEF HeldAt
  <2>3. CASE Table!DropDoor(g)
    <3>1. door[g].at = "open" /\ door[g].active \in BOOLEAN /\ door[g].cell \in BOOLEAN
      BY <1>0, <2>3 DEF Table!DropDoor, DoorRec
    <3>2. door' = [door EXCEPT ![g] = [door[g] EXCEPT !.at = "open",
             !.alive = FALSE, !.active = door[g].active, !.cell = door[g].cell]]
      BY <1>0, <2>3, <3>1 DEF Table!DropDoor, DoorRec, TableShape
    <3> QED BY <3>1, <3>2 DEF HeldAt
  <2>4. CASE Table!AttachCell(g)
    <3>1. door[g].at = "open" /\ door[g].active \in BOOLEAN /\ door[g].alive \in BOOLEAN
      BY <1>0, <2>4 DEF Table!AttachCell, DoorRec
    <3>2. door' = [door EXCEPT ![g] = [door[g] EXCEPT !.at = "open",
             !.alive = door[g].alive, !.active = door[g].active, !.cell = TRUE]]
      BY <1>0, <2>4, <3>1 DEF Table!AttachCell, DoorRec, TableShape
    <3> QED BY <3>1, <3>2 DEF HeldAt
  <2> QED BY <2>1, <2>2, <2>3, <2>4
<1> DEFINE d == [door[g] EXCEPT !.at = at, !.alive = alive, !.active = active, !.cell = cell]
<1>3. /\ d \in DoorRec /\ d.at \in HeldAt /\ d.halted = door[g].halted
      /\ d.members = door[g].members /\ d.consents = door[g].consents
      /\ d.pending = door[g].pending
  BY <1>0, <1>2 DEF DoorRec
<1>4. door' = [door EXCEPT ![g] = d]
  BY <1>2
<1> HIDE DEF d
<1> QED BY <1>1, <1>2, <1>3, <1>4, DoorStep

LEMMA AloneAtARun ==
  ASSUME Table!DoorsAssumption, TableInv, NEW r \in Runs,
         \/ Table!RecordOpened(r) \/ Table!Cancel(r) \/ Table!Finish(r)
         \/ \E g \in Doors, c \in Contracts :
              Table!AdmitFiles(r, g, c) \/ Table!AdmitInference(r, g, c)
         \/ \E g \in Doors : Table!ModelCall(r, g)
  PROVE  TableInv'
<1>0. TableShape /\ run[r] \in RunRec
  BY DEF TableInv, TableShape
<1>1. /\ door' = door /\ question' = question /\ reg' = reg /\ engaged' = engaged
      /\ halts' = halts /\ run[r].at \in KeptAt
  BY DEF Table!RecordOpened, Table!Cancel, Table!Finish, Table!AdmitFiles,
         Table!AdmitInference, Table!ModelCall, Table!MayAdmit, Table!LiveMember,
         Table!Kept, KeptAt
<1>2. \E x \in RunRec : /\ run' = [run EXCEPT ![r] = x]
                        /\ x.at \in KeptAt /\ x.groups = run[r].groups
                        /\ Table!Ended(r) => x.cancelled \/ x.finished
  <2>1. CASE run' = [run EXCEPT ![r].at = "open"]
    <3> DEFINE x == [run[r] EXCEPT !.at = "open"]
    <3>1. x \in RunRec /\ x.at \in KeptAt /\ x.groups = run[r].groups
          /\ x.cancelled = run[r].cancelled /\ x.finished = run[r].finished
      BY <1>0 DEF RunRec, KeptAt
    <3>2. run' = [run EXCEPT ![r] = x]
      BY <2>1
    <3> HIDE DEF x
    <3> QED BY <3>1, <3>2 DEF Table!Ended
  <2>2. CASE run' = [run EXCEPT ![r].at = "open", ![r].cancelled = TRUE]
    <3> DEFINE x == [run[r] EXCEPT !.at = "open", !.cancelled = TRUE]
    <3>1. x \in RunRec /\ x.at \in KeptAt /\ x.groups = run[r].groups
          /\ x.cancelled = TRUE
      BY <1>0 DEF RunRec, KeptAt
    <3>2. run' = [run EXCEPT ![r] = x]
      BY <1>0, <2>2 DEF TableShape, RunRec
    <3> HIDE DEF x
    <3> QED BY <3>1, <3>2
  <2>3. CASE run' = [run EXCEPT ![r].cancelled = TRUE]
    <3> DEFINE x == [run[r] EXCEPT !.cancelled = TRUE]
    <3>1. x \in RunRec /\ x.at = run[r].at /\ x.groups = run[r].groups
          /\ x.cancelled = TRUE
      BY <1>0 DEF RunRec
    <3>2. run' = [run EXCEPT ![r] = x]
      BY <2>3
    <3> HIDE DEF x
    <3> QED BY <1>1, <3>1, <3>2
  <2>4. CASE run' = [run EXCEPT ![r].finished = TRUE]
    <3> DEFINE x == [run[r] EXCEPT !.finished = TRUE]
    <3>1. x \in RunRec /\ x.at = run[r].at /\ x.groups = run[r].groups
          /\ x.finished = TRUE
      BY <1>0 DEF RunRec
    <3>2. run' = [run EXCEPT ![r] = x]
      BY <2>4
    <3> HIDE DEF x
    <3> QED BY <1>1, <3>1, <3>2
  <2>5. ASSUME NEW q \in Questions, run' = [run EXCEPT ![r].files = q]
        PROVE  \E x \in RunRec : /\ run' = [run EXCEPT ![r] = x]
                                 /\ x.at \in KeptAt /\ x.groups = run[r].groups
                                 /\ Table!Ended(r) => x.cancelled \/ x.finished
    <3> DEFINE x == [run[r] EXCEPT !.files = q]
    <3>1. x \in RunRec /\ x.at = run[r].at /\ x.groups = run[r].groups
          /\ x.cancelled = run[r].cancelled /\ x.finished = run[r].finished
      BY <1>0 DEF RunRec
    <3>2. run' = [run EXCEPT ![r] = x]
      BY <2>5
    <3> HIDE DEF x
    <3> QED BY <1>1, <3>1, <3>2 DEF Table!Ended
  <2>6. ASSUME NEW q \in Questions, run' = [run EXCEPT ![r].inference = q]
        PROVE  \E x \in RunRec : /\ run' = [run EXCEPT ![r] = x]
                                 /\ x.at \in KeptAt /\ x.groups = run[r].groups
                                 /\ Table!Ended(r) => x.cancelled \/ x.finished
    <3> DEFINE x == [run[r] EXCEPT !.inference = q]
    <3>1. x \in RunRec /\ x.at = run[r].at /\ x.groups = run[r].groups
          /\ x.cancelled = run[r].cancelled /\ x.finished = run[r].finished
      BY <1>0 DEF RunRec
    <3>2. run' = [run EXCEPT ![r] = x]
      BY <2>6
    <3> HIDE DEF x
    <3> QED BY <1>1, <3>1, <3>2 DEF Table!Ended
  <2>7. CASE run' = [run EXCEPT ![r].attempts = @ + 1]
    <3> DEFINE x == [run[r] EXCEPT !.attempts = run[r].attempts + 1]
    <3>1. x \in RunRec /\ x.at = run[r].at /\ x.groups = run[r].groups
          /\ x.cancelled = run[r].cancelled /\ x.finished = run[r].finished
      BY <1>0 DEF RunRec
    <3>2. run' = [run EXCEPT ![r] = x]
      BY <2>7
    <3> HIDE DEF x
    <3> QED BY <1>1, <3>1, <3>2 DEF Table!Ended
  <2>8. \A g \in Doors, c \in Contracts : Table!Matching(g, c) \subseteq Questions
    BY <1>0 DEF Table!Matching, TableShape, DoorRec
  <2> QED BY <2>1, <2>2, <2>3, <2>4, <2>5, <2>6, <2>7, <2>8
          DEF Table!RecordOpened, Table!Cancel, Table!Finish, Table!AdmitFiles,
              Table!AdmitInference, Table!ModelCall
<1> QED BY <1>1, <1>2, RunStep

LEMMA CellAndLift ==
  ASSUME TableInv, Table!EngageCell \/ Table!Lift \/ Table!Close
  PROVE  TableInv'
<1>1. /\ door' = door /\ run' = run /\ question' = question /\ halts' = halts
      /\ engaged' \in BOOLEAN
      /\ reg' \in [stopped : BOOLEAN, epoch : Nat, closed : BOOLEAN]
      /\ reg'.epoch = reg.epoch
  BY DEF Table!EngageCell, Table!Lift, Table!Close, TableInv, TableShape
<1>2. TableShape'
  BY <1>1 DEF TableInv, TableShape
<1> QED BY <1>1, <1>2, RegistryStep

\* A step of question q: its door's list may gain it as a yes.
LEMMA QuestionStep ==
  ASSUME TableInv, TableShape', SlotsKnow', NEW q \in Questions, question[q].at # "yes",
         \A p \in Questions \ {q} : question'[p] = question[p],
         run' = run, reg' = reg, halts' = halts,
         \A h \in Doors :
           /\ door'[h].at = door[h].at /\ door'[h].members = door[h].members
           /\ door'[h].halted = door[h].halted
           /\ door'[h].consents \subseteq door[h].consents \cup {q}
           /\ q \in door'[h].consents =>
                /\ question'[q].at = "yes" /\ question'[q].door = h
                /\ question'[q].epoch = reg.epoch /\ question'[q].asked = reg.epoch
                /\ ~halts[h] /\ door[h].at \in HeldAt
           /\ q \in Table!Slots(h)' => door[h].at # "none"
  PROVE  TableInv'
<1>1. TableShape /\ DoorsKnow /\ YesesKnow /\ RunsKnow
  BY DEF TableInv
<1>2. \A h \in Doors : q \notin door[h].consents
  BY <1>1 DEF YesesKnow
<1>3. \A h \in Doors : Table!Slots(h)' \subseteq Table!Slots(h) \cup {q}
  BY DEF Table!Slots
<1>4. DoorsKnow'
  BY <1>1, <1>3 DEF DoorsKnow
<1>5. YesesKnow'
  <2>1. SUFFICES ASSUME NEW h \in Doors, NEW p \in door'[h].consents
                 PROVE  /\ question'[p].at = "yes" /\ question'[p].door = h
                        /\ question'[p].epoch = reg.epoch /\ question'[p].asked = reg.epoch
                        /\ ~halts[h]
    BY DEF YesesKnow
  <2>2. CASE p = q
    BY <2>1, <2>2
  <2>3. CASE p # q
    <3>1. p \in door[h].consents /\ p \in Questions
      BY <1>1, <2>1, <2>3 DEF TableShape, DoorRec
    <3> QED BY <1>1, <2>3, <3>1 DEF YesesKnow
  <2> QED BY <2>2, <2>3
<1>6. RunsKnow'
  BY <1>1 DEF RunsKnow, Table!Ended, Table!None
<1> QED BY <1>4, <1>5, <1>6 DEF TableInv

\* The slots of every door but the question's own stay as they are.
LEMMA OtherSlots ==
  ASSUME NEW q \in Questions, \A p \in Questions \ {q} : question'[p] = question[p],
         NEW h \in Doors, q \notin Table!Slots(h), q \notin Table!Slots(h)'
  PROVE  Table!Slots(h)' = Table!Slots(h)
BY DEF Table!Slots

LEMMA AskDoorStep ==
  ASSUME Table!DoorsAssumption, TableInv, NEW q \in Questions, NEW g \in Doors,
         NEW c \in Contracts, NEW f \in Facts, Table!AskDoor(q, g, c, f)
  PROVE  TableInv'
<1> DEFINE y == [at |-> "asked", door |-> g, contract |-> c, facts |-> f,
                 epoch |-> reg.epoch, asked |-> reg.epoch]
           d == [door[g] EXCEPT !.pending = door[g].pending + 1]
<1>1. /\ question[q].at = "none" /\ question' = [question EXCEPT ![q] = y]
      /\ door' = [door EXCEPT ![g] = d] /\ door[g].at \in HeldAt
      /\ Cardinality(door[g].consents) + door[g].pending < MaxConsents
      /\ run' = run /\ reg' = reg /\ engaged' = engaged /\ halts' = halts
  BY SameCount DEF Table!AskDoor, Table!LiveDoor, Table!Held, HeldAt
<1>2. TableShape /\ SlotsKnow /\ door[g] \in DoorRec /\ reg.epoch \in Nat
  BY DEF TableInv, TableShape
<1>3. /\ d \in DoorRec /\ d.at = door[g].at /\ d.members = door[g].members
      /\ d.halted = door[g].halted /\ d.consents = door[g].consents
      /\ d.pending = door[g].pending + 1
  BY <1>2 DEF DoorRec
<1>4. y \in QuestionRec /\ y.at = "asked" /\ y.door = g
  BY <1>2 DEF QuestionRec
<1> HIDE DEF y, d
<1>5. /\ \A h \in Doors \ {g} : door'[h] = door[h]
      /\ door'[g] = d
      /\ \A p \in Questions \ {q} : question'[p] = question[p]
      /\ question'[q] = y
  BY <1>1, <1>2 DEF TableShape
<1>6. TableShape'
  BY <1>1, <1>2, <1>3, <1>4 DEF TableShape, Table!None
<1>7. q \notin Table!Slots(g) /\ Table!Slots(g)' = Table!Slots(g) \cup {q}
  BY <1>1, <1>4, <1>5 DEF Table!Slots
<1>8. \A h \in Doors \ {g} : Table!Slots(h)' = Table!Slots(h) /\ q \notin Table!Slots(h)'
  BY <1>1, <1>4, <1>5, OtherSlots DEF Table!Slots
<1>9. SlotsKnow'
  <2>1. SUFFICES ASSUME NEW h \in Doors, door'[h].at \in HeldAt
                 PROVE  /\ door'[h].pending = Cardinality(Table!Slots(h)')
                        /\ Cardinality(door'[h].consents) + door'[h].pending <= MaxConsents
    BY DEF SlotsKnow
  <2>2. CASE h # g
    BY <1>2, <1>5, <1>8, <2>1, <2>2 DEF SlotsKnow
  <2>3. CASE h = g
    <3>1. Table!Slots(g) \subseteq Questions /\ door[g].consents \subseteq Questions
      BY <1>2 DEF Table!Slots, DoorRec
    <3>2. Cardinality(Table!Slots(g)') = Cardinality(Table!Slots(g)) + 1
      BY <1>7, <3>1, CountedQuestions
    <3>3. /\ door[g].pending = Cardinality(Table!Slots(g)) /\ door[g].pending \in Nat
          /\ Cardinality(door[g].consents) \in Nat /\ MaxConsents \in Nat
      BY <1>1, <1>2, <3>1, CountedQuestions DEF SlotsKnow, DoorRec, Table!DoorsAssumption
    <3> QED BY <1>1, <1>3, <1>5, <2>3, <3>2, <3>3
  <2> QED BY <2>2, <2>3
<1>10. \A h \in Doors :
           /\ door'[h].at = door[h].at /\ door'[h].members = door[h].members
           /\ door'[h].halted = door[h].halted /\ door'[h].consents = door[h].consents
  BY <1>3, <1>5
<1>11. \A h \in Doors : q \notin door[h].consents
  BY <1>1 DEF TableInv, YesesKnow
<1>12. \A h \in Doors : q \in Table!Slots(h)' => door[h].at # "none"
  BY <1>1, <1>8 DEF HeldAt
<1> QED BY <1>1, <1>5, <1>6, <1>9, <1>10, <1>11, <1>12, QuestionStep

\* A question that takes no place and gives none back.
LEMMA FreeQuestionStep ==
  ASSUME Table!DoorsAssumption, TableInv, NEW q \in Questions,
         Table!RecordYes(q) \/ \E c \in Contracts, f \in Facts : Table!AskOwner(q, c, f)
  PROVE  TableInv'
<1>0. TableShape /\ SlotsKnow /\ question[q] \in QuestionRec /\ reg.epoch \in Nat
  BY DEF TableInv, TableShape
<1>1. /\ question[q].at \in {"none", "asked"} /\ door' = door /\ run' = run
      /\ reg' = reg /\ engaged' = engaged /\ halts' = halts
  BY DEF Table!RecordYes, Table!AskOwner
<1>2. \E y \in QuestionRec :
        /\ question' = [question EXCEPT ![q] = y]
        /\ \A h \in Doors : y.door = h /\ y.at \in {"asked", "recorded"} <=>
                            question[q].door = h /\ question[q].at \in {"asked", "recorded"}
  <2>1. CASE Table!RecordYes(q)
    <3> DEFINE at == IF question[q].door = Owner THEN "yes" ELSE "recorded"
               y == [question[q] EXCEPT !.at = at]
    <3>1. question' = [question EXCEPT ![q] = y] /\ question[q].at = "asked"
      BY <2>1 DEF Table!RecordYes
    <3>2. at \in {"yes", "recorded"}
      OBVIOUS
    <3>3. y \in QuestionRec /\ y.at = at /\ y.door = question[q].door
      <4> HIDE DEF at
      <4> QED BY <1>0, <3>2 DEF QuestionRec
    <3> HIDE DEF y
    <3>4. \A h \in Doors : y.door = h /\ y.at \in {"asked", "recorded"} <=>
                           question[q].door = h /\ question[q].at \in {"asked", "recorded"}
      BY <3>1, <3>3 DEF Table!DoorsAssumption
    <3> QED BY <3>1, <3>3, <3>4
  <2>2. ASSUME NEW c \in Contracts, NEW f \in Facts, Table!AskOwner(q, c, f)
        PROVE  \E y \in QuestionRec :
                 /\ question' = [question EXCEPT ![q] = y]
                 /\ \A h \in Doors : y.door = h /\ y.at \in {"asked", "recorded"} <=>
                      question[q].door = h /\ question[q].at \in {"asked", "recorded"}
    <3> DEFINE y == [at |-> "asked", door |-> Owner, contract |-> c, facts |-> f,
                     epoch |-> reg.epoch, asked |-> reg.epoch]
    <3>1. question' = [question EXCEPT ![q] = y] /\ question[q].at = "none"
      BY <2>2 DEF Table!AskOwner
    <3>2. y \in QuestionRec /\ y.door = Owner
      BY <1>0 DEF QuestionRec
    <3> HIDE DEF y
    <3> QED BY <3>1, <3>2 DEF Table!DoorsAssumption
  <2> QED BY <2>1, <2>2
<1>3. PICK y \in QuestionRec :
        /\ question' = [question EXCEPT ![q] = y]
        /\ \A h \in Doors : y.door = h /\ y.at \in {"asked", "recorded"} <=>
                            question[q].door = h /\ question[q].at \in {"asked", "recorded"}
  BY <1>2
<1>4. question'[q] = y /\ \A p \in Questions \ {q} : question'[p] = question[p]
  BY <1>0, <1>3 DEF TableShape
<1>5. \A h \in Doors : Table!Slots(h)' = Table!Slots(h)
  BY <1>3, <1>4 DEF Table!Slots
<1>6. TableShape'
  BY <1>0, <1>1, <1>3 DEF TableShape, Table!None
<1>7. SlotsKnow'
  BY <1>0, <1>1, <1>5 DEF SlotsKnow
<1>8. \A h \in Doors : q \notin door[h].consents
  BY <1>1 DEF TableInv, YesesKnow
<1>9. \A h \in Doors : q \in Table!Slots(h)' => door[h].at # "none"
  BY <1>5 DEF TableInv, DoorsKnow
<1> QED BY <1>1, <1>4, <1>6, <1>7, <1>8, <1>9, QuestionStep

\* A question carries the stop's number it was asked under.
AskedKnow == \A q \in Questions : question[q].epoch = question[q].asked

LEMMA AskedKept ==
  ASSUME TableShape, AskedKnow, [Table!Next]_(Table!vars)
  PROVE  AskedKnow'
<1>0. question \in [Questions -> QuestionRec]
  BY DEF TableShape
<1>1. ASSUME NEW q \in Questions, NEW y \in QuestionRec, y.epoch = y.asked,
             question' = [question EXCEPT ![q] = y]
      PROVE  AskedKnow'
  BY <1>0, <1>1 DEF AskedKnow
<1>2. ASSUME NEW q \in Questions, NEW at \in {"recorded", "yes", "ended"},
             question' = [question EXCEPT ![q].at = at]
      PROVE  AskedKnow'
  <2> DEFINE y == [question[q] EXCEPT !.at = at]
  <2>1. y \in QuestionRec /\ y.epoch = question[q].epoch /\ y.asked = question[q].asked
    BY <1>0 DEF QuestionRec
  <2>2. question' = [question EXCEPT ![q] = y]
    BY <1>2
  <2> HIDE DEF y
  <2> QED BY <1>1, <2>1, <2>2 DEF AskedKnow
<1>3. ASSUME NEW q \in Questions, NEW g \in Doors \cup {Owner}, NEW c \in Contracts,
             NEW f \in Facts,
             question' = [question EXCEPT ![q] =
                            [at |-> "asked", door |-> g, contract |-> c, facts |-> f,
                             epoch |-> reg.epoch, asked |-> reg.epoch]]
      PROVE  AskedKnow'
  <2>1. reg.epoch \in Nat
    BY DEF TableShape
  <2> DEFINE y == [at |-> "asked", door |-> g, contract |-> c, facts |-> f,
                   epoch |-> reg.epoch, asked |-> reg.epoch]
  <2>2. y \in QuestionRec /\ y.epoch = y.asked
    BY <2>1 DEF QuestionRec
  <2>3. question' = [question EXCEPT ![q] = y]
    BY <1>3
  <2> HIDE DEF y
  <2> QED BY <1>1, <2>2, <2>3
<1>4. CASE question' = question
  BY <1>4 DEF AskedKnow
<1>5. ASSUME NEW q \in Questions, NEW g \in Doors, NEW c \in Contracts, NEW f \in Facts,
             Table!AskDoor(q, g, c, f)
      PROVE  AskedKnow'
  BY <1>3, <1>5 DEF Table!AskDoor
<1>6. ASSUME NEW q \in Questions, NEW c \in Contracts, NEW f \in Facts,
             Table!AskOwner(q, c, f)
      PROVE  AskedKnow'
  BY <1>3, <1>6 DEF Table!AskOwner
<1>7. ASSUME NEW q \in Questions, Table!Decline(q) \/ Table!RecordYes(q) \/ Table!Fill(q)
      PROVE  AskedKnow'
  <2>1. \E at \in {"recorded", "yes", "ended"} : question' = [question EXCEPT ![q].at = at]
    BY <1>7 DEF Table!Decline, Table!RecordYes, Table!Fill
  <2> QED BY <1>2, <2>1
<1>8. CASE UNCHANGED Table!vars
  BY <1>4, <1>8 DEF Table!vars
<1>9. ASSUME NEW g \in Doors,
             Table!Reserve(g) \/ Table!AnswerDoor(g) \/ Table!Activate(g)
             \/ Table!DropDoor(g) \/ Table!AttachCell(g) \/ Table!HaltGroup(g)
      PROVE  AskedKnow'
  BY <1>4, <1>9 DEF Table!Reserve, Table!AnswerDoor, Table!Activate, Table!DropDoor,
                    Table!AttachCell, Table!HaltGroup
<1>10. ASSUME NEW r \in Runs, Table!RecordOpened(r) \/ Table!Cancel(r) \/ Table!Finish(r)
       PROVE  AskedKnow'
  BY <1>4, <1>10 DEF Table!RecordOpened, Table!Cancel, Table!Finish
<1>11. ASSUME NEW r \in Runs, NEW g \in Doors \cup {Table!None}, Table!Open(r, g)
       PROVE  AskedKnow'
  BY <1>4, <1>11 DEF Table!Open
<1>12. ASSUME NEW r \in Runs, NEW g \in Doors, Table!Join(r, g) \/ Table!ModelCall(r, g)
       PROVE  AskedKnow'
  BY <1>4, <1>12 DEF Table!Join, Table!ModelCall
<1>13. ASSUME NEW r \in Runs, NEW g \in Doors, NEW c \in Contracts,
              Table!AdmitFiles(r, g, c) \/ Table!AdmitInference(r, g, c)
       PROVE  AskedKnow'
  BY <1>4, <1>13 DEF Table!AdmitFiles, Table!AdmitInference
<1>14. CASE Table!Reclaim \/ Table!EngageCell \/ Table!Stop \/ Table!Lift \/ Table!Close
  BY <1>4, <1>14 DEF Table!Reclaim, Table!EngageCell, Table!Stop, Table!Lift, Table!Close
<1> QED BY <1>5, <1>6, <1>7, <1>8, <1>9, <1>10, <1>11, <1>12, <1>13, <1>14 DEF Table!Next

\* A question that is over gives its place back, and may leave a yes behind.
LEMMA QuestionOver ==
  ASSUME Table!DoorsAssumption, TableInv, TableShape', NEW q \in Questions,
         NEW y \in QuestionRec,
         question[q].at \in {"asked", "recorded"}, question' = [question EXCEPT ![q] = y],
         y.at \in {"yes", "ended"}, run' = run, reg' = reg, halts' = halts,
         \A h \in Doors :
           /\ door'[h].at = door[h].at /\ door'[h].members = door[h].members
           /\ door'[h].halted = door[h].halted
           /\ door[h].at \in HeldAt =>
                IF h = question[q].door THEN door'[h].pending = door[h].pending - 1
                ELSE door'[h].pending = door[h].pending
           /\ \/ door'[h].consents = door[h].consents
              \/ /\ door'[h].consents = door[h].consents \cup {q}
                 /\ door[h].at \in HeldAt /\ h = question[q].door
                 /\ y.at = "yes" /\ y.door = h /\ y.epoch = reg.epoch
                 /\ y.asked = reg.epoch /\ ~halts[h]
  PROVE  TableInv'
<1>0. TableShape /\ SlotsKnow /\ YesesKnow
  BY DEF TableInv
<1>1. question'[q] = y /\ \A p \in Questions \ {q} : question'[p] = question[p]
  BY <1>0 DEF TableShape
<1>2. \A h \in Doors : q \notin door[h].consents
  BY <1>0 DEF YesesKnow
<1>3. \A h \in Doors : q \notin Table!Slots(h)' /\ Table!Slots(h)' = Table!Slots(h) \ {q}
                       /\ (q \in Table!Slots(h) <=> h = question[q].door)
  BY <1>1 DEF Table!Slots
<1>4. SlotsKnow'
  <2>1. SUFFICES ASSUME NEW h \in Doors, door'[h].at \in HeldAt
                 PROVE  /\ door'[h].pending = Cardinality(Table!Slots(h)')
                        /\ Cardinality(door'[h].consents) + door'[h].pending <= MaxConsents
    BY DEF SlotsKnow
  <2>2. /\ Table!Slots(h) \subseteq Questions /\ door[h].consents \subseteq Questions
        /\ door[h].pending \in Nat /\ MaxConsents \in Nat
    BY <1>0 DEF Table!Slots, TableShape, DoorRec, Table!DoorsAssumption
  <2>3. /\ Cardinality(Table!Slots(h)) \in Nat /\ Cardinality(door[h].consents) \in Nat
        /\ door[h].pending = Cardinality(Table!Slots(h))
        /\ Cardinality(door[h].consents) + door[h].pending <= MaxConsents
    BY <1>0, <2>1, <2>2, CountedQuestions DEF SlotsKnow
  <2>4. CASE h # question[q].door
    <3>1. Table!Slots(h)' = Table!Slots(h)
      <4>1. q \notin Table!Slots(h) /\ Table!Slots(h)' = Table!Slots(h) \ {q}
        BY <1>3, <2>4
      <4> QED BY <4>1, Zenon
    <3>2. door'[h].consents = door[h].consents /\ door'[h].pending = door[h].pending
      BY <2>1, <2>4
    <3> QED BY <2>3, <3>1, <3>2
  <2>5. CASE h = question[q].door
    <3>1. /\ Cardinality(Table!Slots(h) \ {q}) + 1 = Cardinality(Table!Slots(h))
          /\ Cardinality(Table!Slots(h) \ {q}) \in Nat
      BY <1>3, <2>2, <2>5, CountedQuestions
    <3>2. Table!Slots(h)' = Table!Slots(h) \ {q} /\ door'[h].pending = door[h].pending - 1
      BY <1>3, <2>1, <2>5
    <3>3. Cardinality(door'[h].consents) \in {Cardinality(door[h].consents),
                                              Cardinality(door[h].consents) + 1}
      BY <1>2, <2>2, CountedQuestions
    <3>4. door'[h].pending = Cardinality(Table!Slots(h)')
      BY <2>3, <3>1, <3>2
    <3> QED BY <2>2, <2>3, <3>1, <3>2, <3>3, <3>4
  <2> QED BY <2>4, <2>5
<1>5. \A h \in Doors :
           /\ door'[h].consents \subseteq door[h].consents \cup {q}
           /\ q \in door'[h].consents =>
                /\ question'[q].at = "yes" /\ question'[q].door = h
                /\ question'[q].epoch = reg.epoch /\ question'[q].asked = reg.epoch
                /\ ~halts[h] /\ door[h].at \in HeldAt
  BY <1>1, <1>2
<1> QED BY <1>1, <1>3, <1>4, <1>5, QuestionStep

\* Giving a place back, where the door still counts it.
LEMMA PlaceReleased ==
  ASSUME Table!DoorsAssumption, TableInv, NEW q \in Questions,
         question[q].at \in {"asked", "recorded"}
  PROVE  /\ Table!Released(question[q].door) \in [Doors -> DoorRec]
         /\ \A h \in Doors :
              /\ Table!Released(question[q].door)[h].at = door[h].at
              /\ Table!Released(question[q].door)[h].members = door[h].members
              /\ Table!Released(question[q].door)[h].halted = door[h].halted
              /\ Table!Released(question[q].door)[h].consents = door[h].consents
              /\ door[h].at \in HeldAt =>
                   IF h = question[q].door
                   THEN Table!Released(question[q].door)[h].pending = door[h].pending - 1
                   ELSE Table!Released(question[q].door)[h].pending = door[h].pending
<1>0. TableShape /\ SlotsKnow
  BY DEF TableInv
<1> DEFINE g == question[q].door
<1>1. CASE g \notin Table!Held
  <2>1. \A h \in Doors : door[h].at \in HeldAt => h # g
    BY <1>1 DEF Table!Held, HeldAt
  <2>2. Table!Released(g) = door
    BY <1>1 DEF Table!Released
  <2> QED BY <1>0, <2>1, <2>2 DEF TableShape
<1>2. CASE g \in Table!Held
  <2>1. g \in Doors /\ door[g].at \in HeldAt /\ door[g] \in DoorRec
    BY <1>0, <1>2 DEF Table!Held, HeldAt, TableShape
  <2>2. q \in Table!Slots(g) /\ Table!Slots(g) \subseteq Questions
    BY DEF Table!Slots
  <2>3. door[g].pending > 0 /\ door[g].pending \in Nat
    <3>1. /\ Cardinality(Table!Slots(g) \ {q}) + 1 = Cardinality(Table!Slots(g))
          /\ Cardinality(Table!Slots(g) \ {q}) \in Nat
      BY <2>2, CountedQuestions
    <3>2. door[g].pending = Cardinality(Table!Slots(g))
      BY <1>0, <2>1 DEF SlotsKnow
    <3> QED BY <3>1, <3>2
  <2> DEFINE d == [door[g] EXCEPT !.pending = door[g].pending - 1]
  <2>4. Table!Released(g) = [door EXCEPT ![g] = d]
    BY <1>2, <2>3 DEF Table!Released
  <2>5. /\ d \in DoorRec /\ d.at = door[g].at /\ d.members = door[g].members
        /\ d.halted = door[g].halted /\ d.consents = door[g].consents
        /\ d.pending = door[g].pending - 1
    BY <2>1, <2>3 DEF DoorRec
  <2> HIDE DEF d
  <2>6. \A h \in Doors : Table!Released(g)[h] = IF h = g THEN d ELSE door[h]
    BY <1>0, <2>1, <2>4 DEF TableShape
  <2>7. Table!Released(g) \in [Doors -> DoorRec]
    BY <1>0, <2>4, <2>5 DEF TableShape
  <2> QED BY <2>5, <2>6, <2>7
<1> QED BY <1>1, <1>2

LEMMA AnswerStep ==
  ASSUME Table!DoorsAssumption, TableInv, AskedKnow, NEW q \in Questions,
         Table!Decline(q) \/ Table!Fill(q)
  PROVE  TableInv'
<1> DEFINE g == question[q].door
           D == Table!Released(g)
<1>0. TableShape /\ DoorsKnow /\ question[q] \in QuestionRec
  BY DEF TableInv, TableShape
<1>1. /\ question[q].at \in {"asked", "recorded"} /\ run' = run /\ reg' = reg
      /\ engaged' = engaged /\ halts' = halts
  BY DEF Table!Decline, Table!Fill
<1>2. /\ D \in [Doors -> DoorRec]
      /\ \A h \in Doors :
              /\ D[h].at = door[h].at /\ D[h].members = door[h].members
              /\ D[h].halted = door[h].halted /\ D[h].consents = door[h].consents
              /\ door[h].at \in HeldAt =>
                   IF h = g THEN D[h].pending = door[h].pending - 1
                   ELSE D[h].pending = door[h].pending
  BY <1>1, PlaceReleased
<1> HIDE DEF D
<1>3. ASSUME NEW at \in {"yes", "ended"}, question' = [question EXCEPT ![q].at = at]
      PROVE  \E y \in QuestionRec :
               /\ question' = [question EXCEPT ![q] = y] /\ y.at = at /\ y.door = g
               /\ y.epoch = question[q].epoch /\ y.asked = question[q].asked
  <2> DEFINE y == [question[q] EXCEPT !.at = at]
  <2>1. y \in QuestionRec /\ y.at = at /\ y.door = g
        /\ y.epoch = question[q].epoch /\ y.asked = question[q].asked
    BY <1>0, <1>3 DEF QuestionRec
  <2>2. question' = [question EXCEPT ![q] = y]
    BY <1>3
  <2> HIDE DEF y
  <2> QED BY <2>1, <2>2
<1>4. CASE door' = D /\ question' = [question EXCEPT ![q].at = "ended"]
  <2>1. PICK y \in QuestionRec :
               question' = [question EXCEPT ![q] = y] /\ y.at = "ended"
    BY <1>3, <1>4
  <2>2. TableShape'
    BY <1>0, <1>1, <1>2, <1>4, <2>1 DEF TableShape, Table!None
  <2>3. \A h \in Doors :
           /\ door'[h].at = door[h].at /\ door'[h].members = door[h].members
           /\ door'[h].halted = door[h].halted
           /\ door[h].at \in HeldAt =>
                IF h = g THEN door'[h].pending = door[h].pending - 1
                ELSE door'[h].pending = door[h].pending
           /\ door'[h].consents = door[h].consents
    BY <1>2, <1>4
  <2> QED BY <1>1, <2>1, <2>2, <2>3, QuestionOver
<1>5. CASE /\ Table!Fills(q) /\ door' = [D EXCEPT ![g].consents = @ \cup {q}]
           /\ question' = [question EXCEPT ![q].at = "yes"]
  <2>1. PICK y \in QuestionRec :
               /\ question' = [question EXCEPT ![q] = y] /\ y.at = "yes" /\ y.door = g
               /\ y.epoch = question[q].epoch /\ y.asked = question[q].asked
    BY <1>3, <1>5
  <2>2. /\ g \in Doors /\ door[g].at \in HeldAt /\ ~door[g].halted
        /\ reg.epoch = question[q].epoch
    BY <1>5 DEF Table!Fills, Table!LiveDoor, Table!DoorHalted, Table!Held, HeldAt
  <2>3. ~halts[g] /\ question[q].asked = reg.epoch
    BY <1>0, <2>2 DEF DoorsKnow, AskedKnow
  <2> DEFINE d == [D[g] EXCEPT !.consents = D[g].consents \cup {q}]
  <2>4. door' = [D EXCEPT ![g] = d]
    BY <1>5
  <2>5. D[g] \in DoorRec
    BY <1>2, <2>2
  <2>6. /\ d \in DoorRec /\ d.at = D[g].at /\ d.members = D[g].members
        /\ d.halted = D[g].halted /\ d.consents = D[g].consents \cup {q}
        /\ d.pending = D[g].pending
    BY <2>5 DEF DoorRec
  <2> HIDE DEF d, g
  <2>7. \A h \in Doors : door'[h] = IF h = g THEN d ELSE D[h]
    BY <1>2, <2>2, <2>4
  <2>8. TableShape'
    <3>1. door' \in [Doors -> DoorRec] /\ question' \in [Questions -> QuestionRec]
      BY <1>0, <1>2, <2>1, <2>4, <2>6 DEF TableShape
    <3> QED BY <1>0, <1>1, <3>1 DEF TableShape, Table!None
  <2>9. \A h \in Doors :
           /\ door'[h].at = door[h].at /\ door'[h].members = door[h].members
           /\ door'[h].halted = door[h].halted
           /\ door[h].at \in HeldAt =>
                IF h = g THEN door'[h].pending = door[h].pending - 1
                ELSE door'[h].pending = door[h].pending
    BY <1>2, <2>6, <2>7
  <2>10. \A h \in Doors :
           \/ door'[h].consents = door[h].consents
           \/ /\ door'[h].consents = door[h].consents \cup {q}
              /\ door[h].at \in HeldAt /\ h = g
              /\ y.at = "yes" /\ y.door = h /\ y.epoch = reg.epoch
              /\ y.asked = reg.epoch /\ ~halts[h]
    BY <1>2, <2>1, <2>2, <2>3, <2>6, <2>7
  <2> QED BY <1>1, <2>1, <2>8, <2>9, <2>10, QuestionOver DEF g
<1>6. QED
  BY <1>4, <1>5 DEF Table!Decline, Table!Fill, D

\* A halt or a stop: yeses are dropped, and the runs of what is halted are ended.
LEMMA HaltStep ==
  ASSUME Table!DoorsAssumption, TableInv, TableShape', question' = question,
         \A h \in Doors :
           /\ door'[h].at = door[h].at /\ door'[h].members = door[h].members
           /\ door'[h].pending = door[h].pending
           /\ \/ door'[h].consents = {}
              \/ /\ door'[h].consents = door[h].consents /\ halts'[h] = halts[h]
                 /\ reg'.epoch = reg.epoch
           /\ door[h].halted => door'[h].halted
           /\ halts'[h] => halts[h] \/ (door'[h].halted /\ door[h].at \in HeldAt),
         \A r \in Runs :
           /\ run'[r].at = run[r].at /\ run'[r].groups = run[r].groups
           /\ run'[r].files = run[r].files /\ run'[r].inference = run[r].inference
           /\ Table!Ended(r) => run'[r].cancelled \/ run'[r].finished,
         \A h \in Doors, r \in Runs :
           halts'[h] /\ h \in run[r].groups => halts[h] \/ run'[r].cancelled
  PROVE  TableInv'
<1>0. TableShape /\ DoorsKnow /\ YesesKnow /\ SlotsKnow /\ RunsKnow
  BY DEF TableInv
<1>1. \A h \in Doors : Table!Slots(h)' = Table!Slots(h)
  BY SameQuestions
<1>2. DoorsKnow'
  <2>1. \A h \in Doors : door'[h].consents = {} \/ door'[h].consents = door[h].consents
    OBVIOUS
  <2>2. \A h \in Doors :
          door'[h].at \notin HeldAt => door'[h].members = {} /\ door'[h].consents = {}
    BY <1>0, <2>1 DEF DoorsKnow
  <2>3. \A h \in Doors : door'[h].at = "none" => ~halts'[h] /\ Table!Slots(h)' = {}
    BY <1>0, <1>1 DEF DoorsKnow, HeldAt
  <2>4. \A h \in Doors : door'[h].at \in HeldAt /\ halts'[h] => door'[h].halted
    BY <1>0 DEF DoorsKnow
  <2> QED BY <2>2, <2>3, <2>4 DEF DoorsKnow
<1>3. YesesKnow'
  BY <1>0 DEF YesesKnow
<1>4. SlotsKnow'
  <2>1. SUFFICES ASSUME NEW h \in Doors, door'[h].at \in HeldAt
                 PROVE  /\ door'[h].pending = Cardinality(Table!Slots(h)')
                        /\ Cardinality(door'[h].consents) + door'[h].pending <= MaxConsents
    BY DEF SlotsKnow
  <2>2. /\ door[h].pending = Cardinality(Table!Slots(h)) /\ door[h].pending \in Nat
        /\ Cardinality(door[h].consents) + door[h].pending <= MaxConsents
    BY <1>0, <2>1 DEF SlotsKnow, TableShape, DoorRec
  <2>3. Cardinality(door[h].consents) \in Nat /\ MaxConsents \in Nat
    BY <1>0, CountedQuestions DEF TableShape, DoorRec, Table!DoorsAssumption
  <2>4. Cardinality({}) = 0
    BY FS_EmptySet
  <2>5. door'[h].consents = {} \/ door'[h].consents = door[h].consents
    OBVIOUS
  <2>6. door'[h].pending = Cardinality(Table!Slots(h)') /\ door'[h].pending = door[h].pending
    BY <1>1, <2>2
  <2>7. Cardinality(door'[h].consents) \in {0, Cardinality(door[h].consents)}
    BY <2>4, <2>5
  <2> DEFINE m == Cardinality(door'[h].consents)
             n == Cardinality(door[h].consents)
             k == door[h].pending
  <2>8. m \in {0, n} /\ n \in Nat /\ k \in Nat /\ n + k <= MaxConsents /\ MaxConsents \in Nat
    BY <2>2, <2>3, <2>7
  <2>9. m + k <= MaxConsents
    <3> HIDE DEF m, n, k
    <3> QED BY <2>8
  <2> QED BY <2>6, <2>9
<1>5. RunsKnow'
  <2>1. \A r \in Runs :
          /\ run'[r].at \notin KeptAt => run'[r].groups = {}
          /\ run'[r].at = "none" => run'[r].files = Table!None
                                    /\ run'[r].inference = Table!None
    BY <1>0 DEF RunsKnow
  <2>2. \A h \in Doors, r \in Runs : r \in door'[h].members <=> h \in run'[r].groups
    BY <1>0 DEF RunsKnow
  <2>3. \A h \in Doors, r \in Runs : halts'[h] /\ h \in run'[r].groups =>
          run'[r].cancelled \/ run'[r].finished
    BY <1>0 DEF RunsKnow
  <2> QED BY <2>1, <2>2, <2>3 DEF RunsKnow, Table!Ended, Table!None
<1> QED BY <1>2, <1>3, <1>4, <1>5 DEF TableInv

\* Cancelling runs of the table changes nothing else of them.
LEMMA RunsCancelled ==
  ASSUME TableShape, NEW S, run' = [r \in Runs |-> IF r \in S
                                       THEN [run[r] EXCEPT !.cancelled = TRUE] ELSE run[r]]
  PROVE  /\ run' \in [Runs -> RunRec]
         /\ \A r \in Runs :
              /\ run'[r].at = run[r].at /\ run'[r].groups = run[r].groups
              /\ run'[r].files = run[r].files /\ run'[r].inference = run[r].inference
              /\ Table!Ended(r) => run'[r].cancelled \/ run'[r].finished
              /\ r \in S => run'[r].cancelled
<1>1. ASSUME NEW r \in Runs
      PROVE  /\ run'[r] \in RunRec
             /\ run'[r].at = run[r].at /\ run'[r].groups = run[r].groups
             /\ run'[r].files = run[r].files /\ run'[r].inference = run[r].inference
             /\ Table!Ended(r) => run'[r].cancelled \/ run'[r].finished
             /\ r \in S => run'[r].cancelled
  <2>0. run[r] \in RunRec
    BY DEF TableShape
  <2>1. CASE r \in S
    <3> DEFINE x == [run[r] EXCEPT !.cancelled = TRUE]
    <3>1. run'[r] = x
      BY <2>1
    <3>2. x \in RunRec /\ x.at = run[r].at /\ x.groups = run[r].groups
          /\ x.files = run[r].files /\ x.inference = run[r].inference /\ x.cancelled = TRUE
      BY <2>0 DEF RunRec
    <3> HIDE DEF x
    <3> QED BY <3>1, <3>2
  <2>2. CASE r \notin S
    BY <2>0, <2>2 DEF Table!Ended
  <2> QED BY <2>1, <2>2
<1> QED BY <1>1

LEMMA HaltGroupStep ==
  ASSUME Table!DoorsAssumption, TableInv, NEW g \in Doors, Table!HaltGroup(g)
  PROVE  TableInv'
<1>0. TableShape /\ RunsKnow /\ door[g] \in DoorRec
  BY DEF TableInv, TableShape
<1> DEFINE d == [door[g] EXCEPT !.halted = TRUE, !.consents = {}]
<1>1. /\ door[g].at \in HeldAt /\ door' = [door EXCEPT ![g] = d]
      /\ halts' = [halts EXCEPT ![g] = TRUE]
      /\ question' = question /\ reg' = reg
      /\ engaged' = (engaged \/ door[g].cell)
  <2>1. door' = [door EXCEPT ![g].halted = TRUE, ![g].consents = {}]
    BY DEF Table!HaltGroup
  <2>2. door' = [door EXCEPT ![g] = d]
    BY <1>0, <2>1 DEF TableShape, DoorRec
  <2> HIDE DEF d
  <2> QED BY <2>2 DEF Table!HaltGroup, Table!Held, HeldAt
<1>2. /\ d \in DoorRec /\ d.at = door[g].at /\ d.members = door[g].members
      /\ d.pending = door[g].pending /\ d.halted = TRUE /\ d.consents = {}
  BY <1>0 DEF DoorRec
<1> HIDE DEF d
<1>3. run' = [r \in Runs |-> IF r \in door[g].members \cap Table!Kept
                 THEN [run[r] EXCEPT !.cancelled = TRUE] ELSE run[r]]
  BY DEF Table!HaltGroup
<1>4. /\ run' \in [Runs -> RunRec]
      /\ \A r \in Runs :
              /\ run'[r].at = run[r].at /\ run'[r].groups = run[r].groups
              /\ run'[r].files = run[r].files /\ run'[r].inference = run[r].inference
              /\ Table!Ended(r) => run'[r].cancelled \/ run'[r].finished
              /\ r \in door[g].members \cap Table!Kept => run'[r].cancelled
  BY <1>0, <1>3, RunsCancelled
<1>5. \A h \in Doors : /\ door'[h] = IF h = g THEN d ELSE door[h]
                       /\ halts'[h] = IF h = g THEN TRUE ELSE halts[h]
  BY <1>0, <1>1 DEF TableShape
<1>6. TableShape'
  <2>1. engaged' \in BOOLEAN
    BY <1>0, <1>1 DEF TableShape, DoorRec
  <2>2. door' \in [Doors -> DoorRec] /\ halts' \in [Doors -> BOOLEAN]
    BY <1>0, <1>1, <1>2 DEF TableShape
  <2> QED BY <1>0, <1>1, <1>4, <2>1, <2>2 DEF TableShape, Table!None
<1>7. \A h \in Doors, r \in Runs :
           halts'[h] /\ h \in run[r].groups => halts[h] \/ run'[r].cancelled
  <2>1. SUFFICES ASSUME NEW r \in Runs, g \in run[r].groups
                 PROVE  run'[r].cancelled
    BY <1>5
  <2>2. r \in door[g].members /\ run[r].at \in KeptAt
    BY <1>0, <2>1 DEF RunsKnow
  <2> QED BY <1>4, <2>2 DEF Table!Kept, KeptAt
<1>8. \A h \in Doors :
           /\ door'[h].at = door[h].at /\ door'[h].members = door[h].members
           /\ door'[h].pending = door[h].pending
           /\ \/ door'[h].consents = {}
              \/ /\ door'[h].consents = door[h].consents /\ halts'[h] = halts[h]
                 /\ reg'.epoch = reg.epoch
           /\ door[h].halted => door'[h].halted
           /\ halts'[h] => halts[h] \/ (door'[h].halted /\ door[h].at \in HeldAt)
  BY <1>1, <1>2, <1>5
<1> QED BY <1>1, <1>4, <1>6, <1>7, <1>8, HaltStep

LEMMA StopStep ==
  ASSUME Table!DoorsAssumption, TableInv, Table!Stop
  PROVE  TableInv'
<1>0. TableShape
  BY DEF TableInv
<1>1. /\ door' = [g \in Doors |-> [door[g] EXCEPT !.consents = {}]]
      /\ question' = question /\ halts' = halts /\ engaged' = TRUE
      /\ reg' = [reg EXCEPT !.stopped = TRUE, !.epoch = @ + 1]
      /\ run' = [r \in Runs |-> IF r \in Table!Kept
                   THEN [run[r] EXCEPT !.cancelled = TRUE] ELSE run[r]]
  BY DEF Table!Stop
<1>2. /\ run' \in [Runs -> RunRec]
      /\ \A r \in Runs :
              /\ run'[r].at = run[r].at /\ run'[r].groups = run[r].groups
              /\ run'[r].files = run[r].files /\ run'[r].inference = run[r].inference
              /\ Table!Ended(r) => run'[r].cancelled \/ run'[r].finished
  BY <1>0, <1>1, RunsCancelled
<1>3. ASSUME NEW h \in Doors
      PROVE  /\ door'[h] \in DoorRec
             /\ door'[h].at = door[h].at /\ door'[h].members = door[h].members
             /\ door'[h].pending = door[h].pending /\ door'[h].consents = {}
             /\ door'[h].halted = door[h].halted
  <2>1. door[h] \in DoorRec
    BY <1>0 DEF TableShape
  <2>2. door'[h] = [door[h] EXCEPT !.consents = {}]
    BY <1>1
  <2> QED BY <2>1, <2>2 DEF DoorRec
<1>4. door' \in [Doors -> DoorRec]
  BY <1>1, <1>3
<1>5. reg' \in [stopped : BOOLEAN, epoch : Nat, closed : BOOLEAN]
  <2>1. reg \in [stopped : BOOLEAN, epoch : Nat, closed : BOOLEAN] /\ reg.epoch + 1 \in Nat
    BY <1>0 DEF TableShape
  <2>2. reg' = [reg EXCEPT !.stopped = TRUE, !.epoch = reg.epoch + 1]
    BY <1>1
  <2> DEFINE n == reg.epoch + 1
  <2> HIDE DEF n
  <2>3. reg' = [reg EXCEPT !.stopped = TRUE, !.epoch = n] /\ n \in Nat
    BY <2>1, <2>2 DEF n
  <2> QED BY <2>1, <2>3
<1>6. TableShape'
  BY <1>0, <1>1, <1>2, <1>4, <1>5 DEF TableShape, Table!None
<1>7. \A h \in Doors :
           /\ door'[h].at = door[h].at /\ door'[h].members = door[h].members
           /\ door'[h].pending = door[h].pending
           /\ \/ door'[h].consents = {}
              \/ /\ door'[h].consents = door[h].consents /\ halts'[h] = halts[h]
                 /\ reg'.epoch = reg.epoch
           /\ door[h].halted => door'[h].halted
           /\ halts'[h] => halts[h] \/ (door'[h].halted /\ door[h].at \in HeldAt)
  BY <1>1, <1>3
<1>8. \A h \in Doors, r \in Runs :
           halts'[h] /\ h \in run[r].groups => halts[h] \/ run'[r].cancelled
  BY <1>1
<1> QED BY <1>1, <1>2, <1>6, <1>7, <1>8, HaltStep

\* Lists change, doors enter the table and leave it; no answer is touched.
LEMMA ListStep ==
  ASSUME Table!DoorsAssumption, TableInv, TableShape', RunsKnow',
         question' = question, reg' = reg, halts' = halts,
         \A h \in Doors :
           \/ /\ door'[h].at = "gone" /\ door[h].at \in HeldAt
              /\ door'[h].members = {} /\ door'[h].consents = {}
           \/ /\ door'[h].at = "reserved" /\ door[h].at = "none"
              /\ door'[h].consents = {} /\ door'[h].pending = 0
           \/ /\ door'[h].at = door[h].at /\ door'[h].halted = door[h].halted
              /\ door'[h].consents = door[h].consents /\ door'[h].pending = door[h].pending
              /\ door[h].at \notin HeldAt => door'[h].members = {}
  PROVE  TableInv'
<1>0. TableShape /\ DoorsKnow /\ YesesKnow /\ SlotsKnow
  BY DEF TableInv
<1>1. \A h \in Doors : Table!Slots(h)' = Table!Slots(h)
  BY SameQuestions
<1>2. DoorsKnow'
  <2>1. SUFFICES ASSUME NEW h \in Doors
                 PROVE  /\ door'[h].at \notin HeldAt =>
                             door'[h].members = {} /\ door'[h].consents = {}
                        /\ door'[h].at = "none" => ~halts[h] /\ Table!Slots(h) = {}
                        /\ door'[h].at \in HeldAt /\ halts[h] => door'[h].halted
    BY <1>1 DEF DoorsKnow
  <2>2. /\ door[h].at \notin HeldAt => door[h].consents = {}
        /\ door[h].at = "none" => ~halts[h] /\ Table!Slots(h) = {}
        /\ door[h].at \in HeldAt /\ halts[h] => door[h].halted
    BY <1>0 DEF DoorsKnow
  <2> QED BY <2>2 DEF HeldAt
<1>3. YesesKnow'
  BY <1>0 DEF YesesKnow
<1>4. SlotsKnow'
  <2>1. SUFFICES ASSUME NEW h \in Doors, door'[h].at \in HeldAt
                 PROVE  /\ door'[h].pending = Cardinality(Table!Slots(h))
                        /\ Cardinality(door'[h].consents) + door'[h].pending <= MaxConsents
    BY <1>1 DEF SlotsKnow
  <2>2. CASE door'[h].at = "gone"
    BY <2>1, <2>2 DEF HeldAt
  <2>3. CASE /\ door'[h].at = "reserved" /\ door[h].at = "none"
             /\ door'[h].consents = {} /\ door'[h].pending = 0
    <3>1. Table!Slots(h) = {}
      BY <1>0, <2>3 DEF DoorsKnow
    <3>2. Cardinality({}) = 0 /\ MaxConsents \in Nat
      BY FS_EmptySet DEF Table!DoorsAssumption
    <3> QED BY <2>3, <3>1, <3>2
  <2>4. CASE /\ door'[h].at = door[h].at
             /\ door'[h].consents = door[h].consents /\ door'[h].pending = door[h].pending
    BY <1>0, <2>1, <2>4 DEF SlotsKnow
  <2> QED BY <2>2, <2>3, <2>4
<1> QED BY <1>2, <1>3, <1>4 DEF TableInv

\* Runs whose list of doors changes with the doors' lists, and enters no door that
\* was halted.
LEMMA RunsRelisted ==
  ASSUME TableInv, halts' = halts, NEW N \in [Runs -> SUBSET Doors],
         run' = [s \in Runs |-> [run[s] EXCEPT !.groups = N[s]]],
         \A s \in Runs : N[s] # {} => run[s].at \in KeptAt,
         \A h \in Doors, s \in Runs : s \in door'[h].members <=> h \in N[s],
         \A h \in Doors, s \in Runs : h \in N[s] => h \in run[s].groups \/ ~halts[h]
  PROVE  run' \in [Runs -> RunRec] /\ RunsKnow'
<1>0. TableShape /\ RunsKnow
  BY DEF TableInv
<1>1. ASSUME NEW s \in Runs
      PROVE  /\ run'[s] \in RunRec /\ run'[s].groups = N[s] /\ run'[s].at = run[s].at
             /\ run'[s].files = run[s].files /\ run'[s].inference = run[s].inference
             /\ run'[s].cancelled = run[s].cancelled /\ run'[s].finished = run[s].finished
  <2>1. run[s] \in RunRec /\ N[s] \in SUBSET Doors
    BY <1>0 DEF TableShape
  <2>2. run'[s] = [run[s] EXCEPT !.groups = N[s]]
    OBVIOUS
  <2> QED BY <2>1, <2>2 DEF RunRec
<1>2. \A s \in Runs :
        /\ run'[s].at \notin KeptAt => run'[s].groups = {}
        /\ run'[s].at = "none" => run'[s].files = Table!None
                                  /\ run'[s].inference = Table!None
  BY <1>0, <1>1 DEF RunsKnow
<1>3. \A h \in Doors, s \in Runs : s \in door'[h].members <=> h \in run'[s].groups
  BY <1>1
<1>4. \A h \in Doors, s \in Runs : halts'[h] /\ h \in run'[s].groups =>
        run'[s].cancelled \/ run'[s].finished
  BY <1>0, <1>1 DEF RunsKnow, Table!Ended
<1>5. run' \in [Runs -> RunRec]
  BY <1>1
<1> QED BY <1>2, <1>3, <1>4, <1>5 DEF RunsKnow, Table!Ended, Table!None

LEMMA RemovedDoor ==
  ASSUME TableShape, NEW h \in Doors
  PROVE  /\ Table!Removed(h) \in DoorRec /\ Table!Removed(h).at = "gone"
         /\ Table!Removed(h).members = {} /\ Table!Removed(h).consents = {}
<1>1. door[h].cell \in BOOLEAN
  BY DEF TableShape, DoorRec
<1> QED BY <1>1 DEF Table!Removed, Table!NewDoor, DoorRec, HeldAt

\* What a prune leaves of the lists.
LEMMA PrunedLists ==
  ASSUME TableInv
  PROVE  /\ Table!Gone \subseteq Doors
         /\ \A h \in Table!Gone : door[h].at \in HeldAt
         /\ [s \in Runs |-> run[s].groups \ Table!Gone] \in [Runs -> SUBSET Doors]
         /\ \A s \in Runs : run[s].groups # {} => run[s].at \in KeptAt
         /\ \A h \in Doors : door[h] \in DoorRec
         /\ \A h \in Doors : door[h].at \notin HeldAt => door[h].members = {}
         /\ \A h \in Doors, s \in Runs : s \in door[h].members <=> h \in run[s].groups
BY DEF TableInv, TableShape, RunsKnow, DoorsKnow, Table!Gone, Table!Held, HeldAt, RunRec

LEMMA ReclaimStep ==
  ASSUME Table!DoorsAssumption, TableInv, Table!Reclaim
  PROVE  TableInv'
<1> DEFINE G == Table!Gone
           N == [s \in Runs |-> run[s].groups \ G]
<1>0. TableShape
  BY DEF TableInv
<1>1. /\ question' = question /\ reg' = reg /\ engaged' = engaged /\ halts' = halts
      /\ door' = [h \in Doors |-> IF h \in G THEN Table!Removed(h) ELSE door[h]]
      /\ run' = [s \in Runs |-> [run[s] EXCEPT !.groups = N[s]]]
  BY DEF Table!Reclaim, Table!PruneDoors
<1>2. /\ \A h \in G : door[h].at \in HeldAt
      /\ N \in [Runs -> SUBSET Doors]
      /\ \A s \in Runs : run[s].groups # {} => run[s].at \in KeptAt
      /\ \A h \in Doors : door[h] \in DoorRec
      /\ \A h \in Doors : door[h].at \notin HeldAt => door[h].members = {}
      /\ \A h \in Doors, s \in Runs : s \in door[h].members <=> h \in run[s].groups
  BY PrunedLists
<1>3. \A s \in Runs : N[s] = run[s].groups \ G
  OBVIOUS
<1> HIDE DEF N, G
<1>4. \A h \in Doors :
        /\ door'[h] \in DoorRec
        /\ h \in G => /\ door'[h].at = "gone"
                      /\ door'[h].members = {} /\ door'[h].consents = {}
        /\ h \notin G => door'[h] = door[h]
  BY <1>0, <1>1, <1>2, RemovedDoor
<1>5. run' \in [Runs -> RunRec] /\ RunsKnow'
  <2>1. \A s \in Runs : N[s] # {} => run[s].at \in KeptAt
    BY <1>2, <1>3
  <2>2. \A h \in Doors, s \in Runs : s \in door'[h].members <=> h \in N[s]
    BY <1>2, <1>3, <1>4
  <2>3. \A h \in Doors, s \in Runs : h \in N[s] => h \in run[s].groups \/ ~halts[h]
    BY <1>3
  <2> QED BY <1>1, <1>2, <2>1, <2>2, <2>3, RunsRelisted
<1>6. TableShape'
  <2>1. door' \in [Doors -> DoorRec]
    BY <1>1, <1>4
  <2> QED BY <1>0, <1>1, <1>5, <2>1 DEF TableShape, Table!None
<1> QED BY <1>1, <1>2, <1>4, <1>5, <1>6, ListStep

LEMMA ReserveStep ==
  ASSUME Table!DoorsAssumption, TableInv, NEW g \in Doors, Table!Reserve(g)
  PROVE  TableInv'
<1> DEFINE G == Table!Gone
           N == [s \in Runs |-> run[s].groups \ G]
           d == [Table!NewDoor EXCEPT !.at = "reserved", !.alive = TRUE]
<1>0. TableShape
  BY DEF TableInv
<1>1. /\ question' = question /\ reg' = reg /\ engaged' = engaged /\ halts' = halts
      /\ door[g].at = "none"
      /\ door' = [h \in Doors |-> IF h = g THEN d
                                  ELSE IF h \in G THEN Table!Removed(h) ELSE door[h]]
      /\ run' = [s \in Runs |-> [run[s] EXCEPT !.groups = N[s]]]
  BY DEF Table!Reserve
<1>2. /\ \A h \in G : door[h].at \in HeldAt
      /\ N \in [Runs -> SUBSET Doors]
      /\ \A s \in Runs : run[s].groups # {} => run[s].at \in KeptAt
      /\ \A h \in Doors : door[h] \in DoorRec
      /\ \A h \in Doors : door[h].at \notin HeldAt => door[h].members = {}
      /\ \A h \in Doors, s \in Runs : s \in door[h].members <=> h \in run[s].groups
  BY PrunedLists
<1>3. \A s \in Runs : N[s] = run[s].groups \ G
  OBVIOUS
<1>4. /\ d \in DoorRec /\ d.at = "reserved" /\ d.members = {} /\ d.consents = {}
      /\ d.pending = 0
  BY DEF Table!NewDoor, DoorRec, HeldAt
<1>5. g \notin G /\ door[g].members = {}
  BY <1>1, <1>2 DEF HeldAt
<1> HIDE DEF N, G, d
<1>6. \A h \in Doors :
        /\ door'[h] \in DoorRec
        /\ h \in G => /\ door'[h].at = "gone"
                      /\ door'[h].members = {} /\ door'[h].consents = {}
        /\ h = g => door'[h] = d
        /\ h \notin G /\ h # g => door'[h] = door[h]
  BY <1>0, <1>1, <1>2, <1>4, <1>5, RemovedDoor
<1>7. run' \in [Runs -> RunRec] /\ RunsKnow'
  <2>1. \A s \in Runs : N[s] # {} => run[s].at \in KeptAt
    BY <1>2, <1>3
  <2>2. \A h \in Doors, s \in Runs : s \in door'[h].members <=> h \in N[s]
    BY <1>2, <1>3, <1>4, <1>5, <1>6
  <2>3. \A h \in Doors, s \in Runs : h \in N[s] => h \in run[s].groups \/ ~halts[h]
    BY <1>3
  <2> QED BY <1>1, <1>2, <2>1, <2>2, <2>3, RunsRelisted
<1>8. TableShape'
  <2>1. door' \in [Doors -> DoorRec]
    BY <1>1, <1>6
  <2> QED BY <1>0, <1>1, <1>7, <2>1 DEF TableShape, Table!None
<1> QED BY <1>1, <1>2, <1>4, <1>6, <1>7, <1>8, ListStep

LEMMA JoinStep ==
  ASSUME Table!DoorsAssumption, TableInv, NEW r \in Runs, NEW g \in Doors, Table!Join(r, g)
  PROVE  TableInv'
<1> DEFINE G == Table!Gone
           N == [s \in Runs |-> (run[s].groups \ G) \cup (IF s = r THEN {g} ELSE {})]
           d == [door[g] EXCEPT !.members = door[g].members \cup {r}]
<1>0. TableShape /\ door[g] \in DoorRec
  BY DEF TableInv, TableShape
<1>1. /\ question' = question /\ reg' = reg /\ engaged' = engaged /\ halts' = halts
      /\ run[r].at = "open" /\ door[g].at \in HeldAt /\ ~door[g].halted /\ g \notin G
      /\ door' = [h \in Doors |-> IF h \in G THEN Table!Removed(h)
                                  ELSE IF h = g THEN d ELSE door[h]]
      /\ run' = [s \in Runs |-> [run[s] EXCEPT !.groups = N[s]]]
  <2>1. /\ run[r].at = "open" /\ door[g].at \in HeldAt /\ ~door[g].halted /\ g \notin G
    BY DEF Table!Join, Table!LiveDoor, Table!DoorHalted, Table!Held, Table!Gone, HeldAt
  <2>2. /\ question' = question /\ reg' = reg /\ engaged' = engaged /\ halts' = halts
    BY DEF Table!Join
  <2>3. door' = [h \in Doors |-> IF h \in G THEN Table!Removed(h)
                                 ELSE IF h = g THEN d ELSE door[h]]
    BY DEF Table!Join
  <2>4. run' = [s \in Runs |-> [run[s] EXCEPT !.groups = N[s]]]
    BY DEF Table!Join
  <2> QED BY <2>1, <2>2, <2>3, <2>4
<1>2. /\ \A h \in G : door[h].at \in HeldAt
      /\ [s \in Runs |-> run[s].groups \ G] \in [Runs -> SUBSET Doors]
      /\ \A s \in Runs : run[s].groups # {} => run[s].at \in KeptAt
      /\ \A h \in Doors : door[h] \in DoorRec
      /\ \A h \in Doors : door[h].at \notin HeldAt => door[h].members = {}
      /\ \A h \in Doors, s \in Runs : s \in door[h].members <=> h \in run[s].groups
  BY PrunedLists
<1>3. \A s \in Runs : N[s] = (run[s].groups \ G) \cup (IF s = r THEN {g} ELSE {})
  OBVIOUS
<1>4. /\ d \in DoorRec /\ d.at = door[g].at /\ d.halted = door[g].halted
      /\ d.members = door[g].members \cup {r} /\ d.consents = door[g].consents
      /\ d.pending = door[g].pending
  BY <1>0 DEF DoorRec
<1>5. ~halts[g]
  BY <1>1 DEF TableInv, DoorsKnow
<1>6. N \in [Runs -> SUBSET Doors]
  BY <1>2
<1> HIDE DEF N, G, d
<1>7. \A h \in Doors :
        /\ door'[h] \in DoorRec
        /\ h \in G => /\ door'[h].at = "gone"
                      /\ door'[h].members = {} /\ door'[h].consents = {}
        /\ h = g => door'[h] = d
        /\ h \notin G /\ h # g => door'[h] = door[h]
  BY <1>0, <1>1, <1>2, <1>4, RemovedDoor
<1>8. run' \in [Runs -> RunRec] /\ RunsKnow'
  <2>1. \A s \in Runs : N[s] # {} => run[s].at \in KeptAt
    BY <1>1, <1>2, <1>3 DEF KeptAt
  <2>2. \A h \in Doors, s \in Runs : s \in door'[h].members <=> h \in N[s]
    <3>1. SUFFICES ASSUME NEW h \in Doors, NEW s \in Runs
                   PROVE  s \in door'[h].members <=> h \in N[s]
      OBVIOUS
    <3>2. CASE h \in G
      BY <1>1, <1>3, <1>7, <3>2
    <3>3. CASE h = g
      BY <1>1, <1>2, <1>3, <1>4, <1>7, <3>3
    <3>4. CASE h \notin G /\ h # g
      BY <1>2, <1>3, <1>7, <3>4
    <3> QED BY <3>2, <3>3, <3>4
  <2>3. \A h \in Doors, s \in Runs : h \in N[s] => h \in run[s].groups \/ ~halts[h]
    BY <1>3, <1>5
  <2> QED BY <1>1, <1>6, <2>1, <2>2, <2>3, RunsRelisted
<1>9. TableShape'
  <2>1. door' \in [Doors -> DoorRec]
    BY <1>1, <1>7
  <2> QED BY <1>0, <1>1, <1>8, <2>1 DEF TableShape, Table!None
<1>10. \A h \in Doors :
         \/ /\ door'[h].at = "gone" /\ door[h].at \in HeldAt
            /\ door'[h].members = {} /\ door'[h].consents = {}
         \/ /\ door'[h].at = door[h].at /\ door'[h].halted = door[h].halted
            /\ door'[h].consents = door[h].consents /\ door'[h].pending = door[h].pending
            /\ door[h].at \notin HeldAt => door'[h].members = {}
  BY <1>1, <1>2, <1>4, <1>7
<1> QED BY <1>1, <1>8, <1>9, <1>10, ListStep

LEMMA OpenStep ==
  ASSUME Table!DoorsAssumption, TableInv, NEW r \in Runs, NEW g \in Doors \cup {Table!None},
         Table!Open(r, g)
  PROVE  TableInv'
<1> DEFINE c == g # Table!None /\ door[g].cell
           D == {g} \ {Table!None}
           x == [Table!NewRun EXCEPT !.at = "inserted", !.by = g, !.groups = D, !.cell = c]
           y == [Table!NewRun EXCEPT !.at = "gone"]
<1>0. TableShape /\ DoorsKnow /\ RunsKnow
  BY DEF TableInv
<1>1. /\ question' = question /\ reg' = reg /\ engaged' = engaged /\ halts' = halts
      /\ run[r].at = "none" /\ Table!Opens(r, g)
      /\ \E P \in SUBSET Table!Kept :
           /\ run' = [s \in Runs |-> IF s = r THEN x ELSE IF s \in P THEN y ELSE run[s]]
           /\ door' = [h \in Doors |->
                [door[h] EXCEPT !.members = (@ \ P) \cup (IF h = g THEN {r} ELSE {})]]
  <2>1. {s \in Runs : Table!Prunable(s)} \in SUBSET Table!Kept /\ {} \in SUBSET Table!Kept
    BY DEF Table!Prunable
  <2>2. (IF Cardinality(Table!Kept) >= RunCapacity THEN {s \in Runs : Table!Prunable(s)}
         ELSE {}) \in SUBSET Table!Kept
    BY <2>1
  <2> HIDE DEF x, y
  <2> QED BY <2>2, SameCount DEF Table!Open, x, y
<1>2. PICK P \in SUBSET Table!Kept :
           /\ run' = [s \in Runs |-> IF s = r THEN x ELSE IF s \in P THEN y ELSE run[s]]
           /\ door' = [h \in Doors |->
                [door[h] EXCEPT !.members = (@ \ P) \cup (IF h = g THEN {r} ELSE {})]]
  BY <1>1
<1>3. c \in BOOLEAN /\ D \in SUBSET Doors
  BY <1>0 DEF TableShape, DoorRec
<1>4. r \notin P /\ run[r].groups = {}
  BY <1>0, <1>1 DEF Table!Kept, RunsKnow, KeptAt
<1>5. \A h \in Doors : (h \in D <=> h = g) /\ (h = g => ~halts[h] /\ door[h].at \in HeldAt)
  <2>1. Table!None \notin Doors
    BY DEF Table!DoorsAssumption
  <2>2. g \in Doors => door[g].at \in HeldAt /\ ~door[g].halted
    BY <1>1, <2>1 DEF Table!Opens, Table!LiveDoor, Table!DoorHalted, Table!Held, HeldAt
  <2>3. g \in Doors => ~halts[g]
    BY <1>0, <2>2 DEF DoorsKnow
  <2> QED BY <2>1, <2>2, <2>3
<1>6. /\ x \in RunRec /\ x.at = "inserted" /\ x.groups = D
  <2> HIDE DEF c, D
  <2> QED BY <1>3 DEF RunRec, Table!NewRun, KeptAt
<1>7. y \in RunRec /\ y.at = "gone" /\ y.groups = {}
  BY DEF RunRec, Table!NewRun, KeptAt
<1> HIDE DEF x, y, D
<1>8. \A s \in Runs :
        /\ run'[s] \in RunRec
        /\ s = r => run'[s] = x
        /\ s \in P => run'[s] = y
        /\ s # r /\ s \notin P => run'[s] = run[s]
  BY <1>0, <1>2, <1>4, <1>6, <1>7 DEF TableShape
<1>9. ASSUME NEW h \in Doors
      PROVE  /\ door'[h] \in DoorRec /\ door'[h].at = door[h].at
             /\ door'[h].halted = door[h].halted /\ door'[h].consents = door[h].consents
             /\ door'[h].pending = door[h].pending
             /\ door'[h].members = (door[h].members \ P) \cup (IF h = g THEN {r} ELSE {})
  <2>1. door[h] \in DoorRec
    BY <1>0 DEF TableShape
  <2> DEFINE m == (door[h].members \ P) \cup (IF h = g THEN {r} ELSE {})
  <2>2. m \in SUBSET Runs
    BY <2>1 DEF DoorRec
  <2>3. door'[h] = [door[h] EXCEPT !.members = m]
    BY <1>2
  <2> HIDE DEF m
  <2>4. /\ door'[h] \in DoorRec /\ door'[h].at = door[h].at
        /\ door'[h].halted = door[h].halted /\ door'[h].consents = door[h].consents
        /\ door'[h].pending = door[h].pending /\ door'[h].members = m
    BY <2>1, <2>2, <2>3 DEF DoorRec
  <2> QED BY <2>4 DEF m
<1>10. TableShape'
  <2>1. door' \in [Doors -> DoorRec] /\ run' \in [Runs -> RunRec]
    BY <1>2, <1>8, <1>9
  <2> QED BY <1>0, <1>1, <2>1 DEF TableShape, Table!None
<1>11. RunsKnow'
  <2>1. \A s \in Runs :
          /\ run'[s].at \notin KeptAt => run'[s].groups = {}
          /\ run'[s].at = "none" => run'[s].files = Table!None
                                    /\ run'[s].inference = Table!None
    BY <1>0, <1>6, <1>7, <1>8 DEF RunsKnow, KeptAt
  <2>2. ASSUME NEW h \in Doors, NEW s \in Runs
        PROVE  /\ s \in door'[h].members <=> h \in run'[s].groups
               /\ halts'[h] /\ h \in run'[s].groups => run'[s].cancelled \/ run'[s].finished
    <3>1. s \in door[h].members <=> h \in run[s].groups
      BY <1>0 DEF RunsKnow
    <3>2. CASE s = r
      BY <1>1, <1>4, <1>5, <1>6, <1>8, <1>9, <3>1, <3>2
    <3>3. CASE s \in P
      BY <1>4, <1>7, <1>8, <1>9, <3>3
    <3>4. CASE s # r /\ s \notin P
      <4>1. s \in door'[h].members <=> s \in door[h].members
        BY <1>9, <3>4
      <4>2. run'[s] = run[s]
        BY <1>8, <3>4
      <4> QED BY <1>0, <1>1, <3>1, <4>1, <4>2 DEF RunsKnow, Table!Ended
    <3> QED BY <3>2, <3>3, <3>4
  <2> QED BY <2>1, <2>2 DEF RunsKnow, Table!Ended, Table!None
<1>12. \A h \in Doors :
         /\ door'[h].at = door[h].at /\ door'[h].halted = door[h].halted
         /\ door'[h].consents = door[h].consents /\ door'[h].pending = door[h].pending
         /\ door[h].at \notin HeldAt => door'[h].members = {}
  BY <1>0, <1>5, <1>9 DEF DoorsKnow
<1> QED BY <1>1, <1>10, <1>11, <1>12, ListStep

\* Every step keeps what the table knows.
LEMMA TableNext ==
  ASSUME Table!DoorsAssumption, TableInv, AskedKnow, [Table!Next]_(Table!vars)
  PROVE  TableInv'
<1>1. CASE UNCHANGED Table!vars
  <2>1. /\ door' = door /\ run' = run /\ question' = question /\ reg' = reg
        /\ engaged' = engaged /\ halts' = halts
    BY <1>1 DEF Table!vars
  <2>2. TableShape'
    BY <2>1 DEF TableInv, TableShape, Table!None
  <2> QED BY <2>1, <2>2, RegistryStep
<1>2. ASSUME NEW g \in Doors,
             Table!Reserve(g) \/ Table!AnswerDoor(g) \/ Table!Activate(g)
             \/ Table!DropDoor(g) \/ Table!AttachCell(g) \/ Table!HaltGroup(g)
      PROVE  TableInv'
  BY <1>2, ReserveStep, AloneAtADoor, HaltGroupStep
<1>3. ASSUME NEW r \in Runs, Table!RecordOpened(r) \/ Table!Cancel(r) \/ Table!Finish(r)
      PROVE  TableInv'
  BY <1>3, AloneAtARun
<1>4. ASSUME NEW r \in Runs, NEW g \in Doors \cup {Table!None}, Table!Open(r, g)
      PROVE  TableInv'
  BY <1>4, OpenStep
<1>5. ASSUME NEW r \in Runs, NEW g \in Doors, Table!Join(r, g) \/ Table!ModelCall(r, g)
      PROVE  TableInv'
  BY <1>5, JoinStep, AloneAtARun
<1>6. ASSUME NEW r \in Runs, NEW g \in Doors, NEW c \in Contracts,
             Table!AdmitFiles(r, g, c) \/ Table!AdmitInference(r, g, c)
      PROVE  TableInv'
  BY <1>6, AloneAtARun
<1>7. ASSUME NEW q \in Questions, NEW g \in Doors, NEW c \in Contracts, NEW f \in Facts,
             Table!AskDoor(q, g, c, f)
      PROVE  TableInv'
  BY <1>7, AskDoorStep
<1>8. ASSUME NEW q \in Questions, NEW c \in Contracts, NEW f \in Facts,
             Table!AskOwner(q, c, f)
      PROVE  TableInv'
  BY <1>8, FreeQuestionStep
<1>9. ASSUME NEW q \in Questions, Table!Decline(q) \/ Table!RecordYes(q) \/ Table!Fill(q)
      PROVE  TableInv'
  BY <1>9, AnswerStep, FreeQuestionStep
<1>10. CASE Table!Reclaim \/ Table!EngageCell \/ Table!Stop \/ Table!Lift \/ Table!Close
  BY <1>10, ReclaimStep, CellAndLift, StopStep
<1> QED BY <1>1, <1>2, <1>3, <1>4, <1>5, <1>6, <1>7, <1>8, <1>9, <1>10 DEF Table!Next

\* What the table knows is what the property asks.
LEMMA TableHolds ==
  ASSUME TableInv
  PROVE  Table!DoorsHold
<1>0. TableShape /\ DoorsKnow /\ YesesKnow /\ SlotsKnow /\ RunsKnow
  BY DEF TableInv
<1>1. \A g \in Doors : g \in Table!Held <=> door[g].at \in HeldAt
  BY DEF Table!Held, HeldAt
<1>2. \A r \in Runs : r \in Table!Kept <=> run[r].at \in KeptAt
  BY DEF Table!Kept, KeptAt
<1>3. Table!Held \subseteq Doors /\ Table!Kept \subseteq Runs
  BY DEF Table!Held, Table!Kept
<1>4. Table!MembershipAgrees
  <2>1. \A g \in Table!Held, r \in Table!Kept :
          r \in door[g].members <=> g \in run[r].groups
    BY <1>0, <1>3 DEF RunsKnow
  <2>2. \A r \in Table!Kept : run[r].groups \subseteq Table!Held
    <3>1. SUFFICES ASSUME NEW r \in Table!Kept, NEW g \in run[r].groups
                   PROVE  g \in Table!Held
      OBVIOUS
    <3>2. r \in Runs /\ g \in Doors
      BY <1>0, <1>3 DEF TableShape, RunRec
    <3>3. r \in door[g].members
      BY <1>0, <3>2 DEF RunsKnow
    <3> QED BY <1>0, <1>1, <3>2, <3>3 DEF DoorsKnow
  <2>3. \A g \in Table!Held : door[g].members \subseteq Table!Kept
    <3>1. SUFFICES ASSUME NEW g \in Table!Held, NEW r \in door[g].members
                   PROVE  r \in Table!Kept
      OBVIOUS
    <3>2. r \in Runs /\ g \in Doors
      BY <1>0, <1>3 DEF TableShape, DoorRec
    <3>3. g \in run[r].groups
      BY <1>0, <3>2 DEF RunsKnow
    <3> QED BY <1>0, <1>2, <3>2, <3>3 DEF RunsKnow
  <2> QED BY <2>1, <2>2, <2>3 DEF Table!MembershipAgrees
<1>5. Table!NoLiveMemberOfAHaltedDoor
  BY <1>0, <1>3 DEF Table!NoLiveMemberOfAHaltedDoor, RunsKnow
<1>6. Table!CachedYesIsFresh
  BY <1>0 DEF Table!CachedYesIsFresh, YesesKnow
<1>7. Table!SlotsAreCounted
  BY <1>0, <1>1, <1>3, SameCount DEF Table!SlotsAreCounted, SlotsKnow
<1> QED BY <1>4, <1>5, <1>6, <1>7 DEF Table!DoorsHold

\* The door table is sound in every reachable state (authority/run.rs): doors and
\* runs list each other, no live run belongs to a door that was ever halted, a
\* cached yes was asked since the last stop in a door never halted, and every open
\* question of a door holds exactly one of its counted places.
THEOREM DoorsAlwaysHold ==
  ASSUME Table!DoorsAssumption
  PROVE  Table!Spec => []Table!DoorsHold
<1>1. Table!Init => TableInv /\ AskedKnow
  <2>1. Table!Init => AskedKnow
    BY DEF Table!Init, AskedKnow, Table!NewQuestion
  <2> QED BY <2>1, TableInitially
<1>2. TableInv /\ AskedKnow /\ [Table!Next]_(Table!vars) => (TableInv /\ AskedKnow)'
  BY TableNext, AskedKept DEF TableInv
<1>3. TableInv => Table!DoorsHold
  BY TableHolds
<1> QED BY <1>1, <1>2, <1>3, PTL DEF Table!Spec

\* What a run is bound to changes in its admission, and when it is forgotten.
LEMMA OnlyAdmissionsBind ==
  ASSUME Table!DoorsAssumption, TableInv, Table!Next, NEW r \in Runs,
         Table!NewlyBound(r), run'[r].at # "gone"
  PROVE  \E g \in Doors, c \in Contracts :
           Table!AdmitFiles(r, g, c) \/ Table!AdmitInference(r, g, c)
<1>0. TableShape /\ RunsKnow /\ run \in [Runs -> RunRec]
  BY DEF TableInv, TableShape
<1>1. SUFFICES ASSUME ~\E g \in Doors, c \in Contracts :
                        Table!AdmitFiles(r, g, c) \/ Table!AdmitInference(r, g, c)
               PROVE  \/ run'[r].at = "gone"
                      \/ run'[r].files = run[r].files /\ run'[r].inference = run[r].inference
  BY DEF Table!NewlyBound
<1> DEFINE Goal == \/ run'[r].at = "gone"
                   \/ run'[r].files = run[r].files /\ run'[r].inference = run[r].inference
<1>2. CASE run' = run
  BY <1>2
<1>3. ASSUME NEW s \in Runs, NEW x, run' = [run EXCEPT ![s] = x],
             x.files = run[s].files, x.inference = run[s].inference
      PROVE  Goal
  BY <1>0, <1>3
<1>4. ASSUME NEW N, run' = [s \in Runs |-> [run[s] EXCEPT !.groups = N[s]]]
      PROVE  Goal
  <2>1. run'[r] = [run[r] EXCEPT !.groups = N[r]] /\ run[r] \in RunRec
    BY <1>0, <1>4
  <2> QED BY <2>1 DEF RunRec
<1>5. ASSUME NEW S, run' = [s \in Runs |-> IF s \in S
                              THEN [run[s] EXCEPT !.cancelled = TRUE] ELSE run[s]]
      PROVE  Goal
  <2>1. run[r] \in RunRec
    BY <1>0
  <2>2. run'[r] = [run[r] EXCEPT !.cancelled = TRUE] \/ run'[r] = run[r]
    BY <1>5
  <2> QED BY <2>1, <2>2 DEF RunRec
<1>6. ASSUME NEW g \in Doors, Table!Reserve(g)
      PROVE  Goal
  <2> DEFINE N == [s \in Runs |-> run[s].groups \ Table!Gone]
  <2>1. run' = [s \in Runs |-> [run[s] EXCEPT !.groups = N[s]]]
    BY <1>6 DEF Table!Reserve
  <2> HIDE DEF N
  <2> QED BY <1>4, <2>1
<1>7. ASSUME Table!Reclaim PROVE Goal
  <2> DEFINE N == [s \in Runs |-> run[s].groups \ Table!Gone]
  <2>1. run' = [s \in Runs |-> [run[s] EXCEPT !.groups = N[s]]]
    BY <1>7 DEF Table!Reclaim, Table!PruneDoors
  <2> HIDE DEF N
  <2> QED BY <1>4, <2>1
<1>8. ASSUME NEW s \in Runs, NEW g \in Doors, Table!Join(s, g)
      PROVE  Goal
  <2> DEFINE N == [t \in Runs |-> (run[t].groups \ Table!Gone)
                                  \cup (IF t = s THEN {g} ELSE {})]
  <2>1. run' = [t \in Runs |-> [run[t] EXCEPT !.groups = N[t]]]
    BY <1>8 DEF Table!Join
  <2> HIDE DEF N
  <2> QED BY <1>4, <2>1
<1>9. ASSUME NEW g \in Doors, Table!HaltGroup(g)
      PROVE  Goal
  BY <1>5, <1>9 DEF Table!HaltGroup
<1>10. ASSUME Table!Stop PROVE Goal
  BY <1>5, <1>10 DEF Table!Stop
<1>11. ASSUME NEW s \in Runs, NEW g \in Doors \cup {Table!None}, Table!Open(s, g)
       PROVE  Goal
  <2>1. run[s].at = "none" /\ run[s].files = Table!None /\ run[s].inference = Table!None
    BY <1>0, <1>11 DEF Table!Open, RunsKnow
  <2>2. \/ /\ r = s
           /\ run'[r] = [Table!NewRun EXCEPT !.at = "inserted", !.by = g,
                           !.groups = {g} \ {Table!None},
                           !.cell = g # Table!None /\ door[g].cell]
        \/ run'[r] = [Table!NewRun EXCEPT !.at = "gone"]
        \/ run'[r] = run[r]
    BY <1>11 DEF Table!Open
  <2> QED BY <2>1, <2>2 DEF Table!NewRun
<1>12. ASSUME NEW s \in Runs,
              Table!RecordOpened(s) \/ Table!Cancel(s) \/ Table!Finish(s)
       PROVE  Goal
  <2>1. run[s] \in RunRec
    BY <1>0
  <2>2. CASE run' = [run EXCEPT ![s].at = "open"]
    BY <1>3, <2>1, <2>2 DEF RunRec
  <2>3. CASE run' = [run EXCEPT ![s].at = "open", ![s].cancelled = TRUE]
    <3> DEFINE x == [run[s] EXCEPT !.at = "open", !.cancelled = TRUE]
    <3>1. run' = [run EXCEPT ![s] = x]
      BY <1>0, <2>3 DEF RunRec
    <3>2. x.files = run[s].files /\ x.inference = run[s].inference
      BY <2>1 DEF RunRec
    <3> HIDE DEF x
    <3> QED BY <1>3, <3>1, <3>2
  <2>4. CASE run' = [run EXCEPT ![s].cancelled = TRUE]
    BY <1>3, <2>1, <2>4 DEF RunRec
  <2>5. CASE run' = [run EXCEPT ![s].finished = TRUE]
    BY <1>3, <2>1, <2>5 DEF RunRec
  <2> QED BY <1>12, <2>2, <2>3, <2>4, <2>5
          DEF Table!RecordOpened, Table!Cancel, Table!Finish
<1>13. ASSUME NEW s \in Runs, NEW g \in Doors, Table!ModelCall(s, g)
       PROVE  Goal
  <2> DEFINE x == [run[s] EXCEPT !.attempts = run[s].attempts + 1]
  <2>1. run' = [run EXCEPT ![s] = x]
    BY <1>13 DEF Table!ModelCall
  <2>2. x.files = run[s].files /\ x.inference = run[s].inference
    BY <1>0 DEF RunRec
  <2> HIDE DEF x
  <2> QED BY <1>3, <2>1, <2>2
<1>14. ASSUME NEW s \in Runs, NEW g \in Doors, NEW c \in Contracts,
              Table!AdmitFiles(s, g, c) \/ Table!AdmitInference(s, g, c)
       PROVE  Goal
  <2>1. s # r
    BY <1>1, <1>14
  <2>2. \E x : run' = [run EXCEPT ![s] = x]
    BY <1>14 DEF Table!AdmitFiles, Table!AdmitInference
  <2> QED BY <1>0, <2>1, <2>2
<1>15. ASSUME NEW g \in Doors, Table!AnswerDoor(g) \/ Table!Activate(g)
              \/ Table!DropDoor(g) \/ Table!AttachCell(g)
       PROVE  Goal
  BY <1>2, <1>15 DEF Table!AnswerDoor, Table!Activate, Table!DropDoor, Table!AttachCell
<1>16. ASSUME NEW q \in Questions, Table!Decline(q) \/ Table!RecordYes(q) \/ Table!Fill(q)
       PROVE  Goal
  BY <1>2, <1>16 DEF Table!Decline, Table!RecordYes, Table!Fill
<1>17. ASSUME NEW q \in Questions, NEW g \in Doors, NEW c \in Contracts, NEW f \in Facts,
              Table!AskDoor(q, g, c, f)
       PROVE  Goal
  BY <1>2, <1>17 DEF Table!AskDoor
<1>18. ASSUME NEW q \in Questions, NEW c \in Contracts, NEW f \in Facts,
              Table!AskOwner(q, c, f)
       PROVE  Goal
  BY <1>2, <1>18 DEF Table!AskOwner
<1>19. ASSUME Table!EngageCell \/ Table!Lift \/ Table!Close PROVE Goal
  BY <1>2, <1>19 DEF Table!EngageCell, Table!Lift, Table!Close
<1> HIDE DEF Goal
<1>20. Goal
  <2>1. ASSUME NEW g \in Doors,
               Table!Reserve(g) \/ Table!AnswerDoor(g) \/ Table!Activate(g)
               \/ Table!DropDoor(g) \/ Table!AttachCell(g) \/ Table!HaltGroup(g)
        PROVE  Goal
    BY <1>6, <1>9, <1>15, <2>1
  <2>2. ASSUME NEW s \in Runs, NEW g \in Doors, Table!Join(s, g) \/ Table!ModelCall(s, g)
        PROVE  Goal
    BY <1>8, <1>13, <2>2
  <2>3. CASE Table!Reclaim \/ Table!EngageCell \/ Table!Stop \/ Table!Lift \/ Table!Close
    BY <1>7, <1>10, <1>19, <2>3
  <2> QED BY <1>11, <1>12, <1>14, <1>16, <1>17, <1>18, <2>1, <2>2, <2>3 DEF Table!Next
<1> QED BY <1>20 DEF Goal

\* An admission, step by step.
LEMMA AdmissionStep ==
  ASSUME Table!DoorsAssumption, TableInv, Table!Next
  PROVE  Table!AdmissionsHold
<1>0. TableShape /\ YesesKnow /\ RunsKnow /\ run \in [Runs -> RunRec]
  BY DEF TableInv, TableShape
<1>1. SUFFICES ASSUME NEW r \in Runs, Table!NewlyBound(r), run'[r].at # "gone"
               PROVE  /\ ~Table!Ended(r) /\ ~reg.stopped
                      /\ \A g \in run[r].groups : ~halts[g]
                      /\ run[r].cell => ~engaged
                      /\ LET q == IF run'[r].files # run[r].files THEN run'[r].files
                                  ELSE run'[r].inference
                         IN \A p \in door[question[q].door].consents :
                              question[p].contract = question[q].contract =>
                                question[p].facts = question[q].facts
  BY DEF Table!AdmissionsHold, Table!OnlyLiveRunsAreAdmitted,
         Table!AdmittedFactsAreUnambiguous
<1>2. PICK g \in Doors, c \in Contracts :
        Table!AdmitFiles(r, g, c) \/ Table!AdmitInference(r, g, c)
  BY <1>1, OnlyAdmissionsBind
<1>3. Table!MayAdmit(r, g, c)
  BY <1>2 DEF Table!AdmitFiles, Table!AdmitInference
<1>4. ~reg.stopped /\ ~Table!Ended(r) /\ (run[r].cell => ~engaged)
  BY <1>3 DEF Table!MayAdmit, Table!Admissible, Table!LiveMember, Table!CellEngaged
<1>5. \A h \in run[r].groups : ~halts[h]
  BY <1>0, <1>4 DEF RunsKnow, RunRec
<1>6. PICK q \in Table!Matching(g, c) :
        q = IF run'[r].files # run[r].files THEN run'[r].files ELSE run'[r].inference
  <2>1. Table!Matching(g, c) \subseteq Questions /\ Table!None \notin Questions
    BY <1>0 DEF Table!Matching, TableShape, DoorRec, Table!DoorsAssumption
  <2>2. CASE Table!AdmitFiles(r, g, c)
    <3>1. PICK q \in Table!Matching(g, c) : run' = [run EXCEPT ![r].files = q]
      BY <2>2 DEF Table!AdmitFiles
    <3>2. run'[r].files = q
      BY <1>0, <3>1 DEF RunRec
    <3>3. run[r].files = Table!None
      BY <2>2 DEF Table!AdmitFiles
    <3> QED BY <2>1, <3>2, <3>3
  <2>3. CASE Table!AdmitInference(r, g, c)
    <3>1. PICK q \in Table!Matching(g, c) : run' = [run EXCEPT ![r].inference = q]
      BY <2>3 DEF Table!AdmitInference
    <3>2. run'[r].inference = q /\ run'[r].files = run[r].files
      BY <1>0, <3>1 DEF RunRec
    <3> QED BY <3>2
  <2> QED BY <1>2, <2>2, <2>3
<1>7. /\ question[q].door = g /\ question[q].contract = c
      /\ \A p \in door[g].consents : question[p].epoch = reg.epoch
  BY <1>0, <1>6 DEF Table!Matching, YesesKnow
<1>8. \A p \in door[g].consents :
        question[p].contract = c => question[p].facts = question[q].facts
  <2>1. \A p \in door[g].consents : question[p].contract = c => p \in Table!Matching(g, c)
    BY <1>7 DEF Table!Matching
  <2>2. Table!Agreed(g, c)
    BY <1>3 DEF Table!MayAdmit
  <2> QED BY <1>6, <2>1, <2>2 DEF Table!Agreed
<1> QED BY <1>4, <1>5, <1>6, <1>7, <1>8

\* A yes binds only a live run: not cancelled or finished, not stopped, in no door
\* that was ever halted, its cell not engaged; and no other answer in force for the
\* same contract showed the owner other facts (admit_files, admit_inference).
THEOREM AdmissionsAlwaysHold ==
  ASSUME Table!DoorsAssumption
  PROVE  Table!Spec => [][Table!AdmissionsHold]_(Table!vars)
<1>1. Table!Init => TableInv /\ AskedKnow
  <2>1. Table!Init => AskedKnow
    BY DEF Table!Init, AskedKnow, Table!NewQuestion
  <2> QED BY <2>1, TableInitially
<1>2. TableInv /\ AskedKnow /\ [Table!Next]_(Table!vars) => (TableInv /\ AskedKnow)'
  BY TableNext, AskedKept DEF TableInv
<1>3. TableInv /\ [Table!Next]_(Table!vars) => [Table!AdmissionsHold]_(Table!vars)
  BY AdmissionStep
<1> QED BY <1>1, <1>2, <1>3, PTL DEF Table!Spec
=============================================================================
