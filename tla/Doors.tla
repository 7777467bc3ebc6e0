--------------------------------- MODULE Doors ---------------------------------
(***************************************************************************)
(* The broker's run registry as an agent's doors use it (authority/run.rs, *)
(* governed/door.rs): doors are asked for, opened, halted and dropped;     *)
(* runs are opened in a door, adopted by another, ended and pruned; the    *)
(* owner is asked about a mission, and a yes is cached in the door and     *)
(* later binds a run's admission.  Every hold of the runs lock is one      *)
(* step; the dialogs and the evidence records lie between them.            *)
(*                                                                         *)
(* The owner's front door (Authority::confirm_mission) asks with no slot.  *)
(* A door has one agent: the agent checks are left out.  The File          *)
(* session's cell is a legacy one.                                         *)
(***************************************************************************)
EXTENDS Integers, FiniteSets

CONSTANTS
  Doors,        \* door groups, never reused
  Runs,         \* agent runs, never reused
  Questions,    \* mission dialogs
  Owner,        \* asks no door: the owner's front door
  Contracts,    \* what a dialog names (a contract hash and a request)
  Facts,        \* the page facts it shows
  MaxDoors,     \* MAX_LIVE_DOORS
  MaxGroups,    \* MAX_GROUPS_PER_RUN
  MaxConsents,  \* MAX_CONSENTS
  RunCapacity,  \* RUN_CAPACITY
  MaxAttempts,  \* MAX_MODEL_ATTEMPTS
  MaxStops      \* bound: emergency stops

None == "none"

DoorsAssumption ==
  /\ IsFiniteSet(Doors) /\ IsFiniteSet(Runs) /\ IsFiniteSet(Questions)
  /\ None \notin Doors \cup Questions /\ Owner \notin Doors
  /\ MaxDoors \in Nat /\ MaxGroups \in Nat /\ MaxConsents \in Nat
  /\ RunCapacity \in Nat /\ MaxAttempts \in Nat /\ MaxStops \in Nat

VARIABLES
  door,      \* group -> DoorEntry, and where its dialog is
  run,       \* run -> RunEntry
  question,  \* mission dialog -> where it is, and what it holds
  reg,       \* RunRegistry: stopped, stop_number, closed
  engaged,   \* the File session's cell
  halts      \* history: group -> whether it was ever halted

vars == <<door, run, question, reg, engaged, halts>>

NewDoor == [at |-> "none", alive |-> FALSE, active |-> FALSE, halted |-> FALSE, cell |-> FALSE,
            members |-> {}, consents |-> {}, pending |-> 0]

NewRun == [at |-> "none", cancelled |-> FALSE, finished |-> FALSE, groups |-> {}, by |-> None,
           cell |-> FALSE, files |-> None, inference |-> None, attempts |-> 0]

NewQuestion == [at |-> "none", door |-> None, contract |-> None, facts |-> None,
                epoch |-> 0, asked |-> 0]

Init ==
  /\ door = [g \in Doors |-> NewDoor]
  /\ run = [r \in Runs |-> NewRun]
  /\ question = [q \in Questions |-> NewQuestion]
  /\ reg = [stopped |-> FALSE, epoch |-> 0, closed |-> FALSE]
  /\ engaged = FALSE
  /\ halts = [g \in Doors |-> FALSE]

-----------------------------------------------------------------------------
(* What the lock's holders read.                                            *)

\* Table::doors and Table::runs.
Held == {g \in Doors : door[g].at \in {"reserved", "recorded", "open"}}
Kept == {r \in Runs : run[r].at \in {"inserted", "open"}}

Admissible == ~reg.stopped /\ ~reg.closed
CellEngaged(c) == c /\ engaged
DoorHalted(g) == g \in Held /\ (door[g].halted \/ CellEngaged(door[g].cell))
LiveDoor(g) == g \in Held /\ ~DoorHalted(g) /\ door[g].active /\ door[g].alive
InHaltedGroup(r) == \E g \in run[r].groups \cap Held : door[g].halted
Ended(r) == run[r].cancelled \/ run[r].finished

LiveMember(r, g) ==
  /\ r \in Kept /\ g \in run[r].groups
  /\ door[g].cell => run[r].cell
  /\ ~CellEngaged(run[r].cell) /\ ~InHaltedGroup(r) /\ ~Ended(r)

\* A removed door; that the File session was this door's is not forgotten.
Removed(g) == [NewDoor EXCEPT !.at = "gone", !.cell = door[g].cell]

PruneDoors(gone) ==
  /\ door' = [g \in Doors |-> IF g \in gone THEN Removed(g) ELSE door[g]]
  /\ run' = [r \in Runs |-> [run[r] EXCEPT !.groups = @ \ gone]]

Gone == {g \in Held : ~door[g].alive}

Prunable(r) == r \in Kept /\ Ended(r) /\ ~(run[r].cell /\ run[r].files # None)

-----------------------------------------------------------------------------
(* A door: issue_agent_door, its holder's drop, its halt.                   *)

\* The reservation, under the lock, before the owner is asked.
Reserve(g) ==
  /\ door[g].at = "none"
  /\ Admissible
  /\ Cardinality(Held \ Gone) < MaxDoors
  /\ door' = [h \in Doors |->
                IF h = g THEN [NewDoor EXCEPT !.at = "reserved", !.alive = TRUE]
                ELSE IF h \in Gone THEN Removed(h) ELSE door[h]]
  /\ run' = [r \in Runs |-> [run[r] EXCEPT !.groups = @ \ Gone]]
  /\ UNCHANGED <<question, reg, engaged, halts>>

\* A yes counts if the broker still admits, and once it is recorded.
AnswerDoor(g) ==
  /\ door[g].at = "reserved" /\ door[g].alive
  /\ \/ Admissible /\ door' = [door EXCEPT ![g].at = "recorded"]
     \/ door' = [door EXCEPT ![g].alive = FALSE]
  /\ UNCHANGED <<run, question, reg, engaged, halts>>

Activate(g) ==
  /\ door[g].at = "recorded" /\ door[g].alive
  /\ door' = [door EXCEPT ![g].at = "open", ![g].active = TRUE]
  /\ UNCHANGED <<run, question, reg, engaged, halts>>

DropDoor(g) ==
  /\ door[g].at = "open" /\ door[g].alive
  /\ door' = [door EXCEPT ![g].alive = FALSE]
  /\ UNCHANGED <<run, question, reg, engaged, halts>>

\* claim_file_session: one door of the process, its cell not engaged.
AttachCell(g) ==
  /\ door[g].at = "open" /\ door[g].alive
  /\ \A h \in Doors : ~door[h].cell
  /\ ~engaged
  /\ door' = [door EXCEPT ![g].cell = TRUE]
  /\ UNCHANGED <<run, question, reg, engaged, halts>>

\* halt, halt_group: the cell first, then the members in one hold.
HaltGroup(g) ==
  /\ g \in Held /\ door[g].alive /\ door[g].active
  /\ engaged' = (engaged \/ door[g].cell)
  /\ door' = [door EXCEPT ![g].halted = TRUE, ![g].consents = {}]
  /\ run' = [r \in Runs |->
               IF r \in door[g].members \cap Kept THEN [run[r] EXCEPT !.cancelled = TRUE]
               ELSE run[r]]
  /\ halts' = [halts EXCEPT ![g] = TRUE]
  /\ UNCHANGED <<question, reg>>

-----------------------------------------------------------------------------
(* A run: open_with_cell, its record, join, cancel, finish.                 *)

\* In no door, in a door, or in the File session's door with its cell.
Opens(r, g) ==
  \/ g = None
  \/ g \in Doors /\ LiveDoor(g)

\* The registry at capacity forgets the ended runs first.
Open(r, g) ==
  /\ run[r].at = "none"
  /\ Admissible
  /\ Opens(r, g)
  /\ LET full == Cardinality(Kept) >= RunCapacity
         pruned == IF full THEN {s \in Runs : Prunable(s)} ELSE {}
     IN /\ Cardinality(Kept \ pruned) < RunCapacity
        /\ run' = [s \in Runs |->
                     IF s = r
                     THEN [NewRun EXCEPT !.at = "inserted", !.by = g, !.groups = {g} \ {None},
                                         !.cell = g # None /\ door[g].cell]
                     ELSE IF s \in pruned THEN [NewRun EXCEPT !.at = "gone"] ELSE run[s]]
        /\ door' = [h \in Doors |->
                     [door[h] EXCEPT !.members = (@ \ pruned) \cup (IF h = g THEN {r} ELSE {})]]
  /\ UNCHANGED <<question, reg, engaged, halts>>

\* An unrecorded run is cancelled; a cancelled one is not returned.
RecordOpened(r) ==
  /\ run[r].at = "inserted"
  /\ \/ run' = [run EXCEPT ![r].at = "open"]
     \/ run' = [run EXCEPT ![r].at = "open", ![r].cancelled = TRUE]
  /\ UNCHANGED <<door, question, reg, engaged, halts>>

\* Mutant of Join: the door's halt is checked before the lock.
JoinUnlocked(r, g) ==
  /\ run[r].at = "open"
  /\ g \in Held /\ door[g].active /\ door[g].alive /\ ~door[g].cell
  /\ ~Ended(r) /\ ~run[r].cell
  /\ g \notin run[r].groups
  /\ Cardinality(run[r].groups \ Gone) < MaxGroups
  /\ door' = [h \in Doors |->
                IF h \in Gone THEN Removed(h)
                ELSE IF h = g THEN [door[h] EXCEPT !.members = @ \cup {r}] ELSE door[h]]
  /\ run' = [s \in Runs |-> [run[s] EXCEPT !.groups =
                (@ \ Gone) \cup (IF s = r THEN {g} ELSE {})]]
  /\ UNCHANGED <<question, reg, engaged, halts>>

\* adopt: a live run without the cell joins a live door without one.
Join(r, g) ==
  /\ run[r].at = "open"
  /\ LiveDoor(g) /\ ~door[g].cell
  /\ ~Ended(r) /\ ~run[r].cell
  /\ g \notin run[r].groups
  /\ Cardinality(run[r].groups \ Gone) < MaxGroups
  /\ door' = [h \in Doors |->
                IF h \in Gone THEN Removed(h)
                ELSE IF h = g THEN [door[h] EXCEPT !.members = @ \cup {r}] ELSE door[h]]
  /\ run' = [s \in Runs |-> [run[s] EXCEPT !.groups =
                (@ \ Gone) \cup (IF s = r THEN {g} ELSE {})]]
  /\ UNCHANGED <<question, reg, engaged, halts>>

\* A join or a reservation refused after its prune still reclaimed the gone.
Reclaim ==
  /\ Gone # {}
  /\ PruneDoors(Gone)
  /\ UNCHANGED <<question, reg, engaged, halts>>

Cancel(r) ==
  /\ r \in Kept /\ ~Ended(r)
  /\ run' = [run EXCEPT ![r].cancelled = TRUE]
  /\ UNCHANGED <<door, question, reg, engaged, halts>>

Finish(r) ==
  /\ r \in Kept /\ ~Ended(r)
  /\ run' = [run EXCEPT ![r].finished = TRUE]
  /\ UNCHANGED <<door, question, reg, engaged, halts>>

-----------------------------------------------------------------------------
(* The owner's answer: consent_slot, the dialog, its record, fill.          *)

\* A slot is counted before the owner is asked; it carries the stop's number.
AskDoor(q, g, c, f) ==
  /\ question[q].at = "none"
  /\ Admissible /\ LiveDoor(g)
  /\ Cardinality(door[g].consents) + door[g].pending < MaxConsents
  /\ door' = [door EXCEPT ![g].pending = @ + 1]
  /\ question' = [question EXCEPT ![q] = [at |-> "asked", door |-> g, contract |-> c, facts |-> f,
                                         epoch |-> reg.epoch, asked |-> reg.epoch]]
  /\ UNCHANGED <<run, reg, engaged, halts>>

AskOwner(q, c, f) ==
  /\ question[q].at = "none"
  /\ Admissible
  /\ question' = [question EXCEPT ![q] = [at |-> "asked", door |-> Owner, contract |-> c,
                                         facts |-> f, epoch |-> reg.epoch, asked |-> reg.epoch]]
  /\ UNCHANGED <<door, run, reg, engaged, halts>>

\* What ends without a consent gives its slot back.
Released(g) ==
  IF g \in Held THEN [door EXCEPT ![g].pending = IF @ > 0 THEN @ - 1 ELSE 0] ELSE door

\* A no, an unanswered dialog, a stop meanwhile or a refused record.
Decline(q) ==
  /\ question[q].at = "asked"
  /\ question' = [question EXCEPT ![q].at = "ended"]
  /\ door' = Released(question[q].door)
  /\ UNCHANGED <<run, reg, engaged, halts>>

\* Evidence first; the owner's own front door has its approval here.
RecordYes(q) ==
  /\ question[q].at = "asked"
  /\ Admissible
  /\ question' = [question EXCEPT ![q].at = IF question[q].door = Owner THEN "yes" ELSE "recorded"]
  /\ UNCHANGED <<door, run, reg, engaged, halts>>

Fills(q) ==
  LET g == question[q].door
  IN /\ Admissible /\ LiveDoor(g)
     /\ reg.epoch = question[q].epoch
     /\ Cardinality(door[g].consents) < MaxConsents

Fill(q) ==
  /\ question[q].at = "recorded"
  /\ LET g == question[q].door
     IN IF Fills(q)
        THEN /\ door' = [Released(g) EXCEPT ![g].consents = @ \cup {q}]
             /\ question' = [question EXCEPT ![q].at = "yes"]
        ELSE /\ door' = Released(g)
             /\ question' = [question EXCEPT ![q].at = "ended"]
  /\ UNCHANGED <<run, reg, engaged, halts>>

-----------------------------------------------------------------------------
(* What a yes is for: admissible, admit_files, admit_inference.             *)

Matching(g, c) ==
  {q \in door[g].consents : question[q].epoch = reg.epoch /\ question[q].contract = c}

\* One yes at least, and no two that showed different facts.
Agreed(g, c) ==
  /\ Matching(g, c) # {}
  /\ \A p, q \in Matching(g, c) : question[p].facts = question[q].facts

\* Mutant of MayAdmit: the run need only be listed.
MayAdmitAny(r, g, c) ==
  Admissible /\ LiveDoor(g) /\ r \in Kept /\ g \in run[r].groups /\ Agreed(g, c)

MayAdmit(r, g, c) == Admissible /\ LiveDoor(g) /\ LiveMember(r, g) /\ Agreed(g, c)

AdmitFiles(r, g, c) ==
  /\ MayAdmit(r, g, c)
  /\ run[r].files = None
  /\ \E q \in Matching(g, c) : run' = [run EXCEPT ![r].files = q]
  /\ UNCHANGED <<door, question, reg, engaged, halts>>

AdmitInference(r, g, c) ==
  /\ MayAdmit(r, g, c)
  /\ run[r].inference = None
  /\ \E q \in Matching(g, c) : run' = [run EXCEPT ![r].inference = q]
  /\ UNCHANGED <<door, question, reg, engaged, halts>>

ModelCall(r, g) ==
  /\ Admissible /\ LiveDoor(g) /\ LiveMember(r, g)
  /\ run[r].inference # None
  /\ run[r].attempts < MaxAttempts
  /\ run' = [run EXCEPT ![r].attempts = @ + 1]
  /\ UNCHANGED <<door, question, reg, engaged, halts>>

-----------------------------------------------------------------------------
(* The registry as a whole.                                                 *)

\* A mission's halt, or a Stop that has so far reached only the cell.
EngageCell ==
  /\ ~engaged
  /\ engaged' = TRUE
  /\ UNCHANGED <<door, run, question, reg, halts>>

Stop ==
  /\ reg.epoch < MaxStops
  /\ reg' = [reg EXCEPT !.stopped = TRUE, !.epoch = @ + 1]
  /\ engaged' = TRUE
  /\ door' = [g \in Doors |-> [door[g] EXCEPT !.consents = {}]]
  /\ run' = [r \in Runs |-> IF r \in Kept THEN [run[r] EXCEPT !.cancelled = TRUE] ELSE run[r]]
  /\ UNCHANGED <<question, halts>>

Lift ==
  /\ reg.stopped
  /\ reg' = [reg EXCEPT !.stopped = FALSE]
  /\ UNCHANGED <<door, run, question, engaged, halts>>

Close ==
  /\ ~reg.closed
  /\ reg' = [reg EXCEPT !.closed = TRUE]
  /\ UNCHANGED <<door, run, question, engaged, halts>>

-----------------------------------------------------------------------------
Next ==
  \/ \E g \in Doors : Reserve(g) \/ AnswerDoor(g) \/ Activate(g) \/ DropDoor(g)
                        \/ AttachCell(g) \/ HaltGroup(g)
  \/ \E r \in Runs : RecordOpened(r) \/ Cancel(r) \/ Finish(r)
  \/ \E r \in Runs, g \in Doors \cup {None} : Open(r, g)
  \/ \E r \in Runs, g \in Doors : Join(r, g) \/ ModelCall(r, g)
  \/ \E r \in Runs, g \in Doors, c \in Contracts : AdmitFiles(r, g, c) \/ AdmitInference(r, g, c)
  \/ \E q \in Questions, g \in Doors, c \in Contracts, f \in Facts : AskDoor(q, g, c, f)
  \/ \E q \in Questions, c \in Contracts, f \in Facts : AskOwner(q, c, f)
  \/ \E q \in Questions : Decline(q) \/ RecordYes(q) \/ Fill(q)
  \/ Reclaim \/ EngageCell \/ Stop \/ Lift \/ Close

Spec == Init /\ [][Next]_vars

-----------------------------------------------------------------------------
(* Properties.                                                              *)

(* A run lists a door exactly when the door lists the run, and lists no     *)
(* door that is gone, through joins and through both prunes.                *)
MembershipAgrees ==
  /\ \A g \in Held, r \in Kept : r \in door[g].members <=> g \in run[r].groups
  /\ \A r \in Kept : run[r].groups \subseteq Held
  /\ \A g \in Held : door[g].members \subseteq Kept

(* A halted door has no live member: none was spared by the halt, opened    *)
(* beside it or adopted after it.                                           *)
NoLiveMemberOfAHaltedDoor ==
  \A g \in Doors, r \in Kept : halts[g] /\ g \in run[r].groups => Ended(r)

(* A cached yes was asked since the last stop, and its door was never       *)
(* halted (H1').                                                            *)
CachedYesIsFresh ==
  \A g \in Doors : \A q \in door[g].consents : question[q].asked = reg.epoch /\ ~halts[g]

Slots(g) == {q \in Questions : question[q].door = g /\ question[q].at \in {"asked", "recorded"}}

(* A live door's pending count is the number of its open questions, so a    *)
(* declined, refused or stopped question leaks no place and no answer comes *)
(* without one.                                                             *)
SlotsAreCounted ==
  \A g \in Held : door[g].pending = Cardinality(Slots(g))
                    /\ Cardinality(door[g].consents) + door[g].pending <= MaxConsents

NewlyBound(r) == run'[r].files # run[r].files \/ run'[r].inference # run[r].inference

(* An admission binds only a live run, none of whose doors was halted, and  *)
(* in the File session's door only a run that carries its cell.             *)
OnlyLiveRunsAreAdmitted ==
  \A r \in Runs : NewlyBound(r) /\ run'[r].at # "gone" =>
       /\ ~Ended(r) /\ ~reg.stopped
       /\ \A g \in run[r].groups : ~halts[g]
       /\ run[r].cell => ~engaged

(* The yes behind an admission is the only answer in force for its          *)
(* contract: no other cached yes showed other facts.                        *)
AdmittedFactsAreUnambiguous ==
  \A r \in Runs : NewlyBound(r) /\ run'[r].at # "gone" =>
       LET q == IF run'[r].files # run[r].files THEN run'[r].files ELSE run'[r].inference
       IN \A p \in door[question[q].door].consents :
            question[p].contract = question[q].contract => question[p].facts = question[q].facts

\* The door table is sound: doors and runs list each other, a halted door has no
\* live member, a cached yes is fresh, and the consent slots are counted.
DoorsHold ==
    MembershipAgrees /\ NoLiveMemberOfAHaltedDoor /\ CachedYesIsFresh /\ SlotsAreCounted

\* An admission binds a live run, none of whose doors was halted, under the one
\* answer in force.
AdmissionsHold == OnlyLiveRunsAreAdmitted /\ AdmittedFactsAreUnambiguous
=============================================================================
