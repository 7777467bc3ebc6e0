------------------------------ MODULE StopResume ------------------------------
(***************************************************************************)
(* The owner's emergency stop and its lift, as they span two registers     *)
(* that no lock covers together: the broker's run registry                 *)
(* (authority/run.rs) and the kernel's stop authority (emergency_stop.rs). *)
(* A Stop engages the kernel, stops the broker and engages the kernel      *)
(* again; a resume reads the kernel's number, asks the owner about the     *)
(* broker's stop, lifts the broker and then the kernel, by number.  Every  *)
(* atomic or locked section of governed.rs is a step of its own.           *)
(*                                                                         *)
(* A resume may carry the File session's halt cell (a legacy, not a host   *)
(* session, cell): one atomic word that every ingress moves.  What the     *)
(* stop does to commitments is in Commitments.                             *)
(***************************************************************************)
EXTENDS Integers, FiniteSets

CONSTANTS
  Threads,     \* callers of emergency_stop, resume, resume_with_halt, shut_down
  Work,        \* kernel work that asks to be admitted
  Runs,        \* agent runs
  LastNumber,  \* the largest broker stop number (u64::MAX in the code)
  MaxStops,    \* bound: Stop calls
  MaxResumes   \* bound: resumes

ASSUME StopAssumption ==
  IsFiniteSet(Runs) /\ LastNumber \in Nat \ {0} /\ MaxStops \in Nat /\ MaxResumes \in Nat

VARIABLES
  kernel,   \* StopAuthority::State: stopped and the number of engagements
  broker,   \* RunRegistry: stopped, stop_number, exhausted, last_lifted, ...
  cell,     \* the ingress word of the File session: how often it was engaged
  runs,     \* run -> none | live | ended
  watch,    \* work -> none | the number its StopWatch was admitted at
  latched,  \* the evidence store's latch: nothing more is recorded
  resumed,  \* the stop numbers of the Resumed records
  thread,   \* thread -> where it is in its call, and what it has read
  stops,    \* history: calls of stop_all
  endedBy,  \* history: runs ended by a stop since the last lift
  calls     \* history: how many Stop and resume calls were begun

state == <<kernel, broker, cell, runs, watch, latched, resumed>>
vars == <<kernel, broker, cell, runs, watch, latched, resumed, thread, stops, endedBy, calls>>

None == -1

Idle == [at |-> "idle", celled |-> FALSE, snapshot |-> 0, confirmed |-> 0,
         number |-> 0, cancelled |-> 0, lifted |-> FALSE, asked |-> 0]

Init ==
  /\ kernel = [stopped |-> FALSE, number |-> 0]
  /\ broker = [stopped |-> FALSE, number |-> 0, exhausted |-> FALSE,
               lifted |-> 0, closed |-> FALSE, cancelled |-> 0]
  /\ cell = 0
  /\ runs = [r \in Runs |-> "none"]
  /\ watch = [w \in Work |-> None]
  /\ latched = FALSE
  /\ resumed = {}
  /\ thread = [t \in Threads |-> Idle]
  /\ stops = 0
  /\ endedBy = {}
  /\ calls = [stop |-> 0, resume |-> 0]

At(t, p) == thread[t].at = p
Goto(t, p) == thread' = [thread EXCEPT ![t].at = p]
Return(t) == thread' = [thread EXCEPT ![t] = Idle]

-----------------------------------------------------------------------------
(* Kernel: work is admitted with a watch, and is halted once the number     *)
(* moved.                                                                   *)

Admit(w) ==
  /\ watch[w] = None
  /\ ~kernel.stopped
  /\ watch' = [watch EXCEPT ![w] = kernel.number]
  /\ UNCHANGED <<kernel, broker, cell, runs, latched, resumed, thread, stops, endedBy, calls>>

Halted(w) == watch[w] # None /\ watch[w] # kernel.number

Engaged == [stopped |-> TRUE, number |-> kernel.number + 1]

LiftIf(n) == IF kernel.number = n THEN [kernel EXCEPT !.stopped = FALSE] ELSE kernel

-----------------------------------------------------------------------------
(* Stop: stop_for and narrow_native_stop.                                   *)

\* The first instruction of a Stop: the File session's cell.
Stop(t) ==
  /\ At(t, "idle")
  /\ calls.stop < MaxStops
  /\ cell' = cell + 1
  /\ calls' = [calls EXCEPT !.stop = @ + 1]
  /\ Goto(t, "engage")
  /\ UNCHANGED <<kernel, broker, runs, watch, latched, resumed, stops, endedBy>>

Engage(t) ==
  /\ At(t, "engage")
  /\ kernel' = Engaged
  /\ Goto(t, "stop_effects")
  /\ UNCHANGED <<broker, cell, runs, watch, latched, resumed, stops, endedBy, calls>>

Live == {r \in Runs : runs[r] = "live"}

\* The stop is counted, or, when the count is at its end, marked exhausted.
Stopped(b, cancelled) ==
  [b EXCEPT !.stopped = TRUE,
            !.number = IF @ < LastNumber THEN @ + 1 ELSE @,
            !.exhausted = @ \/ b.number = LastNumber,
            !.cancelled = @ + cancelled]

StopAll(t) ==
  /\ At(t, "stop_effects")
  /\ broker' = Stopped(broker, Cardinality(Live))
  /\ runs' = [r \in Runs |-> IF r \in Live THEN "ended" ELSE runs[r]]
  /\ stops' = stops + 1
  /\ endedBy' = endedBy \cup Live
  /\ Goto(t, "engage_again")
  /\ UNCHANGED <<kernel, cell, watch, latched, resumed, calls>>

\* Mutant of EngageAgain: the kernel is engaged once only.
EngageOnce(t) ==
  /\ At(t, "engage_again")
  /\ Return(t)
  /\ UNCHANGED <<state, stops, endedBy, calls>>

EngageAgain(t) ==
  /\ At(t, "engage_again")
  /\ kernel' = Engaged
  /\ Return(t)
  /\ UNCHANGED <<broker, cell, runs, watch, latched, resumed, stops, endedBy, calls>>

\* A mission's own halt, or an emergency that reached only the cell.
EngageCell ==
  /\ calls.stop < MaxStops
  /\ cell' = cell + 1
  /\ calls' = [calls EXCEPT !.stop = @ + 1]
  /\ UNCHANGED <<kernel, broker, runs, watch, latched, resumed, thread, stops, endedBy>>

-----------------------------------------------------------------------------
(* Resume: resume_with_halt and resume_with_recovery.                       *)

\* RecoveryCheck::check: without a cell, nothing to overtake.
Recovering(t) == thread[t].celled => cell = thread[t].snapshot

\* The cell's snapshot is taken before anything else is read.
Resume(t, celled) ==
  /\ At(t, "idle")
  /\ calls.resume < MaxResumes
  /\ thread' = [thread EXCEPT ![t] = [Idle EXCEPT !.at = "confirmed", !.celled = celled,
                                                  !.snapshot = cell]]
  /\ calls' = [calls EXCEPT !.resume = @ + 1]
  /\ UNCHANGED <<state, stops, endedBy>>

\* The kernel's number is read; a latched store, or an owner who does not
\* acknowledge the recovery, ends the resume here.
ReadConfirmed(t) ==
  /\ At(t, "confirmed")
  /\ \/ /\ Recovering(t)
        /\ ~latched
        /\ thread' = [thread EXCEPT ![t].confirmed = kernel.number, ![t].at = "stop_to_lift"]
     \/ Return(t)
  /\ UNCHANGED <<state, stops, endedBy, calls>>

\* What the dialog will name.
StopToLift(t) ==
  /\ At(t, "stop_to_lift")
  /\ thread' =
       IF broker.closed \/ (broker.stopped /\ broker.exhausted)
       THEN [thread EXCEPT ![t] = Idle]
       ELSE IF broker.stopped
       THEN [thread EXCEPT ![t].at = "dialog", ![t].number = broker.number,
                           ![t].cancelled = broker.cancelled, ![t].asked = stops]
       ELSE [thread EXCEPT ![t].at = "is_stopped"]
  /\ UNCHANGED <<state, stops, endedBy, calls>>

Confirm(t) ==
  /\ At(t, "dialog")
  /\ \/ Recovering(t) /\ Goto(t, "check_lift")
     \/ Return(t)
  /\ UNCHANGED <<state, stops, endedBy, calls>>

\* Mutant of Refused: a stop past the last number is told apart by nothing.
RefusedByNumber(number) == broker.closed \/ broker.number # number

Refused(number) == broker.closed \/ broker.exhausted \/ broker.number # number

CheckLift(t) ==
  /\ At(t, "check_lift")
  /\ \/ Refused(thread[t].number) /\ Return(t)
     \/ /\ ~Refused(thread[t].number)
        /\ Goto(t, IF broker.stopped THEN "record" ELSE "is_stopped")
  /\ UNCHANGED <<state, stops, endedBy, calls>>

\* Evidence first: an unrecorded resume does not happen.
RecordResumed(t) ==
  /\ At(t, "record")
  /\ \/ latched /\ Return(t) /\ UNCHANGED resumed
     \/ /\ ~latched
        /\ resumed' = resumed \cup {thread[t].number}
        /\ Goto(t, "lift")
  /\ UNCHANGED <<kernel, broker, cell, runs, watch, latched, stops, endedBy, calls>>

Lift(t) ==
  /\ At(t, "lift")
  /\ IF Refused(thread[t].number) \/ (broker.stopped /\ ~Recovering(t))
     THEN Return(t) /\ UNCHANGED <<broker, endedBy>>
     ELSE IF ~broker.stopped
     THEN Goto(t, "is_stopped") /\ UNCHANGED <<broker, endedBy>>
     ELSE /\ broker' = [broker EXCEPT !.stopped = FALSE, !.lifted = thread[t].number,
                                      !.cancelled = 0]
          /\ endedBy' = {}
          /\ thread' = [thread EXCEPT ![t].at = "is_stopped", ![t].lifted = TRUE]
  /\ UNCHANGED <<kernel, cell, runs, watch, latched, resumed, stops, calls>>

\* The kernel is lifted only if the broker is: read here, used in LiftKernel.
IsStopped(t) ==
  /\ At(t, "is_stopped")
  /\ IF broker.stopped THEN Return(t) ELSE Goto(t, "lift_if")
  /\ UNCHANGED <<state, stops, endedBy, calls>>

\* With a cell the check and the lift share the hold of the runs lock
\* (recovery_boundary); an overtaken check goes straight to the Stop.
LiftKernel(t) ==
  /\ At(t, "lift_if")
  /\ IF ~Recovering(t)
     THEN Goto(t, "halted") /\ UNCHANGED kernel
     ELSE /\ kernel' = LiftIf(thread[t].confirmed)
          /\ IF thread[t].celled THEN Goto(t, "final_check") ELSE Return(t)
  /\ UNCHANGED <<broker, cell, runs, watch, latched, resumed, stops, endedBy, calls>>

FinalCheck(t) ==
  /\ At(t, "final_check")
  /\ IF Recovering(t) THEN Return(t) ELSE Goto(t, "halted")
  /\ UNCHANGED <<state, stops, endedBy, calls>>

\* The overtaken lift stops again, by the ordinary route.
StopAgain(t) ==
  /\ At(t, "halted")
  /\ cell' = cell + 1
  /\ Goto(t, "engage")
  /\ UNCHANGED <<kernel, broker, runs, watch, latched, resumed, stops, endedBy, calls>>

-----------------------------------------------------------------------------
(* Runs, quitting and the evidence latch.                                   *)

Open(r) ==
  /\ runs[r] = "none"
  /\ ~broker.stopped /\ ~broker.closed
  /\ runs' = [runs EXCEPT ![r] = "live"]
  /\ UNCHANGED <<kernel, broker, cell, watch, latched, resumed, thread, stops, endedBy, calls>>

End(r) ==
  /\ runs[r] = "live"
  /\ runs' = [runs EXCEPT ![r] = "ended"]
  /\ UNCHANGED <<kernel, broker, cell, watch, latched, resumed, thread, stops, endedBy, calls>>

\* shut_down: its cancels are End steps.
Close ==
  /\ ~broker.closed
  /\ broker' = [broker EXCEPT !.closed = TRUE]
  /\ UNCHANGED <<kernel, cell, runs, watch, latched, resumed, thread, stops, endedBy, calls>>

Latch ==
  /\ ~latched
  /\ latched' = TRUE
  /\ UNCHANGED <<kernel, broker, cell, runs, watch, resumed, thread, stops, endedBy, calls>>

-----------------------------------------------------------------------------
InStop(t) == Stop(t) \/ Engage(t) \/ StopAll(t) \/ EngageAgain(t)

InResume(t) ==
  \/ \E celled \in BOOLEAN : Resume(t, celled)
  \/ ReadConfirmed(t) \/ StopToLift(t) \/ Confirm(t) \/ CheckLift(t)
  \/ RecordResumed(t) \/ Lift(t) \/ IsStopped(t) \/ LiftKernel(t)
  \/ FinalCheck(t) \/ StopAgain(t)

Next ==
  \/ \E t \in Threads : InStop(t) \/ InResume(t)
  \/ \E w \in Work : Admit(w)
  \/ \E r \in Runs : Open(r) \/ End(r)
  \/ EngageCell \/ Close \/ Latch

Spec == Init /\ [][Next]_vars

-----------------------------------------------------------------------------
(* Properties.                                                             *)

Points == {"idle", "engage", "stop_effects", "engage_again", "confirmed",
           "stop_to_lift", "dialog", "check_lift", "record", "lift",
           "is_stopped", "lift_if", "final_check", "halted"}

Numbers == 0 .. LastNumber

\* Every register and every thread has the shape of its Rust type.
TypeOK ==
  /\ kernel \in [stopped : BOOLEAN, number : Nat]
  /\ broker \in [stopped : BOOLEAN, number : Numbers, exhausted : BOOLEAN,
                 lifted : Numbers, closed : BOOLEAN, cancelled : Nat]
  /\ cell \in Nat
  /\ runs \in [Runs -> {"none", "live", "ended"}]
  /\ watch \in [Work -> Nat \cup {None}]
  /\ latched \in BOOLEAN
  /\ resumed \subseteq Numbers
  /\ thread \in [Threads -> [at : Points, celled : BOOLEAN, snapshot : Nat, confirmed : Nat,
                             number : Numbers, cancelled : Nat, lifted : BOOLEAN, asked : Nat]]
  /\ stops \in Nat
  /\ endedBy \subseteq Runs
  /\ calls \in [stop : Nat, resume : Nat]

Stopping == \E t \in Threads : At(t, "engage_again")

(* narrow_native_stop's second engagement: with no Stop between its broker  *)
(* step and its last step, a stopped broker never stands beside a lifted    *)
(* kernel, whatever resumes ran meanwhile.                                  *)
StoppedTogether == broker.stopped /\ ~Stopping => kernel.stopped

(* And no kernel work survives a Stop that returned: what a resume's stale  *)
(* lift let in beside the Stop is halted by the second engagement.          *)
NoWorkUnderAStop ==
  broker.stopped /\ ~Stopping => \A w \in Work : watch[w] # None => Halted(w)

(* The owner's yes lifts the stop it was asked about and no other, at the   *)
(* end of the number's range too (check_lift, lift, exhausted).             *)
LiftsOnlyWhatWasAsked ==
  broker.stopped /\ ~broker'.stopped
    => \E t \in Threads : At(t, "lift") /\ thread[t].asked = stops

(* The dialog's count of ended runs is the count of the runs that stops     *)
(* ended since the last lift, at the moment the yes takes effect.           *)
ToldHowManyRunsEnded ==
  \A t \in Threads : ~thread[t].lifted /\ thread'[t].lifted
    => thread[t].cancelled = Cardinality(endedBy)

(* "Another resume lifted this stop, and recorded it": a lifted stop has    *)
(* its Resumed record, and two resumes of one stop lift it once.            *)
LiftIsRecorded == broker.lifted # 0 => broker.lifted \in resumed

(* A resume that carries the cell and returns while the cell has moved      *)
(* since its snapshot leaves, if it lifted, a newer stop in both registers. *)
OvertakenLiftIsUndone ==
  \A t \in Threads :
    /\ thread[t].celled /\ ~At(t, "idle") /\ thread'[t].at = "idle"
    /\ thread[t].lifted
    /\ cell # thread[t].snapshot
    => (kernel'.number > thread[t].confirmed \/ Stopping')
       /\ (broker'.number > thread[t].number \/ broker'.exhausted)

(* A Stop that returned stands: kernel and broker are stopped together, no  *)
(* work goes on under it, and what was lifted was recorded.                 *)
StopsStand == StoppedTogether /\ NoWorkUnderAStop /\ LiftIsRecorded

(* A resume lifts what the owner was asked about, with the count shown, and *)
(* one overtaken by a newer stop is undone.                                 *)
LiftIsRight == LiftsOnlyWhatWasAsked /\ ToldHowManyRunsEnded /\ OvertakenLiftIsUndone
LiftsAreRight == [][LiftIsRight]_vars
=============================================================================
