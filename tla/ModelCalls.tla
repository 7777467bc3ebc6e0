----------------------------- MODULE ModelCalls -----------------------------
(***************************************************************************)
(* A lane's calls to the local model, and what they cost the mission.      *)
(*                                                                         *)
(* The coordinator reserves a lane with a cap, journals the invocation and *)
(* hands the lane a sealed caller.  The lane may call from several         *)
(* threads; each call passes the port and the broker, is charged against   *)
(* the mission's budget (under the coordinator's lock, journaled first),   *)
(* sends one chat, is settled, and is recorded by the broker.  A Stop, the *)
(* deadline, a call over its cap or an unrecorded attempt engages the      *)
(* session's cell meanwhile; the mission then ends, which revokes the      *)
(* invocation, and its late answer is journaled as overtaken.  The process *)
(* may die anywhere; the journal is then replayed by the same accounting.  *)
(***************************************************************************)
EXTENDS Integers, Sequences, FiniteSets, SequencesExt

CONSTANTS
  Threads,       \* the lane's threads
  Caps,          \* lane.max_model_calls, of each lane the mission may run
  Budget,        \* the contract's max_model_calls
  MaxLanes,      \* bound: lanes invoked
  MaxAttempts    \* MAX_MODEL_ATTEMPTS, counted by the broker for the run

CallsAssumption ==
  /\ Caps \subseteq 0..4 /\ Caps # {}
  /\ Budget \in Nat \ {0} /\ MaxLanes \in Nat /\ MaxAttempts \in Nat

None == 0

VARIABLES
  up,        \* the process runs
  journal,   \* the mission's lines, as far as they are about calls
  broken,    \* inner.broken: an append failed
  mission,   \* state.is_working, generation, pending_lane, model_calls
  live,      \* lane_calls: a set of at most one [inv, gen, inFlight]
  acc,       \* call_accounting: a set of at most one
  revoked,   \* the invocations whose owner was revoked
  cell,      \* the File session's halt cell is engaged
  late,      \* the mission's deadline has expired
  active,    \* model_active
  debt,      \* model_debt
  attempts,  \* the run's model_attempts, at the broker
  lane,      \* where the advance that runs the lane is
  calls,     \* where each thread's call is: [pc, inv, gen, call, reply]
  chats,     \* ghost: the chats sent, as a sequence of [inv, call]
  unrecorded \* ghost: the invocations with an attempt not recorded

vars == <<up, journal, broken, mission, live, acc, revoked, cell, late, active,
          debt, attempts, lane, calls, chats, unrecorded>>

Idle == [pc |-> "idle", inv |-> None, gen |-> 0, call |-> 0, reply |-> FALSE]

Usable == ~broken
Larger(a, b) == IF a >= b THEN a ELSE b
-----------------------------------------------------------------------------
(* CallAccounting: the count shared by the live meter and by replay. *)

Reservable(total, cap) == cap = 0 \/ total + cap <= Budget

Accounting(inv, cap) ==
  IF cap = 0 THEN {} ELSE {[inv |-> inv, cap |-> cap, next |-> 1, prepaid |-> TRUE]}

Exhausted(a, total) ==
  \/ a.next > a.cap
  \/ a.next = 1 /\ ~a.prepaid
  \/ a.next > 1 /\ total >= Budget

\* The first call was paid for by the invocation itself.
ChargedTotal(a, total) == IF a.next = 1 THEN total ELSE total + 1
ChargedAcc(a) == [a EXCEPT !.next = @ + 1, !.prepaid = FALSE]
-----------------------------------------------------------------------------
(* The journal, and its replay: one step per event, refused where the code *)
(* returns a ReplayViolation.                                              *)
Invoked(i, cap) == [event |-> "invoked", inv |-> i, n |-> cap]
Charged(i, call) == [event |-> "charged", inv |-> i, n |-> call]
Returned(i) == [event |-> "returned", inv |-> i, n |-> 0]
Overtaken(i) == [event |-> "overtaken", inv |-> i, n |-> 0]
Moved == [event |-> "moved", inv |-> None, n |-> 0]
Ended == [event |-> "ended", inv |-> None, n |-> 0]

Blank == [ok |-> TRUE, working |-> TRUE, pending |-> None, total |-> 0, acc |-> {}]

Refused(s) == [s EXCEPT !.ok = FALSE]

ReplayInvoked(s, e) ==
  IF ~s.working \/ s.pending # None \/ ~Reservable(s.total, e.n) THEN Refused(s)
  ELSE [s EXCEPT !.pending = e.inv, !.total = @ + 1, !.acc = Accounting(e.inv, e.n)]

ReplayCharged(s, e) ==
  IF \/ s.pending # e.inv \/ ~s.working \/ s.acc = {}
     \/ \E a \in s.acc : a.inv # e.inv \/ e.n # a.next \/ Exhausted(a, s.total)
  THEN Refused(s)
  ELSE LET a == CHOOSE x \in s.acc : TRUE IN
       [s EXCEPT !.total = ChargedTotal(a, @), !.acc = {ChargedAcc(a)}]

ReplayEnd(s, e) ==
  IF s.pending # e.inv THEN Refused(s)
  ELSE [s EXCEPT !.pending = None, !.acc = {}]

ReplayStep(s, e) ==
  IF ~s.ok THEN s ELSE
  CASE e.event = "invoked" -> ReplayInvoked(s, e)
    [] e.event = "charged" -> ReplayCharged(s, e)
    [] e.event \in {"returned", "overtaken"} -> ReplayEnd(s, e)
    [] e.event = "moved" -> [s EXCEPT !.acc = {}]
    [] e.event = "ended" -> [s EXCEPT !.acc = {}, !.working = FALSE]

Replay(j) == FoldLeft(ReplayStep, Blank, j)

\* write_record: an append that fails may have left its line, and breaks the
\* coordinator, which revokes the live invocation.
Appends(e) == journal' = Append(journal, e) /\ UNCHANGED broken
FailsToAppend(e) == journal' \in {journal, Append(journal, e)} /\ broken' = TRUE

\* invalidate_calls, when live and accounting go.
Invalidated ==
  /\ revoked' = revoked \cup {l.inv : l \in live}
  /\ live' = {} /\ acc' = {}
-----------------------------------------------------------------------------
(* The mission ends, for whatever cause: observers are denied before the   *)
(* append, and memory moves even when the append fails.                    *)
EndMission ==
  IF mission.working /\ Usable
  THEN /\ Appends(Ended) \/ FailsToAppend(Ended)
       /\ Invalidated
       /\ mission' = [mission EXCEPT !.working = FALSE, !.gen = @ + 1]
  ELSE UNCHANGED <<journal, broken, live, acc, revoked, mission>>

(* Another thread's Stop: the cell first, then the record. *)
StopEngages ==
  /\ up /\ ~cell
  /\ cell' = TRUE
  /\ UNCHANGED <<up, journal, broken, mission, live, acc, revoked, late, active,
                 debt, attempts, lane, calls, chats, unrecorded>>

StopRecords ==
  /\ up /\ cell /\ mission.working /\ Usable
  /\ EndMission
  /\ UNCHANGED <<up, cell, late, active, debt, attempts, lane, calls, chats, unrecorded>>

DeadlinePasses ==
  /\ up /\ ~late
  /\ late' = TRUE
  /\ UNCHANGED <<up, journal, broken, mission, live, acc, revoked, cell, active,
                 debt, attempts, lane, calls, chats, unrecorded>>
-----------------------------------------------------------------------------
(* reserve_lane and Caller::reserved, in one hold of the lock. *)
LanesInvoked == Cardinality({k \in 1..Len(journal) : journal[k].event = "invoked"})

Reserve(cap) ==
  /\ up /\ lane.pc = "idle" /\ Usable /\ ~cell /\ mission.working
  /\ mission.pending = None
  /\ LanesInvoked < MaxLanes
  /\ IF mission.total + Larger(cap, 1) > Budget \/ late \/ ~Reservable(mission.total, cap)
     THEN EndMission /\ cell' = TRUE /\ UNCHANGED <<lane, active>>
     ELSE LET i == Len(journal) + 1 IN
          \/ /\ Appends(Invoked(i, cap))
             /\ mission' = [mission EXCEPT !.pending = i, !.total = @ + 1]
             /\ live' = IF cap = 0 THEN {}
                        ELSE {[inv |-> i, gen |-> mission.gen, inFlight |-> FALSE]}
             /\ acc' = Accounting(i, cap)
             /\ lane' = [pc |-> "reserved", inv |-> i, gen |-> mission.gen, cap |-> cap]
             /\ active' = (cap > 0)
             /\ UNCHANGED <<revoked, cell>>
          \/ /\ FailsToAppend(Invoked(i, cap))
             /\ Invalidated
             /\ UNCHANGED <<mission, lane, active, cell>>
  /\ UNCHANGED <<up, late, debt, attempts, calls, chats, unrecorded>>

(* Caller::admit and the boundary before the lane is invoked: the broker's *)
(* refusal, or an engaged cell, ends the mission and drops the caller.     *)
LaneAdmitted ==
  /\ up /\ lane.pc = "reserved"
  /\ \/ /\ ~cell /\ ~late
        /\ lane' = [lane EXCEPT !.pc = "running"]
        /\ UNCHANGED <<cell, journal, broken, mission, live, acc, revoked, active>>
     \/ /\ cell \/ late \/ lane.cap > 0
        /\ cell' = TRUE
        /\ active' = FALSE
        /\ EndMission
        /\ lane' = [lane EXCEPT !.pc = "over"]
  /\ UNCHANGED <<up, late, debt, attempts, calls, chats, unrecorded>>

\* Caller::live, and the caller's own view: its observer and the cell.
CallerLive(inv) == inv \notin revoked /\ ~cell

(* Caller::call up to the broker's admission: model_call of the port, the  *)
(* run's attempts; then the transport's own checks, which may fail.        *)
Begin(t) ==
  /\ up /\ lane.pc = "running" /\ lane.cap > 0 /\ calls[t].pc = "idle"
  /\ CallerLive(lane.inv)
  /\ attempts < MaxAttempts
  /\ attempts' = attempts + 1
  /\ \E pc \in {"admitted", "recording"} :
       calls' = [calls EXCEPT ![t] = [Idle EXCEPT !.pc = pc, !.inv = lane.inv,
                                                  !.gen = lane.gen]]
  /\ UNCHANGED <<up, journal, broken, mission, live, acc, revoked, cell, late,
                 active, debt, lane, chats, unrecorded>>

At(t, pc) == up /\ calls[t].pc = pc
Goes(t, pc) == calls' = [calls EXCEPT ![t].pc = pc]

\* BorrowedMeter::charge: the mission, the invocation and its liveness.
Fresh(t) ==
  LET c == calls[t] IN
  /\ Usable /\ ~cell
  /\ mission.gen = c.gen /\ mission.pending = c.inv /\ mission.working
  /\ \E l \in live : l.inv = c.inv /\ l.gen = c.gen /\ l.inv \notin revoked
  /\ acc # {}

MayCharge(l, a) == ~l.inFlight /\ ~Exhausted(a, mission.total) /\ ~late

\* Mutant of TakeCharge: the total is charged for the first call too
TakeChargeTwice(t, a) ==
  /\ mission' = [mission EXCEPT !.total = @ + 1]
  /\ acc' = {ChargedAcc(a)}
  /\ live' = {[l EXCEPT !.inFlight = TRUE] : l \in live}
  /\ calls' = [calls EXCEPT ![t].pc = "charged", ![t].call = a.next]

TakeCharge(t, a) ==
  /\ mission' = [mission EXCEPT !.total = ChargedTotal(a, @)]
  /\ acc' = {ChargedAcc(a)}
  /\ live' = {[l EXCEPT !.inFlight = TRUE] : l \in live}
  /\ calls' = [calls EXCEPT ![t].pc = "charged", ![t].call = a.next]

Charge(t) ==
  /\ At(t, "admitted")
  /\ IF ~Fresh(t)
     THEN Goes(t, "recording") /\ UNCHANGED <<journal, broken, mission, live, acc, revoked, cell>>
     ELSE \E l \in live, a \in acc :
       IF MayCharge(l, a)
       THEN \/ /\ Appends(Charged(calls[t].inv, a.next))
               /\ TakeCharge(t, a)
               /\ UNCHANGED <<revoked, cell>>
            \/ /\ FailsToAppend(Charged(calls[t].inv, a.next))
               /\ Invalidated
               /\ Goes(t, "recording")
               /\ UNCHANGED <<mission, cell>>
       ELSE \* deny: over budget, in flight or out of time engages the cell
            /\ cell' = TRUE
            /\ Goes(t, "recording")
            /\ UNCHANGED <<journal, broken, mission, live, acc, revoked>>
  /\ UNCHANGED <<up, late, active, debt, attempts, lane, chats, unrecorded>>

\* Caller::expired, asked by the guard: a live caller out of time denies.
DeadlineDenies(t) == cell \/ (late /\ CallerLive(calls[t].inv))

(* The transport: the guard, then the chat is handed to the client.  It    *)
(* may fail before anything is sent, whatever the guard says.              *)
SendChat(t) ==
  /\ At(t, "charged")
  /\ \/ /\ Goes(t, "settling") /\ UNCHANGED chats
     \/ /\ ~cell /\ ~late
        /\ Goes(t, "sent")
        /\ chats' = Append(chats, [inv |-> calls[t].inv, call |-> calls[t].call])
  /\ cell' = DeadlineDenies(t)
  /\ UNCHANGED <<up, journal, broken, mission, live, acc, revoked, late,
                 active, debt, attempts, lane, unrecorded>>

(* The exchange ends: a reply, an error, a cancellation or its hard        *)
(* timeout.  A reply that arrives after the guard fell is late.            *)
ExchangeEnds(t) ==
  /\ At(t, "sent")
  /\ \E reply \in IF cell \/ late THEN {FALSE} ELSE BOOLEAN :
       calls' = [calls EXCEPT ![t].pc = "settling", ![t].reply = reply]
  /\ cell' = DeadlineDenies(t)
  /\ UNCHANGED <<up, journal, broken, mission, live, acc, revoked, late,
                 active, debt, attempts, lane, chats, unrecorded>>

SettlesCall(a, call) == a.next = call + 1

(* Settle, on every path after the charge. *)
Settle(t) ==
  LET c == calls[t] IN
  /\ At(t, "settling")
  /\ live' = IF /\ Usable /\ mission.gen = c.gen /\ mission.pending = c.inv
                /\ \E a \in acc : SettlesCall(a, c.call)
             THEN {IF l.inv = c.inv /\ l.gen = c.gen
                   THEN [l EXCEPT !.inFlight = FALSE] ELSE l : l \in live}
             ELSE live
  /\ Goes(t, "recording")
  /\ UNCHANGED <<up, journal, broken, mission, acc, revoked, cell, late, active,
                 debt, attempts, lane, chats, unrecorded>>

\* Owed or uncertain: the debt stays, and the cell is engaged.
Unrecorded == debt' = TRUE /\ cell' = TRUE

(* record_model_call, classify and the rest of Caller::call: an attempt    *)
(* whose record is not written leaves a debt and gives no answer.          *)
RecordAttempt(t) ==
  /\ At(t, "recording")
  /\ \/ /\ Unrecorded
        /\ unrecorded' = unrecorded \cup {calls[t].inv}
     \/ /\ cell' = DeadlineDenies(t)
        /\ UNCHANGED <<debt, unrecorded>>
  /\ calls' = [calls EXCEPT ![t] = Idle]
  /\ UNCHANGED <<up, journal, broken, mission, live, acc, revoked, late, active,
                 attempts, lane, chats>>
-----------------------------------------------------------------------------
(* The lane returns, its threads joined, and the caller is dropped. *)
LaneReturns ==
  /\ up /\ lane.pc = "running"
  /\ \A t \in Threads : calls[t].pc = "idle"
  /\ active' = FALSE
  /\ \E pc \in {"keep"} \cup (IF lane.cap > 0 THEN {"failed"} ELSE {}) : lane' = [lane EXCEPT !.pc = pc]
  /\ UNCHANGED <<up, journal, broken, mission, live, acc, revoked, cell, late,
                 debt, attempts, calls, chats, unrecorded>>

\* A failing or halting verdict of a model lane latches the end; its advance
\* is over, and the pending lane stays.
LaneFails ==
  /\ up /\ lane.pc = "failed"
  /\ cell' = TRUE
  /\ EndMission
  /\ lane' = [lane EXCEPT !.pc = "over"]
  /\ UNCHANGED <<up, late, active, debt, attempts, calls, chats, unrecorded>>

\* file_boundary after the lane: an engaged cell or a passed deadline ends
\* the mission.
LaneBoundary ==
  /\ up /\ lane.pc = "keep" /\ (cell \/ late)
  /\ cell' = TRUE
  /\ EndMission
  /\ lane' = [lane EXCEPT !.pc = "over"]
  /\ UNCHANGED <<up, late, active, debt, attempts, calls, chats, unrecorded>>

(* model_obligations *)
Obliged == debt \/ active

\* Between the boundary and the step that keeps the answer.
LanePasses ==
  /\ up /\ lane.pc = "keep" /\ ~cell /\ ~late
  /\ lane' = [lane EXCEPT !.pc = IF Obliged THEN "over" ELSE "passed"]
  /\ UNCHANGED <<up, journal, broken, mission, live, acc, revoked, cell, late,
                 active, debt, attempts, calls, chats, unrecorded>>

\* The step: kept only if the reservation still holds.
LaneKept ==
  /\ up /\ lane.pc = "passed"
  /\ IF ~Usable \/ mission.pending # lane.inv
     THEN UNCHANGED <<journal, broken, mission, live, acc, revoked>>
     ELSE LET e == IF mission.gen # lane.gen THEN Overtaken(lane.inv)
                                             ELSE Returned(lane.inv) IN
          /\ Invalidated
          /\ \/ Appends(e) /\ mission' = [mission EXCEPT !.pending = None]
             \/ FailsToAppend(e) /\ UNCHANGED mission
  /\ lane' = [lane EXCEPT !.pc = "idle"]
  /\ UNCHANGED <<up, cell, late, active, debt, attempts, calls, chats, unrecorded>>

(* The phase is done: the transition moves the generation. *)
PhaseDone ==
  /\ up /\ lane.pc = "idle" /\ Usable /\ ~cell /\ mission.working
  /\ mission.pending = None
  /\ Len(journal) > 0 /\ journal[Len(journal)].event # "moved"
  /\ Invalidated
  /\ \/ Appends(Moved) /\ mission' = [mission EXCEPT !.gen = @ + 1]
     \/ FailsToAppend(Moved) /\ UNCHANGED mission
  /\ UNCHANGED <<up, cell, late, active, debt, attempts, lane, calls, chats, unrecorded>>
-----------------------------------------------------------------------------
NoLane == [pc |-> "idle", inv |-> None, gen |-> 0, cap |-> 0]

\* The process dies, whatever it was doing.
Crash ==
  /\ up
  /\ up' = FALSE
  /\ calls' = [t \in Threads |-> Idle]
  /\ lane' = NoLane
  /\ live' = {} /\ acc' = {}
  /\ UNCHANGED <<journal, broken, mission, revoked, cell, late, active, debt,
                 attempts, chats, unrecorded>>

(* The next process replays the journal, checks the total against the      *)
(* contract, and lets a File mission go no further (recover_files).  A     *)
(* journal that broke may have failed to be marked as poisoned: it is      *)
(* opened too.                                                             *)
Recover ==
  /\ ~up
  /\ LET s == Replay(journal) IN
     /\ s.ok /\ s.total <= Budget
     /\ up' = TRUE
     /\ mission' = [working |-> s.working, gen |-> 0, pending |-> s.pending,
                    total |-> s.total]
     /\ acc' = s.acc
  /\ broken' = FALSE /\ cell' = TRUE /\ late' = FALSE /\ active' = FALSE
  /\ debt' = FALSE /\ attempts' = 0
  /\ UNCHANGED <<journal, live, revoked, lane, calls, chats, unrecorded>>

Init ==
  /\ up = TRUE /\ journal = << >> /\ broken = FALSE
  /\ mission = [working |-> TRUE, gen |-> 0, pending |-> None, total |-> 0]
  /\ live = {} /\ acc = {} /\ revoked = {}
  /\ cell = FALSE /\ late = FALSE /\ active = FALSE /\ debt = FALSE
  /\ attempts = 0
  /\ lane = NoLane
  /\ calls = [t \in Threads |-> Idle]
  /\ chats = << >> /\ unrecorded = {}

CallStep(t) == Charge(t) \/ SendChat(t) \/ ExchangeEnds(t) \/ Settle(t) \/ RecordAttempt(t)
LaneStep == LaneAdmitted \/ LaneReturns \/ LaneFails \/ LaneBoundary \/ LanePasses \/ LaneKept

Next ==
  \/ \E cap \in Caps : Reserve(cap)
  \/ \E t \in Threads : Begin(t) \/ CallStep(t)
  \/ LaneStep \/ PhaseDone
  \/ StopEngages \/ StopRecords \/ DeadlinePasses
  \/ Crash \/ Recover

Spec == Init /\ [][Next]_vars

(* Every exchange ends (its own hard timeout and the connect timeout), the *)
(* lane's threads and its advance go on; nobody is made to stop, crash or  *)
(* call again.                                                             *)
FairSpec == Spec /\ (\A t \in Threads : WF_vars(CallStep(t))) /\ WF_vars(LaneStep)
-----------------------------------------------------------------------------
Records == {"invoked", "charged", "returned", "overtaken", "moved", "ended"}

(* Types, and the slots: one live invocation, one accounting, at most.     *)
TypeOK ==
  /\ {up, broken, cell, late, active, debt} \subseteq BOOLEAN
  /\ \A k \in 1..Len(journal) : journal[k].event \in Records
  /\ mission.working \in BOOLEAN /\ mission.total \in 0..Budget
  /\ Cardinality(live) <= 1 /\ Cardinality(acc) <= 1
  /\ \A a \in acc : a.next \in 1..(a.cap + 1)
  /\ attempts \in 0..MaxAttempts
  /\ lane.pc \in {"idle", "reserved", "running", "failed", "keep", "passed", "over"}
  /\ \A t \in Threads : calls[t].pc \in
       {"idle", "admitted", "charged", "sent", "settling", "recording"}

(* Replay accepts every journal the live process can leave, also with a    *)
(* line whose append reported a failure, and comes to the same total, the  *)
(* same pending lane and the same accounting as the process that wrote it  *)
(* (CallAccounting, apply_entry).                                          *)
ReplayAgrees ==
  LET s == Replay(journal) IN
  /\ s.ok
  /\ up /\ Usable =>
       /\ s.total = mission.total /\ s.pending = mission.pending
       /\ s.working = mission.working
       /\ s.acc = acc

Sent(i, n) == {k \in 1..Len(chats) : chats[k] = [inv |-> i, call |-> n]}
Paid(i, n) == {k \in 1..Len(journal) : journal[k] = Charged(i, n)}

(* No chat reaches the model unpaid: each has a journaled charge of its    *)
(* own, made before it was sent, and all processes together never pay, or  *)
(* send, more than the contract's budget (meter, transport, replay).       *)
ChatsArePaid ==
  /\ \A k \in 1..Len(chats) :
       /\ Paid(chats[k].inv, chats[k].call) # {}
       /\ Cardinality(Sent(chats[k].inv, chats[k].call)) = 1
  /\ Replay(journal).total <= Budget
  /\ Len(chats) <= Budget

(* One call at a time: whatever the lane's threads do, only one of them is *)
(* between its charge and its settlement for a live invocation, and the    *)
(* live flag says so.                                                      *)
OneInFlight ==
  \A l \in live :
    LET flying == {t \in Threads : /\ calls[t].inv = l.inv
                                   /\ calls[t].pc \in {"charged", "sent", "settling"}} IN
    Cardinality(flying) = IF l.inFlight THEN 1 ELSE 0

(* An answer is journaled as returned only when every attempt of its lane  *)
(* was recorded, and none of it is left to record later (classify,         *)
(* model_obligations).                                                     *)
KeptMeansRecorded ==
  \A e \in Range(journal) : e.event = "returned" => e.inv \notin unrecorded

(* The model calls are accounted for: paid before they are sent, one at a  *)
(* time, recorded before their answer is kept, and replayed to the same    *)
(* sum.                                                                    *)
CallsAreAccountedFor == ReplayAgrees /\ ChatsArePaid /\ OneInFlight /\ KeptMeansRecorded
=============================================================================
