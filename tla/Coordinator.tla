---------------------------- MODULE Coordinator ----------------------------
(***************************************************************************)
(* The Mother coordinator (mother/src/coordinator.rs), outside File mode:   *)
(* one process over a durable journal, calls of several threads interleaved *)
(* at the coordinator lock, the Owner's dialogs, the port and the broker    *)
(* behind it, failing appends, crashes, drops and reopenings.               *)
(*                                                                          *)
(* One action is one section under the coordinator lock, or one call made   *)
(* with no lock held.  A call in flight is a record with a program counter. *)
(* A reservation (a generation number, compared only for equality) is       *)
(* membership of reserved[m]; whatever bumps the generation empties it.     *)
(* The clocks, the budgets and the emergency stop are read at many places;  *)
(* each such check may find them spent or engaged.                          *)
(***************************************************************************)
EXTENDS EffectPort, FiniteSets

CONSTANTS Calls,       \* threads that call the coordinator
          Opener,      \* the thread inside Coordinator::open
          NoCall,      \* no pending request
          MayRevise,   \* whether the Owner revises contracts (a bound on the host's calls)
          MaxFaults    \* bound on crashes, unclean drops, failing appends and lost contents

ASSUME CallAssumption == Opener \notin Calls /\ NoCall \notin Calls \cup {Opener}
ASSUME FaultAssumption == MaxFaults \in Nat
ASSUME ReviseAssumption == MayRevise \in BOOLEAN

VARIABLES
    proc,           \* the coordinator: "down", "opening" or "up"
    missions,       \* Inner.missions, in memory
    inner,          \* Inner.broken, closed, session_journaled
    reserved,       \* per mission, the calls whose reservation still holds
    asking,         \* per mission, the call whose consent request is current
    resume_asking,  \* per mission, the call whose resume request is current
    busy,           \* per mission, whether an advance is in flight
    late,           \* per mission past its consent, whether its time budget is spent
    call,           \* the calls in flight
    recovery,       \* locals of Coordinator::open
    log,            \* the journal, by its replay image
    readable,       \* the journal is neither torn nor poisoned
    port,           \* the port's registry
    action,         \* the broker's commitments
    faults,         \* how many faults happened
    yes,            \* history: per mission, the hashes the Owner said yes to
    told,           \* history: per mission, the end its ending call returned as Ok, or "None"
    lost,           \* history: per mission, its journal lost a Stop or a denial, and no
                    \* clean close follows
    sent,           \* history: the lanes (phase, role) of a live mission that had effects sent
    started         \* history: per mission, the effects that started to execute

memory == <<missions, inner, reserved, asking, resume_asking, busy, late>>
journal == <<log, readable>>
outside == <<port, action>>
history == <<yes, told, lost, sent, started>>
vars == <<proc, memory, call, recovery, journal, outside, faults, history>>

AllCalls == Calls \cup {Opener}

(***************************************************************************)
(* A call in flight.                                                        *)
(***************************************************************************)
Idle == [op |-> "idle", pc |-> "idle", m |-> 0, owns |-> FALSE, then |-> "leave",
         hash |-> NoHash, phase |-> "None", role |-> "None", roles |-> << >>, rest |-> 0,
         effect |-> NoEffect, status |-> "None", trigger |-> Plain("Block"), ok |-> TRUE]

PCs == {"idle", "asking", "resuming", "stop", "lane", "running", "refuse", "dispatch",
        "perform", "settle", "pend", "wait", "query", "resolve", "approve", "phase", "end",
        "endfire", "withdraw", "settled", "close", "finish", "leave",
        "adopt", "session", "recover", "recover_close", "overtake", "block", "load",
        "content", "content_stop", "hold", "failed"}

Call == [op : {"idle", "consent", "resume", "stop", "advance", "open"}, pc : PCs,
         m : Missions \cup {0}, owns : BOOLEAN,
         then : {"leave", "rest", "recover_close", "block", "content"},
         hash : Hashes \cup {NoHash}, phase : MayWait \cup {"None"},
         role : Roles \cup {"None"},
         roles : RolesLeft \cup {PhaseRoles(p) : p \in MayWait},
         rest : 0..MaxEffects, effect : Effects \cup {NoEffect},
         status : {"None"} \cup SettledOutcome \cup ApprovalStatus,
         trigger : Trigger, ok : BOOLEAN]

NewCall(op, pc, m) == [Idle EXCEPT !.op = op, !.pc = pc, !.m = m]

At(c, pc) == call[c].pc = pc
Become(c, rec) == call' = [call EXCEPT ![c] = rec]
Goto(c, pc) == Become(c, [call[c] EXCEPT !.pc = pc])

\* mutant: a failure is forgotten on the way.
EndingOk(rec, pc) == [NewCall(rec.op, pc, rec.m) EXCEPT !.owns = rec.owns, !.then = rec.then,
                                                        !.trigger = rec.trigger]

\* The call gives up its phase.  A call returns; one that marked its mission busy
\* clears the mark last (Busy::drop).
Ending(rec, pc) == [NewCall(rec.op, pc, rec.m) EXCEPT !.owns = rec.owns, !.then = rec.then,
                                                      !.trigger = rec.trigger, !.ok = rec.ok]
Returned(rec) == IF rec.owns THEN [NewCall(rec.op, "leave", rec.m) EXCEPT !.owns = TRUE] ELSE Idle
Return(c) == Become(c, Returned(call[c]))

(***************************************************************************)
(* The journal (Inner::append, write_record).                               *)
(***************************************************************************)
Usable == ~inner.closed /\ ~inner.broken
NotHeld(m) == ~missions[m].held
Kept(m) == Usable /\ NotHeld(m)

\* open_session: before a record, this session's opening and every hold not
\* journaled yet.
HoldDue(m) == missions[m].held /\ ~missions[m].held_journaled
ToHoldNone == {}        \* mutant: the holds are never journaled
ToHold == {m \in Missions : HoldDue(m)}
LogOpened == IF inner.session_journaled THEN log ELSE ReplayOpened(log)
LogHeld == ReplayHolds(LogOpened, ToHold)
HeldAgain(m) == missions[m]     \* mutant: a journaled hold is not remembered
Held(m) == [missions[m] EXCEPT !.held_journaled = @ \/ m \in ToHold]
MissionsHeld == [m \in Missions |-> Held(m)]

\* The record that makes the journal `full' is appended and acknowledged.
WroteLog(full) ==
    /\ Usable
    /\ log' = full
    /\ UNCHANGED <<readable, outside, faults>>

\* The append fails: the line is absent, torn or written without being
\* acknowledged, as are the lines before it of the same call.  The coordinator
\* is broken, the port fenced, the journal poisoned unless that fails too.
BrokeLog(full) ==
    /\ Usable
    /\ faults < MaxFaults
    /\ faults' = faults + 1
    /\ inner' = [inner EXCEPT !.broken = TRUE]
    /\ port' = Fence(port)
    /\ action' = CancelRuns(port, action, Missions)
    /\ \/ /\ readable' = FALSE
          /\ log' = log
       \/ /\ readable' = readable
          /\ log' \in {log, LogOpened, full} \cup {ReplayHolds(LogOpened, S) : S \in SUBSET ToHold}

\* A record of mission m, after which the mission is ms.
Wrote(m, ev, ms) ==
    /\ WroteLog(Replay(LogHeld, m, ev))
    /\ inner' = [inner EXCEPT !.session_journaled = TRUE]
    /\ missions' = [MissionsHeld EXCEPT ![m] = ms]

Broke(m, ev, ms) ==
    /\ BrokeLog(Replay(LogHeld, m, ev))
    /\ missions' = [missions EXCEPT ![m] = ms]

\* Every transition moves the generation and clears the pending requests.
Bump(m) ==
    /\ reserved' = [reserved EXCEPT ![m] = {}]
    /\ asking' = [asking EXCEPT ![m] = NoCall]
    /\ resume_asking' = [resume_asking EXCEPT ![m] = NoCall]

Requests == <<reserved, asking, resume_asking>>

\* A call that returns has no reservation to compare any more.
Unreserve(c) ==
    /\ reserved' = [reserved EXCEPT ![call[c].m] = @ \ {c}]
    /\ UNCHANGED <<asking, resume_asking>>

\* fire: journal a trigger, then take it; on a failed append it is not taken.
Accepts(m, t) == Legal(missions[m].state, t)
FiredAs(m, t, ms) == Accepts(m, t) /\ Wrote(m, Transitioned(t), ms) /\ Bump(m)
Fired(m, t) == FiredAs(m, t, Apply(Held(m), t))
NotFired(m, t) ==
    Accepts(m, t) /\ Broke(m, Transitioned(t), missions[m]) /\ UNCHANGED Requests

\* What the end of a call's step leaves alone.
Unwritten == UNCHANGED <<missions, inner, journal, outside, faults>>
Untouched == Unwritten /\ UNCHANGED <<Requests, busy, late>>

(***************************************************************************)
(* draft, revise, submit.  The private store takes the contract with no     *)
(* lock held; what is checked before it is checked again under the lock.    *)
(***************************************************************************)
Host == <<proc, busy, call, recovery, history>>
OnTime(m) == late' = [late EXCEPT ![m] = FALSE]

Draft(m, h) ==
    /\ proc = "up"
    /\ NextMission(missions, m)
    /\ Wrote(m, Drafted(h), NewMission("Draft", h)) \/ Broke(m, Drafted(h), missions[m])
    /\ UNCHANGED <<late, Requests, Host>>

Revise(m, h) ==
    /\ MayRevise
    /\ proc = "up"
    /\ NotHeld(m)
    /\ missions[m].state \in Revisable
    /\ Fired(m, OfHash("Revise", h)) \/ NotFired(m, OfHash("Revise", h))
    /\ OnTime(m)
    /\ UNCHANGED Host

Submit(m) ==
    /\ proc = "up"
    /\ NotHeld(m)
    /\ missions[m].state = "Draft"
    /\ LET t == OfHash("Submit", missions[m].hash) IN Fired(m, t) \/ NotFired(m, t)
    /\ UNCHANGED <<late, Host>>

(***************************************************************************)
(* request_consent: a request is reserved, the Owner is asked with no lock  *)
(* held, the answer is taken.                                               *)
(***************************************************************************)
RequestConsent(c, m) ==
    /\ proc = "up"
    /\ call[c] = Idle
    /\ Kept(m)
    /\ missions[m].state = "AwaitingConsent"
    /\ asking' = [asking EXCEPT ![m] = c]
    /\ reserved' = [reserved EXCEPT ![m] = @ \cup {c}]
    /\ Become(c, [NewCall("consent", "asking", m) EXCEPT !.hash = missions[m].hash])
    /\ UNCHANGED <<proc, missions, inner, resume_asking, busy, late, recovery, journal, outside,
                   faults, history>>

\* The mission is still the one the call asked about.  (Every revision clears
\* the request, so the request that is pending names the current contract.)
ConsentCurrent(c) ==
    LET m == call[c].m
    IN  /\ c \in reserved[m]
        /\ asking[m] # NoCall
        /\ missions[m].state = "AwaitingConsent"

\* The answer is refused, and that is all that is journaled.
RefuseConsent(c) ==
    LET m == call[c].m
    IN  /\ Wrote(m, Rec("ConsentRefused"), Held(m)) \/ Broke(m, Rec("ConsentRefused"), missions[m])
        /\ Unreserve(c)

\* Consent::from_broker: the broker's yes is to the request the mission asks now.
AnswersCurrent(c) == asking[call[c].m] = c

\* mutant: a yes is taken for whatever contract the mission has now.
TakeYesUnmatched(c) ==
    LET m == call[c].m
        t == OfHash("Consent", missions[m].hash)
    IN  /\ missions[m].state = "AwaitingConsent"
        /\ FiredAs(m, t, [Apply(Held(m), t) EXCEPT !.consent = t.hash]) \/ NotFired(m, t)
        /\ yes' = [yes EXCEPT ![m] = @ \cup {call[c].hash}]
        /\ UNCHANGED <<told, lost>>

TakeYes(c) ==
    LET m == call[c].m
        t == OfHash("Consent", call[c].hash)
    IN  /\ ConsentCurrent(c)
        /\ \/ /\ AnswersCurrent(c)
              /\ \/ FiredAs(m, t, [Apply(Held(m), t) EXCEPT !.consent = t.hash])
                 \/ NotFired(m, t)
           \/ /\ ~AnswersCurrent(c)
              /\ RefuseConsent(c)
        /\ yes' = [yes EXCEPT ![m] = @ \cup {call[c].hash}]
        /\ UNCHANGED <<told, lost>>

\* The broker's no denies the mission.
TakeNo(c) ==
    LET m == call[c].m
        t == OfHash("Deny", missions[m].hash)
    IN  /\ ConsentCurrent(c)
        /\ \/ Fired(m, t) /\ told' = [told EXCEPT ![m] = "Denied"] /\ UNCHANGED lost
           \/ NotFired(m, t) /\ lost' = [lost EXCEPT ![m] = TRUE] /\ UNCHANGED told
        /\ UNCHANGED yes

\* The mission changed meanwhile, or the broker refused to ask.
TakeRefusal(c) == RefuseConsent(c) /\ UNCHANGED <<yes, told, lost>>

\* After a break or a close the answer is discarded.
TakeDiscarded(c) == ~Kept(call[c].m) /\ Unwritten /\ Unreserve(c) /\ UNCHANGED <<yes, told, lost>>

TakeAnswer(c) ==
    /\ At(c, "asking")
    /\ TakeDiscarded(c) \/ (Kept(call[c].m) /\ (TakeYes(c) \/ TakeNo(c) \/ TakeRefusal(c)))
    /\ Return(c)
    /\ UNCHANGED <<proc, busy, late, recovery, sent, started>>

(***************************************************************************)
(* resume: the Owner is asked about a held mission.  The reservation moves  *)
(* the generation, so a superseded request is stale.                        *)
(***************************************************************************)
Resume(c, m) ==
    /\ proc = "up"
    /\ call[c] = Idle
    /\ missions[m].held
    /\ Usable
    /\ resume_asking' = [resume_asking EXCEPT ![m] = c]
    /\ reserved' = [reserved EXCEPT ![m] = {c}]
    /\ Become(c, NewCall("resume", "resuming", m))
    /\ UNCHANGED <<proc, missions, inner, asking, busy, late, recovery, journal, outside, faults,
                   history>>

ResumeCurrent(c) ==
    LET m == call[c].m
    IN  c \in reserved[m] /\ missions[m].held /\ resume_asking[m] # NoCall

\* A request is consumed once, whatever the answer.
ConsumeResume(m) ==
    /\ reserved' = [reserved EXCEPT ![m] = {}]
    /\ resume_asking' = [resume_asking EXCEPT ![m] = NoCall]
    /\ UNCHANGED asking

ResumeYes(c) ==
    LET m == call[c].m
    IN  /\ resume_asking[m] = c
        /\ \/ /\ Wrote(m, Rec("Resumed"),
                       [missions[m] EXCEPT !.held = FALSE, !.held_journaled = FALSE])
              /\ lost' = [lost EXCEPT ![m] = FALSE]
           \/ Broke(m, Rec("Resumed"), missions[m]) /\ UNCHANGED lost

\* A no, a broker refusal, or a yes to another request.
ResumeNo(c) == UNCHANGED <<missions, inner, journal, outside, faults, lost>>

TakeResume(c) ==
    /\ At(c, "resuming")
    /\ \/ /\ Usable /\ ResumeCurrent(c)
          /\ ConsumeResume(call[c].m)
          /\ ResumeYes(c) \/ ResumeNo(c)
       \/ /\ ~(Usable /\ ResumeCurrent(c))
          /\ UNCHANGED <<missions, inner, Requests, journal, outside, faults, lost>>
    /\ Return(c)
    /\ UNCHANGED <<proc, busy, late, recovery, yes, told, sent, started>>


(***************************************************************************)
(* stop: the mission stops under the lock, journaled or not; then, with no  *)
(* lock held, what it opened at the port is withdrawn, and its open action  *)
(* is journaled closed once the port confirms it.                           *)
(***************************************************************************)
InCall == UNCHANGED <<proc, late, recovery, yes, sent, started>>
Quiet == InCall /\ UNCHANGED <<told, lost>>

Stop(c, m) ==
    /\ proc = "up"
    /\ call[c] = Idle
    /\ missions[m].state # "None"
    /\ Become(c, NewCall("stop", "stop", m))
    /\ Untouched /\ Quiet

\* Only a mission with a consent may have opened something at the port.
AfterStop(rec, ms) ==
    IF ms.consent # NoHash THEN Ending(rec, "withdraw")
                           ELSE Returned(rec)

StopTaken(c) ==
    LET m == call[c].m
    IN  /\ Fired(m, Plain("Stop"))
        /\ Become(c, AfterStop(call[c], missions[m]))
        /\ told' = IF missions[m].consent = NoHash
                   THEN [told EXCEPT ![m] = "Stopped"] ELSE told
        /\ UNCHANGED lost

\* The journal failed, now or before: the mission stops in memory all the same.
StopLost(c) ==
    LET m == call[c].m
        ms == [missions[m] EXCEPT !.state = "Stopped"]
    IN  /\ \/ Broke(m, Transitioned(Plain("Stop")), ms)
           \/ /\ ~Usable
              /\ missions' = [missions EXCEPT ![m] = ms]
              /\ UNCHANGED <<inner, journal, outside, faults>>
        /\ reserved' = [reserved EXCEPT ![m] = {}]
        /\ Become(c, AfterStop([call[c] EXCEPT !.ok = FALSE], missions[m]))
        /\ lost' = [lost EXCEPT ![m] = log.session # "Closed"]
        /\ UNCHANGED <<asking, resume_asking, told>>

\* A terminal mission stays as it ended: Ok, unless the coordinator is broken.
StopEnded(c) ==
    /\ Unwritten /\ UNCHANGED <<Requests, told, lost>>
    /\ Return(c)

\* mutant: the stop waits for the advance in flight.
StopFireWaits(c) ==
    /\ At(c, "stop") /\ ~busy[call[c].m]
    /\ IF inner.closed \/ missions[call[c].m].state \in Terminal
       THEN StopEnded(c) ELSE StopTaken(c) \/ StopLost(c)
    /\ InCall /\ UNCHANGED busy

StopFire(c) ==
    /\ At(c, "stop")
    /\ IF inner.closed \/ missions[call[c].m].state \in Terminal
       THEN StopEnded(c) ELSE StopTaken(c) \/ StopLost(c)
    /\ InCall /\ UNCHANGED busy

\* port.withdraw, with no lock held.  (late and the history `sent' are of a live
\* mission: they are dropped once the mission ended in the journal too.)
Withdraw(c) ==
    LET m == call[c].m
    IN  /\ At(c, "withdraw")
        /\ port' = EndMission(port, m)
        /\ action' = WithdrawActions(port, action, m)
        /\ Become(c, [call[c] EXCEPT !.pc = "settled",
                                     !.ok = @ /\ WithdrawOk(port, action, m)])
        /\ IF log.mission[m].state \in Terminal
           THEN OnTime(m) /\ sent' = [sent EXCEPT ![m] = {}]
           ELSE UNCHANGED <<late, sent>>
        /\ UNCHANGED <<proc, missions, inner, Requests, busy, recovery, journal, faults, yes,
                       told, lost, started>>

(***************************************************************************)
(* close_action: "yes" (closed, or nothing open), "no" (not confirmed) or   *)
(* "error"; then what the caller of close_action does next.                 *)
(***************************************************************************)
\* What is left of a phase: the effects of the asking lane, then the lanes.
Onward(rec) ==
    [rec EXCEPT !.pc = IF rec.rest > 0 THEN "dispatch"
                       ELSE IF rec.roles # << >> THEN "lane" ELSE "phase"]

\* Mother's own check of the effects left, before any is sent.
Checked(rec) ==
    {Onward(rec)} \cup (IF rec.rest > 0 THEN {[rec EXCEPT !.pc = "refuse"]} ELSE {})

AfterClose(c, closed) ==
    LET rec == [call[c] EXCEPT !.effect = NoEffect]
        failed == closed = "error" \/ ~rec.ok
    IN  CASE rec.then = "leave" ->
               /\ Become(c, Returned(rec))
               /\ told' = IF failed THEN told ELSE [told EXCEPT ![rec.m] = missions[rec.m].state]
               /\ UNCHANGED recovery
          [] rec.then = "rest" ->
               /\ \E next \in CASE closed = "yes" -> Checked(rec)
                                [] closed = "no" -> {Ending(rec, "end")}
                                [] OTHER -> {Returned(rec)} :
                     Become(c, [next EXCEPT !.then = "leave"])
               /\ UNCHANGED <<recovery, told>>
          [] rec.then = "block" ->
               /\ Become(c, NewCall("open", IF failed THEN "failed" ELSE "block", 0))
               /\ UNCHANGED <<recovery, told>>
          [] rec.then \in {"recover_close", "content"} ->
               /\ Become(c, NewCall("open", rec.then, 0))
               /\ recovery' = [recovery EXCEPT !.todo = @ \ {rec.m}, !.failed = @ \/ failed]
               /\ UNCHANGED told

\* The open action is read under the lock; the port is asked with no lock held.
CloseAsk(c) ==
    LET m == call[c].m
        e == missions[m].open_action
        next(closed) == AfterClose(c, closed)
    IN  /\ At(c, "settled")
        /\ CASE inner.closed -> next("error")
             [] ~inner.closed /\ e = NoEffect -> next("yes")
             [] ~inner.closed /\ e # NoEffect /\ ~SettledAtPort(port, action, m, e) -> next("no")
             [] OTHER -> /\ Become(c, [call[c] EXCEPT !.pc = "close", !.effect = e])
                         /\ UNCHANGED <<recovery, told>>
        /\ Untouched /\ UNCHANGED <<proc, lost, yes, sent, started>>

\* The closure is journaled, if that action is still the open one.
CloseTake(c) ==
    LET m == call[c].m
        ev == EffectRec("ApprovalClosed", call[c].effect)
        current == missions[m].open_action = call[c].effect
    IN  /\ At(c, "close")
        /\ \/ /\ ~inner.closed /\ current
              /\ Wrote(m, ev, [Held(m) EXCEPT !.open_action = NoEffect])
              /\ AfterClose(c, "yes")
           \/ /\ ~inner.closed /\ current
              /\ Broke(m, ev, missions[m])
              /\ AfterClose(c, "error")
           \/ /\ inner.closed \/ (inner.broken /\ current)
              /\ Unwritten
              /\ AfterClose(c, "error")
           \/ /\ ~inner.closed /\ ~current
              /\ Unwritten
              /\ AfterClose(c, "yes")
        /\ UNCHANGED <<Requests, busy, late, proc, lost, yes, sent, started>>

(***************************************************************************)
(* end, end_with, record_non_file_end: the mission ends, in memory at       *)
(* least; then it is withdrawn as for a stop.                               *)
(***************************************************************************)
EndWith(rec, t) == [Ending(rec, "endfire") EXCEPT !.trigger = t]

End(c) ==
    LET ms == missions[call[c].m]
        lapse == ms.state = "AwaitingApproval" /\ ms.waiting # NoWait
        t == IF lapse THEN OfEffect("ApprovalLapsed", ms.waiting.effect) ELSE call[c].trigger
    IN  /\ At(c, "end")
        /\ IF inner.closed THEN Return(c) ELSE Become(c, EndWith(call[c], t))
        /\ Untouched /\ Quiet

\* The mission moved meanwhile, the end is journaled, or it is taken in memory only.
EndFire(c) ==
    LET m == call[c].m
        t == call[c].trigger
        ended == Apply(missions[m], t)
        goes(ok) == Become(c, [call[c] EXCEPT !.pc = "withdraw", !.ok = ok,
                                              !.trigger = Plain("Block")])
    IN  /\ At(c, "endfire")
        /\ \/ inner.closed /\ Unwritten /\ UNCHANGED Requests /\ Return(c)
           \/ ~inner.closed /\ ~Accepts(m, t) /\ Unwritten /\ UNCHANGED Requests /\ goes(FALSE)
           \/ Fired(m, t) /\ goes(call[c].ok)
           \/ Accepts(m, t) /\ Broke(m, Transitioned(t), ended) /\ Bump(m) /\ goes(FALSE)
           \/ /\ ~inner.closed /\ inner.broken /\ Accepts(m, t)
              /\ missions' = [missions EXCEPT ![m] = ended]
              /\ UNCHANGED <<inner, journal, outside, faults>> /\ Bump(m) /\ goes(FALSE)
        /\ Quiet /\ UNCHANGED busy

(***************************************************************************)
(* The time budget (spent_ms, out_of_time): the larger of the wall and the  *)
(* monotonic measure since the consent.  A wall clock that is set back is   *)
(* not modelled: what is spent stays spent until a revision.                *)
(***************************************************************************)
TimePasses(m) ==
    /\ proc = "up"
    /\ PastConsent(missions[m])
    /\ ~late[m]
    /\ late' = [late EXCEPT ![m] = TRUE]
    /\ UNCHANGED <<busy, call, Requests>> /\ Unwritten
    /\ UNCHANGED <<proc, recovery, history>>

(***************************************************************************)
(* advance: a consented mission moves one state on.                         *)
(***************************************************************************)
Advances(c, m) ==
    /\ proc = "up"
    /\ call[c] = Idle
    /\ Kept(m)
    /\ ~busy[m]
    /\ missions[m].state \in {"Approved", "AwaitingApproval"} \cup Working
    /\ Consented(missions[m])

NewAdvance(pc, m) == NewCall("advance", pc, m)

\* The emergency stop is engaged, or the time budget is spent.
AdvanceEnd(c, m) ==
    /\ Advances(c, m)
    /\ \E pc \in {"stop"} \cup {p \in {"end"} : late[m]} : Become(c, NewAdvance(pc, m))
    /\ Untouched /\ Quiet

AdvanceStart(c, m) ==
    /\ Advances(c, m) /\ ~late[m]
    /\ missions[m].state = "Approved"
    /\ Fired(m, Plain("Start")) \/ NotFired(m, Plain("Start"))
    /\ UNCHANGED <<busy, call>> /\ Quiet

AdvanceExplain(c, m) ==
    /\ Advances(c, m) /\ ~late[m]
    /\ missions[m].state = "Explaining"
    /\ \/ Fired(m, Plain("PhaseDone")) /\ Become(c, NewAdvance("finish", m))
       \/ NotFired(m, Plain("PhaseDone")) /\ UNCHANGED call
    /\ Quiet /\ UNCHANGED busy

\* A phase, or the wait for an approval, is reserved.
AdvancePhase(c, m) ==
    LET from == missions[m].state
        rec == [NewAdvance("lane", m) EXCEPT !.owns = TRUE]
    IN  /\ Advances(c, m) /\ ~late[m]
        /\ from \in MayWait \cup {"AwaitingApproval"}
        /\ busy' = [busy EXCEPT ![m] = TRUE]
        /\ reserved' = [reserved EXCEPT ![m] = @ \cup {c}]
        /\ Become(c, IF from = "AwaitingApproval" THEN [rec EXCEPT !.pc = "query"]
                     ELSE [rec EXCEPT !.phase = from, !.roles = PhaseRoles(from)])
        /\ UNCHANGED <<asking, resume_asking>> /\ Unwritten /\ Quiet

Reserved(c) == c \in reserved[call[c].m]

\* A call's step that changes nothing but the call.
Only(c, rec) == Become(c, rec) /\ Unwritten

(***************************************************************************)
(* run_lanes, reserve_lane.                                                 *)
(***************************************************************************)
\* A lane's identity or a budget ends the mission; the emergency stop stops it.
Interrupts(rec) == {Ending(rec, "stop"), Ending(rec, "end")}

Lane(c) ==
    LET m == call[c].m
        rec == call[c]
        role == Head(rec.roles)
        ev == LaneRec("LaneInvoked", role)
        admitted == /\ Kept(m) /\ Reserved(c)
                    /\ missions[m].state \in Working /\ Consented(missions[m])
                    /\ missions[m].pending_lane = "None"
    IN  /\ At(c, "lane")
        /\ \/ \E next \in Interrupts(rec) : Only(c, next)
           \/ ~admitted /\ Only(c, Returned(rec))
           \/ /\ admitted /\ ~late[m]
              /\ Wrote(m, ev, [Held(m) EXCEPT !.pending_lane = role])
              /\ Become(c, [rec EXCEPT !.pc = "running", !.role = role, !.roles = Tail(@)])
           \/ admitted /\ ~late[m] /\ Broke(m, ev, missions[m]) /\ Return(c)
        /\ UNCHANGED <<Requests, busy>> /\ Quiet

\* What a lane's kept answer leads to: its verdict ends the mission, it asks
\* for too many effects, or its effects are checked and sent.
Failure(role) == IF role = "Verifier" THEN Plain("VerifyFail") ELSE Plain("Fail")
Answers(rec, ms) ==
    {EndWith(rec, Plain("Block")), EndWith(rec, Failure(rec.role)), Ending(rec, "end")}
    \cup UNION {Checked([rec EXCEPT !.rest = k]) : k \in 0..(MaxEffects - ms.next_effect)}

LaneReturn(c) ==
    LET m == call[c].m
        rec == call[c]
        pending == missions[m].pending_lane = rec.role
        none == [Held(m) EXCEPT !.pending_lane = "None"]
        returned == LaneRec("LaneReturned", rec.role)
        overtaken == LaneRec("LaneOvertaken", rec.role)
    IN  /\ At(c, "running")
        /\ \/ ~Kept(m) /\ Only(c, Returned(rec))
           \/ Kept(m) /\ ~pending /\ Only(c, Returned(rec))
           \/ /\ Kept(m) /\ pending /\ ~Reserved(c)
              /\ Wrote(m, overtaken, none) \/ Broke(m, overtaken, missions[m])
              /\ Return(c)
           \/ /\ Kept(m) /\ pending /\ Reserved(c)
              /\ Wrote(m, returned, none)
              /\ \E next \in Answers(rec, missions[m]) : Become(c, [next EXCEPT !.role = "None"])
           \/ Kept(m) /\ pending /\ Reserved(c) /\ Broke(m, returned, missions[m]) /\ Return(c)
        /\ UNCHANGED <<Requests, busy>> /\ Quiet

\* Mother refuses an effect: journaled, then the mission ends.
RefuseEffect(c) ==
    LET m == call[c].m
        rec == call[c]
        ev == Rec("EffectRefused")
    IN  /\ At(c, "refuse")
        /\ \/ Wrote(m, ev, Held(m)) /\ Become(c, Ending(rec, "end"))
           \/ Broke(m, ev, missions[m]) /\ Return(c)
           \/ ~Usable /\ Only(c, Returned(rec))
        /\ UNCHANGED <<Requests, busy>> /\ Quiet

\* The phase has run every lane of its reservation.
PhaseDone(c) ==
    LET m == call[c].m
        t == IF call[c].phase = "Verifying" THEN Plain("VerifyPass") ELSE Plain("PhaseDone")
    IN  /\ At(c, "phase")
        /\ \/ ~(Reserved(c) /\ Usable) /\ Unwritten /\ UNCHANGED Requests
           \/ Reserved(c) /\ (Fired(m, t) \/ NotFired(m, t))
        /\ Return(c)
        /\ Quiet /\ UNCHANGED busy

\* port.finish of a mission that is Done.
Finish(c) ==
    LET m == call[c].m
    IN  /\ At(c, "finish")
        /\ port' = EndMission(port, m)
        /\ told' = [told EXCEPT ![m] = "Done"]
        /\ Return(c)
        /\ UNCHANGED <<memory, journal, action, faults, lost>> /\ InCall

\* Busy::drop.
Leave(c) ==
    /\ At(c, "leave")
    /\ busy' = [busy EXCEPT ![call[c].m] = FALSE]
    /\ Become(c, Idle)
    /\ Unreserve(c)
    /\ Unwritten /\ Quiet

(***************************************************************************)
(* dispatch: an effect is journaled, performed with no lock held, and its   *)
(* outcome is journaled.                                                    *)
(***************************************************************************)
\* history: the lane that asked for the effects of a phase with `roles' left.
Asking(rec) ==
    <<rec.phase, PhaseRoles(rec.phase)[Len(PhaseRoles(rec.phase)) - Len(rec.roles)]>>

Dispatch(c) ==
    LET m == call[c].m
        rec == call[c]
        e == missions[m].next_effect
        ev == EffectRec("EffectDispatched", e)
        sending == [Held(m) EXCEPT !.next_effect = @ + 1, !.unsettled = e,
                                   !.dispatched_in_phase = TRUE]
    IN  /\ At(c, "dispatch")
        /\ \/ Only(c, Ending(rec, "stop")) /\ UNCHANGED sent
           \/ ~(Reserved(c) /\ Usable) /\ Only(c, Returned(rec)) /\ UNCHANGED sent
           \/ Reserved(c) /\ late[m] /\ Only(c, Ending(rec, "end")) /\ UNCHANGED sent
           \/ /\ Reserved(c) /\ ~late[m]
              /\ Wrote(m, ev, sending)
              /\ Become(c, [rec EXCEPT !.pc = "perform", !.effect = e, !.rest = @ - 1])
              /\ sent' = [sent EXCEPT ![m] = @ \cup {Asking(rec)}]
           \/ Reserved(c) /\ ~late[m] /\ Broke(m, ev, missions[m]) /\ Return(c) /\ UNCHANGED sent
        /\ UNCHANGED <<Requests, busy, late, proc, recovery, yes, told, lost, started>>

\* port.perform.  The effect ran, waits for the Owner's approval, was refused,
\* or failed while it ran; a fenced port and an ended mission's refuse.
Perform(c) ==
    LET m == call[c].m
        e == call[c].effect
        outcome(status) == Become(c, [call[c] EXCEPT !.pc = "settle", !.status = status])
        becomes(state) == action' = [action EXCEPT ![m][e] = state]
        runs == started' = [started EXCEPT ![m] = @ \cup {e}]
    IN  /\ At(c, "perform")
        /\ \/ outcome(Refused) /\ UNCHANGED <<outside, started>>
           \/ /\ MayPerform(port, m)
              /\ \/ becomes("succeeded") /\ runs /\ port' = Performed(port, m) /\ outcome(Done)
                 \/ becomes("lapsed") /\ runs /\ port' = Performed(port, m) /\ outcome(Refused)
                 \/ /\ port' = Performed(port, m)
                    /\ outcome(Refused)
                    /\ UNCHANGED <<action, started>>
                 \/ /\ becomes("prepared")
                    /\ port' = PerformedWaiting(port, m, e)
                    /\ outcome(Awaiting)
                    /\ UNCHANGED started
        /\ UNCHANGED <<proc, memory, recovery, journal, faults, yes, told, lost, sent>>

\* What follows a settled outcome.
AfterSettled(rec) ==
    CASE rec.status = Done -> {Onward([rec EXCEPT !.status = "None", !.effect = NoEffect])}
      [] rec.status = Awaiting -> {[rec EXCEPT !.pc = "pend", !.status = "None"]}
      [] OTHER -> Interrupts(rec)

\* The journal failed: the mission ends in memory and the call fails.
EndFail(rec) == [Ending(rec, "end") EXCEPT !.ok = FALSE]

Settle(c) ==
    LET m == call[c].m
        rec == call[c]
        ev == EffectSettled(rec.effect, rec.status)
        current == /\ Reserved(c)
                   /\ missions[m].unsettled = rec.effect
                   /\ missions[m].state \notin Terminal
    IN  /\ At(c, "settle")
        /\ \/ ~Kept(m) /\ Only(c, EndFail(rec))
           \/ Kept(m) /\ ~current /\ Only(c, Returned(rec))
           \/ /\ Kept(m) /\ current
              /\ Wrote(m, ev, [Held(m) EXCEPT !.unsettled = NoEffect])
              /\ \E next \in AfterSettled(rec) : Become(c, next)
           \/ Kept(m) /\ current /\ Broke(m, ev, missions[m]) /\ Become(c, EndFail(rec))
        /\ UNCHANGED <<Requests, busy>> /\ Quiet

(***************************************************************************)
(* wait: what is left of the phase is kept in the private store, the        *)
(* action's identity is journaled, then the wait.                           *)
(***************************************************************************)
PortPendingNever(m) == FALSE    \* mutant: the port never names the action
PortPending(m) == m \in port.open /\ port.waiting[m] # NoEffect

Pend(c) ==
    LET m == call[c].m
        rec == call[c]
        ev == EffectRec("ApprovalPending", rec.effect)
        waits == [rec EXCEPT !.pc = "wait"]
    IN  /\ At(c, "pend")
        /\ \/ Only(c, EndFail(rec))         \* not kept in the store, or not kept(id)
           \/ ~PortPending(m) /\ Only(c, waits)
           \/ PortPending(m) /\ Kept(m) /\ ~Reserved(c) /\ Only(c, Returned(rec))
           \/ /\ PortPending(m) /\ Kept(m) /\ Reserved(c)
              /\ \/ /\ Wrote(m, ev, [Held(m) EXCEPT !.open_action = rec.effect])
                    /\ Become(c, waits)
                 \/ Broke(m, ev, missions[m]) /\ Become(c, EndFail(rec))
        /\ UNCHANGED <<Requests, busy>> /\ Quiet

Wait(c) ==
    LET m == call[c].m
        rec == call[c]
        t == AwaitApproval(rec.effect, rec.rest, rec.roles)
    IN  /\ At(c, "wait")
        /\ \/ ~Reserved(c) /\ Only(c, Returned(rec)) /\ UNCHANGED Requests
           \/ Reserved(c) /\ Fired(m, t) /\ Return(c)
           \/ Reserved(c) /\ NotFired(m, t) /\ Become(c, EndFail(rec))
           \/ Reserved(c) /\ ~Usable /\ Only(c, EndFail(rec)) /\ UNCHANGED Requests
        /\ Quiet /\ UNCHANGED busy

(***************************************************************************)
(* resolve_wait: the port is asked what became of the action, with no lock  *)
(* held; approved and run, the phase goes on from where it paused.          *)
(***************************************************************************)
Query(c) ==
    LET m == call[c].m
    IN  /\ At(c, "query")
        /\ \E status \in Approvals(port, action, m) :
              /\ port' = Queried(port, m, status)
              /\ Become(c, [call[c] EXCEPT !.pc = "resolve", !.status = status])
        /\ UNCHANGED <<memory, journal, action, faults>> /\ Quiet

Resolve(c) ==
    LET m == call[c].m
        w == missions[m].waiting
        rec == [call[c] EXCEPT !.status = "None"]
        found == CASE w = NoWait -> Ending(rec, "end")
                   [] w # NoWait /\ call[c].status = "Waiting" -> Returned(rec)
                   [] w # NoWait /\ call[c].status = "Denied" ->
                        EndWith(rec, OfEffect("ActionDenied", w.effect))
                   [] w # NoWait /\ call[c].status = "Lapsed" ->
                        EndWith(rec, OfEffect("ApprovalLapsed", w.effect))
                   [] OTHER -> [rec EXCEPT !.pc = "approve", !.effect = w.effect,
                                           !.phase = w.phase, !.rest = w.rest, !.roles = w.roles]
    IN  /\ At(c, "resolve")
        /\ Only(c, IF Kept(m) /\ Reserved(c) THEN found ELSE Returned(rec))
        /\ UNCHANGED <<Requests, busy>> /\ Quiet

\* The call takes the new generation as its reservation.
Approve(c) ==
    LET m == call[c].m
        rec == call[c]
        t == ActionApproved(rec.effect, rec.phase)
    IN  /\ At(c, "approve")
        /\ \/ /\ Accepts(m, t)
              /\ Wrote(m, Transitioned(t), Apply(Held(m), t))
              /\ reserved' = [reserved EXCEPT ![m] = {c}]
              /\ asking' = [asking EXCEPT ![m] = NoCall]
              /\ resume_asking' = [resume_asking EXCEPT ![m] = NoCall]
              /\ Become(c, [rec EXCEPT !.pc = "settled", !.then = "rest", !.effect = NoEffect])
           \/ NotFired(m, t) /\ Return(c)
           \/ ~(Accepts(m, t) /\ Usable) /\ Only(c, Returned(rec)) /\ UNCHANGED Requests
        /\ Quiet /\ UNCHANGED busy

(***************************************************************************)
(* close, and the ways a coordinator goes away: dropped, its broker living  *)
(* on, or the process dying with it.                                        *)
(***************************************************************************)
NothingBusy == \A m \in Missions : ~busy[m]

Close ==
    /\ proc = "up"
    /\ NothingBusy
    /\ \/ /\ WroteLog(ReplayClosed(LogHeld))
          /\ inner' = [inner EXCEPT !.session_journaled = TRUE, !.closed = TRUE]
          /\ missions' = MissionsHeld
       \/ /\ BrokeLog(ReplayClosed(LogHeld))
          /\ UNCHANGED missions
    /\ UNCHANGED <<proc, Requests, busy, late, call, recovery, yes, told, lost, sent, started>>

NoRecovery == [closed_cleanly |-> FALSE, clean |-> FALSE, failed |-> FALSE, todo |-> {}]

Everywhere(value) == [m \in Missions |-> value]
NewInner == [broken |-> FALSE, closed |-> FALSE, session_journaled |-> FALSE]

\* What the process held in memory is gone.
Down ==
    /\ proc' = "down"
    /\ missions' = Everywhere(NotDrafted)
    /\ inner' = NewInner
    /\ reserved' = Everywhere({})
    /\ asking' = Everywhere(NoCall) /\ resume_asking' = Everywhere(NoCall)
    /\ busy' = Everywhere(FALSE) /\ late' = Everywhere(FALSE)
    /\ recovery' = NoRecovery

\* No call is in flight.  A drop that follows no clean close is counted as a fault.
Drop ==
    /\ proc = "up"
    /\ \A c \in AllCalls : call[c] = Idle
    /\ IF inner.closed THEN UNCHANGED faults ELSE faults < MaxFaults /\ faults' = faults + 1
    /\ Down
    /\ UNCHANGED <<call, journal, outside, history>>

Crash ==
    /\ proc # "down"
    /\ faults < MaxFaults
    /\ faults' = faults + 1
    /\ Down
    /\ call' = [c \in AllCalls |-> Idle]
    /\ port' = NewPort
    /\ action' = [m \in Missions |-> [e \in Effects |->
                     IF action[m][e] = "none" THEN "none" ELSE "gone"]]
    /\ UNCHANGED <<journal, history>>

(***************************************************************************)
(* open, recover.  The coordinator is not shared before open returns.       *)
(***************************************************************************)
Opening(pc) == Become(Opener, NewCall("open", pc, 0))
AtOpen(pc) == proc = "opening" /\ At(Opener, pc)
OpenActions(S) == {m \in S : missions[m].open_action # NoEffect}

Open ==
    /\ proc = "down"
    /\ readable /\ ~log.refused
    /\ proc' = "opening"
    /\ missions' = log.mission
    /\ recovery' = [recovery EXCEPT !.closed_cleanly = (log.session = "Closed"),
                                    !.clean = (log = EmptyLog \/ log.session = "Closed")]
    /\ port' \in {NewPort} \cup {p \in {port} : ~p.fenced}
    /\ Opening("adopt")
    /\ UNCHANGED <<inner, Requests, busy, late, journal, action, faults, history>>

\* adopt_actions: the broker lets the door join some of the runs.
AdoptActions ==
    LET open == [m \in Missions |-> missions[m].open_action]
    IN  /\ AtOpen("adopt")
        /\ \E S \in SUBSET Adoptable(port, action, open) : port' = Adopted(port, open, S)
        /\ Opening(IF recovery.closed_cleanly THEN "session" ELSE "recover")
        /\ UNCHANGED <<memory, journal, action, faults, history, proc, recovery>>

\* open_session_at_once: a failure fences the port and poisons nothing.
OpenSession ==
    /\ AtOpen("session")
    /\ \/ /\ WroteLog(ReplayOpened(log))
          /\ inner' = [inner EXCEPT !.session_journaled = TRUE]
          /\ Opening("recover")
       \/ BrokeLog(ReplayOpened(log)) /\ Opening("failed")
    /\ UNCHANGED <<missions, Requests, busy, late, history, proc, recovery>>

\* recover_actions: what no mission waits on is withdrawn, then closed.
WithdrawAll(S) ==
    /\ port' = [port EXCEPT !.ended = @ \cup S]
    /\ action' = IF port.fenced THEN action ELSE CancelRuns(port, action, S)

RecoverActions ==
    LET S == OpenActions({m \in Missions : missions[m].state # "AwaitingApproval"})
    IN  /\ AtOpen("recover")
        /\ WithdrawAll(S)
        /\ recovery' = [recovery EXCEPT
                          !.todo = S,
                          !.failed = \E m \in S : ~WithdrawOk(port, action, m)]
        /\ Opening("recover_close")
        /\ UNCHANGED <<memory, journal, faults, history, proc>>

RecoverClose ==
    /\ AtOpen("recover_close")
    /\ IF recovery.todo = {} THEN Opening(IF recovery.failed THEN "failed" ELSE "overtake")
       ELSE \E m \in recovery.todo :
               Become(Opener, [NewCall("open", "settled", m) EXCEPT !.then = "recover_close"])
    /\ Untouched /\ Quiet

\* A lane call left unanswered by the restart is abandoned.
OvertakeAgain ==        \* mutant: the abandoned call stays pending in memory
    LET S == {m \in Missions : missions[m].pending_lane # "None"}
        ev(m) == LaneRec("LaneOvertaken", missions[m].pending_lane)
    IN  /\ AtOpen("overtake")
        /\ \/ S = {} /\ Opening("block") /\ Unwritten
           \/ \E m \in S : Wrote(m, ev(m), Held(m)) /\ UNCHANGED call
        /\ UNCHANGED <<Requests, busy>> /\ Quiet

Overtake ==
    LET S == {m \in Missions : missions[m].pending_lane # "None"}
        ev(m) == LaneRec("LaneOvertaken", missions[m].pending_lane)
    IN  /\ AtOpen("overtake")
        /\ \/ S = {} /\ Opening("block") /\ Unwritten
           \/ \E m \in S : /\ Wrote(m, ev(m), [Held(m) EXCEPT !.pending_lane = "None"])
                           /\ UNCHANGED call
           \/ \E m \in S : Broke(m, ev(m), missions[m]) /\ Opening("failed")
        /\ UNCHANGED <<Requests, busy>> /\ Quiet

\* A mission interrupted after an effect of its phase was dispatched is blocked.
InterruptedUnsettled(ms) == Unfinished(ms) /\ ms.unsettled # NoEffect  \* mutant: only those
Interrupted(ms) == Unfinished(ms) /\ (ms.unsettled # NoEffect \/ ms.dispatched_in_phase)

BlockInterrupted ==
    LET S == {m \in Missions : Interrupted(missions[m])}
        cause(ms) == Plain(IF ms.unsettled # NoEffect THEN "BlockOutcomeUnknown" ELSE "Block")
    IN  /\ AtOpen("block")
        /\ IF S = {} THEN Opening("load")
           ELSE \E m \in S : Become(Opener, [NewCall("open", "end", m) EXCEPT
                                               !.then = "block", !.trigger = cause(missions[m])])
        /\ Untouched /\ Quiet

\* load_content: the missions whose content does not verify are stopped,
\* withdrawn first.
LoadContent ==
    /\ AtOpen("load")
    /\ \E bad \in SUBSET {m \in Missions : Unfinished(missions[m])} :
          /\ IF bad = {} THEN UNCHANGED faults ELSE faults < MaxFaults /\ faults' = faults + 1
          /\ recovery' = [recovery EXCEPT !.todo = bad, !.failed = FALSE]
    /\ Opening("content")
    /\ UNCHANGED <<memory, journal, outside, history, proc>>

ContentWithdraw ==
    /\ AtOpen("content")
    /\ \/ /\ recovery.todo = {}
          /\ Opening(IF recovery.failed THEN "failed" ELSE "hold")
          /\ UNCHANGED outside
       \/ \E m \in recovery.todo :
             /\ WithdrawAll({m})
             /\ Become(Opener, [NewCall("open", "content_stop", m) EXCEPT
                                  !.then = "content", !.ok = WithdrawOk(port, action, m)])
    /\ UNCHANGED <<memory, journal, faults>> /\ Quiet

ContentStop ==
    LET m == call[Opener].m
        goes(ok) == Become(Opener, [call[Opener] EXCEPT !.pc = "settled", !.ok = ok])
    IN  /\ AtOpen("content_stop")
        /\ \/ Fired(m, Plain("Stop")) /\ goes(call[Opener].ok)
           \/ NotFired(m, Plain("Stop")) /\ goes(FALSE)
           \/ ~Usable /\ Untouched /\ goes(FALSE)
        /\ Quiet /\ UNCHANGED busy

\* hold_unfinished, unless the last session closed cleanly; then open returns.
ToBeHeldWorking(ms) == ms.state \in Working /\ ~ms.held  \* mutant: only those at work
ToBeHeld(ms) == Unfinished(ms) /\ ~ms.held

HoldUnfinished ==
    /\ AtOpen("hold")
    /\ missions' = [m \in Missions |->
                      IF ~recovery.clean /\ ToBeHeld(missions[m])
                      THEN [missions[m] EXCEPT !.held = TRUE, !.held_journaled = FALSE]
                      ELSE missions[m]]
    /\ IF inner.broken THEN Opening("failed") /\ UNCHANGED <<proc, recovery>>
       ELSE /\ Become(Opener, Idle)
            /\ proc' = "up"
            /\ recovery' = NoRecovery
    /\ UNCHANGED <<inner, Requests, busy, late, journal, outside, faults, history>>

\* Opening failed: every open action is withdrawn, a waiting mission's too.
OpenFails ==
    /\ AtOpen("failed")
    /\ WithdrawAll(OpenActions(Missions))
    /\ Become(Opener, Idle)
    /\ Down
    /\ UNCHANGED <<journal, faults, history>>

(***************************************************************************)
(* The broker, as the coordinator sees it: the Owner's native approval and  *)
(* the clock move a commitment that waits; an executing one ends.           *)
(***************************************************************************)
Moves(m, e, from, to) == action[m][e] = from /\ action' = [action EXCEPT ![m][e] = to]
Alone == UNCHANGED <<proc, memory, call, recovery, journal, port, faults, yes, told, lost,
                     sent>>

OwnerApproves(m, e) ==
    /\ Moves(m, e, "prepared", "executing")
    /\ started' = [started EXCEPT ![m] = @ \cup {e}]
    /\ Alone

OwnerDeniesOrExpires(m, e) ==
    /\ Moves(m, e, "prepared", "denied") \/ Moves(m, e, "prepared", "lapsed")
    /\ Alone /\ UNCHANGED started

ActionEnds(m, e) ==
    /\ \/ Moves(m, e, "executing", "succeeded")
       \/ Moves(m, e, "executing", "lapsed")
       \/ Moves(m, e, "interrupted", "cancelled")
    /\ Alone /\ UNCHANGED started

(***************************************************************************)
(* The specification.                                                       *)
(***************************************************************************)
Init ==
    /\ proc = "down"
    /\ missions = Everywhere(NotDrafted)
    /\ inner = NewInner
    /\ reserved = Everywhere({})
    /\ asking = Everywhere(NoCall) /\ resume_asking = Everywhere(NoCall)
    /\ busy = Everywhere(FALSE) /\ late = Everywhere(FALSE)
    /\ recovery = NoRecovery
    /\ call = [c \in AllCalls |-> Idle]
    /\ log = EmptyLog /\ readable = TRUE
    /\ port = NewPort
    /\ action = Everywhere([e \in Effects |-> "none"])
    /\ faults = 0
    /\ yes = Everywhere({})
    /\ told = Everywhere("None")
    /\ lost = Everywhere(FALSE)
    /\ sent = Everywhere({})
    /\ started = Everywhere({})

\* The calls of the host, on any mission, and its clock.
HostCalls ==
    \/ \E m \in Missions : Submit(m) \/ \E h \in Hashes : Draft(m, h) \/ Revise(m, h)
    \/ \E c \in Calls, m \in Missions :
          \/ RequestConsent(c, m) \/ Resume(c, m) \/ Stop(c, m)
          \/ AdvanceEnd(c, m) \/ AdvanceStart(c, m) \/ AdvanceExplain(c, m) \/ AdvancePhase(c, m)
    \/ Close
    \/ \E m \in Missions : TimePasses(m)

\* The steps of a call in flight: its own, or those that wait for others.
OwnSteps(c) ==
    \/ StopFire(c) \/ Withdraw(c) \/ CloseAsk(c) \/ CloseTake(c) \/ End(c) \/ EndFire(c)
    \/ Lane(c) \/ RefuseEffect(c) \/ PhaseDone(c) \/ Finish(c) \/ Leave(c)
    \/ Dispatch(c) \/ Settle(c) \/ Pend(c) \/ Wait(c) \/ Query(c) \/ Resolve(c) \/ Approve(c)
OutboundReturns(c) == TakeAnswer(c) \/ TakeResume(c) \/ LaneReturn(c) \/ Perform(c)

Recovers ==
    \/ AdoptActions \/ OpenSession \/ RecoverActions \/ RecoverClose \/ Overtake
    \/ BlockInterrupted \/ LoadContent \/ ContentWithdraw \/ ContentStop \/ HoldUnfinished
    \/ OpenFails

Broker ==
    \E m \in Missions, e \in Effects :
        OwnerApproves(m, e) \/ OwnerDeniesOrExpires(m, e) \/ ActionEnds(m, e)

Next ==
    \/ HostCalls
    \/ \E c \in AllCalls : OwnSteps(c) \/ OutboundReturns(c)
    \/ Open \/ Recovers \/ Drop \/ Crash
    \/ Broker

Spec == Init /\ [][Next]_vars

(***************************************************************************)
(* Properties.                                                              *)
(***************************************************************************)
\* Type invariant: the fields of Inner, of the calls in flight, of the
\* journal's image and of the port keep their types.
TypeOK ==
    /\ proc \in {"down", "opening", "up"}
    /\ missions \in [Missions -> Mission]
    /\ inner \in [broken : BOOLEAN, closed : BOOLEAN, session_journaled : BOOLEAN]
    /\ reserved \in [Missions -> SUBSET Calls]
    /\ asking \in [Missions -> Calls \cup {NoCall}]
    /\ resume_asking \in [Missions -> Calls \cup {NoCall}]
    /\ busy \in [Missions -> BOOLEAN]
    /\ late \in [Missions -> BOOLEAN]
    /\ call \in [AllCalls -> Call]
    /\ recovery \in [closed_cleanly : BOOLEAN, clean : BOOLEAN, failed : BOOLEAN,
                     todo : SUBSET Missions]
    /\ log \in Log
    /\ readable \in BOOLEAN
    /\ port \in Port
    /\ action \in [Missions -> [Effects -> ActionState]]
    /\ faults \in 0..MaxFaults
    /\ yes \in [Missions -> SUBSET Hashes]
    /\ told \in [Missions -> Terminal \cup {"None"}]
    /\ lost \in [Missions -> BOOLEAN]
    /\ sent \in [Missions -> SUBSET (MayWait \X Roles)]
    /\ started \in [Missions -> SUBSET Effects]

\* The coordinator never writes a journal that its own replay refuses, whatever
\* calls race and whatever appends fail (replay: ReplayViolation).
JournalAccepted == ~log.refused

\* "Every change is journaled before it takes effect": while the journal works,
\* what the coordinator holds in memory is what a replay would rebuild, its
\* holds aside that the next record writes (fire, append; open_session).
Durable(ms) == [ms EXCEPT !.held = @ /\ ms.held_journaled, !.must_hold = FALSE,
                          !.awaiting_settled = NoEffect]
MemoryIsJournal ==
    proc = "up" /\ ~inner.broken =>
        \A m \in Missions : Durable(missions[m]) = Durable(log.mission[m])

\* An end that a call returned as Ok is in the journal for good: no crash, failed
\* append or reopening undoes it (stop_for, record_non_file_end, take_answer).
ToldIsDurable ==
    \A m \in Missions : told[m] # "None" => log.mission[m].state = told[m]

\* Once the call that ended a mission has returned Ok, no effect of the mission
\* starts: not one in flight, not one the Owner could still approve (withdraw).
NothingStartsAfterEnd ==
    [][\A m \in Missions : told[m] # "None" => started'[m] = started[m]]_vars

\* No call invokes a lane or dispatches an effect of the mission in this step.
NoNewWork(m) ==
    \A c \in Calls : call'[c].m = m /\ call'[c].pc \in {"running", "perform"}
                        => call[c].pc = call'[c].pc

\* A Stop or a denial that the journal lost is not undone by a reopening: until
\* the Owner resumes the mission, no lane is invoked and no effect is dispatched
\* (hold_unfinished, must_hold).
LostStopRunsNothing ==
    [][\A m \in Missions : lost[m] /\ lost'[m] => NoNewWork(m)]_vars

\* A mission past its consent carries a consent to its exact contract, and the
\* Owner said yes to that contract (take_answer, revise, replay).
ConsentFirst ==
    \A m \in Missions : \A ms \in {missions[m], log.mission[m]} :
        PastConsent(ms) => Consented(ms) /\ ms.consent \in yes[m]

\* A lane whose effects were sent is not called again for the same phase, so its
\* effects are not sent twice: restarts and waits included (dispatched_in_phase,
\* recover_and_settle, roles_left).
NoEffectTwice ==
    \A m \in Missions :
        \A ms \in {missions[m], log.mission[m]} :
            ms.state \in MayWait /\ ms.pending_lane # "None"
                => <<ms.state, ms.pending_lane>> \notin sent[m]

\* A mission goes on after a wait only if the action it waited on ran at the
\* broker (resolve_wait, approval).
ApprovedContinuesOnce ==
    [][\A m \in Missions :
          LET ms == log.mission[m]
          IN  ms.state = "AwaitingApproval" /\ log'.mission[m].state \in MayWait
                 => action[m][ms.waiting.effect] = "succeeded"]_vars

\* An action the Owner can still approve, with no call in flight, is one the
\* journal names, so that a reopening can withdraw it (wait, ApprovalPending).
NothingForgotten ==
    (\A c \in AllCalls : call[c] = Idle) =>
        \A m \in Missions, e \in Effects :
            action[m][e] = "prepared" => log.mission[m].open_action = e

\* A clean close leaves no unfinished mission with a lane or an effect in flight,
\* nor one that must be held: the next open may go on with it (close_ref, busy).
CleanCloseLeavesNothingInterrupted ==
    log.session = "Closed" =>
        \A m \in Missions :
            LET ms == log.mission[m]
            IN  Unfinished(ms) => /\ ms.pending_lane = "None"
                                  /\ ~Interrupted(ms)
                                  /\ ~ms.must_hold

\* Once the journal failed, no effect starts, whatever was in flight at the break;
\* aside from an action of an earlier port that this one could not take back, and
\* that the Owner approves (write_record, fence).
FenceHolds ==
    [][port.fenced => \A m \in Missions :
          started'[m] \ started[m] \subseteq port.handed[m] \ port.on_run[m]]_vars

\* No effect starts, and no mission goes on, that must not: not after the end
\* of its mission was reported, not past the fence of a failed journal, and not
\* after a wait whose action did not run.
NothingStartsWrongly == NothingStartsAfterEnd /\ FenceHolds /\ ApprovedContinuesOnce

\* What a restart goes on with is safe to go on with: no lane whose effects were
\* sent is called again, and a clean close leaves nothing interrupted.
RestartsAreSafe == NoEffectTwice /\ CleanCloseLeavesNothingInterrupted

(***************************************************************************)
(* Refinement: what the journal records is what the Owner was promised.     *)
(***************************************************************************)
Promise == INSTANCE OwnerPromise WITH
    contract <- [m \in Missions |-> log.mission[m].hash],
    agreed <- [m \in Missions |-> log.mission[m].consent],
    begun <- [m \in Missions |-> log.mission[m].next_effect],
    asked <- [m \in Missions |-> log.mission[m].open_action # NoEffect],
    over <- [m \in Missions |-> log.mission[m].state \in Terminal]

\* The journal moves only as OwnerPromise allows, a record at a time: failed
\* appends, crashes and reopenings included.
PromiseKept == Promise!Spec

(***************************************************************************)
(* Liveness.  Stop "never waits for a lane or an effect in flight": only    *)
(* its own steps are fair.  Opening runs alone, so its steps are fair.      *)
(* Nothing is assumed of lanes, effects, the Owner or the host.             *)
(***************************************************************************)
StopSteps(c) ==
    call[c].op = "stop" /\ (StopFire(c) \/ Withdraw(c) \/ CloseAsk(c) \/ CloseTake(c))
OpenSteps == Recovers \/ OwnSteps(Opener)

Fairness == WF_vars(OpenSteps) /\ \A c \in Calls : WF_vars(StopSteps(c))
FairSpec == Spec /\ Fairness

\* A Stop returns, whatever lane or effect of the mission never returns (stop_for).
StopReturns == \A c \in Calls : call[c].op = "stop" ~> call[c].op # "stop"

\* Opening ends, whatever the journal left to recover (recover).
OpeningEnds == proc = "opening" ~> proc # "opening"

(***************************************************************************)
(* What a comment says that the code does not do.                           *)
(***************************************************************************)
\* "While an effect is unsettled the live coordinator only stops" (replay).
UnsettledOnlyStops ==
    [][\A m \in Missions :
          /\ proc = "up" /\ proc' = "up" /\ ~inner'.broken
          /\ missions[m].unsettled # NoEffect
          /\ missions'[m].state # missions[m].state
          => missions'[m].state = "Stopped"]_vars
=============================================================================
