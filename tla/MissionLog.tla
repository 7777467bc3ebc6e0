----------------------------- MODULE MissionLog -----------------------------
(***************************************************************************)
(* The journal of the Mother coordinator, as the replay reads it back.      *)
(*                                                                          *)
(* Replay (coordinator.rs, fn replay) is a left fold over the records, so   *)
(* the durable journal is represented by its replay image: appending a      *)
(* record e to the journal turns image j into ReplayRecord(j, e).  An image *)
(* whose `refused' is TRUE is a journal that Coordinator::open refuses as   *)
(* Inconsistent: it opens nothing, ever.                                    *)
(***************************************************************************)
EXTENDS MissionStates

CONSTANT MaxMissions    \* bound on drafted missions (MAX_MISSIONS)
ASSUME MissionAssumption == MaxMissions \in Nat \ {0}

Missions == 1..MaxMissions

(***************************************************************************)
(* A mission (struct Mission): what the replay rebuilds and the live        *)
(* coordinator keeps.  state = "None": not drafted.                         *)
(***************************************************************************)
NoWait == [phase |-> "None", effect |-> NoEffect, rest |-> 0, roles |-> << >>]

Waiting == [phase : MayWait \cup {"None"}, effect : Effects \cup {NoEffect},
            rest : 0..MaxEffects, roles : RolesLeft]

Mission == [state : MissionState \cup {"None"},
            hash : Hashes \cup {NoHash},
            consent : Hashes \cup {NoHash},
            waiting : Waiting,
            next_effect : 0..MaxEffects,
            unsettled : Effects \cup {NoEffect},
            dispatched_in_phase : BOOLEAN,
            pending_lane : Roles \cup {"None"},
            awaiting_settled : Effects \cup {NoEffect},
            open_action : Effects \cup {NoEffect},
            held : BOOLEAN,
            held_journaled : BOOLEAN,
            must_hold : BOOLEAN]

NewMission(state, hash) ==
    [state |-> state, hash |-> hash, consent |-> NoHash, waiting |-> NoWait,
     next_effect |-> 0, unsettled |-> NoEffect, dispatched_in_phase |-> FALSE,
     pending_lane |-> "None", awaiting_settled |-> NoEffect, open_action |-> NoEffect,
     held |-> FALSE, held_journaled |-> FALSE, must_hold |-> FALSE]

NotDrafted == NewMission("None", NoHash)

Unfinished(ms) == ms.state \notin Terminal \cup {"None"}
PastConsent(ms) == ms.state \in {"Approved", "AwaitingApproval"} \cup Working
Consented(ms) == ms.consent # NoHash /\ ms.consent = ms.hash

\* Take a transition the table accepted; a consent's token is set by the caller.
\* (A Stop leaves the wait in place; nothing reads a terminal mission's.)
Apply(ms, t) ==
    LET to == Transition(ms.state, t)
        live == to \notin Terminal
    IN  [ms EXCEPT
           !.state = to,
           !.hash = IF t.name = "Revise" THEN t.hash ELSE @,
           !.consent = IF t.name = "Revise" THEN NoHash ELSE @,
           !.waiting =
              CASE t.name = "AwaitApproval" ->
                     [phase |-> ms.state, effect |-> t.effect, rest |-> t.rest, roles |-> t.roles]
                [] t.name = "ActionApproved" \/ ~live -> NoWait
                [] OTHER -> @,
           !.dispatched_in_phase = (t.name = "ActionApproved"),
           !.awaiting_settled = NoEffect,
           !.held = @ /\ live,
           !.held_journaled = @ /\ live,
           !.must_hold = @ /\ live]

(***************************************************************************)
(* Records.  Lane invocations are named by their role: a mission has at     *)
(* most one unanswered lane call.                                           *)
(***************************************************************************)
Done == "Done"
Awaiting == "AwaitingApproval"
Refused == "Refused"
SettledOutcome == {Done, Awaiting, Refused}

Rec(kind) == [kind |-> kind, trigger |-> Plain("Stop"), role |-> "None",
              effect |-> NoEffect, outcome |-> Done]
Drafted(h) == [Rec("Drafted") EXCEPT !.trigger = OfHash("Revise", h)]
Transitioned(t) == [Rec("Transition") EXCEPT !.trigger = t]
LaneRec(kind, role) == [Rec(kind) EXCEPT !.role = role]
EffectRec(kind, e) == [Rec(kind) EXCEPT !.effect = e]
EffectSettled(e, outcome) == [EffectRec("EffectSettled", e) EXCEPT !.outcome = outcome]

\* While held the live coordinator only stops the mission, journals an action
\* closed that the broker no longer holds, or takes the Owner's resume.
WhileHeld(ev) ==
    \/ ev.kind \in {"ApprovalClosed", "Resumed"}
    \/ ev.kind = "Transition" /\ ev.trigger.name = "Stop"

\* Before its hold, only what recovery writes.
BeforeHold(ms, ev) ==
    \/ ev.kind \in {"Held", "LaneOvertaken", "ApprovalClosed"}
    \/ ev.kind = "Transition" /\ Transition(ms.state, ev.trigger) \in Terminal

\* What the live coordinator keeps of a paused phase: the rest of one answer
\* and the lanes after the asking one.
Suffix(s, t) == Len(t) < Len(s) /\ t = SubSeq(s, Len(s) - Len(t) + 1, Len(s))

\* A submission, a consent or a denial names the contract as it stands.
NamesContractSubmitted(ms, t) == t.name = "Submit" => t.hash = ms.hash  \* mutant: only that
NamesContract(ms, t) == t.name \in {"Submit", "Consent", "Deny"} => t.hash = ms.hash

\* A wait follows the settlement of the effect it waits on.
AdmitsWaitAny(ms, t) == Suffix(PhaseRoles(ms.state), t.roles)      \* mutant: on any effect
AdmitsWait(ms, t) ==
    /\ ms.awaiting_settled = t.effect
    /\ Suffix(PhaseRoles(ms.state), t.roles)

\* The replay's conditions on a transition.  (The bound on the count of the
\* effects left, MAX_EFFECTS_PER_CALL, is that of the trigger's type.)
AdmitsTransition(ms, t) ==
    /\ Legal(ms.state, t)
    /\ ms.unsettled # NoEffect => t.name \in {"Stop", "BlockOutcomeUnknown"}
    /\ NamesContract(ms, t)
    /\ t.name = "Start" => Consented(ms)
    /\ t.name = "AwaitApproval" => AdmitsWait(ms, t)
    /\ t.name = "ActionApproved" => ms.waiting.effect = t.effect /\ ms.waiting.phase = t.phase
    /\ t.name \in {"ActionDenied", "ApprovalLapsed"} => ms.waiting.effect = t.effect

\* An effect is dispatched in turn, with none unsettled and no action open.
AdmitsDispatchAgain(ms, e) ==       \* mutant: one sent before may be sent again
    /\ ms.state \in Working /\ e <= ms.next_effect
    /\ ms.unsettled = NoEffect /\ ms.open_action = NoEffect
AdmitsDispatchAsked(ms, e) ==       \* mutant: while the Owner is asked
    ms.state \in Working /\ e = ms.next_effect /\ ms.unsettled = NoEffect
AdmitsDispatch(ms, e) ==
    /\ ms.state \in Working
    /\ e = ms.next_effect
    /\ ms.unsettled = NoEffect
    /\ ms.open_action = NoEffect

\* The action opened is that of the effect whose settlement awaits approval.
AdmitsPending(ms, e) ==
    /\ ms.state \in MayWait
    /\ ms.awaiting_settled = e
    /\ ms.open_action = NoEffect

\* Only a mission with nothing in flight is held.
AdmitsHoldAtWork(ms) ==             \* mutant: with a lane call unanswered
    ms.state \notin Terminal /\ ms.unsettled = NoEffect /\ ~ms.dispatched_in_phase
AdmitsHold(ms) ==
    /\ ms.state \notin Terminal
    /\ ms.pending_lane = "None"
    /\ ms.unsettled = NoEffect
    /\ ~ms.dispatched_in_phase

\* The replay's conditions on each of the other records.
AdmitsRecord(ms, ev) ==
    CASE ev.kind = "Transition" -> AdmitsTransition(ms, ev.trigger)
      [] ev.kind = "LaneInvoked" ->
            /\ ms.state \in MayWait
            /\ ms.pending_lane = "None"
            /\ ms.open_action = NoEffect
      [] ev.kind \in {"LaneReturned", "LaneOvertaken"} -> ms.pending_lane = ev.role
      [] ev.kind = "EffectDispatched" -> AdmitsDispatch(ms, ev.effect)
      [] ev.kind = "EffectSettled" -> ms.unsettled = ev.effect
      [] ev.kind = "ApprovalPending" -> AdmitsPending(ms, ev.effect)
      [] ev.kind = "ApprovalClosed" -> ms.open_action = ev.effect
      [] ev.kind = "Held" -> AdmitsHold(ms)
      [] ev.kind = "Resumed" -> ms.held
      [] OTHER -> TRUE      \* ConsentRefused, EffectRefused

\* The conditions on any record of a drafted mission.
Admits(ms, ev) ==
    /\ ms.state # "None"
    /\ ms.held => WhileHeld(ev)
    /\ ms.must_hold => BeforeHold(ms, ev)
    /\ AdmitsRecord(ms, ev)

\* What a record the replay admits does to its mission.
Recorded(ms, ev) ==
    CASE ev.kind = "Transition" ->
            IF ev.trigger.name = "Consent"
            THEN [Apply(ms, ev.trigger) EXCEPT !.consent = ev.trigger.hash]
            ELSE Apply(ms, ev.trigger)
      [] ev.kind = "LaneInvoked" ->
            [ms EXCEPT !.pending_lane = ev.role, !.awaiting_settled = NoEffect]
      [] ev.kind \in {"LaneReturned", "LaneOvertaken"} -> [ms EXCEPT !.pending_lane = "None"]
      [] ev.kind = "EffectDispatched" ->
            [ms EXCEPT !.next_effect = @ + 1, !.unsettled = ev.effect,
                       !.dispatched_in_phase = TRUE, !.awaiting_settled = NoEffect]
      [] ev.kind = "EffectSettled" ->
            [ms EXCEPT !.unsettled = NoEffect,
                       !.awaiting_settled = IF ev.outcome = Awaiting THEN ev.effect ELSE @]
      [] ev.kind = "ApprovalPending" -> [ms EXCEPT !.open_action = ev.effect]
      [] ev.kind = "ApprovalClosed" -> [ms EXCEPT !.open_action = NoEffect]
      [] ev.kind = "Held" ->
            [ms EXCEPT !.held = TRUE, !.held_journaled = TRUE, !.must_hold = FALSE]
      [] ev.kind = "Resumed" -> [ms EXCEPT !.held = FALSE, !.held_journaled = FALSE]
      [] OTHER -> ms

(***************************************************************************)
(* The image of a whole journal.                                            *)
(***************************************************************************)
Log == [session : {"Never", "Open", "Closed"},
        mission : [Missions -> Mission],
        refused : BOOLEAN]

EmptyLog == [session |-> "Never", mission |-> [m \in Missions |-> NotDrafted], refused |-> FALSE]

Refusal(j) == [j EXCEPT !.refused = TRUE]

\* Mission ids are given out in order.
NextMission(missions, m) == \A k \in Missions : missions[k].state # "None" <=> k < m

ReplayOpened(j) ==
    LET hold(ms) == IF j.session # "Closed" /\ Unfinished(ms) /\ ~ms.held
                    THEN [ms EXCEPT !.must_hold = TRUE] ELSE ms
    IN  [j EXCEPT !.session = "Open", !.mission = [m \in Missions |-> hold(j.mission[m])]]

ReplayClosed(j) ==
    IF j.session = "Open" /\ \A m \in Missions : ~j.mission[m].must_hold
    THEN [j EXCEPT !.session = "Closed"]
    ELSE Refusal(j)

ReplayDrafted(j, m, ev) ==
    IF j.session # "Closed" /\ NextMission(j.mission, m)
    THEN [j EXCEPT !.mission[m] = NewMission("Draft", ev.trigger.hash)]
    ELSE Refusal(j)

ReplayRecord(j, m, ev) ==
    IF j.session # "Closed" /\ Admits(j.mission[m], ev)
    THEN [j EXCEPT !.mission[m] = Recorded(@, ev)]
    ELSE Refusal(j)

\* One record of mission m.
Replay(j, m, ev) ==
    IF ev.kind = "Drafted" THEN ReplayDrafted(j, m, ev) ELSE ReplayRecord(j, m, ev)

\* The holds of the missions S, each on its own mission.
ReplayHolds(j, S) ==
    [j EXCEPT
       !.refused = @ \/ (S # {} /\ j.session = "Closed")
                     \/ \E m \in S : ~Admits(j.mission[m], Rec("Held")),
       !.mission = [m \in Missions |-> IF m \in S THEN Recorded(j.mission[m], Rec("Held"))
                                                  ELSE j.mission[m]]]
=============================================================================
