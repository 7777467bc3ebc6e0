------------------------ MODULE JournalReplayProofs ------------------------
(***************************************************************************)
(* Proofs, for every set of hashes and every number of missions and of      *)
(* effects, of what module JournalReplay states: what a replay brings back  *)
(* is consented, held only when quiet, asked about what it waits on, ended  *)
(* for good; and every accepted file tells a history OwnerPromise allows.   *)
(*                                                                          *)
(* None of these is inductive by itself.  MissionOK below joins them with   *)
(* what they need: nothing begins before the last revision, no contract is  *)
(* agreed to before its consent, and the action open at the broker, the     *)
(* settlement that awaits approval and the unsettled effect exclude or      *)
(* name each other.                                                         *)
(***************************************************************************)
EXTENDS JournalReplay, TLAPS

(***************************************************************************)
(* The inductive invariant, mission by mission.                             *)
(***************************************************************************)
\* Nothing begins before the last revision, nor is a contract agreed to early.
Begun(ms) ==
    /\ ms.state \in Revisable \cup {"None"} => ms.next_effect = 0
    /\ ms.state \in {"None", "Draft", "AwaitingConsent"} => ms.consent = NoHash
    /\ ms.state # "None" => ms.hash # NoHash

\* The effect whose settlement awaits approval, and the action opened for it.
Awaited(ms) ==
    /\ ms.awaiting_settled # NoEffect =>
          /\ ms.awaiting_settled < ms.next_effect
          /\ ms.unsettled = NoEffect
          /\ ms.open_action # NoEffect => ms.open_action = ms.awaiting_settled
    /\ ms.open_action # NoEffect =>
          /\ ms.open_action < ms.next_effect
          /\ ms.unsettled = NoEffect
    /\ ms.unsettled # NoEffect => ms.unsettled < ms.next_effect

MissionOK(ms) ==
    /\ ms \in Mission
    /\ PastConsent(ms) => Consented(ms)
    /\ ms.held => Quiet(ms)
    /\ Asked(ms)
    /\ Begun(ms)
    /\ Awaited(ms)

ReplayInv ==
    /\ image \in Log
    /\ \A m \in Missions : MissionOK(image.mission[m])

(***************************************************************************)
(* The entries of a file carry what their kind carries.                     *)
(***************************************************************************)
\* A trigger carries the hash, the effect and the phase that its name calls for.
Carries(t) ==
    /\ t \in Trigger
    /\ t.name \in {"Revise", "Submit", "Consent", "Deny"} => t.hash \in Hashes
    /\ t.name \in {"AwaitApproval", "ActionApproved", "ActionDenied", "ApprovalLapsed"}
          => t.effect \in Effects
    /\ t.name = "ActionApproved" => t.phase \in MayWait

\* The empty list of lanes is one that may be left: a phase's last lane leaves none.
LEMMA NoRolesLeft == << >> \in RolesLeft
  <1>1. "Building" \in MayWait
    BY DEF MayWait
  <1>2. SubSeq(PhaseRoles("Building"), 3, Len(PhaseRoles("Building"))) = << >>
    BY DEF PhaseRoles
  <1>3. 3 \in 2..5
    OBVIOUS
  <1>4. << >> \in {SubSeq(PhaseRoles("Building"), i, Len(PhaseRoles("Building"))) : i \in 2..5}
    BY <1>2, <1>3
  <1>. QED
    BY <1>1, <1>4, Zenon DEF RolesLeft

\* Every trigger a file may hold carries what its name calls for.
LEMMA TriggersCarry == \A t \in Triggers : Carries(t)
  <1>. SUFFICES ASSUME NEW t \in Triggers PROVE Carries(t)
    OBVIOUS
  <1>. USE NoRolesLeft, EffectAssumption
  <1>1. CASE t \in PlainTriggers
    BY <1>1 DEF PlainTriggers, Carries, Trigger, TriggerName
  <1>2. CASE t \in HashTriggers
    BY <1>2 DEF HashTriggers, Carries, Trigger, TriggerName
  <1>3. CASE t \in EffectTriggers
    BY <1>3 DEF EffectTriggers, Carries, Trigger, TriggerName
  <1>4. CASE t \in AwaitTriggers
    BY <1>4 DEF AwaitTriggers, Carries, Trigger, TriggerName
  <1>5. CASE t \in ApprovedTriggers
    BY <1>5 DEF ApprovedTriggers, Carries, Trigger, TriggerName
  <1>. QED
    BY <1>1, <1>2, <1>3, <1>4, <1>5 DEF Triggers

(***************************************************************************)
(* A transition.                                                            *)
(***************************************************************************)
\* The transition table leads to a state, from a state.
LEMMA TransitionLeads ==
  ASSUME NEW from, NEW t, Legal(from, t)
  PROVE  Transition(from, t) \in MissionState /\ from \in MissionState
  BY DEF Legal, Transition, MissionState, Revisable, Working, MayWait, Terminal, Stoppable

\* What a transition leaves of a mission, field by field (Mission::apply).
LEMMA RecordedFields ==
  ASSUME NEW ms \in Mission, NEW t \in Trigger, Legal(ms.state, t)
  PROVE  LET a == Recorded(ms, Transitioned(t))
             to == Transition(ms.state, t)
         IN  /\ a \in Mission
             /\ a.state = to
             /\ a.hash = (IF t.name = "Revise" THEN t.hash ELSE ms.hash)
             /\ a.consent = (IF t.name = "Revise" THEN NoHash
                             ELSE IF t.name = "Consent" THEN t.hash ELSE ms.consent)
             /\ a.next_effect = ms.next_effect
             /\ a.unsettled = ms.unsettled
             /\ a.dispatched_in_phase = (t.name = "ActionApproved")
             /\ a.pending_lane = ms.pending_lane
             /\ a.awaiting_settled = NoEffect
             /\ a.open_action = ms.open_action
             /\ a.held = (ms.held /\ to \notin Terminal)
             /\ t.name = "AwaitApproval" => a.waiting.effect = t.effect
  <1>. DEFINE to == Transition(ms.state, t)
              live == to \notin Terminal
              wait == CASE t.name = "AwaitApproval" ->
                             [phase |-> ms.state, effect |-> t.effect, rest |-> t.rest,
                              roles |-> t.roles]
                        [] t.name = "ActionApproved" \/ ~live -> NoWait
                        [] OTHER -> ms.waiting
  <1>1. to \in MissionState
    BY TransitionLeads
  <1>2. wait \in Waiting
    <2>1. CASE t.name = "AwaitApproval"
      <3>1. ms.state \in MayWait /\ live
        BY <2>1 DEF Legal, Transition, Terminal
      <3>2. wait = [phase |-> ms.state, effect |-> t.effect, rest |-> t.rest, roles |-> t.roles]
        BY <2>1, <3>1
      <3>. HIDE DEF wait
      <3>. QED
        BY <3>1, <3>2 DEF Waiting, Trigger
    <2>2. NoWait \in Waiting
      BY NoRolesLeft, EffectAssumption DEF NoWait, Waiting
    <2>. QED
      BY <2>1, <2>2 DEF Mission
  <1>. DEFINE hash == IF t.name = "Revise" THEN t.hash ELSE ms.hash
              kept(consent) ==
                [state |-> to, hash |-> hash, consent |-> consent, waiting |-> wait,
                 next_effect |-> ms.next_effect, unsettled |-> ms.unsettled,
                 dispatched_in_phase |-> (t.name = "ActionApproved"),
                 pending_lane |-> ms.pending_lane, awaiting_settled |-> NoEffect,
                 open_action |-> ms.open_action, held |-> (ms.held /\ live),
                 held_journaled |-> (ms.held_journaled /\ live),
                 must_hold |-> (ms.must_hold /\ live)]
  <1>3. Apply(ms, t) = kept(IF t.name = "Revise" THEN NoHash ELSE ms.consent)
    <2>1. Apply(ms, t) =
            [ms EXCEPT !.state = to, !.hash = hash,
                       !.consent = IF t.name = "Revise" THEN NoHash ELSE ms.consent,
                       !.waiting = wait,
                       !.dispatched_in_phase = (t.name = "ActionApproved"),
                       !.awaiting_settled = NoEffect,
                       !.held = (ms.held /\ live),
                       !.held_journaled = (ms.held_journaled /\ live),
                       !.must_hold = (ms.must_hold /\ live)]
      BY Zenon DEF Apply
    <2>. HIDE DEF wait, to, live, hash
    <2>. QED
      BY <2>1 DEF Mission
  <1>4. Recorded(ms, Transitioned(t)) =
          IF t.name = "Consent" THEN [Apply(ms, t) EXCEPT !.consent = t.hash] ELSE Apply(ms, t)
    BY DEF Recorded, Transitioned, Rec
  <1>5. Recorded(ms, Transitioned(t)) =
          kept(IF t.name = "Revise" THEN NoHash ELSE IF t.name = "Consent" THEN t.hash
               ELSE ms.consent)
    BY <1>3, <1>4
  <1>6. t.name = "AwaitApproval" => wait.effect = t.effect
    BY DEF Legal, Transition, Terminal
  <1>. HIDE DEF wait, to, live
  <1>. QED
    BY <1>1, <1>2, <1>5, <1>6 DEF Mission, Trigger, to, live

\* A transition that the replay admits keeps the mission's invariant.
LEMMA TransitionKeeps ==
  ASSUME NEW ms, MissionOK(ms), NEW t, Carries(t), Admits(ms, Transitioned(t))
  PROVE  MissionOK(Recorded(ms, Transitioned(t)))
  <1>. DEFINE a == Recorded(ms, Transitioned(t))
              to == Transition(ms.state, t)
  <1>1. /\ ms \in Mission /\ t \in Trigger
        /\ AdmitsTransition(ms, t)
        /\ Legal(ms.state, t)
        /\ ms.held => t.name = "Stop"
    BY DEF MissionOK, Carries, Admits, AdmitsRecord, AdmitsTransition, WhileHeld, Transitioned, Rec
  <1>2. to \in MissionState /\ ms.state \in MissionState
    BY <1>1, TransitionLeads
  <1>3. /\ a \in Mission
        /\ a.state = to
        /\ a.hash = (IF t.name = "Revise" THEN t.hash ELSE ms.hash)
        /\ a.consent = (IF t.name = "Revise" THEN NoHash
                        ELSE IF t.name = "Consent" THEN t.hash ELSE ms.consent)
        /\ a.next_effect = ms.next_effect
        /\ a.unsettled = ms.unsettled
        /\ a.awaiting_settled = NoEffect
        /\ a.open_action = ms.open_action
        /\ a.held = (ms.held /\ to \notin Terminal)
        /\ t.name = "AwaitApproval" => a.waiting.effect = t.effect
    BY <1>1, RecordedFields
  <1>. HIDE DEF a
  <1>4. PastConsent(a) => Consented(a)
    <2>. USE HashAssumption DEF PastConsent, Consented
    <2>1. CASE t.name = "Consent"
      BY <1>1, <1>3, <2>1 DEF Carries, AdmitsTransition, NamesContract
    <2>2. CASE t.name = "Revise"
      BY <1>1, <1>3, <2>2 DEF Legal, Transition, Working, MayWait
    <2>3. CASE t.name \notin {"Consent", "Revise"}
      <3>1. PastConsent(a) => PastConsent(ms) \/ t.name = "Start"
        BY <1>1, <1>3, <2>3 DEF Legal, Transition, Working, MayWait, Terminal
      <3>. QED
        BY <1>1, <1>3, <2>3, <3>1 DEF MissionOK, AdmitsTransition
    <2>. QED
      BY <2>1, <2>2, <2>3
  <1>5. ~a.held
    BY <1>1, <1>3 DEF Legal, Transition, Terminal
  <1>6. Asked(a)
    <2>. SUFFICES ASSUME a.state = "AwaitingApproval" PROVE Asked(a)
      BY DEF Asked
    <2>1. t.name = "AwaitApproval"
      BY <1>1, <1>3 DEF Legal, Transition, Terminal, MayWait
    <2>2. t.effect \in Effects /\ ms.awaiting_settled = t.effect
      BY <1>1, <2>1 DEF Carries, AdmitsTransition, AdmitsWait
    <2>. QED
      BY <1>1, <1>3, <2>1, <2>2, EffectAssumption DEF MissionOK, Awaited, Asked, Effects, NoEffect
  <1>7. Begun(a)
    <2>1. a.state \in Revisable \cup {"None"} => ms.state \in Revisable
      BY <1>1, <1>2, <1>3 DEF Legal, Transition, Revisable, Terminal, MayWait
    <2>2. a.state \in {"None", "Draft", "AwaitingConsent"} => a.consent = NoHash
      <3>1. a.state \in {"None", "Draft", "AwaitingConsent"} =>
              \/ t.name = "Revise"
              \/ t.name # "Consent" /\ ms.state = "Draft"
        BY <1>1, <1>2, <1>3 DEF Legal, Transition, Terminal, MayWait
      <3>. QED
        BY <1>3, <3>1 DEF MissionOK, Begun
    <2>3. a.hash # NoHash
      <3>1. ms.state # "None"
        BY DEF Admits
      <3>. QED
        BY <1>1, <1>3, <3>1, HashAssumption DEF MissionOK, Begun, Carries
    <2>. QED
      BY <1>3, <2>1, <2>2, <2>3 DEF MissionOK, Begun
  <1>8. Awaited(a)
    BY <1>3 DEF MissionOK, Awaited
  <1>9. MissionOK(a)
    BY <1>3, <1>4, <1>5, <1>6, <1>7, <1>8 DEF MissionOK
  <1>. QED
    BY <1>9 DEF a

(***************************************************************************)
(* The other records.                                                       *)
(***************************************************************************)
\* A record carries the role or the effect that its kind calls for.
CarriesRec(ev) ==
    /\ ev.kind \in {"LaneInvoked", "LaneReturned", "LaneOvertaken", "EffectDispatched",
                    "ApprovalPending", "ApprovalClosed", "EffectSettled", "Held", "Resumed",
                    "ConsentRefused", "EffectRefused"}
    /\ ev.kind \in {"LaneInvoked", "LaneReturned", "LaneOvertaken"} => ev.role \in Roles
    /\ ev.kind \in {"EffectDispatched", "ApprovalPending", "ApprovalClosed", "EffectSettled"}
          => ev.effect \in Effects

Records == LaneRecs \cup EffectRecs \cup SettledRecs \cup OtherRecs

\* Every other record a file may hold carries what its kind calls for.
LEMMA RecordsCarry == \A ev \in Records : CarriesRec(ev)
  <1>. SUFFICES ASSUME NEW ev \in Records PROVE CarriesRec(ev)
    OBVIOUS
  <1>1. CASE ev \in LaneRecs
    BY <1>1 DEF LaneRecs, CarriesRec
  <1>2. CASE ev \in EffectRecs
    BY <1>2 DEF EffectRecs, CarriesRec
  <1>3. CASE ev \in SettledRecs
    BY <1>3 DEF SettledRecs, CarriesRec
  <1>4. CASE ev \in OtherRecs
    BY <1>4 DEF OtherRecs, CarriesRec
  <1>. QED
    BY <1>1, <1>2, <1>3, <1>4 DEF Records

\* A record that the replay admits keeps the mission's invariant.
LEMMA RecordKeeps ==
  ASSUME NEW ms, MissionOK(ms), NEW ev, CarriesRec(ev), Admits(ms, ev)
  PROVE  MissionOK(Recorded(ms, ev))
  <1>. DEFINE a == Recorded(ms, ev)
  <1>. USE DEF MissionOK
  <1>1. CASE ev.kind = "LaneInvoked"
    <2>1. a = [ms EXCEPT !.pending_lane = ev.role, !.awaiting_settled = NoEffect]
      BY <1>1 DEF Recorded
    <2>2. ~ms.held
      BY <1>1 DEF Admits, WhileHeld
    <2>. HIDE DEF a
    <2>3. MissionOK(a)
      BY <1>1, <2>1, <2>2 DEF CarriesRec, Mission, PastConsent, Consented, Asked, Begun, Awaited
    <2>. QED
      BY <2>3 DEF a
  <1>2. CASE ev.kind \in {"LaneReturned", "LaneOvertaken"}
    <2>1. a = [ms EXCEPT !.pending_lane = "None"]
      BY <1>2 DEF Recorded
    <2>. HIDE DEF a
    <2>2. MissionOK(a)
      BY <2>1 DEF Mission, PastConsent, Consented, Asked, Begun, Awaited, Quiet, Unfinished
    <2>. QED
      BY <2>2 DEF a
  <1>3. CASE ev.kind = "EffectDispatched"
    <2>1. a = [ms EXCEPT !.next_effect = ms.next_effect + 1, !.unsettled = ev.effect,
                         !.dispatched_in_phase = TRUE, !.awaiting_settled = NoEffect]
      BY <1>3 DEF Recorded, Mission
    <2>2. /\ AdmitsDispatch(ms, ev.effect)
          /\ ~ms.held
      BY <1>3 DEF Admits, AdmitsRecord, WhileHeld
    <2>3. ev.effect \in Effects
      BY <1>3 DEF CarriesRec
    <2>. HIDE DEF a
    <2>4. MissionOK(a)
      <3>. USE <2>1, <2>2, <2>3, EffectAssumption DEF AdmitsDispatch, Mission
      <3>1. a \in Mission
        <4>1. ms.next_effect + 1 \in 0..MaxEffects
          BY DEF Effects
        <4>. QED
          BY <4>1
      <3>2. (PastConsent(a) => Consented(a)) /\ (a.held => Quiet(a))
        BY DEF PastConsent, Consented
      <3>3. Asked(a) /\ Begun(a)
        BY DEF Asked, Begun, Working, MayWait, Revisable
      <3>4. Awaited(a)
        BY DEF Awaited, Effects
      <3>. QED
        BY <3>1, <3>2, <3>3, <3>4
    <2>. QED
      BY <2>4 DEF a
  <1>4. CASE ev.kind = "EffectSettled"
    <2>1. a = [ms EXCEPT !.unsettled = NoEffect,
                         !.awaiting_settled = IF ev.outcome = Awaiting THEN ev.effect
                                              ELSE ms.awaiting_settled]
      BY <1>4 DEF Recorded, Mission
    <2>2. ms.unsettled = ev.effect /\ ev.effect \in Effects /\ ev.effect # NoEffect /\ ~ms.held
      BY <1>4, EffectAssumption
      DEF Admits, AdmitsRecord, WhileHeld, CarriesRec, Effects, NoEffect
    <2>. HIDE DEF a
    <2>3. MissionOK(a)
      BY <2>1, <2>2 DEF Mission, PastConsent, Consented, Asked, Begun, Awaited
    <2>. QED
      BY <2>3 DEF a
  <1>5. CASE ev.kind = "ApprovalPending"
    <2>1. a = [ms EXCEPT !.open_action = ev.effect]
      BY <1>5 DEF Recorded
    <2>2. AdmitsPending(ms, ev.effect) /\ ~ms.held /\ ev.effect \in Effects /\ ev.effect # NoEffect
      BY <1>5, EffectAssumption
      DEF Admits, AdmitsRecord, WhileHeld, CarriesRec, Effects, NoEffect
    <2>. HIDE DEF a
    <2>3. MissionOK(a)
      BY <2>1, <2>2 DEF Mission, AdmitsPending, MayWait, PastConsent, Consented, Asked, Begun,
                        Awaited
    <2>. QED
      BY <2>3 DEF a
  <1>6. CASE ev.kind = "ApprovalClosed"
    <2>1. a = [ms EXCEPT !.open_action = NoEffect]
      BY <1>6 DEF Recorded
    <2>. HIDE DEF a
    <2>2. MissionOK(a)
      BY <2>1 DEF Mission, PastConsent, Consented, Asked, Begun, Awaited, Quiet, Unfinished
    <2>. QED
      BY <2>2 DEF a
  <1>7. CASE ev.kind = "Held"
    <2>1. a = [ms EXCEPT !.held = TRUE, !.held_journaled = TRUE, !.must_hold = FALSE]
      BY <1>7 DEF Recorded
    <2>2. AdmitsHold(ms) /\ ms.state # "None"
      BY <1>7 DEF Admits, AdmitsRecord
    <2>. HIDE DEF a
    <2>3. MissionOK(a)
      BY <2>1, <2>2 DEF AdmitsHold, Mission, PastConsent, Consented, Asked, Begun, Awaited, Quiet,
                        Unfinished
    <2>. QED
      BY <2>3 DEF a
  <1>8. CASE ev.kind = "Resumed"
    <2>1. a = [ms EXCEPT !.held = FALSE, !.held_journaled = FALSE]
      BY <1>8 DEF Recorded
    <2>. HIDE DEF a
    <2>2. MissionOK(a)
      BY <2>1 DEF Mission, PastConsent, Consented, Asked, Begun, Awaited
    <2>. QED
      BY <2>2 DEF a
  <1>9. CASE ev.kind \in {"ConsentRefused", "EffectRefused"}
    BY <1>9 DEF Recorded
  <1>. QED
    BY <1>1, <1>2, <1>3, <1>4, <1>5, <1>6, <1>7, <1>8, <1>9 DEF CarriesRec

(***************************************************************************)
(* One entry of the file.                                                   *)
(***************************************************************************)
\* A mission as drafted, and one never drafted, satisfy the mission's invariant.
LEMMA NewMissionOK ==
  /\ MissionOK(NotDrafted)
  /\ \A h \in Hashes : MissionOK(NewMission("Draft", h))
  <1>1. NoWait \in Waiting
    BY NoRolesLeft, EffectAssumption DEF NoWait, Waiting
  <1>. USE <1>1, EffectAssumption, HashAssumption
       DEF NewMission, MissionOK, Mission, MissionState, Revisable, Working, MayWait, Terminal,
           PastConsent, Consented, Asked, Begun, Awaited, NoEffect
  <1>2. MissionOK(NotDrafted)
    BY DEF NotDrafted
  <1>3. \A h \in Hashes : MissionOK(NewMission("Draft", h))
    OBVIOUS
  <1>. QED
    BY <1>2, <1>3

\* Nothing about mission m changes but the hold it is due.
Stays(m) == \/ image'.mission[m] = image.mission[m]
            \/ image'.mission[m] = [image.mission[m] EXCEPT !.must_hold = TRUE]

\* Only mission m changes, to ms.
Turns(m, ms) ==
    /\ image'.mission[m] = ms
    /\ \A k \in Missions \ {m} : image'.mission[k] = image.mission[k]

\* The entry just read is refused, or is that of a session.
Passes == image' \in Log /\ \A k \in Missions : Stays(k)

\* The entry drafts mission m, moves it or records something of it.
Drafts(m) == /\ image' \in Log
             /\ image.mission[m].state = "None"
             /\ \E h \in Hashes : Turns(m, NewMission("Draft", h))

TakesRec(m, ev) == /\ image' \in Log
                   /\ Admits(image.mission[m], ev)
                   /\ Turns(m, Recorded(image.mission[m], ev))

Moves(m) == \E t : Carries(t) /\ TakesRec(m, Transitioned(t))
Notes(m) == \E ev : CarriesRec(ev) /\ TakesRec(m, ev)

\* A record that keeps the mission's invariant is taken, or the file is refused.
LEMMA RecordReads ==
  ASSUME image \in Log, NEW m \in Missions, NEW ev, ev.kind # "Drafted",
         Reads(Replay(image, m, ev)),
         Admits(image.mission[m], ev) => Recorded(image.mission[m], ev) \in Mission
  PROVE  Passes \/ TakesRec(m, ev)
  <1>1. image' = ReplayRecord(image, m, ev)
    BY DEF Reads, Replay
  <1>2. CASE image.session # "Closed" /\ Admits(image.mission[m], ev)
    <2>1. image' = [image EXCEPT !.mission = [image.mission EXCEPT ![m] =
                                                Recorded(image.mission[m], ev)]]
      BY <1>1, <1>2 DEF ReplayRecord
    <2>. QED
      BY <1>2, <2>1 DEF Log, Turns, TakesRec
  <1>3. CASE ~(image.session # "Closed" /\ Admits(image.mission[m], ev))
    <2>1. image' = [image EXCEPT !.refused = TRUE]
      BY <1>1, <1>3 DEF ReplayRecord, Refusal
    <2>. QED
      BY <2>1 DEF Log, Stays, Passes
  <1>. QED
    BY <1>2, <1>3

\* What reading one entry does.
LEMMA NextReads ==
  ASSUME ReplayInv, Next
  PROVE  Passes \/ \E m \in Missions : Drafts(m) \/ Moves(m) \/ Notes(m)
  <1>. USE DEF ReplayInv
  <1>1. CASE ReadOpened
    <2>. DEFINE due(ms) == IF image.session # "Closed" /\ Unfinished(ms) /\ ~ms.held
                           THEN [ms EXCEPT !.must_hold = TRUE] ELSE ms
    <2>1. image' = [image EXCEPT !.session = "Open",
                                 !.mission = [m \in Missions |-> due(image.mission[m])]]
      BY <1>1 DEF ReadOpened, Reads, ReplayOpened
    <2>2. \A m \in Missions : due(image.mission[m]) \in Mission
      <3>. TAKE m \in Missions
      <3>1. image.mission[m] \in Mission
        BY DEF Log
      <3>2. [image.mission[m] EXCEPT !.must_hold = TRUE] \in Mission
        BY <3>1 DEF Mission
      <3>. QED
        BY <3>1, <3>2
    <2>3. image' \in Log
      <3>. HIDE DEF due
      <3>. QED
        BY <2>1, <2>2 DEF Log
    <2>4. \A m \in Missions : image'.mission[m] = due(image.mission[m])
      <3>. HIDE DEF due
      <3>. QED
        BY <2>1 DEF Log
    <2>. QED
      BY <2>3, <2>4 DEF Passes, Stays
  <1>2. CASE ReadClosed
    <2>1. \/ image' = [image EXCEPT !.session = "Closed"]
          \/ image' = [image EXCEPT !.refused = TRUE]
      BY <1>2 DEF ReadClosed, Reads, ReplayClosed, Refusal
    <2>. QED
      BY <2>1 DEF Log, Stays, Passes
  <1>3. ASSUME NEW m \in Missions, ReadDrafted(m) PROVE Passes \/ Drafts(m)
    <2>1. PICK h \in Hashes : Reads(Replay(image, m, Drafted(h)))
      BY <1>3 DEF ReadDrafted
    <2>2. \/ /\ image' = [image EXCEPT !.mission = [image.mission EXCEPT ![m] =
                                                       NewMission("Draft", h)]]
             /\ NextMission(image.mission, m)
          \/ image' = [image EXCEPT !.refused = TRUE]
      BY <2>1 DEF Reads, Replay, ReplayDrafted, Refusal, Drafted, Rec, OfHash, Plain
    <2>3. NewMission("Draft", h) \in Mission
      BY NewMissionOK DEF MissionOK
    <2>4. NextMission(image.mission, m) => image.mission[m].state = "None"
      BY MissionAssumption DEF NextMission, Missions
    <2>5. CASE image' = [image EXCEPT !.refused = TRUE]
      BY <2>5 DEF Log, Stays, Passes
    <2>6. CASE image' = [image EXCEPT !.mission = [image.mission EXCEPT ![m] =
                                                     NewMission("Draft", h)]]
      <3>1. image' \in Log
        BY <2>3, <2>6 DEF Log
      <3>2. Turns(m, NewMission("Draft", h))
        BY <2>6 DEF Log, Turns
      <3>. QED
        BY <2>2, <2>4, <2>5, <3>1, <3>2 DEF Drafts
    <2>. QED
      BY <2>2, <2>5, <2>6
  <1>4. ASSUME NEW m \in Missions, ReadTransition(m) PROVE Passes \/ Moves(m)
    <2>1. PICK t \in Triggers : Reads(Replay(image, m, Transitioned(t)))
      BY <1>4 DEF ReadTransition
    <2>2. Carries(t)
      BY TriggersCarry
    <2>3. Admits(image.mission[m], Transitioned(t))
            => MissionOK(Recorded(image.mission[m], Transitioned(t)))
      BY <2>2, TransitionKeeps
    <2>4. Transitioned(t).kind # "Drafted"
      BY DEF Transitioned, Rec
    <2>5. Passes \/ TakesRec(m, Transitioned(t))
      BY <2>1, <2>3, <2>4, RecordReads DEF MissionOK
    <2>. QED
      BY <2>2, <2>5 DEF Moves
  <1>5. ASSUME NEW m \in Missions, ReadLane(m) \/ ReadEffect(m) \/ ReadOther(m)
        PROVE  Passes \/ Notes(m)
    <2>1. PICK ev \in Records : Reads(Replay(image, m, ev))
      BY <1>5 DEF ReadLane, ReadEffect, ReadOther, Records
    <2>2. CarriesRec(ev)
      BY RecordsCarry
    <2>3. Admits(image.mission[m], ev) => MissionOK(Recorded(image.mission[m], ev))
      BY <2>2, RecordKeeps
    <2>4. ev.kind # "Drafted"
      BY <2>2 DEF CarriesRec
    <2>5. Passes \/ TakesRec(m, ev)
      BY <2>1, <2>3, <2>4, RecordReads DEF MissionOK
    <2>. QED
      BY <2>2, <2>5 DEF Notes
  <1>. QED
    BY <1>1, <1>2, <1>3, <1>4, <1>5 DEF Next

\* A hold that becomes due keeps the mission's invariant.
LEMMA StaysKeeps ==
  ASSUME NEW m \in Missions, MissionOK(image.mission[m]), Stays(m)
  PROVE  MissionOK(image'.mission[m])
  <1>1. ASSUME NEW ms, MissionOK(ms), NEW a, a = [ms EXCEPT !.must_hold = TRUE]
        PROVE  MissionOK(a)
    <2>1. ms \in Mission
      BY <1>1 DEF MissionOK
    <2>2. /\ a \in Mission
          /\ a.state = ms.state /\ a.hash = ms.hash /\ a.consent = ms.consent
          /\ a.waiting = ms.waiting /\ a.next_effect = ms.next_effect
          /\ a.unsettled = ms.unsettled /\ a.dispatched_in_phase = ms.dispatched_in_phase
          /\ a.pending_lane = ms.pending_lane /\ a.awaiting_settled = ms.awaiting_settled
          /\ a.open_action = ms.open_action /\ a.held = ms.held
      BY <1>1, <2>1 DEF Mission
    <2>. QED
      BY <1>1, <2>2 DEF MissionOK, PastConsent, Consented, Quiet, Unfinished, Asked, Begun, Awaited
  <1>. QED
    BY <1>1, Zenon DEF Stays

\* Reading an entry keeps the invariant.
LEMMA StepKeeps == ReplayInv /\ [Next]_image => ReplayInv'
  <1>. SUFFICES ASSUME ReplayInv, [Next]_image PROVE ReplayInv'
    OBVIOUS
  <1>1. CASE UNCHANGED image
    BY <1>1 DEF ReplayInv
  <1>2. CASE Passes
    BY <1>2, StaysKeeps DEF ReplayInv, Passes
  <1>3. ASSUME NEW m \in Missions, Drafts(m) PROVE ReplayInv'
    BY <1>3, NewMissionOK DEF ReplayInv, Drafts, Turns
  <1>4. ASSUME NEW m \in Missions, Moves(m) PROVE ReplayInv'
    <2>1. PICK t : Carries(t) /\ TakesRec(m, Transitioned(t))
      BY <1>4 DEF Moves
    <2>2. MissionOK(Recorded(image.mission[m], Transitioned(t)))
      BY <2>1, TransitionKeeps DEF TakesRec, ReplayInv
    <2>. QED
      BY <2>1, <2>2 DEF TakesRec, Turns, ReplayInv
  <1>5. ASSUME NEW m \in Missions, Notes(m) PROVE ReplayInv'
    <2>1. PICK ev : CarriesRec(ev) /\ TakesRec(m, ev)
      BY <1>5 DEF Notes
    <2>2. MissionOK(Recorded(image.mission[m], ev))
      BY <2>1, RecordKeeps DEF TakesRec, ReplayInv
    <2>. QED
      BY <2>1, <2>2 DEF TakesRec, Turns, ReplayInv
  <1>. QED
    BY <1>1, <1>2, <1>3, <1>4, <1>5, NextReads

\* An empty file satisfies the invariant.
LEMMA InitOK == Init => ReplayInv
  <1>. SUFFICES ASSUME Init PROVE ReplayInv
    OBVIOUS
  <1>1. image = [session |-> "Never", mission |-> [m \in Missions |-> NotDrafted],
                 refused |-> FALSE]
    BY DEF Init, EmptyLog
  <1>2. NotDrafted \in Mission /\ MissionOK(NotDrafted)
    BY NewMissionOK DEF MissionOK
  <1>. QED
    BY <1>1, <1>2 DEF ReplayInv, Log

\* The invariant holds of whatever a replay has rebuilt.
THEOREM ReplayInvariant == Spec => []ReplayInv
  BY InitOK, StepKeeps, PTL DEF Spec

(***************************************************************************)
(* What JournalReplay states.                                               *)
(***************************************************************************)
\* Whatever file is replayed, missions, counters and session keep their types.
THEOREM ReplayTyped == Spec => []ReplayTypeOK
  <1>1. ReplayInv => ReplayTypeOK
    BY DEF ReplayInv, ReplayTypeOK
  <1>. QED
    BY <1>1, ReplayInvariant, PTL

\* Whatever file is replayed, a mission past its consent carries a consent to the
\* contract it has (replay: WorkWithoutConsent, ConsentOtherHash).
THEOREM ReplayConsented == Spec => []ReplayedConsent
  <1>1. ReplayInv => ReplayedConsent
    BY DEF ReplayInv, ReplayedConsent, MissionOK
  <1>. QED
    BY <1>1, ReplayInvariant, PTL

\* Whatever file is replayed, a held mission has nothing in flight (replay:
\* HoldOutOfPlace, RecordWhileHeld).
THEOREM ReplayHeldQuiet == Spec => []HeldIsQuiet
  <1>1. ReplayInv => HeldIsQuiet
    BY DEF ReplayInv, HeldIsQuiet, MissionOK
  <1>. QED
    BY <1>1, ReplayInvariant, PTL

\* Whatever file is replayed, the action open for a waiting mission is that of the
\* effect it waits on (replay: PendingOutOfPlace, WaitNotAwaiting).
THEOREM ReplayAsked == Spec => []AskedIsAwaited
  <1>1. ReplayInv => AskedIsAwaited
    BY DEF ReplayInv, AskedIsAwaited, MissionOK
  <1>. QED
    BY <1>1, ReplayInvariant, PTL

\* An entry of an ended mission changes neither its state nor its effects.
LEMMA EndedStays ==
  ASSUME NEW ms, ms.state \in Terminal, ms \in Mission, NEW ev, Admits(ms, ev),
         \/ CarriesRec(ev)
         \/ \E t : ev = Transitioned(t)
  PROVE  /\ CarriesRec(ev)
         /\ Recorded(ms, ev).state = ms.state
         /\ Recorded(ms, ev).next_effect = ms.next_effect
  <1>1. ~\E t : ev = Transitioned(t)
    <2>. SUFFICES ASSUME NEW t, ev = Transitioned(t) PROVE FALSE
      OBVIOUS
    <2>1. Legal(ms.state, t)
      BY DEF Admits, AdmitsRecord, AdmitsTransition, Transitioned, Rec
    <2>. QED
      BY <2>1 DEF Legal, Transition, Terminal, Revisable, Working, MayWait, Stoppable
  <1>2. ev.kind # "EffectDispatched"
    BY DEF Admits, AdmitsRecord, AdmitsDispatch, Working, MayWait, Terminal
  <1>. QED
    BY <1>1, <1>2 DEF CarriesRec, Recorded, Mission

\* Once a file says that a mission ended, it stays ended as it is and sends nothing
\* (replay: IllegalTransition, DispatchOutOfPlace).
THEOREM ReplayEnds == Spec => EndIsFinal
  <1>. DEFINE Final(m) == image.mission[m].state \in Terminal =>
                            /\ image'.mission[m].state = image.mission[m].state
                            /\ image'.mission[m].next_effect = image.mission[m].next_effect
  <1>1. ReplayInv /\ [Next]_image => [\A m \in Missions : Final(m)]_image
    <2>. SUFFICES ASSUME ReplayInv, Next, NEW k \in Missions, image.mission[k].state \in Terminal
                  PROVE  Final(k)
      OBVIOUS
    <2>. image.mission[k] \in Mission
      BY DEF ReplayInv, MissionOK
    <2>1. CASE Stays(k)
      BY <2>1 DEF Stays, Mission
    <2>2. CASE Passes
      BY <2>1, <2>2 DEF Passes
    <2>3. ASSUME NEW m \in Missions, m # k, NEW ms, Turns(m, ms) PROVE Final(k)
      BY <2>3 DEF Turns
    <2>4. ASSUME NEW m \in Missions, Drafts(m) PROVE Final(k)
      BY <2>3, <2>4 DEF Drafts, Terminal
    <2>5. ASSUME NEW m \in Missions, NEW ev, TakesRec(m, ev),
                 CarriesRec(ev) \/ \E t : ev = Transitioned(t)
          PROVE  Final(k)
      <3>1. CASE m # k
        BY <2>3, <2>5, <3>1 DEF TakesRec
      <3>2. CASE m = k
        BY <2>5, <3>2, EndedStays DEF TakesRec, Turns
      <3>. QED
        BY <3>1, <3>2
    <2>. QED
      BY <2>2, <2>4, <2>5, NextReads DEF Moves, Notes
  <1>. QED
    BY <1>1, ReplayInvariant, PTL DEF Spec, EndIsFinal

(***************************************************************************)
(* Refinement: an accepted file keeps the promise.                          *)
(***************************************************************************)
\* What a step may do to the promise's view of one mission.
SamePromise(a, b) ==
    /\ b.hash = a.hash /\ b.consent = a.consent /\ b.next_effect = a.next_effect
    /\ (b.open_action # NoEffect) = (a.open_action # NoEffect)
    /\ (b.state \in Terminal) = (a.state \in Terminal)

\* The view of a mission moves as one action of the promise moves it.
Writes(a, b) ==
    /\ a.next_effect = 0 /\ a.state \notin Terminal
    /\ b.hash \in Hashes /\ b.consent = NoHash
    /\ b.next_effect = a.next_effect
    /\ (b.open_action # NoEffect) = (a.open_action # NoEffect)
    /\ (b.state \in Terminal) = (a.state \in Terminal)
Agrees(a, b) ==
    /\ a.hash # NoHash /\ a.consent = NoHash /\ a.state \notin Terminal
    /\ b.hash = a.hash /\ b.consent = a.hash /\ b.next_effect = a.next_effect
    /\ (b.open_action # NoEffect) = (a.open_action # NoEffect)
    /\ (b.state \in Terminal) = (a.state \in Terminal)
Begins(a, b) ==
    /\ a.consent # NoHash /\ a.consent = a.hash
    /\ a.open_action = NoEffect /\ a.state \notin Terminal
    /\ b.hash = a.hash /\ b.consent = a.consent /\ b.next_effect = a.next_effect + 1
    /\ (b.open_action # NoEffect) = (a.open_action # NoEffect)
    /\ (b.state \in Terminal) = (a.state \in Terminal)
Asks(a, b) ==
    /\ a.next_effect > 0 /\ a.open_action = NoEffect /\ a.state \notin Terminal
    /\ b.hash = a.hash /\ b.consent = a.consent /\ b.next_effect = a.next_effect
    /\ b.open_action # NoEffect
    /\ (b.state \in Terminal) = (a.state \in Terminal)
Answered(a, b) ==
    /\ a.open_action # NoEffect
    /\ b.hash = a.hash /\ b.consent = a.consent /\ b.next_effect = a.next_effect
    /\ b.open_action = NoEffect
    /\ (b.state \in Terminal) = (a.state \in Terminal)
Ends(a, b) ==
    /\ a.hash # NoHash /\ a.state \notin Terminal
    /\ b.hash = a.hash /\ b.consent = a.consent /\ b.next_effect = a.next_effect
    /\ (b.open_action # NoEffect) = (a.open_action # NoEffect)
    /\ b.state \in Terminal

PromiseStep(a, b) ==
    \/ SamePromise(a, b) \/ Writes(a, b) \/ Agrees(a, b) \/ Begins(a, b)
    \/ Asks(a, b) \/ Answered(a, b) \/ Ends(a, b)

\* A transition is a revision, an agreement, an end, or nothing to the promise.
LEMMA TransitionPromise ==
  ASSUME NEW ms, MissionOK(ms), NEW t, Carries(t), Admits(ms, Transitioned(t))
  PROVE  PromiseStep(ms, Recorded(ms, Transitioned(t)))
  <1>. DEFINE a == Recorded(ms, Transitioned(t))
  <1>1. /\ ms \in Mission /\ t \in Trigger
        /\ AdmitsTransition(ms, t)
        /\ Legal(ms.state, t)
        /\ ms.state # "None"
    BY DEF MissionOK, Carries, Admits, AdmitsRecord, AdmitsTransition, Transitioned, Rec
  <1>2. /\ a.state = Transition(ms.state, t)
        /\ a.hash = (IF t.name = "Revise" THEN t.hash ELSE ms.hash)
        /\ a.consent = (IF t.name = "Revise" THEN NoHash
                        ELSE IF t.name = "Consent" THEN t.hash ELSE ms.consent)
        /\ a.next_effect = ms.next_effect
        /\ a.open_action = ms.open_action
    BY <1>1, RecordedFields
  <1>. HIDE DEF a
  <1>3. CASE t.name = "Revise"
    <2>1. ms.state \in Revisable /\ a.state = "Draft"
      BY <1>1, <1>2, <1>3 DEF Legal, Transition
    <2>2. Writes(ms, a)
      BY <1>2, <1>3, <2>1 DEF Writes, MissionOK, Begun, Carries, Revisable, Terminal
    <2>. QED
      BY <2>2 DEF PromiseStep, a
  <1>4. CASE t.name = "Consent"
    <2>1. ms.state = "AwaitingConsent" /\ a.state = "Approved"
      BY <1>1, <1>2, <1>4 DEF Legal, Transition
    <2>2. Agrees(ms, a)
      BY <1>1, <1>2, <1>4, <2>1
      DEF Agrees, MissionOK, Begun, AdmitsTransition, NamesContract, Terminal
    <2>. QED
      BY <2>2 DEF PromiseStep, a
  <1>5. CASE t.name \notin {"Revise", "Consent"}
    <2>1. ms.state \notin Terminal
      BY <1>1 DEF Legal, Transition, Terminal, Revisable, Working, MayWait, Stoppable
    <2>2. SamePromise(ms, a) \/ Ends(ms, a)
      BY <1>1, <1>2, <1>5, <2>1 DEF SamePromise, Ends, MissionOK, Begun
    <2>. QED
      BY <2>2 DEF PromiseStep, a
  <1>. QED
    BY <1>3, <1>4, <1>5

\* Another record begins an effect, asks, is answered, or is nothing to the promise.
LEMMA RecordPromise ==
  ASSUME NEW ms, MissionOK(ms), NEW ev, CarriesRec(ev), Admits(ms, ev)
  PROVE  PromiseStep(ms, Recorded(ms, ev))
  <1>. DEFINE a == Recorded(ms, ev)
  <1>. ms \in Mission
    BY DEF MissionOK
  <1>1. CASE ev.kind = "EffectDispatched"
    <2>1. a = [ms EXCEPT !.next_effect = ms.next_effect + 1, !.unsettled = ev.effect,
                         !.dispatched_in_phase = TRUE, !.awaiting_settled = NoEffect]
      BY <1>1 DEF Recorded, Mission
    <2>2. AdmitsDispatch(ms, ev.effect)
      BY <1>1 DEF Admits, AdmitsRecord
    <2>3. Consented(ms)
      BY <2>2 DEF AdmitsDispatch, MissionOK, PastConsent
    <2>. HIDE DEF a
    <2>4. Begins(ms, a)
      BY <2>1, <2>2, <2>3
      DEF Begins, AdmitsDispatch, Consented, Working, MayWait, Terminal, Mission
    <2>. QED
      BY <2>4 DEF PromiseStep, a
  <1>2. CASE ev.kind = "ApprovalPending"
    <2>1. a = [ms EXCEPT !.open_action = ev.effect]
      BY <1>2 DEF Recorded
    <2>2. AdmitsPending(ms, ev.effect) /\ ev.effect \in Effects /\ ev.effect # NoEffect
      BY <1>2, EffectAssumption DEF Admits, AdmitsRecord, CarriesRec, Effects, NoEffect
    <2>3. ms.next_effect > 0
      BY <2>2, EffectAssumption DEF AdmitsPending, MissionOK, Awaited, Mission, Effects
    <2>. HIDE DEF a
    <2>4. Asks(ms, a)
      BY <2>1, <2>2, <2>3 DEF Asks, AdmitsPending, MayWait, Terminal, Mission
    <2>. QED
      BY <2>4 DEF PromiseStep, a
  <1>3. CASE ev.kind = "ApprovalClosed"
    <2>1. a = [ms EXCEPT !.open_action = NoEffect]
      BY <1>3 DEF Recorded
    <2>2. ms.open_action = ev.effect /\ ev.effect # NoEffect
      BY <1>3, EffectAssumption DEF Admits, AdmitsRecord, CarriesRec, Effects, NoEffect
    <2>. HIDE DEF a
    <2>3. Answered(ms, a)
      BY <2>1, <2>2 DEF Answered, Mission
    <2>. QED
      BY <2>3 DEF PromiseStep, a
  <1>4. CASE ev.kind \notin {"EffectDispatched", "ApprovalPending", "ApprovalClosed"}
    BY <1>4 DEF CarriesRec, Recorded, Mission, SamePromise, PromiseStep
  <1>. QED
    BY <1>1, <1>2, <1>3, <1>4

\* A mission that is not the one an entry is about looks the same.
LEMMA OthersSame ==
  ASSUME NEW m \in Missions, NEW b, Turns(m, b)
  PROVE  \A k \in Missions \ {m} : SamePromise(image.mission[k], image'.mission[k])
  BY DEF Turns, SamePromise

\* A step of one mission's view is a step of the promise.
LEMMA TurnPromise ==
  ASSUME NEW m \in Missions, NEW b, Turns(m, b), PromiseStep(image.mission[m], b)
  PROVE  Promise!Next \/ UNCHANGED Promise!promise
  <1>. DEFINE a == image.mission[m]
  <1>. b = image'.mission[m]
    BY DEF Turns
  <1>0. \A k \in Missions \ {m} : SamePromise(image.mission[k], image'.mission[k])
    BY OthersSame
  <1>1. CASE SamePromise(a, b)
    <2>1. \A k \in Missions : SamePromise(image.mission[k], image'.mission[k])
      BY <1>0, <1>1
    <2>. QED
      BY <2>1 DEF SamePromise, Promise!promise
  <1>2. CASE Writes(a, b)
    <2>1. Promise!Write(m, b.hash)
      BY <1>0, <1>2 DEF Writes, SamePromise, Promise!Write
    <2>. QED
      BY <1>2, <2>1 DEF Writes, Promise!Next
  <1>3. CASE Agrees(a, b)
    <2>1. Promise!Agree(m)
      BY <1>0, <1>3 DEF Agrees, SamePromise, Promise!Agree
    <2>. QED
      BY <2>1 DEF Promise!Next
  <1>4. CASE Begins(a, b)
    <2>1. Promise!Begin(m)
      BY <1>0, <1>4 DEF Begins, SamePromise, Promise!Begin
    <2>. QED
      BY <2>1 DEF Promise!Next
  <1>5. CASE Asks(a, b)
    <2>1. Promise!Ask(m)
      BY <1>0, <1>5 DEF Asks, SamePromise, Promise!Ask
    <2>. QED
      BY <2>1 DEF Promise!Next
  <1>6. CASE Answered(a, b)
    <2>1. Promise!Answer(m)
      BY <1>0, <1>6 DEF Answered, SamePromise, Promise!Answer
    <2>. QED
      BY <2>1 DEF Promise!Next
  <1>7. CASE Ends(a, b)
    <2>1. Promise!End(m)
      BY <1>0, <1>7 DEF Ends, SamePromise, Promise!End
    <2>. QED
      BY <2>1 DEF Promise!Next
  <1>. QED
    BY <1>1, <1>2, <1>3, <1>4, <1>5, <1>6, <1>7 DEF PromiseStep

\* The history that a file tells, as far as the replay accepts it, is one that
\* OwnerPromise allows, whoever wrote the file.
THEOREM ReplayPromises == Spec => AcceptedKeepsPromise
  <1>1. Init => Promise!Init
    <2>. SUFFICES ASSUME Init PROVE Promise!Init
      OBVIOUS
    <2>1. \A m \in Missions : image.mission[m] = NotDrafted
      BY DEF Init, EmptyLog
    <2>2. /\ NotDrafted.hash = NoHash /\ NotDrafted.consent = NoHash
          /\ NotDrafted.next_effect = 0
          /\ (NotDrafted.open_action # NoEffect) = FALSE
          /\ (NotDrafted.state \in Terminal) = FALSE
      BY DEF NotDrafted, NewMission, Terminal
    <2>. QED
      BY <2>1, <2>2 DEF Promise!Init
  <1>2. ReplayInv /\ [Next]_image => [Promise!Next]_Promise!promise
    <2>. SUFFICES ASSUME ReplayInv, [Next]_image
                  PROVE  Promise!Next \/ UNCHANGED Promise!promise
      OBVIOUS
    <2>. \A m \in Missions : MissionOK(image.mission[m])
      BY DEF ReplayInv
    <2>1. CASE UNCHANGED image
      BY <2>1 DEF Promise!promise
    <2>2. CASE Passes
      <3>1. \A m \in Missions : SamePromise(image.mission[m], image'.mission[m])
        BY <2>2 DEF Passes, Stays, SamePromise, MissionOK, Mission
      <3>. QED
        BY <3>1 DEF SamePromise, Promise!promise
    <2>3. ASSUME NEW m \in Missions, Drafts(m)
          PROVE  Promise!Next \/ UNCHANGED Promise!promise
      <3>1. PICK h \in Hashes : Turns(m, NewMission("Draft", h))
        BY <2>3 DEF Drafts
      <3>2. image.mission[m].open_action = NoEffect /\ image.mission[m].next_effect = 0
        BY <2>3, EffectAssumption
        DEF Drafts, MissionOK, Mission, Begun, Awaited, Effects, NoEffect
      <3>3. Writes(image.mission[m], NewMission("Draft", h))
        BY <2>3, <3>2 DEF Drafts, Writes, NewMission, Terminal
      <3>. QED
        BY <3>1, <3>3, TurnPromise DEF PromiseStep
    <2>4. ASSUME NEW m \in Missions, Moves(m)
          PROVE  Promise!Next \/ UNCHANGED Promise!promise
      <3>1. PICK t : Carries(t) /\ TakesRec(m, Transitioned(t))
        BY <2>4 DEF Moves
      <3>. QED
        BY <3>1, TransitionPromise, TurnPromise DEF TakesRec
    <2>5. ASSUME NEW m \in Missions, Notes(m)
          PROVE  Promise!Next \/ UNCHANGED Promise!promise
      <3>1. PICK ev : CarriesRec(ev) /\ TakesRec(m, ev)
        BY <2>5 DEF Notes
      <3>. QED
        BY <3>1, RecordPromise, TurnPromise DEF TakesRec
    <2>. QED
      BY <2>1, <2>2, <2>3, <2>4, <2>5, NextReads
  <1>. QED
    BY <1>1, <1>2, ReplayInvariant, PTL DEF Spec, AcceptedKeepsPromise, Promise!Spec
=============================================================================
