--------------------------- MODULE JournalReplay ---------------------------
(***************************************************************************)
(* Coordinator::open reading a journal: any file of well-formed records,    *)
(* whoever wrote it, entry by entry through fn replay, until it ends or the *)
(* replay refuses an entry.  What holds of `image' here holds of whatever   *)
(* open rebuilds, with no assumption on the coordinator that wrote the file.*)
(* (The chain of hashes and the sequence numbers that bind the entries are  *)
(* checked before the replay and are not modelled.)                         *)
(***************************************************************************)
EXTENDS MissionLog

VARIABLE image      \* missions, next_mission and session, as replayed so far

(***************************************************************************)
(* The entries of a file.                                                   *)
(***************************************************************************)
PlainTriggers ==
    [name : {"Start", "PhaseDone", "VerifyPass", "VerifyFail", "Block", "BlockOutcomeUnknown",
             "Fail", "Stop"},
     hash : {NoHash}, effect : {NoEffect}, phase : {"None"}, rest : {0}, roles : {<< >>}]
HashTriggers ==
    [name : {"Revise", "Submit", "Consent", "Deny"},
     hash : Hashes, effect : {NoEffect}, phase : {"None"}, rest : {0}, roles : {<< >>}]
EffectTriggers ==
    [name : {"ActionDenied", "ApprovalLapsed"},
     hash : {NoHash}, effect : Effects, phase : {"None"}, rest : {0}, roles : {<< >>}]
AwaitTriggers ==
    [name : {"AwaitApproval"},
     hash : {NoHash}, effect : Effects, phase : {"None"}, rest : 0..MaxEffects, roles : RolesLeft]
ApprovedTriggers ==
    [name : {"ActionApproved"},
     hash : {NoHash}, effect : Effects, phase : MayWait, rest : {0}, roles : {<< >>}]

Triggers == PlainTriggers \cup HashTriggers \cup EffectTriggers
              \cup AwaitTriggers \cup ApprovedTriggers

LaneRecs ==
    [kind : {"LaneInvoked", "LaneReturned", "LaneOvertaken"}, trigger : {Plain("Stop")},
     role : Roles, effect : {NoEffect}, outcome : {Done}]
EffectRecs ==
    [kind : {"EffectDispatched", "ApprovalPending", "ApprovalClosed"}, trigger : {Plain("Stop")},
     role : {"None"}, effect : Effects, outcome : {Done}]
SettledRecs ==
    [kind : {"EffectSettled"}, trigger : {Plain("Stop")},
     role : {"None"}, effect : Effects, outcome : SettledOutcome]
OtherRecs ==
    [kind : {"Held", "Resumed", "ConsentRefused", "EffectRefused"}, trigger : {Plain("Stop")},
     role : {"None"}, effect : {NoEffect}, outcome : {Done}]

(***************************************************************************)
(* Reading one entry.  Nothing is read after a refusal.                     *)
(***************************************************************************)
Init == image = EmptyLog

Reads(next) == ~image.refused /\ image' = next

ReadOpened == Reads(ReplayOpened(image))
ReadClosed == Reads(ReplayClosed(image))
ReadDrafted(m) == \E h \in Hashes : Reads(Replay(image, m, Drafted(h)))
ReadTransition(m) == \E t \in Triggers : Reads(Replay(image, m, Transitioned(t)))
ReadLane(m) == \E ev \in LaneRecs : Reads(Replay(image, m, ev))
ReadEffect(m) == \E ev \in EffectRecs \cup SettledRecs : Reads(Replay(image, m, ev))
ReadOther(m) == \E ev \in OtherRecs : Reads(Replay(image, m, ev))

Next ==
    \/ ReadOpened \/ ReadClosed
    \/ \E m \in Missions : \/ ReadDrafted(m) \/ ReadTransition(m) \/ ReadLane(m)
                           \/ ReadEffect(m) \/ ReadOther(m)

Spec == Init /\ [][Next]_image

(***************************************************************************)
(* Properties.                                                              *)
(***************************************************************************)
\* Type invariant: replay rebuilds missions, counters and a session of their types.
ReplayTypeOK == image \in Log

\* A mission that a replay brings back past its consent carries a consent to the
\* contract it has, whatever the file says (replay: WorkWithoutConsent,
\* ConsentOtherHash).
ReplayedConsent == \A m \in Missions : PastConsent(image.mission[m]) => Consented(image.mission[m])

\* A mission comes back held only with no lane call, no effect and no phase in
\* flight and not ended, so that a resume repeats nothing (replay: HoldOutOfPlace,
\* RecordWhileHeld).
Quiet(ms) == /\ Unfinished(ms)
             /\ ms.pending_lane = "None"
             /\ ms.unsettled = NoEffect
             /\ ~ms.dispatched_in_phase
HeldIsQuiet == \A m \in Missions : image.mission[m].held => Quiet(image.mission[m])

\* The action that a waiting mission comes back with is that of the effect the
\* mission waits on, and no effect of it is unsettled (replay: PendingOutOfPlace,
\* WaitNotAwaiting, DispatchOutOfPlace).
Asked(ms) ==
    ms.state = "AwaitingApproval" =>
        /\ ms.waiting.effect # NoEffect /\ ms.waiting.effect < ms.next_effect
        /\ ms.unsettled = NoEffect
        /\ ms.open_action # NoEffect => ms.open_action = ms.waiting.effect
AskedIsAwaited == \A m \in Missions : Asked(image.mission[m])

\* Once a file says that a mission ended, nothing after it in the file makes it end
\* otherwise, or send an effect (replay: IllegalTransition, DispatchOutOfPlace).
EndIsFinal ==
    [][\A m \in Missions : image.mission[m].state \in Terminal =>
          /\ image'.mission[m].state = image.mission[m].state
          /\ image'.mission[m].next_effect = image.mission[m].next_effect]_image

Promise == INSTANCE OwnerPromise WITH
    contract <- [m \in Missions |-> image.mission[m].hash],
    agreed <- [m \in Missions |-> image.mission[m].consent],
    begun <- [m \in Missions |-> image.mission[m].next_effect],
    asked <- [m \in Missions |-> image.mission[m].open_action # NoEffect],
    over <- [m \in Missions |-> image.mission[m].state \in Terminal]

\* The history that a file tells, as far as the replay accepts it, is one that
\* OwnerPromise allows, whoever wrote the file.
AcceptedKeepsPromise == Promise!Spec
=============================================================================
