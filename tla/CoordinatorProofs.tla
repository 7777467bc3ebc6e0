------------------------- MODULE CoordinatorProofs -------------------------
(***************************************************************************)
(* What the coordinator keeps to, for every number of missions, calls,       *)
(* effects and faults: no mission is past its consent without the Owner's   *)
(* yes to its exact contract, in memory and in the journal; the journal     *)
(* moves only as OwnerPromise allows; as long as the replay accepts the     *)
(* journal, memory is what the journal would rebuild, an end that a call    *)
(* reported is in it, and it names every action that the Owner can still    *)
(* approve; and nothing starts behind the fence of a failed journal.  They  *)
(* rest on no assumption on the order of the calls in flight, and those on  *)
(* consent, the promise and the fence hold where JournalAccepted does not:  *)
(* a record that the replay refuses changes no mission of its image.        *)
(***************************************************************************)
EXTENDS Coordinator, TLAPS

(***************************************************************************)
(* PART ONE.  What the replay's operators (MissionLog) do to a mission and  *)
(* to a whole journal, whatever the types of the data that the records      *)
(* carry: every record the replay admits keeps the mission sound, and shows *)
(* the Owner one step of OwnerPromise or none.                              *)
(***************************************************************************)
MissionFields ==
    {"state", "hash", "consent", "waiting", "next_effect", "unsettled", "dispatched_in_phase",
     "pending_lane", "awaiting_settled", "open_action", "held", "held_journaled", "must_hold"}

\* A mission's record, of whatever its fields hold.
IsMission(ms) == ms = [f \in MissionFields |-> ms[f]]

\* Nothing begins before the last revision, nor is a contract agreed to early.
Begun(ms) ==
    /\ ms.state \in Revisable \cup {"None"} => ms.next_effect = 0
    /\ ms.state \in {"None", "Draft", "AwaitingConsent"} => ms.consent = NoHash
    /\ ms.state # "None" => ms.hash # NoHash

\* The effect whose settlement awaits approval, and the action opened for it.
Awaited(ms) ==
    /\ ms.awaiting_settled # NoEffect =>
          /\ ms.awaiting_settled < ms.next_effect
          /\ ms.unsettled = NoEffect
          /\ ms.open_action # NoEffect => ms.open_action = ms.awaiting_settled
    /\ ms.open_action # NoEffect =>
          /\ ms.open_action < ms.next_effect
          /\ ms.unsettled = NoEffect
    /\ ms.unsettled # NoEffect => ms.unsettled < ms.next_effect

Numbered(ms) ==
    /\ ms.next_effect \in Nat
    /\ ms.unsettled \in Nat \cup {NoEffect}
    /\ ms.awaiting_settled \in Nat \cup {NoEffect}
    /\ ms.open_action \in Nat \cup {NoEffect}

Sound(ms) ==
    /\ IsMission(ms)
    /\ Numbered(ms)
    /\ PastConsent(ms) => Consented(ms)
    /\ Begun(ms)
    /\ Awaited(ms)

\* What a transition leaves of a mission, field by field (Mission::apply).
LEMMA AppliedFields ==
  ASSUME NEW ms, IsMission(ms), NEW t
  PROVE  LET a == Apply(ms, t)
         IN  /\ IsMission(a)
             /\ a.state = Transition(ms.state, t)
             /\ a.hash = (IF t.name = "Revise" THEN t.hash ELSE ms.hash)
             /\ a.consent = (IF t.name = "Revise" THEN NoHash ELSE ms.consent)
             /\ a.next_effect = ms.next_effect
             /\ a.unsettled = ms.unsettled
             /\ a.pending_lane = ms.pending_lane
             /\ a.awaiting_settled = NoEffect
             /\ a.open_action = ms.open_action
  <1>. DEFINE to == Transition(ms.state, t)
              live == to \notin Terminal
              wait == CASE t.name = "AwaitApproval" ->
                             [phase |-> ms.state, effect |-> t.effect, rest |-> t.rest,
                              roles |-> t.roles]
                        [] t.name = "ActionApproved" \/ ~live -> NoWait
                        [] OTHER -> ms.waiting
              hash == IF t.name = "Revise" THEN t.hash ELSE ms.hash
              consent == IF t.name = "Revise" THEN NoHash ELSE ms.consent
              went_on == t.name = "ActionApproved"
              held == ms.held /\ live
              heldJournaled == ms.held_journaled /\ live
              mustHold == ms.must_hold /\ live
  <1>1. Apply(ms, t) =
          [ms EXCEPT !.state = to, !.hash = hash, !.consent = consent, !.waiting = wait,
                     !.dispatched_in_phase = went_on, !.awaiting_settled = NoEffect,
                     !.held = held, !.held_journaled = heldJournaled, !.must_hold = mustHold]
    BY Zenon DEF Apply
  <1>. HIDE DEF to, live, wait, hash, consent, went_on, held, heldJournaled, mustHold
  <1>2. LET a == Apply(ms, t)
        IN  /\ IsMission(a) /\ a.state = to /\ a.hash = hash /\ a.consent = consent
            /\ a.next_effect = ms.next_effect /\ a.unsettled = ms.unsettled
            /\ a.pending_lane = ms.pending_lane /\ a.awaiting_settled = NoEffect
            /\ a.open_action = ms.open_action
    BY <1>1 DEF IsMission, MissionFields
  <1>. QED
    BY <1>2 DEF to, hash, consent

(***************************************************************************)
(* The view that OwnerPromise has of a mission, and how it may move.        *)
(***************************************************************************)
\* What a step may do to the promise's view of one mission.
SamePromise(a, b) ==
    /\ b.hash = a.hash /\ b.consent = a.consent /\ b.next_effect = a.next_effect
    /\ (b.open_action # NoEffect) = (a.open_action # NoEffect)
    /\ (b.state \in Terminal) = (a.state \in Terminal)

\* The view of a mission moves as one action of the promise moves it.
Writes(a, b) ==
    /\ a.next_effect = 0 /\ a.state \notin Terminal
    /\ b.hash \in Hashes /\ b.consent = NoHash
    /\ b.next_effect = a.next_effect
    /\ (b.open_action # NoEffect) = (a.open_action # NoEffect)
    /\ (b.state \in Terminal) = (a.state \in Terminal)
Agrees(a, b) ==
    /\ a.hash # NoHash /\ a.consent = NoHash /\ a.state \notin Terminal
    /\ b.hash = a.hash /\ b.consent = a.hash /\ b.next_effect = a.next_effect
    /\ (b.open_action # NoEffect) = (a.open_action # NoEffect)
    /\ (b.state \in Terminal) = (a.state \in Terminal)
Begins(a, b) ==
    /\ a.consent # NoHash /\ a.consent = a.hash
    /\ a.open_action = NoEffect /\ a.state \notin Terminal
    /\ b.hash = a.hash /\ b.consent = a.consent /\ b.next_effect = a.next_effect + 1
    /\ (b.open_action # NoEffect) = (a.open_action # NoEffect)
    /\ (b.state \in Terminal) = (a.state \in Terminal)
Asks(a, b) ==
    /\ a.next_effect > 0 /\ a.open_action = NoEffect /\ a.state \notin Terminal
    /\ b.hash = a.hash /\ b.consent = a.consent /\ b.next_effect = a.next_effect
    /\ b.open_action # NoEffect
    /\ (b.state \in Terminal) = (a.state \in Terminal)
Answered(a, b) ==
    /\ a.open_action # NoEffect
    /\ b.hash = a.hash /\ b.consent = a.consent /\ b.next_effect = a.next_effect
    /\ b.open_action = NoEffect
    /\ (b.state \in Terminal) = (a.state \in Terminal)
Ends(a, b) ==
    /\ a.hash # NoHash /\ a.state \notin Terminal
    /\ b.hash = a.hash /\ b.consent = a.consent /\ b.next_effect = a.next_effect
    /\ (b.open_action # NoEffect) = (a.open_action # NoEffect)
    /\ b.state \in Terminal

PromiseStep(a, b) ==
    \/ SamePromise(a, b) \/ Writes(a, b) \/ Agrees(a, b) \/ Begins(a, b)
    \/ Asks(a, b) \/ Answered(a, b) \/ Ends(a, b)


\* A transition that the replay admits keeps the mission sound, and is a revision,
\* an agreement, an end, or nothing to the promise.
LEMMA TransitionSound ==
  ASSUME NEW ms, Sound(ms), NEW t, t.name = "Revise" => t.hash \in Hashes,
         Admits(ms, Transitioned(t))
  PROVE  LET a == Recorded(ms, Transitioned(t))
         IN  /\ Sound(a) /\ PromiseStep(ms, a)
             /\ a.consent \in {ms.consent, NoHash} \/ (t.name = "Consent" /\ a.consent = t.hash)
  <1>. DEFINE b == Apply(ms, t)
              a == Recorded(ms, Transitioned(t))
              to == Transition(ms.state, t)
  <1>1. AdmitsTransition(ms, t) /\ Legal(ms.state, t) /\ ms.state # "None"
    BY DEF Admits, AdmitsRecord, AdmitsTransition, Transitioned, Rec
  <1>2. a = IF t.name = "Consent" THEN [b EXCEPT !.consent = t.hash] ELSE b
    BY DEF Recorded, Transitioned, Rec
  <1>3. /\ IsMission(b) /\ b.state = to
        /\ b.hash = (IF t.name = "Revise" THEN t.hash ELSE ms.hash)
        /\ b.consent = (IF t.name = "Revise" THEN NoHash ELSE ms.consent)
        /\ b.next_effect = ms.next_effect /\ b.unsettled = ms.unsettled
        /\ b.awaiting_settled = NoEffect /\ b.open_action = ms.open_action
    BY AppliedFields DEF Sound
  <1>. HIDE DEF a, b
  <1>4. /\ IsMission(a) /\ a.state = to
        /\ a.hash = (IF t.name = "Revise" THEN t.hash ELSE ms.hash)
        /\ a.consent = (IF t.name = "Revise" THEN NoHash
                        ELSE IF t.name = "Consent" THEN t.hash ELSE ms.consent)
        /\ a.next_effect = ms.next_effect /\ a.unsettled = ms.unsettled
        /\ a.awaiting_settled = NoEffect /\ a.open_action = ms.open_action
    BY <1>2, <1>3 DEF IsMission, MissionFields
  <1>. HIDE DEF to
  <1>5. PastConsent(a) => Consented(a)
    <2>. USE HashAssumption DEF PastConsent, Consented
    <2>1. CASE t.name = "Consent"
      <3>1. t.hash = ms.hash /\ ms.hash # NoHash
        BY <1>1, <2>1 DEF AdmitsTransition, NamesContract, Sound, Begun
      <3>. QED
        BY <1>4, <2>1, <3>1
    <2>2. CASE t.name = "Revise"
      BY <1>1, <1>4, <2>2 DEF Legal, Transition, Working, MayWait, to
    <2>3. CASE t.name \notin {"Consent", "Revise"}
      <3>1. PastConsent(a) => PastConsent(ms) \/ t.name = "Start"
        BY <1>1, <1>4, <2>3 DEF Legal, Transition, Working, MayWait, Terminal, to
      <3>. QED
        BY <1>1, <1>4, <2>3, <3>1 DEF Sound, AdmitsTransition
    <2>. QED
      BY <2>1, <2>2, <2>3
  <1>6. Begun(a)
    <2>1. a.state \in Revisable \cup {"None"} => ms.state \in Revisable
      BY <1>1, <1>4 DEF Legal, Transition, Revisable, Terminal, MayWait, to
    <2>2. a.state \in {"None", "Draft", "AwaitingConsent"} => a.consent = NoHash
      <3>1. a.state \in {"None", "Draft", "AwaitingConsent"} =>
              \/ t.name = "Revise"
              \/ t.name # "Consent" /\ ms.state = "Draft"
        BY <1>1, <1>4 DEF Legal, Transition, Terminal, MayWait, to
      <3>. QED
        BY <1>4, <3>1 DEF Sound, Begun
    <2>3. a.hash # NoHash
      BY <1>1, <1>4, HashAssumption DEF Sound, Begun
    <2>. QED
      BY <1>4, <2>1, <2>2, <2>3 DEF Sound, Begun
  <1>7. Numbered(a) /\ Awaited(a)
    BY <1>4 DEF Sound, Numbered, Awaited
  <1>8. PromiseStep(ms, a)
    <2>1. CASE t.name = "Revise"
      <3>1. ms.state \in Revisable /\ a.state = "Draft"
        BY <1>1, <1>4, <2>1 DEF Legal, Transition, to
      <3>2. Writes(ms, a)
        BY <1>4, <2>1, <3>1 DEF Writes, Sound, Begun, Revisable, Terminal
      <3>. QED
        BY <3>2 DEF PromiseStep
    <2>2. CASE t.name = "Consent"
      <3>1. ms.state = "AwaitingConsent" /\ a.state = "Approved"
        BY <1>1, <1>4, <2>2 DEF Legal, Transition, to
      <3>2. Agrees(ms, a)
        BY <1>1, <1>4, <2>2, <3>1
        DEF Agrees, Sound, Begun, AdmitsTransition, NamesContract, Terminal
      <3>. QED
        BY <3>2 DEF PromiseStep
    <2>3. CASE t.name \notin {"Revise", "Consent"}
      <3>1. ms.state \notin Terminal
        BY <1>1 DEF Legal, Transition, Terminal, Revisable, Working, MayWait, Stoppable
      <3>2. SamePromise(ms, a) \/ Ends(ms, a)
        BY <1>1, <1>4, <2>3, <3>1 DEF SamePromise, Ends, Sound, Begun
      <3>. QED
        BY <3>2 DEF PromiseStep
    <2>. QED
      BY <2>1, <2>2, <2>3
  <1>9. Sound(a)
    BY <1>4, <1>5, <1>6, <1>7 DEF Sound
  <1>. QED
    BY <1>4, <1>8, <1>9 DEF a

\* Another record that the replay admits keeps the mission sound, and begins an
\* effect, asks, is answered, or is nothing to the promise.
LEMMA RecordSound ==
  ASSUME NEW ms, Sound(ms), NEW ev, ev.kind # "Transition", Admits(ms, ev)
  PROVE  LET a == Recorded(ms, ev)
         IN  Sound(a) /\ PromiseStep(ms, a) /\ a.consent = ms.consent
  <1>. DEFINE a == Recorded(ms, ev)
  <1>0. IsMission(ms)
    BY DEF Sound
  <1>. USE DEF MissionFields
  <1>1. CASE ev.kind \in {"LaneInvoked", "LaneReturned", "LaneOvertaken"}
    <2>1. \/ a = [ms EXCEPT !.pending_lane = ev.role, !.awaiting_settled = NoEffect]
          \/ a = [ms EXCEPT !.pending_lane = "None"]
      BY <1>1 DEF Recorded
    <2>. HIDE DEF a
    <2>2. /\ IsMission(a) /\ a.state = ms.state /\ a.hash = ms.hash /\ a.consent = ms.consent
          /\ a.next_effect = ms.next_effect /\ a.unsettled = ms.unsettled
          /\ a.open_action = ms.open_action
          /\ a.awaiting_settled \in {ms.awaiting_settled, NoEffect}
      BY <1>0, <2>1 DEF IsMission
    <2>3. Sound(a) /\ SamePromise(ms, a)
      BY <2>2 DEF Sound, SamePromise, PastConsent, Consented, Begun, Awaited, Numbered
    <2>. QED
      BY <2>2, <2>3 DEF PromiseStep, a
  <1>2. CASE ev.kind = "EffectDispatched"
    <2>1. a = [ms EXCEPT !.next_effect = ms.next_effect + 1, !.unsettled = ev.effect,
                         !.dispatched_in_phase = TRUE, !.awaiting_settled = NoEffect]
      BY <1>0, <1>2 DEF Recorded, IsMission
    <2>2. AdmitsDispatch(ms, ev.effect)
      BY <1>2 DEF Admits, AdmitsRecord
    <2>. HIDE DEF a
    <2>3. /\ IsMission(a) /\ a.state = ms.state /\ a.hash = ms.hash /\ a.consent = ms.consent
          /\ a.next_effect = ms.next_effect + 1 /\ a.unsettled = ms.next_effect
          /\ a.open_action = NoEffect /\ a.awaiting_settled = NoEffect
      BY <1>0, <2>1, <2>2 DEF IsMission, AdmitsDispatch
    <2>4. ms.state \in Working /\ ms.open_action = NoEffect /\ Consented(ms)
      BY <2>2 DEF AdmitsDispatch, Sound, PastConsent
    <2>5. Numbered(a) /\ Awaited(a)
      BY <2>3 DEF Sound, Numbered, Awaited, NoEffect
    <2>6. Begun(a) /\ (PastConsent(a) => Consented(a))
      BY <2>3, <2>4 DEF Sound, Begun, Working, MayWait, Revisable, Consented
    <2>7. Begins(ms, a)
      BY <2>3, <2>4 DEF Begins, Consented, Working, MayWait, Terminal
    <2>. QED
      BY <2>3, <2>5, <2>6, <2>7 DEF Sound, PromiseStep, a
  <1>3. CASE ev.kind = "EffectSettled"
    <2>. DEFINE w == IF ev.outcome = Awaiting THEN ev.effect ELSE ms.awaiting_settled
    <2>1. a = [ms EXCEPT !.unsettled = NoEffect, !.awaiting_settled = w]
      BY <1>0, <1>3 DEF Recorded, IsMission
    <2>2. ms.unsettled = ev.effect
      BY <1>3 DEF Admits, AdmitsRecord
    <2>3. w \in {ms.unsettled, ms.awaiting_settled}
      BY <2>2
    <2>. HIDE DEF a, w
    <2>4. /\ IsMission(a) /\ a.state = ms.state /\ a.hash = ms.hash /\ a.consent = ms.consent
          /\ a.next_effect = ms.next_effect /\ a.unsettled = NoEffect
          /\ a.open_action = ms.open_action
          /\ a.awaiting_settled \in {ms.unsettled, ms.awaiting_settled}
      BY <1>0, <2>1, <2>3 DEF IsMission
    <2>5. Sound(a) /\ SamePromise(ms, a)
      BY <2>4 DEF Sound, SamePromise, PastConsent, Consented, Begun, Awaited, Numbered
    <2>. QED
      BY <2>4, <2>5 DEF PromiseStep, a
  <1>4. CASE ev.kind = "ApprovalPending"
    <2>1. a = [ms EXCEPT !.open_action = ev.effect]
      BY <1>4 DEF Recorded
    <2>2. AdmitsPending(ms, ev.effect)
      BY <1>4 DEF Admits, AdmitsRecord
    <2>. HIDE DEF a
    <2>3. /\ IsMission(a) /\ a.state = ms.state /\ a.hash = ms.hash /\ a.consent = ms.consent
          /\ a.next_effect = ms.next_effect /\ a.unsettled = ms.unsettled
          /\ a.open_action = ms.awaiting_settled /\ a.awaiting_settled = ms.awaiting_settled
          /\ ms.open_action = NoEffect /\ ms.state \in MayWait
      BY <1>0, <2>1, <2>2 DEF IsMission, AdmitsPending
    <2>4. Sound(a)
      BY <2>3 DEF Sound, PastConsent, Consented, Begun, Awaited, Numbered
    <2>5. SamePromise(ms, a) \/ Asks(ms, a)
      BY <2>3 DEF SamePromise, Asks, MayWait, Terminal, Sound, Numbered, Awaited
    <2>. QED
      BY <2>3, <2>4, <2>5 DEF PromiseStep, a
  <1>5. CASE ev.kind = "ApprovalClosed"
    <2>1. a = [ms EXCEPT !.open_action = NoEffect]
      BY <1>5 DEF Recorded
    <2>. HIDE DEF a
    <2>2. /\ IsMission(a) /\ a.state = ms.state /\ a.hash = ms.hash /\ a.consent = ms.consent
          /\ a.next_effect = ms.next_effect /\ a.unsettled = ms.unsettled
          /\ a.open_action = NoEffect /\ a.awaiting_settled = ms.awaiting_settled
      BY <1>0, <2>1 DEF IsMission
    <2>3. Sound(a)
      BY <2>2 DEF Sound, PastConsent, Consented, Begun, Awaited, Numbered
    <2>4. SamePromise(ms, a) \/ Answered(ms, a)
      BY <2>2 DEF SamePromise, Answered
    <2>. QED
      BY <2>2, <2>3, <2>4 DEF PromiseStep, a
  <1>6. CASE ev.kind \notin {"LaneInvoked", "LaneReturned", "LaneOvertaken", "EffectDispatched",
                             "EffectSettled", "ApprovalPending", "ApprovalClosed"}
    <2>1. \/ a = [ms EXCEPT !.held = TRUE, !.held_journaled = TRUE, !.must_hold = FALSE]
          \/ a = [ms EXCEPT !.held = FALSE, !.held_journaled = FALSE]
          \/ a = ms
      BY <1>6 DEF Recorded
    <2>. HIDE DEF a
    <2>2. /\ IsMission(a) /\ a.state = ms.state /\ a.hash = ms.hash /\ a.consent = ms.consent
          /\ a.next_effect = ms.next_effect /\ a.unsettled = ms.unsettled
          /\ a.open_action = ms.open_action /\ a.awaiting_settled = ms.awaiting_settled
      BY <1>0, <2>1 DEF IsMission
    <2>3. Sound(a) /\ SamePromise(ms, a)
      BY <2>2 DEF Sound, SamePromise, PastConsent, Consented, Begun, Awaited, Numbered
    <2>. QED
      BY <2>2, <2>3 DEF PromiseStep, a
  <1>. QED
    BY <1>1, <1>2, <1>3, <1>4, <1>5, <1>6

(***************************************************************************)
(* A whole journal.                                                         *)
(***************************************************************************)
\* A journal's image, of whatever its session and its refusal hold.
IsLog(j) ==
    /\ j = [f \in {"session", "mission", "refused"} |-> j[f]]
    /\ j.mission = [m \in Missions |-> j.mission[m]]

LogSound(j) == IsLog(j) /\ \A m \in Missions : Sound(j.mission[m])

\* The promise sees no change from j to k, or a step of one mission.
SameView(j, k) == \A m \in Missions : SamePromise(j.mission[m], k.mission[m])
OneStep(j, k) ==
    \/ SameView(j, k)
    \/ \E m \in Missions :
          /\ PromiseStep(j.mission[m], k.mission[m])
          /\ \A n \in Missions \ {m} : SamePromise(j.mission[n], k.mission[n])

\* Consents of k are those of j, or one of Y given to mission m.
ConsentsFrom(j, k, m, Y) ==
    \A n \in Missions : \/ k.mission[n].consent \in {j.mission[n].consent, NoHash}
                        \/ n = m /\ k.mission[n].consent \in Y

\* A record carries a contract's hash where it writes one, and a consent of Y.
EventOK(ev, Y) ==
    \/ \E h \in Hashes : ev = Drafted(h)
    \/ \E t : /\ ev = Transitioned(t)
              /\ t.name = "Revise" => t.hash \in Hashes
              /\ t.name = "Consent" => t.hash \in Y
    \/ ev.kind \notin {"Drafted", "Transition"}

\* Missions none of which moves, but for what the promise does not see.
LEMMA StillSound ==
  ASSUME NEW ms, Sound(ms), NEW a, IsMission(a), a.state = ms.state, a.hash = ms.hash,
         a.consent = ms.consent, a.next_effect = ms.next_effect, a.unsettled = ms.unsettled,
         a.open_action = ms.open_action, a.awaiting_settled = ms.awaiting_settled
  PROVE  Sound(a) /\ SamePromise(ms, a)
  BY DEF Sound, SamePromise, PastConsent, Consented, Begun, Awaited, Numbered

\* The opening of a session, and the holds, change what the promise does not see.
LEMMA OpenedSame ==
  ASSUME NEW j, LogSound(j), NEW k, k = ReplayOpened(j)
  PROVE  /\ LogSound(k) /\ SameView(j, k)
         /\ \A m \in Missions : k.mission[m].consent = j.mission[m].consent
  <1>. DEFINE due(ms) == IF j.session # "Closed" /\ Unfinished(ms) /\ ~ms.held
                         THEN [ms EXCEPT !.must_hold = TRUE] ELSE ms
              f == [m \in Missions |-> due(j.mission[m])]
  <1>1. k = [j EXCEPT !.session = "Open", !.mission = f]
    BY DEF ReplayOpened
  <1>. HIDE DEF f
  <1>2. k = [i \in {"session", "mission", "refused"} |-> k[i]] /\ k.mission = f
    BY <1>1 DEF LogSound, IsLog
  <1>3. \A m \in Missions : f[m] = due(j.mission[m])
    BY DEF f
  <1>4. ASSUME NEW m \in Missions
        PROVE  Sound(f[m]) /\ SamePromise(j.mission[m], f[m]) /\ f[m].consent = j.mission[m].consent
    <2>. DEFINE ms == j.mission[m]
                a == f[m]
    <2>1. Sound(ms) /\ IsMission(ms) /\ (a = ms \/ a = [ms EXCEPT !.must_hold = TRUE])
      BY <1>3 DEF LogSound, Sound
    <2>. HIDE DEF ms, a
    <2>2. IsMission(a) /\ a.state = ms.state /\ a.hash = ms.hash
          /\ a.consent = ms.consent /\ a.next_effect = ms.next_effect /\ a.unsettled = ms.unsettled
          /\ a.open_action = ms.open_action /\ a.awaiting_settled = ms.awaiting_settled
      BY <2>1 DEF IsMission, MissionFields
    <2>. QED
      BY <2>1, <2>2, StillSound DEF ms, a
  <1>5. f = [m \in Missions |-> f[m]]
    BY DEF f
  <1>. QED
    BY <1>2, <1>4, <1>5 DEF LogSound, IsLog, SameView

LEMMA HoldsSame ==
  ASSUME NEW j, LogSound(j), NEW S, NEW k, k = ReplayHolds(j, S)
  PROVE  /\ LogSound(k) /\ SameView(j, k)
         /\ \A m \in Missions : k.mission[m].consent = j.mission[m].consent
  <1>. DEFINE f == [m \in Missions |-> IF m \in S THEN Recorded(j.mission[m], Rec("Held"))
                                       ELSE j.mission[m]]
              r == j.refused \/ (S # {} /\ j.session = "Closed")
                     \/ \E m \in S : ~Admits(j.mission[m], Rec("Held"))
  <1>1. k = [j EXCEPT !.refused = r, !.mission = f]
    BY DEF ReplayHolds
  <1>. HIDE DEF f, r
  <1>2. k = [i \in {"session", "mission", "refused"} |-> k[i]] /\ k.mission = f
    BY <1>1 DEF LogSound, IsLog
  <1>4. ASSUME NEW m \in Missions
        PROVE  Sound(f[m]) /\ SamePromise(j.mission[m], f[m]) /\ f[m].consent = j.mission[m].consent
    <2>. DEFINE ms == j.mission[m]
                a == f[m]
    <2>0. Recorded(ms, Rec("Held"))
            = [ms EXCEPT !.held = TRUE, !.held_journaled = TRUE, !.must_hold = FALSE]
      BY DEF Recorded, Rec
    <2>1. Sound(ms) /\ IsMission(ms)
          /\ (a = ms \/ a = [ms EXCEPT !.held = TRUE, !.held_journaled = TRUE, !.must_hold = FALSE])
      BY <2>0 DEF LogSound, Sound, f
    <2>. HIDE DEF ms, a
    <2>2. IsMission(a) /\ a.state = ms.state /\ a.hash = ms.hash
          /\ a.consent = ms.consent /\ a.next_effect = ms.next_effect /\ a.unsettled = ms.unsettled
          /\ a.open_action = ms.open_action /\ a.awaiting_settled = ms.awaiting_settled
      BY <2>1 DEF IsMission, MissionFields
    <2>. QED
      BY <2>1, <2>2, StillSound DEF ms, a
  <1>5. f = [m \in Missions |-> f[m]]
    BY DEF f
  <1>. QED
    BY <1>2, <1>4, <1>5 DEF LogSound, IsLog, SameView

\* A refusal, and the end of a session, change no mission.
LEMMA ClosedSame ==
  ASSUME NEW j, LogSound(j), NEW k, k = ReplayClosed(j) \/ k = Refusal(j)
  PROVE  LogSound(k) /\ k.mission = j.mission
  <1>1. k = [j EXCEPT !.session = "Closed"] \/ k = [j EXCEPT !.refused = TRUE]
    BY DEF ReplayClosed, Refusal
  <1>. QED
    BY <1>1 DEF LogSound, IsLog

\* A journal of the same missions looks the same.
LEMMA EqualSame ==
  ASSUME NEW j, NEW k, k.mission = j.mission
  PROVE  SameView(j, k)
  BY DEF SameView, SamePromise

\* Only mission m changes, to ms.
WithMission(j, m, ms) == [j EXCEPT !.mission[m] = ms]

LEMMA MissionBecomes ==
  ASSUME NEW j, LogSound(j), NEW m \in Missions, NEW ms, Sound(ms),
         NEW k, k = WithMission(j, m, ms)
  PROVE  /\ LogSound(k) /\ k.mission[m] = ms
         /\ \A n \in Missions \ {m} : /\ k.mission[n] = j.mission[n]
                                      /\ SamePromise(j.mission[n], k.mission[n])
  <1>. DEFINE f == [j.mission EXCEPT ![m] = ms]
  <1>1. k = [j EXCEPT !.mission = f]
    BY DEF WithMission
  <1>2. f = [n \in Missions |-> f[n]] /\ f[m] = ms /\ \A n \in Missions \ {m} : f[n] = j.mission[n]
    BY DEF LogSound, IsLog
  <1>. HIDE DEF f
  <1>3. k = [i \in {"session", "mission", "refused"} |-> k[i]] /\ k.mission = f
    BY <1>1 DEF LogSound, IsLog
  <1>. QED
    BY <1>2, <1>3 DEF LogSound, IsLog, SamePromise

LEMMA MissionSteps ==
  ASSUME NEW j, LogSound(j), NEW m \in Missions, NEW a, Sound(a), PromiseStep(j.mission[m], a),
         NEW Y, a.consent \in {j.mission[m].consent, NoHash} \cup Y
  PROVE  LET k == WithMission(j, m, a)
         IN  LogSound(k) /\ OneStep(j, k) /\ ConsentsFrom(j, k, m, Y)
  <1>. DEFINE k == WithMission(j, m, a)
  <1>1. /\ LogSound(k) /\ k.mission[m] = a
        /\ \A n \in Missions \ {m} : /\ k.mission[n] = j.mission[n]
                                     /\ SamePromise(j.mission[n], k.mission[n])
    BY MissionBecomes
  <1>. HIDE DEF k
  <1>2. LogSound(k) /\ OneStep(j, k) /\ ConsentsFrom(j, k, m, Y)
    BY <1>1 DEF OneStep, ConsentsFrom
  <1>. QED
    BY <1>2 DEF k

\* A mission as drafted, and one never drafted, are sound.
LEMMA NewSound ==
  /\ Sound(NotDrafted)
  /\ \A h \in Hashes : Sound(NewMission("Draft", h))
  <1>. USE HashAssumption
       DEF NewMission, Sound, IsMission, MissionFields, Revisable, Working, MayWait, Terminal,
           PastConsent, Consented, Begun, Awaited, Numbered, NoEffect
  <1>1. Sound(NotDrafted)
    BY DEF NotDrafted
  <1>2. \A h \in Hashes : Sound(NewMission("Draft", h))
    OBVIOUS
  <1>. QED
    BY <1>1, <1>2

\* One record of a mission.
LEMMA ReplaySteps ==
  ASSUME NEW j, LogSound(j), NEW m, NEW ev, NEW Y, EventOK(ev, Y), NEW k, k = Replay(j, m, ev)
  PROVE  LogSound(k) /\ OneStep(j, k) /\ ConsentsFrom(j, k, m, Y)
  <1>1. CASE k = Refusal(j)
    <2>1. LogSound(k) /\ k.mission = j.mission
      BY <1>1, ClosedSame
    <2>. QED
      BY <2>1, EqualSame DEF OneStep, ConsentsFrom
  <1>2. CASE m \notin Missions
    <2>1. k = Refusal(j) \/ \E ms : k = [j EXCEPT !.mission[m] = ms]
      BY DEF Replay, ReplayDrafted, ReplayRecord
    <2>2. ASSUME NEW ms, k = [j EXCEPT !.mission[m] = ms] PROVE k = j
      BY <1>2, <2>2 DEF LogSound, IsLog
    <2>3. k = Refusal(j) \/ k = j
      BY <2>1, <2>2
    <2>4. LogSound(k) /\ k.mission = j.mission
      BY <2>3, ClosedSame
    <2>. QED
      BY <2>4, EqualSame DEF OneStep, ConsentsFrom
  <1>3. CASE m \in Missions /\ k # Refusal(j)
    <2>. DEFINE ms == j.mission[m]
    <2>0. Sound(ms)
      BY <1>3 DEF LogSound
    <2>. HIDE DEF ms
    <2>1. ASSUME NEW a, Sound(a), PromiseStep(ms, a), k = [j EXCEPT !.mission[m] = a],
                 a.consent \in {ms.consent, NoHash} \cup Y
          PROVE  LogSound(k) /\ OneStep(j, k) /\ ConsentsFrom(j, k, m, Y)
      BY <1>3, <2>1, MissionSteps DEF ms, WithMission
    <2>2. CASE \E h \in Hashes : ev = Drafted(h)
      <3>1. PICK h \in Hashes : ev = Drafted(h)
        BY <2>2
      <3>2. k = [j EXCEPT !.mission[m] = NewMission("Draft", h)] /\ NextMission(j.mission, m)
        BY <1>3, <3>1 DEF Replay, ReplayDrafted, Drafted, Rec, OfHash, Plain
      <3>3. ms.state = "None"
        BY <1>3, <3>2, MissionAssumption DEF NextMission, Missions, ms
      <3>4. Writes(ms, NewMission("Draft", h)) /\ NewMission("Draft", h).consent = NoHash
        BY <2>0, <3>3 DEF Writes, NewMission, Terminal, Sound, Begun, Awaited, Numbered, NoEffect
      <3>. QED
        BY <2>1, <3>2, <3>4, NewSound DEF PromiseStep
    <2>3. CASE \E t : /\ ev = Transitioned(t)
                      /\ t.name = "Revise" => t.hash \in Hashes
                      /\ t.name = "Consent" => t.hash \in Y
      <3>1. PICK t : /\ ev = Transitioned(t)
                     /\ t.name = "Revise" => t.hash \in Hashes
                     /\ t.name = "Consent" => t.hash \in Y
        BY <2>3
      <3>2. ev.kind # "Drafted"
        BY <3>1 DEF Transitioned, Rec
      <3>3. k = [j EXCEPT !.mission[m] = Recorded(ms, ev)] /\ Admits(ms, ev)
        BY <1>3, <3>2 DEF Replay, ReplayRecord, ms
      <3>. QED
        BY <2>0, <2>1, <3>1, <3>3, TransitionSound
    <2>4. CASE ev.kind \notin {"Drafted", "Transition"}
      <3>1. k = [j EXCEPT !.mission[m] = Recorded(ms, ev)] /\ Admits(ms, ev)
        BY <1>3, <2>4 DEF Replay, ReplayRecord, ms
      <3>. QED
        BY <2>0, <2>1, <2>4, <3>1, RecordSound
    <2>. QED
      BY <2>2, <2>3, <2>4 DEF EventOK
  <1>. QED
    BY <1>1, <1>2, <1>3

\* What does not change the view may come before a step.
LEMMA ThenSteps ==
  ASSUME NEW j, NEW k, NEW l, SameView(j, k), OneStep(k, l)
  PROVE  OneStep(j, l)
  <1>1. ASSUME NEW a, NEW b, NEW c, SamePromise(a, b), SamePromise(b, c) PROVE SamePromise(a, c)
    BY <1>1 DEF SamePromise
  <1>2. ASSUME NEW a, NEW b, NEW c, SamePromise(a, b), PromiseStep(b, c) PROVE PromiseStep(a, c)
    BY <1>2 DEF PromiseStep, SamePromise, Writes, Agrees, Begins, Asks, Answered, Ends
  <1>3. CASE SameView(k, l)
    BY <1>1, <1>3 DEF SameView, OneStep
  <1>4. CASE ~SameView(k, l)
    <2>1. PICK m \in Missions :
             /\ PromiseStep(k.mission[m], l.mission[m])
             /\ \A n \in Missions \ {m} : SamePromise(k.mission[n], l.mission[n])
      BY <1>4 DEF OneStep
    <2>2. PromiseStep(j.mission[m], l.mission[m])
      BY <1>2, <2>1 DEF SameView
    <2>3. \A n \in Missions \ {m} : SamePromise(j.mission[n], l.mission[n])
      BY <1>1, <2>1 DEF SameView
    <2>. QED
      BY <2>2, <2>3 DEF OneStep
  <1>. QED
    BY <1>3, <1>4

(***************************************************************************)
(* PART TWO.  The inductive invariant.                                      *)
(***************************************************************************)
\* The triggers that a call carries from where it decides to where it fires.
EndNames == {"Block", "BlockOutcomeUnknown", "Fail", "VerifyFail", "ApprovalLapsed", "ActionDenied"}

CallFields == {"op", "pc", "m", "owns", "then", "hash", "phase", "role", "roles", "rest",
               "effect", "status", "trigger", "ok"}

\* A call's record, of whatever its other fields hold.
CallOK(rec) ==
    /\ rec = [f \in CallFields |-> rec[f]]
    /\ rec.trigger.name \in EndNames
    /\ rec.then \in {"leave", "rest", "recover_close", "block", "content"}

\* A mission in memory, whose Owner said yes to Y.
MissionOK(ms, Y) ==
    /\ IsMission(ms)
    /\ PastConsent(ms) => Consented(ms)
    /\ ms.consent \in Y \cup {NoHash}
    /\ ms.state \in {"Draft", "AwaitingConsent"} => ms.hash # NoHash

\* A request that still holds its reservation asks about the contract that stands.
AskOK(c) ==
    call[c].pc = "asking" =>
        /\ proc = "up"
        /\ call[c].m \in Missions
        /\ c \in reserved[call[c].m] => /\ missions[call[c].m].state # "None"
                                        /\ missions[call[c].m].hash = call[c].hash

LogInv == LogSound(log) /\ \A m \in Missions : log.mission[m].consent \in yes[m] \cup {NoHash}
MemInv ==
    /\ missions = [m \in Missions |-> missions[m]]
    /\ \A m \in Missions : MissionOK(missions[m], yes[m])
ShapeInv ==
    /\ reserved = [m \in Missions |-> reserved[m]]
    /\ yes = [m \in Missions |-> yes[m]]
    /\ call = [c \in AllCalls |-> call[c]]
CallInv == \A c \in AllCalls : CallOK(call[c])
AskInv == \A c \in AllCalls : AskOK(c)

CInv == LogInv /\ MemInv /\ ShapeInv /\ CallInv /\ AskInv

(***************************************************************************)
(* The records of calls.                                                    *)
(***************************************************************************)
Calm(rec) == CallOK(rec) /\ rec.pc # "asking"

LEMMA CallsNew ==
  /\ Calm(Idle)
  /\ \A op, pc, m : CallOK(NewCall(op, pc, m)) /\ NewCall(op, pc, m).pc = pc
  <1>1. Calm(Idle)
    BY DEF Calm, CallOK, CallFields, EndNames, Idle, Plain
  <1>2. ASSUME NEW op, NEW pc, NEW m PROVE CallOK(NewCall(op, pc, m)) /\ NewCall(op, pc, m).pc = pc
    BY <1>1 DEF Calm, CallOK, CallFields, NewCall
  <1>. QED
    BY <1>1, <1>2

LEMMA CallsEnd ==
  ASSUME NEW rec, CallOK(rec)
  PROVE  /\ Calm(Returned(rec))
         /\ \A pc : CallOK(Ending(rec, pc)) /\ Ending(rec, pc).pc = pc
         /\ \A t : t.name \in EndNames => Calm(EndWith(rec, t))
  <1>1. ASSUME NEW pc PROVE CallOK(Ending(rec, pc)) /\ Ending(rec, pc).pc = pc
    <2>. DEFINE r == NewCall(rec.op, pc, rec.m)
    <2>1. CallOK(r) /\ r.pc = pc
      BY CallsNew
    <2>. HIDE DEF r
    <2>2. LET e == [r EXCEPT !.owns = rec.owns, !.then = rec.then, !.trigger = rec.trigger,
                             !.ok = rec.ok]
          IN  CallOK(e) /\ e.pc = pc
      BY <2>1 DEF CallOK, CallFields
    <2>. QED
      BY <2>2 DEF Ending, r
  <1>2. Calm(Returned(rec))
    BY DEF Calm, CallOK, CallFields, EndNames, Returned, NewCall, Idle, Plain
  <1>3. ASSUME NEW t, t.name \in EndNames PROVE Calm(EndWith(rec, t))
    <2>. DEFINE r == Ending(rec, "endfire")
    <2>1. CallOK(r) /\ r.pc = "endfire"
      BY <1>1
    <2>. HIDE DEF r
    <2>2. Calm([r EXCEPT !.trigger = t])
      BY <1>3, <2>1 DEF Calm, CallOK, CallFields
    <2>. QED
      BY <2>2 DEF EndWith, r
  <1>. QED
    BY <1>1, <1>2, <1>3

LEMMA CallsGo ==
  ASSUME NEW rec, CallOK(rec)
  PROVE  Calm(Onward(rec)) /\ \A r \in Checked(rec) : Calm(r)
  <1>1. Calm(Onward(rec))
    BY DEF Calm, CallOK, CallFields, Onward
  <1>2. Calm([rec EXCEPT !.pc = "refuse"])
    BY DEF Calm, CallOK, CallFields
  <1>. QED
    BY <1>1, <1>2 DEF Checked

(***************************************************************************)
(* Missions in memory.                                                      *)
(***************************************************************************)
\* What every step but a draft, a revision, a yes and an opening does to a mission.
Tame(a, b) ==
    /\ IsMission(b)
    /\ b.hash = a.hash /\ b.consent = a.consent
    /\ PastConsent(b) => PastConsent(a)
    /\ b.state \in {"Draft", "AwaitingConsent"} => a.state \in {"Draft", "AwaitingConsent"}
    /\ a.state # "None" => b.state # "None"
    /\ a.state \in Terminal => b.state = a.state

LEMMA TameKeeps ==
  ASSUME NEW a, NEW b, NEW Y, MissionOK(a, Y), Tame(a, b)
  PROVE  MissionOK(b, Y)
  BY DEF MissionOK, Tame, Consented

LEMMA TameThen ==
  ASSUME NEW a, NEW b, NEW d, Tame(a, b), Tame(b, d)
  PROVE  Tame(a, d)
  BY DEF Tame

LEMMA TameStill ==
  ASSUME NEW a, NEW b, IsMission(b), b.state = a.state, b.hash = a.hash, b.consent = a.consent
  PROVE  Tame(a, b)
  BY DEF Tame, PastConsent

LEMMA TameStopped ==
  ASSUME NEW a, IsMission(a), a.state \notin Terminal
  PROVE  Tame(a, [a EXCEPT !.state = "Stopped"])
  BY DEF Tame, PastConsent, IsMission, MissionFields, Working, MayWait

LEMMA TameApply ==
  ASSUME NEW a, IsMission(a), NEW t, Legal(a.state, t), t.name \notin {"Revise", "Consent"}
  PROVE  Tame(a, Apply(a, t))
  <1>. DEFINE b == Apply(a, t)
  <1>1. IsMission(b) /\ b.state = Transition(a.state, t) /\ b.hash = a.hash /\ b.consent = a.consent
    BY AppliedFields
  <1>. HIDE DEF b
  <1>2. /\ PastConsent(b) => PastConsent(a)
        /\ b.state \in {"Draft", "AwaitingConsent"} => a.state \in {"Draft", "AwaitingConsent"}
        /\ b.state # "None" /\ a.state \notin Terminal
    BY <1>1 DEF PastConsent, Legal, Transition, Working, MayWait, Revisable, Terminal, Stoppable
  <1>. QED
    BY <1>1, <1>2 DEF Tame, b

(***************************************************************************)
(* The journal.                                                             *)
(***************************************************************************)
\* What a call that writes record ev of mission m may leave as the journal.
MayBecome(k, m, ev) ==
    \/ k \in {log, LogOpened, ReplayOpened(log), ReplayClosed(LogHeld), Replay(LogHeld, m, ev)}
    \/ \E S : k = ReplayHolds(LogOpened, S)

LEMMA JournalSteps ==
  ASSUME LogSound(log), NEW m, NEW ev, NEW Y, EventOK(ev, Y), NEW k, MayBecome(k, m, ev)
  PROVE  LogSound(k) /\ OneStep(log, k) /\ ConsentsFrom(log, k, m, Y)
  <1>. DEFINE Same(j) == /\ LogSound(j) /\ SameView(log, j)
                         /\ \A n \in Missions : j.mission[n].consent = log.mission[n].consent
  <1>1. Same(log)
    BY EqualSame
  <1>2. Same(ReplayOpened(log)) /\ Same(LogOpened)
    BY <1>1, OpenedSame DEF LogOpened
  <1>3. ASSUME NEW S PROVE Same(ReplayHolds(LogOpened, S))
    <2>. DEFINE j == LogOpened
                l == ReplayHolds(j, S)
    <2>1. Same(j)
      BY <1>2
    <2>. HIDE DEF j
    <2>2. /\ LogSound(l) /\ SameView(j, l)
          /\ \A n \in Missions : l.mission[n].consent = j.mission[n].consent
      BY <2>1, HoldsSame
    <2>. HIDE DEF l
    <2>3. SameView(log, l)
      BY <2>1, <2>2 DEF SameView, SamePromise
    <2>4. Same(l)
      BY <2>1, <2>2, <2>3
    <2>. QED
      BY <2>4 DEF l, j
  <1>4. Same(LogHeld)
    BY <1>3 DEF LogHeld
  <1>5. Same(ReplayClosed(LogHeld))
    <2>1. LogSound(ReplayClosed(LogHeld)) /\ ReplayClosed(LogHeld).mission = LogHeld.mission
      BY <1>4, ClosedSame
    <2>. QED
      BY <1>4, <2>1 DEF SameView
  <1>6. CASE Same(k)
    BY <1>6 DEF OneStep, ConsentsFrom
  <1>7. CASE k = Replay(LogHeld, m, ev)
    <2>1. LogSound(k) /\ OneStep(LogHeld, k) /\ ConsentsFrom(LogHeld, k, m, Y)
      BY <1>4, <1>7, ReplaySteps
    <2>2. OneStep(log, k)
      BY <1>4, <2>1, ThenSteps
    <2>. QED
      BY <1>4, <2>1, <2>2 DEF ConsentsFrom
  <1>8. Same(k) \/ k = Replay(LogHeld, m, ev)
    <2>. HIDE DEF Same
    <2>. QED
      BY <1>1, <1>2, <1>3, <1>5, Zenon DEF MayBecome
  <1>. QED
    BY <1>6, <1>7, <1>8

(***************************************************************************)
(* Ordinary steps: every one but a draft, a revision, the reservation of a  *)
(* request, a yes, an opening and a fall.                                   *)
(***************************************************************************)
Tamed ==
    /\ missions' = [m \in Missions |-> missions'[m]]
    /\ \A m \in Missions : Tame(missions[m], missions'[m])
Journals == \E m, ev : EventOK(ev, {}) /\ MayBecome(log', m, ev)
Calms ==
    \/ call' = call
    \/ \E c, rec : Calm(rec) /\ call' = [call EXCEPT ![c] = rec]
\* Only a call that asks nothing is given a reservation.
Reserves ==
    /\ reserved' = [m \in Missions |-> reserved'[m]]
    /\ \A m \in Missions : \A c \in AllCalls :
          c \in reserved'[m] => c \in reserved[m] \/ call'[c].pc # "asking"
Stays == proc' \in {proc, "up"} /\ yes' = yes

\* The four parts of the invariant, each from what it depends on.
Grows == yes' = [m \in Missions |-> yes'[m]] /\ \A m \in Missions : yes[m] \subseteq yes'[m]

LEMMA LogKeeps ==
  ASSUME CInv, Grows, NEW m, NEW ev, NEW Y, EventOK(ev, Y), m \in Missions => Y \subseteq yes'[m],
         MayBecome(log', m, ev)
  PROVE  LogInv' /\ OneStep(log, log')
  <1>1. LogSound(log') /\ OneStep(log, log') /\ ConsentsFrom(log, log', m, Y)
    BY JournalSteps DEF CInv, LogInv
  <1>. QED
    BY <1>1 DEF CInv, LogInv, ConsentsFrom, Grows

LEMMA MemKeeps ==
  ASSUME CInv, Grows, Tamed
  PROVE  MemInv'
  <1>1. \A m \in Missions : MissionOK(missions'[m], yes[m])
    BY TameKeeps DEF CInv, MemInv, Tamed
  <1>. QED
    BY <1>1 DEF Tamed, MemInv, MissionOK, Grows

LEMMA CallKeeps ==
  ASSUME CInv, Grows, Calms, Reserves
  PROVE  /\ ShapeInv' /\ CallInv'
         /\ \A c \in AllCalls : call'[c] = call[c] \/ call'[c].pc # "asking"
  BY DEF CInv, ShapeInv, CallInv, Calms, Calm, Reserves, Grows

\* The contract of a mission that was drafted stands, or its requests are stale.
Stands(m) ==
    \/ /\ missions'[m].hash = missions[m].hash
       /\ missions[m].state # "None" => missions'[m].state # "None"
    \/ missions[m].state = "None"
    \/ reserved'[m] = {}

LEMMA AskKeeps ==
  ASSUME CInv, Grows, Calms, Reserves, proc' \in {proc, "up"}, \A m \in Missions : Stands(m)
  PROVE  AskInv'
  <1>. SUFFICES ASSUME NEW c \in AllCalls, call'[c].pc = "asking"
                PROVE  AskOK(c)'
    BY DEF AskInv, AskOK
  <1>1. call'[c] = call[c] /\ AskOK(c)
    BY CallKeeps DEF CInv, AskInv
  <1>. DEFINE m == call[c].m
  <1>2. m \in Missions /\ proc' = "up" /\ Stands(m)
    BY <1>1 DEF AskOK
  <1>3. c \in reserved'[m] => c \in reserved[m] /\ reserved'[m] # {}
    BY <1>2 DEF Reserves
  <1>. QED
    BY <1>1, <1>2, <1>3 DEF AskOK, Stands

LEMMA OrdinaryKeeps ==
  ASSUME CInv, Tamed, Journals, Calms, Reserves, Stays
  PROVE  CInv' /\ OneStep(log, log')
  <1>1. Grows
    BY DEF Grows, Stays, CInv, ShapeInv
  <1>2. LogInv' /\ OneStep(log, log')
    BY <1>1, LogKeeps DEF Journals
  <1>3. \A m \in Missions : Stands(m)
    BY DEF Tamed, Tame, Stands
  <1>. QED
    BY <1>1, <1>2, <1>3, MemKeeps, CallKeeps, AskKeeps DEF CInv, Stays

(***************************************************************************)
(* What the ways to write a record do.                                      *)
(***************************************************************************)
\* The journaled hold of a mission is all that a write adds to it.
LEMMA HeldSame ==
  ASSUME CInv, NEW m \in Missions
  PROVE  LET h == Held(m)
         IN  /\ IsMission(missions[m]) /\ IsMission(h)
             /\ h.state = missions[m].state /\ h.hash = missions[m].hash
             /\ h.consent = missions[m].consent /\ Tame(missions[m], h)
             /\ MissionsHeld[m] = h
  <1>. DEFINE ms == missions[m]
              j == ms.held_journaled \/ m \in ToHold
              h == [ms EXCEPT !.held_journaled = j]
  <1>1. IsMission(ms)
    BY DEF CInv, MemInv, MissionOK
  <1>. HIDE DEF ms, j
  <1>2. IsMission(h) /\ h.state = ms.state /\ h.hash = ms.hash /\ h.consent = ms.consent
    BY <1>1 DEF IsMission, MissionFields
  <1>3. Tame(ms, h)
    BY <1>2, TameStill
  <1>4. h = Held(m)
    BY Zenon DEF Held, ms, j
  <1>. HIDE DEF h
  <1>5. MissionsHeld[m] = Held(m)
    BY DEF MissionsHeld
  <1>. QED
    BY <1>1, <1>2, <1>3, <1>4, <1>5 DEF ms

LEMMA WroteOrdinary ==
  ASSUME CInv, NEW m, NEW ev, EventOK(ev, {}), NEW ms,
         m \in Missions => Tame(missions[m], ms), Wrote(m, ev, ms)
  PROVE  Tamed /\ Journals
  <1>1. log' = Replay(LogHeld, m, ev) /\ missions' = [MissionsHeld EXCEPT ![m] = ms]
    BY DEF Wrote, WroteLog
  <1>2. Journals
    BY <1>1 DEF Journals, MayBecome
  <1>3. missions' = [n \in Missions |-> IF n = m THEN ms ELSE MissionsHeld[n]]
    BY <1>1 DEF MissionsHeld
  <1>4. \A n \in Missions : Tame(missions[n], MissionsHeld[n])
    BY HeldSame
  <1>. QED
    BY <1>2, <1>3, <1>4 DEF Tamed

LEMMA StillTame ==
  ASSUME CInv
  PROVE  \A n \in Missions : IsMission(missions[n]) /\ Tame(missions[n], missions[n])
  BY TameStill DEF CInv, MemInv, MissionOK

LEMMA BrokeLogMay ==
  ASSUME NEW full, BrokeLog(full), NEW m, NEW ev,
         full \in {ReplayOpened(log), ReplayClosed(LogHeld), Replay(LogHeld, m, ev)}
  PROVE  MayBecome(log', m, ev)
  BY DEF BrokeLog, MayBecome

LEMMA BrokeOrdinary ==
  ASSUME CInv, NEW m, NEW ev, EventOK(ev, {}), NEW ms,
         m \in Missions => Tame(missions[m], ms), Broke(m, ev, ms)
  PROVE  Tamed /\ Journals
  <1>1. MayBecome(log', m, ev)
    BY BrokeLogMay DEF Broke
  <1>2. missions' = [n \in Missions |-> IF n = m THEN ms ELSE missions[n]]
    BY DEF Broke, CInv, MemInv
  <1>. QED
    BY <1>1, <1>2, StillTame DEF Journals, Tamed

LEMMA EventsOK ==
  /\ \A t : t.name \notin {"Revise", "Consent"} => EventOK(Transitioned(t), {})
  /\ \A kind : kind \notin {"Drafted", "Transition"} =>
        /\ EventOK(Rec(kind), {})
        /\ \A r : EventOK(LaneRec(kind, r), {}) /\ EventOK(EffectRec(kind, r), {})
  /\ \A e, o : EventOK(EffectSettled(e, o), {})
  BY DEF EventOK, Rec, LaneRec, EffectRec, EffectSettled

\* No record is written, and no mission moves.
LEMMA UnwrittenOrdinary ==
  ASSUME CInv, missions' = missions, log' = log
  PROVE  Tamed /\ Journals
  BY StillTame, EventsOK DEF Tamed, Journals, MayBecome, CInv, MemInv

LEMMA RequestsOrdinary ==
  ASSUME CInv, reserved' = reserved \/ \E m : reserved' = [reserved EXCEPT ![m] = {}]
  PROVE  Reserves
  BY DEF Reserves, CInv, ShapeInv

LEMMA FiredOrdinary ==
  ASSUME CInv, NEW m, NEW t, t.name \notin {"Revise", "Consent"}, Fired(m, t)
  PROVE  Tamed /\ Journals /\ Reserves
  <1>1. Wrote(m, Transitioned(t), Apply(Held(m), t)) /\ Legal(missions[m].state, t) /\ Bump(m)
    BY DEF Fired, FiredAs, Accepts
  <1>2. ASSUME m \in Missions PROVE Tame(missions[m], Apply(Held(m), t))
    <2>1. IsMission(Held(m)) /\ Held(m).state = missions[m].state /\ Tame(missions[m], Held(m))
      BY <1>2, HeldSame
    <2>2. Tame(Held(m), Apply(Held(m), t))
      BY <1>1, <2>1, TameApply
    <2>. QED
      BY <2>1, <2>2, TameThen
  <1>3. Reserves
    BY <1>1, RequestsOrdinary DEF Bump
  <1>. QED
    BY <1>1, <1>2, <1>3, EventsOK, WroteOrdinary

LEMMA NotFiredOrdinary ==
  ASSUME CInv, NEW m, NEW t, t.name \notin {"Revise", "Consent"}, NotFired(m, t)
  PROVE  Tamed /\ Journals /\ Reserves
  <1>1. Broke(m, Transitioned(t), missions[m]) /\ reserved' = reserved
    BY DEF NotFired, Requests
  <1>. QED
    BY <1>1, EventsOK, StillTame, BrokeOrdinary, RequestsOrdinary

(***************************************************************************)
(* The ordinary calls of the host.                                          *)
(***************************************************************************)
Ordinary == Tamed /\ Journals /\ Calms /\ Reserves /\ Stays

LEMMA CalmBecomes ==
  ASSUME NEW c, NEW rec, Calm(rec), Become(c, rec)
  PROVE  Calms
  BY DEF Become, Calms

LEMMA UntouchedOrdinary ==
  ASSUME CInv, Untouched
  PROVE  Tamed /\ Journals /\ Reserves
  BY UnwrittenOrdinary, RequestsOrdinary DEF Untouched, Unwritten, journal, Requests

LEMMA QuietStays ==
  ASSUME InCall \/ Quiet
  PROVE  Stays
  BY DEF InCall, Quiet, Stays

LEMMA PlainNames ==
  /\ \A n : Plain(n).name = n
  /\ \A n, h : OfHash(n, h).name = n /\ OfHash(n, h).hash = h
  /\ \A n, e : OfEffect(n, e).name = n
  /\ \A e, r, rs : AwaitApproval(e, r, rs).name = "AwaitApproval"
  /\ \A e, p : ActionApproved(e, p).name = "ActionApproved"
  BY DEF Plain, OfHash, OfEffect, AwaitApproval, ActionApproved

LEMMA AloneOrdinary ==
  ASSUME CInv, NEW m \in Missions, Submit(m) \/ TimePasses(m) \/ Close
  PROVE  Ordinary
  <1>1. CASE Submit(m)
    <2>. DEFINE t == OfHash("Submit", missions[m].hash)
    <2>1. Fired(m, t) \/ NotFired(m, t)
      BY <1>1 DEF Submit
    <2>2. t.name = "Submit"
      BY PlainNames
    <2>. HIDE DEF t
    <2>3. Tamed /\ Journals /\ Reserves
      BY <2>1, <2>2, FiredOrdinary, NotFiredOrdinary
    <2>4. Calms /\ Stays
      BY <1>1 DEF Submit, Host, history, Calms, Stays
    <2>. QED
      BY <2>3, <2>4 DEF Ordinary
  <1>2. CASE TimePasses(m)
    BY <1>2, UnwrittenOrdinary, RequestsOrdinary
       DEF TimePasses, Requests, Unwritten, journal, history, Ordinary, Calms, Stays
  <1>3. CASE Close
    <2>1. Reserves /\ Calms /\ Stays
      BY <1>3, RequestsOrdinary DEF Close, Requests, Calms, Stays
    <2>2. EventOK(Rec("Held"), {})
      BY EventsOK
    <2>3. CASE missions' = missions /\ BrokeLog(ReplayClosed(LogHeld))
      <3>1. Journals
        BY <2>2, <2>3, BrokeLogMay DEF Journals
      <3>2. Tamed
        BY <2>3, StillTame DEF Tamed, CInv, MemInv
      <3>. QED
        BY <2>1, <3>1, <3>2 DEF Ordinary
    <2>4. CASE missions' = MissionsHeld /\ WroteLog(ReplayClosed(LogHeld))
      <3>1. Journals
        BY <2>2, <2>4 DEF WroteLog, Journals, MayBecome
      <3>2. Tamed
        BY <2>4, HeldSame DEF Tamed, MissionsHeld
      <3>. QED
        BY <2>1, <3>1, <3>2 DEF Ordinary
    <2>. QED
      BY <1>3, <2>3, <2>4 DEF Close
  <1>. QED
    BY <1>1, <1>2, <1>3

LEMMA HostOrdinary ==
  ASSUME CInv, NEW m \in Missions, NEW c \in Calls,
         \/ Resume(c, m) \/ Stop(c, m) \/ AdvanceEnd(c, m) \/ AdvanceStart(c, m)
         \/ AdvanceExplain(c, m) \/ AdvancePhase(c, m)
  PROVE  Ordinary
  <1>1. CASE Resume(c, m)
    <2>1. Tamed /\ Journals
      BY <1>1, UnwrittenOrdinary DEF Resume, journal
    <2>. DEFINE rec == NewCall("resume", "resuming", m)
    <2>2. Calm(rec)
      BY CallsNew DEF Calm
    <2>. HIDE DEF rec
    <2>3. Calms /\ call' = [call EXCEPT ![c] = rec]
      BY <1>1, <2>2 DEF Resume, Calms, Become, rec
    <2>4. c \in AllCalls => call'[c] = rec
      BY <2>3 DEF CInv, ShapeInv
    <2>5. reserved' = [reserved EXCEPT ![m] = {c}]
      BY <1>1 DEF Resume
    <2>6. Reserves
      BY <2>2, <2>4, <2>5 DEF Reserves, CInv, ShapeInv, Calm
    <2>7. Stays
      BY <1>1 DEF Resume, history, Stays
    <2>. QED
      BY <2>1, <2>3, <2>6, <2>7 DEF Ordinary
  <1>2. CASE Stop(c, m)
    <2>1. Calm(NewCall("stop", "stop", m))
      BY CallsNew DEF Calm
    <2>. QED
      BY <1>2, <2>1, CalmBecomes, UntouchedOrdinary, QuietStays DEF Stop, Ordinary
  <1>3. CASE AdvanceEnd(c, m)
    <2>1. PICK pc \in {"stop", "end"} : Become(c, NewAdvance(pc, m))
      BY <1>3 DEF AdvanceEnd
    <2>2. Calm(NewAdvance(pc, m))
      BY CallsNew DEF Calm, NewAdvance
    <2>. QED
      BY <1>3, <2>1, <2>2, CalmBecomes, UntouchedOrdinary, QuietStays DEF AdvanceEnd, Ordinary
  <1>4. CASE AdvanceStart(c, m)
    <2>1. Tamed /\ Journals /\ Reserves
      BY <1>4, PlainNames, FiredOrdinary, NotFiredOrdinary DEF AdvanceStart
    <2>. QED
      BY <1>4, <2>1, QuietStays DEF AdvanceStart, Ordinary, Calms
  <1>5. CASE AdvanceExplain(c, m)
    <2>1. Tamed /\ Journals /\ Reserves
      BY <1>5, PlainNames, FiredOrdinary, NotFiredOrdinary DEF AdvanceExplain
    <2>2. Calm(NewAdvance("finish", m))
      BY CallsNew DEF Calm, NewAdvance
    <2>3. Calms
      BY <1>5, <2>2, CalmBecomes DEF AdvanceExplain, Calms
    <2>. QED
      BY <1>5, <2>1, <2>3, QuietStays DEF AdvanceExplain, Ordinary
  <1>6. CASE AdvancePhase(c, m)
    <2>. DEFINE from == missions[m].state
                new == NewAdvance("lane", m)
                rec == [new EXCEPT !.owns = TRUE]
                next == IF from = "AwaitingApproval" THEN [rec EXCEPT !.pc = "query"]
                        ELSE [rec EXCEPT !.phase = from, !.roles = PhaseRoles(from)]
    <2>1. CallOK(new) /\ new.pc = "lane"
      BY CallsNew DEF NewAdvance
    <2>. HIDE DEF new
    <2>2. CallOK(rec) /\ rec.pc = "lane"
      BY <2>1 DEF CallOK, CallFields
    <2>. HIDE DEF rec
    <2>3. Calm(next)
      BY <2>2 DEF Calm, CallOK, CallFields
    <2>4. Become(c, next)
      BY <1>6 DEF AdvancePhase, rec, new
    <2>. HIDE DEF next
    <2>5. c \in AllCalls => call'[c] = next
      BY <2>4 DEF CInv, ShapeInv, Become
    <2>6. reserved' = [reserved EXCEPT ![m] = @ \cup {c}]
      BY <1>6 DEF AdvancePhase
    <2>7. Reserves
      BY <2>3, <2>5, <2>6 DEF Reserves, CInv, ShapeInv, Calm
    <2>8. Tamed /\ Journals
      BY <1>6, UnwrittenOrdinary DEF AdvancePhase, Unwritten, journal
    <2>. QED
      BY <1>6, <2>3, <2>4, <2>7, <2>8, CalmBecomes, QuietStays DEF AdvancePhase, Ordinary
  <1>. QED
    BY <1>1, <1>2, <1>3, <1>4, <1>5, <1>6

(***************************************************************************)
(* The steps of a call in flight.                                           *)
(***************************************************************************)
LEMMA OwnCallOK ==
  ASSUME CInv, NEW c \in AllCalls
  PROVE  /\ CallOK(call[c]) /\ Calm(Returned(call[c]))
         /\ \A pc : pc # "asking" => Calm(Ending(call[c], pc))
         /\ \A t : t.name \in EndNames => Calm(EndWith(call[c], t))
  BY CallsEnd DEF CInv, CallInv, Calm

LEMMA ReturnCalm ==
  ASSUME CInv, NEW c \in AllCalls, Return(c)
  PROVE  Calms
  BY OwnCallOK, CalmBecomes DEF Return

LEMMA UnreserveOrdinary ==
  ASSUME CInv, NEW c, Unreserve(c)
  PROVE  Reserves
  BY DEF Unreserve, Reserves, CInv, ShapeInv

LEMMA OnlyOrdinary ==
  ASSUME CInv, NEW c, NEW rec, Calm(rec), Only(c, rec)
  PROVE  Tamed /\ Journals /\ Calms
  BY UnwrittenOrdinary, CalmBecomes DEF Only, Unwritten, journal

LEMMA UnwrittenStill ==
  ASSUME CInv, Unwritten
  PROVE  Tamed /\ Journals
  BY UnwrittenOrdinary DEF Unwritten, journal

LEMMA StopFireOrdinary ==
  ASSUME CInv, NEW c \in AllCalls, StopFire(c)
  PROVE  Ordinary
  <1>. DEFINE m == call[c].m
              ms == missions[m]
  <1>1. Stays
    BY QuietStays DEF StopFire
  <1>2. CASE StopEnded(c)
    BY <1>1, <1>2, UnwrittenStill, RequestsOrdinary, ReturnCalm DEF StopEnded, Requests, Ordinary
  <1>3. CASE StopTaken(c)
    <2>1. Fired(m, Plain("Stop")) /\ Become(c, AfterStop(call[c], ms))
      BY <1>3 DEF StopTaken
    <2>2. Calm(AfterStop(call[c], ms))
      BY OwnCallOK DEF AfterStop
    <2>. QED
      BY <1>1, <2>1, <2>2, PlainNames, FiredOrdinary, CalmBecomes DEF Ordinary
  <1>4. ASSUME StopLost(c), ms.state \notin Terminal PROVE Ordinary
    <2>. DEFINE stopped == [ms EXCEPT !.state = "Stopped"]
                rec == [call[c] EXCEPT !.ok = FALSE]
    <2>1. CallOK(rec)
      BY OwnCallOK DEF CallOK, CallFields
    <2>. HIDE DEF rec
    <2>2. Calm(AfterStop(rec, ms))
      BY <2>1, CallsEnd DEF AfterStop, Calm
    <2>3. Calms
      BY <1>4, <2>2, CalmBecomes DEF StopLost, rec
    <2>4. Reserves
      BY <1>4, RequestsOrdinary DEF StopLost
    <2>5. m \in Missions => Tame(ms, stopped)
      BY <1>4, TameStopped, StillTame
    <2>. HIDE DEF stopped
    <2>6. CASE Broke(m, Transitioned(Plain("Stop")), stopped)
      <3>1. EventOK(Transitioned(Plain("Stop")), {})
        BY PlainNames, EventsOK
      <3>2. Tamed /\ Journals
        BY <2>5, <2>6, <3>1, BrokeOrdinary
      <3>. QED
        BY <1>1, <2>3, <2>4, <3>2 DEF Ordinary
    <2>7. CASE missions' = [missions EXCEPT ![m] = stopped] /\ log' = log
      <3>1. missions' = [n \in Missions |-> IF n = m THEN stopped ELSE missions[n]]
        BY <2>7 DEF CInv, MemInv
      <3>2. Tamed
        BY <2>5, <3>1, StillTame DEF Tamed
      <3>3. Journals
        BY <2>7, EventsOK DEF Journals, MayBecome
      <3>. QED
        BY <1>1, <2>3, <2>4, <3>2, <3>3 DEF Ordinary
    <2>. QED
      BY <1>4, <2>6, <2>7 DEF StopLost, journal, stopped
  <1>. QED
    BY <1>2, <1>3, <1>4 DEF StopFire

LEMMA WithdrawOrdinary ==
  ASSUME CInv, NEW c \in AllCalls, Withdraw(c)
  PROVE  Ordinary
  <1>1. Tamed /\ Journals /\ Reserves
    BY UnwrittenOrdinary, RequestsOrdinary DEF Withdraw, journal, Requests
  <1>2. Stays
    BY DEF Withdraw, Stays
  <1>. DEFINE m == call[c].m
              rec == [call[c] EXCEPT !.pc = "settled", !.ok = @ /\ WithdrawOk(port, action, m)]
  <1>3. Calm(rec)
    BY OwnCallOK DEF Calm, CallOK, CallFields
  <1>. QED
    BY <1>1, <1>2, <1>3, CalmBecomes DEF Withdraw, Ordinary

\* What follows close_action.
LEMMA AfterCloseCalm ==
  ASSUME CInv, NEW c \in AllCalls, NEW closed, AfterClose(c, closed)
  PROVE  Calms
  <1>. DEFINE rec == [call[c] EXCEPT !.effect = NoEffect]
              failed == closed = "error" \/ ~rec.ok
  <1>1. CallOK(rec)
    BY OwnCallOK DEF CallOK, CallFields
  <1>2. /\ Calm(Returned(rec)) /\ Calm(Ending(rec, "end"))
        /\ \A r \in Checked(rec) : Calm(r)
    BY <1>1, CallsEnd, CallsGo DEF Calm
  <1>. HIDE DEF rec
  <1>3. CASE rec.then = "leave"
    BY <1>2, <1>3, CalmBecomes DEF AfterClose, rec
  <1>4. CASE rec.then = "rest"
    <2>1. PICK next \in CASE closed = "yes" -> Checked(rec)
                          [] closed = "no" -> {Ending(rec, "end")}
                          [] OTHER -> {Returned(rec)} :
             Become(c, [next EXCEPT !.then = "leave"])
      BY <1>4 DEF AfterClose, rec
    <2>2. Calm(next)
      BY <1>2, <2>1
    <2>3. Calm([next EXCEPT !.then = "leave"])
      BY <2>2 DEF Calm, CallOK, CallFields
    <2>. QED
      BY <2>1, <2>3, CalmBecomes
  <1>5. CASE rec.then = "block"
    <2>1. Become(c, NewCall("open", IF failed THEN "failed" ELSE "block", 0))
      BY <1>5 DEF AfterClose, rec
    <2>2. Calm(NewCall("open", IF failed THEN "failed" ELSE "block", 0))
      BY CallsNew DEF Calm
    <2>. QED
      BY <2>1, <2>2, CalmBecomes
  <1>6. CASE rec.then \in {"recover_close", "content"}
    <2>1. Become(c, NewCall("open", rec.then, 0))
      BY <1>6 DEF AfterClose, rec
    <2>2. Calm(NewCall("open", rec.then, 0))
      BY <1>6, CallsNew DEF Calm
    <2>. QED
      BY <2>1, <2>2, CalmBecomes
  <1>. QED
    BY <1>1, <1>3, <1>4, <1>5, <1>6 DEF CallOK

\* The ways to write that leave the mission as it is but for fields the consent
\* does not depend on.
LEMMA RecordOrdinary ==
  ASSUME CInv, NEW m, NEW ev, EventOK(ev, {}), NEW ms,
         m \in Missions => IsMission(ms) /\ ms.state = missions[m].state
                           /\ ms.hash = missions[m].hash /\ ms.consent = missions[m].consent,
         Wrote(m, ev, ms) \/ Broke(m, ev, missions[m])
  PROVE  Tamed /\ Journals
  <1>1. m \in Missions => Tame(missions[m], ms) /\ Tame(missions[m], missions[m])
    BY TameStill, StillTame
  <1>. QED
    BY <1>1, WroteOrdinary, BrokeOrdinary

LEMMA CloseAskOrdinary ==
  ASSUME CInv, NEW c \in AllCalls, CloseAsk(c)
  PROVE  Ordinary
  <1>. DEFINE m == call[c].m
              e == missions[m].open_action
              rec == [call[c] EXCEPT !.pc = "close", !.effect = e]
  <1>1. Tamed /\ Journals /\ Reserves
    BY UntouchedOrdinary DEF CloseAsk
  <1>2. Stays
    BY DEF CloseAsk, Stays
  <1>3. Calm(rec)
    BY OwnCallOK DEF Calm, CallOK, CallFields
  <1>4. \/ \E closed : AfterClose(c, closed)
        \/ Become(c, rec)
    BY DEF CloseAsk
  <1>. HIDE DEF rec
  <1>5. Calms
    BY <1>3, <1>4, AfterCloseCalm, CalmBecomes
  <1>. QED
    BY <1>1, <1>2, <1>5 DEF Ordinary

LEMMA CloseTakeOrdinary ==
  ASSUME CInv, NEW c \in AllCalls, CloseTake(c)
  PROVE  Ordinary
  <1>. DEFINE m == call[c].m
              ev == EffectRec("ApprovalClosed", call[c].effect)
              ms == [Held(m) EXCEPT !.open_action = NoEffect]
  <1>1. Calms
    BY AfterCloseCalm DEF CloseTake
  <1>2. Reserves
    BY RequestsOrdinary DEF CloseTake, Requests
  <1>3. Stays
    BY DEF CloseTake, Stays
  <1>4. EventOK(ev, {})
    BY EventsOK
  <1>5. m \in Missions => IsMission(ms) /\ ms.state = missions[m].state
                          /\ ms.hash = missions[m].hash /\ ms.consent = missions[m].consent
    BY HeldSame DEF IsMission, MissionFields
  <1>6. Wrote(m, ev, ms) \/ Broke(m, ev, missions[m]) \/ Unwritten
    BY DEF CloseTake
  <1>. HIDE DEF ms, ev
  <1>7. Tamed /\ Journals
    BY <1>4, <1>5, <1>6, RecordOrdinary, UnwrittenStill
  <1>. QED
    BY <1>1, <1>2, <1>3, <1>7 DEF Ordinary

LEMMA EndOrdinary ==
  ASSUME CInv, NEW c \in AllCalls, End(c)
  PROVE  Ordinary
  <1>. DEFINE ms == missions[call[c].m]
              lapse == ms.state = "AwaitingApproval" /\ ms.waiting # NoWait
              t == IF lapse THEN OfEffect("ApprovalLapsed", ms.waiting.effect) ELSE call[c].trigger
  <1>1. t.name \in EndNames
    <2>1. OfEffect("ApprovalLapsed", ms.waiting.effect).name \in EndNames
      BY PlainNames DEF EndNames
    <2>2. call[c].trigger.name \in EndNames
      BY OwnCallOK DEF CallOK
    <2>. QED
      BY <2>1, <2>2
  <1>2. Return(c) \/ Become(c, EndWith(call[c], t))
    BY DEF End
  <1>. HIDE DEF t
  <1>3. Calm(EndWith(call[c], t))
    BY <1>1, OwnCallOK
  <1>4. Calms
    BY <1>2, <1>3, ReturnCalm, CalmBecomes
  <1>. QED
    BY <1>4, UntouchedOrdinary, QuietStays DEF End, Ordinary

LEMMA EndFireOrdinary ==
  ASSUME CInv, NEW c \in AllCalls, EndFire(c)
  PROVE  Ordinary
  <1>. DEFINE m == call[c].m
              t == call[c].trigger
              ended == Apply(missions[m], t)
              gone(ok) == [call[c] EXCEPT !.pc = "withdraw", !.ok = ok, !.trigger = Plain("Block")]
  <1>1. Stays
    BY QuietStays DEF EndFire
  <1>2. Calms
    <2>1. ASSUME NEW ok PROVE Calm(gone(ok))
      <3>1. Plain("Block").name \in EndNames
        BY PlainNames DEF EndNames
      <3>. QED
        BY <3>1, OwnCallOK DEF Calm, CallOK, CallFields
    <2>2. Return(c) \/ \E ok : Become(c, gone(ok))
      BY DEF EndFire
    <2>. HIDE DEF gone
    <2>. QED
      BY <2>1, <2>2, ReturnCalm, CalmBecomes
  <1>3. t.name \notin {"Revise", "Consent"}
    BY OwnCallOK DEF CallOK, EndNames
  <1>4. Accepts(m, t) /\ m \in Missions => Tame(missions[m], ended)
    BY <1>3, TameApply, StillTame DEF Accepts
  <1>5. \/ Unwritten /\ UNCHANGED Requests
        \/ Fired(m, t)
        \/ Accepts(m, t) /\ Bump(m) /\ Broke(m, Transitioned(t), ended)
        \/ /\ Accepts(m, t) /\ Bump(m) /\ log' = log
           /\ missions' = [missions EXCEPT ![m] = ended]
    BY DEF EndFire, journal
  <1>. HIDE DEF ended, m, t
  <1>6. CASE Unwritten /\ UNCHANGED Requests
    BY <1>1, <1>2, <1>6, UnwrittenStill, RequestsOrdinary DEF Requests, Ordinary
  <1>7. CASE Fired(m, t)
    BY <1>1, <1>2, <1>3, <1>7, FiredOrdinary DEF Ordinary
  <1>8. CASE Accepts(m, t) /\ Bump(m) /\ Broke(m, Transitioned(t), ended)
    <2>1. EventOK(Transitioned(t), {})
      BY <1>3, EventsOK
    <2>2. Tamed /\ Journals
      BY <1>4, <1>8, <2>1, BrokeOrdinary
    <2>. QED
      BY <1>1, <1>2, <1>8, <2>2, RequestsOrdinary DEF Bump, Ordinary
  <1>9. CASE Accepts(m, t) /\ Bump(m) /\ log' = log /\ missions' = [missions EXCEPT ![m] = ended]
    <2>1. missions' = [n \in Missions |-> IF n = m THEN ended ELSE missions[n]]
      BY <1>9 DEF CInv, MemInv
    <2>2. Tamed
      BY <1>4, <1>9, <2>1, StillTame DEF Tamed
    <2>3. Journals
      BY <1>9, EventsOK DEF Journals, MayBecome
    <2>. QED
      BY <1>1, <1>2, <1>9, <2>2, <2>3, RequestsOrdinary DEF Bump, Ordinary
  <1>. QED
    BY <1>5, <1>6, <1>7, <1>8, <1>9

LEMMA LaneOrdinary ==
  ASSUME CInv, NEW c \in AllCalls, Lane(c)
  PROVE  Ordinary
  <1>. DEFINE m == call[c].m
              rec == call[c]
              role == Head(rec.roles)
              ev == LaneRec("LaneInvoked", role)
              ms == [Held(m) EXCEPT !.pending_lane = role]
              next == [rec EXCEPT !.pc = "running", !.role = role, !.roles = Tail(@)]
  <1>1. Stays /\ Reserves
    BY QuietStays, RequestsOrdinary DEF Lane, Requests
  <1>2. /\ Calm(Returned(rec)) /\ Calm(next) /\ \A r \in Interrupts(rec) : Calm(r)
    <2>1. Calm(next)
      BY OwnCallOK DEF Calm, CallOK, CallFields
    <2>. QED
      BY <2>1, OwnCallOK DEF Interrupts
  <1>3. EventOK(ev, {})
    BY EventsOK
  <1>4. m \in Missions => IsMission(ms) /\ ms.state = missions[m].state
                          /\ ms.hash = missions[m].hash /\ ms.consent = missions[m].consent
    BY HeldSame DEF IsMission, MissionFields
  <1>5. \/ \E r \in Interrupts(rec) : Only(c, r)
        \/ Only(c, Returned(rec))
        \/ Wrote(m, ev, ms) /\ Become(c, next)
        \/ Broke(m, ev, missions[m]) /\ Return(c)
    BY DEF Lane
  <1>. HIDE DEF m, rec, ev, ms, next
  <1>6. CASE \E r \in Interrupts(rec) : Only(c, r)
    BY <1>1, <1>2, <1>6, OnlyOrdinary DEF Ordinary
  <1>7. CASE Only(c, Returned(rec))
    BY <1>1, <1>2, <1>7, OnlyOrdinary DEF Ordinary
  <1>8. CASE Wrote(m, ev, ms) /\ Become(c, next)
    BY <1>1, <1>2, <1>3, <1>4, <1>8, RecordOrdinary, CalmBecomes DEF Ordinary
  <1>9. CASE Broke(m, ev, missions[m]) /\ Return(c)
    BY <1>1, <1>3, <1>4, <1>9, RecordOrdinary, ReturnCalm DEF Ordinary
  <1>. QED
    BY <1>5, <1>6, <1>7, <1>8, <1>9

LEMMA LaneReturnOrdinary ==
  ASSUME CInv, NEW c \in AllCalls, LaneReturn(c)
  PROVE  Ordinary
  <1>. DEFINE m == call[c].m
              rec == call[c]
              none == [Held(m) EXCEPT !.pending_lane = "None"]
              returned == LaneRec("LaneReturned", rec.role)
              overtaken == LaneRec("LaneOvertaken", rec.role)
  <1>1. Stays /\ Reserves
    BY QuietStays, RequestsOrdinary DEF LaneReturn, Requests
  <1>2. EventOK(returned, {}) /\ EventOK(overtaken, {})
    BY EventsOK
  <1>3. m \in Missions => IsMission(none) /\ none.state = missions[m].state
                          /\ none.hash = missions[m].hash /\ none.consent = missions[m].consent
    BY HeldSame DEF IsMission, MissionFields
  <1>4. ASSUME NEW next \in Answers(rec, missions[m]) PROVE Calm([next EXCEPT !.role = "None"])
    <2>1. ASSUME NEW k PROVE \A r \in Checked([rec EXCEPT !.rest = k]) : Calm(r)
      <3>1. CallOK([rec EXCEPT !.rest = k])
        BY OwnCallOK DEF CallOK, CallFields
      <3>. QED
        BY <3>1, CallsGo
    <2>2. Plain("Block").name \in EndNames /\ Failure(rec.role).name \in EndNames
      BY PlainNames DEF EndNames, Failure
    <2>3. Calm(EndWith(rec, Plain("Block"))) /\ Calm(EndWith(rec, Failure(rec.role)))
          /\ Calm(Ending(rec, "end"))
      BY <2>2, OwnCallOK
    <2>4. Calm(next)
      <3>1. CASE next \in {EndWith(rec, Plain("Block")), EndWith(rec, Failure(rec.role)),
                           Ending(rec, "end")}
        BY <2>3, <3>1
      <3>2. CASE \E k : next \in Checked([rec EXCEPT !.rest = k])
        BY <2>1, <3>2
      <3>. QED
        BY <1>4, <3>1, <3>2, Zenon DEF Answers
    <2>. QED
      BY <2>4 DEF Calm, CallOK, CallFields
  <1>5. Calm(Returned(rec))
    BY OwnCallOK
  <1>6. \/ Only(c, Returned(rec))
        \/ (Wrote(m, overtaken, none) \/ Broke(m, overtaken, missions[m])) /\ Return(c)
        \/ /\ Wrote(m, returned, none)
           /\ \E next \in Answers(rec, missions[m]) : Become(c, [next EXCEPT !.role = "None"])
        \/ Broke(m, returned, missions[m]) /\ Return(c)
    BY DEF LaneReturn
  <1>. HIDE DEF m, rec, none, returned, overtaken
  <1>7. CASE Only(c, Returned(rec))
    BY <1>1, <1>5, <1>7, OnlyOrdinary DEF Ordinary
  <1>8. CASE (Wrote(m, overtaken, none) \/ Broke(m, overtaken, missions[m])) /\ Return(c)
    BY <1>1, <1>2, <1>3, <1>8, RecordOrdinary, ReturnCalm DEF Ordinary
  <1>9. CASE /\ Wrote(m, returned, none)
             /\ \E next \in Answers(rec, missions[m]) : Become(c, [next EXCEPT !.role = "None"])
    <2>1. Calms
      BY <1>4, <1>9, CalmBecomes
    <2>. QED
      BY <1>1, <1>2, <1>3, <1>9, <2>1, RecordOrdinary DEF Ordinary
  <1>10. CASE Broke(m, returned, missions[m]) /\ Return(c)
    BY <1>1, <1>2, <1>3, <1>10, RecordOrdinary, ReturnCalm DEF Ordinary
  <1>. QED
    BY <1>6, <1>7, <1>8, <1>9, <1>10

LEMMA RefuseEffectOrdinary ==
  ASSUME CInv, NEW c \in AllCalls, RefuseEffect(c)
  PROVE  Ordinary
  <1>. DEFINE m == call[c].m
              rec == call[c]
              ev == Rec("EffectRefused")
  <1>1. Stays /\ Reserves
    BY QuietStays, RequestsOrdinary DEF RefuseEffect, Requests
  <1>2. EventOK(ev, {})
    BY EventsOK
  <1>3. m \in Missions => IsMission(Held(m)) /\ Held(m).state = missions[m].state
                       /\ Held(m).hash = missions[m].hash /\ Held(m).consent = missions[m].consent
    BY HeldSame
  <1>4. Calm(Returned(rec)) /\ Calm(Ending(rec, "end"))
    BY OwnCallOK
  <1>5. \/ Wrote(m, ev, Held(m)) /\ Become(c, Ending(rec, "end"))
        \/ Broke(m, ev, missions[m]) /\ Return(c)
        \/ Only(c, Returned(rec))
    BY DEF RefuseEffect
  <1>. HIDE DEF m, rec, ev
  <1>6. CASE Wrote(m, ev, Held(m)) /\ Become(c, Ending(rec, "end"))
    BY <1>1, <1>2, <1>3, <1>4, <1>6, RecordOrdinary, CalmBecomes DEF Ordinary
  <1>7. CASE Broke(m, ev, missions[m]) /\ Return(c)
    BY <1>1, <1>2, <1>3, <1>7, RecordOrdinary, ReturnCalm DEF Ordinary
  <1>8. CASE Only(c, Returned(rec))
    BY <1>1, <1>4, <1>8, OnlyOrdinary DEF Ordinary
  <1>. QED
    BY <1>5, <1>6, <1>7, <1>8

LEMMA PhaseDoneOrdinary ==
  ASSUME CInv, NEW c \in AllCalls, PhaseDone(c)
  PROVE  Ordinary
  <1>. DEFINE m == call[c].m
              t == IF call[c].phase = "Verifying" THEN Plain("VerifyPass") ELSE Plain("PhaseDone")
  <1>1. t.name \notin {"Revise", "Consent"}
    BY PlainNames
  <1>2. (Unwritten /\ UNCHANGED Requests) \/ Fired(m, t) \/ NotFired(m, t)
    BY DEF PhaseDone
  <1>3. Calms /\ Stays
    BY ReturnCalm, QuietStays DEF PhaseDone
  <1>. HIDE DEF m, t
  <1>4. Tamed /\ Journals /\ Reserves
    BY <1>1, <1>2, UnwrittenStill, RequestsOrdinary, FiredOrdinary, NotFiredOrdinary DEF Requests
  <1>. QED
    BY <1>3, <1>4 DEF Ordinary

LEMMA FinishOrdinary ==
  ASSUME CInv, NEW c \in AllCalls, Finish(c) \/ Leave(c)
  PROVE  Ordinary
  <1>1. CASE Finish(c)
    <2>1. Tamed /\ Journals /\ Reserves
      BY <1>1, UnwrittenOrdinary, RequestsOrdinary DEF Finish, memory, journal
    <2>. QED
      BY <1>1, <2>1, ReturnCalm, QuietStays DEF Finish, Ordinary
  <1>2. CASE Leave(c)
    <2>1. Tamed /\ Journals /\ Reserves
      BY <1>2, UnwrittenStill, UnreserveOrdinary DEF Leave
    <2>2. Calms
      BY <1>2, CallsNew, CalmBecomes DEF Leave
    <2>. QED
      BY <1>2, <2>1, <2>2, QuietStays DEF Leave, Ordinary
  <1>. QED
    BY <1>1, <1>2

LEMMA DispatchOrdinary ==
  ASSUME CInv, NEW c \in AllCalls, Dispatch(c)
  PROVE  Ordinary
  <1>. DEFINE m == call[c].m
              rec == call[c]
              e == missions[m].next_effect
              ev == EffectRec("EffectDispatched", e)
              sending == [Held(m) EXCEPT !.next_effect = @ + 1, !.unsettled = e,
                                         !.dispatched_in_phase = TRUE]
              next == [rec EXCEPT !.pc = "perform", !.effect = e, !.rest = @ - 1]
  <1>1. Stays /\ Reserves
    BY RequestsOrdinary DEF Dispatch, Requests, Stays
  <1>2. EventOK(ev, {})
    BY EventsOK
  <1>3. m \in Missions => IsMission(sending) /\ sending.state = missions[m].state
                       /\ sending.hash = missions[m].hash /\ sending.consent = missions[m].consent
    BY HeldSame DEF IsMission, MissionFields
  <1>4. Calm(Returned(rec)) /\ Calm(Ending(rec, "end")) /\ Calm(Ending(rec, "stop"))
    BY OwnCallOK
  <1>5. Calm(next)
    BY OwnCallOK DEF Calm, CallOK, CallFields
  <1>6. \/ Only(c, Ending(rec, "stop")) \/ Only(c, Returned(rec)) \/ Only(c, Ending(rec, "end"))
        \/ Wrote(m, ev, sending) /\ Become(c, next)
        \/ Broke(m, ev, missions[m]) /\ Return(c)
    BY DEF Dispatch
  <1>. HIDE DEF m, rec, ev, sending, next
  <1>7. CASE Only(c, Ending(rec, "stop")) \/ Only(c, Returned(rec)) \/ Only(c, Ending(rec, "end"))
    BY <1>1, <1>4, <1>7, OnlyOrdinary DEF Ordinary
  <1>8. CASE Wrote(m, ev, sending) /\ Become(c, next)
    BY <1>1, <1>2, <1>3, <1>5, <1>8, RecordOrdinary, CalmBecomes DEF Ordinary
  <1>9. CASE Broke(m, ev, missions[m]) /\ Return(c)
    BY <1>1, <1>2, <1>3, <1>9, RecordOrdinary, ReturnCalm DEF Ordinary
  <1>. QED
    BY <1>6, <1>7, <1>8, <1>9

LEMMA PerformOrdinary ==
  ASSUME CInv, NEW c \in AllCalls, Perform(c)
  PROVE  Ordinary
  <1>. DEFINE next(status) == [call[c] EXCEPT !.pc = "settle", !.status = status]
  <1>1. Tamed /\ Journals /\ Reserves
    BY UnwrittenOrdinary, RequestsOrdinary DEF Perform, memory, journal
  <1>2. Stays
    BY DEF Perform, Stays
  <1>3. ASSUME NEW status PROVE Calm(next(status))
    BY OwnCallOK DEF Calm, CallOK, CallFields
  <1>4. \E status : Become(c, next(status))
    BY DEF Perform
  <1>. HIDE DEF next
  <1>5. Calms
    BY <1>3, <1>4, CalmBecomes
  <1>. QED
    BY <1>1, <1>2, <1>5 DEF Ordinary

LEMMA EndFailCalm ==
  ASSUME CInv, NEW c \in AllCalls
  PROVE  Calm(EndFail(call[c]))
  <1>. DEFINE r == Ending(call[c], "end")
  <1>1. CallOK(r) /\ r.pc = "end"
    BY CallsEnd DEF CInv, CallInv
  <1>. HIDE DEF r
  <1>2. Calm([r EXCEPT !.ok = FALSE])
    BY <1>1 DEF Calm, CallOK, CallFields
  <1>. QED
    BY <1>2 DEF EndFail, r

LEMMA SettleOrdinary ==
  ASSUME CInv, NEW c \in AllCalls, Settle(c)
  PROVE  Ordinary
  <1>. DEFINE m == call[c].m
              rec == call[c]
              ev == EffectSettled(rec.effect, rec.status)
              ms == [Held(m) EXCEPT !.unsettled = NoEffect]
              onward == [rec EXCEPT !.status = "None", !.effect = NoEffect]
              pend == [rec EXCEPT !.pc = "pend", !.status = "None"]
  <1>1. Stays /\ Reserves
    BY QuietStays, RequestsOrdinary DEF Settle, Requests
  <1>2. EventOK(ev, {})
    BY EventsOK
  <1>3. m \in Missions => IsMission(ms) /\ ms.state = missions[m].state
                          /\ ms.hash = missions[m].hash /\ ms.consent = missions[m].consent
    BY HeldSame DEF IsMission, MissionFields
  <1>4. Calm(Returned(rec)) /\ Calm(EndFail(rec))
    BY OwnCallOK, EndFailCalm
  <1>5. \A r \in AfterSettled(rec) : Calm(r)
    <2>1. CallOK(onward) /\ Calm(pend)
      BY OwnCallOK DEF Calm, CallOK, CallFields
    <2>2. Calm(Onward(onward))
      BY <2>1, CallsGo
    <2>3. \A r \in Interrupts(rec) : Calm(r)
      BY OwnCallOK DEF Interrupts
    <2>. QED
      BY <2>1, <2>2, <2>3 DEF AfterSettled
  <1>6. \/ Only(c, EndFail(rec)) \/ Only(c, Returned(rec))
        \/ Wrote(m, ev, ms) /\ \E next \in AfterSettled(rec) : Become(c, next)
        \/ Broke(m, ev, missions[m]) /\ Become(c, EndFail(rec))
    BY DEF Settle
  <1>. HIDE DEF m, rec, ev, ms
  <1>7. CASE Only(c, EndFail(rec)) \/ Only(c, Returned(rec))
    BY <1>1, <1>4, <1>7, OnlyOrdinary DEF Ordinary
  <1>8. CASE Wrote(m, ev, ms) /\ \E next \in AfterSettled(rec) : Become(c, next)
    BY <1>1, <1>2, <1>3, <1>5, <1>8, RecordOrdinary, CalmBecomes DEF Ordinary
  <1>9. CASE Broke(m, ev, missions[m]) /\ Become(c, EndFail(rec))
    BY <1>1, <1>2, <1>3, <1>4, <1>9, RecordOrdinary, CalmBecomes DEF Ordinary
  <1>. QED
    BY <1>6, <1>7, <1>8, <1>9

LEMMA PendOrdinary ==
  ASSUME CInv, NEW c \in AllCalls, Pend(c)
  PROVE  Ordinary
  <1>. DEFINE m == call[c].m
              rec == call[c]
              ev == EffectRec("ApprovalPending", rec.effect)
              ms == [Held(m) EXCEPT !.open_action = rec.effect]
              waits == [rec EXCEPT !.pc = "wait"]
  <1>1. Stays /\ Reserves
    BY QuietStays, RequestsOrdinary DEF Pend, Requests
  <1>2. EventOK(ev, {})
    BY EventsOK
  <1>3. m \in Missions => IsMission(ms) /\ ms.state = missions[m].state
                          /\ ms.hash = missions[m].hash /\ ms.consent = missions[m].consent
    BY HeldSame DEF IsMission, MissionFields
  <1>4. Calm(Returned(rec)) /\ Calm(EndFail(rec))
    BY OwnCallOK, EndFailCalm
  <1>5. Calm(waits)
    BY OwnCallOK DEF Calm, CallOK, CallFields
  <1>6. \/ Only(c, EndFail(rec)) \/ Only(c, waits) \/ Only(c, Returned(rec))
        \/ Wrote(m, ev, ms) /\ Become(c, waits)
        \/ Broke(m, ev, missions[m]) /\ Become(c, EndFail(rec))
    BY DEF Pend
  <1>. HIDE DEF m, rec, ev, ms, waits
  <1>7. CASE Only(c, EndFail(rec)) \/ Only(c, waits) \/ Only(c, Returned(rec))
    BY <1>1, <1>4, <1>5, <1>7, OnlyOrdinary DEF Ordinary
  <1>8. CASE Wrote(m, ev, ms) /\ Become(c, waits)
    BY <1>1, <1>2, <1>3, <1>5, <1>8, RecordOrdinary, CalmBecomes DEF Ordinary
  <1>9. CASE Broke(m, ev, missions[m]) /\ Become(c, EndFail(rec))
    BY <1>1, <1>2, <1>3, <1>4, <1>9, RecordOrdinary, CalmBecomes DEF Ordinary
  <1>. QED
    BY <1>6, <1>7, <1>8, <1>9

LEMMA WaitOrdinary ==
  ASSUME CInv, NEW c \in AllCalls, Wait(c)
  PROVE  Ordinary
  <1>. DEFINE m == call[c].m
              rec == call[c]
              t == AwaitApproval(rec.effect, rec.rest, rec.roles)
  <1>1. Stays
    BY QuietStays DEF Wait
  <1>2. t.name \notin {"Revise", "Consent"}
    BY PlainNames
  <1>3. Calm(Returned(rec)) /\ Calm(EndFail(rec))
    BY OwnCallOK, EndFailCalm
  <1>4. \/ (Only(c, Returned(rec)) \/ Only(c, EndFail(rec))) /\ UNCHANGED Requests
        \/ Fired(m, t) /\ Return(c)
        \/ NotFired(m, t) /\ Become(c, EndFail(rec))
    BY DEF Wait
  <1>. HIDE DEF m, rec, t
  <1>5. CASE (Only(c, Returned(rec)) \/ Only(c, EndFail(rec))) /\ UNCHANGED Requests
    BY <1>1, <1>3, <1>5, OnlyOrdinary, RequestsOrdinary DEF Requests, Ordinary
  <1>6. CASE Fired(m, t) /\ Return(c)
    BY <1>1, <1>2, <1>6, FiredOrdinary, ReturnCalm DEF Ordinary
  <1>7. CASE NotFired(m, t) /\ Become(c, EndFail(rec))
    BY <1>1, <1>2, <1>3, <1>7, NotFiredOrdinary, CalmBecomes DEF Ordinary
  <1>. QED
    BY <1>4, <1>5, <1>6, <1>7

LEMMA QueryOrdinary ==
  ASSUME CInv, NEW c \in AllCalls, Query(c)
  PROVE  Ordinary
  <1>. DEFINE next(status) == [call[c] EXCEPT !.pc = "resolve", !.status = status]
  <1>1. Tamed /\ Journals /\ Reserves
    BY UnwrittenOrdinary, RequestsOrdinary DEF Query, memory, journal
  <1>2. Stays
    BY QuietStays DEF Query
  <1>3. ASSUME NEW status PROVE Calm(next(status))
    BY OwnCallOK DEF Calm, CallOK, CallFields
  <1>4. \E status : Become(c, next(status))
    BY DEF Query
  <1>. HIDE DEF next
  <1>5. Calms
    BY <1>3, <1>4, CalmBecomes
  <1>. QED
    BY <1>1, <1>2, <1>5 DEF Ordinary

LEMMA ResolveOrdinary ==
  ASSUME CInv, NEW c \in AllCalls, Resolve(c)
  PROVE  Ordinary
  <1>. DEFINE m == call[c].m
              w == missions[m].waiting
              rec == [call[c] EXCEPT !.status = "None"]
              go == [rec EXCEPT !.pc = "approve", !.effect = w.effect,
                                !.phase = w.phase, !.rest = w.rest, !.roles = w.roles]
              denied == OfEffect("ActionDenied", w.effect)
              lapsed == OfEffect("ApprovalLapsed", w.effect)
  <1>1. Stays /\ Reserves
    BY QuietStays, RequestsOrdinary DEF Resolve, Requests
  <1>2. CallOK(rec)
    BY OwnCallOK DEF CallOK, CallFields
  <1>3. denied.name \in EndNames /\ lapsed.name \in EndNames
    BY PlainNames DEF EndNames
  <1>4. \E next \in {Ending(rec, "end"), Returned(rec), EndWith(rec, denied), EndWith(rec, lapsed),
                     go} : Only(c, next)
    BY DEF Resolve
  <1>. HIDE DEF rec, denied, lapsed
  <1>5. Calm(go)
    BY <1>2 DEF Calm, CallOK, CallFields
  <1>. HIDE DEF go
  <1>6. /\ Calm(Returned(rec)) /\ Calm(Ending(rec, "end"))
        /\ Calm(EndWith(rec, denied)) /\ Calm(EndWith(rec, lapsed))
    BY <1>2, <1>3, CallsEnd DEF Calm
  <1>7. Tamed /\ Journals /\ Calms
    BY <1>4, <1>5, <1>6, OnlyOrdinary
  <1>. QED
    BY <1>1, <1>7 DEF Ordinary

LEMMA ApproveOrdinary ==
  ASSUME CInv, NEW c \in AllCalls, Approve(c)
  PROVE  Ordinary
  <1>. DEFINE m == call[c].m
              rec == call[c]
              t == ActionApproved(rec.effect, rec.phase)
              next == [rec EXCEPT !.pc = "settled", !.then = "rest", !.effect = NoEffect]
  <1>1. Stays
    BY QuietStays DEF Approve
  <1>2. t.name \notin {"Revise", "Consent"}
    BY PlainNames
  <1>3. Calm(next)
    BY OwnCallOK DEF Calm, CallOK, CallFields
  <1>4. Calm(Returned(rec))
    BY OwnCallOK
  <1>5. \/ /\ Accepts(m, t) /\ Wrote(m, Transitioned(t), Apply(Held(m), t))
           /\ reserved' = [reserved EXCEPT ![m] = {c}] /\ Become(c, next)
        \/ NotFired(m, t) /\ Return(c)
        \/ Only(c, Returned(rec)) /\ UNCHANGED Requests
    BY DEF Approve
  <1>. HIDE DEF m, rec, t, next
  <1>6. CASE /\ Accepts(m, t) /\ Wrote(m, Transitioned(t), Apply(Held(m), t))
             /\ reserved' = [reserved EXCEPT ![m] = {c}] /\ Become(c, next)
    <2>1. ASSUME m \in Missions PROVE Tame(missions[m], Apply(Held(m), t))
      <3>1. IsMission(Held(m)) /\ Held(m).state = missions[m].state /\ Tame(missions[m], Held(m))
        BY <2>1, HeldSame
      <3>2. Tame(Held(m), Apply(Held(m), t))
        BY <1>2, <1>6, <3>1, TameApply DEF Accepts
      <3>. QED
        BY <3>1, <3>2, TameThen
    <2>2. Tamed /\ Journals
      BY <1>2, <1>6, <2>1, EventsOK, WroteOrdinary
    <2>3. call'[c] = next
      BY <1>6 DEF Become, CInv, ShapeInv
    <2>4. Reserves
      BY <1>3, <1>6, <2>3 DEF Reserves, Calm, CInv, ShapeInv
    <2>. QED
      BY <1>1, <1>3, <1>6, <2>2, <2>4, CalmBecomes DEF Ordinary
  <1>7. CASE NotFired(m, t) /\ Return(c)
    BY <1>1, <1>2, <1>7, NotFiredOrdinary, ReturnCalm DEF Ordinary
  <1>8. CASE Only(c, Returned(rec)) /\ UNCHANGED Requests
    BY <1>1, <1>4, <1>8, OnlyOrdinary, RequestsOrdinary DEF Requests, Ordinary
  <1>. QED
    BY <1>5, <1>6, <1>7, <1>8

LEMMA TakeResumeOrdinary ==
  ASSUME CInv, NEW c \in AllCalls, TakeResume(c)
  PROVE  Ordinary
  <1>. DEFINE m == call[c].m
              ev == Rec("Resumed")
              ms == [missions[m] EXCEPT !.held = FALSE, !.held_journaled = FALSE]
  <1>1. Stays /\ Calms
    BY ReturnCalm DEF TakeResume, Stays
  <1>2. EventOK(ev, {})
    BY EventsOK
  <1>3. m \in Missions => IsMission(ms) /\ ms.state = missions[m].state
                          /\ ms.hash = missions[m].hash /\ ms.consent = missions[m].consent
    BY StillTame DEF IsMission, MissionFields
  <1>4. Reserves
    BY RequestsOrdinary DEF TakeResume, ConsumeResume, Requests
  <1>5. Wrote(m, ev, ms) \/ Broke(m, ev, missions[m]) \/ (missions' = missions /\ log' = log)
    BY DEF TakeResume, ResumeYes, ResumeNo, journal
  <1>. HIDE DEF m, ev, ms
  <1>6. Tamed /\ Journals
    BY <1>2, <1>3, <1>5, RecordOrdinary, UnwrittenOrdinary
  <1>. QED
    BY <1>1, <1>4, <1>6 DEF Ordinary

\* An answer that is refused.
LEMMA RefuseConsentOrdinary ==
  ASSUME CInv, NEW c \in AllCalls, RefuseConsent(c)
  PROVE  Tamed /\ Journals /\ Reserves
  <1>. DEFINE m == call[c].m
              ev == Rec("ConsentRefused")
  <1>1. EventOK(ev, {})
    BY EventsOK
  <1>2. m \in Missions => IsMission(Held(m)) /\ Held(m).state = missions[m].state
                       /\ Held(m).hash = missions[m].hash /\ Held(m).consent = missions[m].consent
    BY HeldSame
  <1>3. (Wrote(m, ev, Held(m)) \/ Broke(m, ev, missions[m])) /\ Unreserve(c)
    BY DEF RefuseConsent
  <1>. HIDE DEF m, ev
  <1>. QED
    BY <1>1, <1>2, <1>3, RecordOrdinary, UnreserveOrdinary

\* Every answer but a yes.
LEMMA TakeAnswerOrdinary ==
  ASSUME CInv, NEW c \in AllCalls, TakeAnswer(c), ~TakeYes(c)
  PROVE  Ordinary
  <1>. DEFINE m == call[c].m
              t == OfHash("Deny", missions[m].hash)
  <1>1. Calms /\ proc' = proc
    BY ReturnCalm DEF TakeAnswer
  <1>2. t.name \notin {"Revise", "Consent"}
    BY PlainNames
  <1>3. CASE TakeDiscarded(c)
    BY <1>1, <1>3, UnwrittenStill, UnreserveOrdinary DEF TakeDiscarded, Stays, Ordinary
  <1>4. CASE TakeNo(c)
    <2>1. (Fired(m, t) \/ NotFired(m, t)) /\ yes' = yes
      BY <1>4 DEF TakeNo
    <2>. HIDE DEF m, t
    <2>2. Tamed /\ Journals /\ Reserves
      BY <1>2, <2>1, FiredOrdinary, NotFiredOrdinary
    <2>. QED
      BY <1>1, <2>1, <2>2 DEF Stays, Ordinary
  <1>5. CASE TakeRefusal(c)
    BY <1>1, <1>5, RefuseConsentOrdinary DEF TakeRefusal, Stays, Ordinary
  <1>. QED
    BY <1>3, <1>4, <1>5 DEF TakeAnswer

LEMMA CallOrdinary ==
  ASSUME CInv, NEW c \in AllCalls, OwnSteps(c) \/ (OutboundReturns(c) /\ ~(TakeAnswer(c) /\ TakeYes(c)))
  PROVE  Ordinary
  BY StopFireOrdinary, WithdrawOrdinary, CloseAskOrdinary, CloseTakeOrdinary, EndOrdinary,
     EndFireOrdinary, LaneOrdinary, LaneReturnOrdinary, RefuseEffectOrdinary, PhaseDoneOrdinary,
     FinishOrdinary, DispatchOrdinary, PerformOrdinary, SettleOrdinary, PendOrdinary, WaitOrdinary,
     QueryOrdinary, ResolveOrdinary, ApproveOrdinary, TakeResumeOrdinary, TakeAnswerOrdinary
  DEF OwnSteps, OutboundReturns

(***************************************************************************)
(* Opening, and the broker on its own.                                      *)
(***************************************************************************)
LEMMA OpeningCalm ==
  ASSUME NEW pc, pc # "asking", Opening(pc)
  PROVE  Calms
  BY CallsNew, CalmBecomes DEF Opening, Calm

LEMMA MemoryStill ==
  ASSUME CInv, UNCHANGED <<memory, journal>>
  PROVE  Tamed /\ Journals /\ Reserves
  BY UnwrittenOrdinary, RequestsOrdinary DEF memory, journal

LEMMA OpeningOrdinary ==
  ASSUME CInv,
         \/ AdoptActions \/ OpenSession \/ RecoverActions \/ RecoverClose \/ Overtake
         \/ BlockInterrupted \/ LoadContent \/ ContentWithdraw \/ ContentStop \/ HoldUnfinished
  PROVE  Ordinary
  <1>1. CASE AdoptActions
    <2>1. Calms
      BY <1>1, OpeningCalm DEF AdoptActions
    <2>. QED
      BY <1>1, <2>1, MemoryStill DEF AdoptActions, history, Stays, Ordinary
  <1>2. CASE OpenSession
    <2>1. Calms /\ Stays /\ Reserves /\ missions' = missions
      BY <1>2, OpeningCalm, RequestsOrdinary DEF OpenSession, history, Stays, Requests
    <2>2. EventOK(Rec("Held"), {})
      BY EventsOK
    <2>3. MayBecome(log', 0, Rec("Held"))
      BY <1>2, BrokeLogMay DEF OpenSession, WroteLog, MayBecome
    <2>4. Tamed /\ Journals
      BY <2>1, <2>2, <2>3, StillTame DEF Tamed, Journals, CInv, MemInv
    <2>. QED
      BY <2>1, <2>4 DEF Ordinary
  <1>3. CASE RecoverActions
    <2>1. Calms
      BY <1>3, OpeningCalm DEF RecoverActions
    <2>. QED
      BY <1>3, <2>1, MemoryStill DEF RecoverActions, history, Stays, Ordinary
  <1>4. CASE RecoverClose
    <2>1. Calms
      <3>1. ASSUME NEW m
            PROVE  Calm([NewCall("open", "settled", m) EXCEPT !.then = "recover_close"])
        <4>. DEFINE new == NewCall("open", "settled", m)
        <4>1. CallOK(new) /\ new.pc = "settled"
          BY CallsNew
        <4>. HIDE DEF new
        <4>2. Calm([new EXCEPT !.then = "recover_close"])
          BY <4>1 DEF Calm, CallOK, CallFields
        <4>. QED
          BY <4>2 DEF new
      <3>2. \/ Opening("failed") \/ Opening("overtake")
            \/ \E m : Become(Opener, [NewCall("open", "settled", m) EXCEPT !.then = "recover_close"])
        BY <1>4 DEF RecoverClose
      <3>. QED
        BY <3>1, <3>2, OpeningCalm, CalmBecomes
    <2>. QED
      BY <1>4, <2>1, UntouchedOrdinary, QuietStays DEF RecoverClose, Ordinary
  <1>5. CASE Overtake
    <2>. DEFINE ev(m) == LaneRec("LaneOvertaken", missions[m].pending_lane)
                ms(m) == [Held(m) EXCEPT !.pending_lane = "None"]
    <2>1. Stays /\ Reserves
      BY <1>5, QuietStays, RequestsOrdinary DEF Overtake, Requests
    <2>2. Calms
      BY <1>5, OpeningCalm DEF Overtake, Calms
    <2>3. \/ Unwritten
          \/ \E m \in Missions : Wrote(m, ev(m), ms(m)) \/ Broke(m, ev(m), missions[m])
      BY <1>5 DEF Overtake
    <2>4. ASSUME NEW m \in Missions
          PROVE  /\ EventOK(ev(m), {})
                 /\ IsMission(ms(m)) /\ ms(m).state = missions[m].state
                 /\ ms(m).hash = missions[m].hash /\ ms(m).consent = missions[m].consent
      <3>1. EventOK(ev(m), {})
        BY EventsOK
      <3>2. /\ IsMission(ms(m)) /\ ms(m).state = missions[m].state
            /\ ms(m).hash = missions[m].hash /\ ms(m).consent = missions[m].consent
        BY HeldSame DEF IsMission, MissionFields
      <3>. QED
        BY <3>1, <3>2
    <2>. HIDE DEF ev, ms
    <2>5. Tamed /\ Journals
      BY <2>3, <2>4, UnwrittenStill, RecordOrdinary
    <2>. QED
      BY <2>1, <2>2, <2>5 DEF Ordinary
  <1>6. CASE BlockInterrupted
    <2>. DEFINE cause(ms) == Plain(IF ms.unsettled # NoEffect THEN "BlockOutcomeUnknown" ELSE "Block")
                end(m, t) == [NewCall("open", "end", m) EXCEPT !.then = "block", !.trigger = t]
    <2>1. ASSUME NEW m, NEW t, t.name \in EndNames PROVE Calm(end(m, t))
      <3>. DEFINE new == NewCall("open", "end", m)
      <3>1. CallOK(new) /\ new.pc = "end"
        BY CallsNew
      <3>. HIDE DEF new
      <3>2. Calm([new EXCEPT !.then = "block", !.trigger = t])
        BY <2>1, <3>1 DEF Calm, CallOK, CallFields
      <3>. QED
        BY <3>2 DEF new
    <2>2. \A ms : cause(ms).name \in EndNames
      BY PlainNames DEF EndNames
    <2>3. Opening("load") \/ \E m, ms : Become(Opener, end(m, cause(ms)))
      BY <1>6 DEF BlockInterrupted
    <2>. HIDE DEF end, cause
    <2>4. Calms
      BY <2>1, <2>2, <2>3, OpeningCalm, CalmBecomes
    <2>. QED
      BY <1>6, <2>4, UntouchedOrdinary, QuietStays DEF BlockInterrupted, Ordinary
  <1>7. CASE LoadContent
    <2>1. Calms
      BY <1>7, OpeningCalm DEF LoadContent
    <2>. QED
      BY <1>7, <2>1, MemoryStill DEF LoadContent, history, Stays, Ordinary
  <1>8. CASE ContentWithdraw
    <2>. DEFINE next(m) == [NewCall("open", "content_stop", m) EXCEPT
                              !.then = "content", !.ok = WithdrawOk(port, action, m)]
    <2>1. ASSUME NEW m PROVE Calm(next(m))
      <3>. DEFINE new == NewCall("open", "content_stop", m)
                  ok == WithdrawOk(port, action, m)
      <3>1. CallOK(new) /\ new.pc = "content_stop"
        BY CallsNew
      <3>. HIDE DEF new, ok
      <3>2. Calm([new EXCEPT !.then = "content", !.ok = ok])
        BY <3>1 DEF Calm, CallOK, CallFields
      <3>. QED
        BY <3>2 DEF new, ok
    <2>2. Opening("failed") \/ Opening("hold") \/ \E m : Become(Opener, next(m))
      BY <1>8 DEF ContentWithdraw
    <2>. HIDE DEF next
    <2>3. Calms
      BY <2>1, <2>2, OpeningCalm, CalmBecomes
    <2>. QED
      BY <1>8, <2>3, MemoryStill, QuietStays DEF ContentWithdraw, Ordinary
  <1>9. CASE ContentStop
    <2>. DEFINE m == call[Opener].m
                next(ok) == [call[Opener] EXCEPT !.pc = "settled", !.ok = ok]
    <2>1. ASSUME NEW ok PROVE Calm(next(ok))
      <3>1. CallOK(call[Opener])
        BY DEF CInv, CallInv, AllCalls
      <3>. QED
        BY <3>1 DEF Calm, CallOK, CallFields
    <2>2. \E ok : Become(Opener, next(ok))
      BY <1>9 DEF ContentStop
    <2>3. Fired(m, Plain("Stop")) \/ NotFired(m, Plain("Stop")) \/ Untouched
      BY <1>9 DEF ContentStop
    <2>. HIDE DEF next, m
    <2>4. Calms
      BY <2>1, <2>2, CalmBecomes
    <2>5. Tamed /\ Journals /\ Reserves
      BY <2>3, PlainNames, FiredOrdinary, NotFiredOrdinary, UntouchedOrdinary
    <2>. QED
      BY <1>9, <2>4, <2>5, QuietStays DEF ContentStop, Ordinary
  <1>10. CASE HoldUnfinished
    <2>. DEFINE held(m) == [missions[m] EXCEPT !.held = TRUE, !.held_journaled = FALSE]
    <2>1. \A m \in Missions : Tame(missions[m], held(m))
      <3>. SUFFICES ASSUME NEW m \in Missions PROVE Tame(missions[m], held(m))
        OBVIOUS
      <3>1. IsMission(held(m)) /\ held(m).state = missions[m].state
            /\ held(m).hash = missions[m].hash /\ held(m).consent = missions[m].consent
        BY StillTame DEF IsMission, MissionFields
      <3>. HIDE DEF held
      <3>. QED
        BY <3>1, TameStill
    <2>2. missions' = [m \in Missions |-> IF ~recovery.clean /\ ToBeHeld(missions[m])
                                          THEN held(m) ELSE missions[m]]
      BY <1>10 DEF HoldUnfinished
    <2>. HIDE DEF held
    <2>3. Tamed
      BY <2>1, <2>2, StillTame DEF Tamed
    <2>4. Journals /\ Reserves
      BY <1>10, EventsOK, RequestsOrdinary DEF HoldUnfinished, journal, Requests, Journals, MayBecome
    <2>5. Calms
      BY <1>10, CallsNew, OpeningCalm, CalmBecomes DEF HoldUnfinished
    <2>6. Stays
      BY <1>10 DEF HoldUnfinished, history, Stays
    <2>. QED
      BY <2>3, <2>4, <2>5, <2>6 DEF Ordinary
  <1>. QED
    BY <1>1, <1>2, <1>3, <1>4, <1>5, <1>6, <1>7, <1>8, <1>9, <1>10

LEMMA BrokerOrdinary ==
  ASSUME CInv, Broker
  PROVE  Ordinary
  <1>1. Alone
    BY DEF Broker, OwnerApproves, OwnerDeniesOrExpires, ActionEnds
  <1>. QED
    BY <1>1, MemoryStill DEF Alone, Calms, Stays, Ordinary

(***************************************************************************)
(* The steps that are not ordinary.                                         *)
(***************************************************************************)
\* A mission changes to one that its Owner's answers allow; the others are tame.
LEMMA ChangesKeep ==
  ASSUME CInv, Grows, NEW m \in Missions, NEW ms, MissionOK(ms, yes'[m]),
         missions' = [MissionsHeld EXCEPT ![m] = ms]
  PROVE  MemInv' /\ \A n \in Missions \ {m} : Stands(n)
  <1>1. missions' = [n \in Missions |-> IF n = m THEN ms ELSE MissionsHeld[n]]
    BY DEF MissionsHeld
  <1>2. ASSUME NEW n \in Missions \ {m} PROVE Tame(missions[n], missions'[n])
    BY <1>1, HeldSame
  <1>3. ASSUME NEW n \in Missions \ {m} PROVE MissionOK(missions'[n], yes'[n]) /\ Stands(n)
    <2>1. MissionOK(missions'[n], yes[n])
      BY <1>2, TameKeeps DEF CInv, MemInv
    <2>. QED
      BY <1>2, <2>1 DEF MissionOK, Grows, Tame, Stands
  <1>. QED
    BY <1>1, <1>3 DEF MemInv

LEMMA DraftKeeps ==
  ASSUME CInv, NEW m \in Missions, NEW h \in Hashes, Draft(m, h)
  PROVE  CInv' /\ OneStep(log, log')
  <1>. DEFINE ms == NewMission("Draft", h)
              ev == Drafted(h)
  <1>1. Grows /\ Calms /\ Reserves /\ proc' = proc /\ yes' = yes
    BY RequestsOrdinary DEF Draft, Host, history, Requests, Grows, Calms, CInv, ShapeInv
  <1>2. missions[m].state = "None"
    BY MissionAssumption DEF Draft, NextMission, Missions
  <1>3. EventOK(ev, {})
    BY DEF EventOK
  <1>4. MissionOK(ms, yes'[m])
    BY HashAssumption
       DEF MissionOK, IsMission, MissionFields, NewMission, PastConsent, Working, MayWait
  <1>5. Wrote(m, ev, ms) \/ Broke(m, ev, missions[m])
    BY DEF Draft
  <1>. HIDE DEF ms, ev
  <1>6. MayBecome(log', m, ev)
    BY <1>5, BrokeLogMay DEF Wrote, WroteLog, Broke, MayBecome
  <1>7. MemInv' /\ \A n \in Missions : Stands(n)
    <2>1. CASE Wrote(m, ev, ms)
      BY <1>1, <1>2, <1>4, <2>1, ChangesKeep DEF Wrote, Stands
    <2>2. CASE Broke(m, ev, missions[m])
      <3>1. missions' = missions
        BY <2>2 DEF Broke, CInv, MemInv
      <3>. QED
        BY <1>1, <3>1 DEF CInv, MemInv, Stands
    <2>. QED
      BY <1>5, <2>1, <2>2
  <1>8. LogInv' /\ OneStep(log, log')
    BY <1>1, <1>3, <1>6, LogKeeps
  <1>. QED
    BY <1>1, <1>7, <1>8, CallKeeps, AskKeeps DEF CInv

LEMMA ReviseKeeps ==
  ASSUME CInv, NEW m \in Missions, NEW h \in Hashes, Revise(m, h)
  PROVE  CInv' /\ OneStep(log, log')
  <1>. DEFINE t == OfHash("Revise", h)
              ms == Apply(Held(m), t)
              ev == Transitioned(t)
  <1>1. Grows /\ Calms /\ proc' = proc /\ yes' = yes
    BY DEF Revise, Host, history, Grows, Calms, CInv, ShapeInv
  <1>2. t.name = "Revise" /\ t.hash = h
    BY PlainNames
  <1>3. EventOK(ev, {})
    BY <1>2 DEF EventOK
  <1>4. Fired(m, t) \/ NotFired(m, t)
    BY DEF Revise
  <1>. HIDE DEF t
  <1>5. MissionOK(ms, yes'[m])
    <2>1. IsMission(Held(m)) /\ Legal(Held(m).state, t)
      BY <1>4, HeldSame DEF Fired, FiredAs, NotFired, Accepts
    <2>2. IsMission(ms) /\ ms.state = Transition(Held(m).state, t) /\ ms.hash = h /\ ms.consent = NoHash
      BY <1>2, <2>1, AppliedFields
    <2>3. ms.state = "Draft"
      BY <1>2, <2>1, <2>2 DEF Legal, Transition
    <2>. HIDE DEF ms
    <2>. QED
      BY <2>2, <2>3, HashAssumption DEF MissionOK, PastConsent, Working, MayWait
  <1>6. CASE Fired(m, t)
    <2>1. Wrote(m, ev, ms) /\ Bump(m)
      BY <1>6 DEF Fired, FiredAs
    <2>. HIDE DEF ms, ev
    <2>2. MemInv' /\ \A n \in Missions \ {m} : Stands(n)
      BY <1>1, <1>5, <2>1, ChangesKeep DEF Wrote
    <2>3. Reserves /\ reserved'[m] = {}
      BY <2>1, RequestsOrdinary DEF Bump, CInv, ShapeInv
    <2>4. \A n \in Missions : Stands(n)
      BY <2>2, <2>3 DEF Stands
    <2>5. MayBecome(log', m, ev)
      BY <2>1 DEF Wrote, WroteLog, MayBecome
    <2>6. LogInv' /\ OneStep(log, log')
      BY <1>1, <1>3, <2>5, LogKeeps
    <2>. QED
      BY <1>1, <2>2, <2>3, <2>4, <2>6, CallKeeps, AskKeeps DEF CInv
  <1>7. CASE NotFired(m, t)
    <2>1. Broke(m, ev, missions[m]) /\ reserved' = reserved
      BY <1>7 DEF NotFired, Requests
    <2>. HIDE DEF ev
    <2>2. Tamed /\ Journals /\ Reserves
      BY <1>3, <2>1, StillTame, BrokeOrdinary, RequestsOrdinary
    <2>. QED
      BY <1>1, <2>2, OrdinaryKeeps DEF Stays
  <1>. QED
    BY <1>4, <1>6, <1>7

LEMMA RequestKeeps ==
  ASSUME CInv, NEW c \in Calls, NEW m \in Missions, RequestConsent(c, m)
  PROVE  CInv' /\ OneStep(log, log')
  <1>. DEFINE new == NewCall("consent", "asking", m)
              rec == [new EXCEPT !.hash = missions[m].hash]
  <1>1. CallOK(new) /\ new.pc = "asking" /\ new.m = m
    <2>1. CallOK(new) /\ new.pc = "asking"
      BY CallsNew
    <2>2. new.m = m
      BY DEF NewCall, Idle
    <2>. QED
      BY <2>1, <2>2
  <1>2. Become(c, rec)
    BY DEF RequestConsent
  <1>. HIDE DEF new
  <1>3. CallOK(rec) /\ rec.pc = "asking" /\ rec.m = m /\ rec.hash = missions[m].hash
    BY <1>1 DEF CallOK, CallFields
  <1>. HIDE DEF rec
  <1>4. /\ missions' = missions /\ log' = log /\ yes' = yes /\ proc' = proc /\ proc = "up"
        /\ reserved' = [reserved EXCEPT ![m] = @ \cup {c}]
        /\ missions[m].state = "AwaitingConsent"
    BY DEF RequestConsent, journal, history
  <1>5. call' = [d \in AllCalls |-> IF d = c THEN rec ELSE call[d]] /\ c \in AllCalls
    BY <1>2 DEF Become, CInv, ShapeInv, AllCalls
  <1>6. LogInv' /\ MemInv' /\ ShapeInv' /\ CallInv'
    BY <1>3, <1>4, <1>5 DEF CInv, LogInv, MemInv, ShapeInv, CallInv
  <1>7. ASSUME NEW d \in AllCalls PROVE AskOK(d)'
    <2>1. CASE d = c
      BY <1>3, <1>4, <1>5, <2>1 DEF AskOK
    <2>2. CASE d # c
      <3>1. call'[d] = call[d] /\ AskOK(d)
        BY <1>5, <2>2 DEF CInv, AskInv
      <3>2. \A n \in Missions : d \in reserved'[n] => d \in reserved[n]
        BY <1>4, <2>2 DEF CInv, ShapeInv
      <3>. QED
        BY <1>4, <3>1, <3>2 DEF AskOK
    <2>. QED
      BY <2>1, <2>2
  <1>8. OneStep(log, log')
    BY <1>4, EqualSame DEF OneStep
  <1>. QED
    BY <1>6, <1>7, <1>8 DEF CInv, AskInv

\* The Owner's yes: taken, lost with the append, or to a request that is stale.
LEMMA YesKeeps ==
  ASSUME CInv, NEW c \in AllCalls, TakeAnswer(c), TakeYes(c)
  PROVE  CInv' /\ OneStep(log, log')
  <1>. DEFINE m == call[c].m
              t == OfHash("Consent", call[c].hash)
              ms == [Apply(Held(m), t) EXCEPT !.consent = t.hash]
              ev == Transitioned(t)
  <1>1. Calms /\ proc' = proc
    BY ReturnCalm DEF TakeAnswer
  <1>2. t.name = "Consent" /\ t.hash = call[c].hash
    BY PlainNames
  <1>3. yes' = [yes EXCEPT ![m] = @ \cup {call[c].hash}]
    BY DEF TakeYes
  <1>4. /\ m \in Missions /\ missions[m].state = "AwaitingConsent"
        /\ missions[m].hash = call[c].hash /\ call[c].hash # NoHash
    <2>1. call[c].pc = "asking" /\ ConsentCurrent(c)
      BY DEF TakeAnswer, TakeYes, At
    <2>2. AskOK(c)
      BY DEF CInv, AskInv
    <2>3. m \in Missions /\ missions[m].state = "AwaitingConsent" /\ missions[m].hash = call[c].hash
      BY <2>1, <2>2 DEF AskOK, ConsentCurrent
    <2>. QED
      BY <2>3 DEF CInv, MemInv, MissionOK
  <1>5. Grows /\ call[c].hash \in yes'[m]
    BY <1>3, <1>4 DEF Grows, CInv, ShapeInv
  <1>6. EventOK(ev, {call[c].hash})
    BY <1>2 DEF EventOK
  <1>7. \/ FiredAs(m, t, ms)
        \/ NotFired(m, t)
        \/ RefuseConsent(c)
    BY DEF TakeYes
  <1>. HIDE DEF t
  <1>8. CASE FiredAs(m, t, ms)
    <2>. DEFINE a == Apply(Held(m), t)
    <2>1. /\ IsMission(Held(m)) /\ Held(m).state = "AwaitingConsent" /\ Held(m).hash = call[c].hash
      BY <1>4, HeldSame
    <2>2. IsMission(a) /\ a.state = "Approved" /\ a.hash = call[c].hash
      <3>1. IsMission(a) /\ a.state = Transition(Held(m).state, t) /\ a.hash = Held(m).hash
        BY <1>2, <2>1, AppliedFields
      <3>. QED
        BY <1>2, <2>1, <3>1 DEF Transition
    <2>. HIDE DEF a
    <2>3. LET b == [a EXCEPT !.consent = t.hash]
          IN  IsMission(b) /\ b.state = "Approved" /\ b.hash = call[c].hash /\ b.consent = call[c].hash
      BY <1>2, <2>2 DEF IsMission, MissionFields
    <2>4. MissionOK(ms, yes'[m])
      BY <1>4, <1>5, <2>3 DEF MissionOK, Consented, a
    <2>5. Wrote(m, ev, ms) /\ Bump(m)
      BY <1>8 DEF FiredAs
    <2>. HIDE DEF ms, ev
    <2>6. MemInv' /\ \A n \in Missions \ {m} : Stands(n)
      BY <1>4, <1>5, <2>4, <2>5, ChangesKeep DEF Wrote
    <2>7. Reserves /\ reserved'[m] = {}
      BY <1>4, <2>5, RequestsOrdinary DEF Bump, CInv, ShapeInv
    <2>8. \A n \in Missions : Stands(n)
      BY <2>6, <2>7 DEF Stands
    <2>9. MayBecome(log', m, ev)
      BY <2>5 DEF Wrote, WroteLog, MayBecome
    <2>10. LogInv' /\ OneStep(log, log')
      BY <1>5, <1>6, <2>9, LogKeeps
    <2>. QED
      BY <1>1, <1>5, <2>6, <2>7, <2>8, <2>10, CallKeeps, AskKeeps DEF CInv
  <1>9. CASE NotFired(m, t)
    <2>1. Broke(m, ev, missions[m]) /\ reserved' = reserved
      BY <1>9 DEF NotFired, Requests
    <2>. HIDE DEF ev
    <2>2. missions' = missions
      BY <2>1 DEF Broke, CInv, MemInv
    <2>3. Tamed
      BY <2>2, StillTame DEF Tamed, CInv, MemInv
    <2>4. Reserves
      BY <2>1, RequestsOrdinary
    <2>5. MayBecome(log', m, ev)
      BY <2>1, BrokeLogMay DEF Broke
    <2>6. LogInv' /\ OneStep(log, log')
      BY <1>5, <1>6, <2>5, LogKeeps
    <2>7. \A n \in Missions : Stands(n)
      BY <2>2 DEF Stands
    <2>. QED
      BY <1>1, <1>5, <2>3, <2>4, <2>6, <2>7, MemKeeps, CallKeeps, AskKeeps DEF CInv
  <1>10. CASE RefuseConsent(c)
    <2>1. Tamed /\ Journals /\ Reserves
      BY <1>10, RefuseConsentOrdinary
    <2>2. LogInv' /\ OneStep(log, log')
      BY <1>5, <2>1, LogKeeps DEF Journals
    <2>3. \A n \in Missions : Stands(n)
      BY <2>1 DEF Tamed, Tame, Stands
    <2>. QED
      BY <1>1, <1>5, <2>1, <2>2, <2>3, MemKeeps, CallKeeps, AskKeeps DEF CInv
  <1>. QED
    BY <1>7, <1>8, <1>9, <1>10

\* The coordinator rebuilds its missions from the journal.
LEMMA OpenKeeps ==
  ASSUME CInv, Open
  PROVE  CInv' /\ OneStep(log, log')
  <1>1. /\ missions' = log.mission /\ log' = log /\ yes' = yes /\ proc = "down"
        /\ reserved' = reserved
    BY DEF Open, journal, history, Requests
  <1>2. Calms /\ Reserves /\ Grows
    BY <1>1, OpeningCalm, RequestsOrdinary DEF Open, Grows, CInv, ShapeInv
  <1>3. LogInv'
    BY <1>1 DEF CInv, LogInv
  <1>4. MemInv'
    <2>1. \A m \in Missions : MissionOK(log.mission[m], yes[m])
      BY DEF CInv, LogInv, LogSound, Sound, Begun, MissionOK
    <2>. QED
      BY <1>1, <2>1 DEF MemInv, CInv, LogInv, LogSound, IsLog
  <1>5. ShapeInv' /\ CallInv' /\ \A c \in AllCalls : call'[c].pc # "asking"
    BY <1>1, <1>2, CallKeeps DEF CInv, AskInv, AskOK
  <1>6. AskInv'
    BY <1>5 DEF AskInv, AskOK
  <1>7. OneStep(log, log')
    BY <1>1, EqualSame DEF OneStep
  <1>. QED
    BY <1>3, <1>4, <1>5, <1>6, <1>7 DEF CInv

\* Nothing is left in memory, and nobody asks.
LEMMA NotDraftedOK == \A Y : MissionOK(NotDrafted, Y)
  BY DEF NotDrafted, NewMission, MissionOK, IsMission, MissionFields, PastConsent, Working, MayWait

LEMMA DownKeeps ==
  ASSUME CInv, Drop \/ Crash \/ OpenFails
  PROVE  CInv' /\ OneStep(log, log')
  <1>1. /\ missions' = [m \in Missions |-> NotDrafted] /\ log' = log /\ yes' = yes
        /\ reserved' = [m \in Missions |-> {}]
    BY DEF Drop, Crash, OpenFails, Down, Everywhere, journal, history
  <1>2. LogInv' /\ MemInv'
    BY <1>1, NotDraftedOK DEF CInv, LogInv, MemInv
  <1>3. /\ call' = [c \in AllCalls |-> call'[c]]
        /\ \A c \in AllCalls : Calm(call'[c])
    <2>1. CASE Drop
      BY <2>1, CallsNew DEF Drop, CInv, ShapeInv
    <2>2. CASE Crash
      BY <2>2, CallsNew DEF Crash
    <2>3. CASE OpenFails
      <3>1. proc = "opening" /\ call' = [call EXCEPT ![Opener] = Idle]
        BY <2>3 DEF OpenFails, AtOpen, Become
      <3>2. \A c \in AllCalls : call[c].pc # "asking" /\ CallOK(call[c])
        BY <3>1 DEF CInv, AskInv, AskOK, CallInv
      <3>. QED
        BY <3>1, <3>2, CallsNew DEF CInv, ShapeInv, Calm
    <2>. QED
      BY <2>1, <2>2, <2>3
  <1>4. ShapeInv' /\ CallInv' /\ AskInv'
    BY <1>1, <1>3 DEF CInv, ShapeInv, CallInv, AskInv, AskOK, Calm
  <1>5. OneStep(log, log')
    BY <1>1, EqualSame DEF OneStep
  <1>. QED
    BY <1>2, <1>4, <1>5 DEF CInv

(***************************************************************************)
(* The theorems.                                                            *)
(***************************************************************************)
LEMMA InitKeeps == Init => CInv
  <1>. SUFFICES ASSUME Init PROVE CInv
    OBVIOUS
  <1>1. \A m \in Missions : log.mission[m] = NotDrafted
    BY DEF Init, EmptyLog
  <1>2. NotDrafted.consent = NoHash
    BY DEF NotDrafted, NewMission
  <1>3. LogInv
    BY <1>1, <1>2, NewSound DEF Init, EmptyLog, LogInv, LogSound, IsLog
  <1>4. MemInv
    BY NotDraftedOK DEF Init, MemInv, Everywhere
  <1>5. ShapeInv /\ CallInv /\ AskInv
    BY CallsNew DEF Init, Everywhere, ShapeInv, CallInv, AskInv, AskOK, Calm
  <1>. QED
    BY <1>3, <1>4, <1>5 DEF CInv

LEMMA NextKeeps == CInv /\ [Next]_vars => CInv' /\ OneStep(log, log')
  <1>. SUFFICES ASSUME CInv, [Next]_vars PROVE CInv' /\ OneStep(log, log')
    OBVIOUS
  <1>0. CASE UNCHANGED vars
    <2>1. CInv'
      BY <1>0 DEF vars, memory, journal, history, CInv, LogInv, MemInv, ShapeInv, CallInv, AskInv, AskOK
    <2>. QED
      BY <1>0, <2>1, EqualSame DEF OneStep, vars, journal
  <1>1. ASSUME Ordinary PROVE CInv' /\ OneStep(log, log')
    BY <1>1, OrdinaryKeeps DEF Ordinary
  <1>2. CASE HostCalls
    <2>1. ASSUME NEW m \in Missions, NEW h \in Hashes, Draft(m, h) \/ Revise(m, h)
          PROVE  CInv' /\ OneStep(log, log')
      BY <2>1, DraftKeeps, ReviseKeeps
    <2>2. ASSUME NEW m \in Missions, NEW c \in Calls, RequestConsent(c, m)
          PROVE  CInv' /\ OneStep(log, log')
      BY <2>2, RequestKeeps
    <2>3. ASSUME NEW m \in Missions, NEW c \in Calls,
                 \/ Resume(c, m) \/ Stop(c, m) \/ AdvanceEnd(c, m)
                 \/ AdvanceStart(c, m) \/ AdvanceExplain(c, m) \/ AdvancePhase(c, m)
          PROVE  CInv' /\ OneStep(log, log')
      BY <1>1, <2>3, HostOrdinary
    <2>4. ASSUME NEW m \in Missions, Submit(m) \/ TimePasses(m)
          PROVE  CInv' /\ OneStep(log, log')
      BY <1>1, <2>4, AloneOrdinary
    <2>5. CASE Close
      <3>1. 1 \in Missions
        BY MissionAssumption DEF Missions
      <3>. QED
        BY <1>1, <2>5, <3>1, AloneOrdinary
    <2>. QED
      BY <1>2, <2>1, <2>2, <2>3, <2>4, <2>5 DEF HostCalls
  <1>3. ASSUME NEW c \in AllCalls, OwnSteps(c) \/ OutboundReturns(c)
        PROVE  CInv' /\ OneStep(log, log')
    BY <1>1, <1>3, CallOrdinary, YesKeeps
  <1>4. CASE Open
    BY <1>4, OpenKeeps
  <1>5. CASE Recovers
    BY <1>1, <1>5, OpeningOrdinary, DownKeeps DEF Recovers
  <1>6. CASE Drop \/ Crash
    BY <1>6, DownKeeps
  <1>7. CASE Broker
    BY <1>1, <1>7, BrokerOrdinary
  <1>. QED
    BY <1>0, <1>2, <1>3, <1>4, <1>5, <1>6, <1>7 DEF Next

THEOREM CoordinatorInvariant == Spec => []CInv
  BY InitKeeps, NextKeeps, PTL DEF Spec

\* A mission past its consent, in memory or in the journal, carries a consent to
\* its exact contract and the Owner said yes to it: whatever calls race, appends
\* fail and processes die (take_answer, revise, replay).
THEOREM ConsentAlwaysFirst == Spec => []ConsentFirst
  <1>1. CInv => ConsentFirst
    <2>. SUFFICES ASSUME CInv, NEW m \in Missions, NEW ms \in {missions[m], log.mission[m]},
                         PastConsent(ms)
                  PROVE  Consented(ms) /\ ms.consent \in yes[m]
      BY DEF ConsentFirst
    <2>1. CASE ms = missions[m]
      BY <2>1 DEF CInv, MemInv, MissionOK, Consented
    <2>2. CASE ms = log.mission[m]
      BY <2>2 DEF CInv, LogInv, LogSound, Sound, Consented
    <2>. QED
      BY <2>1, <2>2
  <1>. QED
    BY <1>1, CoordinatorInvariant, PTL

\* One step of the journal's view is a step of the promise.
LEMMA StepPromise ==
  ASSUME OneStep(log, log')
  PROVE  Promise!Next \/ UNCHANGED Promise!promise
  <1>1. CASE SameView(log, log')
    BY <1>1 DEF SameView, SamePromise, Promise!promise
  <1>2. ASSUME NEW m \in Missions, PromiseStep(log.mission[m], log'.mission[m]),
               \A n \in Missions \ {m} : SamePromise(log.mission[n], log'.mission[n])
        PROVE  Promise!Next \/ UNCHANGED Promise!promise
    <2>. DEFINE a == log.mission[m]
                b == log'.mission[m]
    <2>1. CASE SamePromise(a, b)
      BY <1>2, <2>1 DEF SamePromise, Promise!promise
    <2>2. CASE Writes(a, b)
      <3>1. PICK h \in Hashes : h = b.hash
        BY <2>2 DEF Writes
      <3>2. Promise!Write(m, h)
        BY <1>2, <2>2, <3>1 DEF Writes, SamePromise, Promise!Write
      <3>. QED
        BY <3>2 DEF Promise!Next
    <2>3. CASE Agrees(a, b)
      <3>1. Promise!Agree(m)
        BY <1>2, <2>3 DEF Agrees, SamePromise, Promise!Agree
      <3>. QED
        BY <3>1 DEF Promise!Next
    <2>4. CASE Begins(a, b)
      <3>1. Promise!Begin(m)
        BY <1>2, <2>4 DEF Begins, SamePromise, Promise!Begin
      <3>. QED
        BY <3>1 DEF Promise!Next
    <2>5. CASE Asks(a, b)
      <3>1. Promise!Ask(m)
        BY <1>2, <2>5 DEF Asks, SamePromise, Promise!Ask
      <3>. QED
        BY <3>1 DEF Promise!Next
    <2>6. CASE Answered(a, b)
      <3>1. Promise!Answer(m)
        BY <1>2, <2>6 DEF Answered, SamePromise, Promise!Answer
      <3>. QED
        BY <3>1 DEF Promise!Next
    <2>7. CASE Ends(a, b)
      <3>1. Promise!End(m)
        BY <1>2, <2>7 DEF Ends, SamePromise, Promise!End
      <3>. QED
        BY <3>1 DEF Promise!Next
    <2>. QED
      BY <1>2, <2>1, <2>2, <2>3, <2>4, <2>5, <2>6, <2>7 DEF PromiseStep
  <1>. QED
    BY <1>1, <1>2 DEF OneStep

\* The coordinator implements OwnerPromise: the journal moves only as the promise
\* allows, a record at a time, failed appends, crashes and reopenings included.
THEOREM PromiseAlwaysKept == Spec => PromiseKept
  <1>1. Init => Promise!Init
    <2>. SUFFICES ASSUME Init PROVE Promise!Init
      OBVIOUS
    <2>1. \A m \in Missions : log.mission[m] = NotDrafted
      BY DEF Init, EmptyLog
    <2>2. /\ NotDrafted.hash = NoHash /\ NotDrafted.consent = NoHash
          /\ NotDrafted.next_effect = 0
          /\ (NotDrafted.open_action # NoEffect) = FALSE
          /\ (NotDrafted.state \in Terminal) = FALSE
      BY DEF NotDrafted, NewMission, Terminal
    <2>. QED
      BY <2>1, <2>2 DEF Promise!Init
  <1>2. CInv /\ [Next]_vars => [Promise!Next]_Promise!promise
    BY NextKeeps, StepPromise
  <1>. QED
    BY <1>1, <1>2, CoordinatorInvariant, PTL DEF Spec, PromiseKept, Promise!Spec

(***************************************************************************)
(* PART THREE.  While the replay accepts the journal, memory is what it     *)
(* would rebuild, and what a call reported is durable.  The condition is    *)
(* needed (a record the replay refuses is one that memory has taken and the *)
(* journal's image has not), and once it fails it fails for good.           *)
(***************************************************************************)
\* Two records of a mission that agree on all that is durable.
SameMission(a, b) ==
    /\ a.state = b.state /\ a.hash = b.hash /\ a.consent = b.consent
    /\ a.waiting = b.waiting /\ a.next_effect = b.next_effect /\ a.unsettled = b.unsettled
    /\ a.dispatched_in_phase = b.dispatched_in_phase /\ a.pending_lane = b.pending_lane
    /\ a.open_action = b.open_action /\ a.held_journaled = b.held_journaled
    /\ (a.held /\ a.held_journaled) = (b.held /\ b.held_journaled)

LEMMA DurableSame ==
  ASSUME NEW a, IsMission(a), NEW b, IsMission(b), SameMission(a, b)
  PROVE  Durable(a) = Durable(b)
  <1>. DEFINE p == a.held /\ a.held_journaled
              q == b.held /\ b.held_journaled
  <1>1. /\ Durable(a) = [a EXCEPT !.held = p, !.must_hold = FALSE, !.awaiting_settled = NoEffect]
        /\ Durable(b) = [b EXCEPT !.held = q, !.must_hold = FALSE, !.awaiting_settled = NoEffect]
    BY Zenon DEF Durable
  <1>2. p = q
    BY DEF SameMission
  <1>. HIDE DEF p, q
  <1>. DEFINE x == [a EXCEPT !.held = p, !.must_hold = FALSE, !.awaiting_settled = NoEffect]
              y == [b EXCEPT !.held = q, !.must_hold = FALSE, !.awaiting_settled = NoEffect]
  <1>3. IsMission(x) /\ IsMission(y)
    BY DEF IsMission
  <1>4. /\ x.held = p /\ x.must_hold = FALSE /\ x.awaiting_settled = NoEffect
        /\ y.held = q /\ y.must_hold = FALSE /\ y.awaiting_settled = NoEffect
        /\ \A f \in MissionFields \ {"held", "must_hold", "awaiting_settled"} :
              x[f] = a[f] /\ y[f] = b[f]
    BY DEF IsMission, MissionFields
  <1>. HIDE DEF x, y
  <1>5. \A f \in MissionFields : x[f] = y[f]
    BY <1>2, <1>4 DEF SameMission, MissionFields
  <1>6. x = y
    BY <1>3, <1>5 DEF IsMission
  <1>. QED
    BY <1>1, <1>6 DEF x, y

\* The rest of what a transition leaves of a mission (Mission::apply).
WaitAfter(state, waiting, t) ==
    CASE t.name = "AwaitApproval" ->
           [phase |-> state, effect |-> t.effect, rest |-> t.rest, roles |-> t.roles]
      [] t.name = "ActionApproved" \/ ~(Transition(state, t) \notin Terminal) -> NoWait
      [] OTHER -> waiting

LEMMA AppliedRest ==
  ASSUME NEW ms, IsMission(ms), NEW t
  PROVE  LET a == Apply(ms, t)
             live == Transition(ms.state, t) \notin Terminal
         IN  /\ a.waiting = WaitAfter(ms.state, ms.waiting, t)
             /\ a.dispatched_in_phase = (t.name = "ActionApproved")
             /\ a.held = (ms.held /\ live)
             /\ a.held_journaled = (ms.held_journaled /\ live)
  <1>. DEFINE to == Transition(ms.state, t)
              live == to \notin Terminal
              wait == WaitAfter(ms.state, ms.waiting, t)
              hash == IF t.name = "Revise" THEN t.hash ELSE ms.hash
              consent == IF t.name = "Revise" THEN NoHash ELSE ms.consent
              went_on == t.name = "ActionApproved"
              held == ms.held /\ live
              heldJournaled == ms.held_journaled /\ live
              mustHold == ms.must_hold /\ live
  <1>1. Apply(ms, t) =
          [ms EXCEPT !.state = to, !.hash = hash, !.consent = consent, !.waiting = wait,
                     !.dispatched_in_phase = went_on, !.awaiting_settled = NoEffect,
                     !.held = held, !.held_journaled = heldJournaled, !.must_hold = mustHold]
    BY Zenon DEF Apply, WaitAfter
  <1>. HIDE DEF to, live, wait, hash, consent, went_on, held, heldJournaled, mustHold
  <1>2. LET a == Apply(ms, t)
        IN  /\ a.waiting = wait /\ a.dispatched_in_phase = went_on
            /\ a.held = held /\ a.held_journaled = heldJournaled
    BY <1>1 DEF IsMission, MissionFields
  <1>. QED
    BY <1>2, Zenon DEF to, live, wait, went_on, held, heldJournaled

LEMMA ApplySame ==
  ASSUME NEW a, IsMission(a), NEW b, IsMission(b), SameMission(a, b), NEW t
  PROVE  SameMission(Apply(a, t), Apply(b, t))
  <1>. DEFINE x == Apply(a, t)
              y == Apply(b, t)
              live == Transition(a.state, t) \notin Terminal
  <1>0. a.state = b.state /\ a.waiting = b.waiting
    BY DEF SameMission
  <1>1. /\ x.state = y.state /\ x.hash = y.hash /\ x.consent = y.consent
        /\ x.next_effect = y.next_effect /\ x.unsettled = y.unsettled
        /\ x.pending_lane = y.pending_lane /\ x.open_action = y.open_action
    <2>1. /\ x.state = Transition(a.state, t) /\ y.state = Transition(b.state, t)
          /\ x.hash = (IF t.name = "Revise" THEN t.hash ELSE a.hash)
          /\ y.hash = (IF t.name = "Revise" THEN t.hash ELSE b.hash)
          /\ x.consent = (IF t.name = "Revise" THEN NoHash ELSE a.consent)
          /\ y.consent = (IF t.name = "Revise" THEN NoHash ELSE b.consent)
      BY AppliedFields
    <2>2. /\ x.next_effect = a.next_effect /\ y.next_effect = b.next_effect
          /\ x.unsettled = a.unsettled /\ y.unsettled = b.unsettled
          /\ x.pending_lane = a.pending_lane /\ y.pending_lane = b.pending_lane
          /\ x.open_action = a.open_action /\ y.open_action = b.open_action
      BY AppliedFields
    <2>. HIDE DEF x, y
    <2>. QED
      BY <2>1, <2>2 DEF SameMission
  <1>2. /\ x.waiting = y.waiting /\ x.dispatched_in_phase = y.dispatched_in_phase
    <2>1. /\ x.waiting = WaitAfter(a.state, a.waiting, t)
          /\ y.waiting = WaitAfter(b.state, b.waiting, t)
          /\ x.dispatched_in_phase = (t.name = "ActionApproved")
          /\ y.dispatched_in_phase = (t.name = "ActionApproved")
      BY AppliedRest
    <2>. QED
      BY <1>0, <2>1
  <1>3. /\ x.held = (a.held /\ live) /\ x.held_journaled = (a.held_journaled /\ live)
        /\ y.held = (b.held /\ live) /\ y.held_journaled = (b.held_journaled /\ live)
    BY <1>0, AppliedRest
  <1>. HIDE DEF x, y, live
  <1>4. x.held_journaled = y.held_journaled
    BY <1>3 DEF SameMission
  <1>5. (x.held /\ x.held_journaled) = (y.held /\ y.held_journaled)
    BY <1>3 DEF SameMission
  <1>6. SameMission(x, y)
    BY <1>1, <1>2, <1>4, <1>5 DEF SameMission
  <1>. QED
    BY <1>6 DEF x, y

\* What a record does to the durable part of a mission, it does to both.
LEMMA TransitionSame ==
  ASSUME NEW a, IsMission(a), NEW b, IsMission(b), SameMission(a, b), NEW t
  PROVE  /\ t.name # "Consent" => SameMission(Apply(a, t), Recorded(b, Transitioned(t)))
         /\ t.name = "Consent" => SameMission([Apply(a, t) EXCEPT !.consent = t.hash],
                                              Recorded(b, Transitioned(t)))
  <1>. DEFINE x == Apply(a, t)
              y == Apply(b, t)
  <1>1. SameMission(x, y) /\ IsMission(x) /\ IsMission(y)
    BY ApplySame, AppliedFields
  <1>2. Recorded(b, Transitioned(t)) = IF t.name = "Consent" THEN [y EXCEPT !.consent = t.hash] ELSE y
    BY DEF Recorded, Transitioned, Rec
  <1>. HIDE DEF x, y
  <1>3. SameMission([x EXCEPT !.consent = t.hash], [y EXCEPT !.consent = t.hash])
    BY <1>1 DEF SameMission, IsMission, MissionFields
  <1>. QED
    BY <1>1, <1>2, <1>3 DEF x

LEMMA LaneSame ==
  ASSUME NEW a, IsMission(a), NEW b, IsMission(b), SameMission(a, b), NEW r
  PROVE  /\ SameMission([a EXCEPT !.pending_lane = r], Recorded(b, LaneRec("LaneInvoked", r)))
         /\ \A k \in {"LaneReturned", "LaneOvertaken"} :
               SameMission([a EXCEPT !.pending_lane = "None"], Recorded(b, LaneRec(k, r)))
         /\ \A k \in {"ConsentRefused", "EffectRefused"} : SameMission(a, Recorded(b, Rec(k)))
  <1>1. /\ Recorded(b, LaneRec("LaneInvoked", r))
             = [b EXCEPT !.pending_lane = r, !.awaiting_settled = NoEffect]
        /\ \A k \in {"LaneReturned", "LaneOvertaken"} :
              Recorded(b, LaneRec(k, r)) = [b EXCEPT !.pending_lane = "None"]
        /\ \A k \in {"ConsentRefused", "EffectRefused"} : Recorded(b, Rec(k)) = b
    BY DEF Recorded, LaneRec, Rec
  <1>2. SameMission([a EXCEPT !.pending_lane = r],
                    [b EXCEPT !.pending_lane = r, !.awaiting_settled = NoEffect])
    BY DEF SameMission, IsMission, MissionFields
  <1>3. SameMission([a EXCEPT !.pending_lane = "None"], [b EXCEPT !.pending_lane = "None"])
    BY DEF SameMission, IsMission, MissionFields
  <1>. QED
    BY <1>1, <1>2, <1>3

LEMMA EffectSame ==
  ASSUME NEW a, IsMission(a), NEW b, IsMission(b), SameMission(a, b), NEW e, NEW o
  PROVE  /\ SameMission([a EXCEPT !.next_effect = @ + 1, !.unsettled = e,
                                  !.dispatched_in_phase = TRUE],
                        Recorded(b, EffectRec("EffectDispatched", e)))
         /\ SameMission([a EXCEPT !.unsettled = NoEffect], Recorded(b, EffectSettled(e, o)))
         /\ SameMission([a EXCEPT !.open_action = e], Recorded(b, EffectRec("ApprovalPending", e)))
         /\ SameMission([a EXCEPT !.open_action = NoEffect],
                        Recorded(b, EffectRec("ApprovalClosed", e)))
  <1>1. /\ Recorded(b, EffectRec("EffectDispatched", e))
             = [b EXCEPT !.next_effect = @ + 1, !.unsettled = e, !.dispatched_in_phase = TRUE,
                         !.awaiting_settled = NoEffect]
        /\ Recorded(b, EffectRec("ApprovalPending", e)) = [b EXCEPT !.open_action = e]
        /\ Recorded(b, EffectRec("ApprovalClosed", e)) = [b EXCEPT !.open_action = NoEffect]
    BY DEF Recorded, EffectRec, Rec
  <1>2. PICK w : Recorded(b, EffectSettled(e, o)) = [b EXCEPT !.unsettled = NoEffect,
                                                             !.awaiting_settled = w]
    BY DEF Recorded, EffectSettled, EffectRec, Rec
  <1>3. SameMission([a EXCEPT !.next_effect = @ + 1, !.unsettled = e, !.dispatched_in_phase = TRUE],
                    [b EXCEPT !.next_effect = @ + 1, !.unsettled = e, !.dispatched_in_phase = TRUE,
                              !.awaiting_settled = NoEffect])
    BY DEF SameMission, IsMission, MissionFields
  <1>4. SameMission([a EXCEPT !.unsettled = NoEffect],
                    [b EXCEPT !.unsettled = NoEffect, !.awaiting_settled = w])
    BY DEF SameMission, IsMission, MissionFields
  <1>5. \A x : SameMission([a EXCEPT !.open_action = x], [b EXCEPT !.open_action = x])
    BY DEF SameMission, IsMission, MissionFields
  <1>. QED
    BY <1>1, <1>2, <1>3, <1>4, <1>5

\* The Owner's resume lifts a hold whatever of it was journaled.
LEMMA ResumeSame ==
  ASSUME NEW a, IsMission(a), NEW b, IsMission(b), SameMission(a, b), NEW d, IsMission(d),
         SameMission([d EXCEPT !.held = FALSE, !.held_journaled = FALSE],
                     [a EXCEPT !.held = FALSE, !.held_journaled = FALSE])
  PROVE  SameMission([d EXCEPT !.held = FALSE, !.held_journaled = FALSE], Recorded(b, Rec("Resumed")))
  <1>1. Recorded(b, Rec("Resumed")) = [b EXCEPT !.held = FALSE, !.held_journaled = FALSE]
    BY DEF Recorded, Rec
  <1>. QED
    BY <1>1 DEF SameMission, IsMission, MissionFields

(***************************************************************************)
(* What no record undoes in a journal: its refusal, the ends it holds, and  *)
(* that a journaled hold is a hold.                                         *)
(***************************************************************************)
HeldOK(ms) == ms.held_journaled \in BOOLEAN /\ (ms.held_journaled => ms.held)

KeepsMission(a, b) ==
    /\ a.state \in Terminal => b.state = a.state
    /\ HeldOK(a) => HeldOK(b)
Keeps(j, k) ==
    /\ j.refused => k.refused
    /\ \A m \in Missions : KeepsMission(j.mission[m], k.mission[m])

LEMMA KeepsThen ==
  ASSUME NEW j, NEW k, NEW l, Keeps(j, k), Keeps(k, l)
  PROVE  Keeps(j, l)
  BY DEF Keeps, KeepsMission

LEMMA RecordKeeps ==
  ASSUME NEW ms, IsMission(ms), NEW ev, ev.kind # "Drafted", Admits(ms, ev)
  PROVE  KeepsMission(ms, Recorded(ms, ev))
  <1>. DEFINE a == Recorded(ms, ev)
  <1>1. CASE ev.kind = "Transition"
    <2>. DEFINE t == ev.trigger
                b == Apply(ms, t)
                live == Transition(ms.state, t) \notin Terminal
    <2>1. Legal(ms.state, t)
      BY <1>1 DEF Admits, AdmitsRecord, AdmitsTransition
    <2>2. ms.state \notin Terminal
      BY <2>1 DEF Legal, Transition, Terminal, Revisable, Working, MayWait, Stoppable
    <2>3. /\ b.held = (ms.held /\ live)
          /\ b.held_journaled = (ms.held_journaled /\ live)
          /\ IsMission(b)
      BY AppliedRest, AppliedFields
    <2>4. a = IF t.name = "Consent" THEN [b EXCEPT !.consent = t.hash] ELSE b
      BY <1>1 DEF Recorded
    <2>. HIDE DEF a, b, live
    <2>5. a.held = b.held /\ a.held_journaled = b.held_journaled
      BY <2>3, <2>4 DEF IsMission, MissionFields
    <2>6. HeldOK(ms) => HeldOK(a)
      BY <2>3, <2>5 DEF HeldOK
    <2>. QED
      BY <2>2, <2>6 DEF KeepsMission, a
  <1>2. CASE ev.kind = "Held"
    <2>1. a = [ms EXCEPT !.held = TRUE, !.held_journaled = TRUE, !.must_hold = FALSE]
      BY <1>2 DEF Recorded
    <2>. QED
      BY <2>1 DEF KeepsMission, HeldOK, IsMission, MissionFields
  <1>3. CASE ev.kind = "Resumed"
    <2>1. a = [ms EXCEPT !.held = FALSE, !.held_journaled = FALSE]
      BY <1>3 DEF Recorded
    <2>. QED
      BY <2>1 DEF KeepsMission, HeldOK, IsMission, MissionFields
  <1>4. CASE ev.kind \notin {"Transition", "Held", "Resumed"}
    <2>1. a.state = ms.state /\ a.held = ms.held /\ a.held_journaled = ms.held_journaled
      BY <1>4 DEF Recorded, IsMission, MissionFields
    <2>. QED
      BY <2>1 DEF KeepsMission, HeldOK
  <1>. QED
    BY <1>1, <1>2, <1>3, <1>4

LEMMA OpenedKeeps ==
  ASSUME NEW j, LogSound(j)
  PROVE  Keeps(j, ReplayOpened(j))
  <1>. DEFINE due(ms) == IF j.session # "Closed" /\ Unfinished(ms) /\ ~ms.held
                         THEN [ms EXCEPT !.must_hold = TRUE] ELSE ms
              f == [m \in Missions |-> due(j.mission[m])]
              k == ReplayOpened(j)
  <1>1. k = [j EXCEPT !.session = "Open", !.mission = f]
    BY DEF ReplayOpened
  <1>2. \A m \in Missions : f[m] = due(j.mission[m])
    BY DEF f
  <1>. HIDE DEF f, k
  <1>3. k.refused = j.refused /\ k.mission = f
    BY <1>1 DEF LogSound, IsLog
  <1>4. ASSUME NEW m \in Missions PROVE KeepsMission(j.mission[m], f[m])
    <2>. DEFINE ms == j.mission[m]
    <2>1. IsMission(ms) /\ (f[m] = ms \/ f[m] = [ms EXCEPT !.must_hold = TRUE])
      BY <1>2 DEF LogSound, Sound
    <2>. HIDE DEF ms
    <2>2. f[m].state = ms.state /\ f[m].held = ms.held /\ f[m].held_journaled = ms.held_journaled
      BY <2>1 DEF IsMission, MissionFields
    <2>. QED
      BY <2>2 DEF KeepsMission, HeldOK, ms
  <1>5. Keeps(j, k)
    BY <1>3, <1>4 DEF Keeps
  <1>. QED
    BY <1>5 DEF k

LEMMA HoldsKeeps ==
  ASSUME NEW j, LogSound(j), NEW S
  PROVE  Keeps(j, ReplayHolds(j, S))
  <1>. DEFINE f == [m \in Missions |-> IF m \in S THEN Recorded(j.mission[m], Rec("Held"))
                                       ELSE j.mission[m]]
              more == (S # {} /\ j.session = "Closed")
                        \/ \E m \in S : ~Admits(j.mission[m], Rec("Held"))
              r == j.refused \/ more
              k == ReplayHolds(j, S)
  <1>1. k = [j EXCEPT !.refused = r, !.mission = f]
    BY DEF ReplayHolds
  <1>2. \A m \in Missions : f[m] = IF m \in S THEN Recorded(j.mission[m], Rec("Held"))
                                   ELSE j.mission[m]
    BY DEF f
  <1>. HIDE DEF f, more, k
  <1>3. k.refused = r /\ k.mission = f
    BY <1>1 DEF LogSound, IsLog
  <1>4. ASSUME NEW m \in Missions PROVE KeepsMission(j.mission[m], f[m])
    <2>. DEFINE ms == j.mission[m]
    <2>0. Recorded(ms, Rec("Held"))
            = [ms EXCEPT !.held = TRUE, !.held_journaled = TRUE, !.must_hold = FALSE]
      BY DEF Recorded, Rec
    <2>1. IsMission(ms)
          /\ (f[m] = ms \/ f[m] = [ms EXCEPT !.held = TRUE, !.held_journaled = TRUE, !.must_hold = FALSE])
      BY <1>2, <2>0 DEF LogSound, Sound
    <2>. HIDE DEF ms
    <2>2. \/ f[m] = ms
          \/ f[m].state = ms.state /\ f[m].held = TRUE /\ f[m].held_journaled = TRUE
      BY <2>1 DEF IsMission, MissionFields
    <2>. QED
      BY <2>2 DEF KeepsMission, HeldOK, ms
  <1>5. Keeps(j, k)
    BY <1>3, <1>4 DEF Keeps
  <1>. QED
    BY <1>5 DEF k

LEMMA ClosedKeeps ==
  ASSUME NEW j, LogSound(j), NEW k, k = ReplayClosed(j) \/ k = Refusal(j)
  PROVE  Keeps(j, k)
  <1>1. k = [j EXCEPT !.session = "Closed"] \/ k = [j EXCEPT !.refused = TRUE]
    BY DEF ReplayClosed, Refusal
  <1>2. k.mission = j.mission /\ (k.refused = j.refused \/ k.refused = TRUE)
    BY <1>1 DEF LogSound, IsLog
  <1>. QED
    BY <1>2 DEF Keeps, KeepsMission

LEMMA ReplayKeeps ==
  ASSUME NEW j, LogSound(j), NEW m, NEW ev
  PROVE  Keeps(j, Replay(j, m, ev))
  <1>. DEFINE k == Replay(j, m, ev)
  <1>0. Keeps(j, j)
    BY DEF Keeps, KeepsMission
  <1>1. CASE k = Refusal(j)
    BY <1>1, ClosedKeeps
  <1>2. CASE m \notin Missions /\ k # Refusal(j)
    <2>1. \E ms : k = [j EXCEPT !.mission[m] = ms]
      BY <1>2 DEF Replay, ReplayDrafted, ReplayRecord
    <2>2. ASSUME NEW ms, k = [j EXCEPT !.mission[m] = ms] PROVE k = j
      BY <1>2, <2>2 DEF LogSound, IsLog
    <2>. QED
      BY <1>0, <2>1, <2>2
  <1>3. CASE m \in Missions /\ k # Refusal(j)
    <2>. DEFINE ms == j.mission[m]
    <2>0. IsMission(ms)
      BY <1>3 DEF LogSound, Sound
    <2>1. ASSUME NEW a, KeepsMission(ms, a), k = [j EXCEPT !.mission[m] = a]
          PROVE  Keeps(j, k)
      <3>1. k.refused = j.refused /\ k.mission = [j.mission EXCEPT ![m] = a]
        BY <2>1 DEF LogSound, IsLog
      <3>. HIDE DEF k
      <3>2. \A n \in Missions : k.mission[n] = IF n = m THEN a ELSE j.mission[n]
        BY <3>1 DEF LogSound, IsLog
      <3>. QED
        BY <2>1, <3>1, <3>2 DEF Keeps, KeepsMission
    <2>2. CASE ev.kind = "Drafted"
      <3>1. k = [j EXCEPT !.mission[m] = NewMission("Draft", ev.trigger.hash)]
            /\ NextMission(j.mission, m)
        BY <1>3, <2>2 DEF Replay, ReplayDrafted
      <3>2. ms.state = "None"
        BY <1>3, <3>1, MissionAssumption DEF NextMission, Missions
      <3>3. KeepsMission(ms, NewMission("Draft", ev.trigger.hash))
        BY <3>2 DEF KeepsMission, HeldOK, NewMission, Terminal
      <3>. QED
        BY <2>1, <3>1, <3>3
    <2>3. CASE ev.kind # "Drafted"
      <3>1. k = [j EXCEPT !.mission[m] = Recorded(ms, ev)] /\ Admits(ms, ev)
        BY <1>3, <2>3 DEF Replay, ReplayRecord
      <3>. QED
        BY <2>0, <2>1, <2>3, <3>1, RecordKeeps
    <2>. QED
      BY <2>2, <2>3
  <1>. QED
    BY <1>1, <1>2, <1>3

LEMMA LogHeldSound ==
  ASSUME LogSound(log)
  PROVE  /\ LogSound(LogOpened) /\ LogSound(LogHeld)
         /\ Keeps(log, LogOpened) /\ Keeps(log, LogHeld)
  <1>0. Keeps(log, log)
    BY DEF Keeps, KeepsMission
  <1>1. LogSound(LogOpened) /\ Keeps(log, LogOpened)
    BY <1>0, OpenedSame, OpenedKeeps DEF LogOpened
  <1>. DEFINE j == LogOpened
              k == ReplayHolds(j, ToHold)
  <1>2. LogSound(j) /\ Keeps(log, j)
    BY <1>1
  <1>. HIDE DEF j
  <1>3. LogSound(k) /\ Keeps(j, k)
    BY <1>2, HoldsSame, HoldsKeeps
  <1>. HIDE DEF k
  <1>4. Keeps(log, k)
    BY <1>2, <1>3, KeepsThen
  <1>. QED
    BY <1>1, <1>3, <1>4 DEF LogHeld, k, j

\* Whatever a call that writes a record leaves as the journal.
LEMMA JournalKeeps ==
  ASSUME LogSound(log), NEW m, NEW ev, NEW k, MayBecome(k, m, ev)
  PROVE  Keeps(log, k)
  <1>0. Keeps(log, log)
    BY DEF Keeps, KeepsMission
  <1>. DEFINE j == LogOpened
              h == LogHeld
  <1>1. LogSound(j) /\ LogSound(h) /\ Keeps(log, j) /\ Keeps(log, h)
    BY LogHeldSound
  <1>2. Keeps(log, ReplayOpened(log))
    BY OpenedKeeps
  <1>. HIDE DEF j, h
  <1>3. \A S : Keeps(log, ReplayHolds(j, S))
    BY <1>1, HoldsKeeps, KeepsThen
  <1>4. Keeps(log, ReplayClosed(h)) /\ Keeps(log, Replay(h, m, ev))
    BY <1>1, ClosedKeeps, ReplayKeeps, KeepsThen
  <1>. QED
    BY <1>0, <1>1, <1>2, <1>3, <1>4, Zenon DEF MayBecome, j, h

\* With the holds that a write journals first, memory and journal agree as before.
Agreement(mem, j) == \A m \in Missions : SameMission(mem[m], j.mission[m])

LEMMA OpenedMission ==
  ASSUME NEW j, LogSound(j), NEW m \in Missions
  PROVE  ReplayOpened(j).mission[m] \in {j.mission[m], [j.mission[m] EXCEPT !.must_hold = TRUE]}
  <1>. DEFINE due(ms) == IF j.session # "Closed" /\ Unfinished(ms) /\ ~ms.held
                         THEN [ms EXCEPT !.must_hold = TRUE] ELSE ms
              f == [n \in Missions |-> due(j.mission[n])]
  <1>1. ReplayOpened(j) = [j EXCEPT !.session = "Open", !.mission = f]
    BY DEF ReplayOpened
  <1>2. f[m] = due(j.mission[m])
    BY DEF f
  <1>. HIDE DEF f
  <1>3. ReplayOpened(j).mission = f
    BY <1>1 DEF LogSound, IsLog
  <1>. QED
    BY <1>2, <1>3

LEMMA HeldAgree ==
  ASSUME CInv, Agreement(missions, log), \A n \in Missions : HeldOK(log.mission[n]),
         NEW m \in Missions
  PROVE  /\ SameMission(Held(m), LogHeld.mission[m])
         /\ IsMission(Held(m)) /\ IsMission(LogHeld.mission[m])
  <1>. DEFINE ms == missions[m]
              lm == log.mission[m]
              om == LogOpened.mission[m]
              hm == LogHeld.mission[m]
              h == Held(m)
  <1>1. /\ LogSound(log) /\ LogSound(LogOpened) /\ LogSound(LogHeld)
        /\ IsMission(ms) /\ IsMission(h) /\ IsMission(lm) /\ IsMission(om) /\ IsMission(hm)
    BY LogHeldSound, HeldSame DEF CInv, LogInv, LogSound, Sound
  <1>2. om = lm \/ om = [lm EXCEPT !.must_hold = TRUE]
    <2>1. CASE inner.session_journaled
      BY <2>1 DEF LogOpened
    <2>2. CASE ~inner.session_journaled
      BY <1>1, <2>2, OpenedMission DEF LogOpened
    <2>. QED
      BY <2>1, <2>2
  <1>3. hm = IF m \in ToHold THEN Recorded(om, Rec("Held")) ELSE om
    <2>. DEFINE j == LogOpened
                f == [n \in Missions |-> IF n \in ToHold THEN Recorded(j.mission[n], Rec("Held"))
                                         ELSE j.mission[n]]
                r == j.refused \/ (ToHold # {} /\ j.session = "Closed")
                       \/ \E n \in ToHold : ~Admits(j.mission[n], Rec("Held"))
    <2>1. LogHeld = [j EXCEPT !.refused = r, !.mission = f]
      BY DEF LogHeld, ReplayHolds
    <2>2. f[m] = IF m \in ToHold THEN Recorded(om, Rec("Held")) ELSE om
      BY DEF f
    <2>. HIDE DEF f, r, j
    <2>3. LogSound(j)
      BY <1>1 DEF j
    <2>4. LogHeld.mission = f
      BY <2>1, <2>3 DEF LogSound, IsLog
    <2>. QED
      BY <2>2, <2>4
  <1>4. Recorded(om, Rec("Held"))
          = [om EXCEPT !.held = TRUE, !.held_journaled = TRUE, !.must_hold = FALSE]
    BY DEF Recorded, Rec
  <1>5. m \in ToHold <=> (ms.held /\ ~ms.held_journaled)
    BY DEF ToHold, HoldDue
  <1>. DEFINE j == ms.held_journaled \/ m \in ToHold
  <1>6. h = [ms EXCEPT !.held_journaled = j]
    BY Zenon DEF Held
  <1>7. SameMission(ms, lm) /\ HeldOK(lm)
    BY DEF Agreement
  <1>8. SameMission(ms, om) /\ HeldOK(om)
    <2>1. \A f \in MissionFields \ {"must_hold"} : om[f] = lm[f]
      BY <1>1, <1>2 DEF IsMission, MissionFields
    <2>. QED
      BY <1>7, <2>1 DEF SameMission, HeldOK, MissionFields
  <1>9. j = TRUE \/ (j = ms.held_journaled /\ m \notin ToHold)
    BY <1>5, <1>8 DEF HeldOK, SameMission
  <1>. HIDE DEF h, ms, lm, om, hm, j
  <1>10. /\ h.held_journaled = j /\ h.held = ms.held
         /\ \A f \in MissionFields \ {"held_journaled"} : h[f] = ms[f]
    BY <1>1, <1>6 DEF IsMission, MissionFields
  <1>11. CASE m \in ToHold
    <2>1. hm = [om EXCEPT !.held = TRUE, !.held_journaled = TRUE, !.must_hold = FALSE]
      BY <1>3, <1>4, <1>11
    <2>2. /\ hm.held = TRUE /\ hm.held_journaled = TRUE
          /\ \A f \in MissionFields \ {"held", "held_journaled", "must_hold"} : hm[f] = om[f]
      BY <1>1, <2>1 DEF IsMission, MissionFields
    <2>3. h.held_journaled = TRUE /\ h.held
      BY <1>5, <1>9, <1>10, <1>11
    <2>4. SameMission(h, hm)
      BY <1>8, <1>10, <2>2, <2>3 DEF SameMission, MissionFields
    <2>. QED
      BY <1>1, <2>4 DEF h, hm
  <1>12. CASE m \notin ToHold
    <2>1. hm = om
      BY <1>3, <1>12
    <2>2. h.held_journaled = ms.held_journaled
      BY <1>5, <1>8, <1>9, <1>10, <1>12 DEF HeldOK, SameMission, j
    <2>3. SameMission(h, hm)
      BY <1>8, <1>10, <2>1, <2>2 DEF SameMission, MissionFields
    <2>. QED
      BY <1>1, <2>3 DEF h, hm
  <1>. QED
    BY <1>11, <1>12

(***************************************************************************)
(* The invariant.                                                           *)
(***************************************************************************)
\* Inner's record, of whatever its fields hold.
InnerOK == inner = [f \in {"broken", "closed", "session_journaled"} |-> inner[f]]

\* No call outlives the coordinator, and opening runs alone.
FallInv ==
    /\ proc \in {"down", "opening", "up"}
    /\ proc = "down" => call[Opener] = Idle
    /\ proc # "up" => \A c \in Calls : call[c] = Idle

HeldInv == \A m \in Missions : HeldOK(log.mission[m])

AgreeInv == ~log.refused /\ proc # "down" /\ ~inner.broken => Agreement(missions, log)

\* A call that will report an end holds one that memory and the journal share.
EndOK(rec, mem, j) ==
    /\ rec.pc = "content_stop" => rec.then # "leave"
    /\ \A m \in Missions : m = rec.m =>
         /\ rec.pc \in {"withdraw", "settled", "close"} /\ rec.then = "leave" /\ rec.ok =>
               mem[m].state \in Terminal /\ j.mission[m].state = mem[m].state
         /\ rec.pc = "finish" => j.mission[m].state = "Done"
EndInv == ~log.refused => \A c \in AllCalls : EndOK(call[c], missions, log)

ToldInv ==
    /\ told = [m \in Missions |-> told[m]]
    /\ ~log.refused => \A m \in Missions :
          told[m] # "None" => told[m] \in Terminal /\ log.mission[m].state = told[m]

JInv == InnerOK /\ FallInv /\ HeldInv /\ AgreeInv /\ EndInv /\ ToldInv

(***************************************************************************)
(* What a step does to each part of it.                                     *)
(***************************************************************************)
Lasts ==
    \A m \in Missions : missions[m].state \in Terminal => missions'[m].state = missions[m].state

Faithful == InnerOK' /\ (~log'.refused /\ ~inner'.broken => Agreement(missions', log'))

Continues(c) ==
    \/ call' = call
    \/ \E rec : /\ call' = [call EXCEPT ![c] = rec]
                /\ ~log'.refused => EndOK(rec, missions', log')

Tells ==
    \/ told' = told
    \/ \E m, s : /\ told' = [told EXCEPT ![m] = s]
                 /\ ~log'.refused /\ m \in Missions => s \in Terminal /\ log'.mission[m].state = s

LEMMA EndsStay ==
  ASSUME NEW rec, EndOK(rec, missions, log), Lasts, Keeps(log, log')
  PROVE  EndOK(rec, missions', log')
  BY DEF EndOK, Lasts, Keeps, KeepsMission, Terminal

LEMMA JStep ==
  ASSUME CInv, JInv, Lasts, Keeps(log, log'), Faithful, FallInv', Tells,
         NEW c \in AllCalls, Continues(c)
  PROVE  JInv'
  <1>1. ~log'.refused => ~log.refused
    BY DEF Keeps
  <1>2. HeldInv'
    BY DEF JInv, HeldInv, Keeps, KeepsMission
  <1>3. AgreeInv' /\ InnerOK'
    BY DEF Faithful, AgreeInv
  <1>4. EndInv'
    <2>. SUFFICES ASSUME ~log'.refused, NEW d \in AllCalls
                  PROVE  EndOK(call'[d], missions', log')
      BY DEF EndInv
    <2>1. EndOK(call[d], missions', log')
      BY <1>1, EndsStay DEF JInv, EndInv
    <2>2. call'[d] = call[d] \/ EndOK(call'[d], missions', log')
      BY DEF Continues, CInv, ShapeInv
    <2>. QED
      BY <2>1, <2>2
  <1>5. ToldInv'
    <2>1. told' = [m \in Missions |-> told'[m]]
      BY DEF Tells, JInv, ToldInv
    <2>2. ASSUME ~log'.refused, NEW m \in Missions, told'[m] # "None"
          PROVE  told'[m] \in Terminal /\ log'.mission[m].state = told'[m]
      <3>1. CASE told'[m] = told[m]
        BY <1>1, <2>2, <3>1 DEF JInv, ToldInv, Keeps, KeepsMission
      <3>2. CASE told'[m] # told[m]
        BY <2>2, <3>2 DEF Tells, JInv, ToldInv
      <3>. QED
        BY <3>1, <3>2
    <2>. QED
      BY <2>1, <2>2 DEF ToldInv
  <1>. QED
    BY <1>2, <1>3, <1>4, <1>5 DEF JInv

LEMMA FallKeeps ==
  ASSUME CInv, JInv, proc' \in {proc, "up"}, NEW c \in AllCalls, Continues(c),
         proc = "up" \/ call[c] # Idle \/ call' = call
  PROVE  FallInv'
  <1>0. proc' \in {"down", "opening", "up"}
    BY DEF JInv, FallInv
  <1>1. CASE proc' = "up"
    BY <1>0, <1>1 DEF FallInv
  <1>2. CASE proc' # "up" /\ call' = call
    BY <1>0, <1>2 DEF FallInv, JInv
  <1>3. CASE proc' # "up" /\ call' # call
    <2>1. proc' = proc /\ call[c] # Idle
      BY <1>3
    <2>2. c = Opener /\ proc = "opening"
      BY <1>3, <2>1 DEF JInv, FallInv, AllCalls
    <2>3. \A d \in Calls : call'[d] = call[d]
      BY <1>3, <2>2, CallAssumption DEF Continues, CInv, ShapeInv, AllCalls
    <2>. QED
      BY <2>1, <2>2, <2>3 DEF JInv, FallInv
  <1>. QED
    BY <1>1, <1>2, <1>3

LEMMA OrdinaryStep ==
  ASSUME CInv, JInv, Ordinary, Faithful, Tells, NEW c \in AllCalls, Continues(c),
         proc = "up" \/ call[c] # Idle \/ call' = call
  PROVE  JInv'
  <1>1. Lasts
    BY DEF Ordinary, Tamed, Tame, Lasts
  <1>2. Keeps(log, log')
    BY JournalKeeps DEF Ordinary, Journals, CInv, LogInv
  <1>3. FallInv'
    BY FallKeeps DEF Ordinary, Stays
  <1>. QED
    BY <1>1, <1>2, <1>3, JStep

(***************************************************************************)
(* The ways a step keeps memory and journal alike: it changes neither, the  *)
(* coordinator is broken, or what it takes is what it recorded.             *)
(***************************************************************************)
Alike(m) ==
    /\ m \in Missions /\ SameMission(Held(m), LogHeld.mission[m])
    /\ IsMission(Held(m)) /\ IsMission(LogHeld.mission[m])
Fits(m, ev, ms) ==
    ev.kind # "Drafted" /\ (Alike(m) => SameMission(ms, Recorded(LogHeld.mission[m], ev)))

Rests == missions' = missions /\ log' = log /\ inner' = inner
Breaks == inner' = [inner EXCEPT !.broken = TRUE] \/ (inner' = inner /\ inner.broken)
Takes == \E m, ev, ms : Wrote(m, ev, ms) /\ Fits(m, ev, ms)

LEMMA RestsFaithful ==
  ASSUME JInv, proc # "down", Rests
  PROVE  Faithful
  BY DEF JInv, InnerOK, AgreeInv, Faithful, Rests

LEMMA BreaksFaithful ==
  ASSUME JInv, Breaks
  PROVE  Faithful
  <1>1. InnerOK' /\ inner'.broken
    BY DEF JInv, InnerOK, Breaks
  <1>. QED
    BY <1>1 DEF Faithful

LEMMA HeldAlike ==
  ASSUME CInv, JInv, proc # "down", ~inner.broken, ~log.refused
  PROVE  \A m \in Missions : Alike(m)
  BY HeldAgree DEF JInv, AgreeInv, HeldInv, Alike

\* A write of mission m after which it is ms in memory, and a in the journal.
LEMMA WroteAlike ==
  ASSUME CInv, JInv, proc # "down", NEW m, NEW ms, NEW a, Usable,
         inner' = [inner EXCEPT !.session_journaled = TRUE],
         missions' = [MissionsHeld EXCEPT ![m] = ms],
         log' = Refusal(LogHeld) \/ log' = [LogHeld EXCEPT !.mission[m] = a],
         Alike(m) => SameMission(ms, a)
  PROVE  Faithful
  <1>1. InnerOK' /\ inner'.broken = inner.broken /\ ~inner.broken
    BY DEF JInv, InnerOK, Usable
  <1>2. LogSound(LogHeld) /\ Keeps(log, LogHeld)
    BY LogHeldSound DEF CInv, LogInv
  <1>3. CASE log' = Refusal(LogHeld)
    <2>1. log'.refused
      BY <1>2, <1>3 DEF Refusal, LogSound, IsLog
    <2>. QED
      BY <1>1, <2>1 DEF Faithful
  <1>4. CASE log' = [LogHeld EXCEPT !.mission[m] = a]
    <2>. SUFFICES ASSUME ~log'.refused, NEW n \in Missions
                  PROVE  SameMission(missions'[n], log'.mission[n])
      BY <1>1 DEF Faithful, Agreement
    <2>1. log'.refused = LogHeld.refused /\ log'.mission = [LogHeld.mission EXCEPT ![m] = a]
      BY <1>2, <1>4 DEF LogSound, IsLog
    <2>2. ~log.refused
      BY <1>2, <2>1 DEF Keeps
    <2>3. Alike(n)
      BY <1>1, <2>2, HeldAlike
    <2>4. log'.mission[n] = IF n = m THEN a ELSE LogHeld.mission[n]
      BY <1>2, <2>1 DEF LogSound, IsLog
    <2>5. missions'[n] = IF n = m THEN ms ELSE Held(n)
      BY DEF MissionsHeld
    <2>. QED
      BY <2>3, <2>4, <2>5 DEF Alike
  <1>. QED
    BY <1>3, <1>4

LEMMA TakesFaithful ==
  ASSUME CInv, JInv, proc # "down", Takes
  PROVE  Faithful
  <1>1. PICK m, ev, ms : Wrote(m, ev, ms) /\ Fits(m, ev, ms)
    BY DEF Takes
  <1>. DEFINE j == LogHeld
              a == Recorded(j.mission[m], ev)
  <1>2. log' = Replay(j, m, ev) /\ ev.kind # "Drafted"
    BY <1>1 DEF Wrote, WroteLog, Fits
  <1>3. log' = Refusal(j) \/ log' = [j EXCEPT !.mission[m] = a]
    <2>. HIDE DEF j
    <2>1. log' = Refusal(j) \/ log' = [j EXCEPT !.mission[m] = Recorded(@, ev)]
      BY <1>2 DEF Replay, ReplayRecord
    <2>. QED
      BY <2>1
  <1>4. Alike(m) => SameMission(ms, a)
    BY <1>1 DEF Fits
  <1>. HIDE DEF a
  <1>. QED
    BY <1>1, <1>3, <1>4, WroteAlike DEF Wrote, WroteLog

LEMMA WaysFaithful ==
  ASSUME CInv, JInv, proc # "down", Rests \/ Breaks \/ Takes
  PROVE  Faithful
  BY RestsFaithful, BreaksFaithful, TakesFaithful

\* The records of the coordinator, each with what it takes in memory.
LEMMA RecordsFit ==
  ASSUME NEW m
  PROVE  /\ \A t : t.name # "Consent" => Fits(m, Transitioned(t), Apply(Held(m), t))
         /\ \A t : t.name = "Consent" =>
               Fits(m, Transitioned(t), [Apply(Held(m), t) EXCEPT !.consent = t.hash])
         /\ \A r : Fits(m, LaneRec("LaneInvoked", r), [Held(m) EXCEPT !.pending_lane = r])
         /\ \A r : \A k \in {"LaneReturned", "LaneOvertaken"} :
               Fits(m, LaneRec(k, r), [Held(m) EXCEPT !.pending_lane = "None"])
         /\ \A k \in {"ConsentRefused", "EffectRefused"} : Fits(m, Rec(k), Held(m))
         /\ \A e, o : Fits(m, EffectSettled(e, o), [Held(m) EXCEPT !.unsettled = NoEffect])
         /\ \A e : Fits(m, EffectRec("ApprovalPending", e), [Held(m) EXCEPT !.open_action = e])
         /\ \A e : Fits(m, EffectRec("ApprovalClosed", e), [Held(m) EXCEPT !.open_action = NoEffect])
  <1>. DEFINE a == Held(m)
              b == LogHeld.mission[m]
  <1>0. Alike(m) => SameMission(a, b) /\ IsMission(a) /\ IsMission(b)
    BY DEF Alike
  <1>1. ASSUME NEW t, t.name # "Consent" PROVE Fits(m, Transitioned(t), Apply(a, t))
    <2>1. Transitioned(t).kind # "Drafted"
      BY DEF Transitioned, Rec
    <2>. QED
      BY <1>0, <1>1, <2>1, TransitionSame DEF Fits
  <1>2. ASSUME NEW t, t.name = "Consent"
        PROVE  Fits(m, Transitioned(t), [Apply(a, t) EXCEPT !.consent = t.hash])
    <2>1. Transitioned(t).kind # "Drafted"
      BY DEF Transitioned, Rec
    <2>. QED
      BY <1>0, <1>2, <2>1, TransitionSame DEF Fits
  <1>3. \A k, r, o : /\ k # "Drafted" => /\ LaneRec(k, r).kind # "Drafted"
                                         /\ EffectRec(k, r).kind # "Drafted"
                                         /\ Rec(k).kind # "Drafted"
                     /\ EffectSettled(r, o).kind # "Drafted"
    BY DEF LaneRec, EffectRec, EffectSettled, Rec
  <1>4. ASSUME NEW r
        PROVE  /\ Fits(m, LaneRec("LaneInvoked", r), [a EXCEPT !.pending_lane = r])
               /\ \A k \in {"LaneReturned", "LaneOvertaken"} :
                     Fits(m, LaneRec(k, r), [a EXCEPT !.pending_lane = "None"])
               /\ \A k \in {"ConsentRefused", "EffectRefused"} : Fits(m, Rec(k), a)
    BY <1>0, <1>3, LaneSame DEF Fits
  <1>5. ASSUME NEW e, NEW o
        PROVE  /\ Fits(m, EffectSettled(e, o), [a EXCEPT !.unsettled = NoEffect])
               /\ Fits(m, EffectRec("ApprovalPending", e), [a EXCEPT !.open_action = e])
               /\ Fits(m, EffectRec("ApprovalClosed", e), [a EXCEPT !.open_action = NoEffect])
    BY <1>0, <1>3, EffectSame DEF Fits
  <1>. QED
    BY <1>1, <1>2, <1>4, <1>5, Zenon

LEMMA BrokeBreaks ==
  ASSUME NEW m, NEW ev, NEW ms, Broke(m, ev, ms)
  PROVE  Breaks
  BY DEF Broke, BrokeLog, Breaks

LEMMA UnwrittenRests ==
  ASSUME Unwritten \/ Untouched \/ UNCHANGED <<memory, journal>>
  PROVE  Rests
  BY DEF Unwritten, Untouched, memory, journal, Rests

LEMMA FiredWays ==
  ASSUME NEW m, NEW t, t.name # "Consent"
  PROVE  (Fired(m, t) => Takes) /\ (NotFired(m, t) => Breaks)
  <1>1. Fits(m, Transitioned(t), Apply(Held(m), t))
    BY RecordsFit
  <1>2. Fired(m, t) => Wrote(m, Transitioned(t), Apply(Held(m), t))
    BY DEF Fired, FiredAs
  <1>3. NotFired(m, t) => Breaks
    BY BrokeBreaks DEF NotFired
  <1>. QED
    BY <1>1, <1>2, <1>3 DEF Takes

\* A transition that the replay accepts is where the mission is, here and there.
LEMMA FiredState ==
  ASSUME CInv, JInv, proc # "down", NEW m \in Missions, NEW t, t.name # "Consent", Fired(m, t),
         ~log'.refused
  PROVE  /\ missions'[m].state = Transition(missions[m].state, t)
         /\ log'.mission[m].state = missions'[m].state
  <1>1. Faithful
    BY FiredWays, WaysFaithful
  <1>2. Wrote(m, Transitioned(t), Apply(Held(m), t))
    BY DEF Fired, FiredAs
  <1>3. ~inner'.broken
    BY <1>2 DEF Wrote, WroteLog, Usable, JInv, InnerOK
  <1>4. SameMission(missions'[m], log'.mission[m])
    BY <1>1, <1>3 DEF Faithful, Agreement
  <1>5. missions'[m] = Apply(Held(m), t)
    BY <1>2 DEF Wrote, MissionsHeld
  <1>6. Apply(Held(m), t).state = Transition(missions[m].state, t)
    BY HeldSame, AppliedFields
  <1>. QED
    BY <1>4, <1>5, <1>6 DEF SameMission

(***************************************************************************)
(* A call that is not about to report an end is mild.                       *)
(***************************************************************************)
Mild(rec) == rec.pc \notin {"withdraw", "settled", "close", "finish", "content_stop"}

LEMMA MildContinues ==
  ASSUME NEW c, NEW rec, Mild(rec), Become(c, rec)
  PROVE  Continues(c)
  BY DEF Mild, Become, Continues, EndOK

LEMMA Milds ==
  ASSUME NEW rec, CallOK(rec)
  PROVE  /\ Mild(Returned(rec))
         /\ \A pc : Ending(rec, pc).pc = pc
         /\ \A t : Mild(EndWith(rec, t)) /\ CallOK(Ending(rec, "endfire"))
         /\ Mild(Onward(rec)) /\ \A r \in Checked(rec) : Mild(r)
  <1>1. Mild(Returned(rec))
    BY DEF Mild, Returned, NewCall, Idle
  <1>2. \A pc : CallOK(Ending(rec, pc)) /\ Ending(rec, pc).pc = pc
    BY CallsEnd
  <1>3. ASSUME NEW t PROVE Mild(EndWith(rec, t))
    <2>. DEFINE r == Ending(rec, "endfire")
    <2>1. CallOK(r) /\ r.pc = "endfire"
      BY <1>2
    <2>. HIDE DEF r
    <2>2. Mild([r EXCEPT !.trigger = t])
      BY <2>1 DEF Mild, CallOK, CallFields
    <2>. QED
      BY <2>2 DEF EndWith, r
  <1>4. Mild(Onward(rec))
    BY DEF Mild, CallOK, CallFields, Onward
  <1>5. Mild([rec EXCEPT !.pc = "refuse"])
    BY DEF Mild, CallOK, CallFields
  <1>6. \A r \in Checked(rec) : Mild(r)
    BY <1>4, <1>5 DEF Checked
  <1>. QED
    BY <1>1, <1>2, <1>3, <1>4, <1>6

LEMMA OwnMild ==
  ASSUME CInv, NEW c \in AllCalls
  PROVE  /\ CallOK(call[c])
         /\ Return(c) => Continues(c)
         /\ \A pc : Ending(call[c], pc).pc = pc
         /\ \A t : Mild(EndWith(call[c], t))
         /\ \A r \in Interrupts(call[c]) : Mild(r)
         /\ Mild(EndFail(call[c])) /\ Mild(Returned(call[c]))
  <1>. DEFINE rec == call[c]
  <1>1. CallOK(rec)
    BY OwnCallOK
  <1>. HIDE DEF rec
  <1>2. Mild(Returned(rec)) /\ (\A pc : Ending(rec, pc).pc = pc) /\ \A t : Mild(EndWith(rec, t))
    BY <1>1, Milds
  <1>3. \A r \in Interrupts(rec) : Mild(r)
    BY <1>2 DEF Interrupts, Mild
  <1>4. Mild(EndFail(rec))
    <2>. DEFINE r == Ending(rec, "end")
    <2>1. CallOK(r) /\ r.pc = "end"
      BY <1>1, CallsEnd
    <2>. HIDE DEF r
    <2>2. Mild([r EXCEPT !.ok = FALSE])
      BY <2>1 DEF Mild, CallOK, CallFields
    <2>. QED
      BY <2>2 DEF EndFail, r
  <1>5. Return(c) => Continues(c)
    BY <1>2, MildContinues DEF Return, rec
  <1>. QED
    BY <1>1, <1>2, <1>3, <1>4, <1>5 DEF rec

\* A call in flight has a coordinator.
LEMMA Awake ==
  ASSUME CInv, JInv, NEW c \in AllCalls, call[c].pc # "idle"
  PROVE  proc # "down" /\ call[c] # Idle
  <1>1. call[c] # Idle
    BY DEF Idle
  <1>. QED
    BY <1>1 DEF JInv, FallInv, AllCalls

\* What a mild step of a call needs.
LEMMA MildStep ==
  ASSUME CInv, JInv, NEW c \in AllCalls, call[c].pc # "idle", Ordinary,
         Rests \/ Breaks \/ Takes, Continues(c), told' = told
  PROVE  JInv'
  <1>1. proc # "down" /\ call[c] # Idle
    BY Awake
  <1>2. Faithful
    BY <1>1, WaysFaithful
  <1>3. Tells
    BY DEF Tells
  <1>. QED
    BY <1>1, <1>2, <1>3, OrdinaryStep

(***************************************************************************)
(* The mild steps of a call in flight.                                      *)
(***************************************************************************)
LEMMA QuietTold ==
  ASSUME Quiet
  PROVE  told' = told
  BY DEF Quiet

LEMMA EndJ ==
  ASSUME CInv, JInv, NEW c \in AllCalls, End(c)
  PROVE  JInv'
  <1>. DEFINE ms == missions[call[c].m]
              lapse == ms.state = "AwaitingApproval" /\ ms.waiting # NoWait
              t == IF lapse THEN OfEffect("ApprovalLapsed", ms.waiting.effect) ELSE call[c].trigger
  <1>1. Return(c) \/ Become(c, EndWith(call[c], t))
    BY DEF End
  <1>. HIDE DEF t
  <1>2. Continues(c)
    BY <1>1, OwnMild, MildContinues
  <1>3. Rests /\ told' = told /\ call[c].pc # "idle"
    BY UnwrittenRests, QuietTold DEF End, At
  <1>. QED
    BY <1>2, <1>3, EndOrdinary, MildStep

LEMMA LaneJ ==
  ASSUME CInv, JInv, NEW c \in AllCalls, Lane(c)
  PROVE  JInv'
  <1>. DEFINE m == call[c].m
              rec == call[c]
              role == Head(rec.roles)
              ev == LaneRec("LaneInvoked", role)
              ms == [Held(m) EXCEPT !.pending_lane = role]
              next == [rec EXCEPT !.pc = "running", !.role = role, !.roles = Tail(@)]
  <1>1. told' = told /\ call[c].pc # "idle"
    BY QuietTold DEF Lane, At
  <1>2. \/ \E r \in Interrupts(rec) : Only(c, r)
        \/ Only(c, Returned(rec))
        \/ Wrote(m, ev, ms) /\ Become(c, next)
        \/ Broke(m, ev, missions[m]) /\ Return(c)
    BY DEF Lane
  <1>3. Fits(m, ev, ms)
    BY RecordsFit
  <1>4. Mild(next)
    BY OwnMild DEF Mild, CallOK, CallFields
  <1>. HIDE DEF ev, ms, next
  <1>5. Continues(c)
    BY <1>2, <1>4, OwnMild, MildContinues DEF Only
  <1>6. Rests \/ Breaks \/ Takes
    BY <1>2, <1>3, UnwrittenRests, BrokeBreaks DEF Only, Takes
  <1>. QED
    BY <1>1, <1>5, <1>6, LaneOrdinary, MildStep

LEMMA LaneReturnJ ==
  ASSUME CInv, JInv, NEW c \in AllCalls, LaneReturn(c)
  PROVE  JInv'
  <1>. DEFINE m == call[c].m
              rec == call[c]
              none == [Held(m) EXCEPT !.pending_lane = "None"]
              returned == LaneRec("LaneReturned", rec.role)
              overtaken == LaneRec("LaneOvertaken", rec.role)
              answers == Answers(rec, missions[m])
  <1>1. told' = told /\ call[c].pc # "idle"
    BY QuietTold DEF LaneReturn, At
  <1>2. \/ Only(c, Returned(rec))
        \/ (Wrote(m, overtaken, none) \/ Broke(m, overtaken, missions[m])) /\ Return(c)
        \/ Wrote(m, returned, none) /\ \E next \in answers : Become(c, [next EXCEPT !.role = "None"])
        \/ Broke(m, returned, missions[m]) /\ Return(c)
    BY DEF LaneReturn
  <1>3. Fits(m, returned, none) /\ Fits(m, overtaken, none)
    BY RecordsFit
  <1>4. ASSUME NEW next \in answers PROVE Mild([next EXCEPT !.role = "None"])
    <2>1. CallOK(next) /\ Mild(next)
      <3>. DEFINE r(k) == [rec EXCEPT !.rest = k]
      <3>0. CallOK(rec)
        BY OwnMild
      <3>1. \A k : CallOK(r(k))
        BY <3>0 DEF CallOK, CallFields
      <3>2. next \in {EndWith(rec, Plain("Block")), EndWith(rec, Failure(rec.role)), Ending(rec, "end")}
              \/ \E k : next \in Checked(r(k))
        BY <1>4 DEF Answers
      <3>. HIDE DEF rec, r
      <3>3. \A k : \A x \in Checked(r(k)) : CallOK(x) /\ Mild(x)
        BY <3>1, CallsGo, Milds DEF Calm
      <3>4. Plain("Block").name \in EndNames /\ Failure(rec.role).name \in EndNames
        BY PlainNames DEF Failure, EndNames
      <3>5. /\ CallOK(EndWith(rec, Plain("Block"))) /\ CallOK(EndWith(rec, Failure(rec.role)))
            /\ CallOK(Ending(rec, "end"))
        BY <3>0, <3>4, CallsEnd DEF Calm
      <3>6. /\ Mild(EndWith(rec, Plain("Block"))) /\ Mild(EndWith(rec, Failure(rec.role)))
            /\ Mild(Ending(rec, "end"))
        BY <3>0, Milds DEF Mild
      <3>. QED
        BY <3>2, <3>3, <3>5, <3>6
    <2>. QED
      BY <2>1 DEF Mild, CallOK, CallFields
  <1>. HIDE DEF none, returned, overtaken, answers
  <1>5. Continues(c)
    BY <1>2, <1>4, OwnMild, MildContinues DEF Only
  <1>6. Rests \/ Breaks \/ Takes
    BY <1>2, <1>3, UnwrittenRests, BrokeBreaks DEF Only, Takes
  <1>. QED
    BY <1>1, <1>5, <1>6, LaneReturnOrdinary, MildStep

LEMMA RefuseEffectJ ==
  ASSUME CInv, JInv, NEW c \in AllCalls, RefuseEffect(c)
  PROVE  JInv'
  <1>. DEFINE m == call[c].m
              rec == call[c]
              ev == Rec("EffectRefused")
  <1>1. told' = told /\ call[c].pc # "idle"
    BY QuietTold DEF RefuseEffect, At
  <1>2. \/ Wrote(m, ev, Held(m)) /\ Become(c, Ending(rec, "end"))
        \/ Broke(m, ev, missions[m]) /\ Return(c)
        \/ Only(c, Returned(rec))
    BY DEF RefuseEffect
  <1>3. Fits(m, ev, Held(m))
    BY RecordsFit
  <1>4. Mild(Ending(rec, "end"))
    BY OwnMild DEF Mild
  <1>. HIDE DEF ev
  <1>5. Continues(c)
    BY <1>2, <1>4, OwnMild, MildContinues DEF Only
  <1>6. Rests \/ Breaks \/ Takes
    BY <1>2, <1>3, UnwrittenRests, BrokeBreaks DEF Only, Takes
  <1>. QED
    BY <1>1, <1>5, <1>6, RefuseEffectOrdinary, MildStep

LEMMA PhaseDoneJ ==
  ASSUME CInv, JInv, NEW c \in AllCalls, PhaseDone(c)
  PROVE  JInv'
  <1>. DEFINE m == call[c].m
              t == IF call[c].phase = "Verifying" THEN Plain("VerifyPass") ELSE Plain("PhaseDone")
  <1>1. told' = told /\ call[c].pc # "idle" /\ Continues(c)
    BY QuietTold, OwnMild DEF PhaseDone, At
  <1>2. Unwritten \/ Fired(m, t) \/ NotFired(m, t)
    BY DEF PhaseDone
  <1>3. t.name # "Consent"
    BY PlainNames
  <1>. HIDE DEF t
  <1>4. Rests \/ Breaks \/ Takes
    BY <1>2, <1>3, UnwrittenRests, FiredWays
  <1>. QED
    BY <1>1, <1>4, PhaseDoneOrdinary, MildStep

LEMMA LeaveJ ==
  ASSUME CInv, JInv, NEW c \in AllCalls, Leave(c)
  PROVE  JInv'
  <1>1. Rests /\ told' = told /\ call[c].pc # "idle"
    BY UnwrittenRests, QuietTold DEF Leave, At
  <1>2. Continues(c)
    BY MildContinues DEF Leave, Mild, Idle
  <1>. QED
    BY <1>1, <1>2, FinishOrdinary, MildStep

LEMMA DispatchJ ==
  ASSUME CInv, JInv, NEW c \in AllCalls, Dispatch(c)
  PROVE  JInv'
  <1>. DEFINE m == call[c].m
              rec == call[c]
              e == missions[m].next_effect
              ev == EffectRec("EffectDispatched", e)
              ms == [Held(m) EXCEPT !.next_effect = @ + 1, !.unsettled = e,
                                    !.dispatched_in_phase = TRUE]
              next == [rec EXCEPT !.pc = "perform", !.effect = e, !.rest = @ - 1]
  <1>1. told' = told /\ call[c].pc # "idle"
    BY DEF Dispatch, At
  <1>2. \/ Only(c, Ending(rec, "stop"))
        \/ Only(c, Returned(rec))
        \/ Only(c, Ending(rec, "end"))
        \/ Wrote(m, ev, ms) /\ Become(c, next)
        \/ Broke(m, ev, missions[m]) /\ Return(c)
    BY DEF Dispatch
  <1>3. Fits(m, ev, ms)
    <2>1. ev.kind # "Drafted"
      BY DEF EffectRec, Rec
    <2>. QED
      BY <2>1, EffectSame DEF Fits, Alike
  <1>4. Mild(next) /\ Mild(Ending(rec, "stop")) /\ Mild(Ending(rec, "end"))
    <2>1. Mild(next)
      BY OwnMild DEF Mild, CallOK, CallFields
    <2>2. Mild(Ending(rec, "stop")) /\ Mild(Ending(rec, "end"))
      BY OwnMild DEF Mild
    <2>. QED
      BY <2>1, <2>2
  <1>. HIDE DEF ev, ms, next
  <1>5. Continues(c)
    BY <1>2, <1>4, OwnMild, MildContinues DEF Only
  <1>6. Rests \/ Breaks \/ Takes
    BY <1>2, <1>3, UnwrittenRests, BrokeBreaks DEF Only, Takes
  <1>. QED
    BY <1>1, <1>5, <1>6, DispatchOrdinary, MildStep

LEMMA PerformJ ==
  ASSUME CInv, JInv, NEW c \in AllCalls, Perform(c) \/ Query(c)
  PROVE  JInv'
  <1>1. Rests /\ told' = told /\ call[c].pc # "idle"
    BY UnwrittenRests, QuietTold DEF Perform, Query, At
  <1>2. \E s : \/ Become(c, [call[c] EXCEPT !.pc = "settle", !.status = s])
               \/ Become(c, [call[c] EXCEPT !.pc = "resolve", !.status = s])
    BY DEF Perform, Query
  <1>3. \A s : /\ Mild([call[c] EXCEPT !.pc = "settle", !.status = s])
               /\ Mild([call[c] EXCEPT !.pc = "resolve", !.status = s])
    BY OwnMild DEF Mild, CallOK, CallFields
  <1>4. Continues(c)
    BY <1>2, <1>3, MildContinues
  <1>. QED
    BY <1>1, <1>4, PerformOrdinary, QueryOrdinary, MildStep

LEMMA SettleJ ==
  ASSUME CInv, JInv, NEW c \in AllCalls, Settle(c)
  PROVE  JInv'
  <1>. DEFINE m == call[c].m
              rec == call[c]
              ev == EffectSettled(rec.effect, rec.status)
              ms == [Held(m) EXCEPT !.unsettled = NoEffect]
  <1>1. told' = told /\ call[c].pc # "idle"
    BY QuietTold DEF Settle, At
  <1>2. \/ Only(c, EndFail(rec))
        \/ Only(c, Returned(rec))
        \/ Wrote(m, ev, ms) /\ \E next \in AfterSettled(rec) : Become(c, next)
        \/ Broke(m, ev, missions[m]) /\ Become(c, EndFail(rec))
    BY DEF Settle
  <1>3. Fits(m, ev, ms)
    BY RecordsFit
  <1>4. ASSUME NEW next \in AfterSettled(rec) PROVE Mild(next)
    <2>. DEFINE r == [rec EXCEPT !.status = "None", !.effect = NoEffect]
                p == [rec EXCEPT !.pc = "pend", !.status = "None"]
    <2>1. CallOK(r) /\ Mild(p)
      BY OwnMild DEF CallOK, CallFields, Mild
    <2>2. next \in {Onward(r), p} \cup Interrupts(rec)
      BY <1>4 DEF AfterSettled
    <2>. HIDE DEF r, p
    <2>. QED
      BY <2>1, <2>2, Milds, OwnMild
  <1>. HIDE DEF ev, ms
  <1>5. Continues(c)
    BY <1>2, <1>4, OwnMild, MildContinues DEF Only
  <1>6. Rests \/ Breaks \/ Takes
    BY <1>2, <1>3, UnwrittenRests, BrokeBreaks DEF Only, Takes
  <1>. QED
    BY <1>1, <1>5, <1>6, SettleOrdinary, MildStep

LEMMA PendJ ==
  ASSUME CInv, JInv, NEW c \in AllCalls, Pend(c)
  PROVE  JInv'
  <1>. DEFINE m == call[c].m
              rec == call[c]
              ev == EffectRec("ApprovalPending", rec.effect)
              ms == [Held(m) EXCEPT !.open_action = rec.effect]
              waits == [rec EXCEPT !.pc = "wait"]
  <1>1. told' = told /\ call[c].pc # "idle"
    BY QuietTold DEF Pend, At
  <1>2. \/ Only(c, EndFail(rec)) \/ Only(c, waits) \/ Only(c, Returned(rec))
        \/ Wrote(m, ev, ms) /\ Become(c, waits)
        \/ Broke(m, ev, missions[m]) /\ Become(c, EndFail(rec))
    BY DEF Pend
  <1>3. Fits(m, ev, ms)
    BY RecordsFit
  <1>4. Mild(waits)
    BY OwnMild DEF Mild, CallOK, CallFields
  <1>. HIDE DEF ev, ms, waits
  <1>5. Continues(c)
    BY <1>2, <1>4, OwnMild, MildContinues DEF Only
  <1>6. Rests \/ Breaks \/ Takes
    BY <1>2, <1>3, UnwrittenRests, BrokeBreaks DEF Only, Takes
  <1>. QED
    BY <1>1, <1>5, <1>6, PendOrdinary, MildStep

LEMMA WaitJ ==
  ASSUME CInv, JInv, NEW c \in AllCalls, Wait(c)
  PROVE  JInv'
  <1>. DEFINE m == call[c].m
              rec == call[c]
              t == AwaitApproval(rec.effect, rec.rest, rec.roles)
  <1>1. told' = told /\ call[c].pc # "idle"
    BY QuietTold DEF Wait, At
  <1>2. \/ Only(c, Returned(rec)) \/ Only(c, EndFail(rec))
        \/ Fired(m, t) /\ Return(c)
        \/ NotFired(m, t) /\ Become(c, EndFail(rec))
    BY DEF Wait
  <1>3. t.name # "Consent"
    BY PlainNames
  <1>. HIDE DEF t
  <1>5. Continues(c)
    BY <1>2, OwnMild, MildContinues DEF Only
  <1>6. Rests \/ Breaks \/ Takes
    BY <1>2, <1>3, UnwrittenRests, FiredWays DEF Only
  <1>. QED
    BY <1>1, <1>5, <1>6, WaitOrdinary, MildStep

LEMMA ResolveJ ==
  ASSUME CInv, JInv, NEW c \in AllCalls, Resolve(c)
  PROVE  JInv'
  <1>. DEFINE w == missions[call[c].m].waiting
              rec == [call[c] EXCEPT !.status = "None"]
              goes == [rec EXCEPT !.pc = "approve", !.effect = w.effect, !.phase = w.phase,
                                  !.rest = w.rest, !.roles = w.roles]
  <1>1. told' = told /\ call[c].pc # "idle"
    BY QuietTold DEF Resolve, At
  <1>2. \/ Only(c, Ending(rec, "end")) \/ Only(c, Returned(rec)) \/ Only(c, goes)
        \/ \E t : Only(c, EndWith(rec, t))
    BY DEF Resolve
  <1>3. CallOK(rec)
    BY OwnMild DEF CallOK, CallFields
  <1>. HIDE DEF rec
  <1>4. /\ Mild(goes) /\ Mild(Ending(rec, "end")) /\ Mild(Returned(rec))
        /\ \A t : Mild(EndWith(rec, t))
    <2>1. Mild(goes)
      BY <1>3 DEF Mild, CallOK, CallFields
    <2>. QED
      BY <1>3, <2>1, Milds DEF Mild
  <1>. HIDE DEF goes
  <1>5. Continues(c) /\ Unwritten
    BY <1>2, <1>4, MildContinues DEF Only
  <1>. QED
    BY <1>1, <1>5, UnwrittenRests, ResolveOrdinary, MildStep

LEMMA ResumeFits ==
  ASSUME CInv, NEW m
  PROVE  Fits(m, Rec("Resumed"), [missions[m] EXCEPT !.held = FALSE, !.held_journaled = FALSE])
  <1>. DEFINE d == missions[m]
              a == Held(m)
              b == LogHeld.mission[m]
              j == d.held_journaled \/ m \in ToHold
  <1>0. Rec("Resumed").kind # "Drafted"
    BY DEF Rec
  <1>. SUFFICES ASSUME Alike(m)
                PROVE  SameMission([d EXCEPT !.held = FALSE, !.held_journaled = FALSE],
                                   Recorded(b, Rec("Resumed")))
    BY <1>0 DEF Fits
  <1>1. IsMission(d) /\ IsMission(a) /\ IsMission(b) /\ SameMission(a, b)
    BY HeldSame DEF Alike
  <1>2. a = [d EXCEPT !.held_journaled = j]
    BY Zenon DEF Held
  <1>. HIDE DEF a, b, d, j
  <1>3. SameMission([d EXCEPT !.held = FALSE, !.held_journaled = FALSE],
                    [a EXCEPT !.held = FALSE, !.held_journaled = FALSE])
    BY <1>1, <1>2 DEF SameMission, IsMission, MissionFields
  <1>. QED
    BY <1>1, <1>3, ResumeSame

LEMMA TakeResumeJ ==
  ASSUME CInv, JInv, NEW c \in AllCalls, TakeResume(c)
  PROVE  JInv'
  <1>. DEFINE m == call[c].m
              ev == Rec("Resumed")
              ms == [missions[m] EXCEPT !.held = FALSE, !.held_journaled = FALSE]
  <1>1. told' = told /\ call[c].pc # "idle" /\ Continues(c)
    BY OwnMild DEF TakeResume, At
  <1>2. Wrote(m, ev, ms) \/ Broke(m, ev, missions[m]) \/ Rests
    BY DEF TakeResume, ResumeYes, ResumeNo, journal, Rests
  <1>3. Fits(m, ev, ms)
    BY ResumeFits
  <1>. HIDE DEF ms, ev
  <1>4. Rests \/ Breaks \/ Takes
    BY <1>2, <1>3, BrokeBreaks DEF Takes
  <1>. QED
    BY <1>1, <1>4, TakeResumeOrdinary, MildStep

LEMMA RefuseConsentWays ==
  ASSUME NEW c, RefuseConsent(c)
  PROVE  Breaks \/ Takes
  <1>. DEFINE m == call[c].m
              ev == Rec("ConsentRefused")
  <1>1. Fits(m, ev, Held(m))
    BY RecordsFit
  <1>. QED
    BY <1>1, BrokeBreaks DEF RefuseConsent, Takes

\* A denial that the Owner's call returns is in the journal.
LEMMA TakeAnswerJ ==
  ASSUME CInv, JInv, NEW c \in AllCalls, TakeAnswer(c), ~TakeYes(c)
  PROVE  JInv'
  <1>. DEFINE m == call[c].m
              t == OfHash("Deny", missions[m].hash)
  <1>1. /\ call[c].pc = "asking" /\ Continues(c)
        /\ TakeDiscarded(c) \/ TakeRefusal(c) \/ TakeNo(c)
    BY OwnMild DEF TakeAnswer, At
  <1>2. Ordinary
    BY TakeAnswerOrdinary
  <1>3. CASE TakeDiscarded(c) \/ TakeRefusal(c)
    <2>1. told' = told /\ (Rests \/ Breaks \/ Takes)
      BY <1>3, UnwrittenRests, RefuseConsentWays DEF TakeDiscarded, TakeRefusal
    <2>. QED
      BY <1>1, <1>2, <2>1, MildStep
  <1>4. CASE TakeNo(c)
    <2>0. ConsentCurrent(c) /\ m \in Missions /\ missions[m].state = "AwaitingConsent"
      BY <1>1, <1>4 DEF TakeNo, ConsentCurrent, CInv, AskInv, AskOK
    <2>1. \/ Fired(m, t) /\ told' = [told EXCEPT ![m] = "Denied"]
          \/ NotFired(m, t) /\ told' = told
      BY <1>4 DEF TakeNo
    <2>2. t.name = "Deny"
      BY PlainNames
    <2>. HIDE DEF t, m
    <2>3. Rests \/ Breaks \/ Takes
      BY <2>1, <2>2, FiredWays
    <2>4. proc # "down" /\ call[c] # Idle
      BY <1>1, Awake
    <2>5. Faithful
      BY <2>3, <2>4, WaysFaithful
    <2>6. Tells
      <3>1. CASE NotFired(m, t) /\ told' = told
        BY <3>1 DEF Tells
      <3>2. CASE Fired(m, t) /\ told' = [told EXCEPT ![m] = "Denied"]
        <4>1. Transition(missions[m].state, t) = "Denied"
          BY <2>0, <2>2 DEF Transition, m
        <4>2. ~log'.refused => log'.mission[m].state = "Denied"
          BY <2>0, <2>2, <2>4, <3>2, <4>1, FiredState
        <4>. QED
          BY <3>2, <4>2 DEF Tells, Terminal
      <3>. QED
        BY <2>1, <3>1, <3>2
    <2>. QED
      BY <1>1, <1>2, <2>4, <2>5, <2>6, OrdinaryStep
  <1>. QED
    BY <1>1, <1>3, <1>4

(***************************************************************************)
(* The steps of a call that ends a mission, and reports it.                 *)
(***************************************************************************)
LEMMA EndingFields ==
  ASSUME NEW rec, NEW pc
  PROVE  LET e == Ending(rec, pc)
         IN  e.pc = pc /\ e.m = rec.m /\ e.then = rec.then /\ e.ok = rec.ok
  BY DEF Ending, NewCall, Idle

LEMMA OrdinaryLasts ==
  ASSUME CInv, Ordinary
  PROVE  Lasts /\ Keeps(log, log')
  <1>1. Lasts
    BY DEF Ordinary, Tamed, Tame, Lasts
  <1>2. Keeps(log, log')
    BY JournalKeeps DEF Ordinary, Journals, CInv, LogInv
  <1>. QED
    BY <1>1, <1>2

\* A failed end is reported to nobody.
LEMMA FailedContinues ==
  ASSUME NEW c, NEW rec, Become(c, rec), rec.pc = "withdraw", rec.ok = FALSE
  PROVE  Continues(c)
  BY DEF Become, Continues, EndOK

LEMMA StopFireJ ==
  ASSUME CInv, JInv, NEW c \in AllCalls, StopFire(c)
  PROVE  JInv'
  <1>. DEFINE m == call[c].m
              ms == missions[m]
              t == Plain("Stop")
  <1>0. Ordinary /\ call[c].pc # "idle" /\ proc # "down" /\ call[c] # Idle
    <2>1. call[c].pc # "idle"
      BY DEF StopFire, At
    <2>. QED
      BY <2>1, StopFireOrdinary, Awake
  <1>1. CASE StopEnded(c)
    <2>1. Rests /\ Continues(c) /\ told' = told
      BY <1>1, UnwrittenRests, OwnMild DEF StopEnded
    <2>. QED
      BY <1>0, <2>1, MildStep
  <1>2. CASE StopTaken(c)
    <2>1. /\ Fired(m, t) /\ Become(c, AfterStop(call[c], ms))
          /\ told' = told \/ told' = [told EXCEPT ![m] = "Stopped"]
      BY <1>2 DEF StopTaken
    <2>2. t.name = "Stop" /\ Legal(ms.state, t)
      BY <2>1, PlainNames DEF Fired, FiredAs, Accepts
    <2>3. Transition(ms.state, t) = "Stopped"
      BY <2>2 DEF Transition, Legal
    <2>. HIDE DEF t
    <2>4. ~log'.refused /\ m \in Missions =>
             missions'[m].state = "Stopped" /\ log'.mission[m].state = "Stopped"
      BY <1>0, <2>1, <2>2, <2>3, FiredState
    <2>5. Faithful
      BY <1>0, <2>1, <2>2, FiredWays, WaysFaithful
    <2>6. Tells
      BY <2>1, <2>4 DEF Tells, Terminal
    <2>7. Continues(c)
      <3>. DEFINE e == Ending(call[c], "withdraw")
      <3>1. e.pc = "withdraw" /\ e.m = m
        BY EndingFields
      <3>2. Become(c, e) \/ Return(c)
        BY <2>1 DEF AfterStop, Return
      <3>. HIDE DEF e
      <3>3. ~log'.refused => EndOK(e, missions', log')
        BY <2>4, <3>1 DEF EndOK, Terminal
      <3>. QED
        BY <3>2, <3>3, OwnMild DEF Continues, Become
    <2>. QED
      BY <1>0, <2>5, <2>6, <2>7, OrdinaryStep
  <1>3. CASE StopLost(c) /\ ~inner.closed
    <2>. DEFINE rec == [call[c] EXCEPT !.ok = FALSE]
                e == Ending(rec, "withdraw")
    <2>1. CallOK(rec) /\ rec.ok = FALSE
      BY OwnMild DEF CallOK, CallFields
    <2>. HIDE DEF rec
    <2>2. e.pc = "withdraw" /\ e.ok = FALSE
      BY <2>1, EndingFields
    <2>3. Become(c, e) \/ Become(c, Returned(rec))
      BY <1>3 DEF StopLost, AfterStop, rec
    <2>. HIDE DEF e
    <2>4. Continues(c)
      BY <2>1, <2>2, <2>3, FailedContinues, MildContinues, Milds
    <2>5. Breaks
      BY <1>3, BrokeBreaks DEF StopLost, Breaks, Usable
    <2>6. told' = told
      BY <1>3 DEF StopLost
    <2>. QED
      BY <1>0, <2>4, <2>5, <2>6, MildStep
  <1>. QED
    BY <1>1, <1>2, <1>3 DEF StopFire

LEMMA OwnEnd ==
  ASSUME CInv, JInv, NEW c \in AllCalls, ~log.refused
  PROVE  EndOK(call[c], missions, log)
  BY DEF JInv, EndInv

LEMMA WithdrawJ ==
  ASSUME CInv, JInv, NEW c \in AllCalls, Withdraw(c)
  PROVE  JInv'
  <1>. DEFINE m == call[c].m
              w == WithdrawOk(port, action, m)
              rec == [call[c] EXCEPT !.pc = "settled", !.ok = @ /\ w]
  <1>1. /\ call[c].pc = "withdraw" /\ Become(c, rec) /\ told' = told
        /\ missions' = missions /\ inner' = inner /\ log' = log
    BY DEF Withdraw, At, journal
  <1>. DEFINE ok == call[c].ok /\ w
  <1>2. /\ rec.pc = "settled" /\ rec.m = call[c].m /\ rec.then = call[c].then
        /\ rec.ok => call[c].ok
    <2>1. rec = [call[c] EXCEPT !.pc = "settled", !.ok = ok]
      BY Zenon
    <2>. HIDE DEF ok, rec
    <2>2. /\ rec.pc = "settled" /\ rec.m = call[c].m /\ rec.then = call[c].then
          /\ rec.ok = ok
      BY <2>1, OwnMild DEF CallOK, CallFields
    <2>. QED
      BY <2>2 DEF ok
  <1>. HIDE DEF rec
  <1>3. ~log.refused => EndOK(rec, missions, log)
    BY <1>1, <1>2, OwnEnd DEF EndOK
  <1>4. Continues(c) /\ Rests
    BY <1>1, <1>3 DEF Continues, Become, Rests
  <1>. QED
    BY <1>1, <1>4, WithdrawOrdinary, MildStep

\* What follows close_action: the end of a mission is reported if the call went
\* through it without a failure.
LEMMA AfterCloseJ ==
  ASSUME CInv, JInv, NEW c \in AllCalls, call[c].pc \in {"settled", "close"}, NEW closed,
         AfterClose(c, closed), Keeps(log, log')
  PROVE  Continues(c) /\ Tells
  <1>. DEFINE rec == [call[c] EXCEPT !.effect = NoEffect]
              failed == closed = "error" \/ ~rec.ok
  <1>1. /\ CallOK(rec) /\ rec.pc = call[c].pc /\ rec.m = call[c].m
        /\ rec.then = call[c].then /\ rec.ok = call[c].ok
    BY OwnMild DEF CallOK, CallFields
  <1>2. CASE rec.then = "leave"
    <2>1. /\ Become(c, Returned(rec))
          /\ told' = told \/ (rec.ok /\ told' = [told EXCEPT ![rec.m] = missions[rec.m].state])
      BY <1>2 DEF AfterClose
    <2>. HIDE DEF rec
    <2>2. Continues(c)
      BY <1>1, <2>1, Milds, MildContinues
    <2>3. ASSUME ~log'.refused, rec.ok, rec.m \in Missions
          PROVE  /\ missions[rec.m].state \in Terminal
                 /\ log'.mission[rec.m].state = missions[rec.m].state
      <3>1. ~log.refused
        BY <2>3 DEF Keeps
      <3>2. missions[rec.m].state \in Terminal /\ log.mission[rec.m].state = missions[rec.m].state
        BY <1>1, <1>2, <2>3, <3>1, OwnEnd DEF EndOK
      <3>. QED
        BY <2>3, <3>2 DEF Keeps, KeepsMission
    <2>4. Tells
      BY <2>1, <2>3 DEF Tells
    <2>. QED
      BY <2>2, <2>4
  <1>3. CASE rec.then = "rest"
    <2>1. PICK next \in CASE closed = "yes" -> Checked(rec)
                          [] closed = "no" -> {Ending(rec, "end")}
                          [] OTHER -> {Returned(rec)} :
             Become(c, [next EXCEPT !.then = "leave"])
      BY <1>3 DEF AfterClose
    <2>2. told' = told
      BY <1>3 DEF AfterClose
    <2>. HIDE DEF rec
    <2>3. /\ CallOK(Ending(rec, "end")) /\ Mild(Ending(rec, "end"))
          /\ CallOK(Returned(rec)) /\ Mild(Returned(rec))
      BY <1>1, CallsEnd, Milds DEF Calm, Mild
    <2>4. \A r \in Checked(rec) : CallOK(r) /\ Mild(r)
      BY <1>1, CallsGo, Milds DEF Calm
    <2>5. CallOK(next) /\ Mild(next)
      BY <2>1, <2>3, <2>4
    <2>6. Mild([next EXCEPT !.then = "leave"])
      BY <2>5 DEF Mild, CallOK, CallFields
    <2>. QED
      BY <2>1, <2>2, <2>6, MildContinues DEF Tells
  <1>4. CASE rec.then \in {"block", "recover_close", "content"}
    <2>1. /\ \E pc \in {"failed", "block", "recover_close", "content"} :
                Become(c, NewCall("open", pc, 0))
          /\ told' = told
      BY <1>4 DEF AfterClose
    <2>2. \A pc : NewCall("open", pc, 0).pc = pc
      BY CallsNew
    <2>. QED
      BY <2>1, <2>2, MildContinues DEF Mild, Tells
  <1>. QED
    BY <1>1, <1>2, <1>3, <1>4 DEF CallOK

LEMMA CloseAskJ ==
  ASSUME CInv, JInv, NEW c \in AllCalls, CloseAsk(c)
  PROVE  JInv'
  <1>. DEFINE e == missions[call[c].m].open_action
              rec == [call[c] EXCEPT !.pc = "close", !.effect = e]
  <1>1. call[c].pc = "settled" /\ Rests /\ Ordinary
    BY UnwrittenRests, CloseAskOrdinary DEF CloseAsk, At
  <1>2. \/ \E closed : AfterClose(c, closed)
        \/ Become(c, rec) /\ told' = told
    BY DEF CloseAsk
  <1>3. /\ rec.pc = "close" /\ rec.m = call[c].m /\ rec.then = call[c].then
        /\ rec.ok = call[c].ok
    BY OwnMild DEF CallOK, CallFields
  <1>. HIDE DEF rec
  <1>4. Continues(c) /\ Tells
    <2>1. CASE \E closed : AfterClose(c, closed)
      BY <1>1, <2>1, OrdinaryLasts, AfterCloseJ
    <2>2. CASE Become(c, rec) /\ told' = told
      <3>1. ~log.refused => EndOK(rec, missions, log)
        BY <1>1, <1>3, OwnEnd DEF EndOK
      <3>. QED
        BY <1>1, <2>2, <3>1 DEF Continues, Become, Rests, Tells
    <2>. QED
      BY <1>2, <2>1, <2>2
  <1>5. proc # "down" /\ call[c] # Idle
    BY <1>1, Awake
  <1>6. Faithful
    BY <1>1, <1>5, WaysFaithful
  <1>. QED
    BY <1>1, <1>4, <1>5, <1>6, OrdinaryStep

LEMMA CloseTakeJ ==
  ASSUME CInv, JInv, NEW c \in AllCalls, CloseTake(c)
  PROVE  JInv'
  <1>. DEFINE m == call[c].m
              ev == EffectRec("ApprovalClosed", call[c].effect)
              ms == [Held(m) EXCEPT !.open_action = NoEffect]
  <1>1. call[c].pc = "close" /\ Ordinary
    BY CloseTakeOrdinary DEF CloseTake, At
  <1>2. /\ Wrote(m, ev, ms) \/ Broke(m, ev, missions[m]) \/ Unwritten
        /\ \E closed : AfterClose(c, closed)
    BY DEF CloseTake
  <1>3. Fits(m, ev, ms)
    BY RecordsFit
  <1>. HIDE DEF ms, ev
  <1>4. Continues(c) /\ Tells
    BY <1>1, <1>2, OrdinaryLasts, AfterCloseJ
  <1>5. proc # "down" /\ call[c] # Idle
    BY <1>1, Awake
  <1>6. Rests \/ Breaks \/ Takes
    BY <1>2, <1>3, UnwrittenRests, BrokeBreaks DEF Takes
  <1>7. Faithful
    BY <1>5, <1>6, WaysFaithful
  <1>. QED
    BY <1>1, <1>4, <1>5, <1>7, OrdinaryStep

LEMMA EndFireJ ==
  ASSUME CInv, JInv, NEW c \in AllCalls, EndFire(c)
  PROVE  JInv'
  <1>. DEFINE m == call[c].m
              t == call[c].trigger
              ended == Apply(missions[m], t)
              gone(ok) == [call[c] EXCEPT !.pc = "withdraw", !.ok = ok, !.trigger = Plain("Block")]
  <1>0. Ordinary /\ call[c].pc # "idle" /\ told' = told
    BY EndFireOrdinary, QuietTold DEF EndFire, At
  <1>1. proc # "down" /\ call[c] # Idle
    BY <1>0, Awake
  <1>2. \A ok : /\ gone(ok).pc = "withdraw" /\ gone(ok).m = m /\ gone(ok).ok = ok
    BY OwnMild DEF CallOK, CallFields
  <1>3. \/ Unwritten /\ Return(c)
        \/ Unwritten /\ Become(c, gone(FALSE))
        \/ Fired(m, t) /\ Become(c, gone(call[c].ok))
        \/ Broke(m, Transitioned(t), ended) /\ Become(c, gone(FALSE))
        \/ inner.broken /\ inner' = inner /\ Become(c, gone(FALSE))
    BY DEF EndFire
  <1>4. t.name \in EndNames
    BY OwnMild DEF CallOK
  <1>. HIDE DEF gone, ended, t, m
  <1>5. Rests \/ Breaks \/ Takes
    BY <1>3, <1>4, UnwrittenRests, BrokeBreaks, FiredWays DEF EndNames, Breaks
  <1>6. CASE Fired(m, t) /\ Become(c, gone(call[c].ok))
    <2>1. Legal(missions[m].state, t)
      BY <1>6 DEF Fired, FiredAs, Accepts
    <2>2. Transition(missions[m].state, t) \in Terminal
      BY <1>4, <2>1 DEF Legal, Transition, EndNames, Terminal
    <2>3. ~log'.refused /\ m \in Missions =>
             missions'[m].state \in Terminal /\ log'.mission[m].state = missions'[m].state
      BY <1>1, <1>4, <1>6, <2>2, FiredState DEF EndNames
    <2>4. ~log'.refused => EndOK(gone(call[c].ok), missions', log')
      BY <1>2, <2>3 DEF EndOK
    <2>5. Continues(c)
      BY <1>6, <2>4 DEF Continues, Become
    <2>. QED
      BY <1>0, <1>5, <2>5, MildStep
  <1>7. CASE Return(c) \/ Become(c, gone(FALSE))
    <2>1. Continues(c)
      BY <1>2, <1>7, OwnMild, FailedContinues
    <2>. QED
      BY <1>0, <1>5, <2>1, MildStep
  <1>. QED
    BY <1>3, <1>6, <1>7

LEMMA FinishJ ==
  ASSUME CInv, JInv, NEW c \in AllCalls, Finish(c)
  PROVE  JInv'
  <1>. DEFINE m == call[c].m
  <1>1. /\ call[c].pc = "finish" /\ told' = [told EXCEPT ![m] = "Done"]
        /\ Rests /\ Continues(c) /\ Ordinary
    BY UnwrittenRests, OwnMild, FinishOrdinary DEF Finish, At
  <1>2. ~log.refused /\ m \in Missions => log.mission[m].state = "Done"
    BY <1>1, OwnEnd DEF EndOK
  <1>3. Tells
    BY <1>1, <1>2 DEF Tells, Terminal, Rests
  <1>4. proc # "down" /\ call[c] # Idle
    BY <1>1, Awake
  <1>5. Faithful
    BY <1>1, <1>4, WaysFaithful
  <1>. QED
    BY <1>1, <1>3, <1>4, <1>5, OrdinaryStep

LEMMA ApproveJ ==
  ASSUME CInv, JInv, NEW c \in AllCalls, Approve(c)
  PROVE  JInv'
  <1>. DEFINE m == call[c].m
              rec == call[c]
              t == ActionApproved(rec.effect, rec.phase)
              next == [rec EXCEPT !.pc = "settled", !.then = "rest", !.effect = NoEffect]
  <1>1. call[c].pc # "idle" /\ told' = told
    BY QuietTold DEF Approve, At
  <1>2. \/ Wrote(m, Transitioned(t), Apply(Held(m), t)) /\ Become(c, next)
        \/ NotFired(m, t) /\ Return(c)
        \/ Only(c, Returned(rec))
    BY DEF Approve
  <1>3. t.name # "Consent"
    BY PlainNames
  <1>4. next.pc = "settled" /\ next.then = "rest"
    BY OwnMild DEF CallOK, CallFields
  <1>. HIDE DEF t, next
  <1>5. Become(c, next) => Continues(c)
    BY <1>4 DEF Continues, Become, EndOK
  <1>6. Continues(c)
    BY <1>2, <1>5, OwnMild, MildContinues DEF Only
  <1>7. Rests \/ Breaks \/ Takes
    BY <1>2, <1>3, UnwrittenRests, FiredWays, RecordsFit DEF Only, Takes
  <1>. QED
    BY <1>1, <1>6, <1>7, ApproveOrdinary, MildStep

LEMMA CallJ ==
  ASSUME CInv, JInv, NEW c \in AllCalls, OwnSteps(c) \/ (OutboundReturns(c) /\ ~(TakeAnswer(c) /\ TakeYes(c)))
  PROVE  JInv'
  BY StopFireJ, WithdrawJ, CloseAskJ, CloseTakeJ, EndJ, EndFireJ, LaneJ, LaneReturnJ,
     RefuseEffectJ, PhaseDoneJ, FinishJ, LeaveJ, DispatchJ, PerformJ, SettleJ, PendJ, WaitJ,
     ResolveJ, ApproveJ, TakeResumeJ, TakeAnswerJ
  DEF OwnSteps, OutboundReturns

(***************************************************************************)
(* The calls of the host.                                                   *)
(***************************************************************************)
LEMMA HostStep ==
  ASSUME CInv, JInv, proc = "up", Ordinary, Rests \/ Breaks \/ Takes, told' = told,
         NEW c \in AllCalls, Continues(c)
  PROVE  JInv'
  BY WaysFaithful, OrdinaryStep DEF Tells

LEMMA NewMild ==
  \A op, pc, m : /\ NewCall(op, pc, m).pc = pc /\ NewCall(op, pc, m).m = m
                 /\ NewCall(op, pc, m).then = "leave"
  BY DEF NewCall, Idle

LEMMA AloneJ ==
  ASSUME CInv, JInv, NEW m \in Missions, Submit(m) \/ TimePasses(m) \/ Close
  PROVE  JInv'
  <1>0. Ordinary /\ Opener \in AllCalls
    BY AloneOrdinary DEF AllCalls
  <1>1. proc = "up" /\ call' = call /\ told' = told
    BY DEF Submit, TimePasses, Close, Host, history
  <1>2. CASE Submit(m)
    <2>. DEFINE t == OfHash("Submit", missions[m].hash)
    <2>1. (Fired(m, t) \/ NotFired(m, t)) /\ t.name # "Consent"
      BY <1>2, PlainNames DEF Submit
    <2>. HIDE DEF t
    <2>2. Breaks \/ Takes
      BY <2>1, FiredWays
    <2>. QED
      BY <1>0, <1>1, <2>2, HostStep DEF Continues
  <1>3. CASE TimePasses(m)
    <2>1. Rests
      BY <1>3, UnwrittenRests DEF TimePasses
    <2>. QED
      BY <1>0, <1>1, <2>1, HostStep DEF Continues
  <1>4. CASE Close
    <2>1. CASE BrokeLog(ReplayClosed(LogHeld))
      <3>1. Breaks
        BY <2>1 DEF BrokeLog, Breaks
      <3>. QED
        BY <1>0, <1>1, <3>1, HostStep DEF Continues
    <2>2. CASE /\ WroteLog(ReplayClosed(LogHeld))
               /\ inner' = [inner EXCEPT !.session_journaled = TRUE, !.closed = TRUE]
               /\ missions' = MissionsHeld
      <3>1. InnerOK' /\ ~inner.broken /\ log' = ReplayClosed(LogHeld)
        BY <2>2 DEF WroteLog, Usable, JInv, InnerOK
      <3>2. LogSound(LogHeld) /\ Keeps(log, LogHeld)
        BY LogHeldSound DEF CInv, LogInv
      <3>3. log'.mission = LogHeld.mission /\ Keeps(LogHeld, log')
        BY <3>1, <3>2, ClosedSame, ClosedKeeps
      <3>4. ~log'.refused => ~log.refused
        BY <3>2, <3>3 DEF Keeps
      <3>5. ASSUME ~log'.refused, NEW n \in Missions PROVE SameMission(missions'[n], log'.mission[n])
        <4>1. Alike(n)
          BY <1>1, <3>1, <3>4, <3>5, HeldAlike
        <4>2. missions'[n] = Held(n)
          BY <2>2 DEF MissionsHeld
        <4>. QED
          BY <3>3, <4>1, <4>2 DEF Alike
      <3>6. Faithful
        BY <3>1, <3>5 DEF Faithful, Agreement
      <3>. QED
        BY <1>0, <1>1, <3>6, OrdinaryStep DEF Continues, Tells
    <2>. QED
      BY <1>4, <2>1, <2>2 DEF Close
  <1>. QED
    BY <1>2, <1>3, <1>4

LEMMA HostJ ==
  ASSUME CInv, JInv, NEW m \in Missions, NEW c \in Calls,
         \/ Resume(c, m) \/ Stop(c, m) \/ AdvanceEnd(c, m) \/ AdvanceStart(c, m)
         \/ AdvanceExplain(c, m) \/ AdvancePhase(c, m)
  PROVE  JInv'
  <1>0. Ordinary /\ c \in AllCalls
    BY HostOrdinary DEF AllCalls
  <1>1. proc = "up" /\ told' = told
    BY QuietTold
    DEF Resume, Stop, AdvanceEnd, AdvanceStart, AdvanceExplain, AdvancePhase, Advances, history
  <1>2. CASE Resume(c, m)
    <2>1. Rests
      BY <1>2 DEF Resume, journal, Rests
    <2>2. Continues(c)
      BY <1>2, NewMild, MildContinues DEF Resume, Mild
    <2>. QED
      BY <1>0, <1>1, <2>1, <2>2, HostStep
  <1>3. CASE Stop(c, m)
    <2>1. Rests
      BY <1>3, UnwrittenRests DEF Stop
    <2>2. Continues(c)
      BY <1>3, NewMild, MildContinues DEF Stop, Mild
    <2>. QED
      BY <1>0, <1>1, <2>1, <2>2, HostStep
  <1>4. CASE AdvanceEnd(c, m)
    <2>1. Rests
      BY <1>4, UnwrittenRests DEF AdvanceEnd
    <2>2. \E pc \in {"stop", "end"} : Become(c, NewAdvance(pc, m))
      BY <1>4 DEF AdvanceEnd
    <2>3. Continues(c)
      BY <2>2, NewMild, MildContinues DEF NewAdvance, Mild
    <2>. QED
      BY <1>0, <1>1, <2>1, <2>3, HostStep
  <1>5. CASE AdvanceStart(c, m)
    <2>1. Breaks \/ Takes
      BY <1>5, PlainNames, FiredWays DEF AdvanceStart
    <2>2. Continues(c)
      BY <1>5 DEF AdvanceStart, Continues
    <2>. QED
      BY <1>0, <1>1, <2>1, <2>2, HostStep
  <1>6. CASE AdvanceExplain(c, m)
    <2>. DEFINE t == Plain("PhaseDone")
                rec == NewAdvance("finish", m)
    <2>1. /\ missions[m].state = "Explaining"
          /\ \/ Fired(m, t) /\ Become(c, rec)
             \/ NotFired(m, t) /\ call' = call
      BY <1>6 DEF AdvanceExplain
    <2>2. t.name = "PhaseDone" /\ rec.pc = "finish" /\ rec.m = m
      BY PlainNames, NewMild DEF NewAdvance
    <2>. HIDE DEF t, rec
    <2>3. Breaks \/ Takes
      BY <2>1, <2>2, FiredWays
    <2>4. CASE Fired(m, t) /\ Become(c, rec)
      <3>1. Transition(missions[m].state, t) = "Done"
        BY <2>1, <2>2 DEF Transition
      <3>2. ~log'.refused => log'.mission[m].state = "Done"
        BY <1>1, <2>2, <2>4, <3>1, FiredState
      <3>3. ~log'.refused => EndOK(rec, missions', log')
        BY <2>2, <3>2 DEF EndOK
      <3>4. Continues(c)
        BY <2>4, <3>3 DEF Continues, Become
      <3>. QED
        BY <1>0, <1>1, <2>3, <3>4, HostStep
    <2>5. CASE call' = call
      BY <1>0, <1>1, <2>3, <2>5, HostStep DEF Continues
    <2>. QED
      BY <2>1, <2>4, <2>5
  <1>7. CASE AdvancePhase(c, m)
    <2>. DEFINE from == missions[m].state
                new == NewAdvance("lane", m)
                rec == [new EXCEPT !.owns = TRUE]
                next == IF from = "AwaitingApproval" THEN [rec EXCEPT !.pc = "query"]
                        ELSE [rec EXCEPT !.phase = from, !.roles = PhaseRoles(from)]
    <2>1. CallOK(new) /\ new.pc = "lane"
      BY CallsNew DEF NewAdvance
    <2>2. Become(c, next)
      BY <1>7 DEF AdvancePhase
    <2>. HIDE DEF new
    <2>3. CallOK(rec) /\ rec.pc = "lane"
      BY <2>1 DEF CallOK, CallFields
    <2>. HIDE DEF rec
    <2>4. Mild(next)
      BY <2>3 DEF Mild, CallOK, CallFields
    <2>. HIDE DEF next
    <2>5. Rests /\ Continues(c)
      BY <1>7, <2>2, <2>4, UnwrittenRests, MildContinues DEF AdvancePhase
    <2>. QED
      BY <1>0, <1>1, <2>5, HostStep
  <1>. QED
    BY <1>2, <1>3, <1>4, <1>5, <1>6, <1>7

(***************************************************************************)
(* The steps of opening.                                                    *)
(***************************************************************************)
LEMMA OpeningMild ==
  ASSUME NEW pc, Opening(pc), pc \notin {"withdraw", "settled", "close", "finish", "content_stop"}
  PROVE  Continues(Opener)
  BY NewMild, MildContinues DEF Opening, Mild

\* A step of opening that changes neither memory nor journal, and reports nothing.
LEMMA OpeningStep ==
  ASSUME CInv, JInv, NEW pc, AtOpen(pc), pc # "idle", Ordinary, Rests \/ Breaks \/ Takes,
         told' = told, Continues(Opener)
  PROVE  JInv'
  <1>1. Opener \in AllCalls /\ call[Opener].pc # "idle"
    BY DEF AtOpen, At, AllCalls
  <1>. QED
    BY <1>1, MildStep

LEMMA OpenSessionJ ==
  ASSUME CInv, JInv, OpenSession
  PROVE  JInv'
  <1>0. Ordinary /\ AtOpen("session") /\ told' = told /\ missions' = missions
    BY OpeningOrdinary DEF OpenSession, history
  <1>1. Continues(Opener) /\ Opener \in AllCalls
    BY OpeningMild DEF OpenSession, AllCalls
  <1>2. CASE BrokeLog(ReplayOpened(log))
    BY <1>0, <1>1, <1>2, OpeningStep DEF BrokeLog, Breaks
  <1>3. CASE /\ WroteLog(ReplayOpened(log))
             /\ inner' = [inner EXCEPT !.session_journaled = TRUE]
    <2>1. InnerOK' /\ ~inner.broken /\ log' = ReplayOpened(log)
      BY <1>3 DEF WroteLog, Usable, JInv, InnerOK
    <2>2. LogSound(log) /\ Keeps(log, log')
      BY <2>1, OpenedKeeps DEF CInv, LogInv
    <2>3. ASSUME ~log'.refused, NEW m \in Missions
          PROVE  SameMission(missions'[m], log'.mission[m])
      <3>. DEFINE a == log.mission[m]
                  b == log'.mission[m]
      <3>1. ~log.refused /\ proc # "down"
        BY <1>0, <2>2, <2>3 DEF Keeps, AtOpen
      <3>2. SameMission(missions'[m], a) /\ IsMission(a)
        BY <1>0, <2>1, <2>2, <3>1 DEF JInv, AgreeInv, Agreement, LogSound, Sound
      <3>3. b = a \/ b = [a EXCEPT !.must_hold = TRUE]
        BY <2>1, <2>2, OpenedMission
      <3>. HIDE DEF a, b
      <3>4. SameMission(missions'[m], b)
        BY <3>2, <3>3 DEF SameMission, IsMission, MissionFields
      <3>. QED
        BY <3>4 DEF b
    <2>4. Faithful
      BY <2>1, <2>3 DEF Faithful, Agreement
    <2>5. call[Opener] # Idle
      BY <1>0 DEF AtOpen, At, Idle
    <2>. QED
      BY <1>0, <1>1, <2>4, <2>5, OrdinaryStep DEF Tells
  <1>. QED
    BY <1>2, <1>3 DEF OpenSession

LEMMA RecoverJ ==
  ASSUME CInv, JInv, AdoptActions \/ RecoverActions \/ RecoverClose \/ LoadContent
  PROVE  JInv'
  <1>0. Ordinary
    BY OpeningOrdinary
  <1>1. CASE AdoptActions
    <2>1. Rests /\ told' = told /\ AtOpen("adopt")
      BY <1>1, UnwrittenRests DEF AdoptActions, history
    <2>2. Continues(Opener)
      BY <1>1, OpeningMild DEF AdoptActions
    <2>. QED
      BY <1>0, <2>1, <2>2, OpeningStep
  <1>2. CASE RecoverActions
    <2>1. Rests /\ told' = told /\ AtOpen("recover")
      BY <1>2, UnwrittenRests DEF RecoverActions, history
    <2>2. Continues(Opener)
      BY <1>2, OpeningMild DEF RecoverActions
    <2>. QED
      BY <1>0, <2>1, <2>2, OpeningStep
  <1>3. CASE RecoverClose
    <2>. DEFINE next(m) == [NewCall("open", "settled", m) EXCEPT !.then = "recover_close"]
    <2>1. Rests /\ told' = told /\ AtOpen("recover_close")
      BY <1>3, UnwrittenRests, QuietTold DEF RecoverClose
    <2>2. \/ Opening("failed") \/ Opening("overtake") \/ \E m : Become(Opener, next(m))
      BY <1>3 DEF RecoverClose
    <2>3. \A m : next(m).pc = "settled" /\ next(m).then = "recover_close"
      BY DEF NewCall, Idle
    <2>. HIDE DEF next
    <2>4. Continues(Opener)
      <3>1. ASSUME NEW m, Become(Opener, next(m)) PROVE Continues(Opener)
        BY <2>3, <3>1 DEF Continues, Become, EndOK
      <3>. QED
        BY <2>2, <3>1, OpeningMild
    <2>. QED
      BY <1>0, <2>1, <2>4, OpeningStep
  <1>4. CASE LoadContent
    <2>1. Rests /\ told' = told /\ AtOpen("load")
      BY <1>4, UnwrittenRests DEF LoadContent, history
    <2>2. Continues(Opener)
      BY <1>4, OpeningMild DEF LoadContent
    <2>. QED
      BY <1>0, <2>1, <2>2, OpeningStep
  <1>. QED
    BY <1>1, <1>2, <1>3, <1>4

LEMMA OvertakeJ ==
  ASSUME CInv, JInv, Overtake
  PROVE  JInv'
  <1>. DEFINE ev(m) == LaneRec("LaneOvertaken", missions[m].pending_lane)
              ms(m) == [Held(m) EXCEPT !.pending_lane = "None"]
  <1>0. Ordinary /\ told' = told /\ AtOpen("overtake")
    BY OpeningOrdinary, QuietTold DEF Overtake
  <1>1. \/ Unwritten
        \/ \E m \in Missions : Wrote(m, ev(m), ms(m)) \/ Broke(m, ev(m), missions[m])
    BY DEF Overtake
  <1>2. \A m : Fits(m, ev(m), ms(m))
    BY RecordsFit
  <1>3. Opening("block") \/ Opening("failed") \/ call' = call
    BY DEF Overtake
  <1>. HIDE DEF ev, ms
  <1>4. Rests \/ Breaks \/ Takes
    BY <1>1, <1>2, UnwrittenRests, BrokeBreaks DEF Takes
  <1>5. Continues(Opener)
    BY <1>3, OpeningMild DEF Continues
  <1>. QED
    BY <1>0, <1>4, <1>5, OpeningStep

LEMMA BlockInterruptedJ ==
  ASSUME CInv, JInv, BlockInterrupted
  PROVE  JInv'
  <1>. DEFINE next(m, t) == [NewCall("open", "end", m) EXCEPT !.then = "block", !.trigger = t]
  <1>1. Rests /\ told' = told /\ AtOpen("block") /\ Ordinary
    BY UnwrittenRests, QuietTold, OpeningOrdinary DEF BlockInterrupted
  <1>2. Opening("load") \/ \E m, t : Become(Opener, next(m, t))
    BY DEF BlockInterrupted
  <1>3. \A m, t : Mild(next(m, t))
    BY DEF NewCall, Idle, Mild
  <1>. HIDE DEF next
  <1>4. Continues(Opener)
    BY <1>2, <1>3, OpeningMild, MildContinues
  <1>. QED
    BY <1>1, <1>4, OpeningStep

\* What recovery withdraws or stops for its content is reported to nobody.
LEMMA ContentJ ==
  ASSUME CInv, JInv, ContentWithdraw \/ ContentStop
  PROVE  JInv'
  <1>0. Ordinary
    BY OpeningOrdinary
  <1>1. CASE ContentWithdraw
    <2>. DEFINE next(m, ok) == [NewCall("open", "content_stop", m) EXCEPT
                                  !.then = "content", !.ok = ok]
    <2>1. Rests /\ told' = told /\ AtOpen("content")
      BY <1>1, UnwrittenRests, QuietTold DEF ContentWithdraw
    <2>2. Opening("failed") \/ Opening("hold") \/ \E m, ok : Become(Opener, next(m, ok))
      BY <1>1 DEF ContentWithdraw
    <2>3. \A m, ok : next(m, ok).pc = "content_stop" /\ next(m, ok).then = "content"
      BY DEF NewCall, Idle
    <2>. HIDE DEF next
    <2>4. Continues(Opener)
      <3>1. ASSUME NEW m, NEW ok, Become(Opener, next(m, ok)) PROVE Continues(Opener)
        BY <2>3, <3>1 DEF Continues, Become, EndOK
      <3>. QED
        BY <2>2, <3>1, OpeningMild
    <2>. QED
      BY <1>0, <2>1, <2>4, OpeningStep
  <1>2. CASE ContentStop
    <2>. DEFINE m == call[Opener].m
                next(ok) == [call[Opener] EXCEPT !.pc = "settled", !.ok = ok]
    <2>1. told' = told /\ AtOpen("content_stop") /\ call[Opener].pc = "content_stop"
      BY <1>2, QuietTold DEF ContentStop, AtOpen, At
    <2>2. Fired(m, Plain("Stop")) \/ NotFired(m, Plain("Stop")) \/ Untouched
      BY <1>2 DEF ContentStop
    <2>3. \E ok : Become(Opener, next(ok))
      BY <1>2 DEF ContentStop
    <2>4. \A ok : next(ok).pc = "settled" /\ next(ok).then = call[Opener].then
      BY OwnMild DEF AllCalls, CallOK, CallFields
    <2>. HIDE DEF next, m
    <2>5. Rests \/ Breaks \/ Takes
      BY <2>2, PlainNames, FiredWays, UnwrittenRests
    <2>6. ~log'.refused => call[Opener].then # "leave"
      BY <1>0, <2>1, OrdinaryLasts, OwnEnd DEF Keeps, EndOK, AllCalls
    <2>7. Continues(Opener)
      BY <2>3, <2>4, <2>6 DEF Continues, Become, EndOK
    <2>. QED
      BY <1>0, <2>1, <2>5, <2>7, OpeningStep
  <1>. QED
    BY <1>1, <1>2

\* A hold that is not journaled yet is none to the journal.
LEMMA HoldUnfinishedJ ==
  ASSUME CInv, JInv, HoldUnfinished
  PROVE  JInv'
  <1>0. /\ Ordinary /\ AtOpen("hold") /\ told' = told /\ log' = log /\ inner' = inner
        /\ Opener \in AllCalls
    BY OpeningOrdinary DEF HoldUnfinished, history, journal, AllCalls
  <1>1. Continues(Opener)
    BY OpeningMild, MildContinues DEF HoldUnfinished, Mild, Idle
  <1>2. ASSUME ~log.refused, ~inner.broken, NEW m \in Missions
        PROVE  SameMission(missions'[m], log.mission[m])
    <2>. DEFINE ms == missions[m]
                lm == log.mission[m]
                held == [ms EXCEPT !.held = TRUE, !.held_journaled = FALSE]
    <2>1. SameMission(ms, lm) /\ IsMission(ms) /\ HeldOK(lm)
      BY <1>0, <1>2 DEF JInv, AgreeInv, Agreement, HeldInv, AtOpen, CInv, MemInv, MissionOK
    <2>2. missions'[m] = ms \/ (missions'[m] = held /\ ~ms.held)
      BY DEF HoldUnfinished, ToBeHeld
    <2>. HIDE DEF ms, lm
    <2>3. ~ms.held => SameMission(held, lm)
      <3>1. ~ms.held => lm.held_journaled = FALSE /\ ms.held_journaled = FALSE
        BY <2>1 DEF SameMission, HeldOK
      <3>. QED
        BY <2>1, <3>1 DEF SameMission, IsMission, MissionFields
    <2>. QED
      BY <2>1, <2>2, <2>3 DEF ms, lm
  <1>3. Faithful
    BY <1>0, <1>2 DEF Faithful, Agreement, JInv, InnerOK
  <1>4. call[Opener] # Idle
    BY <1>0 DEF AtOpen, At, Idle
  <1>. QED
    BY <1>0, <1>1, <1>3, <1>4, OrdinaryStep DEF Tells

LEMMA OpeningJ ==
  ASSUME CInv, JInv,
         \/ AdoptActions \/ OpenSession \/ RecoverActions \/ RecoverClose \/ Overtake
         \/ BlockInterrupted \/ LoadContent \/ ContentWithdraw \/ ContentStop \/ HoldUnfinished
  PROVE  JInv'
  BY OpenSessionJ, RecoverJ, OvertakeJ, BlockInterruptedJ, ContentJ, HoldUnfinishedJ

(***************************************************************************)
(* The steps that are not ordinary.                                         *)
(***************************************************************************)
\* A record of a mission that has not ended, whatever the mission becomes.
LEMMA ChangeStep ==
  ASSUME CInv, JInv, Faithful, NEW m \in Missions, NEW ev, NEW ms,
         missions[m].state \notin Terminal, Wrote(m, ev, ms) \/ Broke(m, ev, missions[m]),
         proc' = proc, told' = told,
         NEW c \in AllCalls, Continues(c), proc = "up" \/ call[c] # Idle \/ call' = call
  PROVE  JInv'
  <1>1. MayBecome(log', m, ev)
    BY BrokeLogMay DEF Wrote, WroteLog, Broke, MayBecome
  <1>2. Keeps(log, log')
    BY <1>1, JournalKeeps DEF CInv, LogInv
  <1>3. Lasts
    <2>. SUFFICES ASSUME NEW n \in Missions, missions[n].state \in Terminal
                  PROVE  missions'[n].state = missions[n].state
      BY DEF Lasts
    <2>1. CASE Wrote(m, ev, ms)
      <3>1. missions'[n] = Held(n)
        BY <2>1 DEF Wrote, MissionsHeld
      <3>. QED
        BY <3>1, HeldSame
    <2>2. CASE Broke(m, ev, missions[m])
      BY <2>2 DEF Broke, CInv, MemInv
    <2>. QED
      BY <2>1, <2>2
  <1>4. FallInv'
    BY FallKeeps
  <1>. QED
    BY <1>2, <1>3, <1>4, JStep DEF Tells

LEMMA DraftJ ==
  ASSUME CInv, JInv, NEW m \in Missions, NEW h \in Hashes, Draft(m, h)
  PROVE  JInv'
  <1>. DEFINE ms == NewMission("Draft", h)
              ev == Drafted(h)
  <1>0. proc = "up" /\ proc' = proc /\ call' = call /\ told' = told /\ Opener \in AllCalls
    BY DEF Draft, Host, history, AllCalls
  <1>1. missions[m].state \notin Terminal
    BY MissionAssumption DEF Draft, NextMission, Missions, Terminal
  <1>2. Wrote(m, ev, ms) \/ Broke(m, ev, missions[m])
    BY DEF Draft
  <1>3. \A j : Replay(j, m, ev) = Refusal(j) \/ Replay(j, m, ev) = [j EXCEPT !.mission[m] = ms]
    <2>1. ev.kind = "Drafted" /\ ev.trigger.hash = h
      BY DEF Drafted, Rec, OfHash, Plain
    <2>. QED
      BY <2>1 DEF Replay, ReplayDrafted
  <1>. HIDE DEF ms, ev
  <1>4. Faithful
    <2>1. CASE Wrote(m, ev, ms)
      <3>1. log' = Refusal(LogHeld) \/ log' = [LogHeld EXCEPT !.mission[m] = ms]
        BY <1>3, <2>1 DEF Wrote, WroteLog
      <3>2. SameMission(ms, ms)
        BY DEF SameMission
      <3>. QED
        BY <1>0, <2>1, <3>1, <3>2, WroteAlike DEF Wrote, WroteLog
    <2>2. CASE Broke(m, ev, missions[m])
      BY <1>0, <2>2, BrokeBreaks, WaysFaithful
    <2>. QED
      BY <1>2, <2>1, <2>2
  <1>. QED
    BY <1>0, <1>1, <1>2, <1>4, ChangeStep DEF Continues

LEMMA ReviseJ ==
  ASSUME CInv, JInv, NEW m \in Missions, NEW h \in Hashes, Revise(m, h)
  PROVE  JInv'
  <1>. DEFINE t == OfHash("Revise", h)
  <1>0. proc = "up" /\ proc' = proc /\ call' = call /\ told' = told /\ Opener \in AllCalls
    BY DEF Revise, Host, history, AllCalls
  <1>1. missions[m].state \notin Terminal
    BY DEF Revise, Revisable, Terminal
  <1>2. (Fired(m, t) \/ NotFired(m, t)) /\ t.name # "Consent"
    BY PlainNames DEF Revise
  <1>. HIDE DEF t
  <1>3. Faithful
    BY <1>0, <1>2, FiredWays, WaysFaithful
  <1>4. \/ Wrote(m, Transitioned(t), Apply(Held(m), t))
        \/ Broke(m, Transitioned(t), missions[m])
    BY <1>2 DEF Fired, FiredAs, NotFired
  <1>. QED
    BY <1>0, <1>1, <1>3, <1>4, ChangeStep DEF Continues

LEMMA RequestJ ==
  ASSUME CInv, JInv, NEW c \in Calls, NEW m \in Missions, RequestConsent(c, m)
  PROVE  JInv'
  <1>. DEFINE new == NewCall("consent", "asking", m)
              rec == [new EXCEPT !.hash = missions[m].hash]
  <1>1. /\ Rests /\ told' = told /\ proc' = proc /\ proc = "up" /\ c \in AllCalls
        /\ Become(c, rec)
    BY DEF RequestConsent, journal, history, Rests, AllCalls
  <1>2. CallOK(new) /\ new.pc = "asking"
    BY CallsNew
  <1>. HIDE DEF new
  <1>3. Mild(rec)
    BY <1>2 DEF Mild, CallOK, CallFields
  <1>. HIDE DEF rec
  <1>4. Continues(c)
    BY <1>1, <1>3, MildContinues
  <1>5. Faithful
    BY <1>1, WaysFaithful
  <1>6. Lasts /\ Keeps(log, log')
    BY <1>1 DEF Rests, Lasts, Keeps, KeepsMission
  <1>7. FallInv'
    BY <1>1, <1>4, FallKeeps
  <1>. QED
    BY <1>1, <1>4, <1>5, <1>6, <1>7, JStep DEF Tells

LEMMA YesJ ==
  ASSUME CInv, JInv, NEW c \in AllCalls, TakeAnswer(c), TakeYes(c)
  PROVE  JInv'
  <1>. DEFINE m == call[c].m
              t == OfHash("Consent", call[c].hash)
              ms == [Apply(Held(m), t) EXCEPT !.consent = t.hash]
              refused == Rec("ConsentRefused")
  <1>0. call[c].pc = "asking" /\ Continues(c) /\ proc' = proc /\ told' = told
    BY OwnMild DEF TakeAnswer, TakeYes, At
  <1>1. m \in Missions /\ missions[m].state = "AwaitingConsent"
    BY <1>0 DEF TakeYes, ConsentCurrent, CInv, AskInv, AskOK
  <1>2. proc # "down" /\ call[c] # Idle
    BY <1>0, Awake
  <1>3. t.name = "Consent"
    BY PlainNames
  <1>4. FiredAs(m, t, ms) \/ NotFired(m, t) \/ RefuseConsent(c)
    BY DEF TakeYes
  <1>5. \/ Wrote(m, Transitioned(t), ms) \/ Broke(m, Transitioned(t), missions[m])
        \/ Wrote(m, refused, Held(m)) \/ Broke(m, refused, missions[m])
    BY <1>4 DEF FiredAs, NotFired, RefuseConsent
  <1>6. Fits(m, Transitioned(t), ms) /\ Fits(m, refused, Held(m))
    BY <1>3, RecordsFit
  <1>. HIDE DEF t, ms, m, refused
  <1>7. Faithful
    BY <1>2, <1>5, <1>6, BrokeBreaks, WaysFaithful DEF Takes
  <1>8. missions[m].state \notin Terminal
    BY <1>1 DEF Terminal
  <1>. QED
    BY <1>0, <1>1, <1>2, <1>5, <1>7, <1>8, ChangeStep

\* The coordinator rebuilds its missions from the journal, and nobody calls it yet.
LEMMA OpenJ ==
  ASSUME CInv, JInv, Open
  PROVE  JInv'
  <1>1. /\ missions' = log.mission /\ log' = log /\ told' = told /\ inner' = inner
        /\ proc = "down" /\ proc' = "opening" /\ Opening("adopt")
    BY DEF Open, journal, history
  <1>. DEFINE new == NewCall("open", "adopt", 0)
  <1>2. /\ call' = [call EXCEPT ![Opener] = new] /\ Mild(new)
        /\ \A c \in Calls : call[c] = Idle /\ call'[c] = Idle
    <2>1. call' = [call EXCEPT ![Opener] = new] /\ Mild(new)
      BY <1>1, NewMild DEF Opening, Become, Mild
    <2>2. \A c \in Calls : call[c] = Idle
      BY <1>1 DEF JInv, FallInv
    <2>. QED
      BY <2>1, <2>2, CallAssumption DEF CInv, ShapeInv, AllCalls
  <1>3. Mild(Idle)
    BY DEF Mild, Idle
  <1>. HIDE DEF new
  <1>4. \A c \in AllCalls : Mild(call'[c])
    BY <1>2, <1>3 DEF CInv, ShapeInv, AllCalls
  <1>5. EndInv'
    BY <1>4 DEF EndInv, EndOK, Mild
  <1>6. FallInv'
    BY <1>1, <1>2 DEF FallInv
  <1>7. AgreeInv'
    BY <1>1 DEF AgreeInv, Agreement, SameMission
  <1>8. InnerOK' /\ HeldInv' /\ ToldInv'
    BY <1>1 DEF JInv, InnerOK, HeldInv, ToldInv
  <1>. QED
    BY <1>5, <1>6, <1>7, <1>8 DEF JInv

\* What falls keeps its journal, and no call.
LEMMA DownJ ==
  ASSUME CInv, JInv, Drop \/ Crash \/ OpenFails
  PROVE  JInv'
  <1>1. log' = log /\ told' = told /\ inner' = NewInner /\ proc' = "down"
    BY DEF Drop, Crash, OpenFails, Down, journal, history
  <1>2. \A c \in AllCalls : call'[c] = Idle
    <2>1. CASE Drop
      BY <2>1 DEF Drop
    <2>2. CASE Crash
      BY <2>2 DEF Crash
    <2>3. CASE OpenFails
      <3>1. proc = "opening" /\ call' = [call EXCEPT ![Opener] = Idle]
        BY <2>3 DEF OpenFails, AtOpen, Become
      <3>2. \A c \in Calls : call[c] = Idle
        BY <3>1 DEF JInv, FallInv
      <3>. QED
        BY <3>1, <3>2 DEF CInv, ShapeInv, AllCalls
    <2>. QED
      BY <2>1, <2>2, <2>3
  <1>3. FallInv' /\ AgreeInv'
    BY <1>1, <1>2 DEF FallInv, AgreeInv, AllCalls
  <1>4. EndInv'
    BY <1>2 DEF EndInv, EndOK, Idle
  <1>5. InnerOK' /\ HeldInv' /\ ToldInv'
    BY <1>1 DEF JInv, InnerOK, HeldInv, ToldInv, NewInner
  <1>. QED
    BY <1>3, <1>4, <1>5 DEF JInv

LEMMA StillJ ==
  ASSUME JInv, UNCHANGED <<proc, missions, inner, call, log, told>>
  PROVE  JInv'
  BY DEF JInv, InnerOK, FallInv, HeldInv, AgreeInv, EndInv, ToldInv

(***************************************************************************)
(* The theorems.                                                            *)
(***************************************************************************)
LEMMA JInit == Init => JInv
  <1>. SUFFICES ASSUME Init PROVE JInv
    OBVIOUS
  <1>1. InnerOK /\ FallInv /\ AgreeInv
    BY DEF Init, InnerOK, NewInner, FallInv, AgreeInv, AllCalls
  <1>2. HeldInv
    BY DEF Init, EmptyLog, HeldInv, HeldOK, NotDrafted, NewMission
  <1>3. EndInv
    BY DEF Init, EndInv, EndOK, Idle
  <1>4. ToldInv
    BY DEF Init, ToldInv, Everywhere
  <1>. QED
    BY <1>1, <1>2, <1>3, <1>4 DEF JInv

LEMMA JNext == CInv /\ JInv /\ [Next]_vars => JInv'
  <1>. SUFFICES ASSUME CInv, JInv, [Next]_vars PROVE JInv'
    OBVIOUS
  <1>1. CASE UNCHANGED vars \/ Broker
    BY <1>1, StillJ
    DEF vars, memory, journal, history, Broker, OwnerApproves, OwnerDeniesOrExpires, ActionEnds,
        Alone
  <1>2. CASE HostCalls
    <2>1. ASSUME NEW m \in Missions, NEW h \in Hashes, Draft(m, h) \/ Revise(m, h) PROVE JInv'
      BY <2>1, DraftJ, ReviseJ
    <2>2. ASSUME NEW m \in Missions, NEW c \in Calls,
                 \/ RequestConsent(c, m) \/ Resume(c, m) \/ Stop(c, m) \/ AdvanceEnd(c, m)
                 \/ AdvanceStart(c, m) \/ AdvanceExplain(c, m) \/ AdvancePhase(c, m)
          PROVE  JInv'
      BY <2>2, RequestJ, HostJ
    <2>3. ASSUME NEW m \in Missions, Submit(m) \/ TimePasses(m) PROVE JInv'
      BY <2>3, AloneJ
    <2>4. CASE Close
      <3>1. 1 \in Missions
        BY MissionAssumption DEF Missions
      <3>. QED
        BY <2>4, <3>1, AloneJ
    <2>. QED
      BY <1>2, <2>1, <2>2, <2>3, <2>4 DEF HostCalls
  <1>3. ASSUME NEW c \in AllCalls, OwnSteps(c) \/ OutboundReturns(c) PROVE JInv'
    BY <1>3, CallJ, YesJ
  <1>4. CASE Open \/ Recovers \/ Drop \/ Crash
    BY <1>4, OpenJ, OpeningJ, DownJ DEF Recovers
  <1>. QED
    BY <1>1, <1>2, <1>3, <1>4 DEF Next

\* As long as the replay accepts the journal, JInv holds with CInv in every state
\* of the coordinator: memory and journal agree on all that is durable, and a call
\* that will report an end holds one that both have (fire, append, take_answer).
THEOREM JournalInvariant == Spec => [](CInv /\ JInv)
  <1>1. CInv /\ JInv /\ [Next]_vars => (CInv /\ JInv)'
    BY NextKeeps, JNext
  <1>. QED
    BY <1>1, InitKeeps, JInit, PTL DEF Spec

\* Every change is journaled before it takes effect: while its journal works and
\* its replay accepts it, what a coordinator holds in memory is what a replay would
\* rebuild, aside from the holds that the next record writes (fire, append).
THEOREM MemoryIsTheJournal == Spec => [](JournalAccepted => MemoryIsJournal)
  <1>1. CInv /\ JInv => (JournalAccepted => MemoryIsJournal)
    <2>. SUFFICES ASSUME CInv, JInv, ~log.refused, proc = "up", ~inner.broken,
                         NEW m \in Missions
                  PROVE  Durable(missions[m]) = Durable(log.mission[m])
      BY DEF JournalAccepted, MemoryIsJournal
    <2>1. SameMission(missions[m], log.mission[m])
      BY DEF JInv, AgreeInv, Agreement
    <2>2. IsMission(missions[m]) /\ IsMission(log.mission[m])
      BY DEF CInv, MemInv, MissionOK, LogInv, LogSound, Sound
    <2>. QED
      BY <2>1, <2>2, DurableSame
  <1>. QED
    BY <1>1, JournalInvariant, PTL

\* An end that a call returned as Ok is in the journal, and stays there, for as long
\* as the replay accepts the journal: no crash, failed append, racing call or
\* reopening undoes it (stop_for, record_non_file_end, take_answer).
THEOREM ToldIsAlwaysDurable == Spec => [](JournalAccepted => ToldIsDurable)
  <1>1. CInv /\ JInv => (JournalAccepted => ToldIsDurable)
    BY DEF JInv, ToldInv, JournalAccepted, ToldIsDurable
  <1>. QED
    BY <1>1, JournalInvariant, PTL

(***************************************************************************)
(* PART FOUR.  Every action that the Owner can still approve is known to    *)
(* somebody: to the journal, or to a call in flight that will journal or    *)
(* withdraw it; and behind a fence, no action that the port holds can start.*)
(*                                                                          *)
(* The argument is about who works for a mission.  At most one call does    *)
(* (busy), and as long as it does either its reservation holds, or the      *)
(* mission was ended by a call that has withdrawn it or is about to.        *)
(***************************************************************************)
WorkPCs == {"lane", "running", "refuse", "dispatch", "perform", "settle", "pend", "wait",
            "query", "resolve", "approve", "phase"}
Works(rec) == rec.pc \in WorkPCs \/ rec.then = "rest"

\* A call that works owns its mission's mark, alone, and there is none after a close.
OwnOK(rec) ==
    /\ rec.owns \in BOOLEAN
    /\ Works(rec) \/ rec.pc = "leave" => rec.owns
    /\ rec.then = "rest" => rec.pc \in {"settled", "close"}
OwnInv ==
    /\ \A c \in AllCalls :
          /\ OwnOK(call[c])
          /\ call[c].owns => c \in Calls /\ call[c].m \in Missions /\ busy[call[c].m]
          /\ \A d \in AllCalls : call[c].owns /\ call[d].owns /\ call[c].m = call[d].m => c = d
    /\ busy = [m \in Missions |-> busy[m]]
    /\ \A m \in Missions : busy[m] => ~inner.closed

\* The port's registry and the broker's commitments, of whatever they hold.
PortInv ==
    /\ port = [f \in {"fenced", "open", "on_run", "waiting", "ended", "handed"} |-> port[f]]
    /\ port.on_run = [m \in Missions |-> port.on_run[m]]
    /\ port.waiting = [m \in Missions |-> port.waiting[m]]
    /\ port.handed = [m \in Missions |-> port.handed[m]]
    /\ action = [m \in Missions |-> action[m]]
    /\ \A m \in Missions : /\ action[m] = [e \in Effects |-> action[m][e]]
                           /\ port.on_run[m] # {} => m \in port.open
    /\ inner.broken => port.fenced

Withdrawn(m) == m \in port.ended \/ \E d \in AllCalls : call[d].m = m /\ call[d].pc = "withdraw"
Workable(c, m) ==
    /\ c \in reserved[m] /\ ~missions[m].held
    /\ missions[m].state \in MayWait \cup {"AwaitingApproval"}
Over(m) == missions[m].state \in Terminal \ {"Done"} /\ Withdrawn(m)

WorkOK(c) ==
    LET m == call[c].m
    IN  /\ Works(call[c]) => Workable(c, m) \/ Over(m)
        /\ call[c].pc \in {"perform", "settle"} => missions[m].unsettled = call[c].effect
        /\ call[c].pc = "finish" => m \in Missions /\ missions[m].state = "Done"
WorkInv == \A c \in AllCalls : WorkOK(c)

\* A call that carries an action still to be journaled, and one about to withdraw.
Carries(rec) == (rec.pc = "settle" /\ rec.status = Awaiting) \/ rec.pc = "pend"
Withdraws(rec) == rec.pc = "withdraw" \/ (rec.pc \in {"end", "endfire"} /\ rec.owns)

CarryOK(c) ==
    LET m == call[c].m
        e == call[c].effect
    IN  Carries(call[c]) =>
          /\ m \in port.open /\ e \in port.on_run[m] /\ port.waiting[m] = e
          /\ m \in port.ended /\ e \in Effects => action[m][e] # "prepared"
CarryInv == \A c \in AllCalls : CarryOK(c)

KnownBy(rec, e) == (Carries(rec) /\ rec.effect = e) \/ Withdraws(rec)
KnownToCall(m, e) == \E c \in AllCalls : call[c].m = m /\ KnownBy(call[c], e)
Known(m, e) == log.mission[m].open_action = e \/ (e \in port.on_run[m] /\ KnownToCall(m, e))
KnownInv ==
    ~log.refused => \A m \in Missions, e \in Effects : action[m][e] = "prepared" => Known(m, e)

\* The action a call is about to journal closed is over, and is not the one in flight.
CloseOK(c) ==
    LET m == call[c].m
        e == call[c].effect
    IN  call[c].pc = "close" /\ ~log.refused /\ ~inner.broken =>
          /\ m \in Missions => e \in Nat /\ e # missions[m].unsettled /\ e < missions[m].next_effect
          /\ m \in Missions /\ e \in Effects => action[m][e] \notin OpenAtBroker
CloseInv == \A c \in AllCalls : CloseOK(c)

\* Behind the fence nothing that the port holds waits; what waits was handed to it.
FenceInv ==
    port.fenced => \A m \in Missions, e \in Effects :
        action[m][e] = "prepared" => e \notin port.on_run[m]
HandNow == port.fenced \/ proc = "up" \/ (proc = "opening" /\ call[Opener].pc # "adopt")
HandInv ==
    HandNow => \A m \in Missions, e \in Effects :
        action[m][e] = "prepared" => e \in port.on_run[m] \cup port.handed[m]
AdoptInv == call[Opener].pc = "adopt" => proc = "opening" /\ ~log.refused /\ ~inner.broken

FInv == /\ OwnInv /\ PortInv /\ WorkInv /\ CarryInv /\ KnownInv /\ CloseInv
        /\ FenceInv /\ HandInv /\ AdoptInv

(***************************************************************************)
(* The open action of a mission in the journal: a record forgets it only by *)
(* its own closure.                                                         *)
(***************************************************************************)
SameOpen(j, k) == \A n \in Missions : k.mission[n].open_action = j.mission[n].open_action
OpensBut(j, k, m, ev) ==
    \A n \in Missions :
        \/ j.mission[n].open_action \in {NoEffect, k.mission[n].open_action}
        \/ n = m /\ ev.kind = "ApprovalClosed" /\ j.mission[n].open_action = ev.effect
KeepsOpen ==
    /\ log.refused => log'.refused
    /\ ~log'.refused => \A n \in Missions, e \in Effects :
          /\ log.mission[n].open_action = e /\ action[n][e] = "prepared"
          => log'.mission[n].open_action = e

LEMMA HoldsOpen ==
  ASSUME NEW j, LogSound(j)
  PROVE  SameOpen(j, ReplayOpened(j)) /\ \A S : SameOpen(j, ReplayHolds(j, S))
  <1>1. ASSUME NEW n \in Missions
        PROVE  ReplayOpened(j).mission[n].open_action = j.mission[n].open_action
    <2>. DEFINE a == j.mission[n]
                b == ReplayOpened(j).mission[n]
    <2>1. IsMission(a) /\ (b = a \/ b = [a EXCEPT !.must_hold = TRUE])
      BY OpenedMission DEF LogSound, Sound
    <2>. HIDE DEF a, b
    <2>2. b.open_action = a.open_action
      BY <2>1 DEF IsMission, MissionFields
    <2>. QED
      BY <2>2 DEF a, b
  <1>2. ASSUME NEW S, NEW n \in Missions
        PROVE  ReplayHolds(j, S).mission[n].open_action = j.mission[n].open_action
    <2>. DEFINE f == [m \in Missions |-> IF m \in S THEN Recorded(j.mission[m], Rec("Held"))
                                         ELSE j.mission[m]]
                r == j.refused \/ (S # {} /\ j.session = "Closed")
                       \/ \E m \in S : ~Admits(j.mission[m], Rec("Held"))
                a == j.mission[n]
    <2>1. ReplayHolds(j, S) = [j EXCEPT !.refused = r, !.mission = f]
      BY DEF ReplayHolds
    <2>2. f[n] = a \/ f[n] = [a EXCEPT !.held = TRUE, !.held_journaled = TRUE, !.must_hold = FALSE]
      BY DEF Recorded, Rec
    <2>3. IsMission(a)
      BY DEF LogSound, Sound
    <2>. HIDE DEF f, r, a
    <2>4. ReplayHolds(j, S).mission = f
      BY <2>1 DEF LogSound, IsLog
    <2>5. f[n].open_action = a.open_action
      BY <2>2, <2>3 DEF IsMission, MissionFields
    <2>. QED
      BY <2>4, <2>5 DEF a
  <1>. QED
    BY <1>1, <1>2 DEF SameOpen

LEMMA ReplayOpen ==
  ASSUME NEW j, LogSound(j), NEW m, NEW ev, NEW k, k = Replay(j, m, ev), ~k.refused
  PROVE  /\ OpensBut(j, k, m, ev)
         /\ ev.kind = "ApprovalPending" /\ m \in Missions => k.mission[m].open_action = ev.effect
  <1>1. k # Refusal(j)
    BY DEF Refusal, LogSound, IsLog
  <1>2. CASE m \notin Missions
    <2>1. \E ms : k = [j EXCEPT !.mission[m] = ms]
      BY <1>1 DEF Replay, ReplayDrafted, ReplayRecord
    <2>2. k.mission = j.mission
      BY <1>2, <2>1 DEF LogSound, IsLog
    <2>. QED
      BY <1>2, <2>2 DEF OpensBut
  <1>3. CASE m \in Missions
    <2>. DEFINE ms == j.mission[m]
    <2>0. IsMission(ms) /\ Sound(ms)
      BY <1>3 DEF LogSound, Sound
    <2>. HIDE DEF ms
    <2>1. ASSUME NEW a, k = [j EXCEPT !.mission[m] = a],
                 \/ ms.open_action \in {NoEffect, a.open_action}
                 \/ ev.kind = "ApprovalClosed" /\ ms.open_action = ev.effect,
                 ev.kind = "ApprovalPending" => a.open_action = ev.effect
          PROVE  /\ OpensBut(j, k, m, ev)
                 /\ ev.kind = "ApprovalPending" => k.mission[m].open_action = ev.effect
      <3>1. k.mission[m] = a /\ \A n \in Missions \ {m} : k.mission[n] = j.mission[n]
        BY <1>3, <2>1 DEF LogSound, IsLog
      <3>. QED
        BY <2>1, <3>1 DEF OpensBut, ms
    <2>2. CASE ev.kind = "Drafted"
      <3>1. /\ k = [j EXCEPT !.mission[m] = NewMission("Draft", ev.trigger.hash)]
            /\ NextMission(j.mission, m)
        BY <1>1, <2>2 DEF Replay, ReplayDrafted
      <3>2. ms.state = "None"
        BY <1>3, <3>1, MissionAssumption DEF NextMission, Missions, ms
      <3>3. ms.open_action = NoEffect
        BY <2>0, <3>2 DEF Sound, Begun, Awaited, Numbered, NoEffect
      <3>. QED
        BY <2>1, <2>2, <3>1, <3>3
    <2>3. CASE ev.kind # "Drafted"
      <3>1. k = [j EXCEPT !.mission[m] = Recorded(ms, ev)] /\ Admits(ms, ev)
        BY <1>1, <2>3 DEF Replay, ReplayRecord, ms
      <3>. DEFINE a == Recorded(ms, ev)
      <3>2. CASE ev.kind = "Transition"
        <4>. DEFINE b == Apply(ms, ev.trigger)
        <4>1. IsMission(b) /\ b.open_action = ms.open_action
          BY <2>0, AppliedFields
        <4>2. a = b \/ a = [b EXCEPT !.consent = ev.trigger.hash]
          BY <3>2 DEF Recorded
        <4>. HIDE DEF a, b
        <4>3. a.open_action = ms.open_action
          BY <4>1, <4>2 DEF IsMission, MissionFields
        <4>. QED
          BY <2>1, <3>1, <3>2, <4>3 DEF a
      <3>3. CASE ev.kind = "ApprovalPending"
        <4>1. ms.open_action = NoEffect
          BY <3>1, <3>3 DEF Admits, AdmitsRecord, AdmitsPending
        <4>2. a.open_action = ev.effect
          BY <2>0, <3>3 DEF Recorded, IsMission, MissionFields
        <4>. QED
          BY <2>1, <3>1, <4>1, <4>2
      <3>4. CASE ev.kind = "ApprovalClosed"
        <4>1. ms.open_action = ev.effect
          BY <3>1, <3>4 DEF Admits, AdmitsRecord
        <4>. QED
          BY <2>1, <3>1, <3>4, <4>1
      <3>5. CASE ev.kind \notin {"Transition", "ApprovalPending", "ApprovalClosed"}
        <4>1. a.open_action = ms.open_action
          BY <2>0, <3>5 DEF Recorded, IsMission, MissionFields
        <4>. QED
          BY <2>1, <3>1, <3>5, <4>1
      <3>. QED
        BY <3>2, <3>3, <3>4, <3>5
    <2>. QED
      BY <2>2, <2>3
  <1>. QED
    BY <1>2, <1>3

\* What a call that writes record ev may leave as the journal.
LEMMA JournalOpens ==
  ASSUME LogSound(log), NEW m, NEW ev, NEW k, MayBecome(k, m, ev), ~k.refused
  PROVE  ~log.refused /\ OpensBut(log, k, m, ev)
  <1>. DEFINE j == LogOpened
              h == LogHeld
  <1>1. Keeps(log, k)
    BY JournalKeeps
  <1>2. LogSound(j) /\ LogSound(h)
    BY LogHeldSound
  <1>3. SameOpen(log, ReplayOpened(log)) /\ SameOpen(log, j)
    BY HoldsOpen DEF LogOpened, SameOpen
  <1>4. SameOpen(log, h) /\ \A S : SameOpen(log, ReplayHolds(j, S))
    <2>1. \A S : SameOpen(j, ReplayHolds(j, S))
      BY <1>2, HoldsOpen
    <2>. QED
      BY <1>3, <2>1 DEF LogHeld, SameOpen
  <1>5. k = ReplayClosed(h) => SameOpen(log, k)
    BY <1>2, <1>4, ClosedSame DEF SameOpen
  <1>6. k = Replay(h, m, ev) => OpensBut(log, k, m, ev)
    <2>1. k = Replay(h, m, ev) => OpensBut(h, k, m, ev)
      BY <1>2, ReplayOpen
    <2>. QED
      BY <1>4, <2>1 DEF SameOpen, OpensBut
  <1>7. SameOpen(log, k) => OpensBut(log, k, m, ev)
    BY DEF SameOpen, OpensBut
  <1>8. SameOpen(log, log)
    BY DEF SameOpen
  <1>9. k \in {log, j, ReplayOpened(log), ReplayClosed(h), Replay(h, m, ev)}
          \/ \E S : k = ReplayHolds(j, S)
    BY DEF MayBecome
  <1>. HIDE DEF j, h
  <1>. QED
    BY <1>1, <1>3, <1>4, <1>5, <1>6, <1>7, <1>8, <1>9 DEF Keeps

LEMMA WritesOpen ==
  ASSUME CInv, NEW m, NEW ev, NEW ms, Wrote(m, ev, ms) \/ Broke(m, ev, ms),
         ev.kind = "ApprovalClosed" /\ ~log.refused /\ m \in Missions =>
            \A e \in Effects : ev.effect = e => action[m][e] # "prepared"
  PROVE  KeepsOpen
  <1>1. MayBecome(log', m, ev)
    BY BrokeLogMay DEF Wrote, WroteLog, Broke, MayBecome
  <1>2. ~log'.refused => ~log.refused /\ OpensBut(log, log', m, ev)
    BY <1>1, JournalOpens DEF CInv, LogInv
  <1>3. \A e \in Effects : e # NoEffect
    BY EffectAssumption DEF Effects, NoEffect
  <1>. QED
    BY <1>2, <1>3 DEF OpensBut, KeepsOpen

(***************************************************************************)
(* What a step of call c does to each part of the invariant.                *)
(***************************************************************************)
\* The port and the broker are left alone, or the journal breaks.
PortQuiet ==
    \/ port' = port /\ action' = action /\ inner'.broken = inner.broken
    \/ port' = Fence(port) /\ action' = CancelRuns(port, action, Missions) /\ inner'.broken

OwnMove(c, rec) ==
    /\ OwnOK(rec)
    /\ \/ busy' = busy /\ (rec.owns => call[c].owns /\ rec.m = call[c].m)
       \/ /\ c \in Calls /\ rec.m \in Missions /\ ~busy[rec.m]
          /\ busy' = [busy EXCEPT ![rec.m] = TRUE]
       \/ call[c].owns /\ ~rec.owns /\ busy' = [busy EXCEPT ![call[c].m] = FALSE]

\* Those at work for mission n, the calls that move aside.
Follows(n) ==
    \A d \in AllCalls : call'[d] = call[d] /\ (Workable(d, n) \/ Over(n))
                           => Workable(d, n)' \/ Over(n)'
Counts(a, b) ==
    \/ b.next_effect = a.next_effect /\ b.unsettled \in {a.unsettled, NoEffect}
    \/ b.next_effect = a.next_effect + 1 /\ b.unsettled = a.next_effect
Counted(n) == Counts(missions[n], missions'[n])
MemMove(c, n) ==
    /\ Counted(n)
    /\ \/ Works(call[c]) /\ n = call[c].m
       \/ missions'[n].unsettled = missions[n].unsettled /\ Follows(n)

\* What the call knew of an action that still waits.
Handoff(c, rec) ==
    \A m \in Missions, e \in Effects :
        /\ m = call[c].m /\ e \in port.on_run[m] /\ KnownBy(call[c], e)
        /\ action'[m][e] = "prepared" /\ ~log'.refused
        => \/ rec.m = m /\ KnownBy(rec, e)
           \/ log'.mission[m].open_action = e
           \/ \E d \in AllCalls \ {c} : call[d].m = m /\ Withdraws(call[d])

CarryMove(c, rec) ==
    Carries(rec) => Carries(call[c]) /\ rec.m = call[c].m /\ rec.effect = call[c].effect

LEMMA CancelFields ==
  ASSUME PortInv, NEW S, NEW act, act = CancelRuns(port, action, S)
  PROVE  /\ act = [m \in Missions |-> act[m]]
         /\ \A m \in Missions : /\ act[m] = [e \in Effects |-> act[m][e]]
                                /\ \A e \in Effects :
                                     /\ act[m][e] = "prepared" => action[m][e] = "prepared"
                                     /\ act[m][e] \in OpenAtBroker => action[m][e] \in OpenAtBroker
                                     /\ m \in S /\ e \in port.on_run[m] => act[m][e] # "prepared"
  <1>1. \A m \in Missions, e \in Effects :
           act[m][e] = IF m \in S \cap port.open /\ e \in port.on_run[m]
                       THEN CancelAction(action[m][e]) ELSE action[m][e]
    BY DEF CancelRuns
  <1>2. \A s : /\ CancelAction(s) # "prepared"
               /\ CancelAction(s) \in OpenAtBroker => s \in OpenAtBroker
    BY DEF CancelAction, OpenAtBroker
  <1>3. /\ act = [m \in Missions |-> act[m]]
        /\ \A m \in Missions : act[m] = [e \in Effects |-> act[m][e]]
    BY DEF CancelRuns
  <1>. HIDE DEF CancelAction
  <1>4. ASSUME NEW m \in Missions, NEW e \in Effects
        PROVE  /\ act[m][e] = "prepared" => action[m][e] = "prepared"
               /\ act[m][e] \in OpenAtBroker => action[m][e] \in OpenAtBroker
               /\ m \in S /\ e \in port.on_run[m] => act[m][e] # "prepared"
    BY <1>1, <1>2 DEF PortInv
  <1>. QED
    BY <1>3, <1>4

LEMMA PortKeeps ==
  ASSUME FInv, PortQuiet, HandNow
  PROVE  /\ PortInv' /\ FenceInv' /\ HandInv'
         /\ port'.on_run = port.on_run /\ port'.ended = port.ended /\ port'.open = port.open
         /\ port'.waiting = port.waiting
         /\ \A m \in Missions, e \in Effects :
               action'[m][e] = "prepared" => action[m][e] = "prepared"
  <1>1. CASE port' = port /\ action' = action /\ inner'.broken = inner.broken
    BY <1>1 DEF FInv, PortInv, FenceInv, HandInv, HandNow
  <1>2. CASE port' = Fence(port) /\ action' = CancelRuns(port, action, Missions) /\ inner'.broken
    <2>1. /\ port' = [f \in {"fenced", "open", "on_run", "waiting", "ended", "handed"} |-> port'[f]]
          /\ port'.fenced /\ port'.open = port.open /\ port'.on_run = port.on_run
          /\ port'.waiting = port.waiting /\ port'.ended = port.ended /\ port'.handed = port.handed
      BY <1>2 DEF Fence, FInv, PortInv
    <2>2. /\ action' = [m \in Missions |-> action'[m]]
          /\ \A m \in Missions : /\ action'[m] = [e \in Effects |-> action'[m][e]]
                                 /\ \A e \in Effects :
                                      /\ action'[m][e] = "prepared" => action[m][e] = "prepared"
                                      /\ e \in port.on_run[m] => action'[m][e] # "prepared"
      BY <1>2, CancelFields DEF FInv
    <2>3. PortInv'
      BY <2>1, <2>2 DEF FInv, PortInv
    <2>4. FenceInv'
      BY <2>1, <2>2 DEF FenceInv
    <2>5. HandInv'
      BY <2>1, <2>2 DEF FInv, HandInv
    <2>. QED
      BY <2>1, <2>2, <2>3, <2>4, <2>5
  <1>. QED
    BY <1>1, <1>2 DEF PortQuiet

LEMMA OwnKeeps ==
  ASSUME CInv, OwnInv, NEW c \in AllCalls, NEW rec, call' = [call EXCEPT ![c] = rec],
         OwnMove(c, rec), inner'.closed = inner.closed, (\E m \in Missions : busy'[m]) => ~inner.closed
  PROVE  OwnInv'
  <1>1. call'[c] = rec /\ \A d \in AllCalls \ {c} : call'[d] = call[d]
    BY DEF CInv, ShapeInv
  <1>2. busy' = [m \in Missions |-> busy'[m]]
    BY DEF OwnMove, OwnInv
  <1>3. \A d \in AllCalls : OwnOK(call'[d])
    BY <1>1 DEF OwnInv, OwnMove
  <1>4. ASSUME NEW d \in AllCalls, call'[d].owns
        PROVE  d \in Calls /\ call'[d].m \in Missions /\ busy'[call'[d].m]
    BY <1>1, <1>4 DEF OwnInv, OwnMove
  <1>5. ASSUME NEW d \in AllCalls, NEW b \in AllCalls, call'[d].owns, call'[b].owns,
               call'[d].m = call'[b].m
        PROVE  d = b
    BY <1>1, <1>5 DEF OwnInv, OwnMove
  <1>6. \A d \in AllCalls : OwnOK(call[d])' 
    BY <1>3 DEF OwnOK, Works
  <1>. QED
    BY <1>2, <1>4, <1>5, <1>6 DEF OwnInv

LEMMA WorkKeeps ==
  ASSUME CInv, OwnInv, WorkInv, NEW c \in AllCalls, NEW rec, call' = [call EXCEPT ![c] = rec],
         \A n \in Missions : MemMove(c, n), Lasts,
         WorkOK(c)' \/ (rec = call[c] /\ ~Works(call[c]))
  PROVE  WorkInv'
  <1>. SUFFICES ASSUME NEW d \in AllCalls PROVE WorkOK(d)'
    BY DEF WorkInv
  <1>1. CASE d = c /\ WorkOK(c)'
    BY <1>1
  <1>2. CASE ~(d = c /\ WorkOK(c)')
    <2>. DEFINE m == call[d].m
    <2>1. call'[d] = call[d] /\ (d = c => ~Works(call[c]))
      BY <1>2 DEF CInv, ShapeInv
    <2>2. WorkOK(d)
      BY DEF WorkInv
    <2>3. ASSUME Works(call[d])
          PROVE  /\ Workable(d, m)' \/ Over(m)'
                 /\ missions'[m].unsettled = missions[m].unsettled
      <3>1. m \in Missions /\ call[d].owns
        BY <2>3 DEF OwnInv, OwnOK
      <3>2. ~(Works(call[c]) /\ m = call[c].m)
        BY <2>1, <2>3, <3>1 DEF OwnInv, OwnOK
      <3>3. missions'[m].unsettled = missions[m].unsettled /\ Follows(m)
        BY <3>1, <3>2 DEF MemMove
      <3>4. Workable(d, m) \/ Over(m)
        BY <2>2, <2>3 DEF WorkOK
      <3>. QED
        BY <2>1, <3>3, <3>4 DEF Follows
    <2>4. call[d].pc = "finish" => m \in Missions /\ missions'[m].state = "Done"
      BY <2>2 DEF WorkOK, Lasts, Terminal
    <2>5. call[d].pc \in {"perform", "settle"} => missions'[m].unsettled = call[d].effect
      BY <2>2, <2>3 DEF WorkOK, Works, WorkPCs
    <2>6. Works(call'[d]) => Workable(d, m)' \/ Over(m)'
      BY <2>1, <2>3
    <2>. QED
      BY <2>1, <2>4, <2>5, <2>6 DEF WorkOK
  <1>. QED
    BY <1>1, <1>2

LEMMA CarryKeeps ==
  ASSUME CInv, FInv, NEW c \in AllCalls, NEW rec, call' = [call EXCEPT ![c] = rec],
         PortQuiet, HandNow, CarryMove(c, rec)
  PROVE  CarryInv'
  <1>. SUFFICES ASSUME NEW d \in AllCalls, Carries(call'[d])
                PROVE  LET m == call'[d].m
                           e == call'[d].effect
                       IN  /\ m \in port'.open /\ e \in port'.on_run[m] /\ port'.waiting[m] = e
                           /\ m \in port'.ended /\ e \in Effects => action'[m][e] # "prepared"
    BY DEF CarryInv, CarryOK, Carries
  <1>1. /\ Carries(call[d]) /\ call'[d].m = call[d].m /\ call'[d].effect = call[d].effect
    BY DEF CarryMove, CInv, ShapeInv
  <1>2. CarryOK(d)
    BY DEF FInv, CarryInv
  <1>3. call[d].m \in Missions
    BY <1>1 DEF FInv, OwnInv, OwnOK, Carries, Works, WorkPCs
  <1>. QED
    BY <1>1, <1>2, <1>3, PortKeeps DEF CarryOK

LEMMA KnownKeeps ==
  ASSUME CInv, FInv, NEW c \in AllCalls, NEW rec, call' = [call EXCEPT ![c] = rec],
         PortQuiet, HandNow, KeepsOpen, Handoff(c, rec)
  PROVE  KnownInv'
  <1>. SUFFICES ASSUME ~log'.refused, NEW m \in Missions, NEW e \in Effects,
                       action'[m][e] = "prepared"
                PROVE  \/ log'.mission[m].open_action = e
                       \/ /\ e \in port'.on_run[m]
                          /\ \E d \in AllCalls : call'[d].m = m /\ KnownBy(call'[d], e)
    BY DEF KnownInv, Known, KnownToCall, KnownBy, Carries, Withdraws
  <1>1. action[m][e] = "prepared" /\ port'.on_run = port.on_run
    BY PortKeeps
  <1>2. call'[c] = rec /\ \A d \in AllCalls \ {c} : call'[d] = call[d]
    BY DEF CInv, ShapeInv
  <1>3. Known(m, e)
    BY <1>1 DEF FInv, KnownInv, KeepsOpen
  <1>4. CASE log.mission[m].open_action = e
    BY <1>1, <1>4 DEF KeepsOpen
  <1>5. CASE e \in port.on_run[m] /\ KnownToCall(m, e)
    <2>1. PICK d \in AllCalls : call[d].m = m /\ KnownBy(call[d], e)
      BY <1>5 DEF KnownToCall
    <2>2. CASE d # c
      BY <1>1, <1>2, <1>5, <2>1, <2>2
    <2>3. CASE d = c
      BY <1>1, <1>2, <1>5, <2>1, <2>3 DEF Handoff, KnownBy
    <2>. QED
      BY <2>2, <2>3
  <1>. QED
    BY <1>3, <1>4, <1>5 DEF Known

\* The numbers of a mission whose journal works.
LEMMA MissionNumbers ==
  ASSUME CInv, JInv, proc # "down", ~log.refused, ~inner.broken, NEW m \in Missions
  PROVE  Numbered(missions[m]) \/ missions[m].next_effect \in Nat
  BY DEF CInv, LogInv, LogSound, Sound, Numbered, JInv, AgreeInv, Agreement, SameMission

LEMMA CloseKeeps ==
  ASSUME CInv, JInv, FInv, proc # "down", NEW c \in AllCalls, NEW rec,
         call' = [call EXCEPT ![c] = rec], PortQuiet, KeepsOpen,
         \A n \in Missions : MemMove(c, n), CloseOK(c)' \/ rec = call[c]
  PROVE  CloseInv'
  <1>. SUFFICES ASSUME NEW d \in AllCalls PROVE CloseOK(d)'
    BY DEF CloseInv
  <1>1. CASE d = c /\ CloseOK(c)'
    BY <1>1
  <1>2. CASE ~(d = c /\ CloseOK(c)')
    <2>1. call'[d] = call[d]
      BY <1>2 DEF CInv, ShapeInv
    <2>2. CloseOK(d)
      BY DEF FInv, CloseInv
    <2>3. ASSUME ~log'.refused, ~inner'.broken
          PROVE  ~log.refused /\ ~inner.broken /\ action' = action
      BY <2>3 DEF KeepsOpen, PortQuiet
    <2>4. ASSUME ~log.refused, ~inner.broken, NEW m \in Missions, NEW e \in Nat,
                 e # missions[m].unsettled, e < missions[m].next_effect
          PROVE  e # missions'[m].unsettled /\ e < missions'[m].next_effect
      <3>1. missions[m].next_effect \in Nat
        BY <2>4, MissionNumbers DEF Numbered
      <3>2. Counted(m)
        BY DEF MemMove
      <3>. QED
        BY <2>4, <3>1, <3>2 DEF Counted, Counts, NoEffect
    <2>. QED
      BY <2>1, <2>2, <2>3, <2>4 DEF CloseOK
  <1>. QED
    BY <1>1, <1>2

LEMMA FStep ==
  ASSUME CInv, JInv, FInv, NEW c \in AllCalls, NEW rec, call' = [call EXCEPT ![c] = rec],
         PortQuiet, KeepsOpen, HandNow, Lasts, inner'.closed = inner.closed,
         proc # "down", call'[Opener].pc # "adopt",
         OwnMove(c, rec), (\E m \in Missions : busy'[m]) => ~inner.closed,
         \A n \in Missions : MemMove(c, n), Handoff(c, rec), CarryMove(c, rec),
         WorkOK(c)' \/ (rec = call[c] /\ ~Works(call[c])),
         CloseOK(c)' \/ rec = call[c]
  PROVE  FInv'
  <1>1. OwnInv'
    BY OwnKeeps DEF FInv
  <1>2. PortInv' /\ FenceInv' /\ HandInv'
    BY PortKeeps
  <1>3. WorkInv'
    BY WorkKeeps DEF FInv
  <1>4. CarryInv' /\ KnownInv'
    BY CarryKeeps, KnownKeeps
  <1>5. CloseInv'
    BY CloseKeeps
  <1>6. AdoptInv'
    BY DEF AdoptInv
  <1>. QED
    BY <1>1, <1>2, <1>3, <1>4, <1>5, <1>6 DEF FInv

(***************************************************************************)
(* The ways a step writes, and whom it leaves at work.                      *)
(***************************************************************************)
Sober == PortQuiet /\ KeepsOpen /\ inner'.closed = inner.closed

LEMMA UnwrittenSober ==
  ASSUME Unwritten \/ Untouched
  PROVE  Sober /\ missions' = missions
  BY DEF Unwritten, Untouched, journal, outside, Sober, PortQuiet, KeepsOpen

LEMMA BrokeLogSober ==
  ASSUME JInv, NEW full, BrokeLog(full)
  PROVE  PortQuiet /\ inner'.closed = inner.closed
  BY DEF BrokeLog, PortQuiet, JInv, InnerOK

LEMMA ClosesSober ==
  ASSUME CInv, JInv, NEW m, NEW ev, NEW ms, Wrote(m, ev, ms) \/ Broke(m, ev, ms),
         ev.kind = "ApprovalClosed" /\ ~log.refused /\ m \in Missions =>
            \A e \in Effects : ev.effect = e => action[m][e] # "prepared"
  PROVE  Sober
  <1>1. KeepsOpen
    BY WritesOpen
  <1>2. PortQuiet /\ inner'.closed = inner.closed
    <2>1. CASE Wrote(m, ev, ms)
      BY <2>1 DEF Wrote, WroteLog, outside, PortQuiet, JInv, InnerOK
    <2>2. CASE Broke(m, ev, ms)
      BY <2>2, BrokeLogSober DEF Broke
    <2>. QED
      BY <2>1, <2>2
  <1>. QED
    BY <1>1, <1>2 DEF Sober

LEMMA WritesSober ==
  ASSUME CInv, JInv, NEW m, NEW ev, NEW ms, Wrote(m, ev, ms) \/ Broke(m, ev, ms),
         ev.kind # "ApprovalClosed"
  PROVE  Sober
  BY ClosesSober

LEMMA RecordKinds ==
  /\ \A t : Transitioned(t).kind = "Transition"
  /\ \A k : Rec(k).kind = k
  /\ \A k, r : LaneRec(k, r).kind = k /\ EffectRec(k, r).kind = k /\ EffectRec(k, r).effect = r
  /\ \A e, o : EffectSettled(e, o).kind = "EffectSettled"
  /\ \A h : Drafted(h).kind = "Drafted"
  BY DEF Transitioned, Rec, LaneRec, EffectRec, EffectSettled, Drafted

\* Two records of a mission that are the same to those at work for it.
SameWork(a, b) ==
    /\ b.state = a.state /\ b.held = a.held
    /\ b.unsettled = a.unsettled /\ b.next_effect = a.next_effect
StayReserved(n) == \A d \in AllCalls : call'[d] = call[d] /\ d \in reserved[n] => d \in reserved'[n]

LEMMA HeldWork ==
  ASSUME CInv, NEW n \in Missions
  PROVE  IsMission(Held(n)) /\ SameWork(missions[n], Held(n)) /\ MissionsHeld[n] = Held(n)
  <1>. DEFINE ms == missions[n]
              j == ms.held_journaled \/ n \in ToHold
              h == [ms EXCEPT !.held_journaled = j]
  <1>1. IsMission(ms)
    BY DEF CInv, MemInv, MissionOK
  <1>. HIDE DEF ms, j
  <1>2. IsMission(h) /\ SameWork(ms, h)
    BY <1>1 DEF IsMission, MissionFields, SameWork
  <1>3. h = Held(n)
    BY Zenon DEF Held, ms, j
  <1>. HIDE DEF h
  <1>4. MissionsHeld[n] = Held(n)
    BY DEF MissionsHeld
  <1>. QED
    BY <1>2, <1>3, <1>4 DEF ms

LEMMA WroteMissions ==
  ASSUME CInv, NEW m, NEW ev, NEW ms, Wrote(m, ev, ms)
  PROVE  /\ m \in Missions => missions'[m] = ms
         /\ \A n \in Missions \ {m} : SameWork(missions[n], missions'[n])
  <1>1. missions' = [MissionsHeld EXCEPT ![m] = ms]
    BY DEF Wrote
  <1>2. missions' = [n \in Missions |-> IF n = m THEN ms ELSE MissionsHeld[n]]
    BY <1>1 DEF MissionsHeld
  <1>. QED
    BY <1>2, HeldWork

\* What a call that ends leaves to be withdrawn stays so.
LEMMA WithdrawnKeeps ==
  ASSUME CInv, NEW c \in AllCalls, NEW rec, call' = [call EXCEPT ![c] = rec],
         call[c].pc # "withdraw" \/ call' = call, port'.ended = port.ended, NEW n, Withdrawn(n)
  PROVE  Withdrawn(n)'
  <1>1. \A d \in AllCalls \ {c} : call'[d] = call[d]
    BY DEF CInv, ShapeInv
  <1>. QED
    BY <1>1 DEF Withdrawn

LEMMA SameFollows ==
  ASSUME CInv, NEW c \in AllCalls, NEW rec, call' = [call EXCEPT ![c] = rec],
         call[c].pc # "withdraw" \/ call' = call, port'.ended = port.ended, NEW n \in Missions,
         missions'[n].state = missions[n].state, missions'[n].held => missions[n].held,
         StayReserved(n) \/ missions[n].held
  PROVE  Follows(n)
  <1>. SUFFICES ASSUME NEW d \in AllCalls, call'[d] = call[d], Workable(d, n) \/ Over(n)
                PROVE  Workable(d, n)' \/ Over(n)'
    BY DEF Follows
  <1>1. CASE Over(n)
    BY <1>1, WithdrawnKeeps DEF Over
  <1>2. CASE Workable(d, n)
    BY <1>2 DEF Workable, StayReserved
  <1>. QED
    BY <1>1, <1>2

LEMMA SameMove ==
  ASSUME CInv, NEW c \in AllCalls, NEW rec, call' = [call EXCEPT ![c] = rec],
         call[c].pc # "withdraw" \/ call' = call, port'.ended = port.ended, NEW n \in Missions,
         SameWork(missions[n], missions'[n]), StayReserved(n)
  PROVE  MemMove(c, n)
  <1>1. Follows(n)
    BY SameFollows DEF SameWork
  <1>. QED
    BY <1>1 DEF MemMove, Counted, Counts, SameWork

LEMMA StillMoves ==
  ASSUME CInv, FInv, NEW c \in AllCalls, NEW rec, call' = [call EXCEPT ![c] = rec],
         call[c].pc # "withdraw" \/ call' = call, PortQuiet, HandNow, missions' = missions,
         \A n \in Missions : StayReserved(n)
  PROVE  \A n \in Missions : MemMove(c, n)
  BY SameMove, PortKeeps DEF SameWork

LEMMA WroteMoves ==
  ASSUME CInv, FInv, NEW c \in AllCalls, NEW rec, call' = [call EXCEPT ![c] = rec],
         call[c].pc # "withdraw" \/ call' = call, PortQuiet, HandNow, NEW m, NEW ev, NEW ms, Wrote(m, ev, ms),
         m \in Missions => MemMove(c, m) \/ (SameWork(missions[m], ms) /\ StayReserved(m)),
         \A n \in Missions \ {m} : StayReserved(n)
  PROVE  \A n \in Missions : MemMove(c, n)
  <1>. SUFFICES ASSUME NEW n \in Missions PROVE MemMove(c, n)
    OBVIOUS
  <1>1. port'.ended = port.ended
    BY PortKeeps
  <1>2. CASE n # m
    BY <1>1, <1>2, WroteMissions, SameMove
  <1>3. CASE n = m
    BY <1>1, <1>3, WroteMissions, SameMove
  <1>. QED
    BY <1>2, <1>3

(***************************************************************************)
(* The steps of a call in flight.                                           *)
(***************************************************************************)
SameOwner(rec, r) == OwnOK(r) /\ (r.owns => rec.owns /\ r.m = rec.m)
\* A call that works no more, and is not about to close or finish.
Quietly(r) == ~Works(r) /\ r.pc \notin {"close", "finish", "adopt"}
Leaves(rec, r) == SameOwner(rec, r) /\ Quietly(r)

LEMMA Ready ==
  ASSUME CInv, JInv, FInv, NEW c \in AllCalls, call[c].pc \notin {"idle", "adopt"}
  PROVE  /\ HandNow /\ proc # "down"
         /\ \A rec : call' = [call EXCEPT ![c] = rec] /\ rec.pc # "adopt" =>
                        call'[Opener].pc # "adopt" /\ call'[c] = rec
  <1>1. proc # "down" /\ call[c] # Idle
    BY Awake
  <1>2. call[Opener].pc # "adopt"
    <2>1. CASE c = Opener
      BY <2>1
    <2>2. CASE c # Opener
      BY <1>1, <2>2 DEF FInv, AdoptInv, JInv, FallInv, AllCalls
    <2>. QED
      BY <2>1, <2>2
  <1>3. HandNow
    BY <1>1, <1>2 DEF HandNow, JInv, FallInv
  <1>. QED
    BY <1>1, <1>2, <1>3 DEF CInv, ShapeInv, AllCalls

LEMMA CallStep ==
  ASSUME CInv, JInv, FInv, NEW c \in AllCalls, call[c].pc \notin {"idle", "adopt"}, Lasts, Sober,
         NEW rec, call' = [call EXCEPT ![c] = rec], rec.pc # "adopt", SameOwner(call[c], rec),
         busy' = busy, \A n \in Missions : MemMove(c, n), Handoff(c, rec), CarryMove(c, rec),
         WorkOK(c)', CloseOK(c)'
  PROVE  FInv'
  <1>1. HandNow /\ proc # "down" /\ call'[Opener].pc # "adopt"
    BY Ready
  <1>2. OwnMove(c, rec) /\ ((\E m \in Missions : busy'[m]) => ~inner.closed)
    BY DEF SameOwner, OwnMove, FInv, OwnInv
  <1>. QED
    BY <1>1, <1>2, FStep DEF Sober

\* A call that stops working for its mission.
LEMMA LeaveStep ==
  ASSUME CInv, JInv, FInv, NEW c \in AllCalls, call[c].pc \notin {"idle", "adopt"}, Lasts, Sober,
         NEW rec, call' = [call EXCEPT ![c] = rec], Leaves(call[c], rec),
         busy' = busy, \A n \in Missions : MemMove(c, n), Handoff(c, rec)
  PROVE  FInv'
  <1>1. rec.pc # "adopt" /\ SameOwner(call[c], rec) /\ ~Works(rec) /\ rec.pc \notin {"close", "finish"}
    BY DEF Leaves, Quietly
  <1>2. call'[c] = rec
    BY <1>1, Ready
  <1>3. CarryMove(c, rec) /\ WorkOK(c)' /\ CloseOK(c)'
    BY <1>1, <1>2 DEF CarryMove, Carries, WorkOK, CloseOK, Works, WorkPCs
  <1>. QED
    BY <1>1, <1>3, CallStep

\* A call that carries no action and withdraws none has nothing to hand over.
LEMMA NoHandoff ==
  ASSUME NEW c \in AllCalls, NEW rec,
         call[c].pc \notin {"settle", "pend", "withdraw", "end", "endfire"}
  PROVE  Handoff(c, rec)
  BY DEF Handoff, KnownBy, Carries, Withdraws

LEMMA EndRecords ==
  ASSUME NEW rec, CallOK(rec), OwnOK(rec), rec.then # "rest"
  PROVE  /\ Leaves(rec, Returned(rec))
         /\ \A pc \in {"stop", "end", "withdraw"} :
               LET r == Ending(rec, pc)
               IN  Leaves(rec, r) /\ r.pc = pc /\ r.owns = rec.owns /\ r.m = rec.m /\ CallOK(r)
         /\ \A t : LET r == EndWith(rec, t)
                   IN  Leaves(rec, r) /\ r.pc = "endfire" /\ r.owns = rec.owns /\ r.m = rec.m
         /\ LET r == EndFail(rec)
            IN  Leaves(rec, r) /\ r.pc = "end" /\ r.owns = rec.owns /\ r.m = rec.m
  <1>2. Leaves(rec, Returned(rec))
    BY DEF Leaves, SameOwner, Quietly, OwnOK, Works, WorkPCs, Returned, NewCall, Idle
  <1>3. ASSUME NEW pc \in {"stop", "end", "withdraw", "endfire"}
        PROVE  LET r == Ending(rec, pc)
               IN  /\ Leaves(rec, r) /\ r.pc = pc /\ r.owns = rec.owns /\ r.m = rec.m /\ CallOK(r)
    <2>. DEFINE r == Ending(rec, pc)
    <2>1. CallOK(r) /\ r.pc = pc
      BY CallsEnd
    <2>2. r.owns = rec.owns /\ r.m = rec.m /\ r.then = rec.then
      BY DEF Ending, NewCall, Idle
    <2>. HIDE DEF r
    <2>3. Leaves(rec, r)
      BY <2>1, <2>2 DEF Leaves, SameOwner, Quietly, OwnOK, Works, WorkPCs
    <2>. QED
      BY <2>1, <2>2, <2>3 DEF r
  <1>4. ASSUME NEW pc, NEW r, CallOK(r), Leaves(rec, r), r.pc = pc, r.owns = rec.owns,
               r.m = rec.m, NEW x, x = [r EXCEPT !.ok = FALSE] \/ \E t : x = [r EXCEPT !.trigger = t]
        PROVE  Leaves(rec, x) /\ x.pc = pc /\ x.owns = rec.owns /\ x.m = rec.m
    <2>1. x.pc = r.pc /\ x.owns = r.owns /\ x.m = r.m /\ x.then = r.then
      BY <1>4 DEF CallOK, CallFields
    <2>. QED
      BY <1>4, <2>1 DEF Leaves, SameOwner, Quietly, OwnOK, Works
  <1>5. ASSUME NEW t PROVE LET r == EndWith(rec, t)
                           IN  Leaves(rec, r) /\ r.pc = "endfire" /\ r.owns = rec.owns /\ r.m = rec.m
    BY <1>3, <1>4 DEF EndWith
  <1>6. LET r == EndFail(rec)
        IN  Leaves(rec, r) /\ r.pc = "end" /\ r.owns = rec.owns /\ r.m = rec.m
    BY <1>3, <1>4 DEF EndFail
  <1>. QED
    BY <1>2, <1>3, <1>5, <1>6

\* A call at work owns its mission.
LEMMA Worker ==
  ASSUME CInv, JInv, FInv, NEW c \in AllCalls, Works(call[c])
  PROVE  /\ CallOK(call[c]) /\ OwnOK(call[c]) /\ call[c].owns /\ call[c].owns = TRUE
         /\ c \in Calls /\ call[c].m \in Missions
         /\ call[c].pc \notin {"idle", "adopt", "withdraw", "end", "endfire", "stop", "leave"}
         /\ call[c].pc \in WorkPCs => call[c].then # "rest"
         /\ HandNow /\ proc # "down" /\ WorkOK(c)
  <1>1. /\ CallOK(call[c]) /\ OwnOK(call[c]) /\ call[c].owns /\ WorkOK(c)
        /\ c \in Calls /\ call[c].m \in Missions
    BY DEF CInv, CallInv, FInv, OwnInv, OwnOK, WorkInv
  <1>2. call[c].pc \notin {"idle", "adopt", "withdraw", "end", "endfire", "stop", "leave"}
    BY <1>1 DEF OwnOK, Works, WorkPCs
  <1>3. call[c].pc \in WorkPCs => call[c].then # "rest"
    BY <1>1 DEF OwnOK, WorkPCs
  <1>. QED
    BY <1>1, <1>2, <1>3, Ready DEF OwnOK

\* How a call at work may write: a record of its mission, which others leave alone.
WorkWrites(c) ==
    LET m == call[c].m
    IN  /\ \/ Unwritten
           \/ \E ev : ev.kind # "ApprovalClosed" /\ Broke(m, ev, missions[m])
           \/ \E ev, ms : /\ ev.kind # "ApprovalClosed" /\ Wrote(m, ev, ms)
                          /\ Counts(missions[m], ms)
        /\ reserved' = reserved \/ \E S : reserved' = [reserved EXCEPT ![m] = S]

LEMMA WorkMoves ==
  ASSUME CInv, JInv, FInv, NEW c \in AllCalls, Works(call[c]), NEW rec,
         call' = [call EXCEPT ![c] = rec], WorkWrites(c)
  PROVE  Sober /\ (\A n \in Missions : MemMove(c, n)) /\ call'[c] = rec
  <1>. DEFINE m == call[c].m
  <1>1. m \in Missions /\ call[c].pc # "withdraw" /\ HandNow
    BY Worker
  <1>2. \A n \in Missions \ {m} : StayReserved(n)
    BY DEF WorkWrites, StayReserved, CInv, ShapeInv
  <1>3. Sober
    BY UnwrittenSober, WritesSober DEF WorkWrites
  <1>4. port'.ended = port.ended
    BY <1>1, <1>3, PortKeeps DEF Sober
  <1>5. ASSUME missions' = missions PROVE \A n \in Missions : MemMove(c, n)
    <2>1. \A n \in Missions \ {m} : MemMove(c, n)
      BY <1>1, <1>2, <1>4, <1>5, SameMove DEF SameWork
    <2>2. MemMove(c, m)
      BY <1>5 DEF MemMove, Counted, Counts
    <2>. QED
      BY <2>1, <2>2
  <1>6. ASSUME NEW ev, NEW ms, Wrote(m, ev, ms), Counts(missions[m], ms)
        PROVE  \A n \in Missions : MemMove(c, n)
    <2>1. missions'[m] = ms
      BY <1>1, <1>6, WroteMissions
    <2>2. MemMove(c, m)
      BY <1>6, <2>1 DEF MemMove, Counted
    <2>3. \A n \in Missions \ {m} : MemMove(c, n)
      BY <1>1, <1>2, <1>4, <1>6, WroteMissions, SameMove
    <2>. QED
      BY <2>2, <2>3
  <1>7. missions' = missions \/ \E ev, ms : Wrote(m, ev, ms) /\ Counts(missions[m], ms)
    BY DEF WorkWrites, Unwritten, Broke, CInv, MemInv
  <1>8. call'[c] = rec
    BY DEF CInv, ShapeInv
  <1>. QED
    BY <1>3, <1>5, <1>6, <1>7, <1>8

\* A call at work gives up its phase, or returns.
LEMMA WorkEnds ==
  ASSUME CInv, JInv, FInv, NEW c \in AllCalls, Works(call[c]), Lasts, WorkWrites(c), busy' = busy,
         NEW rec, Become(c, rec), Leaves(call[c], rec), Handoff(c, rec)
  PROVE  FInv'
  <1>1. call[c].pc \notin {"idle", "adopt"}
    BY Worker
  <1>. QED
    BY <1>1, WorkMoves, LeaveStep DEF Become

\* A call at work goes on.
GoesOn(rec, r) ==
    /\ r.pc \in WorkPCs \cup {"settled"} /\ (r.then = "rest" => r.pc = "settled")
    /\ r.owns = rec.owns /\ r.m = rec.m
StateStays(m) == missions'[m].state = missions[m].state /\ missions'[m].held = missions[m].held

LEMMA WorkGoes ==
  ASSUME CInv, JInv, FInv, NEW c \in AllCalls, Works(call[c]), Lasts, WorkWrites(c), busy' = busy,
         NEW rec, Become(c, rec), Handoff(c, rec), GoesOn(call[c], rec),
         \/ Workable(c, rec.m)'
         \/ StateStays(call[c].m) /\ reserved' = reserved,
         rec.pc \in {"perform", "settle"} => missions'[call[c].m].unsettled = rec.effect,
         CarryMove(c, rec)
  PROVE  FInv'
  <1>. DEFINE m == call[c].m
  <1>1. /\ call' = [call EXCEPT ![c] = rec] /\ call'[c] = rec /\ Sober
        /\ \A n \in Missions : MemMove(c, n)
    BY WorkMoves DEF Become
  <1>2. /\ WorkOK(c) /\ m \in Missions /\ call[c].owns = TRUE
        /\ call[c].pc \notin {"idle", "adopt", "withdraw"} /\ HandNow
    BY Worker
  <1>3. rec.pc # "adopt" /\ rec.pc \notin {"close", "finish"} /\ rec.m = m
    BY DEF GoesOn, WorkPCs
  <1>4. SameOwner(call[c], rec)
    BY <1>2 DEF GoesOn, SameOwner, OwnOK
  <1>5. Workable(c, rec.m)' \/ Over(rec.m)'
    <2>1. port'.ended = port.ended
      BY <1>1, <1>2, PortKeeps DEF Sober
    <2>2. ASSUME Over(m), StateStays(m) PROVE Over(m)'
      <3>1. ASSUME NEW n, n = m PROVE Over(n)'
        <4>1. Withdrawn(n)'
          BY <1>1, <1>2, <2>1, <2>2, <3>1, WithdrawnKeeps DEF Over
        <4>. QED
          BY <2>2, <3>1, <4>1 DEF Over, StateStays
      <3>2. \A n : n = m => Over(n)'
        BY <3>1
      <3>. QED
        BY <1>1, <1>3, <3>2
    <2>3. ASSUME Workable(c, m), StateStays(m), reserved' = reserved PROVE Workable(c, rec.m)'
      BY <1>3, <2>3 DEF Workable, StateStays
    <2>4. Workable(c, m) \/ Over(m)
      BY <1>2 DEF WorkOK
    <2>. QED
      BY <1>1, <1>3, <2>2, <2>3, <2>4
  <1>6. WorkOK(c)' /\ CloseOK(c)'
    BY <1>1, <1>3, <1>5 DEF WorkOK, CloseOK
  <1>. QED
    BY <1>1, <1>2, <1>3, <1>4, <1>6, CallStep

LEMMA HeldUpdates ==
  ASSUME CInv, NEW m \in Missions
  PROVE  LET h == Held(m)
         IN  /\ SameWork(missions[m], h)
             /\ \A x : /\ SameWork(missions[m], [h EXCEPT !.pending_lane = x])
                       /\ SameWork(missions[m], [h EXCEPT !.open_action = x])
             /\ LET s == [h EXCEPT !.unsettled = NoEffect]
                IN  s.state = h.state /\ s.held = h.held /\ Counts(missions[m], s)
             /\ LET s == [h EXCEPT !.next_effect = @ + 1, !.unsettled = missions[m].next_effect,
                                   !.dispatched_in_phase = TRUE]
                IN  /\ s.state = h.state /\ s.held = h.held /\ Counts(missions[m], s)
                    /\ s.unsettled = missions[m].next_effect
             /\ \A t : LET a == Apply(h, t)
                       IN  /\ a.state = Transition(missions[m].state, t)
                           /\ a.held = (missions[m].held /\ Transition(missions[m].state, t) \notin Terminal)
                           /\ a.unsettled = missions[m].unsettled
                           /\ a.next_effect = missions[m].next_effect
  <1>. DEFINE h == Held(m)
              ms == missions[m]
  <1>1. IsMission(h) /\ SameWork(ms, h)
    BY HeldWork
  <1>. HIDE DEF h, ms
  <1>2. ASSUME NEW x PROVE /\ SameWork(ms, [h EXCEPT !.pending_lane = x])
                           /\ SameWork(ms, [h EXCEPT !.open_action = x])
    BY <1>1 DEF IsMission, MissionFields, SameWork
  <1>3. LET s == [h EXCEPT !.unsettled = NoEffect]
        IN  s.state = h.state /\ s.held = h.held /\ Counts(ms, s)
    BY <1>1 DEF IsMission, MissionFields, SameWork, Counts
  <1>4. LET s == [h EXCEPT !.next_effect = @ + 1, !.unsettled = ms.next_effect,
                           !.dispatched_in_phase = TRUE]
        IN  s.state = h.state /\ s.held = h.held /\ Counts(ms, s) /\ s.unsettled = ms.next_effect
    BY <1>1 DEF IsMission, MissionFields, SameWork, Counts
  <1>5. ASSUME NEW t
        PROVE  LET a == Apply(h, t)
               IN  /\ a.state = Transition(ms.state, t)
                   /\ a.held = (ms.held /\ Transition(ms.state, t) \notin Terminal)
                   /\ a.unsettled = ms.unsettled
                   /\ a.next_effect = ms.next_effect
    <2>1. h.state = ms.state /\ h.held = ms.held /\ h.unsettled = ms.unsettled
          /\ h.next_effect = ms.next_effect
      BY <1>1 DEF SameWork
    <2>. DEFINE a == Apply(h, t)
    <2>2. /\ a.state = Transition(h.state, t) /\ a.unsettled = h.unsettled
          /\ a.next_effect = h.next_effect
      BY <1>1, AppliedFields
    <2>3. a.held = (h.held /\ Transition(h.state, t) \notin Terminal)
      BY <1>1, AppliedRest
    <2>. HIDE DEF a
    <2>4. a.held = (ms.held /\ Transition(ms.state, t) \notin Terminal)
      BY <2>1, <2>3
    <2>. QED
      BY <2>1, <2>2, <2>4 DEF a
  <1>. QED
    BY <1>1, <1>2, <1>3, <1>4, <1>5 DEF h, ms

LEMMA SameCounts ==
  ASSUME NEW a, NEW b, SameWork(a, b)
  PROVE  Counts(a, b)
  BY DEF SameWork, Counts

\* What a call at work goes on with keeps its owner.
LEMMA GoRecords ==
  ASSUME NEW rec, CallOK(rec), rec.then # "rest"
  PROVE  \A r \in {Onward(rec)} \cup Checked(rec) :
            /\ GoesOn(rec, r) /\ r.pc \in {"dispatch", "lane", "phase", "refuse"} /\ CallOK(r)
  <1>1. ASSUME NEW pc \in {"dispatch", "lane", "phase", "refuse"}, NEW r, r = [rec EXCEPT !.pc = pc]
        PROVE  GoesOn(rec, r) /\ r.pc = pc /\ CallOK(r)
    BY <1>1 DEF GoesOn, WorkPCs, CallOK, CallFields
  <1>2. \E pc \in {"dispatch", "lane", "phase"} : Onward(rec) = [rec EXCEPT !.pc = pc]
    BY DEF Onward
  <1>. QED
    BY <1>1, <1>2 DEF Checked

LEMMA LaneF ==
  ASSUME CInv, JInv, FInv, NEW c \in AllCalls, Lane(c)
  PROVE  FInv'
  <1>. DEFINE m == call[c].m
              rec == call[c]
              role == Head(rec.roles)
              ev == LaneRec("LaneInvoked", role)
              ms == [Held(m) EXCEPT !.pending_lane = role]
              next == [rec EXCEPT !.pc = "running", !.role = role, !.roles = Tail(@)]
  <1>0. Lasts /\ busy' = busy /\ reserved' = reserved /\ Works(rec) /\ rec.pc = "lane"
    BY LaneOrdinary, OrdinaryLasts DEF Lane, Requests, At, Works, WorkPCs
  <1>1. /\ CallOK(rec) /\ OwnOK(rec) /\ rec.then # "rest" /\ m \in Missions
        /\ \A r : Handoff(c, r)
    BY <1>0, Worker, NoHandoff DEF WorkPCs
  <1>2. \/ \E r \in Interrupts(rec) : Only(c, r)
        \/ Only(c, Returned(rec))
        \/ Wrote(m, ev, ms) /\ Become(c, next)
        \/ Broke(m, ev, missions[m]) /\ Become(c, Returned(rec))
    BY DEF Lane, Return
  <1>3. ev.kind # "ApprovalClosed"
    BY RecordKinds
  <1>4. SameWork(missions[m], ms) /\ Counts(missions[m], ms)
    BY <1>1, HeldUpdates, SameCounts
  <1>5. GoesOn(rec, next) /\ next.pc = "running"
    BY <1>1 DEF GoesOn, WorkPCs, CallOK, CallFields
  <1>. HIDE DEF ev, ms, next
  <1>6. WorkWrites(c)
    BY <1>0, <1>2, <1>3, <1>4 DEF WorkWrites, Only
  <1>7. ASSUME Wrote(m, ev, ms), Become(c, next) PROVE FInv'
    <2>1. StateStays(m)
      BY <1>1, <1>4, <1>7, WroteMissions DEF StateStays, SameWork
    <2>2. CarryMove(c, next)
      BY <1>5 DEF CarryMove, Carries
    <2>. QED
      BY <1>0, <1>1, <1>5, <1>6, <1>7, <2>1, <2>2, WorkGoes
  <1>8. ASSUME NEW r, Become(c, r), r \in Interrupts(rec) \cup {Returned(rec)} PROVE FInv'
    <2>1. Leaves(rec, r)
      BY <1>1, <1>8, EndRecords DEF Interrupts
    <2>. QED
      BY <1>0, <1>1, <1>6, <1>8, <2>1, WorkEnds
  <1>. QED
    BY <1>2, <1>7, <1>8 DEF Only

LEMMA LaneReturnF ==
  ASSUME CInv, JInv, FInv, NEW c \in AllCalls, LaneReturn(c)
  PROVE  FInv'
  <1>. DEFINE m == call[c].m
              rec == call[c]
              none == [Held(m) EXCEPT !.pending_lane = "None"]
              returned == LaneRec("LaneReturned", rec.role)
              overtaken == LaneRec("LaneOvertaken", rec.role)
              answers == Answers(rec, missions[m])
  <1>0. Lasts /\ busy' = busy /\ reserved' = reserved /\ Works(rec) /\ rec.pc = "running"
    BY LaneReturnOrdinary, OrdinaryLasts DEF LaneReturn, Requests, At, Works, WorkPCs
  <1>1. /\ CallOK(rec) /\ OwnOK(rec) /\ rec.then # "rest" /\ m \in Missions
        /\ \A r : Handoff(c, r)
    BY <1>0, Worker, NoHandoff DEF WorkPCs
  <1>2. \/ Only(c, Returned(rec))
        \/ (Wrote(m, overtaken, none) \/ Broke(m, overtaken, missions[m])) /\ Become(c, Returned(rec))
        \/ Wrote(m, returned, none) /\ \E next \in answers : Become(c, [next EXCEPT !.role = "None"])
        \/ Broke(m, returned, missions[m]) /\ Become(c, Returned(rec))
    BY DEF LaneReturn, Return
  <1>3. returned.kind # "ApprovalClosed" /\ overtaken.kind # "ApprovalClosed"
    BY RecordKinds
  <1>4. SameWork(missions[m], none) /\ Counts(missions[m], none)
    BY <1>1, HeldUpdates, SameCounts
  <1>5. ASSUME NEW next \in answers
        PROVE  LET r == [next EXCEPT !.role = "None"]
               IN  Leaves(rec, r) \/ (GoesOn(rec, r) /\ r.pc \in {"dispatch", "lane", "phase", "refuse"})
    <2>. DEFINE r(k) == [rec EXCEPT !.rest = k]
                x == [next EXCEPT !.role = "None"]
    <2>1. \A k : CallOK(r(k)) /\ r(k).then # "rest" /\ r(k).owns = rec.owns /\ r(k).m = rec.m
      BY <1>1 DEF CallOK, CallFields
    <2>2. next \in {EndWith(rec, Plain("Block")), EndWith(rec, Failure(rec.role)), Ending(rec, "end")}
            \/ \E k : next \in Checked(r(k))
      BY <1>5 DEF Answers
    <2>3. Plain("Block").name \in EndNames /\ Failure(rec.role).name \in EndNames
      BY PlainNames DEF Failure, EndNames
    <2>. HIDE DEF r, rec
    <2>4. ASSUME \E k : next \in Checked(r(k))
          PROVE  /\ GoesOn(rec, next) /\ next.pc \in {"dispatch", "lane", "phase", "refuse"}
                 /\ CallOK(next)
      BY <2>1, <2>4, GoRecords DEF GoesOn
    <2>5. ASSUME next \in {EndWith(rec, Plain("Block")), EndWith(rec, Failure(rec.role)),
                           Ending(rec, "end")}
          PROVE  Leaves(rec, next) /\ CallOK(next)
      BY <1>1, <2>3, <2>5, EndRecords, CallsEnd DEF Calm
    <2>6. CallOK(next)
      BY <2>2, <2>4, <2>5
    <2>7. x.pc = next.pc /\ x.then = next.then /\ x.owns = next.owns /\ x.m = next.m
      BY <2>6 DEF CallOK, CallFields
    <2>. HIDE DEF x
    <2>8. Leaves(rec, x) \/ (GoesOn(rec, x) /\ x.pc \in {"dispatch", "lane", "phase", "refuse"})
      BY <2>2, <2>4, <2>5, <2>7 DEF Leaves, SameOwner, Quietly, OwnOK, Works, GoesOn
    <2>. QED
      BY <2>8 DEF x, rec
  <1>. HIDE DEF returned, overtaken, none, answers
  <1>6. WorkWrites(c)
    BY <1>0, <1>2, <1>3, <1>4 DEF WorkWrites, Only
  <1>7. ASSUME NEW r, Become(c, r), Leaves(rec, r) PROVE FInv'
    BY <1>0, <1>1, <1>6, <1>7, WorkEnds
  <1>8. ASSUME Wrote(m, returned, none), NEW r, Become(c, r), GoesOn(rec, r),
               r.pc \in {"dispatch", "lane", "phase", "refuse"}
        PROVE  FInv'
    <2>1. StateStays(m)
      BY <1>1, <1>4, <1>8, WroteMissions DEF StateStays, SameWork
    <2>2. CarryMove(c, r)
      BY <1>8 DEF CarryMove, Carries
    <2>. QED
      BY <1>0, <1>1, <1>6, <1>8, <2>1, <2>2, WorkGoes
  <1>9. Leaves(rec, Returned(rec))
    BY <1>1, EndRecords
  <1>. QED
    BY <1>2, <1>5, <1>7, <1>8, <1>9 DEF Only

LEMMA RefuseEffectF ==
  ASSUME CInv, JInv, FInv, NEW c \in AllCalls, RefuseEffect(c)
  PROVE  FInv'
  <1>. DEFINE m == call[c].m
              rec == call[c]
              ev == Rec("EffectRefused")
  <1>0. Lasts /\ busy' = busy /\ reserved' = reserved /\ Works(rec) /\ rec.pc = "refuse"
    BY RefuseEffectOrdinary, OrdinaryLasts DEF RefuseEffect, Requests, At, Works, WorkPCs
  <1>1. /\ CallOK(rec) /\ OwnOK(rec) /\ rec.then # "rest" /\ m \in Missions
        /\ \A r : Handoff(c, r)
    BY <1>0, Worker, NoHandoff DEF WorkPCs
  <1>2. /\ Unwritten \/ Wrote(m, ev, Held(m)) \/ Broke(m, ev, missions[m])
        /\ Become(c, Returned(rec)) \/ Become(c, Ending(rec, "end"))
    BY DEF RefuseEffect, Return, Only
  <1>3. ev.kind # "ApprovalClosed" /\ Counts(missions[m], Held(m))
    BY <1>1, RecordKinds, HeldUpdates, SameCounts
  <1>. HIDE DEF ev
  <1>4. WorkWrites(c)
    BY <1>0, <1>2, <1>3 DEF WorkWrites
  <1>5. Leaves(rec, Returned(rec)) /\ Leaves(rec, Ending(rec, "end"))
    BY <1>1, EndRecords
  <1>. QED
    BY <1>0, <1>1, <1>2, <1>4, <1>5, WorkEnds

\* A transition that a call at work fires.
LEMMA WorkFires ==
  ASSUME CInv, JInv, FInv, NEW c \in AllCalls, Works(call[c]), NEW t,
         Fired(call[c].m, t) \/ NotFired(call[c].m, t)
  PROVE  WorkWrites(c)
  <1>. DEFINE m == call[c].m
              ev == Transitioned(t)
              ms == Apply(Held(m), t)
  <1>1. m \in Missions
    BY Worker
  <1>2. ev.kind # "ApprovalClosed" /\ Counts(missions[m], ms)
    BY <1>1, RecordKinds, HeldUpdates DEF Counts
  <1>3. \/ Wrote(m, ev, ms) /\ reserved' = [reserved EXCEPT ![m] = {}]
        \/ Broke(m, ev, missions[m]) /\ reserved' = reserved
    BY DEF Fired, FiredAs, NotFired, Bump, Requests
  <1>. HIDE DEF ev, ms
  <1>. QED
    BY <1>2, <1>3 DEF WorkWrites

\* A call at work for a mission that is over leaves what it carries to others.
LEMMA OverHandoff ==
  ASSUME CInv, JInv, FInv, NEW c \in AllCalls, Works(call[c]), Over(call[c].m), Unwritten, NEW r
  PROVE  Handoff(c, r)
  <1>. SUFFICES ASSUME NEW e \in Effects, KnownBy(call[c], e), action'[call[c].m][e] = "prepared"
                PROVE  \E d \in AllCalls \ {c} : call[d].m = call[c].m /\ Withdraws(call[d])
    BY DEF Handoff
  <1>1. call[c].pc \notin {"withdraw", "end", "endfire"}
    BY Worker
  <1>2. Carries(call[c]) /\ call[c].effect = e /\ action' = action
    BY <1>1 DEF KnownBy, Withdraws, Unwritten, outside
  <1>3. call[c].m \notin port.ended
    BY <1>2 DEF FInv, CarryInv, CarryOK
  <1>. QED
    BY <1>1, <1>3 DEF Over, Withdrawn, Withdraws

\* A call at work that ends its mission takes over what it carries.
LEMMA EndHandoff ==
  ASSUME NEW c \in AllCalls, NEW r, r.m = call[c].m, Withdraws(r)
  PROVE  Handoff(c, r)
  BY DEF Handoff, KnownBy

LEMMA PhaseDoneF ==
  ASSUME CInv, JInv, FInv, NEW c \in AllCalls, PhaseDone(c)
  PROVE  FInv'
  <1>. DEFINE m == call[c].m
              rec == call[c]
              t == IF rec.phase = "Verifying" THEN Plain("VerifyPass") ELSE Plain("PhaseDone")
  <1>0. /\ Lasts /\ busy' = busy /\ Works(rec) /\ rec.pc = "phase"
        /\ Become(c, Returned(rec))
    BY PhaseDoneOrdinary, OrdinaryLasts DEF PhaseDone, At, Works, WorkPCs, Return
  <1>1. CallOK(rec) /\ OwnOK(rec) /\ rec.then # "rest" /\ \A r : Handoff(c, r)
    BY <1>0, Worker, NoHandoff DEF WorkPCs
  <1>2. (Unwritten /\ reserved' = reserved) \/ Fired(m, t) \/ NotFired(m, t)
    BY DEF PhaseDone, Requests
  <1>. HIDE DEF t
  <1>3. WorkWrites(c)
    BY <1>0, <1>2, WorkFires DEF WorkWrites
  <1>4. Leaves(rec, Returned(rec))
    BY <1>1, EndRecords
  <1>. QED
    BY <1>0, <1>1, <1>3, <1>4, WorkEnds

LEMMA DispatchF ==
  ASSUME CInv, JInv, FInv, NEW c \in AllCalls, Dispatch(c)
  PROVE  FInv'
  <1>. DEFINE m == call[c].m
              rec == call[c]
              e == missions[m].next_effect
              ev == EffectRec("EffectDispatched", e)
              ms == [Held(m) EXCEPT !.next_effect = @ + 1, !.unsettled = e,
                                    !.dispatched_in_phase = TRUE]
              next == [rec EXCEPT !.pc = "perform", !.effect = e, !.rest = @ - 1]
  <1>0. Lasts /\ busy' = busy /\ reserved' = reserved /\ Works(rec) /\ rec.pc = "dispatch"
    BY DispatchOrdinary, OrdinaryLasts DEF Dispatch, Requests, At, Works, WorkPCs
  <1>1. /\ CallOK(rec) /\ OwnOK(rec) /\ rec.then # "rest" /\ m \in Missions
        /\ \A r : Handoff(c, r)
    BY <1>0, Worker, NoHandoff DEF WorkPCs
  <1>2. \/ \E r \in {Ending(rec, "stop"), Ending(rec, "end"), Returned(rec)} : Only(c, r)
        \/ Wrote(m, ev, ms) /\ Become(c, next)
        \/ Broke(m, ev, missions[m]) /\ Become(c, Returned(rec))
    BY DEF Dispatch, Return
  <1>3. ev.kind # "ApprovalClosed"
    BY RecordKinds
  <1>4. /\ ms.state = Held(m).state /\ ms.held = Held(m).held
        /\ Counts(missions[m], ms) /\ ms.unsettled = e
    BY <1>1, HeldUpdates
  <1>5. Held(m).state = missions[m].state /\ Held(m).held = missions[m].held
    BY <1>1, HeldWork DEF SameWork
  <1>6. GoesOn(rec, next) /\ next.pc = "perform" /\ next.effect = e
    BY <1>1 DEF GoesOn, WorkPCs, CallOK, CallFields
  <1>. HIDE DEF ev, ms, next, e
  <1>7. WorkWrites(c)
    BY <1>0, <1>2, <1>3, <1>4 DEF WorkWrites, Only
  <1>8. ASSUME Wrote(m, ev, ms), Become(c, next) PROVE FInv'
    <2>1. StateStays(m) /\ missions'[m].unsettled = next.effect
      BY <1>1, <1>4, <1>5, <1>6, <1>8, WroteMissions DEF StateStays
    <2>2. CarryMove(c, next)
      BY <1>6 DEF CarryMove, Carries
    <2>. QED
      BY <1>0, <1>1, <1>6, <1>7, <1>8, <2>1, <2>2, WorkGoes
  <1>9. ASSUME NEW r, Become(c, r), r \in {Ending(rec, "stop"), Ending(rec, "end"), Returned(rec)}
        PROVE FInv'
    <2>1. Leaves(rec, r)
      BY <1>1, <1>9, EndRecords
    <2>. QED
      BY <1>0, <1>1, <1>7, <1>9, <2>1, WorkEnds
  <1>. QED
    BY <1>2, <1>8, <1>9 DEF Only

LEMMA SettleF ==
  ASSUME CInv, JInv, FInv, NEW c \in AllCalls, Settle(c)
  PROVE  FInv'
  <1>. DEFINE m == call[c].m
              rec == call[c]
              ev == EffectSettled(rec.effect, rec.status)
              ms == [Held(m) EXCEPT !.unsettled = NoEffect]
              current == /\ Reserved(c)
                         /\ missions[m].unsettled = rec.effect
                         /\ missions[m].state \notin Terminal
              done == [rec EXCEPT !.status = "None", !.effect = NoEffect]
              pend == [rec EXCEPT !.pc = "pend", !.status = "None"]
  <1>0. Lasts /\ busy' = busy /\ reserved' = reserved /\ Works(rec) /\ rec.pc = "settle"
    BY SettleOrdinary, OrdinaryLasts DEF Settle, Requests, At, Works, WorkPCs
  <1>1. /\ CallOK(rec) /\ OwnOK(rec) /\ rec.then # "rest" /\ m \in Missions /\ rec.owns
        /\ WorkOK(c)
    BY <1>0, Worker DEF WorkPCs
  <1>2. \/ Only(c, EndFail(rec))
        \/ ~current /\ Only(c, Returned(rec))
        \/ Wrote(m, ev, ms) /\ \E next \in AfterSettled(rec) : Become(c, next)
        \/ Broke(m, ev, missions[m]) /\ Become(c, EndFail(rec))
    BY DEF Settle
  <1>3. ev.kind # "ApprovalClosed"
    BY RecordKinds
  <1>4. ms.state = missions[m].state /\ ms.held = missions[m].held /\ Counts(missions[m], ms)
    BY <1>1, HeldUpdates, HeldWork DEF SameWork
  <1>5. ~current => Over(m)
    BY <1>0, <1>1 DEF WorkOK, Workable, Reserved, MayWait, Terminal
  <1>6. /\ GoesOn(rec, Onward(done)) /\ Onward(done).pc \in {"dispatch", "lane", "phase"}
        /\ GoesOn(rec, pend) /\ pend.pc = "pend" /\ pend.effect = rec.effect /\ pend.m = m
    <2>1. CallOK(done) /\ done.then # "rest" /\ done.owns = rec.owns /\ done.m = rec.m
      BY <1>1 DEF CallOK, CallFields
    <2>2. GoesOn(rec, pend) /\ pend.pc = "pend" /\ pend.effect = rec.effect /\ pend.m = m
      BY <1>1 DEF CallOK, CallFields, GoesOn, WorkPCs
    <2>. HIDE DEF done, rec
    <2>3. GoesOn(done, Onward(done)) /\ Onward(done).pc \in {"dispatch", "lane", "phase", "refuse"}
      BY <2>1, GoRecords
    <2>4. Onward(done).pc # "refuse"
      BY <2>1 DEF Onward, CallOK, CallFields
    <2>. QED
      BY <2>1, <2>2, <2>3, <2>4 DEF GoesOn
  <1>7. ASSUME NEW next \in AfterSettled(rec)
        PROVE  \/ rec.status # Awaiting /\ next \in Interrupts(rec) \cup {Onward(done)}
               \/ rec.status = Awaiting /\ next = pend
    BY <1>7 DEF AfterSettled, Done, Awaiting
  <1>. HIDE DEF ev, ms, current, done, pend
  <1>8. WorkWrites(c)
    BY <1>0, <1>2, <1>3, <1>4 DEF WorkWrites, Only
  <1>9. ASSUME rec.status # Awaiting PROVE \A r : Handoff(c, r)
    BY <1>0, <1>9 DEF Handoff, KnownBy, Carries, Withdraws
  <1>10. ASSUME NEW r, Become(c, r), Leaves(rec, r), Handoff(c, r) PROVE FInv'
    BY <1>0, <1>8, <1>10, WorkEnds
  <1>11. ASSUME Become(c, EndFail(rec)) PROVE FInv'
    <2>. DEFINE r == EndFail(rec)
    <2>1. Leaves(rec, r) /\ r.pc = "end" /\ r.owns = rec.owns /\ r.m = rec.m
      BY <1>1, EndRecords
    <2>. HIDE DEF r
    <2>2. Handoff(c, r)
      BY <1>1, <2>1, EndHandoff DEF Withdraws
    <2>. QED
      BY <1>10, <1>11, <2>1, <2>2 DEF r
  <1>12. ASSUME ~current, Only(c, Returned(rec)) PROVE FInv'
    BY <1>0, <1>1, <1>5, <1>10, <1>12, OverHandoff, EndRecords DEF Only
  <1>13. ASSUME Wrote(m, ev, ms), NEW next \in AfterSettled(rec), Become(c, next) PROVE FInv'
    <2>1. StateStays(m)
      BY <1>1, <1>4, <1>13, WroteMissions DEF StateStays
    <2>2. CASE next \in Interrupts(rec) /\ rec.status # Awaiting
      <3>1. Leaves(rec, next)
        BY <1>1, <2>2, EndRecords DEF Interrupts
      <3>. QED
        BY <1>9, <1>10, <1>13, <2>2, <3>1
    <2>3. CASE next = Onward(done) /\ rec.status # Awaiting
      <3>1. CarryMove(c, next)
        BY <1>6, <2>3 DEF CarryMove, Carries
      <3>. QED
        BY <1>0, <1>1, <1>6, <1>8, <1>9, <1>13, <2>1, <2>3, <3>1, WorkGoes
    <2>4. CASE next = pend /\ rec.status = Awaiting
      <3>1. CarryMove(c, next)
        BY <1>0, <1>6, <2>4 DEF CarryMove, Carries
      <3>2. Handoff(c, next)
        BY <1>0, <1>6, <2>4 DEF Handoff, KnownBy, Carries, Withdraws
      <3>. QED
        BY <1>0, <1>1, <1>6, <1>8, <1>13, <2>1, <2>4, <3>1, <3>2, WorkGoes
    <2>. QED
      BY <1>7, <2>2, <2>3, <2>4
  <1>. QED
    BY <1>2, <1>11, <1>12, <1>13 DEF Only

LEMMA PendF ==
  ASSUME CInv, JInv, FInv, NEW c \in AllCalls, Pend(c)
  PROVE  FInv'
  <1>. DEFINE m == call[c].m
              rec == call[c]
              ev == EffectRec("ApprovalPending", rec.effect)
              ms == [Held(m) EXCEPT !.open_action = rec.effect]
              waits == [rec EXCEPT !.pc = "wait"]
  <1>0. Lasts /\ busy' = busy /\ reserved' = reserved /\ Works(rec) /\ rec.pc = "pend"
    BY PendOrdinary, OrdinaryLasts DEF Pend, Requests, At, Works, WorkPCs
  <1>1. /\ CallOK(rec) /\ OwnOK(rec) /\ rec.then # "rest" /\ m \in Missions /\ rec.owns
        /\ WorkOK(c)
    BY <1>0, Worker DEF WorkPCs
  <1>2. \/ Only(c, EndFail(rec))
        \/ ~PortPending(m) /\ Only(c, waits)
        \/ ~Reserved(c) /\ Only(c, Returned(rec))
        \/ Wrote(m, ev, ms) /\ Become(c, waits)
        \/ Broke(m, ev, missions[m]) /\ Become(c, EndFail(rec))
    BY DEF Pend
  <1>3. ev.kind = "ApprovalPending" /\ ev.effect = rec.effect
    BY RecordKinds
  <1>4. SameWork(missions[m], ms) /\ Counts(missions[m], ms)
    BY <1>1, HeldUpdates, SameCounts
  <1>5. GoesOn(rec, waits) /\ waits.pc = "wait" /\ CarryMove(c, waits)
    BY <1>1 DEF GoesOn, WorkPCs, CallOK, CallFields, CarryMove, Carries
  <1>6. ~Reserved(c) => Over(m)
    BY <1>0, <1>1 DEF WorkOK, Workable, Reserved
  <1>. HIDE DEF ev, ms, waits
  <1>7. WorkWrites(c)
    BY <1>0, <1>2, <1>3, <1>4 DEF WorkWrites, Only
  <1>8. \A e : KnownBy(rec, e) => e = rec.effect
    BY <1>0 DEF KnownBy, Withdraws
  <1>9. ASSUME Become(c, EndFail(rec)) PROVE FInv'
    <2>. DEFINE r == EndFail(rec)
    <2>1. Leaves(rec, r) /\ r.pc = "end" /\ r.owns = rec.owns /\ r.m = rec.m
      BY <1>1, EndRecords
    <2>. HIDE DEF r
    <2>2. Handoff(c, r)
      BY <1>1, <2>1, EndHandoff DEF Withdraws
    <2>3. Become(c, r)
      BY <1>9 DEF r
    <2>. QED
      BY <1>0, <1>7, <2>1, <2>2, <2>3, WorkEnds
  <1>10. ASSUME ~Reserved(c), Only(c, Returned(rec)) PROVE FInv'
    <2>1. Handoff(c, Returned(rec)) /\ Leaves(rec, Returned(rec))
      BY <1>0, <1>1, <1>6, <1>10, OverHandoff, EndRecords DEF Only
    <2>. QED
      BY <1>0, <1>7, <1>10, <2>1, WorkEnds DEF Only
  <1>11. ASSUME Become(c, waits), Handoff(c, waits), missions' = missions \/ Wrote(m, ev, ms)
         PROVE  FInv'
    <2>1. StateStays(m)
      BY <1>1, <1>4, <1>11, WroteMissions DEF StateStays, SameWork
    <2>. QED
      BY <1>0, <1>1, <1>5, <1>7, <1>11, <2>1, WorkGoes
  <1>12. ASSUME ~PortPending(m), Only(c, waits) PROVE FInv'
    <2>1. rec.effect = NoEffect
      BY <1>0, <1>12 DEF FInv, CarryInv, CarryOK, Carries, PortPending
    <2>2. Handoff(c, waits)
      BY <1>8, <2>1, EffectAssumption DEF Handoff, Effects, NoEffect
    <2>. QED
      BY <1>11, <1>12, <2>2 DEF Only, Unwritten
  <1>13. ASSUME Wrote(m, ev, ms), Become(c, waits) PROVE FInv'
    <2>1. log' = Replay(LogHeld, m, ev)
      BY <1>13 DEF Wrote, WroteLog
    <2>2. LogSound(LogHeld)
      BY LogHeldSound DEF CInv, LogInv
    <2>3. ~log'.refused => log'.mission[m].open_action = rec.effect
      BY <1>1, <1>3, <2>1, <2>2, ReplayOpen
    <2>4. Handoff(c, waits)
      BY <1>8, <2>3 DEF Handoff
    <2>. QED
      BY <1>11, <1>13, <2>4
  <1>. QED
    BY <1>2, <1>9, <1>10, <1>12, <1>13 DEF Only

LEMMA WaitF ==
  ASSUME CInv, JInv, FInv, NEW c \in AllCalls, Wait(c)
  PROVE  FInv'
  <1>. DEFINE m == call[c].m
              rec == call[c]
              t == AwaitApproval(rec.effect, rec.rest, rec.roles)
  <1>0. Lasts /\ busy' = busy /\ Works(rec) /\ rec.pc = "wait"
    BY WaitOrdinary, OrdinaryLasts DEF Wait, At, Works, WorkPCs
  <1>1. CallOK(rec) /\ OwnOK(rec) /\ rec.then # "rest" /\ \A r : Handoff(c, r)
    BY <1>0, Worker, NoHandoff DEF WorkPCs
  <1>2. /\ (Unwritten /\ reserved' = reserved) \/ Fired(m, t) \/ NotFired(m, t)
        /\ \E r \in {Returned(rec), EndFail(rec)} : Become(c, r)
    BY DEF Wait, Only, Requests, Return
  <1>. HIDE DEF t
  <1>3. WorkWrites(c)
    BY <1>0, <1>2, WorkFires DEF WorkWrites
  <1>4. \A r \in {Returned(rec), EndFail(rec)} : Leaves(rec, r)
    BY <1>1, EndRecords
  <1>. QED
    BY <1>0, <1>1, <1>2, <1>3, <1>4, WorkEnds

LEMMA ResolveF ==
  ASSUME CInv, JInv, FInv, NEW c \in AllCalls, Resolve(c)
  PROVE  FInv'
  <1>. DEFINE w == missions[call[c].m].waiting
              rec == [call[c] EXCEPT !.status = "None"]
              go == [rec EXCEPT !.pc = "approve", !.effect = w.effect,
                                !.phase = w.phase, !.rest = w.rest, !.roles = w.roles]
  <1>0. /\ Lasts /\ busy' = busy /\ reserved' = reserved /\ Unwritten
        /\ Works(call[c]) /\ call[c].pc = "resolve"
    BY ResolveOrdinary, OrdinaryLasts DEF Resolve, Requests, At, Works, WorkPCs, Only
  <1>1. /\ CallOK(call[c]) /\ OwnOK(call[c]) /\ call[c].then # "rest" /\ call[c].m \in Missions
        /\ \A r : Handoff(c, r)
    BY <1>0, Worker, NoHandoff DEF WorkPCs
  <1>2. WorkWrites(c)
    BY <1>0 DEF WorkWrites
  <1>3. \/ Become(c, Returned(rec)) \/ Become(c, Ending(rec, "end"))
        \/ \E t : Become(c, EndWith(rec, t))
        \/ Become(c, go)
    BY DEF Resolve, Only
  <1>4. /\ CallOK(rec) /\ rec.then = call[c].then /\ rec.pc = call[c].pc
        /\ rec.owns = call[c].owns /\ rec.m = call[c].m
        /\ GoesOn(call[c], go) /\ go.pc = "approve"
    BY <1>1 DEF CallOK, CallFields, GoesOn, WorkPCs
  <1>. HIDE DEF rec, go, w
  <1>5. OwnOK(rec)
    BY <1>1, <1>4 DEF OwnOK, Works
  <1>6. ASSUME NEW r, Leaves(rec, r) PROVE Leaves(call[c], r)
    BY <1>4, <1>6 DEF Leaves, SameOwner
  <1>7. ASSUME NEW r, Become(c, r), Leaves(rec, r) PROVE FInv'
    BY <1>0, <1>1, <1>2, <1>6, <1>7, WorkEnds
  <1>8. ASSUME Become(c, go) PROVE FInv'
    <2>1. StateStays(call[c].m)
      BY <1>0 DEF Unwritten, StateStays
    <2>2. CarryMove(c, go)
      BY <1>4 DEF CarryMove, Carries
    <2>. QED
      BY <1>0, <1>1, <1>2, <1>4, <1>8, <2>1, <2>2, WorkGoes
  <1>9. /\ Leaves(rec, Returned(rec)) /\ Leaves(rec, Ending(rec, "end"))
        /\ \A t : Leaves(rec, EndWith(rec, t))
    BY <1>1, <1>4, <1>5, EndRecords
  <1>. QED
    BY <1>3, <1>7, <1>8, <1>9

LEMMA ApproveF ==
  ASSUME CInv, JInv, FInv, NEW c \in AllCalls, Approve(c)
  PROVE  FInv'
  <1>. DEFINE m == call[c].m
              rec == call[c]
              t == ActionApproved(rec.effect, rec.phase)
              ev == Transitioned(t)
              ms == Apply(Held(m), t)
              next == [rec EXCEPT !.pc = "settled", !.then = "rest", !.effect = NoEffect]
  <1>0. Lasts /\ busy' = busy /\ Works(rec) /\ rec.pc = "approve"
    BY ApproveOrdinary, OrdinaryLasts DEF Approve, At, Works, WorkPCs
  <1>1. /\ CallOK(rec) /\ OwnOK(rec) /\ rec.then # "rest" /\ m \in Missions /\ WorkOK(c)
        /\ \A r : Handoff(c, r)
    BY <1>0, Worker, NoHandoff DEF WorkPCs
  <1>2. \/ /\ Accepts(m, t) /\ Wrote(m, ev, ms)
           /\ reserved' = [reserved EXCEPT ![m] = {c}] /\ Become(c, next)
        \/ NotFired(m, t) /\ Become(c, Returned(rec))
        \/ Unwritten /\ reserved' = reserved /\ Become(c, Returned(rec))
    BY DEF Approve, Only, Requests, Return
  <1>3. ASSUME Accepts(m, t)
        PROVE  missions[m].state = "AwaitingApproval" /\ Transition(missions[m].state, t) \in MayWait
    <2>1. t.name = "ActionApproved"
      BY PlainNames
    <2>. HIDE DEF t
    <2>. QED
      BY <1>3, <2>1 DEF Accepts, Legal, Transition
  <1>4. ev.kind # "ApprovalClosed" /\ Counts(missions[m], ms)
    BY <1>1, RecordKinds, HeldUpdates DEF Counts
  <1>5. /\ ms.state = Transition(missions[m].state, t)
        /\ ms.held = (missions[m].held /\ Transition(missions[m].state, t) \notin Terminal)
    BY <1>1, HeldUpdates
  <1>6. GoesOn(rec, next) /\ next.pc = "settled" /\ next.m = m
    BY <1>1 DEF GoesOn, CallOK, CallFields
  <1>. HIDE DEF t, ev, ms, next
  <1>7. ASSUME Unwritten \/ NotFired(m, t), reserved' = reserved \/ NotFired(m, t),
               Become(c, Returned(rec))
        PROVE  FInv'
    <2>1. WorkWrites(c)
      BY <1>0, <1>7, WorkFires DEF WorkWrites
    <2>2. Leaves(rec, Returned(rec))
      BY <1>1, EndRecords
    <2>. QED
      BY <1>0, <1>1, <1>7, <2>1, <2>2, WorkEnds
  <1>8. ASSUME Accepts(m, t), Wrote(m, ev, ms), reserved' = [reserved EXCEPT ![m] = {c}],
               Become(c, next)
        PROVE  FInv'
    <2>1. WorkWrites(c)
      BY <1>4, <1>8 DEF WorkWrites
    <2>2. ~missions[m].held
      BY <1>0, <1>1, <1>3, <1>8 DEF WorkOK, Workable, Over, Terminal
    <2>3. missions'[m].state \in MayWait /\ ~missions'[m].held /\ c \in reserved'[m]
      BY <1>1, <1>3, <1>5, <1>8, <2>2, WroteMissions DEF CInv, ShapeInv
    <2>4. PICK x : x = next
      OBVIOUS
    <2>5. Workable(c, x.m)' /\ CarryMove(c, x)
      BY <1>6, <2>3, <2>4 DEF Workable, CarryMove, Carries
    <2>. QED
      BY <1>0, <1>1, <1>6, <1>8, <2>1, <2>4, <2>5, WorkGoes
  <1>. QED
    BY <1>2, <1>7, <1>8

(***************************************************************************)
(* The steps of a call that stops, ends, asks or resumes.                   *)
(***************************************************************************)
LEMMA BrokeSame ==
  ASSUME CInv, NEW m, NEW ev, Broke(m, ev, missions[m])
  PROVE  missions' = missions
  BY DEF Broke, CInv, MemInv

\* A mission that nobody works for has nobody to be followed.
LEMMA IdleFollows ==
  ASSUME NEW n, missions[n].state \notin Terminal \cup MayWait \cup {"AwaitingApproval"}
  PROVE  Follows(n)
  BY DEF Follows, Workable, Over

\* A mission that ends is withdrawn, if it is past its consent.
LEMMA EndFollows ==
  ASSUME CInv, NEW c \in AllCalls, NEW rec, call' = [call EXCEPT ![c] = rec], NEW n \in Missions,
         missions[n].state \notin Terminal, missions'[n].state \in Terminal \ {"Done"},
         missions[n].consent # NoHash => rec.pc = "withdraw" /\ rec.m = n
  PROVE  Follows(n)
  <1>. SUFFICES ASSUME NEW d \in AllCalls, Workable(d, n) \/ Over(n) PROVE Over(n)'
    BY DEF Follows
  <1>1. missions[n].state \in MayWait \cup {"AwaitingApproval"}
    BY DEF Workable, Over
  <1>2. missions[n].consent # NoHash
    BY <1>1 DEF CInv, MemInv, MissionOK, PastConsent, Consented, Working
  <1>3. call'[c].pc = "withdraw" /\ call'[c].m = n
    BY <1>2 DEF CInv, ShapeInv
  <1>. QED
    BY <1>3 DEF Over, Withdrawn

LEMMA FiredMoves ==
  ASSUME CInv, JInv, FInv, NEW c \in AllCalls, NEW rec, call' = [call EXCEPT ![c] = rec],
         call[c].pc # "withdraw" \/ call' = call, HandNow, NEW m, NEW t, Fired(m, t) \/ NotFired(m, t),
         m \in Missions /\ Fired(m, t) => Follows(m)
  PROVE  Sober /\ \A n \in Missions : MemMove(c, n)
  <1>. DEFINE ev == Transitioned(t)
              ms == Apply(Held(m), t)
  <1>1. \/ Wrote(m, ev, ms) /\ reserved' = [reserved EXCEPT ![m] = {}] /\ Fired(m, t)
        \/ Broke(m, ev, missions[m]) /\ reserved' = reserved
    BY DEF Fired, FiredAs, NotFired, Bump, Requests
  <1>2. ev.kind # "ApprovalClosed"
    BY RecordKinds
  <1>3. m \in Missions => ms.unsettled = missions[m].unsettled /\ Counts(missions[m], ms)
    BY HeldUpdates DEF Counts
  <1>. HIDE DEF ev, ms
  <1>4. Sober
    BY <1>1, <1>2, WritesSober
  <1>5. \A n \in Missions \ {m} : StayReserved(n)
    BY <1>1 DEF StayReserved, CInv, ShapeInv
  <1>6. CASE Broke(m, ev, missions[m]) /\ reserved' = reserved
    BY <1>4, <1>6, BrokeSame, StillMoves DEF Sober, StayReserved
  <1>7. CASE Wrote(m, ev, ms) /\ Fired(m, t)
    <2>1. m \in Missions => MemMove(c, m)
      BY <1>3, <1>7, WroteMissions DEF MemMove, Counted
    <2>. QED
      BY <1>4, <1>5, <1>7, <2>1, WroteMoves DEF Sober
  <1>. QED
    BY <1>1, <1>4, <1>6, <1>7

\* The mission moves in memory only, or its record is lost.
LEMMA LostMoves ==
  ASSUME CInv, JInv, FInv, NEW c \in AllCalls, NEW rec, call' = [call EXCEPT ![c] = rec],
         call[c].pc # "withdraw", HandNow, NEW m, NEW ms, NEW ev, ev.kind # "ApprovalClosed",
         \/ Broke(m, ev, ms)
         \/ missions' = [missions EXCEPT ![m] = ms] /\ UNCHANGED <<inner, journal, outside>>,
         reserved' = [reserved EXCEPT ![m] = {}],
         m \in Missions => /\ ms.unsettled = missions[m].unsettled /\ Follows(m)
                           /\ ms.next_effect = missions[m].next_effect
  PROVE  Sober /\ \A n \in Missions : MemMove(c, n)
  <1>1. missions' = [missions EXCEPT ![m] = ms]
    BY DEF Broke
  <1>2. Sober
    BY WritesSober DEF journal, outside, Sober, PortQuiet, KeepsOpen
  <1>3. port'.ended = port.ended
    BY <1>2, PortKeeps DEF Sober
  <1>4. ASSUME NEW n \in Missions, n # m PROVE MemMove(c, n)
    <2>1. missions'[n] = missions[n] /\ StayReserved(n)
      BY <1>1, <1>4 DEF StayReserved, CInv, MemInv, ShapeInv
    <2>. QED
      BY <1>3, <2>1, SameMove DEF SameWork
  <1>5. m \in Missions => MemMove(c, m)
    BY <1>1 DEF MemMove, Counted, Counts, CInv, MemInv
  <1>. QED
    BY <1>2, <1>4, <1>5

LEMMA StillStep ==
  ASSUME CInv, JInv, FInv, NEW c \in AllCalls, call[c].pc \notin {"idle", "adopt", "withdraw"},
         Lasts, Unwritten, reserved' = reserved, busy' = busy, NEW rec, Become(c, rec),
         Leaves(call[c], rec), Handoff(c, rec)
  PROVE  FInv'
  <1>1. Sober /\ missions' = missions /\ HandNow
    BY UnwrittenSober, Ready
  <1>2. \A n \in Missions : MemMove(c, n)
    BY <1>1, StillMoves DEF Become, Sober, StayReserved
  <1>. QED
    BY <1>1, <1>2, LeaveStep DEF Become

LEMMA StopNames ==
  /\ \A s : Transition(s, Plain("Stop")) \in {"None", "Stopped"}
  /\ \A s, t : t.name \in EndNames => Transition(s, t) \in {"None", "Failed", "Blocked", "Denied"}
  /\ \A s, t : t.name \in EndNames \cup {"Stop"} /\ s \in Terminal => Transition(s, t) = "None"
  <1>1. Plain("Stop").name = "Stop"
    BY PlainNames
  <1>. HIDE DEF Plain
  <1>2. \A s : Transition(s, Plain("Stop")) \in {"None", "Stopped"}
    BY <1>1 DEF Transition
  <1>3. \A s, t : t.name \in EndNames => Transition(s, t) \in {"None", "Failed", "Blocked", "Denied"}
    BY DEF Transition, EndNames
  <1>4. \A s, t : t.name \in EndNames \cup {"Stop"} /\ s \in Terminal => Transition(s, t) = "None"
    BY DEF Transition, EndNames, Terminal, Working, MayWait, Stoppable
  <1>. QED
    BY <1>2, <1>3, <1>4

LEMMA StopFireF ==
  ASSUME CInv, JInv, FInv, NEW c \in AllCalls, StopFire(c)
  PROVE  FInv'
  <1>0. Lasts /\ busy' = busy /\ call[c].pc = "stop"
    BY StopFireOrdinary, OrdinaryLasts DEF StopFire, At
  <1>1. /\ CallOK(call[c]) /\ OwnOK(call[c]) /\ call[c].then # "rest" /\ HandNow
        /\ \A r : Handoff(c, r)
    BY <1>0, Ready, NoHandoff DEF CInv, CallInv, FInv, OwnInv, OwnOK
  <1>2. CASE StopEnded(c)
    <2>1. Unwritten /\ reserved' = reserved /\ Become(c, Returned(call[c]))
      BY <1>2 DEF StopEnded, Requests, Return
    <2>2. Leaves(call[c], Returned(call[c]))
      BY <1>1, EndRecords
    <2>. QED
      BY <1>0, <1>1, <2>1, <2>2, StillStep
  <1>3. PICK m : m = call[c].m
    OBVIOUS
  <1>4. ASSUME NEW rec, CallOK(rec), OwnOK(rec), rec.then # "rest", rec.m = m,
               rec.owns = call[c].owns
        PROVE  LET r == AfterStop(rec, missions[m])
               IN  /\ Leaves(call[c], r)
                   /\ missions[m].consent # NoHash => r.pc = "withdraw" /\ r.m = m
    BY <1>3, <1>4, EndRecords DEF AfterStop, Leaves, SameOwner
  <1>5. ASSUME ~(inner.closed \/ missions[call[c].m].state \in Terminal), StopTaken(c) PROVE FInv'
    <2>. DEFINE r == AfterStop(call[c], missions[m])
    <2>1. /\ Leaves(call[c], r)
          /\ missions[m].consent # NoHash => r.pc = "withdraw" /\ r.m = m
      BY <1>1, <1>3, <1>4
    <2>2. Fired(m, Plain("Stop")) /\ call' = [call EXCEPT ![c] = r]
      BY <1>3, <1>5 DEF StopTaken, Become
    <2>. HIDE DEF r
    <2>3. ASSUME m \in Missions PROVE Follows(m)
      <3>1. missions'[m].state = "Stopped"
        <4>1. Wrote(m, Transitioned(Plain("Stop")), Apply(Held(m), Plain("Stop")))
                /\ Transition(missions[m].state, Plain("Stop")) # "None"
          BY <2>2 DEF Fired, FiredAs, Accepts, Legal
        <4>2. Apply(Held(m), Plain("Stop")).state = Transition(missions[m].state, Plain("Stop"))
          BY <2>3, HeldUpdates
        <4>. QED
          BY <2>3, <4>1, <4>2, WroteMissions, StopNames
      <3>. QED
        BY <1>3, <1>5, <2>1, <2>2, <2>3, <3>1, EndFollows DEF Terminal
    <2>4. Sober /\ \A n \in Missions : MemMove(c, n)
      BY <1>0, <1>1, <2>2, <2>3, FiredMoves
    <2>. QED
      BY <1>0, <1>1, <2>1, <2>2, <2>4, LeaveStep
  <1>6. ASSUME ~(inner.closed \/ missions[call[c].m].state \in Terminal), StopLost(c) PROVE FInv'
    <2>. DEFINE rec == [call[c] EXCEPT !.ok = FALSE]
                r == AfterStop(rec, missions[m])
                ms == [missions[m] EXCEPT !.state = "Stopped"]
                ev == Transitioned(Plain("Stop"))
    <2>1. CallOK(rec) /\ rec.then = call[c].then /\ rec.m = m /\ rec.owns = call[c].owns
            /\ rec.pc = call[c].pc
      BY <1>1, <1>3 DEF CallOK, CallFields
    <2>2. /\ Broke(m, ev, ms) \/ (/\ missions' = [missions EXCEPT ![m] = ms]
                                  /\ UNCHANGED <<inner, journal, outside>>)
          /\ reserved' = [reserved EXCEPT ![m] = {}]
          /\ call' = [call EXCEPT ![c] = r]
      BY <1>3, <1>6 DEF StopLost, Become
    <2>3. ev.kind # "ApprovalClosed"
      BY RecordKinds
    <2>4. m \in Missions => /\ ms.unsettled = missions[m].unsettled
                            /\ ms.next_effect = missions[m].next_effect /\ ms.state = "Stopped"
      BY DEF CInv, MemInv, MissionOK, IsMission, MissionFields
    <2>. HIDE DEF rec, ms, ev
    <2>5. /\ Leaves(call[c], r)
          /\ missions[m].consent # NoHash => r.pc = "withdraw" /\ r.m = m
      BY <1>1, <1>4, <2>1 DEF OwnOK, Works
    <2>. HIDE DEF r
    <2>6. ASSUME m \in Missions PROVE Follows(m)
      <3>1. missions'[m].state = "Stopped"
        BY <2>2, <2>4, <2>6 DEF Broke, CInv, MemInv
      <3>. QED
        BY <1>3, <1>6, <2>2, <2>5, <2>6, <3>1, EndFollows DEF Terminal
    <2>7. Sober /\ \A n \in Missions : MemMove(c, n)
      BY <1>0, <1>1, <2>2, <2>3, <2>4, <2>6, LostMoves
    <2>. QED
      BY <1>0, <1>1, <2>2, <2>5, <2>7, LeaveStep
  <1>. QED
    BY <1>2, <1>5, <1>6 DEF StopFire

\* A call that owns its mission finds no session closed.
LEMMA OwnsOpen ==
  ASSUME FInv, NEW c \in AllCalls, inner.closed
  PROVE  ~call[c].owns
  BY DEF FInv, OwnInv

LEMMA EndF ==
  ASSUME CInv, JInv, FInv, NEW c \in AllCalls, End(c)
  PROVE  FInv'
  <1>0. /\ Lasts /\ busy' = busy /\ call[c].pc = "end" /\ Unwritten /\ reserved' = reserved
        /\ \/ inner.closed /\ Become(c, Returned(call[c]))
           \/ \E t : Become(c, EndWith(call[c], t))
    BY EndOrdinary, OrdinaryLasts DEF End, At, Untouched, Requests, Return
  <1>1. CallOK(call[c]) /\ OwnOK(call[c]) /\ call[c].then # "rest"
    BY <1>0 DEF CInv, CallInv, FInv, OwnInv, OwnOK
  <1>2. CASE inner.closed /\ Become(c, Returned(call[c]))
    <2>1. Handoff(c, Returned(call[c]))
      BY <1>0, <1>2, OwnsOpen DEF Handoff, KnownBy, Carries, Withdraws
    <2>. QED
      BY <1>0, <1>1, <1>2, <2>1, EndRecords, StillStep
  <1>3. ASSUME NEW t, Become(c, EndWith(call[c], t)) PROVE FInv'
    <2>. DEFINE r == EndWith(call[c], t)
    <2>1. Leaves(call[c], r) /\ r.pc = "endfire" /\ r.owns = call[c].owns /\ r.m = call[c].m
      BY <1>1, EndRecords
    <2>2. Become(c, r)
      BY <1>3
    <2>. HIDE DEF r
    <2>3. Handoff(c, r)
      BY <1>0, <2>1 DEF Handoff, KnownBy, Carries, Withdraws
    <2>. QED
      BY <1>0, <2>1, <2>2, <2>3, StillStep
  <1>. QED
    BY <1>0, <1>2, <1>3

LEMMA EndFireF ==
  ASSUME CInv, JInv, FInv, NEW c \in AllCalls, EndFire(c)
  PROVE  FInv'
  <1>0. Lasts /\ busy' = busy /\ call[c].pc = "endfire"
    BY EndFireOrdinary, OrdinaryLasts DEF EndFire, At
  <1>1. CallOK(call[c]) /\ OwnOK(call[c]) /\ call[c].then # "rest" /\ HandNow
    BY <1>0, Ready DEF CInv, CallInv, FInv, OwnInv, OwnOK
  <1>2. PICK m, t, ended : m = call[c].m /\ t = call[c].trigger /\ ended = Apply(missions[m], t)
    OBVIOUS
  <1>3. t.name \in EndNames
    BY <1>1, <1>2 DEF CallOK
  <1>. DEFINE gone(ok) == [call[c] EXCEPT !.pc = "withdraw", !.ok = ok, !.trigger = Plain("Block")]
  <1>4. \/ inner.closed /\ Unwritten /\ reserved' = reserved /\ Become(c, Returned(call[c]))
        \/ \E r : /\ \E ok : r = gone(ok)
                  /\ Become(c, r)
                  /\ \/ Unwritten /\ reserved' = reserved
                     \/ Fired(m, t)
                     \/ /\ Accepts(m, t) /\ reserved' = [reserved EXCEPT ![m] = {}]
                        /\ \/ Broke(m, Transitioned(t), ended)
                           \/ /\ missions' = [missions EXCEPT ![m] = ended]
                              /\ UNCHANGED <<inner, journal, outside>>
    BY <1>2 DEF EndFire, Requests, Bump, Return
  <1>5. CASE inner.closed /\ Unwritten /\ reserved' = reserved /\ Become(c, Returned(call[c]))
    <2>1. Handoff(c, Returned(call[c]))
      BY <1>0, <1>5, OwnsOpen DEF Handoff, KnownBy, Carries, Withdraws
    <2>. QED
      BY <1>0, <1>1, <1>5, <2>1, EndRecords, StillStep
  <1>6. ASSUME NEW r, NEW ok, r = gone(ok)
        PROVE  Leaves(call[c], r) /\ r.pc = "withdraw" /\ r.m = m /\ Handoff(c, r)
    <2>1. /\ r.pc = "withdraw" /\ r.m = call[c].m /\ r.owns = call[c].owns
          /\ r.then = call[c].then
      BY <1>1, <1>6 DEF CallOK, CallFields
    <2>2. Leaves(call[c], r) /\ Withdraws(r)
      BY <1>1, <2>1 DEF Leaves, SameOwner, Quietly, OwnOK, Works, WorkPCs, Withdraws
    <2>. QED
      BY <1>2, <2>1, <2>2, EndHandoff
  <1>. HIDE DEF gone
  <1>7. ASSUME Accepts(m, t)
        PROVE  /\ missions[m].state \notin Terminal
               /\ Transition(missions[m].state, t) \in Terminal \ {"Done"}
    BY <1>3, <1>7, StopNames DEF Accepts, Legal, Terminal
  <1>8. ASSUME NEW r, Become(c, r), Leaves(call[c], r), r.pc = "withdraw", r.m = m, Handoff(c, r),
               Fired(m, t)
        PROVE  FInv'
    <2>1. call' = [call EXCEPT ![c] = r] /\ Accepts(m, t)
      BY <1>8 DEF Become, Fired, FiredAs
    <2>2. ASSUME m \in Missions PROVE Follows(m)
      <3>1. missions'[m].state = Transition(missions[m].state, t)
        <4>1. Wrote(m, Transitioned(t), Apply(Held(m), t))
          BY <1>8 DEF Fired, FiredAs
        <4>2. Apply(Held(m), t).state = Transition(missions[m].state, t)
          BY <2>2, HeldUpdates
        <4>. QED
          BY <2>2, <4>1, <4>2, WroteMissions
      <3>. QED
        BY <1>7, <1>8, <2>1, <2>2, <3>1, EndFollows
    <2>3. Sober /\ \A n \in Missions : MemMove(c, n)
      BY <1>0, <1>1, <1>8, <2>1, <2>2, FiredMoves
    <2>. QED
      BY <1>0, <1>8, <2>1, <2>3, LeaveStep
  <1>9. ASSUME NEW r, Become(c, r), Leaves(call[c], r), r.pc = "withdraw", r.m = m, Handoff(c, r),
               Accepts(m, t), reserved' = [reserved EXCEPT ![m] = {}],
               \/ Broke(m, Transitioned(t), ended)
               \/ missions' = [missions EXCEPT ![m] = ended] /\ UNCHANGED <<inner, journal, outside>>
        PROVE  FInv'
    <2>1. call' = [call EXCEPT ![c] = r] /\ missions' = [missions EXCEPT ![m] = ended]
      BY <1>9 DEF Become, Broke
    <2>2. ASSUME m \in Missions
          PROVE  /\ ended.state = Transition(missions[m].state, t)
                 /\ ended.unsettled = missions[m].unsettled
                 /\ ended.next_effect = missions[m].next_effect
      <3>. DEFINE a == Apply(missions[m], t)
      <3>1. IsMission(missions[m])
        BY <2>2 DEF CInv, MemInv, MissionOK
      <3>2. /\ a.state = Transition(missions[m].state, t) /\ a.unsettled = missions[m].unsettled
            /\ a.next_effect = missions[m].next_effect
        BY <3>1, AppliedFields
      <3>. HIDE DEF a
      <3>3. ended = a
        BY <1>2 DEF a
      <3>. QED
        BY <3>2, <3>3
    <2>3. ASSUME m \in Missions PROVE Follows(m)
      <3>1. missions'[m].state = Transition(missions[m].state, t)
        BY <2>1, <2>2, <2>3 DEF CInv, MemInv
      <3>. QED
        BY <1>7, <1>9, <2>1, <2>3, <3>1, EndFollows
    <2>4. Transitioned(t).kind # "ApprovalClosed"
      BY RecordKinds
    <2>5. Sober /\ \A n \in Missions : MemMove(c, n)
      BY <1>0, <1>1, <1>9, <2>1, <2>2, <2>3, <2>4, LostMoves
    <2>. QED
      BY <1>0, <1>9, <2>1, <2>5, LeaveStep
  <1>. QED
    BY <1>0, <1>4, <1>5, <1>6, <1>8, <1>9, StillStep

\* An answer leaves those at work alone: the mission is one that awaits its consent.
LEMMA AnswerStep ==
  ASSUME CInv, JInv, FInv, NEW c \in AllCalls, call[c].pc = "asking", NEW m, m = call[c].m,
         Become(c, Returned(call[c])), busy' = busy, NEW ev, NEW ms, ev.kind # "ApprovalClosed",
         \/ Unwritten /\ Unreserve(c)
         \/ (Wrote(m, ev, Held(m)) \/ Broke(m, ev, missions[m])) /\ Unreserve(c)
         \/ Broke(m, ev, missions[m]) /\ reserved' = reserved
         \/ /\ Wrote(m, ev, ms) /\ reserved' = [reserved EXCEPT ![m] = {}]
            /\ Counts(missions[m], ms) /\ ms.unsettled = missions[m].unsettled
            /\ missions[m].state = "AwaitingConsent"
  PROVE  FInv'
  <1>. DEFINE r == Returned(call[c])
  <1>1. CallOK(call[c]) /\ OwnOK(call[c]) /\ call[c].then # "rest" /\ HandNow /\ m \in Missions
    BY Ready DEF CInv, CallInv, FInv, OwnInv, OwnOK, AskInv, AskOK
  <1>2. call' = [call EXCEPT ![c] = r] /\ Leaves(call[c], r) /\ Handoff(c, r)
    BY <1>1, EndRecords, NoHandoff DEF Become
  <1>3. r.pc # "asking"
    BY DEF Returned, NewCall, Idle
  <1>. HIDE DEF r
  <1>4. Sober
    BY UnwrittenSober, WritesSober
  <1>5. ASSUME Unreserve(c) \/ reserved' = reserved PROVE \A n \in Missions : StayReserved(n)
    BY <1>2, <1>3, <1>5 DEF Unreserve, StayReserved, CInv, ShapeInv
  <1>6. ASSUME missions' = missions, Unreserve(c) \/ reserved' = reserved PROVE FInv'
    <2>1. \A n \in Missions : MemMove(c, n)
      BY <1>1, <1>2, <1>4, <1>5, <1>6, StillMoves DEF Sober
    <2>2. Lasts
      BY <1>6 DEF Lasts
    <2>. QED
      BY <1>2, <1>4, <2>1, <2>2, LeaveStep
  <1>7. ASSUME Wrote(m, ev, Held(m)), Unreserve(c) PROVE FInv'
    <2>1. SameWork(missions[m], Held(m))
      BY <1>1, HeldWork
    <2>2. \A n \in Missions : MemMove(c, n)
      BY <1>1, <1>2, <1>4, <1>5, <1>7, <2>1, WroteMoves DEF Sober
    <2>3. Lasts
      BY <1>7, <2>1, WroteMissions DEF Lasts, SameWork
    <2>. QED
      BY <1>2, <1>4, <2>2, <2>3, LeaveStep
  <1>8. ASSUME Wrote(m, ev, ms), reserved' = [reserved EXCEPT ![m] = {}], Counts(missions[m], ms),
               ms.unsettled = missions[m].unsettled, missions[m].state = "AwaitingConsent"
        PROVE  FInv'
    <2>1. Follows(m)
      BY <1>8, IdleFollows DEF Terminal, MayWait
    <2>2. MemMove(c, m)
      BY <1>1, <1>8, <2>1, WroteMissions DEF MemMove, Counted
    <2>3. \A n \in Missions \ {m} : StayReserved(n)
      BY <1>8 DEF StayReserved, CInv, ShapeInv
    <2>4. \A n \in Missions : MemMove(c, n)
      BY <1>1, <1>2, <1>4, <1>8, <2>2, <2>3, WroteMoves DEF Sober
    <2>5. Lasts
      BY <1>1, <1>8, WroteMissions DEF Lasts, SameWork, Terminal
    <2>. QED
      BY <1>2, <1>4, <2>4, <2>5, LeaveStep
  <1>. QED
    BY <1>6, <1>7, <1>8, BrokeSame DEF Unwritten

LEMMA TakeAnswerF ==
  ASSUME CInv, JInv, FInv, NEW c \in AllCalls, TakeAnswer(c)
  PROVE  FInv'
  <1>0. call[c].pc = "asking" /\ Become(c, Returned(call[c])) /\ busy' = busy
    BY DEF TakeAnswer, At, Return
  <1>1. PICK m, refused, y, n :
          /\ m = call[c].m /\ refused = Rec("ConsentRefused")
          /\ y = OfHash("Consent", call[c].hash) /\ n = OfHash("Deny", missions[m].hash)
    OBVIOUS
  <1>2. m \in Missions
    BY <1>0, <1>1 DEF CInv, AskInv, AskOK
  <1>. DEFINE agreed == [Apply(Held(m), y) EXCEPT !.consent = y.hash]
              denied == Apply(Held(m), n)
  <1>3. /\ refused.kind # "ApprovalClosed" /\ Transitioned(y).kind # "ApprovalClosed"
        /\ Transitioned(n).kind # "ApprovalClosed"
    BY <1>1, RecordKinds
  <1>4. /\ Counts(missions[m], denied) /\ denied.unsettled = missions[m].unsettled
        /\ Counts(missions[m], agreed) /\ agreed.unsettled = missions[m].unsettled
    <2>. DEFINE a == Apply(Held(m), y)
    <2>1. IsMission(a) /\ a.unsettled = missions[m].unsettled
            /\ a.next_effect = missions[m].next_effect
      BY <1>2, HeldWork, HeldUpdates, AppliedFields
    <2>. HIDE DEF a
    <2>2. [a EXCEPT !.consent = y.hash].unsettled = missions[m].unsettled
            /\ [a EXCEPT !.consent = y.hash].next_effect = missions[m].next_effect
      BY <2>1 DEF IsMission, MissionFields
    <2>. QED
      BY <1>2, <2>2, HeldUpdates DEF Counts, a
  <1>5. \/ Unwritten /\ Unreserve(c)
        \/ (Wrote(m, refused, Held(m)) \/ Broke(m, refused, missions[m])) /\ Unreserve(c)
        \/ \E ev \in {Transitioned(y), Transitioned(n)} :
              Broke(m, ev, missions[m]) /\ reserved' = reserved
        \/ /\ missions[m].state = "AwaitingConsent" /\ reserved' = [reserved EXCEPT ![m] = {}]
           /\ Wrote(m, Transitioned(y), agreed) \/ Wrote(m, Transitioned(n), denied)
    BY <1>1 DEF TakeAnswer, TakeDiscarded, TakeYes, TakeNo, TakeRefusal, RefuseConsent, FiredAs,
                Fired, NotFired, Bump, Requests, ConsentCurrent
  <1>. HIDE DEF agreed, denied
  <1>. QED
    BY <1>0, <1>1, <1>3, <1>4, <1>5, AnswerStep

LEMMA TakeResumeF ==
  ASSUME CInv, JInv, FInv, NEW c \in AllCalls, TakeResume(c)
  PROVE  FInv'
  <1>0. Lasts /\ busy' = busy /\ call[c].pc = "resuming" /\ Become(c, Returned(call[c]))
    BY TakeResumeOrdinary, OrdinaryLasts DEF TakeResume, At, Return
  <1>1. PICK m, ev, ms : /\ m = call[c].m /\ ev = Rec("Resumed")
                         /\ ms = [missions[m] EXCEPT !.held = FALSE, !.held_journaled = FALSE]
    OBVIOUS
  <1>. DEFINE r == Returned(call[c])
  <1>2. CallOK(call[c]) /\ OwnOK(call[c]) /\ call[c].then # "rest" /\ HandNow
    BY <1>0, Ready DEF CInv, CallInv, FInv, OwnInv, OwnOK
  <1>3. call' = [call EXCEPT ![c] = r] /\ Leaves(call[c], r) /\ Handoff(c, r)
    BY <1>0, <1>2, EndRecords, NoHandoff DEF Become
  <1>4. ev.kind # "ApprovalClosed"
    BY <1>1, RecordKinds
  <1>5. m \in Missions => /\ ms.state = missions[m].state /\ ms.held = FALSE
                          /\ ms.unsettled = missions[m].unsettled
                          /\ ms.next_effect = missions[m].next_effect
    BY <1>1 DEF CInv, MemInv, MissionOK, IsMission, MissionFields
  <1>6. \/ Unwritten /\ reserved' = reserved
        \/ /\ missions[m].held /\ reserved' = [reserved EXCEPT ![m] = {}]
           /\ Unwritten \/ Wrote(m, ev, ms) \/ Broke(m, ev, missions[m])
    BY <1>1 DEF TakeResume, ResumeCurrent, ConsumeResume, ResumeYes, ResumeNo, Unwritten, Requests
  <1>. HIDE DEF r
  <1>7. Sober
    BY <1>4, <1>6, UnwrittenSober, WritesSober
  <1>8. port'.ended = port.ended
    BY <1>2, <1>7, PortKeeps DEF Sober
  <1>9. \A n \in Missions \ {m} : StayReserved(n)
    BY <1>6 DEF StayReserved, CInv, ShapeInv
  <1>10. ASSUME NEW n \in Missions PROVE MemMove(c, n)
    <2>1. CASE n # m \/ (Unwritten /\ reserved' = reserved)
      <3>1. StayReserved(n)
        BY <1>9, <2>1 DEF StayReserved
      <3>2. SameWork(missions[n], missions'[n])
        BY <1>6, <2>1, WroteMissions, BrokeSame DEF Unwritten, SameWork
      <3>. QED
        BY <1>0, <1>3, <1>8, <3>1, <3>2, SameMove
    <2>2. CASE n = m /\ missions[m].held
      <3>1. missions'[n] = missions[n] \/ missions'[n] = ms
        BY <1>6, <2>2, WroteMissions, BrokeSame DEF Unwritten
      <3>2. Follows(n)
        BY <1>0, <1>3, <1>5, <1>8, <2>2, <3>1, SameFollows
      <3>. QED
        BY <1>5, <2>2, <3>1, <3>2 DEF MemMove, Counted, Counts
    <2>. QED
      BY <1>6, <2>1, <2>2
  <1>. QED
    BY <1>0, <1>3, <1>7, <1>10, LeaveStep

\* A step that leaves every mission as it was to those at work.
LEMMA SameStep ==
  ASSUME CInv, JInv, FInv, NEW c \in AllCalls, call[c].pc \notin {"idle", "adopt", "withdraw"},
         Lasts, Sober, reserved' = reserved, busy' = busy,
         \A n \in Missions : SameWork(missions[n], missions'[n]),
         NEW rec, Become(c, rec), SameOwner(call[c], rec), Handoff(c, rec), CarryMove(c, rec),
         rec.pc \notin {"adopt", "finish", "perform", "settle"},
         Works(rec) => Works(call[c]) /\ rec.m = call[c].m, CloseOK(c)'
  PROVE  FInv'
  <1>1. HandNow /\ call' = [call EXCEPT ![c] = rec] /\ call'[c] = rec
    BY Ready DEF Become
  <1>2. port'.ended = port.ended
    BY <1>1, PortKeeps DEF Sober
  <1>3. \A n \in Missions : MemMove(c, n)
    BY <1>1, <1>2, SameMove DEF StayReserved
  <1>4. ASSUME Works(rec) PROVE Workable(c, rec.m)' \/ Over(rec.m)'
    <2>1. Works(call[c]) /\ rec.m = call[c].m /\ rec.m \in Missions
      BY <1>4, Worker
    <2>2. Workable(c, rec.m) \/ Over(rec.m)
      BY <2>1 DEF FInv, WorkInv, WorkOK
    <2>3. missions'[rec.m].state = missions[rec.m].state /\ missions'[rec.m].held = missions[rec.m].held
      BY <2>1 DEF SameWork
    <2>4. Over(rec.m) => Withdrawn(rec.m)'
      BY <1>1, <1>2, WithdrawnKeeps DEF Over
    <2>. QED
      BY <2>2, <2>3, <2>4 DEF Workable, Over
  <1>5. WorkOK(c)'
    BY <1>1, <1>4 DEF WorkOK
  <1>. QED
    BY <1>1, <1>3, <1>5, CallStep

AfterClosePCs == {"idle", "leave", "dispatch", "lane", "phase", "refuse", "end", "failed", "block",
                  "recover_close", "content"}

LEMMA AfterCloseRecords ==
  ASSUME CInv, FInv, NEW c \in AllCalls, call[c].pc \in {"settled", "close"}, NEW closed,
         AfterClose(c, closed)
  PROVE  \E r : /\ Become(c, r) /\ SameOwner(call[c], r) /\ r.pc \in AfterClosePCs
                /\ Works(r) => Works(call[c]) /\ r.m = call[c].m
  <1>. DEFINE rec == [call[c] EXCEPT !.effect = NoEffect]
              failed == closed = "error" \/ ~rec.ok
  <1>1. CallOK(call[c]) /\ OwnOK(call[c])
    BY DEF CInv, CallInv, FInv, OwnInv
  <1>2. /\ CallOK(rec) /\ rec.then = call[c].then /\ rec.owns = call[c].owns /\ rec.m = call[c].m
        /\ rec.pc = call[c].pc
    BY <1>1 DEF CallOK, CallFields
  <1>. HIDE DEF rec
  <1>3. OwnOK(rec)
    BY <1>1, <1>2 DEF OwnOK, Works
  <1>4. ASSUME NEW r, Become(c, r), OwnOK(r), r.owns => call[c].owns /\ r.m = call[c].m, ~Works(r),
               r.pc \in AfterClosePCs
        PROVE  \E s : /\ Become(c, s) /\ SameOwner(call[c], s) /\ s.pc \in AfterClosePCs
                      /\ Works(s) => Works(call[c]) /\ s.m = call[c].m
    BY <1>4 DEF SameOwner
  <1>5. CASE rec.then = "leave"
    <2>. DEFINE r == Returned(rec)
    <2>1. Become(c, r)
      BY <1>5 DEF AfterClose, rec
    <2>2. Leaves(rec, r)
      BY <1>2, <1>3, <1>5, EndRecords
    <2>3. r.pc \in AfterClosePCs
      BY DEF Returned, NewCall, Idle, AfterClosePCs
    <2>. HIDE DEF r
    <2>. QED
      BY <1>2, <1>4, <2>1, <2>2, <2>3 DEF Leaves, SameOwner, Quietly
  <1>6. CASE rec.then = "rest"
    <2>1. PICK next \in CASE closed = "yes" -> Checked(rec)
                          [] closed = "no" -> {Ending(rec, "end")}
                          [] OTHER -> {Returned(rec)} :
             Become(c, [next EXCEPT !.then = "leave"])
      BY <1>6 DEF AfterClose, rec
    <2>2. /\ CallOK(next) /\ next.owns \in BOOLEAN
          /\ next.pc \in AfterClosePCs /\ (next.owns => rec.owns /\ next.m = rec.m)
          /\ next.pc \in WorkPCs \cup {"leave"} => next.owns
      <3>1. rec.owns = TRUE
        BY <1>3, <1>6 DEF OwnOK, Works
      <3>2. CASE next \in Checked(rec)
        <4>1. next = Onward(rec) \/ next = [rec EXCEPT !.pc = "refuse"]
          BY <3>2 DEF Checked
        <4>2. \E pc \in {"dispatch", "lane", "phase", "refuse"} : next = [rec EXCEPT !.pc = pc]
          BY <4>1 DEF Onward
        <4>3. CallOK(next) /\ next.owns = rec.owns /\ next.m = rec.m
                /\ next.pc \in {"dispatch", "lane", "phase", "refuse"}
          BY <1>2, <4>2 DEF CallOK, CallFields
        <4>. QED
          BY <3>1, <4>3 DEF AfterClosePCs
      <3>3. CASE next = Ending(rec, "end")
        <4>1. CallOK(next) /\ next.pc = "end"
          BY <1>2, <3>3, CallsEnd
        <4>2. next.owns = rec.owns /\ next.m = rec.m
          BY <3>3 DEF Ending, NewCall, Idle
        <4>. QED
          BY <3>1, <4>1, <4>2 DEF AfterClosePCs
      <3>4. CASE next = Returned(rec)
        <4>1. CallOK(next)
          BY <1>2, <3>4, CallsEnd DEF Calm
        <4>2. next.pc = "leave" /\ next.owns = TRUE /\ next.m = rec.m
          BY <3>1, <3>4 DEF Returned, NewCall, Idle
        <4>. QED
          BY <3>1, <4>1, <4>2 DEF AfterClosePCs
      <3>. QED
        BY <2>1, <3>2, <3>3, <3>4
    <2>. DEFINE r == [next EXCEPT !.then = "leave"]
    <2>3. r.pc = next.pc /\ r.owns = next.owns /\ r.m = next.m /\ r.then = "leave"
      BY <2>2 DEF CallOK, CallFields
    <2>4. Become(c, r)
      BY <2>1
    <2>. HIDE DEF r
    <2>5. Works(call[c])
      BY <1>2, <1>6 DEF Works
    <2>6. SameOwner(call[c], r)
      BY <1>2, <2>2, <2>3 DEF SameOwner, OwnOK, Works
    <2>7. Works(r) => r.m = call[c].m
      BY <1>2, <2>2, <2>3 DEF Works
    <2>. QED
      BY <2>2, <2>3, <2>4, <2>5, <2>6, <2>7
  <1>7. CASE rec.then \in {"block", "recover_close", "content"}
    <2>1. PICK pc \in {"failed", "block", "recover_close", "content"} : Become(c, NewCall("open", pc, 0))
      BY <1>7 DEF AfterClose, rec
    <2>. DEFINE r == NewCall("open", pc, 0)
    <2>2. r.pc = pc /\ r.owns = FALSE /\ r.then = "leave"
      BY DEF NewCall, Idle
    <2>3. Become(c, r)
      BY <2>1
    <2>. HIDE DEF r
    <2>4. OwnOK(r) /\ ~Works(r) /\ r.pc \in AfterClosePCs
      BY <2>2 DEF OwnOK, Works, WorkPCs, AfterClosePCs
    <2>. QED
      BY <1>4, <2>2, <2>3, <2>4
  <1>. QED
    BY <1>2, <1>5, <1>6, <1>7 DEF CallOK

LEMMA AfterCloseF ==
  ASSUME CInv, JInv, FInv, NEW c \in AllCalls, call[c].pc \in {"settled", "close"},
         Lasts, Sober, reserved' = reserved, busy' = busy,
         \A n \in Missions : SameWork(missions[n], missions'[n]), NEW closed, AfterClose(c, closed)
  PROVE  FInv'
  <1>1. PICK r : /\ Become(c, r) /\ SameOwner(call[c], r) /\ r.pc \in AfterClosePCs
                 /\ Works(r) => Works(call[c]) /\ r.m = call[c].m
    BY AfterCloseRecords
  <1>2. CarryMove(c, r) /\ r.pc \notin {"adopt", "finish", "perform", "settle", "close"}
    BY <1>1 DEF CarryMove, Carries, AfterClosePCs
  <1>3. Handoff(c, r)
    BY NoHandoff
  <1>4. CloseOK(c)'
    BY <1>1, <1>2 DEF CloseOK, Become, CInv, ShapeInv
  <1>. QED
    BY <1>1, <1>2, <1>3, <1>4, SameStep

\* The action that a mission has open was sent before, and none is in flight.
LEMMA OpenNumbers ==
  ASSUME CInv, JInv, proc # "down", ~log.refused, ~inner.broken, NEW m \in Missions,
         missions[m].open_action # NoEffect
  PROVE  LET e == missions[m].open_action
         IN  e \in Nat /\ e # missions[m].unsettled /\ e < missions[m].next_effect
  BY DEF CInv, LogInv, LogSound, Sound, Numbered, Awaited, JInv, AgreeInv, Agreement, SameMission,
         NoEffect

LEMMA CloseAskF ==
  ASSUME CInv, JInv, FInv, NEW c \in AllCalls, CloseAsk(c)
  PROVE  FInv'
  <1>0. /\ Lasts /\ busy' = busy /\ reserved' = reserved /\ Sober /\ missions' = missions
        /\ call[c].pc = "settled" /\ Unwritten
    BY CloseAskOrdinary, OrdinaryLasts, UnwrittenSober DEF CloseAsk, At, Untouched, Requests
  <1>1. \A n \in Missions : SameWork(missions[n], missions'[n])
    BY <1>0 DEF SameWork
  <1>2. ASSUME NEW closed, AfterClose(c, closed) PROVE FInv'
    BY <1>0, <1>1, <1>2, AfterCloseF
  <1>3. PICK m, e : m = call[c].m /\ e = missions[m].open_action
    OBVIOUS
  <1>4. ASSUME e # NoEffect, SettledAtPort(port, action, m, e),
               Become(c, [call[c] EXCEPT !.pc = "close", !.effect = e])
        PROVE  FInv'
    <2>. DEFINE r == [call[c] EXCEPT !.pc = "close", !.effect = e]
    <2>1. CallOK(call[c]) /\ OwnOK(call[c]) /\ proc # "down"
      BY <1>0, Ready DEF CInv, CallInv, FInv, OwnInv
    <2>2. /\ r.pc = "close" /\ r.effect = e /\ r.m = m /\ r.owns = call[c].owns
          /\ r.then = call[c].then
      BY <1>3, <2>1 DEF CallOK, CallFields
    <2>3. Become(c, r)
      BY <1>4
    <2>. HIDE DEF r
    <2>4. call'[c] = r
      BY <2>3 DEF Become, CInv, ShapeInv
    <2>5. SameOwner(call[c], r) /\ Works(r) = Works(call[c])
      BY <1>0, <1>3, <2>1, <2>2 DEF SameOwner, OwnOK, Works, WorkPCs
    <2>6. Handoff(c, r) /\ CarryMove(c, r)
      BY <1>0, <2>2, NoHandoff DEF CarryMove, Carries
    <2>7. ASSUME ~log.refused, ~inner.broken, m \in Missions
          PROVE  /\ e \in Nat /\ e # missions[m].unsettled /\ e < missions[m].next_effect
                 /\ e \in Effects => action[m][e] \notin OpenAtBroker
      BY <1>3, <1>4, <2>1, <2>7, OpenNumbers DEF SettledAtPort
    <2>8. CloseOK(c)'
      BY <1>0, <2>2, <2>4, <2>7 DEF CloseOK, Unwritten, journal, outside
    <2>. QED
      BY <1>0, <1>1, <1>3, <2>2, <2>3, <2>5, <2>6, <2>8, SameStep
  <1>. QED
    BY <1>2, <1>3, <1>4 DEF CloseAsk

LEMMA CloseTakeF ==
  ASSUME CInv, JInv, FInv, NEW c \in AllCalls, CloseTake(c)
  PROVE  FInv'
  <1>0. /\ Lasts /\ busy' = busy /\ reserved' = reserved /\ call[c].pc = "close"
        /\ \E closed : AfterClose(c, closed)
    BY CloseTakeOrdinary, OrdinaryLasts DEF CloseTake, At, Requests
  <1>1. PICK m, ev, ms : /\ m = call[c].m /\ ev = EffectRec("ApprovalClosed", call[c].effect)
                         /\ ms = [Held(m) EXCEPT !.open_action = NoEffect]
    OBVIOUS
  <1>2. Unwritten \/ Wrote(m, ev, ms) \/ Broke(m, ev, missions[m])
    BY <1>1 DEF CloseTake
  <1>3. CASE Unwritten
    <2>1. Sober /\ \A n \in Missions : SameWork(missions[n], missions'[n])
      BY <1>3, UnwrittenSober DEF SameWork
    <2>. QED
      BY <1>0, <2>1, AfterCloseF
  <1>4. ASSUME Wrote(m, ev, ms) \/ Broke(m, ev, missions[m]) PROVE FInv'
    <2>1. ~inner.broken
      BY <1>4 DEF Wrote, WroteLog, Broke, BrokeLog, Usable
    <2>2. ~log.refused /\ m \in Missions =>
             \A e \in Effects : ev.effect = e => action[m][e] # "prepared"
      BY <1>0, <1>1, <2>1, RecordKinds DEF FInv, CloseInv, CloseOK, OpenAtBroker
    <2>3. Sober
      BY <1>4, <2>2, ClosesSober
    <2>4. m \in Missions => SameWork(missions[m], ms)
      BY <1>1, HeldUpdates
    <2>5. \A n \in Missions : SameWork(missions[n], missions'[n])
      BY <1>4, <2>4, WroteMissions, BrokeSame DEF SameWork
    <2>. QED
      BY <1>0, <2>3, <2>5, AfterCloseF
  <1>. QED
    BY <1>2, <1>3, <1>4

LEMMA LeaveF ==
  ASSUME CInv, JInv, FInv, NEW c \in AllCalls, Leave(c)
  PROVE  FInv'
  <1>0. /\ call[c].pc = "leave" /\ call' = [call EXCEPT ![c] = Idle] /\ Sober
        /\ busy' = [busy EXCEPT ![call[c].m] = FALSE] /\ missions' = missions
        /\ Unreserve(c)
    BY UnwrittenSober DEF Leave, At, Become
  <1>1. call[c].owns /\ call[c].m \in Missions /\ HandNow /\ proc # "down"
          /\ call'[Opener].pc # "adopt"
    <2>1. Idle.pc # "adopt"
      BY DEF Idle
    <2>. QED
      BY <1>0, <2>1, Ready DEF FInv, OwnInv, OwnOK
  <1>2. Lasts
    BY <1>0 DEF Lasts
  <1>3. Idle.owns = FALSE /\ Idle.pc = "idle" /\ Idle.then = "leave"
    BY DEF Idle
  <1>. HIDE DEF Idle
  <1>4. call'[c] = Idle
    BY <1>0 DEF CInv, ShapeInv
  <1>5. \A n \in Missions : StayReserved(n)
    BY <1>0, <1>3, <1>4 DEF Unreserve, StayReserved, CInv, ShapeInv
  <1>6. \A n \in Missions : MemMove(c, n)
    BY <1>0, <1>1, <1>5, StillMoves DEF Sober
  <1>7. OwnMove(c, Idle)
    BY <1>0, <1>1, <1>3 DEF OwnMove, OwnOK, Works, WorkPCs
  <1>8. (\E n \in Missions : busy'[n]) => ~inner.closed
    BY <1>0, <1>1 DEF FInv, OwnInv
  <1>9. Handoff(c, Idle) /\ CarryMove(c, Idle)
    BY <1>0, <1>3, NoHandoff DEF CarryMove, Carries
  <1>10. WorkOK(c)' /\ CloseOK(c)'
    BY <1>3, <1>4 DEF WorkOK, CloseOK, Works, WorkPCs
  <1>. QED
    BY <1>0, <1>1, <1>2, <1>6, <1>7, <1>8, <1>9, <1>10, FStep DEF Sober

(***************************************************************************)
(* The steps of a call at the port.                                         *)
(***************************************************************************)
\* The broker cancels the run of one mission.
LEMMA CancelStep ==
  ASSUME PortInv, NEW S, action' = CancelRuns(port, action, S)
  PROVE  /\ action' = [n \in Missions |-> action'[n]]
         /\ \A n \in Missions : action'[n] = [e \in Effects |-> action'[n][e]]
         /\ \A n \in Missions, e \in Effects :
               /\ action'[n][e] = "prepared" => action[n][e] = "prepared"
               /\ action'[n][e] \in OpenAtBroker => action[n][e] \in OpenAtBroker
               /\ n \in S /\ e \in port.on_run[n] => action'[n][e] # "prepared"
  <1>1. PICK act : act = action' /\ act = CancelRuns(port, action, S)
    OBVIOUS
  <1>2. /\ act = [m \in Missions |-> act[m]]
        /\ \A m \in Missions : /\ act[m] = [e \in Effects |-> act[m][e]]
                               /\ \A e \in Effects :
                                    /\ act[m][e] = "prepared" => action[m][e] = "prepared"
                                    /\ act[m][e] \in OpenAtBroker => action[m][e] \in OpenAtBroker
                                    /\ m \in S /\ e \in port.on_run[m] => act[m][e] # "prepared"
    BY <1>1, CancelFields
  <1>. QED
    BY <1>1, <1>2

\* A call has its turn at the port, and memory and the journal stay.
LEMMA PortStep ==
  ASSUME CInv, JInv, FInv, NEW c \in AllCalls, call[c].pc \notin {"idle", "adopt"},
         NEW rec, Become(c, rec), SameOwner(call[c], rec), rec.pc \notin {"adopt", "close"},
         UNCHANGED <<missions, inner, reserved, busy, log>>,
         port.ended \subseteq port'.ended, call[c].pc = "withdraw" => call[c].m \in port'.ended,
         WorkOK(c)',
         \A n \in Missions, e \in Effects :
            /\ action'[n][e] \in OpenAtBroker
            => action[n][e] \in OpenAtBroker \/ e = missions[n].unsettled
  PROVE  OwnInv' /\ WorkInv' /\ AdoptInv' /\ CloseInv' /\ HandNow
  <1>1. /\ HandNow /\ proc # "down" /\ call' = [call EXCEPT ![c] = rec]
        /\ call'[Opener].pc # "adopt" /\ call'[c] = rec
        /\ \A d \in AllCalls \ {c} : call'[d] = call[d]
    BY Ready DEF Become, CInv, ShapeInv
  <1>2. OwnInv'
    <2>1. OwnMove(c, rec) /\ ((\E m \in Missions : busy'[m]) => ~inner.closed)
      BY DEF SameOwner, OwnMove, FInv, OwnInv
    <2>. QED
      BY <1>1, <2>1, OwnKeeps DEF FInv
  <1>3. ASSUME NEW n \in Missions PROVE MemMove(c, n)
    <2>1. Withdrawn(n) => Withdrawn(n)'
      BY <1>1 DEF Withdrawn
    <2>2. Follows(n)
      BY <2>1 DEF Follows, Workable, Over
    <2>. QED
      BY <2>2 DEF MemMove, Counted, Counts
  <1>4. WorkInv'
    <2>1. Lasts
      BY DEF Lasts
    <2>. QED
      BY <1>1, <1>3, <2>1, WorkKeeps DEF FInv
  <1>5. CloseInv'
    <2>. SUFFICES ASSUME NEW d \in AllCalls PROVE CloseOK(d)'
      BY DEF CloseInv
    <2>1. CASE d = c
      BY <1>1, <2>1 DEF CloseOK
    <2>2. CASE d # c
      <3>1. call'[d] = call[d] /\ CloseOK(d)
        BY <1>1, <2>2 DEF FInv, CloseInv
      <3>. QED
        BY <3>1 DEF CloseOK
    <2>. QED
      BY <2>1, <2>2
  <1>6. AdoptInv'
    BY <1>1 DEF AdoptInv
  <1>. QED
    BY <1>1, <1>2, <1>4, <1>5, <1>6

LEMMA EndedStep ==
  ASSUME CInv, JInv, FInv, NEW c \in AllCalls, call[c].pc \in {"withdraw", "finish"},
         NEW rec, Become(c, rec), Leaves(call[c], rec), NEW m, m = call[c].m,
         UNCHANGED <<missions, inner, reserved, busy, log>>, port' = EndMission(port, m),
         action' = action \/ action' = CancelRuns(port, action, {m}),
         \/ m \in Missions => \A e \in Effects : e \in port.on_run[m] => action'[m][e] # "prepared"
         \/ call[c].pc = "finish" /\ \A d \in AllCalls : call[d].m = m => ~Carries(call[d])
  PROVE  FInv'
  <1>1. /\ port' = [f \in {"fenced", "open", "on_run", "waiting", "ended", "handed"} |-> port'[f]]
        /\ port'.fenced = port.fenced /\ port'.open = port.open /\ port'.on_run = port.on_run
        /\ port'.waiting = port.waiting /\ port'.ended = port.ended \cup {m}
        /\ port'.handed = port.handed
    BY DEF EndMission, FInv, PortInv
  <1>2. /\ action' = [n \in Missions |-> action'[n]]
        /\ \A n \in Missions : /\ action'[n] = [e \in Effects |-> action'[n][e]]
                               /\ \A e \in Effects :
                                    /\ action'[n][e] = "prepared" => action[n][e] = "prepared"
                                    /\ action'[n][e] \in OpenAtBroker => action[n][e] \in OpenAtBroker
    <2>1. CASE action' = action
      BY <2>1 DEF FInv, PortInv
    <2>2. CASE action' = CancelRuns(port, action, {m})
      BY <2>2, CancelStep DEF FInv
    <2>. QED
      BY <2>1, <2>2
  <1>3. SameOwner(call[c], rec) /\ ~Works(rec) /\ rec.pc \notin {"close", "finish", "adopt"}
    BY DEF Leaves, Quietly
  <1>4. call'[c] = rec /\ \A d \in AllCalls \ {c} : call'[d] = call[d]
    BY DEF Become, CInv, ShapeInv
  <1>5. WorkOK(c)'
    BY <1>3, <1>4 DEF WorkOK, Works, WorkPCs
  <1>6. OwnInv' /\ WorkInv' /\ AdoptInv' /\ CloseInv' /\ HandNow
    BY <1>1, <1>2, <1>3, <1>5, PortStep
  <1>7. PortInv' /\ FenceInv' /\ HandInv'
    <2>1. PortInv'
      BY <1>1, <1>2 DEF FInv, PortInv
    <2>2. FenceInv'
      BY <1>1, <1>2 DEF FInv, FenceInv
    <2>3. HandInv'
      BY <1>1, <1>2, <1>6 DEF FInv, HandInv
    <2>. QED
      BY <2>1, <2>2, <2>3
  <1>8. CarryInv'
    <2>. SUFFICES ASSUME NEW d \in AllCalls, Carries(call'[d]) PROVE CarryOK(d)'
      BY DEF CarryInv, CarryOK, Carries
    <2>1. d # c
      BY <1>3, <1>4 DEF Carries, Works, WorkPCs
    <2>2. call'[d] = call[d] /\ CarryOK(d) /\ Carries(call[d])
      BY <1>4, <2>1 DEF FInv, CarryInv
    <2>3. call[d].m \in Missions
      BY <2>2 DEF FInv, OwnInv, OwnOK, Carries, Works, WorkPCs
    <2>. QED
      BY <1>1, <1>2, <2>2, <2>3 DEF CarryOK
  <1>9. KnownInv'
    <2>. SUFFICES ASSUME ~log'.refused, NEW n \in Missions, NEW e \in Effects,
                         action'[n][e] = "prepared"
                  PROVE  \/ log'.mission[n].open_action = e
                         \/ /\ e \in port'.on_run[n]
                            /\ \E d \in AllCalls : call'[d].m = n /\ KnownBy(call'[d], e)
      BY DEF KnownInv, Known, KnownToCall, KnownBy, Carries, Withdraws
    <2>1. Known(n, e)
      BY <1>2 DEF FInv, KnownInv
    <2>2. ASSUME NEW d \in AllCalls, call[d].m = n, KnownBy(call[d], e), e \in port.on_run[n]
          PROVE  d # c
      BY <2>2 DEF KnownBy, Withdraws, Carries
    <2>. QED
      BY <1>1, <1>4, <2>1, <2>2 DEF Known, KnownToCall
  <1>. QED
    BY <1>6, <1>7, <1>8, <1>9 DEF FInv

LEMMA WithdrawF ==
  ASSUME CInv, JInv, FInv, NEW c \in AllCalls, Withdraw(c)
  PROVE  FInv'
  <1>1. PICK m, ok, rec : /\ m = call[c].m /\ ok = (call[c].ok /\ WithdrawOk(port, action, m))
                          /\ rec = [call[c] EXCEPT !.pc = "settled", !.ok = ok]
    OBVIOUS
  <1>2. /\ call[c].pc = "withdraw" /\ Become(c, rec) /\ port' = EndMission(port, m)
        /\ action' = IF port.fenced THEN action ELSE CancelRuns(port, action, {m})
        /\ UNCHANGED <<missions, inner, reserved, busy, log>>
    BY <1>1 DEF Withdraw, At, WithdrawActions, Requests, journal
  <1>3. CallOK(call[c]) /\ OwnOK(call[c])
    BY DEF CInv, CallInv, FInv, OwnInv
  <1>4. rec.pc = "settled" /\ rec.then = call[c].then /\ rec.owns = call[c].owns /\ rec.m = call[c].m
    BY <1>1, <1>3 DEF CallOK, CallFields
  <1>5. Leaves(call[c], rec)
    BY <1>2, <1>3, <1>4 DEF Leaves, SameOwner, Quietly, OwnOK, Works, WorkPCs
  <1>6. ASSUME m \in Missions, NEW e \in Effects, e \in port.on_run[m] PROVE action'[m][e] # "prepared"
    <2>1. CASE port.fenced
      BY <1>2, <1>6, <2>1 DEF FInv, FenceInv
    <2>2. CASE ~port.fenced
      <3>1. action' = CancelRuns(port, action, {m})
        BY <1>2, <2>2
      <3>. QED
        BY <1>6, <3>1, CancelStep DEF FInv
    <2>. QED
      BY <2>1, <2>2
  <1>7. action' = action \/ action' = CancelRuns(port, action, {m})
    BY <1>2
  <1>. QED
    BY <1>1, <1>2, <1>5, <1>6, <1>7, EndedStep

LEMMA FinishF ==
  ASSUME CInv, JInv, FInv, NEW c \in AllCalls, Finish(c)
  PROVE  FInv'
  <1>1. PICK m : m = call[c].m
    OBVIOUS
  <1>2. /\ call[c].pc = "finish" /\ Become(c, Returned(call[c])) /\ port' = EndMission(port, m)
        /\ action' = action /\ UNCHANGED <<missions, inner, reserved, busy, log>>
    BY <1>1 DEF Finish, At, Return, memory, journal
  <1>3. CallOK(call[c]) /\ OwnOK(call[c]) /\ call[c].then # "rest"
    BY <1>2 DEF CInv, CallInv, FInv, OwnInv, OwnOK
  <1>4. Leaves(call[c], Returned(call[c]))
    BY <1>3, EndRecords
  <1>5. missions[m].state = "Done"
    BY <1>1, <1>2 DEF FInv, WorkInv, WorkOK
  <1>6. ASSUME NEW d \in AllCalls, call[d].m = m PROVE ~Carries(call[d])
    <2>1. Works(call[d]) => Workable(d, m) \/ Over(m)
      BY <1>6 DEF FInv, WorkInv, WorkOK
    <2>. QED
      BY <1>5, <2>1 DEF Carries, Works, WorkPCs, Workable, Over, MayWait
  <1>. QED
    BY <1>1, <1>2, <1>4, <1>6, EndedStep

\* A call at work, alone of its mission, comes back from the port.
LEMMA TurnStep ==
  ASSUME CInv, JInv, FInv, NEW c \in AllCalls, call[c].pc \in {"perform", "query"}, NEW rec,
         Become(c, rec), GoesOn(call[c], rec), rec.then = call[c].then,
         NEW m, m = call[c].m, NEW e, e = rec.effect,
         rec.pc \in {"settle", "resolve"},
         UNCHANGED <<missions, inner, reserved, busy, log>>,
         rec.pc = "settle" => e = missions[m].unsettled,
         port' = [f \in {"fenced", "open", "on_run", "waiting", "ended", "handed"} |-> port'[f]],
         port'.on_run = [n \in Missions |-> port'.on_run[n]],
         port'.waiting = [n \in Missions |-> port'.waiting[n]],
         port'.fenced = port.fenced, port'.ended = port.ended, port'.handed = port.handed,
         port.open \subseteq port'.open,
         \A n \in Missions \ {m} : port'.on_run[n] = port.on_run[n]
                                     /\ port'.waiting[n] = port.waiting[n],
         action' = [n \in Missions |-> action'[n]],
         \A n \in Missions : action'[n] = [x \in Effects |-> action'[n][x]],
         \A n \in Missions, x \in Effects :
            action'[n][x] # action[n][x] => n = m /\ x = e /\ rec.pc = "settle",
         \/ /\ port'.on_run = port.on_run /\ ~Carries(rec)
            /\ \A n \in Missions, x \in Effects :
                  action'[n][x] = "prepared" => action[n][x] = "prepared"
         \/ /\ ~port.fenced /\ m \in port'.open /\ m \notin port.ended /\ Carries(rec)
            /\ port'.on_run[m] = port.on_run[m] \cup {e} /\ port'.waiting[m] = e
  PROVE  FInv'
  <1>1. Works(call[c]) /\ call[c].pc \notin {"idle", "adopt", "withdraw", "settle", "pend", "end", "endfire"}
    BY DEF Works, WorkPCs
  <1>2. m \in Missions /\ call[c].owns = TRUE /\ OwnOK(call[c]) /\ call[c].then # "rest" /\ WorkOK(c)
    BY <1>1, Worker DEF WorkPCs
  <1>3. call'[c] = rec /\ (\A d \in AllCalls \ {c} : call'[d] = call[d])
    BY DEF Become, CInv, ShapeInv
  <1>4. /\ SameOwner(call[c], rec) /\ Works(rec) /\ rec.m = m
        /\ rec.pc \notin {"adopt", "close", "finish", "perform"}
    BY <1>2 DEF SameOwner, OwnOK, Works, WorkPCs, GoesOn
  <1>5. WorkOK(c)'
    <2>1. Withdrawn(m) => Withdrawn(m)'
      BY <1>1, <1>3 DEF Withdrawn
    <2>2. Workable(c, m) \/ Over(m) => Workable(c, m)' \/ Over(m)'
      BY <2>1 DEF Workable, Over
    <2>3. Workable(c, m)' \/ Over(m)'
      BY <1>1, <1>2, <2>2 DEF WorkOK
    <2>. QED
      BY <1>3, <1>4, <2>3 DEF WorkOK
  <1>6. OwnInv' /\ WorkInv' /\ AdoptInv' /\ CloseInv' /\ HandNow
    <2>1. \A n \in Missions, x \in Effects :
             action'[n][x] \in OpenAtBroker => action[n][x] \in OpenAtBroker \/ x = missions[n].unsettled
      OBVIOUS
    <2>. QED
      BY <1>1, <1>4, <1>5, <2>1, PortStep
  <1>7. \A n \in Missions : port.on_run[n] \subseteq port'.on_run[n]
    BY <1>2
  <1>8. ASSUME NEW n \in Missions, NEW x \in Effects, action'[n][x] = "prepared"
        PROVE  \/ action[n][x] = "prepared"
               \/ n = m /\ x = e /\ Carries(rec) /\ x \in port'.on_run[n] /\ ~port.fenced
    BY <1>8
  <1>9. PortInv' /\ FenceInv' /\ HandInv'
    <2>1. PortInv'
      <3>1. \A n \in Missions : port'.on_run[n] # {} => n \in port'.open
        BY <1>2 DEF FInv, PortInv
      <3>. QED
        BY <3>1 DEF FInv, PortInv
    <2>2. FenceInv'
      BY <1>8 DEF FInv, FenceInv
    <2>3. HandInv'
      BY <1>6, <1>7, <1>8 DEF FInv, HandInv
    <2>. QED
      BY <2>1, <2>2, <2>3
  <1>10. CarryInv'
    <2>. SUFFICES ASSUME NEW d \in AllCalls, Carries(call'[d]) PROVE CarryOK(d)'
      BY DEF CarryInv, CarryOK, Carries
    <2>1. CASE d = c
      BY <1>2, <1>3, <1>4, <2>1 DEF CarryOK
    <2>2. CASE d # c
      <3>1. call'[d] = call[d] /\ CarryOK(d) /\ Carries(call[d])
        BY <1>3, <2>2 DEF FInv, CarryInv
      <3>2. call[d].m \in Missions /\ call[d].owns
        BY <3>1 DEF FInv, OwnInv, OwnOK, Carries, Works, WorkPCs
      <3>3. call[d].m # m
        BY <1>2, <2>2, <3>2 DEF FInv, OwnInv
      <3>. QED
        BY <3>1, <3>2, <3>3 DEF CarryOK
    <2>. QED
      BY <2>1, <2>2
  <1>11. KnownInv'
    <2>. SUFFICES ASSUME ~log'.refused, NEW n \in Missions, NEW x \in Effects,
                         action'[n][x] = "prepared"
                  PROVE  \/ log'.mission[n].open_action = x
                         \/ /\ x \in port'.on_run[n]
                            /\ \E d \in AllCalls : call'[d].m = n /\ KnownBy(call'[d], x)
      BY DEF KnownInv, Known, KnownToCall, KnownBy, Carries, Withdraws
    <2>1. CASE action[n][x] = "prepared"
      <3>1. Known(n, x)
        BY <2>1 DEF FInv, KnownInv
      <3>2. ASSUME NEW d \in AllCalls, call[d].m = n, KnownBy(call[d], x) PROVE d # c
        BY <1>1, <3>2 DEF KnownBy, Withdraws, Carries
      <3>. QED
        BY <1>3, <1>7, <3>1, <3>2 DEF Known, KnownToCall
    <2>2. CASE action[n][x] # "prepared"
      BY <1>3, <1>4, <1>8, <2>2 DEF KnownBy
    <2>. QED
      BY <2>1, <2>2
  <1>. QED
    BY <1>6, <1>9, <1>10, <1>11 DEF FInv

LEMMA PerformF ==
  ASSUME CInv, JInv, FInv, NEW c \in AllCalls, Perform(c)
  PROVE  FInv'
  <1>1. PICK m, e : m = call[c].m /\ e = call[c].effect
    OBVIOUS
  <1>2. PICK s : /\ Become(c, [call[c] EXCEPT !.pc = "settle", !.status = s])
                 /\ \/ /\ s \in {Refused, Done}
                       /\ port' = port \/ port' = Performed(port, m)
                       /\ \/ action' = action
                          \/ \E st \in {"succeeded", "lapsed"} : action' = [action EXCEPT ![m][e] = st]
                    \/ /\ s = Awaiting /\ MayPerform(port, m)
                       /\ port' = PerformedWaiting(port, m, e)
                       /\ action' = [action EXCEPT ![m][e] = "prepared"]
    BY <1>1 DEF Perform, outside
  <1>3. /\ UNCHANGED <<missions, inner, reserved, busy, log>> /\ call[c].pc = "perform"
    BY DEF Perform, At, memory, journal
  <1>4. PICK rec : rec = [call[c] EXCEPT !.pc = "settle", !.status = s]
    OBVIOUS
  <1>5. CallOK(call[c]) /\ m \in Missions /\ missions[m].unsettled = e /\ call[c].then # "rest"
    <2>1. Works(call[c])
      BY <1>3 DEF Works, WorkPCs
    <2>. QED
      BY <1>1, <1>3, <2>1, Worker DEF WorkOK, WorkPCs
  <1>6. /\ GoesOn(call[c], rec) /\ rec.then = call[c].then /\ rec.pc = "settle" /\ rec.effect = e
        /\ rec.status = s
    BY <1>1, <1>4, <1>5 DEF CallOK, CallFields, GoesOn, WorkPCs
  <1>7. ASSUME NEW st, action' = [action EXCEPT ![m][e] = st]
        PROVE  /\ action' = [n \in Missions |-> action'[n]]
               /\ \A n \in Missions : action'[n] = [x \in Effects |-> action'[n][x]]
               /\ \A n \in Missions, x \in Effects :
                     action'[n][x] = IF n = m /\ x = e THEN st ELSE action[n][x]
    BY <1>5, <1>7 DEF FInv, PortInv
  <1>10. /\ Become(c, rec) /\ e = rec.effect /\ rec.pc \in {"settle", "resolve"}
         /\ call[c].pc \in {"perform", "query"} /\ (rec.pc = "settle" => e = missions[m].unsettled)
    BY <1>2, <1>3, <1>4, <1>5, <1>6
  <1>8. CASE /\ s \in {Refused, Done}
             /\ port' = port \/ port' = Performed(port, m)
             /\ \/ action' = action
                \/ \E st \in {"succeeded", "lapsed"} : action' = [action EXCEPT ![m][e] = st]
    <2>1. /\ port' = [f \in {"fenced", "open", "on_run", "waiting", "ended", "handed"} |-> port'[f]]
          /\ port'.on_run = port.on_run /\ port'.waiting = port.waiting
          /\ port'.on_run = [n \in Missions |-> port'.on_run[n]]
          /\ port'.waiting = [n \in Missions |-> port'.waiting[n]]
          /\ port'.fenced = port.fenced /\ port'.ended = port.ended /\ port'.handed = port.handed
          /\ port.open \subseteq port'.open
      BY <1>8 DEF FInv, PortInv, Performed
    <2>2. /\ action' = [n \in Missions |-> action'[n]]
          /\ \A n \in Missions : action'[n] = [x \in Effects |-> action'[n][x]]
          /\ \A n \in Missions, x \in Effects :
                /\ action'[n][x] # action[n][x] => n = m /\ x = e
                /\ action'[n][x] = "prepared" => action[n][x] = "prepared"
      <3>1. CASE action' = action
        BY <3>1 DEF FInv, PortInv
      <3>2. CASE \E st \in {"succeeded", "lapsed"} : action' = [action EXCEPT ![m][e] = st]
        <4>1. PICK st \in {"succeeded", "lapsed"} : action' = [action EXCEPT ![m][e] = st]
          BY <3>2
        <4>. QED
          BY <1>7, <4>1
      <3>. QED
        BY <1>8, <3>1, <3>2
    <2>3. ~Carries(rec)
      BY <1>6, <1>8 DEF Carries, Refused, Done, Awaiting
    <2>4. /\ \A n \in Missions \ {m} : port'.on_run[n] = port.on_run[n]
                                         /\ port'.waiting[n] = port.waiting[n]
          /\ \A n \in Missions, x \in Effects :
                action'[n][x] # action[n][x] => n = m /\ x = e /\ rec.pc = "settle"
      BY <1>6, <2>1, <2>2
    <2>5. /\ port'.on_run = port.on_run /\ ~Carries(rec)
          /\ \A n \in Missions, x \in Effects :
                action'[n][x] = "prepared" => action[n][x] = "prepared"
      BY <2>1, <2>2, <2>3
    <2>. QED
      BY <1>1, <1>3, <1>6, <1>10, <2>1, <2>2, <2>4, <2>5, TurnStep
  <1>9. CASE /\ s = Awaiting /\ MayPerform(port, m)
             /\ port' = PerformedWaiting(port, m, e)
             /\ action' = [action EXCEPT ![m][e] = "prepared"]
    <2>1. /\ port' = [f \in {"fenced", "open", "on_run", "waiting", "ended", "handed"} |-> port'[f]]
          /\ port'.on_run = [port.on_run EXCEPT ![m] = @ \cup {e}]
          /\ port'.waiting = [port.waiting EXCEPT ![m] = e]
          /\ port'.fenced = port.fenced /\ port'.ended = port.ended /\ port'.handed = port.handed
          /\ port'.open = port.open \cup {m}
      BY <1>9 DEF FInv, PortInv, Performed, PerformedWaiting
    <2>2. /\ port'.on_run = [n \in Missions |-> port'.on_run[n]]
          /\ port'.waiting = [n \in Missions |-> port'.waiting[n]]
          /\ \A n \in Missions \ {m} : port'.on_run[n] = port.on_run[n]
                                         /\ port'.waiting[n] = port.waiting[n]
          /\ port'.on_run[m] = port.on_run[m] \cup {e} /\ port'.waiting[m] = e
      BY <1>5, <2>1 DEF FInv, PortInv
    <2>3. /\ action' = [n \in Missions |-> action'[n]]
          /\ \A n \in Missions : action'[n] = [x \in Effects |-> action'[n][x]]
          /\ \A n \in Missions, x \in Effects : action'[n][x] # action[n][x] => n = m /\ x = e
      BY <1>7, <1>9
    <2>4. Carries(rec) /\ ~port.fenced /\ m \notin port.ended /\ m \in port'.open
      BY <1>6, <1>9, <2>1 DEF Carries, MayPerform
    <2>5. /\ port' = [f \in {"fenced", "open", "on_run", "waiting", "ended", "handed"} |-> port'[f]]
          /\ port'.fenced = port.fenced /\ port'.ended = port.ended /\ port'.handed = port.handed
          /\ port.open \subseteq port'.open
          /\ \A n \in Missions, x \in Effects :
                action'[n][x] # action[n][x] => n = m /\ x = e /\ rec.pc = "settle"
      BY <1>6, <2>1, <2>3
    <2>. QED
      BY <1>1, <1>3, <1>6, <1>10, <2>2, <2>3, <2>4, <2>5, TurnStep
  <1>. QED
    BY <1>2, <1>8, <1>9

LEMMA QueryF ==
  ASSUME CInv, JInv, FInv, NEW c \in AllCalls, Query(c)
  PROVE  FInv'
  <1>1. PICK m : m = call[c].m
    OBVIOUS
  <1>2. PICK s : /\ port' = Queried(port, m, s)
                 /\ Become(c, [call[c] EXCEPT !.pc = "resolve", !.status = s])
    BY <1>1 DEF Query
  <1>3. /\ UNCHANGED <<missions, inner, reserved, busy, log, action>> /\ call[c].pc = "query"
    BY DEF Query, At, memory, journal
  <1>4. PICK rec, e : rec = [call[c] EXCEPT !.pc = "resolve", !.status = s] /\ e = rec.effect
    OBVIOUS
  <1>5. CallOK(call[c]) /\ m \in Missions /\ call[c].then # "rest"
    <2>1. Works(call[c])
      BY <1>3 DEF Works, WorkPCs
    <2>. QED
      BY <1>1, <1>3, <2>1, Worker DEF WorkPCs
  <1>6. GoesOn(call[c], rec) /\ rec.then = call[c].then /\ rec.pc = "resolve"
    BY <1>4, <1>5 DEF CallOK, CallFields, GoesOn, WorkPCs
  <1>7. /\ port' = [f \in {"fenced", "open", "on_run", "waiting", "ended", "handed"} |-> port'[f]]
        /\ port'.on_run = port.on_run /\ port'.open = port.open
        /\ port'.waiting = port.waiting \/ port'.waiting = [port.waiting EXCEPT ![m] = NoEffect]
        /\ port'.fenced = port.fenced /\ port'.ended = port.ended /\ port'.handed = port.handed
    BY <1>2 DEF FInv, PortInv, Queried
  <1>8. /\ port'.on_run = [n \in Missions |-> port'.on_run[n]]
        /\ port'.waiting = [n \in Missions |-> port'.waiting[n]]
        /\ \A n \in Missions \ {m} : port'.waiting[n] = port.waiting[n]
        /\ action' = [n \in Missions |-> action'[n]]
        /\ \A n \in Missions : action'[n] = [x \in Effects |-> action'[n][x]]
    BY <1>3, <1>5, <1>7 DEF FInv, PortInv
  <1>9. ~Carries(rec)
    BY <1>6 DEF Carries
  <1>10. /\ Become(c, rec) /\ e = rec.effect /\ rec.pc \in {"settle", "resolve"}
         /\ call[c].pc \in {"perform", "query"} /\ (rec.pc = "settle" => e = missions[m].unsettled)
    BY <1>2, <1>3, <1>4, <1>6
  <1>11. /\ port.open \subseteq port'.open
         /\ \A n \in Missions \ {m} : port'.on_run[n] = port.on_run[n]
                                        /\ port'.waiting[n] = port.waiting[n]
         /\ \A n \in Missions, x \in Effects :
               action'[n][x] # action[n][x] => n = m /\ x = e /\ rec.pc = "settle"
         /\ port'.on_run = port.on_run /\ ~Carries(rec)
         /\ \A n \in Missions, x \in Effects :
               action'[n][x] = "prepared" => action[n][x] = "prepared"
    BY <1>3, <1>7, <1>8, <1>9
  <1>. QED
    BY <1>1, <1>3, <1>6, <1>7, <1>8, <1>10, <1>11, TurnStep

(***************************************************************************)
(* The calls of the host.                                                   *)
(***************************************************************************)
\* The coordinator is up, and opening is over.
LEMMA Up ==
  ASSUME CInv, FInv, proc = "up"
  PROVE  /\ HandNow /\ proc # "down" /\ call[Opener].pc # "adopt" /\ Opener \in AllCalls
         /\ ~Works(call[Opener]) /\ ~call[Opener].owns
         /\ call = [call EXCEPT ![Opener] = call[Opener]]
  <1>1. HandNow /\ proc # "down" /\ call[Opener].pc # "adopt" /\ Opener \in AllCalls
    BY DEF HandNow, FInv, AdoptInv, AllCalls
  <1>2. ~call[Opener].owns
    BY <1>1, CallAssumption DEF FInv, OwnInv
  <1>. QED
    BY <1>1, <1>2 DEF FInv, OwnInv, OwnOK, CInv, ShapeInv

\* A step of the host that touches no call.
LEMMA AloneStep ==
  ASSUME CInv, JInv, FInv, proc = "up", call' = call, Sober, Lasts, busy' = busy,
         \A n \in Missions : MemMove(Opener, n)
  PROVE  FInv'
  <1>1. PICK rec : rec = call[Opener]
    OBVIOUS
  <1>2. call' = [call EXCEPT ![Opener] = rec] /\ call'[Opener].pc # "adopt"
    BY <1>1, Up
  <1>3. /\ HandNow /\ proc # "down" /\ Opener \in AllCalls /\ ~Works(call[Opener])
        /\ PortQuiet /\ KeepsOpen /\ inner'.closed = inner.closed
    BY Up DEF Sober
  <1>4. OwnMove(Opener, rec) /\ ((\E m \in Missions : busy'[m]) => ~inner.closed)
    BY <1>1, <1>3 DEF OwnMove, FInv, OwnInv
  <1>5. Handoff(Opener, rec) /\ CarryMove(Opener, rec)
    BY <1>1 DEF Handoff, CarryMove
  <1>. QED
    BY <1>1, <1>2, <1>3, <1>4, <1>5, FStep

LEMMA AloneFires ==
  ASSUME CInv, JInv, FInv, proc = "up", call' = call, Lasts, busy' = busy, NEW m \in Missions,
         NEW t, Fired(m, t) \/ NotFired(m, t),
         missions[m].state \notin Terminal \cup MayWait \cup {"AwaitingApproval"}
  PROVE  FInv'
  <1>1. PICK rec : rec = call[Opener]
    OBVIOUS
  <1>2. HandNow /\ Opener \in AllCalls /\ call' = [call EXCEPT ![Opener] = rec]
    BY <1>1, Up
  <1>3. Follows(m)
    BY IdleFollows
  <1>4. Sober /\ \A n \in Missions : MemMove(Opener, n)
    BY <1>2, <1>3, FiredMoves
  <1>. QED
    BY <1>4, AloneStep

LEMMA WroteLasts ==
  ASSUME CInv, NEW m \in Missions, NEW ev, NEW ms, missions[m].state \notin Terminal,
         Wrote(m, ev, ms) \/ Broke(m, ev, missions[m])
  PROVE  Lasts
  BY WroteMissions, BrokeSame DEF Lasts, SameWork

LEMMA SubmitF ==
  ASSUME CInv, JInv, FInv, NEW m \in Missions, Submit(m) \/ TimePasses(m)
  PROVE  FInv'
  <1>1. Lasts /\ proc = "up" /\ call' = call /\ busy' = busy
    BY AloneOrdinary, OrdinaryLasts DEF Submit, TimePasses, Host
  <1>2. CASE Submit(m)
    <2>1. PICK t : t = OfHash("Submit", missions[m].hash)
      OBVIOUS
    <2>2. Fired(m, t) \/ NotFired(m, t)
      BY <1>2, <2>1 DEF Submit
    <2>3. missions[m].state \notin Terminal \cup MayWait \cup {"AwaitingApproval"}
      BY <1>2 DEF Submit, Terminal, MayWait
    <2>. QED
      BY <1>1, <2>2, <2>3, AloneFires
  <1>3. CASE TimePasses(m)
    <2>1. Sober /\ missions' = missions /\ reserved' = reserved
      BY <1>3, UnwrittenSober DEF TimePasses, Requests
    <2>2. \A n \in Missions : MemMove(Opener, n)
      BY <1>1, <2>1, Up, StillMoves DEF Sober, StayReserved
    <2>. QED
      BY <1>1, <2>1, <2>2, AloneStep
  <1>. QED
    BY <1>2, <1>3

LEMMA ReviseF ==
  ASSUME CInv, JInv, FInv, NEW m \in Missions, NEW h \in Hashes, Revise(m, h)
  PROVE  FInv'
  <1>1. PICK t : t = OfHash("Revise", h)
    OBVIOUS
  <1>2. /\ Fired(m, t) \/ NotFired(m, t)
        /\ proc = "up" /\ call' = call /\ busy' = busy
    BY <1>1 DEF Revise, Host
  <1>3. missions[m].state \notin Terminal \cup MayWait \cup {"AwaitingApproval"}
    BY DEF Revise, Revisable, Terminal, MayWait
  <1>4. Wrote(m, Transitioned(t), Apply(Held(m), t)) \/ Broke(m, Transitioned(t), missions[m])
    BY <1>2 DEF Fired, FiredAs, NotFired
  <1>5. Lasts
    BY <1>3, <1>4, WroteLasts
  <1>. QED
    BY <1>2, <1>3, <1>5, AloneFires

LEMMA DraftF ==
  ASSUME CInv, JInv, FInv, NEW m \in Missions, NEW h \in Hashes, Draft(m, h)
  PROVE  FInv'
  <1>1. PICK ev, ms, rec : ev = Drafted(h) /\ ms = NewMission("Draft", h) /\ rec = call[Opener]
    OBVIOUS
  <1>2. /\ Wrote(m, ev, ms) \/ Broke(m, ev, missions[m])
        /\ proc = "up" /\ call' = call /\ busy' = busy /\ reserved' = reserved
    BY <1>1 DEF Draft, Host, Requests
  <1>3. /\ missions[m].state = "None"
        /\ missions[m].state \notin Terminal \cup MayWait \cup {"AwaitingApproval"}
    BY MissionAssumption DEF Draft, NextMission, Missions, Terminal, MayWait
  <1>4. ev.kind # "ApprovalClosed"
    BY <1>1, RecordKinds
  <1>5. Sober /\ Lasts
    BY <1>2, <1>3, <1>4, WritesSober, WroteLasts
  <1>6. HandNow /\ Opener \in AllCalls /\ call' = [call EXCEPT ![Opener] = rec]
    BY <1>1, <1>2, Up
  <1>7. port'.ended = port.ended
    BY <1>5, <1>6, PortKeeps DEF Sober
  <1>8. \A n \in Missions : StayReserved(n)
    BY <1>2 DEF StayReserved
  <1>9. CASE ~log.refused
    <2>1. ~inner.broken
      BY <1>2 DEF Wrote, WroteLog, Broke, BrokeLog, Usable
    <2>2. missions[m].next_effect = 0 /\ missions[m].unsettled = NoEffect
      BY <1>2, <1>3, <1>9, <2>1
      DEF JInv, AgreeInv, Agreement, SameMission, CInv, LogInv, LogSound, Sound, Begun, Awaited,
          Numbered
    <2>3. ms.next_effect = 0 /\ ms.unsettled = NoEffect
      BY <1>1 DEF NewMission
    <2>4. ASSUME Wrote(m, ev, ms) PROVE MemMove(Opener, m)
      <3>1. missions'[m] = ms
        BY <2>4, WroteMissions
      <3>. QED
        BY <1>3, <2>2, <2>3, <3>1, IdleFollows DEF MemMove, Counted, Counts
    <2>5. \A n \in Missions : MemMove(Opener, n)
      <3>1. CASE Wrote(m, ev, ms)
        BY <1>2, <1>5, <1>6, <1>8, <2>4, <3>1, WroteMoves DEF Sober
      <3>2. CASE Broke(m, ev, missions[m])
        BY <1>2, <1>5, <1>6, <1>8, <3>2, BrokeSame, StillMoves DEF Sober
      <3>. QED
        BY <1>2, <3>1, <3>2
    <2>. QED
      BY <1>2, <1>5, <2>5, AloneStep
  <1>10. CASE log.refused
    <2>1. log'.refused /\ PortQuiet /\ inner'.closed = inner.closed
      BY <1>5, <1>10 DEF Sober, KeepsOpen
    <2>2. OwnInv'
      BY <1>2, <2>1 DEF FInv, OwnInv, OwnOK, Works
    <2>3. PortInv' /\ FenceInv' /\ HandInv'
      BY <1>6, <2>1, PortKeeps
    <2>4. KnownInv' /\ CloseInv' /\ AdoptInv'
      BY <1>2, <2>1, Up DEF KnownInv, CloseInv, CloseOK, AdoptInv
    <2>5. CarryInv'
      <3>1. CarryMove(Opener, rec)
        BY <1>1 DEF CarryMove
      <3>. QED
        BY <1>6, <2>1, <3>1, CarryKeeps
    <2>6. ASSUME NEW d \in AllCalls PROVE WorkOK(d)'
      <3>1. PICK n : n = call[d].m
        OBVIOUS
      <3>2. WorkOK(d) /\ call'[d] = call[d] /\ (Works(call[d]) => n \in Missions)
        BY <1>2, <3>1 DEF FInv, WorkInv, OwnInv, OwnOK
      <3>3. ASSUME Works(call[d])
            PROVE  /\ Workable(d, n)' \/ Over(n)'
                   /\ missions'[n].unsettled = missions[n].unsettled
        <4>1. (Workable(d, n) \/ Over(n)) /\ n \in Missions
          BY <3>1, <3>2, <3>3 DEF WorkOK
        <4>2. n # m
          BY <1>3, <4>1 DEF Workable, Over
        <4>3. SameWork(missions[n], missions'[n])
          BY <1>2, <4>1, <4>2, WroteMissions, BrokeSame DEF SameWork
        <4>4. Withdrawn(n) => Withdrawn(n)'
          BY <1>2, <1>7 DEF Withdrawn
        <4>. QED
          BY <1>2, <4>1, <4>3, <4>4 DEF Workable, Over, SameWork
      <3>4. call[d].pc = "finish" => n \in Missions /\ missions'[n].state = "Done"
        BY <1>5, <3>1, <3>2 DEF WorkOK, Lasts, Terminal
      <3>5. call[d].pc \in {"perform", "settle"} => missions'[n].unsettled = call[d].effect
        BY <3>1, <3>2, <3>3 DEF WorkOK, Works, WorkPCs
      <3>. QED
        BY <3>1, <3>2, <3>3, <3>4, <3>5 DEF WorkOK
    <2>. QED
      BY <2>2, <2>3, <2>4, <2>5, <2>6 DEF FInv, WorkInv
  <1>. QED
    BY <1>9, <1>10

\* A close finds nobody at work, and leaves nobody.
LEMMA CloseF ==
  ASSUME CInv, JInv, FInv, Close
  PROVE  FInv'
  <1>1. /\ proc = "up" /\ call' = call /\ busy' = busy /\ reserved' = reserved
        /\ \A m \in Missions : ~busy[m]
    BY DEF Close, NothingBusy, Requests
  <1>2. PICK rec, m, k : rec = call[Opener] /\ m = 1 /\ k = ReplayClosed(LogHeld)
    OBVIOUS
  <1>3. /\ HandNow /\ Opener \in AllCalls /\ call' = [call EXCEPT ![Opener] = rec]
        /\ call'[Opener].pc # "adopt" /\ proc # "down"
    BY <1>1, <1>2, Up
  <1>4. Lasts
    <2>1. m \in Missions
      BY <1>2, MissionAssumption DEF Missions
    <2>. QED
      BY <2>1, AloneOrdinary, OrdinaryLasts
  <1>5. \/ WroteLog(k) /\ inner' = [inner EXCEPT !.session_journaled = TRUE, !.closed = TRUE]
           /\ missions' = MissionsHeld
        \/ BrokeLog(k) /\ missions' = missions
    BY <1>2 DEF Close
  <1>6. PortQuiet
    <2>1. CASE WroteLog(k) /\ inner' = [inner EXCEPT !.session_journaled = TRUE, !.closed = TRUE]
      BY <2>1 DEF WroteLog, outside, PortQuiet, JInv, InnerOK
    <2>2. CASE BrokeLog(k)
      BY <2>2, BrokeLogSober
    <2>. QED
      BY <1>5, <2>1, <2>2
  <1>7. KeepsOpen
    <2>1. PICK ev : ev = Rec("Held") /\ ev.kind # "ApprovalClosed"
      BY RecordKinds
    <2>2. MayBecome(log', m, ev)
      BY <1>2, <1>5, BrokeLogMay DEF WroteLog, MayBecome
    <2>3. ~log'.refused => ~log.refused /\ OpensBut(log, log', m, ev)
      BY <2>2, JournalOpens DEF CInv, LogInv
    <2>4. \A e \in Effects : e # NoEffect
      BY EffectAssumption DEF Effects, NoEffect
    <2>. QED
      BY <2>1, <2>3, <2>4 DEF OpensBut, KeepsOpen
  <1>8. port'.ended = port.ended /\ PortInv' /\ FenceInv' /\ HandInv'
    BY <1>3, <1>6, PortKeeps
  <1>9. \A n \in Missions : MemMove(Opener, n)
    <2>1. \A n \in Missions : SameWork(missions[n], missions'[n])
      BY <1>5, HeldWork DEF SameWork
    <2>. QED
      BY <1>1, <1>3, <1>8, <2>1, SameMove DEF StayReserved
  <1>10. OwnInv'
    BY <1>1 DEF FInv, OwnInv, OwnOK, Works
  <1>11. Handoff(Opener, rec) /\ CarryMove(Opener, rec) /\ rec = call[Opener] /\ ~Works(call[Opener])
    BY <1>1, <1>2, Up DEF Handoff, CarryMove
  <1>12. WorkInv'
    BY <1>3, <1>4, <1>9, <1>11, WorkKeeps DEF FInv
  <1>13. CarryInv' /\ KnownInv'
    BY <1>3, <1>6, <1>7, <1>11, CarryKeeps, KnownKeeps
  <1>14. CloseInv'
    BY <1>3, <1>6, <1>7, <1>9, <1>11, CloseKeeps
  <1>15. AdoptInv'
    BY <1>3 DEF AdoptInv
  <1>. QED
    BY <1>8, <1>10, <1>12, <1>13, <1>14, <1>15 DEF FInv

LEMMA IdleCall ==
  /\ Idle.pc = "idle" /\ Idle.owns = FALSE /\ Idle.then = "leave" /\ Idle.m = 0
  /\ \A op, pc, m : /\ NewCall(op, pc, m).owns = FALSE /\ NewCall(op, pc, m).then = "leave"
                    /\ NewCall(op, pc, m).pc = pc /\ NewCall(op, pc, m).m = m
  BY DEF Idle, NewCall

\* A new call of the host.
LEMMA NewStep ==
  ASSUME CInv, JInv, FInv, proc = "up", NEW c \in Calls, call[c] = Idle, NEW rec, Become(c, rec),
         Sober, Lasts, \A n \in Missions : MemMove(c, n), OwnMove(c, rec),
         (\E m \in Missions : busy'[m]) => ~inner.closed,
         ~Carries(rec), rec.pc \notin {"adopt", "close"}, WorkOK(c)'
  PROVE  FInv'
  <1>1. c \in AllCalls /\ c # Opener
    BY CallAssumption DEF AllCalls
  <1>2. call' = [call EXCEPT ![c] = rec] /\ call'[c] = rec /\ call'[Opener].pc # "adopt"
    BY <1>1, Up DEF Become, CInv, ShapeInv
  <1>3. call[c].pc = "idle"
    BY IdleCall
  <1>4. Handoff(c, rec) /\ CarryMove(c, rec)
    BY <1>1, <1>3, NoHandoff DEF CarryMove
  <1>5. CloseOK(c)'
    BY <1>2 DEF CloseOK
  <1>6. HandNow /\ proc # "down" /\ PortQuiet /\ KeepsOpen /\ inner'.closed = inner.closed
    BY Up DEF Sober
  <1>. QED
    BY <1>1, <1>2, <1>4, <1>5, <1>6, FStep

\* One that takes no mark.
LEMMA LightStep ==
  ASSUME CInv, JInv, FInv, proc = "up", NEW c \in Calls, call[c] = Idle, NEW rec, Become(c, rec),
         Sober, Lasts, \A n \in Missions : MemMove(c, n), busy' = busy,
         rec.owns = FALSE, rec.then = "leave", rec.pc \notin WorkPCs \cup {"adopt", "close", "leave"},
         rec.pc = "finish" => rec.m \in Missions /\ missions'[rec.m].state = "Done"
  PROVE  FInv'
  <1>1. OwnMove(c, rec) /\ ~Carries(rec) /\ rec.pc \notin {"adopt", "close"}
    BY DEF OwnMove, OwnOK, Works, Carries, WorkPCs
  <1>2. (\E m \in Missions : busy'[m]) => ~inner.closed
    BY DEF FInv, OwnInv
  <1>3. call'[c] = rec
    BY DEF Become, CInv, ShapeInv, AllCalls
  <1>4. WorkOK(c)'
    BY <1>3 DEF WorkOK, Works, WorkPCs
  <1>. QED
    BY <1>1, <1>2, <1>4, NewStep

\* The missions stay; those who hold a reservation keep it, or nobody needs one.
LEMMA HostMoves ==
  ASSUME CInv, JInv, FInv, proc = "up", NEW c \in Calls, call[c] = Idle, NEW rec, Become(c, rec),
         Unwritten \/ Untouched, NEW m \in Missions, NEW S,
         reserved' = reserved \/ reserved' = [reserved EXCEPT ![m] = S],
         missions[m].held \/ reserved[m] \subseteq S \/ reserved' = reserved
  PROVE  Sober /\ Lasts /\ \A n \in Missions : MemMove(c, n)
  <1>1. Sober /\ missions' = missions
    BY UnwrittenSober
  <1>2. Lasts
    BY <1>1 DEF Lasts
  <1>3. c \in AllCalls /\ call[c].pc # "withdraw" /\ call' = [call EXCEPT ![c] = rec] /\ HandNow
    BY IdleCall, Up DEF AllCalls, Become
  <1>4. port'.ended = port.ended
    BY <1>1, <1>3, PortKeeps DEF Sober
  <1>5. ASSUME NEW n \in Missions PROVE MemMove(c, n)
    <2>1. StayReserved(n) \/ missions[n].held
      BY DEF StayReserved, CInv, ShapeInv
    <2>2. Follows(n)
      BY <1>1, <1>3, <1>4, <2>1, SameFollows
    <2>. QED
      BY <1>1, <2>2 DEF MemMove, Counted, Counts
  <1>. QED
    BY <1>1, <1>2, <1>5

LEMMA RequestF ==
  ASSUME CInv, JInv, FInv, NEW c \in Calls, NEW m \in Missions, RequestConsent(c, m)
  PROVE  FInv'
  <1>1. PICK new, rec, S : /\ new = NewCall("consent", "asking", m)
                           /\ rec = [new EXCEPT !.hash = missions[m].hash]
                           /\ S = reserved[m] \cup {c}
    OBVIOUS
  <1>2. /\ proc = "up" /\ call[c] = Idle /\ Become(c, rec) /\ Unwritten /\ busy' = busy
        /\ reserved' = [reserved EXCEPT ![m] = S]
    BY <1>1 DEF RequestConsent, Unwritten
  <1>3. CallOK(new) /\ new.pc = "asking" /\ new.owns = FALSE /\ new.then = "leave"
    BY <1>1, CallsNew, IdleCall
  <1>4. rec.pc = "asking" /\ rec.owns = FALSE /\ rec.then = "leave"
    BY <1>1, <1>3 DEF CallOK, CallFields
  <1>5. reserved[m] \subseteq S
    BY <1>1
  <1>6. Sober /\ Lasts /\ \A n \in Missions : MemMove(c, n)
    BY <1>2, <1>5, HostMoves
  <1>7. rec.pc \notin WorkPCs \cup {"adopt", "close", "leave", "finish"}
    BY <1>4 DEF WorkPCs
  <1>. QED
    BY <1>2, <1>4, <1>6, <1>7, LightStep

LEMMA HostF ==
  ASSUME CInv, JInv, FInv, NEW c \in Calls, NEW m \in Missions,
         Resume(c, m) \/ Stop(c, m) \/ AdvanceEnd(c, m)
  PROVE  FInv'
  <1>1. PICK op, pc : /\ Become(c, NewCall(op, pc, m))
                      /\ pc \in {"resuming", "stop", "end"}
    BY DEF Resume, Stop, AdvanceEnd, NewAdvance
  <1>2. PICK rec : rec = NewCall(op, pc, m)
    OBVIOUS
  <1>3. /\ rec.pc \notin WorkPCs \cup {"adopt", "close", "leave", "finish"}
        /\ rec.owns = FALSE /\ rec.then = "leave" /\ Become(c, rec)
    BY <1>1, <1>2, IdleCall DEF WorkPCs
  <1>4. proc = "up" /\ call[c] = Idle /\ Unwritten /\ busy' = busy
    BY DEF Resume, Stop, AdvanceEnd, Advances, Untouched, Unwritten
  <1>5. reserved' = reserved \/ (missions[m].held /\ reserved' = [reserved EXCEPT ![m] = {c}])
    BY DEF Resume, Stop, AdvanceEnd, Untouched, Requests
  <1>6. Sober /\ Lasts /\ \A n \in Missions : MemMove(c, n)
    BY <1>3, <1>4, <1>5, HostMoves
  <1>. QED
    BY <1>3, <1>4, <1>6, LightStep

LEMMA AdvanceStartF ==
  ASSUME CInv, JInv, FInv, NEW c \in Calls, NEW m \in Missions, AdvanceStart(c, m)
  PROVE  FInv'
  <1>1. PICK t : t = Plain("Start")
    OBVIOUS
  <1>2. /\ proc = "up" /\ call' = call /\ busy' = busy /\ (Fired(m, t) \/ NotFired(m, t))
        /\ missions[m].state \notin Terminal \cup MayWait \cup {"AwaitingApproval"}
    BY <1>1 DEF AdvanceStart, Advances, Terminal, MayWait
  <1>3. Lasts
    BY HostOrdinary, OrdinaryLasts
  <1>. QED
    BY <1>2, <1>3, AloneFires

LEMMA AdvanceExplainF ==
  ASSUME CInv, JInv, FInv, NEW c \in Calls, NEW m \in Missions, AdvanceExplain(c, m)
  PROVE  FInv'
  <1>1. PICK t, rec : t = Plain("PhaseDone") /\ rec = NewCall("advance", "finish", m)
    OBVIOUS
  <1>2. /\ proc = "up" /\ call[c] = Idle /\ busy' = busy
        /\ \/ Fired(m, t) /\ Become(c, rec)
           \/ NotFired(m, t) /\ call' = call
        /\ missions[m].state = "Explaining"
    BY <1>1 DEF AdvanceExplain, Advances, NewAdvance
  <1>3. Lasts /\ missions[m].state \notin Terminal \cup MayWait \cup {"AwaitingApproval"}
    BY <1>2, HostOrdinary, OrdinaryLasts DEF Terminal, MayWait
  <1>4. CASE NotFired(m, t) /\ call' = call
    BY <1>2, <1>3, <1>4, AloneFires
  <1>5. CASE Fired(m, t) /\ Become(c, rec)
    <2>1. /\ rec.owns = FALSE /\ rec.then = "leave" /\ rec.pc = "finish" /\ rec.m = m
          /\ rec.pc \notin WorkPCs \cup {"adopt", "close", "leave"}
      BY <1>1, IdleCall DEF WorkPCs
    <2>2. c \in AllCalls /\ call[c].pc # "withdraw" /\ call' = [call EXCEPT ![c] = rec] /\ HandNow
      BY <1>2, <1>5, IdleCall, Up DEF AllCalls, Become
    <2>3. Follows(m)
      BY <1>3, IdleFollows
    <2>4. Sober /\ \A n \in Missions : MemMove(c, n)
      BY <1>5, <2>2, <2>3, FiredMoves
    <2>5. missions'[m].state = "Done"
      <3>1. Transition(missions[m].state, t) = "Done"
        BY <1>1, <1>2, PlainNames DEF Transition
      <3>2. Wrote(m, Transitioned(t), Apply(Held(m), t))
        BY <1>5 DEF Fired, FiredAs
      <3>3. Apply(Held(m), t).state = Transition(missions[m].state, t)
        BY HeldUpdates
      <3>. QED
        BY <3>1, <3>2, <3>3, WroteMissions
    <2>. QED
      BY <1>2, <1>3, <1>5, <2>1, <2>4, <2>5, LightStep
  <1>. QED
    BY <1>2, <1>4, <1>5

LEMMA AdvancePhaseF ==
  ASSUME CInv, JInv, FInv, NEW c \in Calls, NEW m \in Missions, AdvancePhase(c, m)
  PROVE  FInv'
  <1>1. PICK S, new, own, from : /\ S = reserved[m] \cup {c} /\ new = NewAdvance("lane", m)
                                 /\ own = [new EXCEPT !.owns = TRUE] /\ from = missions[m].state
    OBVIOUS
  <1>2. PICK rec : rec = IF from = "AwaitingApproval" THEN [own EXCEPT !.pc = "query"]
                         ELSE [own EXCEPT !.phase = from, !.roles = PhaseRoles(from)]
    OBVIOUS
  <1>3. /\ proc = "up" /\ call[c] = Idle /\ Become(c, rec) /\ Unwritten
        /\ reserved' = [reserved EXCEPT ![m] = S] /\ busy' = [busy EXCEPT ![m] = TRUE]
        /\ ~busy[m] /\ ~inner.closed /\ ~missions[m].held
        /\ missions[m].state \in MayWait \cup {"AwaitingApproval"}
    BY <1>1, <1>2 DEF AdvancePhase, Advances, Kept, Usable, NotHeld
  <1>4. CallOK(new) /\ new.pc = "lane" /\ new.m = m /\ new.then = "leave"
    BY <1>1, CallsNew, IdleCall DEF NewAdvance
  <1>5. CallOK(own) /\ own.pc = "lane" /\ own.m = m /\ own.then = "leave" /\ own.owns = TRUE
    BY <1>1, <1>4 DEF CallOK, CallFields
  <1>6. rec.pc \in {"lane", "query"} /\ rec.m = m /\ rec.then = "leave" /\ rec.owns = TRUE
    BY <1>2, <1>5 DEF CallOK, CallFields
  <1>7. reserved[m] \subseteq S
    BY <1>1
  <1>8. Sober /\ Lasts /\ \A n \in Missions : MemMove(c, n)
    BY <1>3, <1>7, HostMoves
  <1>9. OwnMove(c, rec) /\ ~Carries(rec) /\ rec.pc \notin {"adopt", "close"}
    BY <1>3, <1>6 DEF OwnMove, OwnOK, Works, WorkPCs, Carries
  <1>10. call'[c] = rec
    BY <1>3 DEF Become, CInv, ShapeInv, AllCalls
  <1>11. Workable(c, m)'
    BY <1>1, <1>3 DEF Workable, Unwritten, CInv, ShapeInv
  <1>12. WorkOK(c)'
    BY <1>6, <1>10, <1>11 DEF WorkOK
  <1>. QED
    BY <1>3, <1>8, <1>9, <1>12, NewStep

(***************************************************************************)
(* The steps of opening, and the ways a coordinator goes away.              *)
(***************************************************************************)
\* A call that neither works for a mission nor is about to close or to finish.
Light(rec) ==
    /\ rec.owns = FALSE /\ rec.then # "rest"
    /\ rec.pc \notin WorkPCs \cup {"close", "finish", "leave"}

LEMMA LightInv ==
  ASSUME \A c \in AllCalls : Light(call'[c]), busy' = [m \in Missions |-> busy'[m]],
         \A m \in Missions : busy'[m] => ~inner'.closed,
         PortInv', FenceInv', HandInv', KnownInv', AdoptInv'
  PROVE  FInv'
  <1>1. ASSUME NEW c \in AllCalls
        PROVE  /\ OwnOK(call'[c]) /\ ~call'[c].owns /\ ~Works(call'[c]) /\ ~Carries(call'[c])
               /\ call'[c].pc \notin {"close", "finish", "perform", "settle"}
    BY DEF Light, OwnOK, Works, WorkPCs, Carries
  <1>2. OwnInv'
    BY <1>1 DEF OwnInv, OwnOK, Works
  <1>3. WorkInv'
    BY <1>1 DEF WorkInv, WorkOK, Works
  <1>4. CarryInv'
    BY <1>1 DEF CarryInv, CarryOK, Carries
  <1>5. CloseInv'
    BY <1>1 DEF CloseInv, CloseOK
  <1>. QED
    BY <1>2, <1>3, <1>4, <1>5 DEF FInv

\* While it opens only the opener is at anything.
LEMMA OpenerAlone ==
  ASSUME CInv, JInv, FInv, proc # "up"
  PROVE  /\ Opener \in AllCalls /\ \A c \in Calls : call[c] = Idle /\ Light(call[c])
         /\ OwnOK(call[Opener]) /\ call[Opener].owns = FALSE /\ CallOK(call[Opener])
         /\ busy = [m \in Missions |-> busy[m]] /\ \A m \in Missions : busy[m] => ~inner.closed
         /\ call[Opener].pc # "withdraw" =>
               \A m, e : ~\E d \in AllCalls : call[d].m = m /\ KnownBy(call[d], e)
  <1>1. Opener \in AllCalls /\ \A c \in Calls : call[c] = Idle
    BY DEF AllCalls, JInv, FallInv
  <1>2. Light(Idle) /\ Idle.owns = FALSE /\ Idle.pc = "idle"
    BY IdleCall DEF Light, WorkPCs
  <1>3. /\ OwnOK(call[Opener]) /\ CallOK(call[Opener])
        /\ busy = [m \in Missions |-> busy[m]] /\ \A m \in Missions : busy[m] => ~inner.closed
    BY <1>1 DEF CInv, CallInv, FInv, OwnInv
  <1>4. call[Opener].owns = FALSE
    BY <1>1, <1>3, CallAssumption DEF FInv, OwnInv, OwnOK
  <1>5. ASSUME call[Opener].pc # "withdraw", NEW d \in AllCalls, NEW e PROVE ~KnownBy(call[d], e)
    <2>1. CASE d = Opener
      BY <1>3, <1>4, <1>5, <2>1 DEF KnownBy, Carries, Withdraws, OwnOK, Works, WorkPCs
    <2>2. CASE d # Opener
      BY <1>1, <1>2, <2>2 DEF KnownBy, Carries, Withdraws, AllCalls
    <2>. QED
      BY <2>1, <2>2
  <1>. QED
    BY <1>1, <1>2, <1>3, <1>4, <1>5

\* The opener takes a step at the port, or none of its steps there.
LEMMA OpenerStep ==
  ASSUME CInv, JInv, FInv, proc = "opening", NEW rec, call' = [call EXCEPT ![Opener] = rec],
         Light(rec), rec.pc # "adopt", busy' = busy, inner'.closed = inner.closed,
         PortInv', FenceInv', HandInv', KnownInv'
  PROVE  FInv'
  <1>1. proc # "up"
    OBVIOUS
  <1>2. /\ Opener \in AllCalls /\ \A c \in Calls : call[c] = Idle /\ Light(call[c])
        /\ busy = [m \in Missions |-> busy[m]] /\ \A m \in Missions : busy[m] => ~inner.closed
    BY <1>1, OpenerAlone
  <1>3. call'[Opener] = rec /\ \A c \in Calls : call'[c] = call[c]
    BY <1>2, CallAssumption DEF CInv, ShapeInv, AllCalls
  <1>4. \A c \in AllCalls : Light(call'[c])
    BY <1>2, <1>3 DEF AllCalls
  <1>5. AdoptInv'
    BY <1>3 DEF AdoptInv
  <1>. QED
    BY <1>2, <1>4, <1>5, LightInv

\* A step of opening away from the port.
LEMMA OpeningStepF ==
  ASSUME CInv, JInv, FInv, proc = "opening", NEW rec, call' = [call EXCEPT ![Opener] = rec],
         Light(rec), rec.pc # "adopt", busy' = busy, Sober,
         call[Opener].pc \notin {"adopt", "withdraw"}
  PROVE  FInv'
  <1>1. /\ HandNow /\ Opener \in AllCalls /\ OwnOK(call[Opener]) /\ call[Opener].owns = FALSE
        /\ PortQuiet /\ KeepsOpen /\ inner'.closed = inner.closed
    BY OpenerAlone DEF HandNow, Sober
  <1>2. Handoff(Opener, rec)
    BY <1>1 DEF Handoff, KnownBy, Carries, Withdraws, OwnOK, Works, WorkPCs
  <1>3. PortInv' /\ FenceInv' /\ HandInv'
    BY <1>1, PortKeeps
  <1>4. KnownInv'
    BY <1>1, <1>2, KnownKeeps
  <1>. QED
    BY <1>1, <1>3, <1>4, OpenerStep

LEMMA OpeningLight ==
  ASSUME NEW pc, pc \notin WorkPCs \cup {"close", "finish", "leave", "adopt"}, Opening(pc)
  PROVE  \E rec : /\ call' = [call EXCEPT ![Opener] = rec] /\ Light(rec) /\ rec.pc # "adopt"
                  /\ rec.pc = pc
  <1>1. PICK rec : rec = NewCall("open", pc, 0)
    OBVIOUS
  <1>2. Light(rec) /\ rec.pc = pc /\ call' = [call EXCEPT ![Opener] = rec]
    BY <1>1, IdleCall DEF Light, Opening, Become
  <1>. QED
    BY <1>2

\* Records of the session leave the open actions of the journal.
LEMMA SessionOpens ==
  ASSUME CInv, MayBecome(log', 1, Rec("Held"))
  PROVE  KeepsOpen
  <1>1. PICK ev : ev = Rec("Held") /\ ev.kind # "ApprovalClosed"
    BY RecordKinds
  <1>2. ~log'.refused => ~log.refused /\ OpensBut(log, log', 1, ev)
    BY <1>1, JournalOpens DEF CInv, LogInv
  <1>3. \A e \in Effects : e # NoEffect
    BY EffectAssumption DEF Effects, NoEffect
  <1>. QED
    BY <1>1, <1>2, <1>3 DEF OpensBut, KeepsOpen

LEMMA OpenSessionF ==
  ASSUME CInv, JInv, FInv, OpenSession
  PROVE  FInv'
  <1>1. PICK k : k = ReplayOpened(log)
    OBVIOUS
  <1>2. /\ proc = "opening" /\ call[Opener].pc = "session" /\ busy' = busy
        /\ Opening("recover") \/ Opening("failed")
        /\ \/ WroteLog(k) /\ inner' = [inner EXCEPT !.session_journaled = TRUE]
           \/ BrokeLog(k)
    BY <1>1 DEF OpenSession, AtOpen, At
  <1>3. PortQuiet /\ inner'.closed = inner.closed
    <2>1. CASE WroteLog(k) /\ inner' = [inner EXCEPT !.session_journaled = TRUE]
      BY <2>1 DEF WroteLog, outside, PortQuiet, JInv, InnerOK
    <2>2. CASE BrokeLog(k)
      BY <2>2, BrokeLogSober
    <2>. QED
      BY <1>2, <2>1, <2>2
  <1>4. KeepsOpen
    <2>1. MayBecome(log', 1, Rec("Held"))
      BY <1>1, <1>2, BrokeLogMay DEF WroteLog, MayBecome
    <2>. QED
      BY <2>1, SessionOpens
  <1>5. PICK rec : call' = [call EXCEPT ![Opener] = rec] /\ Light(rec) /\ rec.pc # "adopt"
    BY <1>2, OpeningLight DEF WorkPCs
  <1>. QED
    BY <1>2, <1>3, <1>4, <1>5, OpeningStepF DEF Sober

LEMMA OpeningRecords ==
  /\ \A m : LET r == [NewCall("open", "settled", m) EXCEPT !.then = "recover_close"]
            IN  Light(r) /\ r.pc = "settled"
  /\ \A m, t : LET r == [NewCall("open", "end", m) EXCEPT !.then = "block", !.trigger = t]
               IN  Light(r) /\ r.pc = "end"
  /\ \A m, ok : LET r == [NewCall("open", "content_stop", m) EXCEPT !.then = "content", !.ok = ok]
                IN  Light(r) /\ r.pc = "content_stop"
  BY DEF NewCall, Idle, Light, WorkPCs

LEMMA RecoverF ==
  ASSUME CInv, JInv, FInv, RecoverClose \/ BlockInterrupted \/ LoadContent
  PROVE  FInv'
  <1>1. /\ proc = "opening" /\ call[Opener].pc \in {"recover_close", "block", "load"}
        /\ busy' = busy /\ UNCHANGED <<missions, inner, log, port, action>>
    BY DEF RecoverClose, BlockInterrupted, LoadContent, AtOpen, At, Untouched, Unwritten, memory,
           journal, outside
  <1>2. Sober
    BY <1>1 DEF Sober, PortQuiet, KeepsOpen
  <1>3. \/ \E pc \in {"failed", "overtake", "load", "content"} : Opening(pc)
        \/ \E m : Become(Opener, [NewCall("open", "settled", m) EXCEPT !.then = "recover_close"])
        \/ \E m, t : Become(Opener, [NewCall("open", "end", m) EXCEPT !.then = "block", !.trigger = t])
    <2>1. CASE RecoverClose
      BY <2>1 DEF RecoverClose
    <2>2. CASE BlockInterrupted
      BY <2>2 DEF BlockInterrupted
    <2>3. CASE LoadContent
      BY <2>3 DEF LoadContent
    <2>. QED
      BY <2>1, <2>2, <2>3
  <1>4. PICK rec : call' = [call EXCEPT ![Opener] = rec] /\ Light(rec) /\ rec.pc # "adopt"
    <2>1. CASE \E pc \in {"failed", "overtake", "load", "content"} : Opening(pc)
      BY <2>1, OpeningLight DEF WorkPCs
    <2>2. ASSUME NEW r, Become(Opener, r), Light(r), r.pc # "adopt"
          PROVE \E x : call' = [call EXCEPT ![Opener] = x] /\ Light(x) /\ x.pc # "adopt"
      BY <2>2 DEF Become
    <2>3. ASSUME NEW m,
                 Become(Opener, [NewCall("open", "settled", m) EXCEPT !.then = "recover_close"])
          PROVE \E x : call' = [call EXCEPT ![Opener] = x] /\ Light(x) /\ x.pc # "adopt"
      BY <2>2, <2>3, OpeningRecords
    <2>4. ASSUME NEW m, NEW t,
                 Become(Opener, [NewCall("open", "end", m) EXCEPT !.then = "block", !.trigger = t])
          PROVE \E x : call' = [call EXCEPT ![Opener] = x] /\ Light(x) /\ x.pc # "adopt"
      BY <2>2, <2>4, OpeningRecords
    <2>. QED
      BY <1>3, <2>1, <2>3, <2>4
  <1>. QED
    BY <1>1, <1>2, <1>4, OpeningStepF

LEMMA OvertakeF ==
  ASSUME CInv, JInv, FInv, Overtake
  PROVE  FInv'
  <1>1. /\ proc = "opening" /\ call[Opener].pc = "overtake" /\ busy' = busy
        /\ Opening("block") \/ Opening("failed") \/ call' = call
    BY DEF Overtake, AtOpen, At
  <1>2. \/ Unwritten
        \/ \E m \in Missions :
              LET ev == LaneRec("LaneOvertaken", missions[m].pending_lane)
              IN  \/ Wrote(m, ev, [Held(m) EXCEPT !.pending_lane = "None"])
                  \/ Broke(m, ev, missions[m])
    BY DEF Overtake
  <1>3. Sober
    <2>1. CASE Unwritten
      BY <2>1, UnwrittenSober
    <2>2. ASSUME NEW m \in Missions, NEW ev, ev = LaneRec("LaneOvertaken", missions[m].pending_lane),
                 \/ Wrote(m, ev, [Held(m) EXCEPT !.pending_lane = "None"])
                 \/ Broke(m, ev, missions[m])
          PROVE  Sober
      <3>1. ev.kind # "ApprovalClosed"
        BY <2>2, RecordKinds
      <3>. QED
        BY <2>2, <3>1, WritesSober
    <2>. QED
      BY <1>2, <2>1, <2>2
  <1>4. PICK rec : call' = [call EXCEPT ![Opener] = rec] /\ Light(rec) /\ rec.pc # "adopt"
    <2>1. CASE call' = call
      <3>1. PICK r : r = call[Opener]
        OBVIOUS
      <3>2. call' = [call EXCEPT ![Opener] = r]
        BY <2>1, <3>1 DEF CInv, ShapeInv
      <3>3. Light(r) /\ r.pc # "adopt"
        BY <1>1, <3>1, OpenerAlone DEF Light, WorkPCs, OwnOK
      <3>. QED
        BY <3>2, <3>3
    <2>2. CASE Opening("block") \/ Opening("failed")
      BY <2>2, OpeningLight DEF WorkPCs
    <2>. QED
      BY <1>1, <2>1, <2>2
  <1>. QED
    BY <1>1, <1>3, <1>4, OpeningStepF

LEMMA ContentStopF ==
  ASSUME CInv, JInv, FInv, ContentStop
  PROVE  FInv'
  <1>1. PICK m, t, ev : m = call[Opener].m /\ t = Plain("Stop") /\ ev = Transitioned(t)
    OBVIOUS
  <1>2. /\ proc = "opening" /\ call[Opener].pc = "content_stop" /\ busy' = busy
        /\ Fired(m, t) \/ NotFired(m, t) \/ Untouched
        /\ \E ok : Become(Opener, [call[Opener] EXCEPT !.pc = "settled", !.ok = ok])
    BY <1>1 DEF ContentStop, AtOpen, At
  <1>3. Sober
    <2>1. ev.kind # "ApprovalClosed"
      BY <1>1, RecordKinds
    <2>2. Untouched \/ Wrote(m, ev, Apply(Held(m), t)) \/ Broke(m, ev, missions[m])
      BY <1>1, <1>2 DEF Fired, FiredAs, NotFired
    <2>. QED
      BY <2>1, <2>2, WritesSober, UnwrittenSober
  <1>4. PICK ok, rec : /\ rec = [call[Opener] EXCEPT !.pc = "settled", !.ok = ok]
                       /\ call' = [call EXCEPT ![Opener] = rec]
    BY <1>2 DEF Become
  <1>5. /\ call[Opener].owns = FALSE /\ OwnOK(call[Opener]) /\ CallOK(call[Opener])
    BY <1>2, OpenerAlone
  <1>6. rec.owns = FALSE /\ rec.pc = "settled" /\ rec.then = call[Opener].then
    BY <1>4, <1>5 DEF CallOK, CallFields
  <1>7. Light(rec) /\ rec.pc # "adopt"
    BY <1>2, <1>5, <1>6 DEF Light, WorkPCs, OwnOK
  <1>. QED
    BY <1>2, <1>3, <1>4, <1>7, OpeningStepF

LEMMA HoldUnfinishedF ==
  ASSUME CInv, JInv, FInv, HoldUnfinished
  PROVE  FInv'
  <1>1. /\ proc = "opening" /\ call[Opener].pc = "hold" /\ busy' = busy
        /\ Opening("failed") \/ Become(Opener, Idle)
        /\ UNCHANGED <<inner, log, port, action>>
    BY DEF HoldUnfinished, AtOpen, At, journal, outside
  <1>2. Sober
    BY <1>1 DEF Sober, PortQuiet, KeepsOpen
  <1>3. PICK rec : call' = [call EXCEPT ![Opener] = rec] /\ Light(rec) /\ rec.pc # "adopt"
    <2>1. CASE Opening("failed")
      BY <2>1, OpeningLight DEF WorkPCs
    <2>2. CASE Become(Opener, Idle)
      <3>1. Light(Idle) /\ Idle.pc # "adopt"
        BY IdleCall DEF Light, WorkPCs
      <3>. QED
        BY <2>2, <3>1 DEF Become
    <2>. QED
      BY <1>1, <2>1, <2>2
  <1>. QED
    BY <1>1, <1>2, <1>3, OpeningStepF

\* Opening withdraws the actions of the missions S.
LEMMA WithdrawAllKeeps ==
  ASSUME CInv, JInv, FInv, NEW S, WithdrawAll(S), HandNow, proc # "up",
         call[Opener].pc # "withdraw", log' = log, inner'.broken => inner.broken
  PROVE  PortInv' /\ FenceInv' /\ HandInv' /\ KnownInv'
  <1>1. /\ port' = [f \in {"fenced", "open", "on_run", "waiting", "ended", "handed"} |-> port'[f]]
        /\ port'.fenced = port.fenced /\ port'.open = port.open /\ port'.on_run = port.on_run
        /\ port'.waiting = port.waiting /\ port'.handed = port.handed
    BY DEF WithdrawAll, FInv, PortInv
  <1>2. /\ action' = [n \in Missions |-> action'[n]]
        /\ \A n \in Missions : action'[n] = [e \in Effects |-> action'[n][e]]
        /\ \A n \in Missions, e \in Effects :
              action'[n][e] = "prepared" => action[n][e] = "prepared"
    <2>1. CASE action' = action
      BY <2>1 DEF FInv, PortInv
    <2>2. CASE action' = CancelRuns(port, action, S)
      BY <2>2, CancelStep DEF FInv
    <2>. QED
      BY <2>1, <2>2 DEF WithdrawAll
  <1>3. PortInv'
    BY <1>1, <1>2 DEF FInv, PortInv
  <1>4. FenceInv' /\ HandInv'
    BY <1>1, <1>2 DEF FInv, FenceInv, HandInv
  <1>5. \A m, e : ~KnownToCall(m, e)
    BY OpenerAlone DEF KnownToCall
  <1>6. KnownInv'
    <2>1. ASSUME ~log.refused, NEW n \in Missions, NEW e \in Effects, action'[n][e] = "prepared"
          PROVE  log.mission[n].open_action = e
      BY <1>2, <1>5, <2>1 DEF FInv, KnownInv, Known
    <2>. QED
      BY <2>1 DEF KnownInv, Known
  <1>. QED
    BY <1>3, <1>4, <1>6

LEMMA WithdrawsF ==
  ASSUME CInv, JInv, FInv, RecoverActions \/ ContentWithdraw
  PROVE  FInv'
  <1>1. /\ proc = "opening" /\ call[Opener].pc \in {"recover", "content"} /\ proc # "up"
        /\ busy' = busy /\ inner' = inner /\ log' = log
    BY DEF RecoverActions, ContentWithdraw, AtOpen, At, memory, journal
  <1>2. HandNow
    BY <1>1 DEF HandNow
  <1>3. \/ \E S : WithdrawAll(S) \/ UNCHANGED outside
    BY DEF RecoverActions, ContentWithdraw
  <1>4. PortInv' /\ FenceInv' /\ HandInv' /\ KnownInv'
    <2>1. ASSUME NEW S, WithdrawAll(S) PROVE PortInv' /\ FenceInv' /\ HandInv' /\ KnownInv'
      BY <1>1, <1>2, <2>1, WithdrawAllKeeps
    <2>2. ASSUME UNCHANGED outside PROVE PortInv' /\ FenceInv' /\ HandInv' /\ KnownInv'
      <3>1. PortQuiet /\ KeepsOpen
        BY <1>1, <2>2 DEF outside, PortQuiet, KeepsOpen
      <3>2. PortInv' /\ FenceInv' /\ HandInv'
        BY <1>2, <3>1, PortKeeps
      <3>3. \A m, e : ~KnownToCall(m, e)
        BY <1>1, OpenerAlone DEF KnownToCall
      <3>4. KnownInv'
        BY <1>1, <2>2, <3>3 DEF outside, FInv, KnownInv, Known
      <3>. QED
        BY <3>2, <3>4
    <2>. QED
      BY <1>3, <2>1, <2>2
  <1>5. \/ \E pc \in {"recover_close", "failed", "hold"} : Opening(pc)
        \/ \E m, ok : Become(Opener, [NewCall("open", "content_stop", m) EXCEPT
                                        !.then = "content", !.ok = ok])
    <2>1. CASE RecoverActions
      BY <2>1 DEF RecoverActions
    <2>2. CASE ContentWithdraw
      BY <2>2 DEF ContentWithdraw
    <2>. QED
      BY <2>1, <2>2
  <1>6. PICK rec : call' = [call EXCEPT ![Opener] = rec] /\ Light(rec) /\ rec.pc # "adopt"
    <2>1. CASE \E pc \in {"recover_close", "failed", "hold"} : Opening(pc)
      BY <2>1, OpeningLight DEF WorkPCs
    <2>2. ASSUME NEW m, NEW ok, NEW r,
                 r = [NewCall("open", "content_stop", m) EXCEPT !.then = "content", !.ok = ok],
                 Become(Opener, r)
          PROVE \E x : call' = [call EXCEPT ![Opener] = x] /\ Light(x) /\ x.pc # "adopt"
      <3>1. Light(r) /\ r.pc = "content_stop"
        BY <2>2, OpeningRecords
      <3>. QED
        BY <2>2, <3>1 DEF Become
    <2>. QED
      BY <1>5, <2>1, <2>2
  <1>. QED
    BY <1>1, <1>4, <1>6, OpenerStep

\* What the journal names is handed to the port, whether or not its run is joined.
LEMMA AdoptF ==
  ASSUME CInv, JInv, FInv, AdoptActions
  PROVE  FInv'
  <1>1. PICK open : open = [m \in Missions |-> missions[m].open_action]
    OBVIOUS
  <1>2. PICK S \in SUBSET Adoptable(port, action, open) : port' = Adopted(port, open, S)
    BY <1>1 DEF AdoptActions
  <1>3. /\ proc = "opening" /\ call[Opener].pc = "adopt" /\ proc # "up" /\ proc # "down"
        /\ busy' = busy /\ inner' = inner /\ log' = log /\ action' = action
        /\ Opening("session") \/ Opening("recover")
    BY DEF AdoptActions, AtOpen, At, memory, journal
  <1>4. ~log.refused /\ ~inner.broken
    BY <1>3 DEF FInv, AdoptInv
  <1>5. \A m, e : ~KnownToCall(m, e)
    BY <1>3, OpenerAlone DEF KnownToCall
  <1>6. ASSUME NEW n \in Missions, NEW e \in Effects, action[n][e] = "prepared"
        PROVE  log.mission[n].open_action = e /\ open[n] = e /\ e # NoEffect
    <2>1. log.mission[n].open_action = e
      BY <1>4, <1>5, <1>6 DEF FInv, KnownInv, Known
    <2>2. missions[n].open_action = e
      BY <1>3, <1>4, <2>1 DEF JInv, AgreeInv, Agreement, SameMission
    <2>. QED
      BY <1>1, <2>1, <2>2, EffectAssumption DEF Effects, NoEffect
  <1>7. /\ port' = [f \in {"fenced", "open", "on_run", "waiting", "ended", "handed"} |-> port'[f]]
        /\ port'.fenced = port.fenced /\ port'.open = port.open \cup S
        /\ port'.on_run = [m \in Missions |-> IF m \in S THEN {open[m]} ELSE port.on_run[m]]
        /\ port'.waiting = [m \in Missions |-> IF m \in S THEN open[m] ELSE port.waiting[m]]
        /\ port'.handed = [m \in Missions |-> IF open[m] = NoEffect THEN port.handed[m]
                                              ELSE port.handed[m] \cup {open[m]}]
    BY <1>2 DEF Adopted, FInv, PortInv
  <1>8. PortInv'
    <2>1. /\ port'.on_run = [m \in Missions |-> port'.on_run[m]]
          /\ port'.waiting = [m \in Missions |-> port'.waiting[m]]
          /\ port'.handed = [m \in Missions |-> port'.handed[m]]
          /\ \A m \in Missions : port'.on_run[m] # {} => m \in port'.open
      BY <1>7 DEF FInv, PortInv
    <2>. QED
      BY <1>3, <1>7, <2>1 DEF FInv, PortInv
  <1>9. FenceInv'
    <2>1. port.fenced => S = {}
      BY <1>2 DEF Adoptable
    <2>. QED
      BY <1>3, <1>7, <2>1 DEF FInv, FenceInv
  <1>10. HandInv'
    BY <1>3, <1>6, <1>7 DEF HandInv
  <1>11. KnownInv'
    BY <1>3, <1>6 DEF KnownInv, Known
  <1>12. PICK rec : call' = [call EXCEPT ![Opener] = rec] /\ Light(rec) /\ rec.pc # "adopt"
    BY <1>3, OpeningLight DEF WorkPCs
  <1>. QED
    BY <1>3, <1>8, <1>9, <1>10, <1>11, <1>12, OpenerStep

LEMMA OpeningF ==
  ASSUME CInv, JInv, FInv,
         \/ AdoptActions \/ OpenSession \/ RecoverActions \/ RecoverClose \/ Overtake
         \/ BlockInterrupted \/ LoadContent \/ ContentWithdraw \/ ContentStop \/ HoldUnfinished
  PROVE  FInv'
  BY AdoptF, OpenSessionF, WithdrawsF, RecoverF, OvertakeF, ContentStopF, HoldUnfinishedF

\* Without a coordinator there is no break to remember.
DownInv == proc = "down" => ~inner.broken

LEMMA OpenF ==
  ASSUME CInv, JInv, FInv, DownInv, Open
  PROVE  FInv'
  <1>1. /\ proc = "down" /\ proc' = "opening" /\ ~log.refused /\ ~inner.broken /\ proc # "up"
        /\ inner' = inner /\ busy' = busy /\ log' = log /\ action' = action
        /\ call' = [call EXCEPT ![Opener] = NewCall("open", "adopt", 0)]
        /\ port' = NewPort \/ (port' = port /\ ~port.fenced)
    BY DEF Open, DownInv, journal, Opening, Become
  <1>2. /\ Opener \in AllCalls /\ \A c \in Calls : call[c] = Idle /\ Light(call[c])
        /\ busy = [m \in Missions |-> busy[m]] /\ \A m \in Missions : busy[m] => ~inner.closed
    BY <1>1, OpenerAlone
  <1>3. PICK rec : rec = NewCall("open", "adopt", 0)
    OBVIOUS
  <1>4. Light(rec) /\ rec.pc = "adopt"
    BY <1>3, IdleCall DEF Light, WorkPCs
  <1>5. call'[Opener] = rec /\ \A c \in Calls : call'[c] = call[c]
    BY <1>1, <1>2, <1>3, CallAssumption DEF CInv, ShapeInv, AllCalls
  <1>6. \A c \in AllCalls : Light(call'[c])
    BY <1>2, <1>4, <1>5 DEF AllCalls
  <1>7. AdoptInv'
    BY <1>1 DEF AdoptInv
  <1>8. ~port'.fenced
    BY <1>1 DEF NewPort
  <1>9. PortInv'
    <2>1. CASE port' = port
      BY <1>1, <2>1 DEF FInv, PortInv
    <2>2. CASE port' = NewPort
      BY <1>1, <2>2 DEF FInv, PortInv, NewPort
    <2>. QED
      BY <1>1, <2>1, <2>2
  <1>10. FenceInv' /\ HandInv'
    BY <1>1, <1>4, <1>5, <1>8 DEF FenceInv, HandInv, HandNow
  <1>11. KnownInv'
    <2>1. call[Opener].pc # "withdraw"
      BY <1>1, IdleCall DEF JInv, FallInv
    <2>2. \A m, e : ~KnownToCall(m, e)
      BY <1>1, <2>1, OpenerAlone DEF KnownToCall
    <2>. QED
      BY <1>1, <2>2 DEF FInv, KnownInv, Known
  <1>. QED
    BY <1>1, <1>2, <1>6, <1>7, <1>9, <1>10, <1>11, LightInv

LEMMA DownStep ==
  ASSUME Down, \A c \in AllCalls : call'[c] = Idle, PortInv', FenceInv', HandInv', KnownInv'
  PROVE  FInv'
  <1>1. Light(Idle) /\ Idle.pc # "adopt"
    BY IdleCall DEF Light, WorkPCs
  <1>2. \A c \in AllCalls : Light(call'[c])
    BY <1>1
  <1>3. AdoptInv'
    BY <1>1 DEF AdoptInv, AllCalls
  <1>4. busy' = [m \in Missions |-> busy'[m]] /\ \A m \in Missions : busy'[m] => ~inner'.closed
    BY DEF Down, Everywhere
  <1>. QED
    BY <1>2, <1>3, <1>4, LightInv

LEMMA DropF ==
  ASSUME CInv, JInv, FInv, Drop
  PROVE  FInv'
  <1>1. /\ Down /\ call' = call /\ log' = log /\ port' = port /\ action' = action
        /\ \A c \in AllCalls : call[c] = Idle
    BY DEF Drop, journal, outside
  <1>2. proc' = "down" /\ inner'.broken = FALSE
    BY <1>1 DEF Down, NewInner
  <1>3. PortInv'
    BY <1>1, <1>2 DEF FInv, PortInv
  <1>4. FenceInv' /\ HandInv'
    BY <1>1, <1>2 DEF FInv, FenceInv, HandInv, HandNow
  <1>5. KnownInv'
    <2>1. \A m, e : ~KnownToCall(m, e)
      BY <1>1, IdleCall DEF KnownToCall, KnownBy, Carries, Withdraws
    <2>. QED
      BY <1>1, <2>1 DEF FInv, KnownInv, Known
  <1>. QED
    BY <1>1, <1>3, <1>4, <1>5, DownStep

LEMMA CrashF ==
  ASSUME CInv, JInv, FInv, Crash
  PROVE  FInv'
  <1>1. /\ Down /\ call' = [c \in AllCalls |-> Idle] /\ port' = NewPort
        /\ action' = [m \in Missions |-> [e \in Effects |->
                        IF action[m][e] = "none" THEN "none" ELSE "gone"]]
    BY DEF Crash
  <1>2. inner'.broken = FALSE
    BY <1>1 DEF Down, NewInner
  <1>3. \A m \in Missions, e \in Effects : action'[m][e] # "prepared"
    BY <1>1
  <1>4. PortInv'
    BY <1>1, <1>2 DEF PortInv, NewPort
  <1>5. FenceInv' /\ HandInv' /\ KnownInv'
    BY <1>3 DEF FenceInv, HandInv, KnownInv
  <1>. QED
    BY <1>1, <1>4, <1>5, DownStep

LEMMA OpenFailsF ==
  ASSUME CInv, JInv, FInv, OpenFails
  PROVE  FInv'
  <1>1. PICK S : /\ WithdrawAll(S) /\ proc = "opening" /\ call[Opener].pc = "failed"
                 /\ call' = [call EXCEPT ![Opener] = Idle] /\ Down /\ log' = log
    BY DEF OpenFails, AtOpen, At, Become, journal
  <1>2. HandNow /\ proc # "up" /\ call[Opener].pc # "withdraw" /\ inner'.broken = FALSE
    BY <1>1 DEF HandNow, Down, NewInner
  <1>3. PortInv' /\ FenceInv' /\ HandInv' /\ KnownInv'
    BY <1>1, <1>2, WithdrawAllKeeps
  <1>4. \A c \in AllCalls : call'[c] = Idle
    BY <1>1, <1>2, OpenerAlone DEF CInv, ShapeInv, AllCalls
  <1>. QED
    BY <1>1, <1>3, <1>4, DownStep

\* The Owner and the broker only take from what waits.
LEMMA BrokerF ==
  ASSUME FInv, Broker
  PROVE  FInv'
  <1>1. PICK m \in Missions, e \in Effects, s \in {"prepared", "executing", "interrupted"},
             t \in {"executing", "denied", "lapsed", "succeeded", "cancelled"} :
               Moves(m, e, s, t)
    BY DEF Broker, OwnerApproves, OwnerDeniesOrExpires, ActionEnds
  <1>2. UNCHANGED <<proc, missions, inner, reserved, busy, call, log, port>>
    BY DEF Broker, OwnerApproves, OwnerDeniesOrExpires, ActionEnds, Alone, memory, journal
  <1>3. /\ action' = [n \in Missions |-> action'[n]]
        /\ \A n \in Missions : action'[n] = [x \in Effects |-> action'[n][x]]
        /\ \A n \in Missions, x \in Effects :
              /\ action'[n][x] = "prepared" => action[n][x] = "prepared"
              /\ action'[n][x] \in OpenAtBroker => action[n][x] \in OpenAtBroker
    BY <1>1 DEF Moves, FInv, PortInv, OpenAtBroker
  <1>4. OwnInv' /\ AdoptInv' /\ WorkInv'
    BY <1>2 DEF FInv, OwnInv, AdoptInv, WorkInv, OwnOK, Works, WorkOK, Workable, Over, Withdrawn
  <1>5. PortInv' /\ FenceInv' /\ HandInv'
    BY <1>2, <1>3 DEF FInv, PortInv, FenceInv, HandInv, HandNow
  <1>6. CarryInv'
    <2>1. \A d \in AllCalls : Carries(call[d]) => call[d].m \in Missions
      BY DEF FInv, OwnInv, OwnOK, Carries, Works, WorkPCs
    <2>. QED
      BY <1>2, <1>3, <2>1 DEF FInv, CarryInv, CarryOK, Carries
  <1>7. KnownInv'
    <2>1. \A n, x : Known(n, x)' = Known(n, x)
      BY <1>2 DEF Known, KnownToCall, KnownBy, Carries, Withdraws
    <2>. QED
      BY <1>2, <1>3, <2>1 DEF FInv, KnownInv
  <1>8. CloseInv'
    BY <1>2, <1>3 DEF FInv, CloseInv, CloseOK
  <1>. QED
    BY <1>4, <1>5, <1>6, <1>7, <1>8 DEF FInv

LEMMA StillF ==
  ASSUME FInv, UNCHANGED vars
  PROVE  FInv'
  <1>1. UNCHANGED <<proc, missions, inner, reserved, busy, call, log, port, action>>
    BY DEF vars, memory, journal, outside
  <1>. QED
    BY <1>1 DEF FInv, OwnInv, OwnOK, PortInv, WorkInv, WorkOK, Works, Workable, Over, Withdrawn,
                CarryInv, CarryOK, Carries, KnownInv, Known, KnownToCall, KnownBy, Withdraws,
                CloseInv, CloseOK, FenceInv, HandInv, HandNow, AdoptInv

LEMMA OwnStepsF ==
  ASSUME CInv, JInv, FInv, NEW c \in AllCalls, OwnSteps(c) \/ OutboundReturns(c)
  PROVE  FInv'
  BY StopFireF, WithdrawF, CloseAskF, CloseTakeF, EndF, EndFireF, LaneF, RefuseEffectF, PhaseDoneF,
     FinishF, LeaveF, DispatchF, SettleF, PendF, WaitF, QueryF, ResolveF, ApproveF, TakeAnswerF,
     TakeResumeF, LaneReturnF, PerformF
  DEF OwnSteps, OutboundReturns

LEMMA FInit == Init => FInv /\ DownInv
  <1>. SUFFICES ASSUME Init PROVE FInv /\ DownInv
    OBVIOUS
  <1>1. \A c \in AllCalls : call[c] = Idle
    BY DEF Init
  <1>2. /\ proc = "down" /\ inner = NewInner /\ busy = [m \in Missions |-> FALSE]
        /\ port = NewPort /\ action = [m \in Missions |-> [e \in Effects |-> "none"]]
    BY DEF Init, Everywhere
  <1>3. \A m \in Missions, e \in Effects : action[m][e] = "none"
    BY <1>2
  <1>4. inner.broken = FALSE
    BY <1>2 DEF NewInner
  <1>5. OwnInv
    BY <1>1, <1>2, IdleCall DEF OwnInv, OwnOK, Works, WorkPCs
  <1>6. PortInv
    BY <1>2, <1>4 DEF PortInv, NewPort
  <1>7. WorkInv /\ CarryInv /\ CloseInv /\ AdoptInv
    BY <1>1, IdleCall DEF WorkInv, WorkOK, Works, WorkPCs, CarryInv, CarryOK, Carries, CloseInv,
                          CloseOK, AdoptInv, AllCalls
  <1>8. KnownInv /\ FenceInv /\ HandInv
    BY <1>3 DEF KnownInv, FenceInv, HandInv
  <1>. QED
    BY <1>4, <1>5, <1>6, <1>7, <1>8 DEF FInv, DownInv

LEMMA FNext == CInv /\ JInv /\ FInv /\ DownInv /\ [Next]_vars => FInv'
  <1>. SUFFICES ASSUME CInv, JInv, FInv, DownInv, [Next]_vars PROVE FInv'
    OBVIOUS
  <1>1. CASE UNCHANGED vars \/ Broker
    BY <1>1, StillF, BrokerF
  <1>2. CASE HostCalls
    <2>1. ASSUME NEW m \in Missions, NEW h \in Hashes, Draft(m, h) \/ Revise(m, h) PROVE FInv'
      BY <2>1, DraftF, ReviseF
    <2>2. ASSUME NEW m \in Missions, NEW c \in Calls,
                 \/ RequestConsent(c, m) \/ Resume(c, m) \/ Stop(c, m) \/ AdvanceEnd(c, m)
                 \/ AdvanceStart(c, m) \/ AdvanceExplain(c, m) \/ AdvancePhase(c, m)
          PROVE  FInv'
      BY <2>2, RequestF, HostF, AdvanceStartF, AdvanceExplainF, AdvancePhaseF
    <2>3. ASSUME NEW m \in Missions, Submit(m) \/ TimePasses(m) PROVE FInv'
      BY <2>3, SubmitF
    <2>4. CASE Close
      BY <2>4, CloseF
    <2>. QED
      BY <1>2, <2>1, <2>2, <2>3, <2>4 DEF HostCalls
  <1>3. ASSUME NEW c \in AllCalls, OwnSteps(c) \/ OutboundReturns(c) PROVE FInv'
    BY <1>3, OwnStepsF
  <1>4. CASE Open \/ Recovers \/ Drop \/ Crash
    BY <1>4, OpenF, OpeningF, OpenFailsF, DropF, CrashF DEF Recovers
  <1>. QED
    BY <1>1, <1>2, <1>3, <1>4 DEF Next

\* A call in flight keeps the coordinator as it is.
LEMMA CallProc ==
  ASSUME CInv, JInv, NEW c \in AllCalls, OwnSteps(c) \/ OutboundReturns(c)
  PROVE  proc # "down" /\ proc' = proc
  <1>1. call[c].pc # "idle"
    BY DEF OwnSteps, OutboundReturns, At, StopFire, Withdraw, CloseAsk, CloseTake, End, EndFire, Lane,
           RefuseEffect, PhaseDone, Finish, Leave, Dispatch, Settle, Pend, Wait, Query, Resolve,
           Approve, TakeAnswer, TakeResume, LaneReturn, Perform
  <1>2. ASSUME OwnSteps(c) PROVE proc' = proc
    BY <1>2 DEF OwnSteps, StopFire, Withdraw, CloseAsk, CloseTake, End, EndFire, Lane,
           RefuseEffect, PhaseDone, Finish, Leave, Dispatch, Settle, Pend, Wait, Query, Resolve,
           Approve, Quiet, InCall
  <1>3. ASSUME OutboundReturns(c) PROVE proc' = proc
    BY <1>3 DEF OutboundReturns, TakeAnswer, TakeResume, LaneReturn, Perform, Quiet, InCall
  <1>. QED
    BY <1>1, <1>2, <1>3, Awake

LEMMA DownNext == CInv /\ JInv /\ DownInv /\ [Next]_vars => DownInv'
  <1>. SUFFICES ASSUME CInv, JInv, DownInv, [Next]_vars PROVE DownInv'
    OBVIOUS
  <1>1. CASE UNCHANGED vars \/ Broker
    BY <1>1
    DEF DownInv, vars, memory, Broker, OwnerApproves, OwnerDeniesOrExpires, ActionEnds, Alone
  <1>2. CASE HostCalls
    <2>1. ASSUME NEW m \in Missions, NEW h \in Hashes,
                 Draft(m, h) \/ Revise(m, h)
          PROVE  proc' = "up"
      BY <2>1 DEF Draft, Revise, Host
    <2>2. ASSUME NEW c \in Calls, NEW m \in Missions,
                 RequestConsent(c, m) \/ Resume(c, m) \/ Stop(c, m)
          PROVE  proc' = "up"
      BY <2>2 DEF RequestConsent, Resume, Stop, Quiet, InCall
    <2>3. ASSUME NEW c \in Calls, NEW m \in Missions,
                 \/ AdvanceEnd(c, m) \/ AdvanceStart(c, m)
                 \/ AdvanceExplain(c, m) \/ AdvancePhase(c, m)
          PROVE  proc' = "up"
      <3>1. proc = "up"
        BY <2>3 DEF AdvanceEnd, AdvanceStart, AdvanceExplain, AdvancePhase, Advances
      <3>2. proc' = proc
        BY <2>3 DEF AdvanceEnd, AdvanceStart, AdvanceExplain, AdvancePhase, Quiet, InCall
      <3>. QED
        BY <3>1, <3>2
    <2>4. ASSUME NEW m \in Missions, Submit(m) \/ TimePasses(m) PROVE proc' = "up"
      BY <2>4 DEF Submit, TimePasses, Host
    <2>5. ASSUME Close PROVE proc' = "up"
      BY <2>5 DEF Close
    <2>6. proc' = "up"
      BY <1>2, <2>1, <2>2, <2>3, <2>4, <2>5 DEF HostCalls
    <2>. QED
      BY <2>6 DEF DownInv
  <1>3. ASSUME NEW c \in AllCalls, OwnSteps(c) \/ OutboundReturns(c) PROVE DownInv'
    BY <1>3, CallProc DEF DownInv
  <1>4. CASE Open \/ Drop \/ Crash \/ OpenFails
    <2>1. CASE Open
      BY <2>1 DEF DownInv, Open
    <2>2. CASE Drop
      BY <2>2 DEF DownInv, Drop, Down, NewInner
    <2>3. CASE Crash
      BY <2>3 DEF DownInv, Crash, Down, NewInner
    <2>4. CASE OpenFails
      BY <2>4 DEF DownInv, OpenFails, Down, NewInner
    <2>. QED
      BY <1>4, <2>1, <2>2, <2>3, <2>4
  <1>5. CASE Recovers /\ ~OpenFails
    <2>1. proc = "opening" /\ proc' \in {proc, "up"}
      BY <1>5
      DEF Recovers, AtOpen, AdoptActions, OpenSession, RecoverActions, RecoverClose, Overtake,
          BlockInterrupted, LoadContent, ContentWithdraw, ContentStop, HoldUnfinished, Quiet, InCall
    <2>. QED
      BY <2>1 DEF DownInv
  <1>. QED
    BY <1>1, <1>2, <1>3, <1>4, <1>5 DEF Next

(***************************************************************************)
(* What starts.                                                             *)
(***************************************************************************)
StartedInv == started = [m \in Missions |-> started[m]]
Starts(m, e) == started' = [started EXCEPT ![m] = @ \cup {e}]
StartsRightly ==
    \/ started' = started
    \/ \E m, e : Starts(m, e) /\ ~port.fenced
    \/ \E m \in Missions, e \in Effects : Starts(m, e) /\ action[m][e] = "prepared"

LEMMA StartedNext == [Next]_vars => StartsRightly
  <1>. SUFFICES ASSUME [Next]_vars PROVE StartsRightly
    OBVIOUS
  <1>1. CASE UNCHANGED vars
    BY <1>1 DEF vars, history, StartsRightly
  <1>2. CASE Broker
    BY <1>2 DEF Broker, OwnerApproves, OwnerDeniesOrExpires, ActionEnds, Moves, StartsRightly, Starts
  <1>3. CASE HostCalls
    BY <1>3
    DEF HostCalls, Submit, Draft, Revise, RequestConsent, Resume, Stop, AdvanceEnd, AdvanceStart,
        AdvanceExplain, AdvancePhase, Close, TimePasses, Host, Quiet, InCall, history, StartsRightly
  <1>4. ASSUME NEW c \in AllCalls, OwnSteps(c) PROVE StartsRightly
    BY <1>4 DEF OwnSteps, StopFire, Withdraw, CloseAsk, CloseTake, End, EndFire, Lane,
           RefuseEffect, PhaseDone, Finish, Leave, Dispatch, Settle, Pend, Wait, Query, Resolve,
           Approve, Quiet, InCall, StartsRightly
  <1>5. ASSUME NEW c \in AllCalls, OutboundReturns(c) PROVE StartsRightly
    <2>1. CASE Perform(c)
      <3>1. started' = started \/ (MayPerform(port, call[c].m) /\ Starts(call[c].m, call[c].effect))
        BY <2>1 DEF Perform, Starts
      <3>. QED
        BY <3>1 DEF MayPerform, StartsRightly
    <2>2. CASE TakeAnswer(c) \/ TakeResume(c) \/ LaneReturn(c)
      BY <2>2 DEF TakeAnswer, TakeResume, LaneReturn, Quiet, InCall, StartsRightly
    <2>. QED
      BY <1>5, <2>1, <2>2 DEF OutboundReturns
  <1>6. CASE Open \/ Drop \/ Crash
    BY <1>6 DEF Open, Drop, Crash, history, StartsRightly
  <1>7. CASE Recovers
    BY <1>7
    DEF Recovers, AdoptActions, OpenSession, RecoverActions, RecoverClose, Overtake,
        BlockInterrupted, LoadContent, ContentWithdraw, ContentStop, HoldUnfinished, OpenFails,
        Quiet, InCall, history, StartsRightly
  <1>. QED
    BY <1>1, <1>2, <1>3, <1>4, <1>5, <1>6, <1>7 DEF Next

LEMMA FenceStep ==
  ASSUME FInv, StartedInv, StartsRightly, port.fenced, NEW m \in Missions
  PROVE  started'[m] \ started[m] \subseteq port.handed[m] \ port.on_run[m]
  <1>1. CASE started' = started
    BY <1>1
  <1>2. ASSUME NEW n \in Missions, NEW e \in Effects, Starts(n, e), action[n][e] = "prepared"
        PROVE  started'[m] \ started[m] \subseteq port.handed[m] \ port.on_run[m]
    <2>1. e \in port.handed[n] \ port.on_run[n]
      BY <1>2 DEF FInv, FenceInv, HandInv, HandNow
    <2>2. started'[m] = IF m = n THEN started[m] \cup {e} ELSE started[m]
      BY <1>2 DEF Starts, StartedInv
    <2>. QED
      BY <2>1, <2>2
  <1>. QED
    BY <1>1, <1>2 DEF StartsRightly

LEMMA StartedKeeps == StartedInv /\ StartsRightly => StartedInv'
  BY DEF StartedInv, StartsRightly, Starts

(***************************************************************************)
(* The theorems.                                                            *)
(***************************************************************************)
\* In every state of the coordinator, whatever calls race, appends fail or
\* processes die: at most one call works for a mission, and only while its
\* reservation holds or the mission's end is being withdrawn; an action that waits
\* is known to the journal or to a call that will journal or withdraw it; and
\* behind the fence nothing that the port holds waits (busy, reserve_phase,
\* perform, withdraw, fence, adopt_actions).
THEOREM ActionsInvariant == Spec => [](CInv /\ JInv /\ FInv /\ DownInv)
  <1>1. Init => CInv /\ JInv /\ FInv /\ DownInv
    BY InitKeeps, JInit, FInit
  <1>2. CInv /\ JInv /\ FInv /\ DownInv /\ [Next]_vars => (CInv /\ JInv /\ FInv /\ DownInv)'
    BY NextKeeps, JNext, FNext, DownNext
  <1>. QED
    BY <1>1, <1>2, PTL DEF Spec

\* An action that the Owner can still approve while no call is in flight is one the
\* journal names, as long as the journal's replay accepts it: whatever calls raced,
\* whatever append failed and wherever the process stopped, a reopening can find
\* and withdraw it (wait, settle, withdraw, adopt_actions).
THEOREM NothingIsForgotten == Spec => [](JournalAccepted => NothingForgotten)
  <1>1. FInv => (JournalAccepted => NothingForgotten)
    <2>. SUFFICES ASSUME FInv, JournalAccepted, \A c \in AllCalls : call[c] = Idle,
                         NEW m \in Missions, NEW e \in Effects, action[m][e] = "prepared"
                  PROVE  log.mission[m].open_action = e
      BY DEF NothingForgotten
    <2>1. Known(m, e)
      BY DEF FInv, KnownInv, JournalAccepted
    <2>2. ~KnownToCall(m, e)
      BY IdleCall DEF KnownToCall, KnownBy, Carries, Withdraws
    <2>. QED
      BY <2>1, <2>2 DEF Known
  <1>. QED
    BY <1>1, ActionsInvariant, PTL

\* Once a journal append failed, no effect starts in that process any more, whatever
\* was in flight at the break, aside from an action of an earlier port that this one
\* was handed and could not take back (write_record, fence).
THEOREM FenceAlwaysHolds == Spec => FenceHolds
  <1>1. Init => StartedInv
    BY DEF Init, Everywhere, StartedInv
  <1>2. StartedInv /\ [Next]_vars => StartedInv'
    BY StartedNext, StartedKeeps
  <1>3. FInv /\ StartedInv /\ [Next]_vars =>
           [port.fenced => \A m \in Missions :
               started'[m] \ started[m] \subseteq port.handed[m] \ port.on_run[m]]_vars
    BY StartedNext, FenceStep
  <1>. QED
    BY <1>1, <1>2, <1>3, ActionsInvariant, PTL DEF Spec, FenceHolds
=============================================================================
