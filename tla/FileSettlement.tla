--------------------------- MODULE FileSettlement ---------------------------
(***************************************************************************)
(* How a File effect of a File-mode mission is settled.                    *)
(*                                                                         *)
(* One thread advances the mission: it journals the dispatch, reserves the *)
(* effect at the port, proposes it to the broker, journals the wait and    *)
(* polls it.  Any thread may stop the mission, or touch it after somebody  *)
(* engaged the session's cell.  Whoever finds the cell engaged completes   *)
(* the end that the cell's FIRST cause stands for: an ordinary end kept in *)
(* the write-once intent, or a stop, which settles an unresolved File by   *)
(* journaling the start, withdrawing, reading the broker once and writing  *)
(* one terminal line.  The broker forgets a commitment only after it is    *)
(* acknowledged.  A crash loses the broker's knowledge of the File: the    *)
(* recovered journal then ends the mission as uncertain.                   *)
(*                                                                         *)
(* A File effect and its commitment have the same number here.  No page    *)
(* facts: a page's proof adds lines of its own around these.               *)
(***************************************************************************)
EXTENDS Integers, Sequences, FiniteSets, SequencesExt

CONSTANTS
  Stoppers,    \* the threads that stop, touch or read the mission
  Halts,       \* what else may engage the cell: "emergency", "time", "door"
  MaxEffects,  \* File effects of the mission's one phase
  MaxFaults,   \* bound: failed appends, withdrawals and broker reads
  MaxCrashes   \* bound: crashes

ASSUME SettlementAssumption ==
  /\ MaxEffects \in Nat \ {0} /\ MaxFaults \in Nat /\ MaxCrashes \in Nat
  /\ "advance" \notin Stoppers /\ Halts \subseteq {"emergency", "time", "door"}

Adv == "advance"
Threads == Stoppers \cup {Adv}
Effects == 1..MaxEffects
None == 0

(* The halt cell's first cause; "terminal" is the tag of a kept intent. *)
Asked == {"owner", "emergency", "time", "refused", "journal"}
Causes == Asked \cup {"door"}
Outcomes == {"clean", "dirty", "notpub", "uncertain"}

VARIABLES
  up,        \* the process runs
  journal,   \* the mission's lines from its File work on
  broken,    \* inner.broken: an append failed
  m,         \* the mission in memory
  busy,      \* mission.busy: an advance is reserved
  cell,      \* the session's halt cell: its first cause, or "none"
  intent,    \* file.terminal: the write-once ordinary end
  resolved,  \* the deadline intent's one snapshot, or "none"
  port,      \* the port: file_effects, waiting and ended
  broker,    \* each commitment's state at the broker
  cancelled, \* the mission's run is cancelled at the broker
  acked,     \* the commitments acknowledged at the broker
  th,        \* where each thread is
  disk,      \* ghost: the Files that were published
  begun,     \* ghost: the Files whose execution the Owner let begin
  faults, crashes

vars == <<up, journal, broken, m, busy, cell, intent, resolved, port, broker,
          cancelled, acked, th, disk, begun, faults, crashes>>

memory == <<journal, broken, m, busy>>
halt == <<cell, intent, resolved>>
outside == <<port, broker, cancelled, acked, disk, begun>>
-----------------------------------------------------------------------------
(* The mission's state, shared by the live coordinator and by replay. *)

Blank == [state |-> "working", gen |-> 0, next |-> 1, unsettled |-> None,
          unresolved |-> None, awaited |-> None, waiting |-> None,
          open |-> None, settlement |-> "none", acks |-> {},
          uncertain |-> FALSE, end |-> "none"]

Ended == m.state = "ended"

Conclusive(out) == out # "uncertain"

(* SettleCause::end: how a File that was stopped for cause ends. *)
EndOf(cause, out) ==
  CASE out = "uncertain" -> "uncertain"
    [] out = "dirty" -> "recovery"
    [] out = "clean" -> "published at " \o cause
    [] OTHER -> cause

(* ordinary_end or_else deadline_end: how it ends without a stop. *)
OrdinaryEnd(out) ==
  CASE out = "clean" -> "deadline"
    [] out = "dirty" -> "recovery"
    [] out = "uncertain" -> "uncertain"
    [] OTHER -> "none"

Trig(kind, effect, end) ==
  [kind |-> kind, effect |-> effect, act |-> None, out |-> "none", end |-> end]

Settling(effect, act, out, end) ==
  [kind |-> "settled", effect |-> effect, act |-> act, out |-> out, end |-> end]

Resolving == {"approved", "denied", "lapsed"}
PlainEnds == {"stop", "fail"}

Legal(mm, t) ==
  \/ t.kind = "await" /\ mm.state = "working"
  \/ t.kind \in Resolving /\ mm.state = "awaiting"
  \/ t.kind = "fail" /\ mm.state = "working"
  \/ t.kind \in {"stop", "settled"} /\ mm.state # "ended"

Apply(mm, t) ==
  LET resolves == t.kind \in Resolving /\ mm.waiting # None
                  /\ mm.unresolved = mm.waiting
      concluded == t.kind = "settled" /\ t.act # None /\ Conclusive(t.out)
  IN [mm EXCEPT
        !.acks = @ \cup (IF resolves /\ mm.open = mm.waiting THEN {mm.open} ELSE {})
                   \cup (IF concluded THEN {t.act} ELSE {}),
        !.unresolved = IF resolves \/ t.kind = "settled" THEN None ELSE @,
        !.unsettled = IF t.kind = "settled" THEN None ELSE @,
        !.uncertain = IF t.kind = "settled" THEN ~Conclusive(t.out) ELSE @,
        !.waiting = IF t.kind = "await" THEN t.effect
                    ELSE IF t.kind \in PlainEnds THEN @ ELSE None,
        !.state = IF t.kind = "await" THEN "awaiting"
                  ELSE IF t.kind = "approved" THEN "working" ELSE "ended",
        !.end = t.end,
        !.awaited = None,
        !.gen = @ + 1]

Line(tag, effect, what) == [tag |-> tag, effect |-> effect, what |-> what]
Moved(t) == [tag |-> "moved", trig |-> t]

(* apply_entry: what replay makes of one line, or a refused mission. *)
Refused == [Blank EXCEPT !.state = "refused"]

ReplayMoved(mm, t) ==
  LET expected ==
        IF mm.settlement # "none" THEN EndOf(mm.settlement, t.out)
        ELSE IF mm.unresolved = t.effect /\ mm.waiting = t.effect
             THEN OrdinaryEnd(t.out) ELSE "none"
      ok == /\ Legal(mm, t)
            /\ (mm.unresolved # None => t.kind \notin PlainEnds)
            /\ (mm.settlement # "none" => t.kind = "settled")
            /\ (mm.unsettled # None => t.kind \in {"stop", "settled"})
            /\ (t.kind = "await" => mm.awaited = t.effect)
            /\ (t.kind \in Resolving => mm.waiting = t.effect)
            /\ (t.kind = "settled" =>
                  /\ expected = t.end /\ expected # "none"
                  /\ (mm.open = t.effect => t.act = mm.open))
  IN IF ok THEN Apply(mm, t) ELSE Refused

ReplayOther(mm, l) ==
  LET ok ==
        CASE l.tag = "dispatched" ->
               /\ mm.state = "working" /\ l.effect = mm.next
               /\ mm.unsettled = None /\ mm.open = None /\ mm.settlement = "none"
          [] l.tag = "outcome" -> mm.unsettled = l.effect
          [] l.tag = "pending" -> /\ mm.state = "working" /\ mm.awaited = l.effect
                                  /\ mm.open = None /\ mm.settlement = "none"
          [] l.tag = "closed" -> /\ mm.unresolved = None /\ ~mm.uncertain
                                 /\ mm.open = l.effect
          [] OTHER -> /\ mm.state # "ended" /\ mm.settlement = "none"
                      /\ mm.unresolved = l.effect
  IN IF ~ok THEN Refused
     ELSE CASE l.tag = "dispatched" ->
                 [mm EXCEPT !.next = @ + 1, !.unsettled = l.effect,
                            !.unresolved = l.effect, !.awaited = None]
            [] l.tag = "outcome" ->
                 [mm EXCEPT !.unsettled = None,
                            !.awaited = IF l.what = "awaiting" THEN l.effect ELSE @,
                            !.unresolved = IF l.what = "awaiting" THEN @ ELSE None]
            [] l.tag = "pending" -> [mm EXCEPT !.open = l.effect]
            [] l.tag = "closed" -> [mm EXCEPT !.open = None]
            [] OTHER -> [mm EXCEPT !.settlement = l.what, !.gen = @ + 1]

ReplayStep(mm, l) ==
  IF mm.state = "refused" THEN mm
  ELSE IF l.tag = "moved" THEN ReplayMoved(mm, l.trig) ELSE ReplayOther(mm, l)

Replay(lines) == FoldLeft(ReplayStep, Blank, lines)
-----------------------------------------------------------------------------
(* The journal. A failed append breaks the coordinator; its line may be on *)
(* the disk all the same.                                                  *)

Usable == ~broken

Writes(l) == journal' = Append(journal, l) /\ broken' = FALSE /\ faults' = faults

FailsToWrite(l) ==
  /\ faults < MaxFaults
  /\ faults' = faults + 1
  /\ broken' = TRUE
  /\ journal' \in {journal, Append(journal, l)}

Quiet == UNCHANGED <<journal, broken, faults>>

CannotWrite(l) == IF Usable THEN FailsToWrite(l) ELSE Quiet

Idle == [pc |-> "idle", gen |-> 0, path |-> "none", cause |-> "none",
         effect |-> None, pend |-> None, act |-> None, out |-> "none",
         res |-> FALSE, owed |-> {}]

Go(t, pc) == th' = [th EXCEPT ![t].pc = pc]
Returns(t) == /\ th' = [th EXCEPT ![t] = Idle]
              /\ busy' = (busy /\ t # Adv)

(* engage_tagged: the first cause stays. *)
Engage(cause) == cell' = IF cell = "none" THEN cause ELSE cell
-----------------------------------------------------------------------------
(* file_stop, and the ends it stands for. *)

(* A session is handed out once: a recovered mission is ended before. *)
Serving == up /\ crashes = 0

(* The owner's Stop, or a touch that finds the cell engaged. *)
StopCalled(t) ==
  /\ Serving /\ t \in Stoppers /\ th[t].pc = "idle"
  /\ Engage("owner")
  /\ Go(t, "first")
  /\ UNCHANGED <<up, memory, intent, resolved, outside, faults, crashes>>

Touched(t) ==
  /\ Serving /\ t \in Stoppers /\ th[t].pc = "idle" /\ cell # "none"
  /\ Go(t, "first")
  /\ UNCHANGED <<up, memory, halt, outside, faults, crashes>>

(* The session's budget, the kernel's stop or a halted door. *)
CellEngaged(cause) ==
  /\ Serving /\ cell = "none" /\ cause \in Halts
  /\ cell' = cause
  /\ UNCHANGED <<up, memory, intent, resolved, outside, th, faults, crashes>>

(* The end the cell's first cause stands for. *)
EndFor(l) ==
  IF cell # "terminal" THEN [l EXCEPT !.pc = "end", !.cause = cell, !.path = "plain"]
  ELSE CASE intent.kind = "failure" ->
              [l EXCEPT !.pc = "end", !.cause = "interrupted", !.path = "failure"]
         [] intent.kind = "nonpub" ->
              [l EXCEPT !.pc = "nonpub", !.gen = intent.gen, !.cause = intent.end,
                        !.effect = intent.effect]
         [] intent.kind = "pub" ->
              [l EXCEPT !.pc = "terminal", !.gen = intent.gen, !.res = TRUE,
                        !.effect = intent.effect, !.act = intent.effect,
                        !.out = intent.out]
         [] intent.kind = "deadline" ->
              [l EXCEPT !.pc = IF resolved = "none" THEN "withdraw" ELSE "lapse",
                        !.path = "lapse", !.gen = intent.gen,
                        !.effect = intent.effect]

FirstCause(t) ==
  /\ up /\ th[t].pc = "first"
  /\ th' = [th EXCEPT ![t] = EndFor(@)]
  /\ UNCHANGED <<up, memory, halt, outside, faults, crashes>>

(* file_record_end, under the coordinator's lock. *)
EndRefused(t) ==
  /\ up /\ th[t].pc = "end" /\ ~Usable
  /\ th' = [th EXCEPT ![t].pc = "withdraw", ![t].path = "give up"]
  /\ UNCHANGED <<up, memory, halt, outside, faults, crashes>>

EndAlready(t) ==
  /\ up /\ th[t].pc = "end" /\ Usable /\ Ended
  /\ Go(t, "ack")
  /\ UNCHANGED <<up, memory, halt, outside, faults, crashes>>

(* The journaled identity of the effect's action. *)
OpenOf(effect) == IF m.open = effect THEN m.open ELSE None

SettleAgain(t) ==
  /\ up /\ th[t].pc = "end" /\ Usable /\ ~Ended /\ m.settlement # "none"
  /\ th' = [th EXCEPT ![t].pc = "withdraw", ![t].path = "settle",
                      ![t].effect = m.unresolved, ![t].pend = OpenOf(m.unresolved)]
  /\ UNCHANGED <<up, memory, halt, outside, faults, crashes>>

SettleBegins(t) ==
  /\ up /\ th[t].pc = "end" /\ Usable /\ ~Ended
  /\ m.settlement = "none" /\ m.unresolved # None
  /\ LET l == Line("started", m.unresolved, th[t].cause) IN Writes(l) \/ FailsToWrite(l)
  /\ m' = [m EXCEPT !.settlement = th[t].cause, !.gen = @ + 1]
  /\ th' = [th EXCEPT ![t].pc = "withdraw", ![t].path = "settle",
                      ![t].effect = m.unresolved, ![t].pend = OpenOf(m.unresolved)]
  /\ UNCHANGED <<up, busy, halt, outside, crashes>>

PlainTrigger(l) ==
  IF l.path = "failure" THEN Trig("fail", None, "failed")
  ELSE Trig("stop", None, l.cause)

EndsPlainly(t) ==
  /\ up /\ th[t].pc = "end" /\ Usable /\ ~Ended
  /\ m.settlement = "none" /\ m.unresolved = None
  /\ LET trig == PlainTrigger(th[t])
     IN /\ Writes(Moved(trig)) \/ FailsToWrite(Moved(trig))
        /\ m' = Apply(m, trig)
  /\ th' = [th EXCEPT ![t].pc = "withdraw", ![t].path = "plain"]
  /\ UNCHANGED <<up, busy, halt, outside, crashes>>

(* withdraw_lite: the port's lock first, then the broker. *)
Withdraw(t) ==
  /\ up /\ th[t].pc = "withdraw"
  /\ port' = [port EXCEPT !.ended = TRUE]
  /\ Go(t, "cancel")
  /\ UNCHANGED <<up, memory, halt, broker, cancelled, acked, disk, begun, faults, crashes>>

AfterWithdrawal(path) ==
  CASE path = "settle" -> "read"
    [] path = "lapse" -> "read"
    [] path = "plain" -> "close"
    [] OTHER -> "return"

(* The next part of a thread's end, after its withdrawal. *)
CancelRun(t) ==
  /\ up /\ th[t].pc = "cancel"
  /\ \/ /\ cancelled' = TRUE
        /\ broker' = [e \in Effects |-> IF broker[e] = "prepared" THEN "cancelled"
                                        ELSE broker[e]]
        /\ faults' = faults
     \/ /\ faults < MaxFaults /\ faults' = faults + 1
        /\ UNCHANGED <<cancelled, broker>>
  /\ Go(t, AfterWithdrawal(th[t].path))
  /\ UNCHANGED <<up, memory, halt, port, acked, disk, begun, crashes>>

\* Mutant of Class: a commitment still pending is read as not published.
ClassPendingIsNot(state) ==
  CASE state = "clean" -> "clean"
    [] state = "dirty" -> "dirty"
    [] state = "unknown" -> "uncertain"
    [] OTHER -> "notpub"

(* publication_lite: nothing reserved, the commitment's class, or an error *)
(* that never means nothing was published.                                 *)
Class(state) ==
  CASE state = "clean" -> "clean"
    [] state = "dirty" -> "dirty"
    [] state \in {"cancelled", "denied", "expired", "failed"} -> "notpub"
    [] OTHER -> "uncertain"

Reserved(effect) == port.effect >= effect
Held(effect) == port.effect = effect /\ port.waiting = effect

Snapshot(effect) ==
  IF ~Reserved(effect) THEN [is |-> "absent", state |-> "none"]
  ELSE IF Held(effect) THEN [is |-> "held", state |-> broker[effect]]
  ELSE [is |-> "error", state |-> "none"]

(* file_record_end's one reading after the withdrawal. *)
ReadToSettle(l, s) ==
  CASE s.is = "held" /\ l.pend \in {None, l.effect} ->
         [l EXCEPT !.act = l.effect, !.out = Class(s.state)]
    [] s.is = "absent" /\ l.pend = None ->
         [l EXCEPT !.act = None, !.out = "notpub"]
    [] OTHER -> [l EXCEPT !.act = l.pend, !.out = "uncertain"]

ReadFailed == [is |-> "error", state |-> "none"]

Readings(effect) ==
  {<<Snapshot(effect), 0>>} \cup (IF faults < MaxFaults THEN {<<ReadFailed, 1>>} ELSE {})

SettleReads(t) ==
  /\ up /\ th[t].pc = "read" /\ th[t].path = "settle"
  /\ \E s \in Readings(th[t].effect) :
       /\ th' = [th EXCEPT ![t] = [ReadToSettle(@, s[1]) EXCEPT !.pc = "terminal",
                                                               !.res = FALSE]]
       /\ faults' = faults + s[2]
  /\ UNCHANGED <<up, memory, halt, outside, crashes>>

(* file_finish_deadline: only the first snapshot installed is recorded. *)
DeadlineReads(t) ==
  /\ up /\ th[t].pc = "read" /\ th[t].path = "lapse"
  /\ \E s \in Readings(th[t].effect) :
       /\ resolved' = IF resolved # "none" THEN resolved
                      ELSE IF s[1].is = "held" THEN s[1].state ELSE "unknown"
       /\ faults' = faults + s[2]
  /\ Go(t, "lapse")
  /\ UNCHANGED <<up, memory, cell, intent, outside, crashes>>

DeadlineResolves(t) ==
  /\ up /\ th[t].pc = "lapse"
  /\ th' = [th EXCEPT ![t] =
       IF Class(resolved) = "notpub"
       THEN [@ EXCEPT !.pc = "nonpub",
                      !.cause = IF resolved = "denied" THEN "denied" ELSE "lapsed"]
       ELSE [@ EXCEPT !.pc = "terminal", !.res = TRUE, !.act = intent.effect,
                      !.out = Class(resolved)]]
  /\ UNCHANGED <<up, memory, halt, outside, faults, crashes>>

(* file_record_terminal. *)
Recordable(l) ==
  LET expected == IF m.settlement # "none" /\ ~l.res THEN EndOf(m.settlement, l.out)
                  ELSE IF m.settlement = "none" /\ l.res /\ m.gen = l.gen
                          /\ m.waiting = m.unresolved /\ m.waiting # None
                       THEN OrdinaryEnd(l.out) ELSE "none"
  IN /\ expected # "none"
     /\ m.unresolved = l.effect
     /\ m.open \in {None, l.effect}
     /\ (m.open = l.effect =>
           l.act = m.open \/ (l.act = None /\ l.out = "uncertain"))

TerminalTrigger(l) ==
  Settling(l.effect, IF m.open = l.effect THEN m.open ELSE l.act, l.out,
           IF l.res THEN OrdinaryEnd(l.out) ELSE EndOf(m.settlement, l.out))

TerminalRefused(t) ==
  /\ up /\ th[t].pc = "terminal"
  /\ ~Usable \/ (~Ended /\ ~Recordable(th[t]))
  /\ Returns(t)
  /\ UNCHANGED <<up, journal, broken, m, halt, outside, faults, crashes>>

AfterTerminal(l) ==
  IF l.res THEN [l EXCEPT !.pc = "withdraw", !.path = "plain"]
  ELSE [l EXCEPT !.pc = "close"]

TerminalAlready(t) ==
  /\ up /\ th[t].pc = "terminal" /\ Usable /\ Ended
  /\ th' = [th EXCEPT ![t] = AfterTerminal(@)]
  /\ UNCHANGED <<up, memory, halt, outside, faults, crashes>>

RecordTerminal(t) ==
  /\ up /\ th[t].pc = "terminal" /\ Usable /\ ~Ended /\ Recordable(th[t])
  /\ LET trig == TerminalTrigger(th[t])
     IN \/ /\ Writes(Moved(trig))
           /\ m' = Apply(m, trig)
           /\ th' = [th EXCEPT ![t] = AfterTerminal(@)]
           /\ UNCHANGED busy
        \/ /\ FailsToWrite(Moved(trig))
           /\ Returns(t)
           /\ UNCHANGED m
  /\ UNCHANGED <<up, halt, outside, crashes>>

(* file_record_nonpublication. *)
NonpublicationRefused(t) ==
  /\ up /\ th[t].pc = "nonpub"
  /\ ~Usable \/ (~Ended /\ (m.gen # th[t].gen \/ m.settlement # "none"))
  /\ Returns(t)
  /\ UNCHANGED <<up, journal, broken, m, halt, outside, faults, crashes>>

NonpublicationAlready(t) ==
  /\ up /\ th[t].pc = "nonpub" /\ Usable /\ Ended
  /\ th' = [th EXCEPT ![t].pc = "withdraw", ![t].path = "plain"]
  /\ UNCHANGED <<up, memory, halt, outside, faults, crashes>>

RecordNonpublication(t) ==
  /\ up /\ th[t].pc = "nonpub" /\ Usable /\ ~Ended
  /\ m.gen = th[t].gen /\ m.settlement = "none"
  /\ LET trig == Trig(th[t].cause, th[t].effect, th[t].cause)
     IN \/ /\ Writes(Moved(trig))
           /\ m' = Apply(m, trig)
           /\ th' = [th EXCEPT ![t].pc = "withdraw", ![t].path = "plain"]
           /\ UNCHANGED busy
        \/ /\ FailsToWrite(Moved(trig))
           /\ Returns(t)
           /\ UNCHANGED m
  /\ UNCHANGED <<up, halt, outside, crashes>>

(* file_close_action. *)
Closable == /\ ~m.uncertain /\ m.unresolved = None
            /\ m.open # None /\ m.open \in m.acks

CloseAction(t) ==
  /\ up /\ th[t].pc = "close"
  /\ \/ /\ Usable /\ Closable
        /\ \/ Writes(Line("closed", m.open, "none")) /\ m' = [m EXCEPT !.open = None]
           \/ FailsToWrite(Line("closed", m.open, "none")) /\ UNCHANGED m
     \/ /\ ~(Usable /\ Closable)
        /\ Quiet /\ UNCHANGED m
  /\ Go(t, "ack")
  /\ UNCHANGED <<up, busy, halt, outside, crashes>>

(* file_ack_all: the broker lets go of what is owed an acknowledgement, *)
(* then the debt is retired in memory.                                  *)
Acknowledged(owed) == {e \in owed : Class(broker[e]) # "uncertain" \/ broker[e] = "gone"}

AckAll(t) ==
  /\ up /\ th[t].pc = "ack" /\ Usable
  /\ LET done == Acknowledged(m.acks)
     IN /\ acked' = acked \cup done
        /\ port' = [port EXCEPT !.waiting = IF @ \in done THEN None ELSE @]
        /\ th' = [th EXCEPT ![t].pc = "retire", ![t].owed = done]
  /\ UNCHANGED <<up, memory, halt, broker, cancelled, disk, begun, faults, crashes>>

AckRefused(t) ==
  /\ up /\ th[t].pc = "ack" /\ ~Usable
  /\ Go(t, "return")
  /\ UNCHANGED <<up, memory, halt, outside, faults, crashes>>

Retire(t) ==
  /\ up /\ th[t].pc = "retire"
  /\ m' = [m EXCEPT !.acks = @ \ th[t].owed]
  /\ th' = [th EXCEPT ![t].pc = "return", ![t].owed = {}]
  /\ UNCHANGED <<up, journal, broken, busy, halt, outside, faults, crashes>>

StopReturns(t) ==
  /\ up /\ th[t].pc = "return"
  /\ Returns(t)
  /\ UNCHANGED <<up, journal, broken, m, halt, outside, faults, crashes>>

(* What a thread that found the cell engaged does next. *)
StopStep(t) ==
  \/ FirstCause(t) \/ EndRefused(t) \/ EndAlready(t) \/ SettleAgain(t)
  \/ SettleBegins(t) \/ EndsPlainly(t) \/ Withdraw(t) \/ CancelRun(t)
  \/ SettleReads(t) \/ DeadlineReads(t) \/ DeadlineResolves(t)
  \/ TerminalRefused(t) \/ TerminalAlready(t) \/ RecordTerminal(t)
  \/ NonpublicationRefused(t) \/ NonpublicationAlready(t)
  \/ RecordNonpublication(t) \/ CloseAction(t) \/ AckAll(t) \/ AckRefused(t)
  \/ Retire(t) \/ StopReturns(t)
-----------------------------------------------------------------------------
(* The advance: dispatch, wait and poll. *)

At(pc) == up /\ th[Adv].pc = pc

(* file_boundary: an engaged cell ends the mission instead of the step. *)
Boundary(pc, next) ==
  /\ At(pc)
  /\ Go(Adv, IF cell = "none" THEN next ELSE "first")
  /\ UNCHANGED <<up, memory, halt, outside, faults, crashes>>

(* end(reason): a caller that must end the mission engages the cell. *)
EndsWith(cause) ==
  /\ Engage(cause)
  /\ Go(Adv, "first")
  /\ UNCHANGED <<intent, resolved>>

Advance ==
  /\ Serving /\ At("idle") /\ Usable /\ ~busy
  /\ \/ m.state = "working" /\ m.next <= MaxEffects
     \/ m.state = "awaiting"
  /\ busy' = TRUE
  /\ th' = [th EXCEPT ![Adv] = [Idle EXCEPT !.gen = m.gen,
              !.pc = IF m.state = "awaiting" THEN "poll boundary" ELSE "boundary"]]
  /\ UNCHANGED <<up, journal, broken, m, halt, outside, faults, crashes>>

(* A lane fails the phase: the failure is kept before the cell shows it. *)
PhaseFails ==
  /\ Serving /\ At("idle") /\ Usable /\ m.state = "working" /\ cell = "none"
  /\ busy' = TRUE
  /\ th' = [th EXCEPT ![Adv] = [Idle EXCEPT !.pc = "latch", !.gen = m.gen,
                                           !.path = "failure"]]
  /\ UNCHANGED <<up, journal, broken, m, halt, outside, faults, crashes>>

(* The exact reservation an outcome is written under. *)
Exact == /\ m.gen = th[Adv].gen /\ m.unsettled = th[Adv].effect
         /\ m.settlement = "none" /\ ~Ended

(* An advance whose reservation is gone returns Stopped. *)
Stale ==
  /\ up
  /\ \/ /\ th[Adv].pc \in {"dispatch", "await", "poll", "decide"}
        /\ m.gen # th[Adv].gen
     \/ th[Adv].pc = "settle" /\ Usable /\ ~Exact
     \/ th[Adv].pc = "pend" /\ Usable /\ m.gen # th[Adv].gen
  /\ Returns(Adv)
  /\ UNCHANGED <<up, journal, broken, m, halt, outside, faults, crashes>>

Current(pc) == At(pc) /\ m.gen = th[Adv].gen

Dispatch ==
  /\ Current("dispatch")
  /\ \/ /\ Usable
        /\ Writes(Line("dispatched", m.next, "none"))
        /\ m' = [m EXCEPT !.next = @ + 1, !.unsettled = m.next, !.unresolved = m.next]
        /\ th' = [th EXCEPT ![Adv].pc = "perform boundary", ![Adv].effect = m.next]
        /\ UNCHANGED busy
     \/ /\ CannotWrite(Line("dispatched", m.next, "none"))
        /\ Returns(Adv)
        /\ UNCHANGED m
  /\ UNCHANGED <<up, halt, outside, crashes>>

Outcome(out) == th' = [th EXCEPT ![Adv].pc = "settle boundary", ![Adv].out = out]

(* perform_file: the reservation, under the port's lock. *)
MayReserve(effect) == cell = "none" /\ ~port.ended /\ port.effect < effect

Reserve ==
  /\ At("reserve")
  /\ LET effect == th[Adv].effect
     IN \/ /\ MayReserve(effect)
           /\ port' = [port EXCEPT !.effect = effect, !.waiting = None]
           /\ Go(Adv, "propose")
        \/ /\ ~MayReserve(effect)
           /\ Outcome("refused")
           /\ UNCHANGED port
  /\ UNCHANGED <<up, memory, halt, broker, cancelled, acked, disk, begun, faults, crashes>>

(* perform_inner: the broker prepares a commitment for the live run. *)
Propose ==
  /\ At("propose")
  /\ \/ /\ cell = "none" /\ ~cancelled
        /\ broker' = [broker EXCEPT ![th[Adv].effect] = "prepared"]
        /\ Go(Adv, "insert")
     \/ /\ Outcome("refused")
        /\ UNCHANGED broker
  /\ UNCHANGED <<up, memory, halt, port, cancelled, acked, disk, begun, faults, crashes>>

Insert ==
  /\ At("insert")
  /\ port' = [port EXCEPT !.waiting = th[Adv].effect]
  /\ Outcome("awaiting")
  /\ UNCHANGED <<up, memory, halt, broker, cancelled, acked, disk, begun, faults, crashes>>

Settle ==
  /\ At("settle") /\ (Usable => Exact)
  /\ LET l == Line("outcome", th[Adv].effect, th[Adv].out)
         refused == th[Adv].out = "refused"
     IN \/ /\ Usable /\ Writes(l)
           /\ m' = [m EXCEPT !.unsettled = None,
                             !.unresolved = IF refused THEN None ELSE @]
           /\ IF refused THEN EndsWith("refused")
              ELSE Go(Adv, "pend") /\ UNCHANGED halt
        \/ /\ CannotWrite(l)
           /\ EndsWith("journal")
           /\ UNCHANGED m
  /\ UNCHANGED <<up, busy, outside, crashes>>

(* wait: the action's identity first, then the wait. *)
Pend ==
  /\ At("pend") /\ (Usable => m.gen = th[Adv].gen)
  /\ LET l == Line("pending", th[Adv].effect, "none")
     IN IF port.waiting # th[Adv].effect
        THEN Go(Adv, "await") /\ Quiet /\ UNCHANGED <<m, halt>>
        ELSE \/ /\ Usable /\ Writes(l)
                /\ m' = [m EXCEPT !.open = th[Adv].effect]
                /\ Go(Adv, "await")
                /\ UNCHANGED halt
             \/ /\ CannotWrite(l)
                /\ EndsWith("journal")
                /\ UNCHANGED m
  /\ UNCHANGED <<up, busy, outside, crashes>>

\* Mutant of Fires: a begun settlement and the cell are not looked at.
FiresAnyway(t) == Legal(m, t)

(* fire: nothing but an end is taken while the cell is engaged. *)
Fires(t) == m.settlement = "none" /\ cell = "none" /\ Legal(m, t)

Await ==
  /\ Current("await")
  /\ LET t == Trig("await", th[Adv].effect, "none")
     IN \/ /\ Usable /\ Fires(t)
           /\ Writes(Moved(t))
           /\ m' = Apply(m, t)
           /\ Returns(Adv)
           /\ UNCHANGED halt
        \/ /\ ~Fires(t)
           /\ Returns(Adv)
           /\ Quiet /\ UNCHANGED <<m, halt>>
        \/ /\ Fires(t) /\ CannotWrite(Moved(t))
           /\ EndsWith("journal")
           /\ UNCHANGED <<m, busy>>
  /\ UNCHANGED <<up, outside, crashes>>

(* file_approval: a wait past its deadline is withdrawn before it is read. *)
PollElapsed ==
  /\ Current("poll")
  /\ th' = [th EXCEPT ![Adv].pc = "latch", ![Adv].path = "deadline",
                      ![Adv].effect = m.waiting]
  /\ UNCHANGED <<up, memory, halt, outside, faults, crashes>>

Pending(state) == state \in {"prepared", "executing"}

(* An unclean or unknown publication goes to its own terminal at once; the *)
(* others look at the reservation again.                                   *)
PollReads ==
  /\ Current("poll")
  /\ \E s \in Readings(m.waiting) :
       LET state == IF s[1].is = "held" THEN s[1].state ELSE "unknown"
           unclean == ~Pending(state) /\ Class(state) \in {"dirty", "uncertain"}
       IN /\ th' = [th EXCEPT ![Adv] = [@ EXCEPT
                      !.effect = m.waiting,
                      !.pc = IF unclean THEN "latch" ELSE "decide",
                      !.path = IF unclean THEN "pub" ELSE @,
                      !.out = IF unclean THEN Class(state) ELSE state]]
          /\ faults' = faults + s[2]
  /\ UNCHANGED <<up, memory, halt, outside, crashes>>

PollDecides ==
  /\ Current("decide")
  /\ \/ /\ ~Usable \/ Pending(th[Adv].out)
        /\ Returns(Adv)
     \/ /\ Usable /\ th[Adv].out = "clean"
        /\ Go(Adv, "approve boundary")
        /\ UNCHANGED busy
     \/ /\ Usable /\ Class(th[Adv].out) = "notpub"
        /\ th' = [th EXCEPT ![Adv].pc = "latch", ![Adv].path = "nonpub",
                            ![Adv].cause = IF th[Adv].out = "denied" THEN "denied"
                                           ELSE "lapsed"]
        /\ UNCHANGED busy
  /\ UNCHANGED <<up, journal, broken, m, halt, outside, faults, crashes>>

(* file_latch_terminal: the write-once intent, then the cell's tag. *)
Intended(l) == [kind |-> l.path, gen |-> l.gen, effect |-> l.effect,
                end |-> l.cause, out |-> l.out]

Latch ==
  /\ At("latch")
  /\ intent' = IF intent.kind = "none" THEN Intended(th[Adv]) ELSE intent
  /\ Go(Adv, "tag")
  /\ UNCHANGED <<up, memory, cell, resolved, outside, faults, crashes>>

Tag ==
  /\ At("tag")
  /\ Engage("terminal")
  /\ Go(Adv, "first")
  /\ UNCHANGED <<up, memory, intent, resolved, outside, faults, crashes>>

Approve ==
  /\ At("approve")
  /\ LET t == Trig("approved", th[Adv].effect, "none")
     IN \/ /\ Usable /\ Fires(t)
           /\ Writes(Moved(t))
           /\ m' = Apply(m, t)
           /\ th' = [th EXCEPT ![Adv].pc = "close", ![Adv].path = "approved",
                               ![Adv].out = "none"]
           /\ UNCHANGED busy
        \/ /\ IF Fires(t) THEN CannotWrite(Moved(t)) ELSE Quiet
           /\ Returns(Adv)
           /\ UNCHANGED m
  /\ UNCHANGED <<up, halt, outside, crashes>>

AdvanceStep ==
  \/ Boundary("boundary", "dispatch") \/ Boundary("perform boundary", "reserve")
  \/ Boundary("settle boundary", "settle") \/ Boundary("poll boundary", "poll")
  \/ Boundary("approve boundary", "approve")
  \/ Stale \/ Dispatch \/ Reserve \/ Propose \/ Insert \/ Settle \/ Pend \/ Await
  \/ PollElapsed \/ PollReads \/ PollDecides \/ Latch \/ Tag
  \/ Approve
-----------------------------------------------------------------------------
(* The broker: the Owner's answer, the execution and its end. *)

OwnerAnswers(e) ==
  /\ up /\ broker[e] = "prepared"
  /\ \/ /\ cell = "none" /\ ~cancelled
        /\ broker' = [broker EXCEPT ![e] = "executing"]
        /\ begun' = begun \cup {e}
     \/ /\ broker' \in {[broker EXCEPT ![e] = s] : s \in {"denied", "expired"}}
        /\ UNCHANGED begun
  /\ UNCHANGED <<up, memory, halt, port, cancelled, acked, disk, th, faults, crashes>>

Publish(e) ==
  /\ up /\ broker[e] = "executing" /\ e \notin disk
  /\ disk' = disk \cup {e}
  /\ UNCHANGED <<up, memory, halt, port, broker, cancelled, acked, begun, th,
                 faults, crashes>>

(* A cancelled run's publication is marked interrupted. *)
ExecutionEnds(e) ==
  /\ up /\ broker[e] = "executing"
  /\ \E s \in IF e \in disk
              THEN {"dirty", "unknown"} \cup (IF cancelled THEN {} ELSE {"clean"})
              ELSE {"failed", "unknown"} :
       broker' = [broker EXCEPT ![e] = s]
  /\ UNCHANGED <<up, memory, halt, port, cancelled, acked, disk, begun, th,
                 faults, crashes>>

(* The process dies: the broker's memory goes with it, the Files stay.  *)
(* The next process has for its mission what replay makes of the lines. *)
Crash ==
  /\ up /\ crashes < MaxCrashes
  /\ up' = FALSE /\ crashes' = crashes + 1
  /\ broken' = FALSE /\ busy' = FALSE
  /\ m' = Replay(journal)
  /\ cell' = "none" /\ resolved' = "none"
  /\ intent' = [kind |-> "none", gen |-> 0, effect |-> None, end |-> "none", out |-> "none"]
  /\ port' = [effect |-> None, waiting |-> None, ended |-> FALSE]
  /\ broker' = [e \in Effects |-> "gone"]
  /\ cancelled' = FALSE
  /\ th' = [t \in Threads |-> Idle]
  /\ UNCHANGED <<journal, acked, disk, begun, faults>>

(* recover_files' first section; an append that fails here fails the whole *)
(* opening, which is as if the process had not come up.                   *)
Recover ==
  /\ ~up
  /\ \/ /\ Ended
        /\ Go(Adv, "close")
        /\ Quiet /\ UNCHANGED m
     \/ /\ ~Ended /\ m.unresolved # None
        /\ IF m.settlement = "none"
           THEN /\ Writes(Line("started", m.unresolved, "door"))
                /\ m' = [m EXCEPT !.settlement = "door"]
           ELSE Quiet /\ UNCHANGED m
        /\ th' = [th EXCEPT ![Adv].pc = "terminal", ![Adv].effect = m.unresolved,
                            ![Adv].out = "uncertain"]
     \/ /\ ~Ended /\ m.unresolved = None
        /\ Writes(Moved(Trig("stop", None, "door")))
        /\ m' = Apply(m, Trig("stop", None, "door"))
        /\ Go(Adv, "close")
  /\ up' = TRUE
  /\ busy' = TRUE
  /\ UNCHANGED <<halt, outside, crashes>>

Init ==
  /\ up = TRUE /\ journal = <<>> /\ broken = FALSE /\ m = Blank /\ busy = FALSE
  /\ cell = "none" /\ resolved = "none"
  /\ intent = [kind |-> "none", gen |-> 0, effect |-> None, end |-> "none", out |-> "none"]
  /\ port = [effect |-> None, waiting |-> None, ended |-> FALSE]
  /\ broker = [e \in Effects |-> "none"]
  /\ cancelled = FALSE /\ acked = {} /\ disk = {} /\ begun = {}
  /\ th = [t \in Threads |-> Idle]
  /\ faults = 0 /\ crashes = 0

Next ==
  \/ \E t \in Stoppers : StopCalled(t) \/ Touched(t)
  \/ \E t \in Threads : StopStep(t)
  \/ \E c \in Halts : CellEngaged(c)
  \/ Advance \/ PhaseFails \/ AdvanceStep
  \/ \E e \in Effects : OwnerAnswers(e) \/ Publish(e) \/ ExecutionEnds(e)
  \/ Crash \/ Recover

Spec == Init /\ [][Next]_vars

(* A thread that calls the coordinator runs on to the call's return, and a *)
(* dead process is opened again; nothing is assumed of the broker, of the  *)
(* Owner or of the advance.                                                *)
FairSpec ==
  /\ Spec
  /\ \A t \in Threads : WF_vars(StopStep(t))
  /\ WF_vars(Recover)
-----------------------------------------------------------------------------
TypeOK ==
  /\ up \in BOOLEAN /\ broken \in BOOLEAN /\ busy \in BOOLEAN
  /\ m.state \in {"working", "awaiting", "ended"}
  /\ {m.unsettled, m.unresolved, m.waiting, m.open} \subseteq Effects \cup {None}
  /\ m.acks \subseteq Effects
  /\ m.settlement \in Causes \cup {"none", "interrupted"}
  /\ cell \in Causes \cup {"none", "terminal"}
  /\ intent.kind \in {"none", "failure", "nonpub", "pub", "deadline"}
  /\ (cell = "terminal" => intent.kind # "none")
  /\ port.effect \in Effects \cup {None} /\ port.waiting \in Effects \cup {None}
  /\ faults \in 0..MaxFaults

(* The lines that say what became of effect e, and what they say. *)
Says(l, e) ==
  CASE l.tag # "moved" -> "nothing"
    [] l.trig.effect # e -> "nothing"
    [] l.trig.kind = "approved" -> "clean"
    [] l.trig.kind \in {"denied", "lapsed"} -> "notpub"
    [] l.trig.kind = "settled" -> l.trig.out
    [] OTHER -> "nothing"

Recorded(e) == {Says(journal[i], e) : i \in DOMAIN journal} \ {"nothing"}

(* Whatever races and wherever the process dies, replay accepts the        *)
(* journal, and while no append has failed the mission it rebuilds is the  *)
(* one in memory: state, effect, wait, identity, settlement and end.       *)
JournalAgrees ==
  LET r == Replay(journal)
  IN /\ r.state # "refused"
     /\ (up /\ ~broken =>
           [r EXCEPT !.gen = m.gen, !.acks = m.acks, !.awaited = m.awaited] = m)

(* A File journaled as not published never reaches the disk, and one       *)
(* journaled as published is on it, however its settlement raced with the  *)
(* proposal, the Owner and the execution.                                  *)
OutcomeIsTrue ==
  \A e \in Effects :
    /\ ("notpub" \in Recorded(e) => e \notin disk)
    /\ (Recorded(e) \cap {"clean", "dirty"} # {} => e \in disk)

(* The broker is told to forget a File only after what became of it is in  *)
(* the journal, and never one that is uncertain.                           *)
ForgottenIsRecorded ==
  \A e \in acked : Recorded(e) # {} /\ "uncertain" \notin Recorded(e)

(* The journaled cause of a live settlement is the cause that engaged the  *)
(* cell first, whoever completes it.                                       *)
FirstCauseStands ==
  Serving /\ m.settlement # "none" =>
    m.settlement = IF cell = "terminal" THEN "interrupted" ELSE cell

(* With no fault and no crash, a request the Owner never let begin, whose  *)
(* identity was journaled, is not left uncertain: it is withdrawn before   *)
(* the broker is read.                                                     *)
UnansweredIsNotUncertain ==
  faults = 0 /\ crashes = 0 =>
    \A i \in DOMAIN journal :
      journal[i].tag = "pending" /\ journal[i].effect \notin begun =>
        "uncertain" \notin Recorded(journal[i].effect)

(* What becomes of a File is settled truly: its terminal line says what    *)
(* happened, names the first cause, comes before the broker forgets, and   *)
(* calls nothing uncertain that the Owner never let begin.                 *)
SettledTruly ==
  OutcomeIsTrue /\ ForgottenIsRecorded /\ FirstCauseStands /\ UnansweredIsNotUncertain
=============================================================================
