--------------------------- MODULE StopResumeProofs ---------------------------
(***************************************************************************)
(* Proofs, for any number of threads, stops, resumes, runs and work, of     *)
(* what module StopResume states: a Stop that returned stands in both       *)
(* registers, and a resume lifts what its owner was asked about.            *)
(*                                                                          *)
(* A thread carries numbers it read before it let go of a lock.  The        *)
(* inductive invariant says what they are still good for: a number asked    *)
(* about tells whether a newer stop came, a confirmed number is one that a  *)
(* Stop's second engagement leaves behind, and a lift that happened has a   *)
(* newer stop in both registers wherever the broker is stopped again.       *)
(*                                                                          *)
(* The second part is about the halts that the stops cause: each durable    *)
(* one is audited once or counted as missing.                               *)
(***************************************************************************)
EXTENDS StopResume, Sequences, FiniteSetTheorems, TLAPS

Thread == [at : Points, celled : BOOLEAN, snapshot : Nat, confirmed : Nat, number : Numbers,
           cancelled : Nat, lifted : BOOLEAN, asked : Nat]

\* Where a resume holds a number the owner is or was asked about.
Asking == {"dialog", "check_lift", "record", "lift"}

\* Where a thread can be after its lift.
PastLift == {"is_stopped", "lift_if", "final_check", "halted", "engage", "stop_effects",
             "engage_again"}

Newer(x) == broker.number > x.number \/ broker.exhausted
Behind(x) == Stopping \/ x.confirmed < kernel.number

\* What thread record x still says about the registers.
ThreadOK(x) ==
  /\ x.confirmed <= kernel.number
  /\ x.at \in Asking =>
       /\ x.asked = x.number /\ x.asked <= stops
       /\ x.asked = stops /\ broker.stopped => x.cancelled = broker.cancelled
  /\ x.at = "lift" => x.number \in resumed
  /\ x.lifted => x.at \in PastLift /\ x.number <= broker.number
  /\ x.lifted /\ broker.stopped => Newer(x) /\ Behind(x)
  /\ x.lifted /\ x.at = "engage_again" => Newer(x)
  /\ x.at = "lift_if" /\ broker.stopped => Behind(x)

ShapeInv ==
  /\ kernel \in [stopped : BOOLEAN, number : Nat]
  /\ broker \in [stopped : BOOLEAN, number : Numbers, exhausted : BOOLEAN,
                 lifted : Numbers, closed : BOOLEAN, cancelled : Nat]
  /\ cell \in Nat
  /\ runs \in [Runs -> {"none", "live", "ended"}]
  /\ watch \in [Work -> Nat \cup {None}]
  /\ thread \in [Threads -> Thread]
  /\ stops \in Nat
  /\ endedBy \subseteq {r \in Runs : runs[r] = "ended"}

ThreadsInv == \A t \in Threads : ThreadOK(thread[t])

\* The broker's stop is numbered by the stops there were, and counts the runs
\* they ended; a lifted one was recorded.
BrokerInv ==
  /\ ~broker.exhausted => stops = broker.number
  /\ broker.cancelled = Cardinality(endedBy)
  /\ broker.lifted # 0 => broker.lifted \in resumed

\* Wherever the broker is stopped the kernel is, with no work left in it, or a
\* Stop is about to engage it.
KernelInv ==
  /\ \A w \in Work : watch[w] # None => watch[w] <= kernel.number
  /\ broker.stopped => Stopping \/ (/\ kernel.stopped
                                    /\ \A w \in Work : watch[w] # None => watch[w] < kernel.number)

StopInv == ShapeInv /\ ThreadsInv /\ BrokerInv /\ KernelInv

USE DEF None, Numbers

\* An idle thread says nothing about the registers.
LEMMA IdleThread ==
  Idle \in Thread /\ Idle.at = "idle" /\ ~Idle.lifted /\ Idle.confirmed = 0
  BY StopAssumption DEF Idle, Thread, Points

\* A system starts with nothing stopped and every thread idle.
LEMMA InitStopInv == ASSUME Init PROVE StopInv
  <1>1. Idle \in Thread /\ Idle.at = "idle" /\ ~Idle.lifted /\ Idle.confirmed = 0
    BY IdleThread
  <1>2. ShapeInv
    BY <1>1, StopAssumption DEF Init, ShapeInv
  <1>3. ThreadsInv
    BY <1>1 DEF Init, ThreadsInv, ThreadOK, Asking
  <1>4. BrokerInv
    BY FS_EmptySet DEF Init, BrokerInv
  <1>5. KernelInv
    BY DEF Init, KernelInv
  <1>. QED
    BY <1>2, <1>3, <1>4, <1>5 DEF StopInv
-----------------------------------------------------------------------------
(***************************************************************************)
(* Steps of one thread that leave the registers alone.                      *)
(***************************************************************************)

\* One thread's record in place of another.
LEMMA ThreadBecomes ==
  ASSUME thread \in [Threads -> Thread], NEW t \in Threads, NEW y,
         thread' = [thread EXCEPT ![t] = y]
  PROVE  thread'[t] = y /\ \A u \in Threads \ {t} : thread'[u] = thread[u]
  OBVIOUS

\* A thread that goes on changes only its place.
LEMMA GotoDoes ==
  ASSUME thread \in [Threads -> Thread], NEW t \in Threads, NEW p \in Points, Goto(t, p)
  PROVE  LET y == [thread[t] EXCEPT !.at = p] IN
         /\ thread' = [thread EXCEPT ![t] = y] /\ y \in Thread /\ y.at = p
         /\ y.celled = thread[t].celled /\ y.snapshot = thread[t].snapshot
         /\ y.confirmed = thread[t].confirmed /\ y.number = thread[t].number
         /\ y.cancelled = thread[t].cancelled /\ y.lifted = thread[t].lifted
         /\ y.asked = thread[t].asked
  BY DEF Goto, Thread

\* A thread that neither comes from nor goes to a Stop's last step leaves the
\* registers' invariants alone, and the other threads'.
LEMMA ThreadStepKeepsInv ==
  ASSUME StopInv, NEW t \in Threads, NEW y \in Thread, thread' = [thread EXCEPT ![t] = y],
         thread[t].at # "engage_again", y.at # "engage_again",
         UNCHANGED <<state, stops, endedBy>>, ThreadOK(y)
  PROVE  StopInv'
  <1>. USE DEF StopInv, state
  <1>1. thread'[t] = y /\ \A u \in Threads \ {t} : thread'[u] = thread[u]
    BY ThreadBecomes DEF ShapeInv
  <1>2. Stopping' <=> Stopping
    BY <1>1 DEF Stopping, At
  <1>3. ShapeInv'
    BY DEF ShapeInv
  <1>4. ThreadsInv'
    <2>. SUFFICES ASSUME NEW u \in Threads PROVE ThreadOK(thread[u])'
      BY DEF ThreadsInv
    <2>. QED
      BY <1>1, <1>2 DEF ThreadsInv, ThreadOK, Newer, Behind
  <1>5. BrokerInv'
    BY DEF BrokerInv
  <1>6. KernelInv'
    BY <1>2 DEF KernelInv
  <1>. QED
    BY <1>3, <1>4, <1>5, <1>6

\* A thread that returns says nothing any more.
LEMMA ReturnKeepsInv ==
  ASSUME StopInv, NEW t \in Threads, thread[t].at # "engage_again", Return(t),
         UNCHANGED <<state, stops, endedBy>>
  PROVE  StopInv'
  <1>1. ThreadOK(Idle)
    BY IdleThread DEF ThreadOK, Asking, StopInv, ShapeInv
  <1>. QED
    BY <1>1, IdleThread, ThreadStepKeepsInv DEF Return

\* The steps of a resume that only read.
LEMMA ReadingKeepsInv ==
  ASSUME StopInv, NEW t \in Threads,
         \/ \E celled \in BOOLEAN : Resume(t, celled)
         \/ ReadConfirmed(t) \/ StopToLift(t) \/ Confirm(t) \/ CheckLift(t)
         \/ IsStopped(t) \/ FinalCheck(t)
  PROVE  StopInv'
  <1>. USE DEF StopInv, ShapeInv
  <1>. DEFINE x == thread[t]
  <1>0. x \in Thread /\ ThreadOK(x)
    BY DEF ThreadsInv
  <1>. HIDE DEF x
  <1>1. UNCHANGED <<state, stops, endedBy>> /\ x.at # "engage_again"
    BY DEF Resume, ReadConfirmed, StopToLift, Confirm, CheckLift, IsStopped, FinalCheck, At, x
  <1>2. CASE Return(t)
    BY <1>1, <1>2, ReturnKeepsInv DEF x
  <1>3. CASE \E celled \in BOOLEAN : Resume(t, celled)
    <2>1. PICK celled \in BOOLEAN : Resume(t, celled)
      BY <1>3
    <2>. DEFINE y == [Idle EXCEPT !.at = "confirmed", !.celled = celled, !.snapshot = cell]
    <2>2. thread' = [thread EXCEPT ![t] = y]
      BY <2>1 DEF Resume
    <2>3. y \in Thread /\ y.at = "confirmed" /\ ~y.lifted /\ y.confirmed = 0
      BY IdleThread DEF Thread, Points
    <2>. HIDE DEF y
    <2>4. ThreadOK(y)
      BY <2>3 DEF ThreadOK, Asking
    <2>. QED
      BY <1>1, <2>2, <2>3, <2>4, ThreadStepKeepsInv DEF x
  <1>4. CASE ReadConfirmed(t) /\ ~Return(t)
    <2>. DEFINE y == [x EXCEPT !.confirmed = kernel.number, !.at = "stop_to_lift"]
    <2>1. thread' = [thread EXCEPT ![t] = y] /\ x.at = "confirmed"
      BY <1>4 DEF ReadConfirmed, At, x
    <2>2. y \in Thread /\ y.at = "stop_to_lift" /\ y.confirmed = kernel.number
          /\ y.lifted = x.lifted
      BY <1>0 DEF Thread, Points
    <2>. HIDE DEF y
    <2>3. ThreadOK(y)
      BY <1>0, <2>1, <2>2 DEF ThreadOK, Asking, PastLift
    <2>. QED
      BY <1>1, <2>1, <2>2, <2>3, ThreadStepKeepsInv DEF x
  <1>5. CASE StopToLift(t) /\ ~Return(t)
    <2>1. x.at = "stop_to_lift"
      BY <1>5 DEF StopToLift, At, x
    <2>2. CASE broker.stopped
      <3>. DEFINE y == [x EXCEPT !.at = "dialog", !.number = broker.number,
                                 !.cancelled = broker.cancelled, !.asked = stops]
      <3>1. thread' = [thread EXCEPT ![t] = y] /\ ~broker.exhausted
        BY <1>5, <2>2 DEF StopToLift, Return, x
      <3>2. y \in Thread /\ y.at = "dialog" /\ y.number = broker.number
            /\ y.cancelled = broker.cancelled /\ y.asked = stops
            /\ y.confirmed = x.confirmed /\ y.lifted = x.lifted
        BY <1>0 DEF Thread, Points
      <3>. HIDE DEF y
      <3>3. ThreadOK(y)
        BY <1>0, <2>1, <3>1, <3>2 DEF ThreadOK, Asking, PastLift, BrokerInv
      <3>. QED
        BY <1>1, <3>1, <3>2, <3>3, ThreadStepKeepsInv DEF x
    <2>3. CASE ~broker.stopped
      <3>1. Goto(t, "is_stopped")
        BY <1>5, <2>3 DEF StopToLift, Return, Goto
      <3>. DEFINE y == [x EXCEPT !.at = "is_stopped"]
      <3>2. thread' = [thread EXCEPT ![t] = y] /\ y \in Thread /\ y.at = "is_stopped"
            /\ y.confirmed = x.confirmed /\ y.lifted = x.lifted
        BY <3>1, GotoDoes DEF Points, x
      <3>. HIDE DEF y
      <3>3. ThreadOK(y)
        BY <1>0, <2>1, <3>2 DEF ThreadOK, Asking, PastLift
      <3>. QED
        BY <1>1, <3>2, <3>3, ThreadStepKeepsInv DEF x
    <2>. QED
      BY <2>2, <2>3
  <1>6. CASE ~Return(t) /\ (Confirm(t) \/ CheckLift(t) \/ IsStopped(t) \/ FinalCheck(t))
    <2>1. PICK p \in {"check_lift", "record", "is_stopped", "lift_if", "halted"} :
            /\ Goto(t, p)
            /\ p \in {"check_lift", "record"} => x.at \in {"dialog", "check_lift"}
            /\ p \in {"is_stopped", "lift_if", "halted"} =>
                  x.at \in {"check_lift", "is_stopped", "final_check"}
            /\ p = "lift_if" => ~broker.stopped
      BY <1>6 DEF Confirm, CheckLift, IsStopped, FinalCheck, At, x
    <2>. DEFINE y == [x EXCEPT !.at = p]
    <2>2. p \in Points
      BY <2>1 DEF Points
    <2>3. thread' = [thread EXCEPT ![t] = y] /\ y \in Thread /\ y.at = p
          /\ y.confirmed = x.confirmed /\ y.number = x.number /\ y.cancelled = x.cancelled
          /\ y.lifted = x.lifted /\ y.asked = x.asked
      BY <2>1, <2>2, GotoDoes DEF x
    <2>. HIDE DEF y
    <2>4. ThreadOK(y)
      BY <1>0, <2>1, <2>3 DEF ThreadOK, Newer, Behind, Asking, PastLift
    <2>. QED
      BY <1>1, <2>1, <2>3, <2>4, ThreadStepKeepsInv DEF x
  <1>. QED
    BY <1>2, <1>3, <1>4, <1>5, <1>6
-----------------------------------------------------------------------------
(***************************************************************************)
(* Steps that change a register.                                            *)
(***************************************************************************)

\* Steps that change no thread and neither the stop of either register nor what
\* threads know of it.
LEMMA QuietKeepsInv ==
  ASSUME StopInv, ShapeInv', UNCHANGED <<kernel, thread, stops, endedBy, resumed, watch>>,
         broker'.stopped = broker.stopped, broker'.number = broker.number,
         broker'.exhausted = broker.exhausted, broker'.lifted = broker.lifted,
         broker'.cancelled = broker.cancelled
  PROVE  StopInv'
  <1>. USE DEF StopInv
  <1>1. Stopping' <=> Stopping
    BY DEF Stopping, At
  <1>2. ThreadsInv'
    BY <1>1 DEF ThreadsInv, ThreadOK, Newer, Behind
  <1>3. BrokerInv'
    BY DEF BrokerInv
  <1>4. KernelInv'
    BY <1>1 DEF KernelInv
  <1>. QED
    BY <1>2, <1>3, <1>4

\* The ingress cell, runs, quitting and the latch.
LEMMA OthersKeepInv ==
  ASSUME StopInv,
         \/ EngageCell \/ Close \/ Latch \/ UNCHANGED vars
         \/ \E r \in Runs : Open(r) \/ End(r)
  PROVE  StopInv'
  <1>1. CASE EngageCell
    <2>1. ShapeInv'
      BY <1>1 DEF EngageCell, StopInv, ShapeInv
    <2>. QED
      BY <1>1, <2>1, QuietKeepsInv DEF EngageCell
  <1>2. CASE Close
    <2>1. broker' = [broker EXCEPT !.closed = TRUE] /\ UNCHANGED <<kernel, cell, runs, watch,
             resumed, thread, stops, endedBy>>
      BY <1>2 DEF Close
    <2>2. ShapeInv' /\ broker'.stopped = broker.stopped /\ broker'.number = broker.number
          /\ broker'.exhausted = broker.exhausted /\ broker'.lifted = broker.lifted
          /\ broker'.cancelled = broker.cancelled
      BY <2>1 DEF StopInv, ShapeInv
    <2>. QED
      BY <2>1, <2>2, QuietKeepsInv
  <1>3. CASE Latch
    <2>1. ShapeInv'
      BY <1>3 DEF Latch, StopInv, ShapeInv
    <2>. QED
      BY <1>3, <2>1, QuietKeepsInv DEF Latch
  <1>4. CASE UNCHANGED vars
    <2>1. ShapeInv'
      BY <1>4 DEF vars, StopInv, ShapeInv
    <2>. QED
      BY <1>4, <2>1, QuietKeepsInv DEF vars
  <1>5. CASE \E r \in Runs : Open(r) \/ End(r)
    <2>1. PICK r \in Runs : Open(r) \/ End(r)
      BY <1>5
    <2>2. ShapeInv'
      BY <2>1 DEF Open, End, StopInv, ShapeInv
    <2>. QED
      BY <2>1, <2>2, QuietKeepsInv DEF Open, End
  <1>. QED
    BY <1>1, <1>2, <1>3, <1>4, <1>5

\* Work is admitted while the kernel is not stopped: a Stop still to come will
\* leave it behind.
LEMMA AdmitKeepsInv ==
  ASSUME StopInv, NEW w \in Work, Admit(w) PROVE StopInv'
  <1>. USE DEF StopInv
  <1>1. UNCHANGED <<kernel, broker, cell, runs, resumed, thread, stops, endedBy>>
        /\ ~kernel.stopped
    BY DEF Admit
  <1>2. ShapeInv'
    BY DEF Admit, ShapeInv
  <1>3. Stopping' <=> Stopping
    BY <1>1 DEF Stopping, At
  <1>4. ThreadsInv'
    BY <1>1, <1>3 DEF ThreadsInv, ThreadOK, Newer, Behind
  <1>5. BrokerInv'
    BY <1>1 DEF BrokerInv
  <1>6. KernelInv'
    BY <1>1, <1>3 DEF KernelInv, Admit, ShapeInv
  <1>. QED
    BY <1>2, <1>4, <1>5, <1>6

\* A Stop begins, or a resume stops again: the cell, and the thread's place.
LEMMA StopBeginsKeepsInv ==
  ASSUME StopInv, NEW t \in Threads, Stop(t) \/ StopAgain(t) PROVE StopInv'
  <1>. USE DEF StopInv, ShapeInv
  <1>. DEFINE x == thread[t]
              y == [x EXCEPT !.at = "engage"]
  <1>0. x \in Thread /\ ThreadOK(x) /\ x.at \in {"idle", "halted"}
    BY DEF ThreadsInv, Stop, StopAgain, At
  <1>1. Goto(t, "engage") /\ cell' = cell + 1
        /\ UNCHANGED <<kernel, broker, runs, watch, resumed, stops, endedBy>>
    BY DEF Stop, StopAgain
  <1>. HIDE DEF x
  <1>a. "engage" \in Points
    BY DEF Points
  <1>2. thread' = [thread EXCEPT ![t] = y] /\ y \in Thread /\ y.at = "engage"
        /\ y.confirmed = x.confirmed /\ y.number = x.number /\ y.lifted = x.lifted
    BY <1>1, <1>a, GotoDoes DEF x
  <1>. HIDE DEF y
  <1>3. thread'[t] = y /\ \A u \in Threads \ {t} : thread'[u] = thread[u]
    BY <1>2, ThreadBecomes
  <1>4. ShapeInv'
    BY <1>1, <1>2
  <1>5. Stopping' <=> Stopping
    BY <1>0, <1>2, <1>3 DEF Stopping, At, x
  <1>6. ThreadsInv'
    <2>. SUFFICES ASSUME NEW u \in Threads PROVE ThreadOK(thread[u])'
      BY DEF ThreadsInv
    <2>1. CASE u = t
      BY <1>0, <1>1, <1>2, <1>3, <1>5, <2>1 DEF ThreadOK, Newer, Behind, Asking, PastLift
    <2>2. CASE u # t
      BY <1>1, <1>3, <1>5, <2>2 DEF ThreadsInv, ThreadOK, Newer, Behind
    <2>. QED
      BY <2>1, <2>2
  <1>7. BrokerInv'
    BY <1>1 DEF BrokerInv
  <1>8. KernelInv'
    BY <1>1, <1>5 DEF KernelInv
  <1>. QED
    BY <1>4, <1>6, <1>7, <1>8

\* The kernel is engaged: every number confirmed before is behind.
LEMMA EngageKeepsInv ==
  ASSUME StopInv, NEW t \in Threads, Engage(t) \/ EngageAgain(t) PROVE StopInv'
  <1>. USE DEF StopInv, ShapeInv
  <1>1. kernel' = Engaged /\ UNCHANGED <<broker, cell, runs, watch, resumed, stops, endedBy>>
    BY DEF Engage, EngageAgain
  <1>2. kernel' \in [stopped : BOOLEAN, number : Nat] /\ kernel'.stopped
        /\ kernel'.number = kernel.number + 1
    BY <1>1 DEF Engaged
  <1>3. PICK y \in Thread :
          /\ thread' = [thread EXCEPT ![t] = y]
          /\ y.at \in {"idle", "stop_effects"} /\ y.confirmed <= kernel.number
          /\ y.lifted => thread[t].lifted /\ y.number = thread[t].number
                         /\ y.at = "stop_effects"
    <2>1. CASE Engage(t)
      <3>. DEFINE x == thread[t]
                  y == [x EXCEPT !.at = "stop_effects"]
      <3>1. x \in Thread /\ x.confirmed <= kernel.number
        BY DEF ThreadsInv, ThreadOK
      <3>2. "stop_effects" \in Points /\ Goto(t, "stop_effects")
        BY <2>1 DEF Engage, Points
      <3>. HIDE DEF x
      <3>3. thread' = [thread EXCEPT ![t] = y] /\ y \in Thread /\ y.at = "stop_effects"
            /\ y.confirmed = x.confirmed /\ y.number = x.number /\ y.lifted = x.lifted
        BY <3>2, GotoDoes DEF x
      <3>. HIDE DEF y
      <3>. QED
        BY <3>1, <3>3 DEF x
    <2>2. CASE EngageAgain(t)
      <3>1. Idle \in Thread /\ Idle.at = "idle" /\ ~Idle.lifted /\ Idle.confirmed = 0
        BY IdleThread
      <3>2. thread' = [thread EXCEPT ![t] = Idle] /\ 0 <= kernel.number
        BY <2>2 DEF EngageAgain, Return
      <3>. HIDE DEF StopInv, ShapeInv
      <3>. QED
        BY <3>1, <3>2, Zenon
    <2>. QED
      BY <2>1, <2>2
  <1>4. thread'[t] = y /\ \A u \in Threads \ {t} : thread'[u] = thread[u]
    BY <1>3, ThreadBecomes
  <1>5. ShapeInv'
    BY <1>1, <1>2, <1>3
  <1>6. ThreadsInv'
    <2>. SUFFICES ASSUME NEW u \in Threads PROVE ThreadOK(thread[u])'
      BY DEF ThreadsInv
    <2>0. thread[u] \in Thread /\ thread[u].confirmed \in Nat /\ y.confirmed \in Nat
      BY DEF Thread
    <2>1. CASE u = t
      BY <1>1, <1>2, <1>3, <1>4, <2>0, <2>1
         DEF ThreadsInv, ThreadOK, Newer, Behind, Asking, PastLift
    <2>2. CASE u # t
      BY <1>1, <1>2, <1>4, <2>0, <2>2 DEF ThreadsInv, ThreadOK, Newer, Behind
    <2>. QED
      BY <2>1, <2>2
  <1>7. BrokerInv'
    BY <1>1 DEF BrokerInv
  <1>8. KernelInv'
    BY <1>1, <1>2 DEF KernelInv
  <1>. QED
    BY <1>5, <1>6, <1>7, <1>8

\* The runs a stop ends are not among the ones stops ended before.
LEMMA EndedRunsAdd ==
  ASSUME ShapeInv
  PROVE  /\ Cardinality(Live) \in Nat
         /\ Cardinality(endedBy \cup Live) = Cardinality(endedBy) + Cardinality(Live)
  <1>1. IsFiniteSet(Live) /\ IsFiniteSet(endedBy)
    BY FS_Subset, StopAssumption DEF Live, ShapeInv
  <1>2. endedBy \cap Live = {}
    BY DEF Live, ShapeInv
  <1>3. Cardinality(endedBy \cap Live) = 0
    BY <1>2, FS_EmptySet
  <1>4. Cardinality(Live) \in Nat /\ Cardinality(endedBy) \in Nat
    BY <1>1, FS_CardinalityType
  <1>5. Cardinality(endedBy \cup Live)
          = Cardinality(endedBy) + Cardinality(Live) - Cardinality(endedBy \cap Live)
    BY <1>1, FS_Union
  <1>. QED
    BY <1>3, <1>4, <1>5

\* What stop_all leaves in the registry: the count moves on, or is exhausted.
LEMMA StoppedDoes ==
  ASSUME ShapeInv, NEW n \in Nat
  PROVE  LET b == Stopped(broker, n) IN
         /\ b \in [stopped : BOOLEAN, number : Numbers, exhausted : BOOLEAN,
                   lifted : Numbers, closed : BOOLEAN, cancelled : Nat]
         /\ b.stopped /\ b.cancelled = broker.cancelled + n /\ b.lifted = broker.lifted
         /\ b.exhausted \/ b.number = broker.number + 1
         /\ broker.exhausted => b.exhausted
         /\ broker.number <= b.number
  <1>. DEFINE b == Stopped(broker, n)
  <1>1. PICK m \in Numbers, e \in BOOLEAN :
          /\ b = [broker EXCEPT !.stopped = TRUE, !.number = m, !.exhausted = e,
                                !.cancelled = broker.cancelled + n]
          /\ e \/ m = broker.number + 1
          /\ broker.exhausted => e
          /\ broker.number <= m
    <2>1. CASE broker.number < LastNumber
      <3>1. broker.number + 1 \in Numbers /\ broker.number <= broker.number + 1
            /\ (broker.exhausted \/ broker.number = LastNumber) = broker.exhausted
            /\ broker.exhausted \in BOOLEAN
        BY <2>1, StopAssumption DEF ShapeInv
      <3>. QED
        BY <2>1, <3>1 DEF Stopped
    <2>2. CASE ~(broker.number < LastNumber)
      <3>1. broker.number = LastNumber /\ broker.number \in Numbers
            /\ broker.number <= broker.number
        BY <2>2, StopAssumption DEF ShapeInv
      <3>2. (broker.exhausted \/ broker.number = LastNumber) = TRUE
        BY <3>1
      <3>. QED
        BY <2>2, <3>1, <3>2 DEF Stopped
    <2>. QED
      BY <2>1, <2>2
  <1>. HIDE DEF b
  <1>a. PICK c \in Nat, s \in BOOLEAN :
          b = [broker EXCEPT !.stopped = s, !.number = m, !.exhausted = e, !.cancelled = c]
    <2>1. broker.cancelled + n \in Nat /\ TRUE \in BOOLEAN
      BY DEF ShapeInv
    <2>. QED
      BY <1>1, <2>1
  <1>2. b \in [stopped : BOOLEAN, number : Numbers, exhausted : BOOLEAN,
               lifted : Numbers, closed : BOOLEAN, cancelled : Nat]
    BY <1>a DEF ShapeInv
  <1>3. b.stopped /\ b.cancelled = broker.cancelled + n /\ b.lifted = broker.lifted
        /\ b.number = m /\ b.exhausted = e
    BY <1>1 DEF ShapeInv
  <1>. QED
    BY <1>1, <1>2, <1>3 DEF b

\* The broker is stopped: every number asked about, and every lift, is behind.
LEMMA StopAllKeepsInv ==
  ASSUME StopInv, NEW t \in Threads, StopAll(t) PROVE StopInv'
  <1>. USE DEF StopInv
  <1>1. broker' = Stopped(broker, Cardinality(Live)) /\ stops' = stops + 1
        /\ endedBy' = endedBy \cup Live /\ Goto(t, "engage_again")
        /\ UNCHANGED <<kernel, cell, watch, resumed>>
        /\ runs' = [r \in Runs |-> IF r \in Live THEN "ended" ELSE runs[r]]
    BY DEF StopAll
  <1>2. /\ broker' \in [stopped : BOOLEAN, number : Numbers, exhausted : BOOLEAN,
                        lifted : Numbers, closed : BOOLEAN, cancelled : Nat]
        /\ broker'.stopped /\ broker'.cancelled = broker.cancelled + Cardinality(Live)
        /\ broker'.lifted = broker.lifted
        /\ broker'.exhausted \/ broker'.number = broker.number + 1
        /\ broker.exhausted => broker'.exhausted
        /\ broker.number <= broker'.number
    BY <1>1, StoppedDoes, EndedRunsAdd
  <1>. DEFINE x == thread[t]
              y == [x EXCEPT !.at = "engage_again"]
  <1>3. x \in Thread /\ ThreadOK(x) /\ x.at = "stop_effects"
    BY DEF ThreadsInv, ShapeInv, StopAll, At
  <1>. HIDE DEF x
  <1>4. "engage_again" \in Points /\ thread \in [Threads -> Thread]
    BY DEF Points, ShapeInv
  <1>5. thread' = [thread EXCEPT ![t] = y] /\ y \in Thread /\ y.at = "engage_again"
        /\ y.confirmed = x.confirmed /\ y.number = x.number /\ y.lifted = x.lifted
    BY <1>1, <1>4, GotoDoes DEF x
  <1>. HIDE DEF y
  <1>6. thread'[t] = y /\ \A u \in Threads \ {t} : thread'[u] = thread[u]
    BY <1>4, <1>5, ThreadBecomes
  <1>7. Stopping'
    BY <1>5, <1>6 DEF Stopping, At
  <1>8. ShapeInv'
    <2>1. endedBy' \subseteq {r \in Runs : runs'[r] = "ended"}
      BY <1>1 DEF ShapeInv, Live
    <2>. QED
      BY <1>1, <1>2, <1>4, <1>5, <2>1 DEF ShapeInv
  <1>9. ThreadsInv'
    <2>. SUFFICES ASSUME NEW u \in Threads PROVE ThreadOK(thread[u])'
      BY DEF ThreadsInv
    <2>0. broker.number \in Nat /\ broker'.number \in Nat /\ stops \in Nat
      BY <1>2, StopAssumption DEF ShapeInv
    <2>1. CASE u = t
      <3>1. y.number \in Nat
        BY <1>5, StopAssumption DEF Thread
      <3>. QED
        BY <1>1, <1>2, <1>3, <1>5, <1>6, <1>7, <2>0, <2>1, <3>1
           DEF ThreadOK, Newer, Behind, Asking, PastLift
    <2>2. CASE u # t
      <3>1. thread[u].number \in Nat /\ thread[u].asked \in Nat /\ ThreadOK(thread[u])
        BY StopAssumption DEF ShapeInv, Thread, ThreadsInv
      <3>. QED
        BY <1>1, <1>2, <1>6, <1>7, <2>0, <2>2, <3>1 DEF ThreadOK, Newer, Behind
    <2>. QED
      BY <2>1, <2>2
  <1>10. BrokerInv'
    BY <1>1, <1>2, EndedRunsAdd DEF BrokerInv, ShapeInv
  <1>11. KernelInv'
    BY <1>1, <1>7 DEF KernelInv
  <1>. QED
    BY <1>8, <1>9, <1>10, <1>11

\* The Resumed record is written before the lift.
LEMMA RecordResumedKeepsInv ==
  ASSUME StopInv, NEW t \in Threads, RecordResumed(t) PROVE StopInv'
  <1>. USE DEF StopInv, ShapeInv
  <1>1. CASE Return(t) /\ UNCHANGED resumed
    <2>1. UNCHANGED <<state, stops, endedBy>> /\ thread[t].at # "engage_again"
      BY <1>1 DEF RecordResumed, state, At
    <2>. QED
      BY <1>1, <2>1, ReturnKeepsInv
  <1>2. CASE resumed' = resumed \cup {thread[t].number} /\ Goto(t, "lift")
    <2>. DEFINE x == thread[t]
                y == [x EXCEPT !.at = "lift"]
    <2>1. x \in Thread /\ ThreadOK(x) /\ x.at = "record" /\ resumed' = resumed \cup {x.number}
          /\ UNCHANGED <<kernel, broker, cell, runs, watch, stops, endedBy>>
      BY <1>2 DEF ThreadsInv, RecordResumed, At
    <2>. HIDE DEF x
    <2>2. "lift" \in Points
      BY DEF Points
    <2>3. thread' = [thread EXCEPT ![t] = y] /\ y \in Thread /\ y.at = "lift"
          /\ y.confirmed = x.confirmed /\ y.number = x.number /\ y.lifted = x.lifted
          /\ y.asked = x.asked /\ y.cancelled = x.cancelled
      BY <1>2, <2>2, GotoDoes DEF x
    <2>. HIDE DEF y
    <2>4. thread'[t] = y /\ \A u \in Threads \ {t} : thread'[u] = thread[u]
      BY <2>3, ThreadBecomes
    <2>5. Stopping' <=> Stopping
      BY <2>1, <2>3, <2>4 DEF Stopping, At, x
    <2>6. ShapeInv'
      BY <2>1, <2>3
    <2>7. ThreadsInv'
      <3>. SUFFICES ASSUME NEW u \in Threads PROVE ThreadOK(thread[u])'
        BY DEF ThreadsInv
      <3>1. CASE u = t
        BY <2>1, <2>3, <2>4, <2>5, <3>1 DEF ThreadOK, Newer, Behind, Asking, PastLift
      <3>2. CASE u # t
        BY <2>1, <2>4, <2>5, <3>2 DEF ThreadsInv, ThreadOK, Newer, Behind
      <3>. QED
        BY <3>1, <3>2
    <2>8. BrokerInv'
      BY <2>1 DEF BrokerInv
    <2>9. KernelInv'
      BY <2>1, <2>5 DEF KernelInv
    <2>. QED
      BY <2>6, <2>7, <2>8, <2>9
  <1>. QED
    BY <1>1, <1>2 DEF RecordResumed

\* A lift: the thread's own number is the broker's, and was recorded.
LEMMA LiftKeepsInv ==
  ASSUME StopInv, NEW t \in Threads, Lift(t) PROVE StopInv'
  <1>. USE DEF StopInv, ShapeInv
  <1>. DEFINE x == thread[t]
  <1>0. x \in Thread /\ ThreadOK(x) /\ x.at = "lift"
        /\ UNCHANGED <<kernel, cell, runs, watch, latched, resumed, stops>>
    BY DEF ThreadsInv, Lift, At
  <1>. HIDE DEF x
  <1>1. CASE Return(t) /\ UNCHANGED <<broker, endedBy>>
    BY <1>0, <1>1, ReturnKeepsInv DEF state, x
  <1>2. CASE Goto(t, "is_stopped") /\ UNCHANGED <<broker, endedBy>>
    <2>. DEFINE y == [x EXCEPT !.at = "is_stopped"]
    <2>1. "is_stopped" \in Points
      BY DEF Points
    <2>2. thread' = [thread EXCEPT ![t] = y] /\ y \in Thread /\ y.at = "is_stopped"
          /\ y.confirmed = x.confirmed /\ y.lifted = x.lifted
      BY <1>2, <2>1, GotoDoes DEF x
    <2>. HIDE DEF y
    <2>3. ThreadOK(y)
      BY <1>0, <2>2 DEF ThreadOK, Asking, PastLift
    <2>. QED
      BY <1>0, <1>2, <2>2, <2>3, ThreadStepKeepsInv DEF state, x
  <1>3. CASE /\ ~Refused(x.number) /\ endedBy' = {}
             /\ broker' = [broker EXCEPT !.stopped = FALSE, !.lifted = x.number,
                                         !.cancelled = 0]
             /\ thread' = [thread EXCEPT ![t].at = "is_stopped", ![t].lifted = TRUE]
    <2>. DEFINE y == [x EXCEPT !.at = "is_stopped", !.lifted = TRUE]
    <2>1. thread' = [thread EXCEPT ![t] = y] /\ y \in Thread /\ y.at = "is_stopped"
          /\ y.confirmed = x.confirmed /\ y.number = x.number
      BY <1>0, <1>3 DEF Thread, Points, x
    <2>. HIDE DEF y
    <2>2. thread'[t] = y /\ \A u \in Threads \ {t} : thread'[u] = thread[u]
      BY <2>1, ThreadBecomes
    <2>3. Stopping' <=> Stopping
      BY <1>0, <2>1, <2>2 DEF Stopping, At, x
    <2>4. x.number \in Numbers /\ x.number = broker.number /\ x.number \in resumed
      BY <1>0, <1>3 DEF Thread, Refused, ThreadOK
    <2>5. /\ broker' \in [stopped : BOOLEAN, number : Numbers, exhausted : BOOLEAN,
                          lifted : Numbers, closed : BOOLEAN, cancelled : Nat]
          /\ ~broker'.stopped /\ broker'.number = broker.number
          /\ broker'.exhausted = broker.exhausted /\ broker'.lifted = x.number
          /\ broker'.cancelled = 0
      BY <1>3, <2>4
    <2>a. endedBy' = {}
      BY <1>3
    <2>6. ShapeInv'
      BY <1>0, <2>a, <2>1, <2>5
    <2>7. ThreadsInv'
      <3>. SUFFICES ASSUME NEW u \in Threads PROVE ThreadOK(thread[u])'
        BY DEF ThreadsInv
      <3>1. CASE u = t
        BY <1>0, <2>1, <2>2, <2>4, <2>5, <3>1, StopAssumption DEF ThreadOK, Asking, PastLift
      <3>2. CASE u # t
        BY <1>0, <2>2, <2>5, <3>2 DEF ThreadsInv, ThreadOK, Newer
      <3>. QED
        BY <3>1, <3>2
    <2>8. BrokerInv'
      BY <1>0, <1>3, <2>4, <2>5, FS_EmptySet DEF BrokerInv
    <2>9. KernelInv'
      BY <1>0, <2>5 DEF KernelInv
    <2>. QED
      BY <2>6, <2>7, <2>8, <2>9
  <1>. QED
    BY <1>1, <1>2, <1>3 DEF Lift, x

\* The kernel's lift, by number: it does nothing behind a Stop that returned.
LEMMA LiftKernelKeepsInv ==
  ASSUME StopInv, NEW t \in Threads, LiftKernel(t) PROVE StopInv'
  <1>. USE DEF StopInv, ShapeInv
  <1>. DEFINE x == thread[t]
  <1>0. x \in Thread /\ ThreadOK(x) /\ x.at = "lift_if"
        /\ UNCHANGED <<broker, cell, runs, watch, resumed, stops, endedBy>>
    BY DEF ThreadsInv, LiftKernel, At
  <1>1. kernel' = kernel \/ kernel' = LiftIf(x.confirmed)
    BY DEF LiftKernel
  <1>. HIDE DEF x
  <1>2. /\ kernel' \in [stopped : BOOLEAN, number : Nat] /\ kernel'.number = kernel.number
        /\ kernel' # kernel => x.confirmed = kernel.number
    BY <1>1 DEF LiftIf
  <1>3. PICK y \in Thread :
          /\ thread' = [thread EXCEPT ![t] = y]
          /\ y.at \in {"idle", "halted", "final_check"} /\ y.confirmed <= kernel.number
          /\ y.lifted => x.lifted /\ y.number = x.number /\ y.confirmed = x.confirmed
                         /\ y.at # "idle"
    <2>1. CASE Return(t)
      <3>1. Idle \in Thread /\ Idle.at = "idle" /\ ~Idle.lifted /\ Idle.confirmed = 0
        BY IdleThread
      <3>2. thread' = [thread EXCEPT ![t] = Idle] /\ 0 <= kernel.number
        BY <2>1 DEF Return
      <3>. HIDE DEF StopInv, ShapeInv
      <3>. QED
        BY <3>1, <3>2, Zenon
    <2>2. CASE \E p \in {"halted", "final_check"} : Goto(t, p)
      <3>1. PICK p \in {"halted", "final_check"} : Goto(t, p)
        BY <2>2
      <3>. DEFINE y == [x EXCEPT !.at = p]
      <3>2. p \in Points /\ x.confirmed <= kernel.number
        BY <1>0 DEF Points, ThreadOK
      <3>3. thread' = [thread EXCEPT ![t] = y] /\ y \in Thread /\ y.at = p
            /\ y.confirmed = x.confirmed /\ y.number = x.number /\ y.lifted = x.lifted
        BY <3>1, <3>2, GotoDoes DEF x
      <3>. HIDE DEF y
      <3>. QED
        BY <3>2, <3>3
    <2>. QED
      BY <2>1, <2>2 DEF LiftKernel
  <1>4. thread'[t] = y /\ \A u \in Threads \ {t} : thread'[u] = thread[u]
    BY <1>3, ThreadBecomes
  <1>5. Stopping' <=> Stopping
    BY <1>0, <1>3, <1>4 DEF Stopping, At, x
  <1>6. ShapeInv'
    BY <1>0, <1>2, <1>3
  <1>7. ThreadsInv'
    <2>. SUFFICES ASSUME NEW u \in Threads PROVE ThreadOK(thread[u])'
      BY DEF ThreadsInv
    <2>1. CASE u = t
      BY <1>0, <1>2, <1>3, <1>4, <1>5, <2>1 DEF ThreadOK, Newer, Behind, Asking, PastLift
    <2>2. CASE u # t
      BY <1>0, <1>2, <1>4, <1>5, <2>2 DEF ThreadsInv, ThreadOK, Newer, Behind
    <2>. QED
      BY <2>1, <2>2
  <1>8. BrokerInv'
    BY <1>0 DEF BrokerInv
  <1>9. KernelInv'
    <2>1. broker.stopped => Stopping \/ kernel' = kernel
      BY <1>0, <1>2 DEF ThreadOK, Behind, Thread
    <2>. QED
      BY <1>0, <1>2, <1>5, <2>1 DEF KernelInv
  <1>. QED
    BY <1>6, <1>7, <1>8, <1>9
-----------------------------------------------------------------------------
LEMMA NextKeepsInv == ASSUME StopInv, [Next]_vars PROVE StopInv'
  <1>1. CASE \E t \in Threads : InStop(t)
    BY <1>1, StopBeginsKeepsInv, EngageKeepsInv, StopAllKeepsInv DEF InStop
  <1>2. CASE \E t \in Threads : InResume(t)
    BY <1>2, ReadingKeepsInv, RecordResumedKeepsInv, LiftKeepsInv, LiftKernelKeepsInv,
       StopBeginsKeepsInv DEF InResume
  <1>3. CASE \E w \in Work : Admit(w)
    BY <1>3, AdmitKeepsInv
  <1>4. CASE EngageCell \/ Close \/ Latch \/ UNCHANGED vars \/ \E r \in Runs : Open(r) \/ End(r)
    BY <1>4, OthersKeepInv
  <1>. QED
    BY <1>1, <1>2, <1>3, <1>4 DEF Next

(* A Stop that returned stands (narrow_native_stop, resume_with_recovery):  *)
(* for any threads, work and runs, whatever resumes run beside it, a        *)
(* stopped broker stands beside a stopped kernel in which no earlier work   *)
(* goes on, and what was lifted has its record.                             *)
THEOREM StopsAlwaysStand == Spec => []StopsStand
  <1>1. Init => StopInv
    BY InitStopInv
  <1>2. StopInv /\ [Next]_vars => StopInv'
    BY NextKeepsInv
  <1>3. StopInv => StopsStand
    <2>. SUFFICES ASSUME StopInv PROVE StopsStand
      OBVIOUS
    <2>1. StoppedTogether
      BY DEF StopInv, KernelInv, StoppedTogether
    <2>2. NoWorkUnderAStop
      BY DEF StopInv, ShapeInv, KernelInv, NoWorkUnderAStop, Halted
    <2>3. LiftIsRecorded
      BY DEF StopInv, BrokerInv, LiftIsRecorded
    <2>. QED
      BY <2>1, <2>2, <2>3 DEF StopsStand
  <1>. QED
    BY <1>1, <1>2, <1>3, PTL DEF Spec
-----------------------------------------------------------------------------
(***************************************************************************)
(* What a lift may do: the same invariant, one step further.                *)
(***************************************************************************)

\* A step of one thread is no other thread's.
LEMMA OneThreadSteps ==
  ASSUME ShapeInv, NEW t \in Threads, InStop(t) \/ InResume(t), NEW u \in Threads \ {t}
  PROVE  thread'[u] = thread[u]
  <1>1. PICK y : thread' = [thread EXCEPT ![t] = y]
    <2>1. CASE \E p : Goto(t, p)
      <3>1. PICK p : Goto(t, p)
        BY <2>1
      <3>. QED
        BY <3>1 DEF Goto
    <2>2. CASE Return(t)
      BY <2>2 DEF Return
    <2>3. CASE \E celled \in BOOLEAN : Resume(t, celled)
      BY <2>3 DEF Resume
    <2>4. CASE ReadConfirmed(t) /\ ~Return(t)
      BY <2>4 DEF ReadConfirmed
    <2>5. CASE StopToLift(t) /\ ~Return(t)
      BY <2>5 DEF StopToLift, Return
    <2>6. CASE Lift(t) /\ ~Return(t) /\ ~\E p : Goto(t, p)
      BY <2>6 DEF Lift
    <2>. QED
      BY <2>1, <2>2, <2>3, <2>4, <2>5, <2>6
         DEF InStop, InResume, Stop, Engage, StopAll, EngageAgain, Confirm, CheckLift,
             RecordResumed, IsStopped, LiftKernel, FinalCheck, StopAgain
  <1>. QED
    BY <1>1 DEF ShapeInv

\* Only a lift lifts.
LEMMA OnlyLiftLifts ==
  ASSUME ShapeInv, NEW t \in Threads, InStop(t) \/ InResume(t), ~Lift(t)
  PROVE  /\ broker.stopped => broker'.stopped
         /\ thread'[t].lifted => thread[t].lifted
  <1>1. broker.stopped => broker'.stopped
    <2>1. CASE StopAll(t)
      BY <2>1, StoppedDoes, EndedRunsAdd DEF StopAll
    <2>2. CASE ~StopAll(t)
      <3>1. broker' = broker
        BY <2>2 DEF InStop, InResume, Stop, Engage, EngageAgain, Resume, ReadConfirmed,
                    StopToLift, Confirm, CheckLift, RecordResumed, IsStopped, LiftKernel,
                    FinalCheck, StopAgain, state
      <3>. QED
        BY <3>1
    <2>. QED
      BY <2>1, <2>2
  <1>. DEFINE x == thread[t]
  <1>0. x \in Thread /\ thread \in [Threads -> Thread] /\ ~Idle.lifted
    BY IdleThread DEF ShapeInv
  <1>. HIDE DEF x
  <1>2. x = thread[t]
    BY DEF x
  <1>3. CASE Return(t)
    BY <1>0, <1>1, <1>3 DEF Return
  <1>4. CASE \E p \in Points : Goto(t, p)
    <2>1. PICK p \in Points : Goto(t, p)
      BY <1>4
    <2>. QED
      BY <1>0, <1>1, <2>1, GotoDoes, ThreadBecomes
  <1>5. CASE \E celled \in BOOLEAN : Resume(t, celled)
    <2>1. PICK celled \in BOOLEAN : Resume(t, celled)
      BY <1>5
    <2>2. thread'[t] = [Idle EXCEPT !.at = "confirmed", !.celled = celled, !.snapshot = cell]
      BY <1>0, <2>1 DEF Resume
    <2>3. ~thread'[t].lifted
      BY <2>2 DEF Idle
    <2>. QED
      BY <1>1, <2>3
  <1>6. CASE ReadConfirmed(t) /\ ~Return(t)
    <2>1. thread'[t] = [x EXCEPT !.confirmed = kernel.number, !.at = "stop_to_lift"]
      BY <1>0, <1>6 DEF ReadConfirmed, x
    <2>. QED
      BY <1>0, <1>1, <1>2, <2>1 DEF Thread
  <1>7. CASE StopToLift(t) /\ broker.stopped /\ ~Return(t)
    <2>1. thread'[t] = [x EXCEPT !.at = "dialog", !.number = broker.number,
                                 !.cancelled = broker.cancelled, !.asked = stops]
      BY <1>0, <1>7 DEF StopToLift, Return, x
    <2>. QED
      BY <1>0, <1>1, <1>2, <2>1 DEF Thread
  <1>8. Return(t) \/ (\E p \in Points : Goto(t, p)) \/ (\E celled \in BOOLEAN : Resume(t, celled))
        \/ ReadConfirmed(t) \/ (StopToLift(t) /\ broker.stopped)
    <2>1. {"engage", "stop_effects", "engage_again", "is_stopped", "check_lift", "record", "lift",
           "lift_if", "halted", "final_check"} \subseteq Points
      BY DEF Points
    <2>2. CASE StopToLift(t)
      BY <2>1, <2>2 DEF StopToLift, Goto, Return
    <2>3. CASE InStop(t)
      BY <2>1, <2>3 DEF InStop, Stop, Engage, StopAll, EngageAgain
    <2>. QED
      BY <2>1, <2>2, <2>3
         DEF InResume, Confirm, CheckLift, RecordResumed, IsStopped, LiftKernel, FinalCheck,
             StopAgain
  <1>. QED
    BY <1>1, <1>3, <1>4, <1>5, <1>6, <1>7, <1>8

\* A lift takes away the stop its thread asked about, with the count it showed.
LEMMA LiftLiftsWhatWasAsked ==
  ASSUME StopInv, NEW t \in Threads, Lift(t),
         ~(thread'[t].lifted => thread[t].lifted) \/ ~(broker.stopped => broker'.stopped)
  PROVE  At(t, "lift") /\ thread[t].asked = stops /\ thread[t].cancelled = Cardinality(endedBy)
  <1>. USE DEF StopInv, ShapeInv
  <1>. DEFINE x == thread[t]
  <1>1. x \in Thread /\ ThreadOK(x) /\ x.at = "lift"
    BY DEF ThreadsInv, Lift, At
  <1>2. ~Refused(x.number) /\ broker.stopped
    <2>1. CASE Return(t) /\ broker' = broker
      <3>1. thread'[t] = Idle
        BY <2>1 DEF Return
      <3>. QED
        BY <2>1, <3>1, IdleThread
    <2>2. CASE Goto(t, "is_stopped") /\ broker' = broker
      <3>1. "is_stopped" \in Points
        BY DEF Points
      <3>2. thread'[t].lifted = thread[t].lifted
        BY <2>2, <3>1, GotoDoes, ThreadBecomes
      <3>. QED
        BY <2>2, <3>2
    <2>. QED
      BY <2>1, <2>2 DEF Lift
  <1>3. x.number = broker.number /\ ~broker.exhausted
    BY <1>2 DEF Refused
  <1>. QED
    BY <1>1, <1>2, <1>3 DEF ThreadOK, Asking, BrokerInv, At

\* A thread that lifted and returns behind its cell was overtaken in both registers.
LEMMA ReturnBehindTheCell ==
  ASSUME StopInv, NEW t \in Threads, InStop(t) \/ InResume(t),
         thread[t].celled, thread[t].at # "idle", thread'[t].at = "idle", thread[t].lifted,
         cell # thread[t].snapshot
  PROVE  /\ kernel'.number > thread[t].confirmed \/ Stopping'
         /\ broker'.number > thread[t].number \/ broker'.exhausted
  <1>. USE DEF StopInv, ShapeInv
  <1>. DEFINE x == thread[t]
  <1>1. x \in Thread /\ ThreadOK(x) /\ x.lifted /\ x.celled /\ cell # x.snapshot /\ x.at # "idle"
    BY DEF ThreadsInv
  <1>2. x.at \in PastLift
    BY <1>1 DEF ThreadOK
  <1>. HIDE DEF x
  <1>3. ASSUME NEW p \in Points, p # "idle" PROVE ~Goto(t, p)
    <2>. SUFFICES ASSUME Goto(t, p) PROVE FALSE
      OBVIOUS
    <2>1. thread'[t] = [thread[t] EXCEPT !.at = p] /\ [thread[t] EXCEPT !.at = p].at = p
      BY <1>3, GotoDoes, ThreadBecomes
    <2>. QED
      BY <1>3, <2>1
  <1>4. {"engage", "stop_effects", "engage_again", "is_stopped", "lift_if", "halted",
         "final_check"} \subseteq Points
    BY DEF Points
  <1>5. CASE InStop(t)
    <2>1. EngageAgain(t)
      BY <1>1, <1>3, <1>4, <1>5 DEF InStop, Stop, Engage, StopAll, At, x
    <2>2. kernel'.number = kernel.number + 1 /\ UNCHANGED broker /\ x.at = "engage_again"
      BY <2>1 DEF EngageAgain, Engaged, At, x
    <2>3. x.confirmed \in Nat /\ x.confirmed <= kernel.number /\ Newer(x)
      BY <1>1, <2>2 DEF ThreadOK, Thread
    <2>. QED
      BY <2>2, <2>3 DEF Newer, x
  <1>6. CASE InResume(t)
    <2>1. IsStopped(t) \/ FinalCheck(t) \/ LiftKernel(t)
      BY <1>1, <1>2, <1>3, <1>4, <1>6
         DEF InResume, Resume, ReadConfirmed, StopToLift, Confirm, CheckLift, RecordResumed,
             Lift, StopAgain, At, PastLift, x
    <2>2. ~Recovering(t)
      BY <1>1 DEF Recovering, x
    <2>3. IsStopped(t) /\ broker.stopped
      BY <1>1, <1>3, <1>4, <2>1, <2>2 DEF IsStopped, FinalCheck, LiftKernel, x
    <2>4. UNCHANGED <<kernel, broker>> /\ Newer(x) /\ Behind(x)
      BY <1>1, <2>3 DEF IsStopped, state, ThreadOK
    <2>5. Stopping => Stopping'
      <3>1. SUFFICES ASSUME NEW u \in Threads, At(u, "engage_again") PROVE At(u, "engage_again")'
        BY DEF Stopping
      <3>2. u # t
        BY <2>3, <3>1 DEF IsStopped, At
      <3>. QED
        BY <1>6, <3>1, <3>2, OneThreadSteps DEF At
    <2>6. x.confirmed \in Nat /\ x.number \in Nat /\ kernel.number \in Nat /\ broker.number \in Nat
      BY <1>1, StopAssumption DEF Thread
    <2>. QED
      BY <2>4, <2>5, <2>6 DEF Newer, Behind, x
  <1>. QED
    BY <1>5, <1>6

LEMMA StepLiftsRight == ASSUME StopInv, Next PROVE LiftIsRight
  <1>0. ShapeInv
    BY DEF StopInv
  <1>1. CASE \E t \in Threads : InStop(t) \/ InResume(t)
    <2>1. PICK t \in Threads : InStop(t) \/ InResume(t)
      BY <1>1
    <2>2. \A u \in Threads \ {t} : thread'[u] = thread[u]
      BY <1>0, <2>1, OneThreadSteps
    <2>3. LiftsOnlyWhatWasAsked
      BY <1>0, <2>1, OnlyLiftLifts, LiftLiftsWhatWasAsked DEF LiftsOnlyWhatWasAsked
    <2>4. ToldHowManyRunsEnded
      <3>. SUFFICES ASSUME NEW u \in Threads, ~thread[u].lifted, thread'[u].lifted
                    PROVE  thread[u].cancelled = Cardinality(endedBy)
        BY DEF ToldHowManyRunsEnded
      <3>1. u = t
        BY <2>2
      <3>2. Lift(t)
        BY <1>0, <2>1, <3>1, OnlyLiftLifts
      <3>3. ~(thread'[t].lifted => thread[t].lifted)
        BY <3>1
      <3>4. thread[t].cancelled = Cardinality(endedBy)
        BY <3>2, <3>3, LiftLiftsWhatWasAsked
      <3>. QED
        BY <3>1, <3>4
    <2>5. OvertakenLiftIsUndone
      <3>. SUFFICES ASSUME NEW u \in Threads, thread[u].celled, thread[u].at # "idle",
                           thread'[u].at = "idle", thread[u].lifted, cell # thread[u].snapshot
                    PROVE  /\ kernel'.number > thread[u].confirmed \/ Stopping'
                           /\ broker'.number > thread[u].number \/ broker'.exhausted
        BY DEF OvertakenLiftIsUndone, At
      <3>1. u = t
        BY <2>2
      <3>. QED
        BY <2>1, <3>1, ReturnBehindTheCell
    <2>. QED
      BY <2>3, <2>4, <2>5 DEF LiftIsRight
  <1>2. CASE ~\E t \in Threads : InStop(t) \/ InResume(t)
    <2>1. UNCHANGED thread /\ (broker' = broker \/ broker' = [broker EXCEPT !.closed = TRUE])
      BY <1>2 DEF Next, Admit, Open, End, EngageCell, Close, Latch
    <2>2. broker'.stopped = broker.stopped
      BY <1>0, <2>1 DEF ShapeInv
    <2>. QED
      BY <2>1, <2>2 DEF LiftIsRight, LiftsOnlyWhatWasAsked, ToldHowManyRunsEnded,
                        OvertakenLiftIsUndone, At
  <1>. QED
    BY <1>1, <1>2

(* A resume lifts the stop its owner was asked about and no other, at the   *)
(* end of the numbers too (check_lift, lift); the count the dialog showed   *)
(* is the count of the runs the stops ended; and a resume that its cell     *)
(* overtook leaves a newer stop in both registers.                          *)
THEOREM LiftsAlwaysRight == Spec => LiftsAreRight
  <1>1. Init => StopInv
    BY InitStopInv
  <1>2. StopInv /\ [Next]_vars => StopInv'
    BY NextKeepsInv
  <1>3. StopInv /\ [Next]_vars => [LiftIsRight]_vars
    BY StepLiftsRight
  <1>. QED
    BY <1>1, <1>2, <1>3, PTL DEF Spec, LiftsAreRight
-----------------------------------------------------------------------------
(***************************************************************************)
(* The halt log of the same authority (module HaltLog), for any capacity,   *)
(* number of halts and number of attachers.  A durable halt's record, its   *)
(* write and the attachment are steps of different threads.  The inductive  *)
(* invariant gives a halt one place at a time: the log, while there is no   *)
(* audit; its recorder; the attachment's backlog; the audit; or the count.  *)
(***************************************************************************)
CONSTANTS Halts, Durable, Attachers, Capacity
VARIABLES log, attached, unrecorded, at, backlog, refused, turn, written

Log == INSTANCE HaltLog

LogShape ==
  /\ log \in Seq(Halts) /\ Len(log) <= Capacity
  /\ attached \in Attachers \cup {Log!Nobody}
  /\ unrecorded \in Nat
  /\ at \in [Halts -> {"start", "write", "count", "returned"}]
  /\ backlog \in [Attachers -> SUBSET Durable]
  /\ refused \in [Attachers -> Nat]
  /\ turn \in [Attachers -> {"start", "write", "returned"}]
  /\ written \in [Halts -> Nat]

\* A halt is in the log once, and in the audit's hands in one place: with its
\* recorder, in the backlog, or taken.  Nobody holds one before the audit.
LogPlaces ==
  /\ \A i, j \in DOMAIN log : log[i] = log[j] => i = j
  /\ \A i \in DOMAIN log : at[log[i]] # "start"
  /\ \A h \in Halts :
       /\ h \notin Durable => written[h] = 0 /\ at[h] \in {"start", "returned"}
       /\ at[h] # "returned" => written[h] = 0
       /\ attached = Log!Nobody => written[h] = 0 /\ at[h] \in {"start", "returned"}
  /\ \A a \in Attachers :
       /\ a # attached => backlog[a] = {} /\ refused[a] = 0
       /\ \A h \in backlog[a] : at[h] = "returned" /\ written[h] = 0
  /\ Log!WrittenOnce

LogInv == LogShape /\ LogPlaces /\ Log!EveryHaltIsAccountedFor

\* The instance's finite sets are the finite sets.
LEMMA SameCount ==
  \A S : (Log!IsFiniteSet(S) <=> IsFiniteSet(S)) /\ Log!Cardinality(S) = Cardinality(S)
<1>1. \A S : Log!IsFiniteSet(S) <=> IsFiniteSet(S)
  BY Zenon DEF IsFiniteSet, Log!IsFiniteSet
<1>2. \A S : Log!Cardinality(S) = Cardinality(S)
  BY Zenon DEF Cardinality, Log!Cardinality
<1> QED BY <1>1, <1>2

\* One more, one less.
LEMMA Counted ==
  ASSUME Log!HaltLogAssumption, NEW S, S \subseteq Durable
  PROVE  /\ \A h \in Durable :
              /\ h \notin S => Cardinality(S \cup {h}) = Cardinality(S) + 1
              /\ h \in S => Cardinality(S \ {h}) = Cardinality(S) - 1
         /\ Cardinality(S) \in Nat
<1>1. S \in SUBSET Halts /\ IsFiniteSet(Halts)
  BY SameCount DEF Log!HaltLogAssumption
<1>2. IsFiniteSet(S)
  BY <1>1, FS_Subset
<1> QED BY <1>2, FS_AddElement, FS_RemoveElement, FS_CardinalityType

\* The places a recorded halt can be in, as sets of durable halts.
LEMMA PlacesTyped ==
  ASSUME LogShape
  PROVE  /\ Log!Waiting \subseteq Durable /\ Log!InFlight \subseteq Durable
         /\ Log!Held \subseteq Durable /\ Log!Taken \subseteq Durable
         /\ Log!Recorded \subseteq Durable /\ Log!Refusals \in Nat
<1>1. Log!Waiting \subseteq Durable /\ Log!InFlight \subseteq Durable
      /\ Log!Held \subseteq Durable /\ Log!Taken \subseteq Durable
      /\ Log!Recorded \subseteq Durable
  BY DEF LogShape, Log!Waiting, Log!InFlight, Log!Held, Log!Taken, Log!Recorded
<1>2. Log!Refusals \in Nat
  BY DEF LogShape, Log!Refusals
<1> QED BY <1>1, <1>2

Balance(rec, wait, fly, held, taken, ref, un) ==
  Cardinality(rec) = Cardinality(wait) + Cardinality(fly) + Cardinality(held)
                     + Cardinality(taken) + ref + un

LEMMA AccountedIsBalance ==
  Log!EveryHaltIsAccountedFor <=>
    Balance(Log!Recorded, Log!Waiting, Log!InFlight, Log!Held, Log!Taken, Log!Refusals,
            unrecorded)
BY SameCount DEF Log!EveryHaltIsAccountedFor, Balance

LEMMA LogInitially == ASSUME Log!HaltLogAssumption, Log!Init PROVE LogInv
<1> USE DEF Log!Init
<1>1. LogShape
  BY DEF LogShape, Log!HaltLogAssumption
<1>2. LogPlaces
  BY DEF LogPlaces, Log!WrittenOnce, Log!HaltLogAssumption
<1>3. /\ Log!Recorded = {} /\ Log!Waiting = {} /\ Log!InFlight = {}
      /\ Log!Held = {} /\ Log!Taken = {} /\ Log!Refusals = 0
  BY DEF Log!HaltLogAssumption, Log!Recorded, Log!Waiting, Log!InFlight, Log!Held,
         Log!Taken, Log!Refusals, Log!ToSet, Log!Nobody
<1>4. Balance({}, {}, {}, {}, {}, 0, 0)
  BY FS_EmptySet DEF Balance
<1> QED BY <1>1, <1>2, <1>3, <1>4, AccountedIsBalance DEF LogInv

\* Pushing a halt onto the log: the oldest leaves a full one.
LEMMA PushedLog ==
  ASSUME Log!HaltLogAssumption, LogShape, LogPlaces, NEW h \in Halts, at[h] = "start"
  PROVE  LET gone == IF Len(log) = Capacity THEN {Head(log)} ELSE {}
         IN /\ Log!Pushed(h) \in Seq(Halts) /\ Len(Log!Pushed(h)) <= Capacity
            /\ \A i, j \in DOMAIN Log!Pushed(h) : Log!Pushed(h)[i] = Log!Pushed(h)[j] => i = j
            /\ Log!ToSet(Log!Pushed(h)) = (Log!ToSet(log) \ gone) \cup {h}
            /\ gone \subseteq Log!ToSet(log)
            /\ h \notin Log!ToSet(log)
<1> DEFINE kept == IF Len(log) = Capacity THEN Tail(log) ELSE log
           gone == IF Len(log) = Capacity THEN {Head(log)} ELSE {}
<1>1. log \in Seq(Halts) /\ Len(log) <= Capacity /\ Capacity \in Nat \ {0}
      /\ \A i, j \in DOMAIN log : log[i] = log[j] => i = j
  BY DEF LogShape, LogPlaces, Log!HaltLogAssumption
<1>2. h \notin Log!ToSet(log)
  BY DEF LogPlaces, Log!ToSet
<1>3. /\ kept \in Seq(Halts) /\ Len(kept) < Capacity
      /\ \A i, j \in DOMAIN kept : kept[i] = kept[j] => i = j
      /\ Log!ToSet(kept) = Log!ToSet(log) \ gone
      /\ gone \subseteq Log!ToSet(log)
  <2>1. CASE Len(log) = Capacity
    <3>1. /\ log # <<>> /\ kept = Tail(log) /\ gone = {Head(log)}
          /\ Tail(log) \in Seq(Halts) /\ Len(Tail(log)) = Len(log) - 1
          /\ DOMAIN Tail(log) = 1..(Len(log) - 1) /\ DOMAIN log = 1..Len(log)
          /\ Head(log) = log[1]
          /\ \A i \in 1..(Len(log) - 1) : Tail(log)[i] = log[i + 1]
      BY <1>1, <2>1
    <3>2. \A i, j \in DOMAIN kept : kept[i] = kept[j] => i = j
      BY <1>1, <2>1, <3>1
    <3>3. Log!ToSet(kept) \subseteq Log!ToSet(log) \ gone
      BY <1>1, <2>1, <3>1 DEF Log!ToSet
    <3>4. Log!ToSet(log) \ gone \subseteq Log!ToSet(kept)
      <4>1. SUFFICES ASSUME NEW i \in 1..Len(log), log[i] # log[1]
                     PROVE  log[i] \in Log!ToSet(kept)
        BY <3>1 DEF Log!ToSet
      <4>2. i - 1 \in 1..(Len(log) - 1) /\ Tail(log)[i - 1] = log[i]
        BY <1>1, <2>1, <3>1, <4>1
      <4> QED BY <3>1, <4>2 DEF Log!ToSet
    <3>5. gone \subseteq Log!ToSet(log)
      BY <1>1, <2>1, <3>1 DEF Log!ToSet
    <3> QED BY <1>1, <2>1, <3>1, <3>2, <3>3, <3>4, <3>5
  <2>2. CASE Len(log) # Capacity
    BY <1>1, <2>2
  <2> QED BY <2>1, <2>2
<1>4. Log!Pushed(h) = Append(kept, h)
  BY DEF Log!Pushed
<1> HIDE DEF kept
<1>5. /\ Append(kept, h) \in Seq(Halts) /\ Len(Append(kept, h)) = Len(kept) + 1
      /\ DOMAIN Append(kept, h) = 1..(Len(kept) + 1) /\ DOMAIN kept = 1..Len(kept)
      /\ \A i \in 1..Len(kept) : Append(kept, h)[i] = kept[i]
      /\ Append(kept, h)[Len(kept) + 1] = h
      /\ Len(kept) \in Nat
  BY <1>3
<1>6. Log!ToSet(Append(kept, h)) = Log!ToSet(kept) \cup {h}
  <2>1. \A i \in 1..(Len(kept) + 1) : i \in 1..Len(kept) \/ i = Len(kept) + 1
    BY <1>5
  <2>2. Log!ToSet(Append(kept, h)) \subseteq Log!ToSet(kept) \cup {h}
    BY <1>5, <2>1 DEF Log!ToSet
  <2>3. Log!ToSet(kept) \cup {h} \subseteq Log!ToSet(Append(kept, h))
    BY <1>5 DEF Log!ToSet
  <2> QED BY <2>2, <2>3
<1>7. h \notin Log!ToSet(kept)
  BY <1>2, <1>3
<1>8. \A i, j \in DOMAIN Append(kept, h) : Append(kept, h)[i] = Append(kept, h)[j] => i = j
  <2>1. \A i \in 1..Len(kept) : kept[i] # h
    BY <1>5, <1>7 DEF Log!ToSet
  <2> QED BY <1>3, <1>5, <2>1
<1> QED BY <1>1, <1>2, <1>3, <1>4, <1>5, <1>6, <1>8

LEMMA RecordStep ==
  ASSUME Log!HaltLogAssumption, LogInv, NEW h \in Halts, Log!Record(h)
  PROVE  LogInv'
<1> USE DEF LogInv
<1> DEFINE gone == IF Len(log) = Capacity THEN {Head(log)} ELSE {}
<1>1. /\ at[h] = "start" /\ log' = Log!Pushed(h)
      /\ unrecorded' = unrecorded + Log!Lost
      /\ at' = [at EXCEPT ![h] = IF h \in Durable /\ attached # Log!Nobody THEN "write"
                                 ELSE "returned"]
      /\ attached' = attached /\ backlog' = backlog /\ refused' = refused
      /\ turn' = turn /\ written' = written
  BY DEF Log!Record
<1>2. /\ log' \in Seq(Halts) /\ Len(log') <= Capacity
      /\ \A i, j \in DOMAIN log' : log'[i] = log'[j] => i = j
      /\ Log!ToSet(log') = (Log!ToSet(log) \ gone) \cup {h}
      /\ gone \subseteq Log!ToSet(log)
      /\ h \notin Log!ToSet(log)
  BY <1>1, PushedLog
<1>3. LogShape'
  <2>1. Log!Lost \in {0, 1}
    BY DEF Log!Lost
  <2> QED BY <1>1, <1>2, <2>1 DEF LogShape
<1>4. LogPlaces'
  <2>1. \A i \in DOMAIN log' : at'[log'[i]] # "start"
    <3>1. SUFFICES ASSUME NEW i \in DOMAIN log' PROVE at'[log'[i]] # "start"
      OBVIOUS
    <3>2. log'[i] \in Log!ToSet(log) \cup {h} /\ log'[i] \in Halts
      <4>1. log'[i] \in Log!ToSet(log') /\ log'[i] \in Halts
        BY <1>2 DEF Log!ToSet
      <4> QED BY <1>2, <4>1
    <3>3. log'[i] # h => at[log'[i]] # "start"
      BY <3>2 DEF LogPlaces, Log!ToSet
    <3> QED BY <1>1, <3>2, <3>3 DEF LogShape
  <2>2. \A g \in Halts :
          /\ g \notin Durable => written'[g] = 0 /\ at'[g] \in {"start", "returned"}
          /\ at'[g] # "returned" => written'[g] = 0
          /\ attached' = Log!Nobody => written'[g] = 0 /\ at'[g] \in {"start", "returned"}
    BY <1>1 DEF LogShape, LogPlaces
  <2>3. \A a \in Attachers :
          /\ a # attached' => backlog'[a] = {} /\ refused'[a] = 0
          /\ \A g \in backlog'[a] : at'[g] = "returned" /\ written'[g] = 0
    BY <1>1 DEF LogShape, LogPlaces, Log!HaltLogAssumption
  <2>4. Log!WrittenOnce'
    BY <1>1 DEF LogPlaces, Log!WrittenOnce
  <2> QED BY <1>2, <2>1, <2>2, <2>3, <2>4 DEF LogPlaces, Log!Nobody
<1>5. Log!Held' = Log!Held /\ Log!Taken' = Log!Taken /\ Log!Refusals' = Log!Refusals
  BY <1>1 DEF Log!Held, Log!Taken, Log!Refusals, Log!Nobody
<1>6. Log!Recorded' = IF h \in Durable THEN Log!Recorded \cup {h} ELSE Log!Recorded
  BY <1>1 DEF LogShape, Log!Recorded, Log!HaltLogAssumption
<1>7. h \notin Log!Recorded /\ h \notin Log!InFlight /\ h \notin Log!Waiting
  BY <1>1, <1>2 DEF Log!Recorded, Log!InFlight, Log!Waiting
<1>8. Balance(Log!Recorded, Log!Waiting, Log!InFlight, Log!Held, Log!Taken, Log!Refusals,
              unrecorded)
  BY AccountedIsBalance
<1>9. Balance(Log!Recorded', Log!Waiting', Log!InFlight', Log!Held', Log!Taken',
              Log!Refusals', unrecorded')
  <2>0. /\ Log!Waiting \subseteq Durable /\ Log!InFlight \subseteq Durable
        /\ Log!Held \subseteq Durable /\ Log!Taken \subseteq Durable
        /\ Log!Recorded \subseteq Durable /\ Log!Refusals \in Nat /\ unrecorded \in Nat
    BY PlacesTyped DEF LogShape
  <2>1. CASE attached # Log!Nobody
    <3>1. Log!InFlight' = IF h \in Durable THEN Log!InFlight \cup {h} ELSE Log!InFlight
      BY <1>1, <2>1 DEF LogShape, Log!InFlight, Log!HaltLogAssumption
    <3>2. Log!Waiting = {} /\ Log!Waiting' = {} /\ unrecorded' = unrecorded
      BY <1>1, <2>1 DEF LogShape, Log!Waiting, Log!Lost, Log!Nobody
    <3> QED BY <1>5, <1>6, <1>7, <1>8, <2>0, <3>1, <3>2, Counted DEF Balance
  <2>2. CASE attached = Log!Nobody
    <3> DEFINE dgone == gone \cap Durable
               waits == Log!ToSet(log) \cap Durable
    <3>1. Log!InFlight' = Log!InFlight
      BY <1>1, <2>2 DEF LogShape, Log!InFlight, Log!HaltLogAssumption
    <3>2. Log!Waiting = waits /\ Log!Waiting' = Log!ToSet(log') \cap Durable
      BY <1>1, <2>2 DEF Log!Waiting, Log!Nobody
    <3>3. Log!Waiting' = IF h \in Durable THEN (waits \ dgone) \cup {h} ELSE waits \ dgone
      BY <1>2, <3>2
    <3>4. Cardinality(waits \ dgone) = Cardinality(waits) - Log!Lost /\ Log!Lost \in Nat
      <4>1. CASE Len(log) = Capacity /\ Head(log) \in Durable
        <5>1. dgone = {Head(log)} /\ Log!Lost = 1 /\ Head(log) \in waits
          BY <1>2, <2>2, <4>1 DEF Log!Lost
        <5>2. waits \subseteq Durable /\ waits \ dgone = waits \ {Head(log)}
          BY <5>1
        <5> HIDE DEF waits, dgone
        <5>3. Cardinality(waits \ {Head(log)}) = Cardinality(waits) - 1
          BY <4>1, <5>1, <5>2, Counted
        <5> QED BY <5>1, <5>2, <5>3
      <4>2. CASE ~(Len(log) = Capacity /\ Head(log) \in Durable)
        <5>1. waits \ dgone = waits /\ Log!Lost = 0
          BY <4>2 DEF Log!Lost
        <5>2. Cardinality(waits) \in Nat
          BY Counted
        <5> HIDE DEF waits, dgone
        <5> QED BY <5>1, <5>2
      <4> QED BY <4>1, <4>2
    <3>5. h \notin waits \ dgone /\ waits \ dgone \subseteq Durable
      BY <1>2
    <3> HIDE DEF dgone, waits
    <3>6. Cardinality(Log!Waiting') =
            Cardinality(waits) - Log!Lost + (IF h \in Durable THEN 1 ELSE 0)
      BY <3>3, <3>4, <3>5, Counted
    <3>7. Cardinality(waits) \in Nat /\ Cardinality(Log!Recorded') =
            Cardinality(Log!Recorded) + (IF h \in Durable THEN 1 ELSE 0)
          /\ Cardinality(Log!Recorded) \in Nat
      BY <1>6, <1>7, <2>0, <3>2, Counted
    <3>8. Cardinality(Log!InFlight) \in Nat /\ Cardinality(Log!Held) \in Nat
          /\ Cardinality(Log!Taken) \in Nat
      BY <2>0, Counted
    <3> QED BY <1>1, <1>5, <1>8, <2>0, <3>1, <3>2, <3>4, <3>6, <3>7, <3>8 DEF Balance
  <2> QED BY <2>1, <2>2
<1>10. Log!EveryHaltIsAccountedFor'
  BY <1>9, SameCount DEF Log!EveryHaltIsAccountedFor, Balance
<1> QED BY <1>3, <1>4, <1>10

\* What a step that leaves the log alone has to say.
LEMMA OtherLogStep ==
  ASSUME Log!HaltLogAssumption, LogInv, log' = log, LogShape',
         \A h \in Halts :
           /\ at[h] # "start" => at'[h] # "start"
           /\ h \notin Durable => written'[h] = 0 /\ at'[h] \in {"start", "returned"}
           /\ at'[h] # "returned" => written'[h] = 0
           /\ attached' = Log!Nobody => written'[h] = 0 /\ at'[h] \in {"start", "returned"}
           /\ written'[h] <= 1,
         \A a \in Attachers :
           /\ a # attached' => backlog'[a] = {} /\ refused'[a] = 0
           /\ \A h \in backlog'[a] : at'[h] = "returned" /\ written'[h] = 0,
         Balance(Log!Recorded', Log!Waiting', Log!InFlight', Log!Held', Log!Taken',
                 Log!Refusals', unrecorded')
  PROVE  LogInv'
<1>1. \A i \in DOMAIN log' : log'[i] \in Halts /\ at'[log'[i]] # "start"
  BY DEF LogInv, LogShape, LogPlaces
<1>2. \A i, j \in DOMAIN log' : log'[i] = log'[j] => i = j
  BY DEF LogInv, LogPlaces
<1>3. Log!WrittenOnce'
  BY DEF Log!WrittenOnce
<1>4. LogPlaces'
  BY <1>1, <1>2, <1>3 DEF LogPlaces, Log!Nobody
<1>5. Log!EveryHaltIsAccountedFor'
  BY SameCount DEF Log!EveryHaltIsAccountedFor, Balance
<1> QED BY <1>4, <1>5 DEF LogInv

\* What the invariant says before a step.
LEMMA BalanceBefore ==
  ASSUME Log!HaltLogAssumption, LogInv
  PROVE  /\ Cardinality(Log!Recorded) = Cardinality(Log!Waiting) + Cardinality(Log!InFlight)
              + Cardinality(Log!Held) + Cardinality(Log!Taken) + Log!Refusals + unrecorded
         /\ Cardinality(Log!Recorded) \in Nat /\ Cardinality(Log!Waiting) \in Nat
         /\ Cardinality(Log!InFlight) \in Nat /\ Cardinality(Log!Held) \in Nat
         /\ Cardinality(Log!Taken) \in Nat /\ Log!Refusals \in Nat /\ unrecorded \in Nat
<1>1. LogShape
  BY DEF LogInv
<1>2. Balance(Log!Recorded, Log!Waiting, Log!InFlight, Log!Held, Log!Taken, Log!Refusals,
              unrecorded)
  BY AccountedIsBalance DEF LogInv
<1>3. /\ Cardinality(Log!Recorded) \in Nat /\ Cardinality(Log!Waiting) \in Nat
      /\ Cardinality(Log!InFlight) \in Nat /\ Cardinality(Log!Held) \in Nat
      /\ Cardinality(Log!Taken) \in Nat
  BY <1>1, PlacesTyped, Counted
<1>4. Log!Refusals \in Nat /\ unrecorded \in Nat
  BY <1>1, PlacesTyped DEF LogShape
<1> QED BY <1>2, <1>3, <1>4 DEF Balance

LEMMA WriteStep ==
  ASSUME Log!HaltLogAssumption, LogInv, NEW h \in Halts, Log!Write(h)
  PROVE  LogInv'
<1>1. /\ at[h] = "write"
      /\ log' = log /\ attached' = attached /\ unrecorded' = unrecorded
      /\ backlog' = backlog /\ refused' = refused /\ turn' = turn
  BY DEF Log!Write
<1>2. LogShape /\ LogPlaces /\ h \in Durable /\ Durable \subseteq Halts
  BY <1>1 DEF LogInv, LogPlaces, Log!HaltLogAssumption
<1>3. /\ written[h] = 0 /\ h \in Log!InFlight /\ h \notin Log!Taken
      /\ attached # Log!Nobody
      /\ \A a \in Attachers : h \notin backlog[a]
  BY <1>1, <1>2 DEF LogShape, LogPlaces, Log!InFlight, Log!Taken
<1>4. Log!Waiting' = Log!Waiting /\ Log!Held' = Log!Held /\ Log!Refusals' = Log!Refusals
  BY <1>1 DEF Log!Waiting, Log!Held, Log!Refusals, Log!Nobody
<1>5. CASE written' = [written EXCEPT ![h] = @ + 1] /\ at' = [at EXCEPT ![h] = "returned"]
  <2>1. LogShape'
    BY <1>1, <1>2, <1>5 DEF LogShape
  <2>2. /\ Log!Recorded' = Log!Recorded /\ Log!InFlight' = Log!InFlight \ {h}
        /\ Log!Taken' = Log!Taken \cup {h}
    BY <1>1, <1>2, <1>3, <1>5 DEF LogShape, Log!Recorded, Log!InFlight, Log!Taken
  <2>3. /\ Cardinality(Log!InFlight') = Cardinality(Log!InFlight) - 1
        /\ Cardinality(Log!Taken') = Cardinality(Log!Taken) + 1
    BY <1>2, <1>3, <2>2, PlacesTyped, Counted
  <2>4. Balance(Log!Recorded', Log!Waiting', Log!InFlight', Log!Held', Log!Taken',
                Log!Refusals', unrecorded')
    BY <1>1, <1>4, <2>2, <2>3, BalanceBefore DEF Balance
  <2>5. \A g \in Halts :
           /\ at[g] # "start" => at'[g] # "start"
           /\ g \notin Durable => written'[g] = 0 /\ at'[g] \in {"start", "returned"}
           /\ at'[g] # "returned" => written'[g] = 0
           /\ attached' = Log!Nobody => written'[g] = 0 /\ at'[g] \in {"start", "returned"}
           /\ written'[g] <= 1
    BY <1>1, <1>2, <1>3, <1>5 DEF LogShape, LogPlaces, Log!WrittenOnce
  <2>6. \A a \in Attachers :
           /\ a # attached' => backlog'[a] = {} /\ refused'[a] = 0
           /\ \A g \in backlog'[a] : at'[g] = "returned" /\ written'[g] = 0
    BY <1>1, <1>2, <1>3, <1>5 DEF LogShape, LogPlaces
  <2> QED BY <1>1, <2>1, <2>4, <2>5, <2>6, OtherLogStep
<1>6. CASE written' = written /\ at' = [at EXCEPT ![h] = "count"]
  <2>1. LogShape'
    BY <1>1, <1>2, <1>6 DEF LogShape
  <2>2. /\ Log!Recorded' = Log!Recorded /\ Log!InFlight' = Log!InFlight
        /\ Log!Taken' = Log!Taken
    BY <1>1, <1>2, <1>6 DEF LogShape, Log!Recorded, Log!InFlight, Log!Taken
  <2>4. Balance(Log!Recorded', Log!Waiting', Log!InFlight', Log!Held', Log!Taken',
                Log!Refusals', unrecorded')
    BY <1>1, <1>4, <2>2, BalanceBefore DEF Balance
  <2>5. \A g \in Halts :
           /\ at[g] # "start" => at'[g] # "start"
           /\ g \notin Durable => written'[g] = 0 /\ at'[g] \in {"start", "returned"}
           /\ at'[g] # "returned" => written'[g] = 0
           /\ attached' = Log!Nobody => written'[g] = 0 /\ at'[g] \in {"start", "returned"}
           /\ written'[g] <= 1
    BY <1>1, <1>2, <1>3, <1>6 DEF LogShape, LogPlaces, Log!WrittenOnce
  <2>6. \A a \in Attachers :
           /\ a # attached' => backlog'[a] = {} /\ refused'[a] = 0
           /\ \A g \in backlog'[a] : at'[g] = "returned" /\ written'[g] = 0
    BY <1>1, <1>2, <1>3, <1>6 DEF LogShape, LogPlaces
  <2> QED BY <1>1, <2>1, <2>4, <2>5, <2>6, OtherLogStep
<1> QED BY <1>5, <1>6 DEF Log!Write

LEMMA CountUnrecordedStep ==
  ASSUME Log!HaltLogAssumption, LogInv, NEW h \in Halts, Log!CountUnrecorded(h)
  PROVE  LogInv'
<1>1. /\ at[h] = "count" /\ at' = [at EXCEPT ![h] = "returned"]
      /\ unrecorded' = unrecorded + 1
      /\ log' = log /\ attached' = attached /\ written' = written
      /\ backlog' = backlog /\ refused' = refused /\ turn' = turn
  BY DEF Log!CountUnrecorded
<1>2. LogShape /\ LogPlaces /\ h \in Durable /\ Durable \subseteq Halts
  BY <1>1 DEF LogInv, LogPlaces, Log!HaltLogAssumption
<1>3. LogShape'
  BY <1>1, <1>2 DEF LogShape
<1>4. /\ Log!Waiting' = Log!Waiting /\ Log!Held' = Log!Held /\ Log!Refusals' = Log!Refusals
      /\ Log!Taken' = Log!Taken /\ Log!Recorded' = Log!Recorded
  BY <1>1, <1>2 DEF LogShape, Log!Waiting, Log!Held, Log!Refusals, Log!Taken, Log!Recorded,
                    Log!Nobody
<1>5. h \in Log!InFlight /\ Log!InFlight' = Log!InFlight \ {h}
  BY <1>1, <1>2 DEF LogShape, Log!InFlight
<1>6. Cardinality(Log!InFlight') = Cardinality(Log!InFlight) - 1
  BY <1>2, <1>5, PlacesTyped, Counted
<1>7. Balance(Log!Recorded', Log!Waiting', Log!InFlight', Log!Held', Log!Taken',
              Log!Refusals', unrecorded')
  BY <1>1, <1>4, <1>6, BalanceBefore DEF Balance
<1>8. \A g \in Halts :
         /\ at[g] # "start" => at'[g] # "start"
         /\ g \notin Durable => written'[g] = 0 /\ at'[g] \in {"start", "returned"}
         /\ at'[g] # "returned" => written'[g] = 0
         /\ attached' = Log!Nobody => written'[g] = 0 /\ at'[g] \in {"start", "returned"}
         /\ written'[g] <= 1
  BY <1>1, <1>2 DEF LogShape, LogPlaces, Log!WrittenOnce
<1>9. \A a \in Attachers :
         /\ a # attached' => backlog'[a] = {} /\ refused'[a] = 0
         /\ \A g \in backlog'[a] : at'[g] = "returned" /\ written'[g] = 0
  BY <1>1, <1>2 DEF LogShape, LogPlaces
<1> QED BY <1>1, <1>3, <1>7, <1>8, <1>9, OtherLogStep

LEMMA AttachStep ==
  ASSUME Log!HaltLogAssumption, LogInv, NEW a \in Attachers, Log!Attach(a)
  PROVE  LogInv'
<1>1. /\ log' = log /\ unrecorded' = unrecorded /\ at' = at /\ refused' = refused
      /\ written' = written
  BY DEF Log!Attach
<1>2. LogShape /\ LogPlaces /\ Durable \subseteq Halts /\ Log!Nobody \notin Attachers
  BY DEF LogInv, Log!HaltLogAssumption
<1>3. Log!Recorded' = Log!Recorded /\ Log!InFlight' = Log!InFlight /\ Log!Taken' = Log!Taken
  BY <1>1 DEF Log!Recorded, Log!InFlight, Log!Taken
<1>4. CASE attached # Log!Nobody
  <2>1. attached' = attached /\ backlog' = backlog /\ turn' = [turn EXCEPT ![a] = "returned"]
    BY <1>4 DEF Log!Attach
  <2>2. LogShape'
    BY <1>1, <1>2, <2>1 DEF LogShape, Log!Nobody
  <2>3. Log!Waiting' = Log!Waiting /\ Log!Held' = Log!Held /\ Log!Refusals' = Log!Refusals
    BY <1>1, <2>1 DEF Log!Waiting, Log!Held, Log!Refusals, Log!Nobody
  <2>4. Balance(Log!Recorded', Log!Waiting', Log!InFlight', Log!Held', Log!Taken',
                Log!Refusals', unrecorded')
    BY <1>1, <1>3, <2>3, BalanceBefore DEF Balance
  <2>5. \A h \in Halts : written[h] <= 1
    BY DEF LogInv, LogPlaces, Log!WrittenOnce
  <2> QED BY <1>1, <1>2, <2>1, <2>2, <2>4, <2>5, OtherLogStep DEF LogPlaces
<1>5. CASE attached = Log!Nobody
  <2>1. /\ attached' = a /\ backlog' = [backlog EXCEPT ![a] = Log!ToSet(log) \cap Durable]
        /\ turn' = [turn EXCEPT ![a] = "write"]
    BY <1>5 DEF Log!Attach
  <2>2. LogShape'
    BY <1>1, <1>2, <2>1 DEF LogShape, Log!Nobody
  <2>3. \A b \in Attachers : backlog[b] = {} /\ refused[b] = 0
    BY <1>2, <1>5 DEF LogPlaces
  <2>4. /\ Log!Held = {} /\ Log!Held' = Log!Waiting /\ Log!Waiting' = {}
        /\ Log!Refusals = 0 /\ Log!Refusals' = 0
    BY <1>1, <1>2, <1>5, <2>1, <2>3 DEF LogShape, Log!Held, Log!Waiting, Log!Refusals,
                                        Log!Nobody
  <2>5. Balance(Log!Recorded', Log!Waiting', Log!InFlight', Log!Held', Log!Taken',
                Log!Refusals', unrecorded')
    BY <1>1, <1>3, <2>4, BalanceBefore, FS_EmptySet DEF Balance
  <2>6. \A h \in Halts :
          /\ h \notin Durable => written[h] = 0 /\ at[h] \in {"start", "returned"}
          /\ at[h] # "returned" => written[h] = 0
          /\ written[h] <= 1
    BY <1>2 DEF LogPlaces, Log!WrittenOnce
  <2>7. \A b \in Attachers :
          /\ b # attached' => backlog'[b] = {} /\ refused'[b] = 0
          /\ \A h \in backlog'[b] : at'[h] = "returned" /\ written'[h] = 0
    <3>1. \A h \in Log!ToSet(log) : h \in Halts /\ at[h] # "start"
      BY <1>2 DEF LogShape, LogPlaces, Log!ToSet
    <3>2. \A h \in Log!ToSet(log) \cap Durable : at[h] = "returned" /\ written[h] = 0
      BY <1>2, <1>5, <3>1 DEF LogPlaces
    <3> QED BY <1>1, <1>2, <2>1, <2>3, <3>2 DEF LogShape
  <2>8. attached' # Log!Nobody
    BY <1>2, <2>1
  <2> QED BY <1>1, <2>2, <2>5, <2>6, <2>7, <2>8, OtherLogStep
<1> QED BY <1>4, <1>5

LEMMA WriteBacklogStep ==
  ASSUME Log!HaltLogAssumption, LogInv, NEW a \in Attachers, NEW h \in Halts,
         Log!WriteBacklog(a, h)
  PROVE  LogInv'
<1>1. /\ h \in backlog[a] /\ backlog' = [backlog EXCEPT ![a] = @ \ {h}]
      /\ log' = log /\ attached' = attached /\ unrecorded' = unrecorded /\ at' = at
      /\ turn' = turn
  BY DEF Log!WriteBacklog
<1>2. LogShape /\ LogPlaces /\ Durable \subseteq Halts /\ Log!Nobody \notin Attachers
  BY DEF LogInv, Log!HaltLogAssumption
<1>3. a = attached /\ h \in Durable /\ at[h] = "returned" /\ written[h] = 0
  BY <1>1, <1>2 DEF LogShape, LogPlaces
<1>4. /\ Log!Waiting' = Log!Waiting /\ Log!Recorded' = Log!Recorded
      /\ Log!InFlight' = Log!InFlight
  BY <1>1 DEF Log!Waiting, Log!Recorded, Log!InFlight, Log!Nobody
<1>5. h \in Log!Held /\ Log!Held' = Log!Held \ {h} /\ h \notin Log!Taken
  <2>1. Log!Held = backlog[a] /\ h \notin Log!Taken
    BY <1>1, <1>2, <1>3 DEF LogShape, LogPlaces, Log!Held, Log!Taken
  <2>2. Log!Held' = backlog'[a]
    BY <1>1, <1>2, <1>3 DEF LogShape, LogPlaces, Log!Held
  <2> QED BY <1>1, <1>2, <2>1, <2>2 DEF LogShape
<1>6. Cardinality(Log!Held') = Cardinality(Log!Held) - 1
  BY <1>2, <1>3, <1>5, PlacesTyped, Counted
<1>7. \A b \in Attachers : b # attached => backlog'[b] = {}
  BY <1>1, <1>2, <1>3 DEF LogShape, LogPlaces
<1>8. CASE written' = [written EXCEPT ![h] = @ + 1] /\ refused' = refused
  <2>1. LogShape'
    BY <1>1, <1>2, <1>8 DEF LogShape, Log!Nobody
  <2>2. Log!Taken' = Log!Taken \cup {h} /\ Log!Refusals' = Log!Refusals
    BY <1>1, <1>2, <1>3, <1>8 DEF LogShape, Log!Taken, Log!Refusals, Log!Nobody
  <2>3. Cardinality(Log!Taken') = Cardinality(Log!Taken) + 1
    BY <1>2, <1>3, <1>5, <2>2, PlacesTyped, Counted
  <2>4. Balance(Log!Recorded', Log!Waiting', Log!InFlight', Log!Held', Log!Taken',
                Log!Refusals', unrecorded')
    BY <1>1, <1>4, <1>6, <2>2, <2>3, BalanceBefore DEF Balance
  <2>5. \A g \in Halts :
           /\ at[g] # "start" => at'[g] # "start"
           /\ g \notin Durable => written'[g] = 0 /\ at'[g] \in {"start", "returned"}
           /\ at'[g] # "returned" => written'[g] = 0
           /\ attached' = Log!Nobody => written'[g] = 0 /\ at'[g] \in {"start", "returned"}
           /\ written'[g] <= 1
    BY <1>1, <1>2, <1>3, <1>8 DEF LogShape, LogPlaces, Log!WrittenOnce
  <2>6. \A b \in Attachers :
           /\ b # attached' => backlog'[b] = {} /\ refused'[b] = 0
           /\ \A g \in backlog'[b] : at'[g] = "returned" /\ written'[g] = 0
    BY <1>1, <1>2, <1>3, <1>7, <1>8 DEF LogShape, LogPlaces
  <2> QED BY <1>1, <2>1, <2>4, <2>5, <2>6, OtherLogStep
<1>9. CASE refused' = [refused EXCEPT ![a] = @ + 1] /\ written' = written
  <2>1. LogShape'
    BY <1>1, <1>2, <1>9 DEF LogShape, Log!Nobody
  <2>2. Log!Taken' = Log!Taken /\ Log!Refusals' = Log!Refusals + 1
    BY <1>1, <1>2, <1>3, <1>9 DEF LogShape, Log!Taken, Log!Refusals, Log!Nobody
  <2>4. Balance(Log!Recorded', Log!Waiting', Log!InFlight', Log!Held', Log!Taken',
                Log!Refusals', unrecorded')
    BY <1>1, <1>4, <1>6, <2>2, BalanceBefore DEF Balance
  <2>5. \A g \in Halts :
           /\ at[g] # "start" => at'[g] # "start"
           /\ g \notin Durable => written'[g] = 0 /\ at'[g] \in {"start", "returned"}
           /\ at'[g] # "returned" => written'[g] = 0
           /\ attached' = Log!Nobody => written'[g] = 0 /\ at'[g] \in {"start", "returned"}
           /\ written'[g] <= 1
    BY <1>1, <1>2, <1>9 DEF LogShape, LogPlaces, Log!WrittenOnce
  <2>6. \A b \in Attachers :
           /\ b # attached' => backlog'[b] = {} /\ refused'[b] = 0
           /\ \A g \in backlog'[b] : at'[g] = "returned" /\ written'[g] = 0
    BY <1>1, <1>2, <1>3, <1>7, <1>9 DEF LogShape, LogPlaces
  <2> QED BY <1>1, <2>1, <2>4, <2>5, <2>6, OtherLogStep
<1> QED BY <1>8, <1>9 DEF Log!WriteBacklog

LEMMA CountRefusedStep ==
  ASSUME Log!HaltLogAssumption, LogInv, NEW a \in Attachers, Log!CountRefused(a)
  PROVE  LogInv'
<1>1. /\ unrecorded' = unrecorded + refused[a]
      /\ refused' = [refused EXCEPT ![a] = 0] /\ turn' = [turn EXCEPT ![a] = "returned"]
      /\ log' = log /\ attached' = attached /\ at' = at /\ backlog' = backlog
      /\ written' = written
  BY DEF Log!CountRefused
<1>2. LogShape /\ LogPlaces /\ Log!Nobody \notin Attachers
  BY DEF LogInv, Log!HaltLogAssumption
<1>3. LogShape'
  BY <1>1, <1>2 DEF LogShape, Log!Nobody
<1>4. /\ Log!Waiting' = Log!Waiting /\ Log!Recorded' = Log!Recorded /\ Log!Held' = Log!Held
      /\ Log!InFlight' = Log!InFlight /\ Log!Taken' = Log!Taken
  BY <1>1 DEF Log!Waiting, Log!Recorded, Log!InFlight, Log!Held, Log!Taken, Log!Nobody
<1>5. Log!Refusals' + unrecorded' = Log!Refusals + unrecorded
      /\ Log!Refusals' \in Nat /\ unrecorded' \in Nat
  <2>1. CASE a = attached
    <3>1. Log!Refusals = refused[a] /\ Log!Refusals' = 0 /\ refused[a] \in Nat
          /\ unrecorded \in Nat
      BY <1>1, <1>2, <2>1 DEF LogShape, Log!Refusals, Log!Nobody
    <3> QED BY <1>1, <3>1
  <2>2. CASE a # attached
    <3>1. Log!Refusals' = Log!Refusals /\ refused[a] = 0 /\ unrecorded \in Nat
      BY <1>1, <1>2, <2>2 DEF LogShape, LogPlaces, Log!Refusals, Log!Nobody
    <3> QED BY <1>1, <3>1, BalanceBefore
  <2> QED BY <2>1, <2>2
<1>6. Balance(Log!Recorded', Log!Waiting', Log!InFlight', Log!Held', Log!Taken',
              Log!Refusals', unrecorded')
  <2> DEFINE n == Cardinality(Log!Recorded)
             s == Cardinality(Log!Waiting) + Cardinality(Log!InFlight)
                  + Cardinality(Log!Held) + Cardinality(Log!Taken)
             r == Log!Refusals
             u == unrecorded
             p == Log!Refusals'
             q == unrecorded'
  <2>1. n = s + r + u /\ {n, s, r, u, p, q} \subseteq Nat /\ p + q = r + u
    BY <1>5, BalanceBefore
  <2> HIDE DEF n, s, r, u, p, q
  <2>2. n = s + p + q
    BY <2>1
  <2> USE DEF n, s, p, q
  <2> QED BY <1>4, <2>2 DEF Balance
<1>7. \A g \in Halts : written[g] <= 1
  BY <1>2 DEF LogPlaces, Log!WrittenOnce
<1>8. \A b \in Attachers : b # attached' => backlog'[b] = {} /\ refused'[b] = 0
  BY <1>1, <1>2 DEF LogShape, LogPlaces
<1> QED BY <1>1, <1>2, <1>3, <1>6, <1>7, <1>8, OtherLogStep DEF LogPlaces

(* Each durable halt reaches the audit exactly once or is counted as       *)
(* unrecorded, however recorders and attachments interleave, for every log *)
(* capacity and any number of halts and of attachers                       *)
(* (EmergencyStop::record, attach_halt_audit).                             *)
THEOREM HaltsAlwaysAccountedFor ==
  ASSUME Log!HaltLogAssumption
  PROVE  Log!Spec => []Log!HaltsAreAccountedFor
<1>1. Log!Init => LogInv
  BY LogInitially
<1>2. LogInv /\ [Log!Next]_(Log!vars) => LogInv'
  <2>1. SUFFICES ASSUME LogInv, [Log!Next]_(Log!vars) PROVE LogInv'
    OBVIOUS
  <2>2. ASSUME NEW h \in Halts, Log!Record(h) \/ Log!Write(h) \/ Log!CountUnrecorded(h)
        PROVE  LogInv'
    BY <2>1, <2>2, RecordStep, WriteStep, CountUnrecordedStep
  <2>3. ASSUME NEW a \in Attachers, Log!Attach(a) \/ Log!CountRefused(a)
        PROVE  LogInv'
    BY <2>1, <2>3, AttachStep, CountRefusedStep
  <2>4. ASSUME NEW a \in Attachers, NEW h \in Halts, Log!WriteBacklog(a, h)
        PROVE  LogInv'
    BY <2>1, <2>4, WriteBacklogStep
  <2>5. CASE UNCHANGED Log!vars
    <3>1. /\ log' = log /\ attached' = attached /\ unrecorded' = unrecorded /\ at' = at
          /\ backlog' = backlog /\ refused' = refused /\ turn' = turn /\ written' = written
      BY <2>5 DEF Log!vars
    <3>2. LogShape' /\ LogPlaces'
      BY <2>1, <3>1 DEF LogInv, LogShape, LogPlaces, Log!WrittenOnce, Log!Nobody
    <3>3. Log!EveryHaltIsAccountedFor'
      BY <2>1, <3>1 DEF LogInv, Log!EveryHaltIsAccountedFor, Log!Recorded, Log!Waiting,
                        Log!InFlight, Log!Held, Log!Taken, Log!Refusals, Log!Nobody
    <3> QED BY <3>2, <3>3 DEF LogInv
  <2> QED BY <2>1, <2>2, <2>3, <2>4, <2>5 DEF Log!Next
<1>3. LogInv => Log!HaltsAreAccountedFor
  BY DEF LogInv, LogPlaces, Log!HaltsAreAccountedFor
<1> QED BY <1>1, <1>2, <1>3, PTL DEF Log!Spec

=============================================================================
