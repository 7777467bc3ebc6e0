-------------------------------- MODULE HaltLog --------------------------------
(***************************************************************************)
(* The kernel's bounded log of halts and the durable audit that is         *)
(* attached to it while halts are being recorded (emergency_stop.rs).      *)
(* Work that a stop ended records its halt from its own thread; the log    *)
(* is updated under the authority's lock, the audit is written after it.   *)
(* Only a model call's halt is durable: the other areas have audits of     *)
(* their own.                                                              *)
(***************************************************************************)
EXTENDS Integers, Sequences, FiniteSets, SequencesExt

CONSTANTS
  Halts,      \* the halts that happen, each recorded by its own thread
  Durable,    \* those of area ModelCall
  Attachers,  \* callers of attach_halt_audit
  Capacity    \* HALT_LOG_CAPACITY

Nobody == "nobody"

HaltLogAssumption ==
  /\ IsFiniteSet(Halts) /\ Durable \subseteq Halts
  /\ Capacity \in Nat \ {0} /\ Nobody \notin Attachers

VARIABLES
  log,         \* State::halts, oldest first
  attached,    \* State::audit: nobody, or the attacher whose audit it is
  unrecorded,  \* State::unrecorded
  at,          \* halt -> where its recorder is
  backlog,     \* attacher -> halts it still has to write
  refused,     \* attacher -> halts of its backlog that the audit refused
  turn,        \* attacher -> where it is
  written      \* history: halt -> times the audit took it (recorded or owed)

vars == <<log, attached, unrecorded, at, backlog, refused, turn, written>>

Init ==
  /\ log = <<>>
  /\ attached = Nobody
  /\ unrecorded = 0
  /\ at = [h \in Halts |-> "start"]
  /\ backlog = [a \in Attachers |-> {}]
  /\ refused = [a \in Attachers |-> 0]
  /\ turn = [a \in Attachers |-> "start"]
  /\ written = [h \in Halts |-> 0]

-----------------------------------------------------------------------------
\* A durable halt that leaves the log before any audit was attached is lost.
Lost == IF Len(log) = Capacity /\ attached = Nobody /\ Head(log) \in Durable THEN 1 ELSE 0

Pushed(h) == Append(IF Len(log) = Capacity THEN Tail(log) ELSE log, h)

\* Mutant of Record: whether an audit is attached is asked after the lock.
RecordUnlocked(h) ==
  /\ at[h] = "start"
  /\ unrecorded' = unrecorded + Lost
  /\ log' = Pushed(h)
  /\ at' = [at EXCEPT ![h] = IF h \in Durable THEN "write" ELSE "returned"]
  /\ UNCHANGED <<attached, backlog, refused, turn, written>>

\* record, its locked section: the log, and the audit as it is at that moment.
Record(h) ==
  /\ at[h] = "start"
  /\ unrecorded' = unrecorded + Lost
  /\ log' = Pushed(h)
  /\ at' = [at EXCEPT ![h] = IF h \in Durable /\ attached # Nobody THEN "write" ELSE "returned"]
  /\ UNCHANGED <<attached, backlog, refused, turn, written>>

\* record, the audit: it takes the halt, or it cannot.
Write(h) ==
  /\ at[h] = "write"
  /\ \/ written' = [written EXCEPT ![h] = @ + 1] /\ at' = [at EXCEPT ![h] = "returned"]
     \/ at' = [at EXCEPT ![h] = "count"] /\ UNCHANGED written
  /\ UNCHANGED <<log, attached, unrecorded, backlog, refused, turn>>

CountUnrecorded(h) ==
  /\ at[h] = "count"
  /\ unrecorded' = unrecorded + 1
  /\ at' = [at EXCEPT ![h] = "returned"]
  /\ UNCHANGED <<log, attached, backlog, refused, turn, written>>

-----------------------------------------------------------------------------
\* attach_halt_audit, its locked section: the first audit stays, and what the
\* log holds becomes its backlog.
Attach(a) ==
  /\ turn[a] = "start"
  /\ IF attached # Nobody
     THEN turn' = [turn EXCEPT ![a] = "returned"] /\ UNCHANGED <<attached, backlog>>
     ELSE /\ attached' = a
          /\ backlog' = [backlog EXCEPT ![a] = ToSet(log) \cap Durable]
          /\ turn' = [turn EXCEPT ![a] = "write"]
  /\ UNCHANGED <<log, unrecorded, at, refused, written>>

WriteBacklog(a, h) ==
  /\ turn[a] = "write" /\ h \in backlog[a]
  /\ backlog' = [backlog EXCEPT ![a] = @ \ {h}]
  /\ \/ written' = [written EXCEPT ![h] = @ + 1] /\ UNCHANGED refused
     \/ refused' = [refused EXCEPT ![a] = @ + 1] /\ UNCHANGED written
  /\ UNCHANGED <<log, attached, unrecorded, at, turn>>

CountRefused(a) ==
  /\ turn[a] = "write" /\ backlog[a] = {}
  /\ unrecorded' = unrecorded + refused[a]
  /\ refused' = [refused EXCEPT ![a] = 0]
  /\ turn' = [turn EXCEPT ![a] = "returned"]
  /\ UNCHANGED <<log, attached, at, backlog, written>>

-----------------------------------------------------------------------------
Next ==
  \/ \E h \in Halts : Record(h) \/ Write(h) \/ CountUnrecorded(h)
  \/ \E a \in Attachers : Attach(a) \/ CountRefused(a)
  \/ \E a \in Attachers, h \in Halts : WriteBacklog(a, h)

Spec == Init /\ [][Next]_vars

-----------------------------------------------------------------------------
(* Properties.                                                              *)

Waiting == IF attached = Nobody THEN ToSet(log) \cap Durable ELSE {}
InFlight == {h \in Durable : at[h] \in {"write", "count"}}
Held == UNION {backlog[a] : a \in Attachers}
Taken == {h \in Durable : written[h] > 0}
Recorded == {h \in Durable : at[h] # "start"}
Refusals == IF attached = Nobody THEN 0 ELSE refused[attached]

(* "Each halt is written once": a durable halt is taken by the audit at     *)
(* most once, whichever of its recorder and the attachment writes it, and   *)
(* the other areas' halts never are.                                        *)
WrittenOnce == \A h \in Halts : written[h] <= IF h \in Durable THEN 1 ELSE 0

(* No durable halt is silently lost: each one recorded is waiting for an    *)
(* audit, being written, written, or counted as unrecorded.                 *)
EveryHaltIsAccountedFor ==
  Cardinality(Recorded) =
    Cardinality(Waiting) + Cardinality(InFlight) + Cardinality(Held)
      + Cardinality(Taken) + Refusals + unrecorded

(* Each durable halt reaches the audit once, or is counted as missing.      *)
HaltsAreAccountedFor == WrittenOnce /\ EveryHaltIsAccountedFor
================================================================================
