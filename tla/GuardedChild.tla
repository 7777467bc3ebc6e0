----------------------------- MODULE GuardedChild -----------------------------
(***************************************************************************)
(* One owned child process and the three that race for its end: the owner  *)
(* (GuardedChild::spawn, finish, drop), the watcher thread that kills the  *)
(* child when a stop is engaged, and the process itself.  The watcher      *)
(* sleeps on the authority's condition variable, which engage notifies     *)
(* under the authority's lock and the owner notifies after setting a flag  *)
(* that no lock protects (emergency_stop.rs).                              *)
(***************************************************************************)
EXTENDS Integers

CONSTANT MaxStops   \* bound: engagements

ASSUME EngagementsAssumption == MaxStops \in Nat

VARIABLES
  number,   \* the authority's stop number; the watch was admitted at 0
  lock,     \* the authority's mutex: who holds it
  notify,   \* an engage whose notify_all is still to come
  done,     \* the owner's flag to the watcher
  watcher,  \* none | lock | read_done | waiting | kill | ended | killed
  owner,    \* where the owner is
  then,     \* what the owner does once the watcher is joined
  slot,     \* Slot: whether it holds the child, and what the watcher's kill gave
  process,  \* none | running | dying (killed) | exited | reaped
  result,   \* what finish returned
  failed    \* history: a kill, or a wait, of the process failed

vars == <<number, lock, notify, done, watcher, owner, then, slot, process, result, failed>>

Halted == number # 0

\* The watcher's thread has ended, having found the child to kill or not.
Gone == {"ended", "killed"}

Init ==
  /\ number = 0
  /\ lock = "free"
  /\ notify = FALSE
  /\ done = FALSE
  /\ watcher = "none"
  /\ owner = "start"
  /\ then = "none"
  /\ slot = [child |-> FALSE, killed |-> "none"]
  /\ process = "none"
  /\ result = "none"
  /\ failed = FALSE

-----------------------------------------------------------------------------
(* The process, and what a signal or a wait does to it: external.           *)

Alive == process \in {"running", "dying"}

\* kill: the process is on its way out, unless the kill itself failed.
Kill(outcome) ==
  /\ outcome \in {"ok", "err"}
  /\ failed' = (failed \/ outcome = "err")
  /\ process' = IF outcome = "ok" /\ process = "running" THEN "dying" ELSE process

Exits ==
  /\ Alive
  /\ process' = "exited"
  /\ UNCHANGED <<number, lock, notify, done, watcher, owner, then, slot, result, failed>>

-----------------------------------------------------------------------------
(* The authority.                                                           *)

Engage ==
  /\ number < MaxStops
  /\ lock = "free"
  /\ number' = number + 1
  /\ notify' = TRUE
  /\ UNCHANGED <<lock, done, watcher, owner, then, slot, process, result, failed>>

Woken == IF watcher = "waiting" THEN "lock" ELSE watcher

EngageNotifies ==
  /\ notify
  /\ notify' = FALSE
  /\ watcher' = Woken
  /\ UNCHANGED <<number, lock, done, owner, then, slot, process, result, failed>>

-----------------------------------------------------------------------------
(* The watcher: wait_halted_or, then the kill.                              *)

\* Mutant of WatcherLocks: the number is not read before the first sleep.
WatcherLocksUnread ==
  /\ watcher = "lock"
  /\ lock = "free"
  /\ watcher' = "read_done" /\ lock' = "watcher"
  /\ UNCHANGED <<number, notify, done, owner, then, slot, process, result, failed>>

WatcherLocks ==
  /\ watcher = "lock"
  /\ lock = "free"
  /\ IF Halted
     THEN watcher' = "kill" /\ UNCHANGED lock
     ELSE watcher' = "read_done" /\ lock' = "watcher"
  /\ UNCHANGED <<number, notify, done, owner, then, slot, process, result, failed>>

\* done is read with the lock held; waiting releases it.
WatcherReads ==
  /\ watcher = "read_done"
  /\ IF done
     THEN watcher' = "ended" /\ lock' = "free"
     ELSE watcher' = "wait" /\ UNCHANGED lock
  /\ UNCHANGED <<number, notify, done, owner, then, slot, process, result, failed>>

WatcherWaits ==
  /\ watcher = "wait"
  /\ watcher' = "waiting"
  /\ lock' = "free"
  /\ UNCHANGED <<number, notify, done, owner, then, slot, process, result, failed>>

\* A condition variable may wake its waiter for no reason.
WakesSpuriously ==
  /\ watcher = "waiting"
  /\ watcher' = "lock"
  /\ UNCHANGED <<number, lock, notify, done, owner, then, slot, process, result, failed>>

WatcherKills ==
  /\ watcher = "kill"
  /\ watcher' = IF slot.child THEN "killed" ELSE "ended"
  /\ IF slot.child
     THEN \E outcome \in {"ok", "err"} :
            Kill(outcome) /\ slot' = [slot EXCEPT !.killed = outcome]
     ELSE UNCHANGED <<process, failed, slot>>
  /\ UNCHANGED <<number, lock, notify, done, owner, then, result>>

-----------------------------------------------------------------------------
(* The owner: spawn.                                                        *)

Finishes(r) == owner' = "returned" /\ result' = r

Check ==
  /\ owner = "start"
  /\ IF Halted
     THEN Finishes("refused")
     ELSE owner' = "spawn" /\ UNCHANGED result
  /\ UNCHANGED <<number, lock, notify, done, watcher, then, slot, process, failed>>

\* The process starts; without a thread to guard it, it is not left running.
Spawn ==
  /\ owner = "spawn"
  /\ process' = "running"
  /\ \/ /\ slot' = [slot EXCEPT !.child = TRUE]
        /\ watcher' = "lock"
        /\ owner' = "busy"
     \/ UNCHANGED <<slot, watcher>> /\ owner' = "unguarded"
  /\ UNCHANGED <<number, lock, notify, done, then, result, failed>>

Unguarded ==
  /\ owner = "unguarded"
  /\ \E outcome \in {"ok", "err"} : Kill(outcome)
  /\ owner' = "wait"
  /\ UNCHANGED <<number, lock, notify, done, watcher, then, slot, result>>

\* The owner feeds the child and reads its pipes, for as long as that takes,
\* and then calls finish or drops it.
Proceed ==
  /\ owner = "busy"
  /\ owner' \in {"try_wait", "drop"}
  /\ UNCHANGED <<number, lock, notify, done, watcher, then, slot, process, result, failed>>

(* The owner: finish.                                                       *)

\* try_wait reaps a process that has exited, and may fail.
TryWait ==
  /\ owner = "try_wait"
  /\ \/ /\ process = "exited"
        /\ process' = "reaped"
        /\ owner' = "set_done" /\ then' = "read_killed"
        /\ UNCHANGED failed
     \/ Alive /\ owner' = "halted?" /\ UNCHANGED <<process, then, failed>>
     \/ /\ owner' = "set_done" /\ then' = "wait_failed"
        /\ failed' = TRUE
        /\ UNCHANGED process
  /\ UNCHANGED <<number, lock, notify, done, watcher, slot, result>>

\* Not halted: a bounded wait, then again.
Poll ==
  /\ owner = "halted?"
  /\ IF Halted
     THEN owner' = "set_done" /\ then' = "reap_halted"
     ELSE owner' = "try_wait" /\ UNCHANGED then
  /\ UNCHANGED <<number, lock, notify, done, watcher, slot, process, result, failed>>

(* stop_watcher: the flag, the wake through the lock, the join.             *)

SetDone ==
  /\ owner = "set_done"
  /\ done' = TRUE
  /\ owner' = "wake"
  /\ UNCHANGED <<number, lock, notify, watcher, then, slot, process, result, failed>>

Wake ==
  /\ owner = "wake"
  /\ lock = "free"
  /\ owner' = "notify_all"
  /\ UNCHANGED <<number, lock, notify, done, watcher, then, slot, process, result, failed>>

NotifyAll ==
  /\ owner = "notify_all"
  /\ watcher' = Woken
  /\ owner' = "join"
  /\ UNCHANGED <<number, lock, notify, done, then, slot, process, result, failed>>

Join ==
  /\ owner = "join"
  /\ watcher \in Gone
  /\ owner' = then
  /\ UNCHANGED <<number, lock, notify, done, watcher, then, slot, process, result, failed>>

\* Mutant of ReadKilled: what the watcher's kill gave is not asked.
ReadKilledNot ==
  /\ owner = "read_killed"
  /\ slot' = [child |-> FALSE, killed |-> "none"]
  /\ Finishes("exited")
  /\ UNCHANGED <<number, lock, notify, done, watcher, then, process, failed>>

\* It exited: by itself, or because it was killed.
ReadKilled ==
  /\ owner = "read_killed"
  /\ slot' = [child |-> FALSE, killed |-> "none"]
  /\ Finishes(CASE slot.killed = "ok" -> "halted"
                [] slot.killed = "err" -> "halted_err"
                [] OTHER -> IF Halted THEN "halted" ELSE "exited")
  /\ UNCHANGED <<number, lock, notify, done, watcher, then, process, failed>>

WaitFailed ==
  /\ owner = "wait_failed"
  /\ slot' = [slot EXCEPT !.child = FALSE]
  /\ \E outcome \in {"ok", "err"} : Kill(outcome)
  /\ owner' = "wait"
  /\ UNCHANGED <<number, lock, notify, done, watcher, then, result>>

\* The blocking wait after a kill whose outcome is ignored; it may fail.
WaitChild ==
  /\ owner = "wait"
  /\ \/ process = "exited" /\ process' = "reaped" /\ UNCHANGED failed
     \/ failed' = TRUE /\ UNCHANGED process
  /\ Finishes(IF then = "wait_failed" THEN "halted_err" ELSE "refused")
  /\ UNCHANGED <<number, lock, notify, done, watcher, then, slot>>

\* The watcher may have been joined without having killed.
ReapHalted ==
  /\ owner = "reap_halted"
  /\ slot' = [child |-> FALSE, killed |-> "none"]
  /\ IF slot.killed # "none"
     THEN /\ owner' = IF slot.killed = "ok" THEN "reap" ELSE "reap_err"
          /\ UNCHANGED <<process, failed>>
     ELSE \E outcome \in {"ok", "err"} :
            Kill(outcome) /\ owner' = IF outcome = "ok" THEN "reap" ELSE "reap_err"
  /\ UNCHANGED <<number, lock, notify, done, watcher, then, result>>

\* The bound passes, or the wait fails, or the process is reaped.
Reap ==
  /\ owner \in {"reap", "reap_err"}
  /\ \/ process = "exited" /\ process' = "reaped"
        /\ Finishes(IF owner = "reap" THEN "halted" ELSE "halted_err")
     \/ process # "reaped" /\ UNCHANGED process /\ Finishes("halted_err")
  /\ UNCHANGED <<number, lock, notify, done, watcher, then, slot, failed>>

(* The owner: drop without finish.                                          *)

Drop ==
  /\ owner = "drop"
  /\ owner' = "set_done" /\ then' = "drop_kill"
  /\ UNCHANGED <<number, lock, notify, done, watcher, slot, process, result, failed>>

DropKills ==
  /\ owner = "drop_kill"
  /\ slot' = [slot EXCEPT !.child = FALSE]
  /\ \E outcome \in {"ok", "err"} : Kill(outcome)
  /\ owner' = "drop_reap"
  /\ UNCHANGED <<number, lock, notify, done, watcher, then, result>>

\* Reaped, or left to the bound.
DropReaps ==
  /\ owner = "drop_reap"
  /\ process' = IF process = "exited" THEN "reaped" ELSE process
  /\ Finishes("dropped")
  /\ UNCHANGED <<number, lock, notify, done, watcher, then, slot, failed>>

-----------------------------------------------------------------------------
Watcher == WatcherLocks \/ WatcherReads \/ WatcherWaits \/ WatcherKills

StopsWatcher == SetDone \/ Wake \/ NotifyAll \/ Join

Owner ==
  \/ Check \/ Spawn \/ Unguarded \/ TryWait \/ Poll \/ StopsWatcher
  \/ ReadKilled \/ WaitFailed \/ WaitChild \/ ReapHalted \/ Reap
  \/ Drop \/ DropKills \/ DropReaps

Next == Owner \/ Proceed \/ Watcher \/ WakesSpuriously \/ Engage \/ EngageNotifies \/ Exits

Spec == Init /\ [][Next]_vars

\* Threads are scheduled and a killed process dies; nobody need engage a stop,
\* no child need exit by itself, the owner may be busy with its pipes for
\* ever, and no spurious wakeup is counted on.
FairSpec ==
  /\ Spec
  /\ WF_vars(Owner) /\ WF_vars(Watcher) /\ WF_vars(EngageNotifies)
  /\ WF_vars(process = "dying" /\ Exits)

-----------------------------------------------------------------------------
(* Properties.                                                              *)

\* Every component of the state stays in its range.
TypeOK ==
  /\ number \in 0 .. MaxStops
  /\ lock \in {"free", "watcher"}
  /\ notify \in BOOLEAN /\ done \in BOOLEAN /\ failed \in BOOLEAN
  /\ watcher \in {"none", "lock", "read_done", "wait", "waiting", "kill", "ended", "killed"}
  /\ owner \in {"start", "spawn", "unguarded", "busy", "drop", "try_wait", "halted?", "set_done",
                "wake", "notify_all", "join", "read_killed", "wait_failed", "reap_halted",
                "reap", "reap_err", "wait", "drop_kill", "drop_reap", "returned"}
  /\ then \in {"none", "read_killed", "wait_failed", "reap_halted", "drop_kill"}
  /\ slot \in [child : BOOLEAN, killed : {"none", "ok", "err"}]
  /\ process \in {"none", "running", "dying", "exited", "reaped"}
  /\ result \in {"none", "refused", "exited", "halted", "halted_err", "dropped"}

(* When the owner has its answer the watcher is gone and the process is     *)
(* dead or dying, unless a kill or a wait was refused by the system.        *)
NothingLeftRunning ==
  owner = "returned" => watcher \in Gone \cup {"none"} /\ (process = "running" => failed)

(* A child the watcher killed is never reported as one that exited by       *)
(* itself, however its exit and the stop interleave.                        *)
KilledIsNotExited == result = "exited" => watcher # "killed"

(* The owner's answer is true: nothing runs on behind it, and it never says *)
(* exited of a child that was killed.                                       *)
ChildIsAccountedFor == NothingLeftRunning /\ KilledIsNotExited
=============================================================================
