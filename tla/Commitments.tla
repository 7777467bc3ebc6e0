----------------------------- MODULE Commitments -----------------------------
(***************************************************************************)
(* The broker's action commitments: the registry of commitment.rs, the      *)
(* pending effects of control.rs, and the calls of authority/mod.rs and     *)
(* governed.rs that end commitments (a cancelled or finished run, an        *)
(* emergency stop, a door halt, a revoked grant).                           *)
(*                                                                          *)
(* A thread makes one call at a time.  A step is what one hold of a lock    *)
(* does.  Only `complete' is seen holding the registry's lock across two    *)
(* steps: it reads the run, the policy generation and the grants, which     *)
(* other locks guard, and applies the transition after.  Elsewhere what is  *)
(* read under the lock only ever goes from live to dead and what is written *)
(* is visible under the same lock, so the hold is one step.                 *)
(***************************************************************************)
EXTENDS Naturals, FiniteSets

CONSTANTS Threads, Commitments, Runs, Grants,
          NoThread,
          DoorRuns,     \* the runs that are members of the one door
          FileActions,  \* the commitments of kind Files
          R2Actions,    \* the commitments that need the owner's native approval
          RunOf,        \* [Commitments -> Runs]
          GrantOf,      \* [Commitments -> Grants]
          Capacity,     \* of the registry
          Lapsing,      \* bound: the commitments and grants whose time may run out
          MaxGen        \* bound: policy changes

ASSUME CommitmentAssumptions ==
    /\ NoThread \notin Threads /\ Commitments # {}
    /\ DoorRuns \subseteq Runs
    /\ FileActions \subseteq Commitments /\ R2Actions \subseteq Commitments
    /\ RunOf \in [Commitments -> Runs] /\ GrantOf \in [Commitments -> Grants]
    /\ Lapsing \subseteq Commitments \cup Grants
    /\ Capacity \in Nat \ {0} /\ MaxGen \in Nat

VARIABLES entry,        \* the registry's entries
          lock,         \* the thread that holds the registry's lock across steps
          held,         \* the pending table: the effects that wait
          run,          \* the runs, as check_request sees them
          retained,     \* how many pinned commitments keep each run from being pruned
          halted,       \* the door was halted
          stopped,      \* an emergency stop is engaged
          generation,   \* the policy generation
          grant,        \* the grants
          late,         \* the commitments whose deadline a clock has reached
          th,           \* the threads
          log,          \* the gating records written, of each commitment
          ends,         \* how many end records of each were given to the store
          lease,        \* the actions whose credential leases were ended
          world,        \* the actions whose effect happened
          barrier       \* the runs whose cancellation, halt or stop has returned

vars == <<entry, lock, held, run, retained, halted, stopped, generation, grant, late, th,
          log, ends, lease, world, barrier>>

\* "absent": no entry yet, "refused": recorded as prepared but never inserted,
\* "gone": final and pruned.
Unconsumed == {"Prepared", "Authorized"}
Final == {"Succeeded", "Failed", "Cancelled", "Denied", "Expired", "Revoked"}
CommitmentState == Unconsumed \cup Final \cup {"absent", "refused", "Executing", "gone"}
Handoff == {"not_handed_off", "handed_off", "proven_not_published"}

Entry == [state : CommitmentState, reserved : Threads \cup {NoThread}, gen : 0 .. MaxGen,
          pinned : BOOLEAN, finished_started : BOOLEAN, uncertain : BOOLEAN,
          handoff : Handoff]
NewEntry == [state |-> "absent", reserved |-> NoThread, gen |-> 0, pinned |-> FALSE,
             finished_started |-> FALSE, uncertain |-> FALSE, handoff |-> "not_handed_off"]

Phases == {"Prepared", "Approved", "Authorized", "Started"}

\* The points a thread may be at between two steps.
Points == {"idle", "record_prepared", "insert", "fill", "ask", "dialog", "authorize", "start",
           "record", "withdraw", "complete", "finalize", "executing", "fail_unstarted",
           "drop_if_final", "leases", "records", "unhold", "sweep", "take_dead", "revoke",
           "bump", "bump_grant", "drop_all", "drop_runs", "drop_runs_halted"}

\* Where a thread is.  `transition' is the one its reservation is for, `seen'
\* whether the clocks it read were past the deadline, `owed' the ends it has made
\* and not yet recorded, `leases' those whose leases it has not yet ended, `then'
\* where it goes on once they are paid.
Thread == [at : Points, c : Commitments, transition : Phases, seen : BOOLEAN,
           runs : SUBSET Runs, owed : SUBSET Commitments, leases : SUBSET Commitments,
           then : Points, handoff : Handoff]
Idle == [at |-> "idle", c |-> CHOOSE c \in Commitments : TRUE, transition |-> "Prepared",
         seen |-> FALSE, runs |-> {}, owed |-> {}, leases |-> {}, then |-> "idle",
         handoff |-> "not_handed_off"]

Init ==
    /\ entry = [c \in Commitments |-> NewEntry] /\ lock = NoThread /\ held = {}
    /\ run = [r \in Runs |-> "unopened"] /\ retained = [r \in Runs |-> 0] /\ halted = FALSE /\ stopped = FALSE
    /\ generation = 0 /\ grant = [g \in Grants |-> "live"] /\ late = {}
    /\ th = [t \in Threads |-> Idle]
    /\ log = [c \in Commitments |-> {}] /\ ends = [c \in Commitments |-> 0]
    /\ lease = {} /\ world = {} /\ barrier = {}

registry == <<entry, held, retained>>
policy == <<run, halted, stopped, generation, grant, late>>
history == <<log, ends, lease, world, barrier>>

----------------------------------------------------------------------------
\* What a commitment's life depends on.

\* RunRegistry::check_request for a run of no host session.
RunLive(r) == ~stopped /\ ~(halted /\ r \in DoorRuns) /\ run[r] = "active"

\* live_check: the state that ends c, or "live".  `past' is what the clocks read
\* before the lock was taken say of its deadline.
LiveCheck(c, past) ==
    IF ~RunLive(RunOf[c]) THEN "Revoked"
    ELSE IF past THEN "Expired"
    ELSE IF generation # entry[c].gen \/ grant[GrantOf[c]] # "live" THEN "Revoked"
    ELSE "live"

\* end_entry for each of S: the state is final and a transition under way is withdrawn.
EndEntry(S, state) ==
    [c \in Commitments |->
        IF c \in S THEN [entry[c] EXCEPT !.state = state, !.reserved = NoThread] ELSE entry[c]]

\* Thread t goes to `at'; with S ended it first pays what the ends owe.
Goes(t, at) == th' = [th EXCEPT ![t] = IF at = "idle" THEN Idle ELSE [@ EXCEPT !.at = at]]
Owing(t, S, then) ==
    th' = [th EXCEPT ![t].at = "leases", ![t].owed = S, ![t].leases = S, ![t].then = then]

\* The thread ends c under the lock, and flushes; then goes on at `then'.
Ends(t, c, state, then) == /\ entry' = EndEntry({c}, state)
                           /\ Owing(t, {c}, then)

Free(t) == lock = NoThread /\ t \in Threads
At(t, at) == th[t].at = at

\* Entry::publication.
Publication(c) ==
    LET e == entry[c] IN
    IF e.state \in Unconsumed \cup {"Executing"} THEN "Pending"
    ELSE IF e.state = "Succeeded" THEN "Published"
    ELSE IF \/ e.state \in {"Denied", "Expired", "Revoked"}
            \/ ~e.finished_started
            \/ ~e.uncertain /\ c \in FileActions /\ e.handoff # "handed_off"
         THEN "ConfirmedNotPublished"
    ELSE "Uncertain"

\* The entries in the registry, and those left once it is pruned for room.
Present == {c \in Commitments : entry[c].state \notin {"absent", "refused", "gone"}}
Pruned == {c \in Present : entry[c].state \in Final /\ ~entry[c].pinned}
Retained ==
    IF Cardinality(Present) < Capacity THEN entry
    ELSE [c \in Commitments |->
            IF c \in Pruned THEN [entry[c] EXCEPT !.state = "gone"] ELSE entry[c]]
Room == Cardinality(Present) < Capacity \/ Cardinality(Present \ Pruned) < Capacity

----------------------------------------------------------------------------
\* propose: a place, the preparation, its record, its entry, its effect.

\* propose_with_reservation and prepare_leased up to the record: a run that is not
\* active or a grant that is not live refuses it, and its leases end.
Propose(t, c) ==
    /\ At(t, "idle") /\ entry[c].state = "absent" /\ c \notin lease
    /\ \A u \in Threads : At(u, "record_prepared") \/ At(u, "insert") => th[u].c # c
    /\ IF RunLive(RunOf[c]) /\ grant[GrantOf[c]] = "live"
       THEN th' = [th EXCEPT ![t].at = "record_prepared", ![t].c = c] /\ lease' = lease
       ELSE lease' = lease \cup {c} /\ th' = th
    /\ UNCHANGED <<registry, lock, policy, log, ends, world, barrier>>

\* The entry is stamped with the generation and its preparation recorded: unrecorded,
\* it is never created.
RecordPrepared(t) ==
    LET c == th[t].c IN
    /\ At(t, "record_prepared")
    /\ \/ /\ entry' = [entry EXCEPT ![c].gen = generation]
          /\ log' = [log EXCEPT ![c] = @ \cup {"Prepared"}]
          /\ Goes(t, "insert") /\ lease' = lease
       \/ /\ lease' = lease \cup {c} /\ th' = [th EXCEPT ![t] = Idle]
          /\ UNCHANGED <<entry, log>>
    /\ UNCHANGED <<lock, held, retained, policy, ends, world, barrier>>

\* prepare_leased under the lock: the run is checked again; a Files commitment is
\* pinned, and retains its run.
MayInsert(c) == Room /\ RunLive(RunOf[c]) /\ (c \in FileActions => RunOf[c] \in DoorRuns)
Insert(t) ==
    LET c == th[t].c IN
    /\ At(t, "insert") /\ Free(t)
    /\ IF MayInsert(c)
       THEN /\ entry' = [Retained EXCEPT ![c].state = "Prepared",
                                         ![c].pinned = c \in FileActions]
            /\ retained' = [retained EXCEPT ![RunOf[c]] = @ + IF c \in FileActions THEN 1 ELSE 0]
            /\ Goes(t, "fill")
       ELSE /\ entry' = [Retained EXCEPT ![c].state = "refused"]
            /\ Owing(t, {c}, "idle") /\ UNCHANGED retained
    /\ UNCHANGED <<lock, held, policy, history>>

\* Place::fill: the effect waits only for a commitment that is still unconsumed.
FillAlways(c) == held \cup {c}  \* mutant: it is not asked whether c still waits
Fill(c) == IF entry[c].state \in Unconsumed THEN held \cup {c} ELSE held
FillPlace(t) ==
    /\ At(t, "fill") /\ Free(t)
    /\ held' = Fill(th[t].c) /\ th' = [th EXCEPT ![t] = Idle]
    /\ UNCHANGED <<entry, retained, lock, policy, history>>

----------------------------------------------------------------------------
\* authorize and execute: a transition is validated and reserved, recorded with no
\* lock held, and completed under the lock.

\* Reserve c for `transition', if it is in `expected' state, free and live; a check it
\* fails ends it, and the call goes on at `refused'.
Reserves(t, c, expected, transition, refused) ==
    /\ Free(t)
    /\ \/ /\ entry[c].state # expected \/ entry[c].reserved # NoThread
          /\ Goes(t, refused) /\ UNCHANGED entry
       \/ /\ entry[c].state = expected /\ entry[c].reserved = NoThread
          /\ LET live == LiveCheck(c, c \in late) IN
             IF live = "live"
             THEN /\ entry' = [entry EXCEPT ![c].reserved = t]
                  /\ th' = [th EXCEPT ![t].at = "record", ![t].c = c,
                                      ![t].transition = transition]
             ELSE Ends(t, c, live, refused)

\* Control::authorize: an R2 commitment is asked of the owner first.
Authorize(t, c) ==
    /\ At(t, "idle") /\ Free(t) /\ c \in Present
    /\ th' = [th EXCEPT ![t].at = IF c \in R2Actions THEN "ask" ELSE "authorize", ![t].c = c]
    /\ UNCHANGED <<registry, lock, policy, history>>

\* approval_request, read under the lock; the dialog is shown with no lock held.
Ask(t) ==
    LET c == th[t].c
        live == LiveCheck(c, c \in late) IN
    /\ At(t, "ask") /\ Free(t)
    /\ IF entry[c].state # "Prepared" \/ entry[c].reserved # NoThread
       THEN Goes(t, "drop_if_final") /\ UNCHANGED entry
       ELSE IF live = "live" THEN Goes(t, "dialog") /\ UNCHANGED entry
       ELSE Ends(t, c, live, "drop_if_final")
    /\ UNCHANGED <<held, retained, lock, policy, history>>

\* request_approval once the owner answered: declined, the commitment is denied.
Answer(t) ==
    LET c == th[t].c IN
    /\ At(t, "dialog")
    /\ \/ Reserves(t, c, "Prepared", "Approved", "drop_if_final")
       \/ /\ Free(t) /\ entry[c].state = "Prepared" /\ entry[c].reserved = NoThread
          /\ LiveCheck(c, c \in late) = "live"
          /\ Ends(t, c, "Denied", "drop_if_final")
    /\ UNCHANGED <<held, retained, lock, policy, history>>

\* authorization: the first half of CommitmentRegistry::authorize.
ReserveAuthorize(t) ==
    /\ At(t, "authorize")
    /\ Reserves(t, th[t].c, "Prepared", "Authorized", "drop_if_final")
    /\ UNCHANGED <<held, retained, lock, policy, history>>

\* Control::execute takes the effect out of the pending table.
Execute(t, c) ==
    /\ At(t, "idle") /\ c \in held
    /\ held' = held \ {c} /\ th' = [th EXCEPT ![t].at = "start", ![t].c = c]
    /\ UNCHANGED <<entry, retained, lock, policy, history>>

\* start, the first half of begin: a target that cannot be revalidated, or changed,
\* fails the commitment unstarted.
Start(t) ==
    LET c == th[t].c IN
    /\ At(t, "start")
    /\ \/ Reserves(t, c, "Authorized", "Started", "fail_unstarted")
       \/ Goes(t, "fail_unstarted") /\ UNCHANGED entry
       \/ /\ Free(t) /\ entry[c].state = "Authorized" /\ entry[c].reserved = NoThread
          /\ LiveCheck(c, c \in late) = "live"
          /\ Ends(t, c, "Failed", "fail_unstarted")
    /\ UNCHANGED <<held, retained, lock, policy, history>>

Refused(transition) == IF transition = "Started" THEN "fail_unstarted" ELSE "drop_if_final"

\* The gating record.  Refused, the reservation is dropped (Reserved::drop), if it
\* still holds.
RecordTransition(t) ==
    LET c == th[t].c IN
    /\ At(t, "record")
    /\ \/ /\ log' = [log EXCEPT ![c] = @ \cup {th[t].transition}]
          /\ th' = [th EXCEPT ![t].at = "complete", ![t].seen = c \in late]
       \/ Goes(t, "withdraw") /\ UNCHANGED log
    /\ UNCHANGED <<registry, lock, policy, ends, lease, world, barrier>>
Withdraw(t) ==
    LET c == th[t].c IN
    /\ At(t, "withdraw") /\ Free(t)
    /\ entry' = [entry EXCEPT ![c].reserved = IF @ = t THEN NoThread ELSE @]
    /\ Goes(t, Refused(th[t].transition))
    /\ UNCHANGED <<held, retained, lock, policy, history>>

\* complete, up to the end of its live_check: the lock is taken; the commitment is
\* still live, or whatever ended it meanwhile wins.
StillReservedAlways(t, c) == t \in Threads /\ c \in Present     \* mutant: neither is compared
StillReserved(t, c) ==
    /\ entry[c].reserved = t
    /\ entry[c].state = IF th[t].transition = "Started" THEN "Authorized" ELSE "Prepared"
Complete(t) ==
    LET c == th[t].c
        refused == Refused(th[t].transition) IN
    /\ At(t, "complete") /\ Free(t)
    /\ \/ /\ ~StillReserved(t, c)
          /\ Goes(t, refused) /\ UNCHANGED <<entry, lock>>
       \/ /\ StillReserved(t, c)
          /\ \E past \in {th[t].seen, c \in late} :
                LET live == LiveCheck(c, past) IN
                IF live = "live" THEN lock' = t /\ Goes(t, "finalize") /\ UNCHANGED entry
                ELSE Ends(t, c, live, refused) /\ UNCHANGED lock
    /\ UNCHANGED <<held, retained, policy, history>>

\* complete's finalize, in the same hold of the lock.
Finalize(t) ==
    LET c == th[t].c
        transition == th[t].transition IN
    /\ At(t, "finalize") /\ lock' = NoThread
    /\ entry' = [entry EXCEPT ![c].reserved = NoThread,
                              ![c].state = CASE transition = "Approved"   -> @
                                             [] transition = "Authorized" -> "Authorized"
                                             [] OTHER                     -> "Executing"]
    /\ Goes(t, CASE transition = "Approved"   -> "authorize"
                 [] transition = "Authorized" -> "idle"
                 [] OTHER                     -> "executing")
    /\ UNCHANGED <<held, retained, policy, history>>

\* fail_unstarted: the effect was taken out, so a commitment that did not start ends.
FailUnstartedAny(t) ==          \* mutant: it is not asked whether the commitment still waits
    /\ At(t, "fail_unstarted") /\ Free(t)
    /\ Ends(t, th[t].c, "Failed", "idle")
    /\ UNCHANGED <<held, retained, lock, policy, history>>
FailUnstartedNot(t) ==          \* mutant: the refusal leaves the commitment as it is
    /\ At(t, "fail_unstarted") /\ Free(t)
    /\ Goes(t, "idle") /\ UNCHANGED <<registry, lock, policy, history>>
FailUnstarted(t) ==
    LET c == th[t].c IN
    /\ At(t, "fail_unstarted") /\ Free(t)
    /\ IF entry[c].state \in Unconsumed THEN Ends(t, c, "Failed", "idle")
       ELSE Goes(t, "idle") /\ UNCHANGED entry
    /\ UNCHANGED <<held, retained, lock, policy, history>>

\* drop_if_final, after a refused authorization.
DropIfFinal(t) ==
    LET c == th[t].c IN
    /\ At(t, "drop_if_final") /\ Free(t)
    /\ held' = IF entry[c].state \in Unconsumed THEN held ELSE held \ {c}
    /\ Goes(t, "idle")
    /\ UNCHANGED <<entry, retained, lock, policy, history>>

----------------------------------------------------------------------------
\* The effect, under the ExecutionGuard.

\* handing_off: a Files effect marks its guard before the kernel's apply.
HandingOff(t) ==
    /\ At(t, "executing") /\ th[t].c \in FileActions /\ th[t].handoff = "not_handed_off"
    /\ th' = [th EXCEPT ![t].handoff = "handed_off"]
    /\ UNCHANGED <<registry, lock, policy, history>>

\* External: the effect happens, at most once; a Files effect by the apply it handed
\* its change to.
EffectHappens(t) ==
    /\ At(t, "executing") /\ th[t].c \notin world
    /\ th[t].c \in FileActions => th[t].handoff = "handed_off"
    /\ world' = world \cup {th[t].c}
    /\ UNCHANGED <<registry, lock, policy, th, log, ends, lease, barrier>>

\* The kernel proved that what was handed off was not published, and the effect returns.
ProvenNotPublished(t) ==
    /\ At(t, "executing") /\ th[t].handoff = "handed_off" /\ th[t].c \notin world
    /\ th' = [th EXCEPT ![t].handoff = "proven_not_published"]
    /\ UNCHANGED <<registry, lock, policy, history>>

\* The guard's cancellation token.
IsCancelled(c) == run[RunOf[c]] \in {"cancelled", "finished", "pruned"}

\* Control::execute's end of the effect, and ExecutionGuard's Drop (an abandoned
\* execution): what it came to, as the registry records it.  An outcome is the state
\* and whether the failure is of class Uncertain.
Outcomes(t) ==
    LET c == th[t].c
        failed == IF IsCancelled(c) THEN "Cancelled" ELSE "Failed" IN
    {o \in [state : {"Succeeded", "Failed", "Cancelled"}, uncertain : BOOLEAN] :
        \/ o = [state |-> "Succeeded", uncertain |-> FALSE] /\ c \in world
        \/ o = [state |-> "Failed", uncertain |-> TRUE]
        \/ o = [state |-> "Failed", uncertain |-> FALSE]            \* abandoned
        \/ o = [state |-> failed, uncertain |-> FALSE]
           /\ (c \in FileActions => th[t].handoff # "handed_off")}

\* finish: only this ends an executing entry.
Finish(t) ==
    LET c == th[t].c IN
    /\ At(t, "executing") /\ Free(t)
    /\ \E o \in Outcomes(t) :
          entry' = [EndEntry({c}, o.state) EXCEPT ![c].finished_started = TRUE,
                                                  ![c].uncertain = o.uncertain,
                                                  ![c].handoff = th[t].handoff]
    /\ Owing(t, {c}, "idle")
    /\ UNCHANGED <<held, retained, lock, policy, history>>

\* ack: a conclusive outcome releases the commitment's pin and the run it retains.
AckConclusive(c) == Publication(c) \in {"Published", "ConfirmedNotPublished"}
Ack(t, c) ==
    /\ At(t, "idle") /\ Free(t) /\ c \in Present /\ entry[c].pinned /\ AckConclusive(c)
    /\ run[RunOf[c]] # "pruned" /\ retained[RunOf[c]] > 0
    /\ retained' = [retained EXCEPT ![RunOf[c]] = @ - 1]
    /\ entry' = [entry EXCEPT ![c].pinned = FALSE]
    /\ UNCHANGED <<held, lock, policy, th, history>>

----------------------------------------------------------------------------
\* Paying what an end owes (flush): the leases end first, then the records are given
\* to the store, which keeps one it cannot write.
EndLeases(t) ==
    /\ At(t, "leases")
    /\ lease' = lease \cup th[t].leases
    /\ th' = [th EXCEPT ![t].leases = {},
                        ![t].at = IF th[t].then \in {"bump", "drop_runs_halted"}
                                  THEN th[t].then ELSE "records"]
    /\ UNCHANGED <<registry, lock, policy, log, ends, world, barrier>>
GiveRecords(t) ==
    /\ At(t, "records")
    /\ ends' = [c \in Commitments |-> ends[c] + IF c \in th[t].owed THEN 1 ELSE 0]
    /\ th' = [th EXCEPT ![t] = IF th[t].then = "idle" THEN Idle
                               ELSE [@ EXCEPT !.at = th[t].then, !.owed = {}]]
    /\ UNCHANGED <<registry, lock, policy, log, lease, world, barrier>>

----------------------------------------------------------------------------
\* The calls that end commitments.

\* Control::deny (a transition under way is overtaken), then settle's prune.
Deny(t, c) ==
    /\ At(t, "idle") /\ Free(t) /\ entry[c].state \in Unconsumed
    /\ entry' = EndEntry({c}, "Denied")
    /\ th' = [th EXCEPT ![t].at = "leases", ![t].c = c, ![t].owed = {c}, ![t].leases = {c},
                        ![t].then = "unhold"]
    /\ UNCHANGED <<held, retained, lock, policy, history>>
Unhold(t) ==
    /\ At(t, "unhold") /\ held' = held \ {th[t].c} /\ Goes(t, "sweep")
    /\ UNCHANGED <<entry, retained, lock, policy, history>>

\* prune: sweep ends every unconsumed commitment that can no longer start, and the
\* effects of those that no longer wait are dropped.
Prune(t) ==
    /\ At(t, "idle") /\ \E c \in Present : entry[c].state \in Unconsumed
    /\ Goes(t, "sweep")
    /\ UNCHANGED <<registry, lock, policy, history>>
Sweep(t) ==
    LET dead == {c \in Present : entry[c].state \in Unconsumed
                                 /\ LiveCheck(c, c \in late) # "live"} IN
    /\ At(t, "sweep") /\ Free(t)
    /\ entry' = [c \in Commitments |->
                    IF c \in dead THEN EndEntry(dead, LiveCheck(c, c \in late))[c] ELSE entry[c]]
    /\ Owing(t, dead, "take_dead")
    /\ UNCHANGED <<held, retained, lock, policy, history>>
TakeDead(t) ==
    /\ At(t, "take_dead") /\ Free(t)
    /\ held' = {c \in held : entry[c].state \in Unconsumed} /\ Goes(t, "idle")
    /\ UNCHANGED <<entry, retained, lock, policy, history>>

\* cancel_run and finish_run: the run first, under its own lock.
EndRun(t, r) ==
    /\ At(t, "idle") /\ run[r] \notin {"unopened", "pruned"}
    /\ run' \in {[run EXCEPT ![r] = "cancelled"],
                 [run EXCEPT ![r] = IF @ = "active" THEN "finished" ELSE @]}
    /\ th' = [th EXCEPT ![t].at = "revoke", ![t].runs = {r}, ![t].then = "drop_runs"]
    /\ UNCHANGED <<registry, lock, halted, stopped, generation, grant, late, history>>

\* halt_group and stop_all cancel every run of S that is known.
Known(S) == {r \in S : run[r] \notin {"unopened", "pruned"}}
CancelAll(S) == [r \in Runs |-> IF r \in Known(S) THEN "cancelled" ELSE run[r]]

\* halt_door: the group is halted and every member cancelled.
HaltDoor(t) ==
    /\ At(t, "idle") /\ halted' = TRUE /\ run' = CancelAll(DoorRuns)
    /\ th' = [th EXCEPT ![t].at = "revoke", ![t].then = "drop_runs_halted",
                        ![t].runs = Known(DoorRuns)]
    /\ UNCHANGED <<registry, lock, stopped, generation, grant, late, history>>

\* stop_effects: every run is cancelled, and none opens.  The policy changes that are
\* under way are counted against the bound.
Bumping == {t \in Threads : th[t].at \in {"bump", "bump_grant"} \/ th[t].then = "bump"}
MayBump == generation + Cardinality(Bumping) < MaxGen
StopAll(t) ==
    /\ At(t, "idle") /\ MayBump
    /\ stopped' = TRUE /\ run' = CancelAll(Runs)
    /\ th' = [th EXCEPT ![t].at = "revoke", ![t].then = "bump", ![t].runs = Known(Runs)]
    /\ UNCHANGED <<registry, lock, halted, generation, grant, late, history>>

\* revoke_run, revoke_runs, revoke_all: under the lock, which waits for a `complete'.
RevokedOf(t) ==
    {c \in Present : entry[c].state \in Unconsumed
                     /\ (th[t].then = "bump" \/ RunOf[c] \in th[t].runs)}
Revoke(t) ==
    /\ At(t, "revoke") /\ Free(t)
    /\ entry' = EndEntry(RevokedOf(t), "Revoked") /\ Owing(t, RevokedOf(t), th[t].then)
    /\ UNCHANGED <<held, retained, lock, policy, history>>

\* A stop moves the generation, then drops every pending effect, then records.
BumpOfStop(t) ==
    /\ At(t, "bump") /\ generation' = generation + 1
    /\ th' = [th EXCEPT ![t].at = "drop_all", ![t].then = "idle"]
    /\ UNCHANGED <<registry, lock, run, halted, stopped, grant, late, history>>
DropAll(t) ==
    /\ At(t, "drop_all") /\ held' = {}
    /\ Goes(t, "records")
    /\ barrier' = barrier \cup th[t].runs
    /\ UNCHANGED <<entry, retained, lock, policy, log, ends, lease, world>>

\* A cancelled run's effects are dropped last; a halted door's before its records,
\* which the caller writes.
DropRuns(t) ==
    /\ At(t, "drop_runs") \/ At(t, "drop_runs_halted")
    /\ held' = {c \in held : RunOf[c] \notin th[t].runs}
    /\ barrier' = barrier \cup th[t].runs
    /\ th' = [th EXCEPT ![t] = IF At(t, "drop_runs") THEN Idle
                               ELSE [@ EXCEPT !.at = "records", !.then = "idle"]]
    /\ UNCHANGED <<entry, retained, lock, policy, log, ends, lease, world>>

\* GrantStore::revoke: the grant under its lock, then the generation, then the record.
RevokeGrant(t, g) ==
    /\ At(t, "idle") /\ grant[g] # "revoked" /\ MayBump
    /\ grant' = [grant EXCEPT ![g] = "revoked"] /\ Goes(t, "bump_grant")
    /\ UNCHANGED <<registry, lock, run, halted, stopped, generation, late, history>>
BumpOfRevoke(t) ==
    /\ At(t, "bump_grant") /\ generation' = generation + 1
    /\ Goes(t, "idle")
    /\ UNCHANGED <<registry, lock, run, halted, stopped, grant, late, history>>

----------------------------------------------------------------------------
\* What happens around the registry.

\* open_with_cell, and prune_ended of a full run registry: a run that ended is
\* forgotten unless a pinned commitment retains it.
OpenRun(r) ==
    /\ run[r] = "unopened" /\ ~stopped /\ ~(halted /\ r \in DoorRuns)
    /\ run' = [run EXCEPT ![r] = "active"]
    /\ UNCHANGED <<registry, lock, halted, stopped, generation, grant, late, th, history>>
Prunable(r) == run[r] \in {"cancelled", "finished"} /\ retained[r] = 0
PruneRun(r) ==
    /\ Prunable(r) /\ run' = [run EXCEPT ![r] = "pruned"]
    /\ UNCHANGED <<registry, lock, halted, stopped, generation, grant, late, th, history>>

\* The owner resumes (modelled in StopResume): runs that ended stay ended.
Lift ==
    /\ stopped /\ stopped' = FALSE
    /\ UNCHANGED <<registry, lock, run, halted, generation, grant, late, th, history>>

\* A clock reaches a commitment's deadline, or a grant's expiry.
DeadlinePasses(c) ==
    /\ c \in Lapsing \ late /\ entry[c].state \in Unconsumed /\ late' = late \cup {c}
    /\ UNCHANGED <<registry, lock, run, halted, stopped, generation, grant, th, history>>
GrantExpires(g) ==
    /\ g \in Lapsing /\ grant[g] = "live" /\ grant' = [grant EXCEPT ![g] = "expired"]
    /\ UNCHANGED <<registry, lock, run, halted, stopped, generation, late, th, history>>

----------------------------------------------------------------------------
Calls(t) ==
    \/ \E c \in Commitments : Propose(t, c) \/ Authorize(t, c) \/ Execute(t, c)
                              \/ Deny(t, c) \/ Ack(t, c)
    \/ \E r \in Runs : EndRun(t, r)
    \/ \E g \in Grants : RevokeGrant(t, g)
    \/ HaltDoor(t) \/ StopAll(t) \/ Prune(t)

\* The rest of a call: what a thread that is under way does next.
Continues(t) ==
    \/ RecordPrepared(t) \/ Insert(t) \/ FillPlace(t)
    \/ Ask(t) \/ ReserveAuthorize(t) \/ Start(t)
    \/ RecordTransition(t) \/ Withdraw(t) \/ Complete(t) \/ Finalize(t)
    \/ FailUnstarted(t) \/ DropIfFinal(t)
    \/ EndLeases(t) \/ GiveRecords(t) \/ Unhold(t) \/ Sweep(t) \/ TakeDead(t)
    \/ Revoke(t) \/ BumpOfStop(t) \/ DropAll(t) \/ DropRuns(t) \/ BumpOfRevoke(t)

\* The owner's answer and the effect's own end.
Awaited(t) == Answer(t) \/ Finish(t)

Effects(t) == HandingOff(t) \/ EffectHappens(t) \/ ProvenNotPublished(t)

Environment ==
    \/ \E r \in Runs : OpenRun(r) \/ PruneRun(r)
    \/ \E c \in Commitments : DeadlinePasses(c)
    \/ \E g \in Grants : GrantExpires(g)
    \/ Lift

Next ==
    \/ \E t \in Threads : Calls(t) \/ Continues(t) \/ Awaited(t) \/ Effects(t)
    \/ Environment

Spec == Init /\ [][Next]_vars

\* A thread that is under way goes on; the owner answers and an effect ends.
FairSpec == Spec /\ \A t \in Threads : WF_vars(Continues(t)) /\ WF_vars(Awaited(t))

----------------------------------------------------------------------------
\* The entries, threads and counters are well formed.
TypeOK ==
    /\ entry \in [Commitments -> Entry]
    /\ lock \in Threads \cup {NoThread} /\ held \subseteq Commitments
    /\ run \in [Runs -> {"unopened", "active", "cancelled", "finished", "pruned"}]
    /\ retained \in [Runs -> Nat] /\ halted \in BOOLEAN /\ stopped \in BOOLEAN
    /\ generation \in 0 .. MaxGen
    /\ grant \in [Grants -> {"live", "revoked", "expired"}] /\ late \subseteq Commitments
    /\ th \in [Threads -> Thread]
    /\ log \in [Commitments -> SUBSET Phases] /\ ends \in [Commitments -> Nat]
    /\ lease \subseteq Commitments /\ world \subseteq Commitments /\ barrier \subseteq Runs

Ended(c) == entry[c].state \in Final \cup {"refused", "gone"}

\* Whatever ended a commitment while a transition of it was being recorded wins: a
\* commitment that ended never takes another state (complete's comparison of its token).
EndedStaysEnded ==
    [][\A c \in Commitments : Ended(c) => entry'[c].state \in {entry[c].state, "gone"}]_vars

\* Once a cancellation, a door halt or a stop has returned, no commitment of its runs is
\* prepared, authorized or started any more, whatever was under way: the end takes the
\* lock `complete' checks and finalizes under.
NothingStartsBehindTheBarrier ==
    [][\A c \in Commitments :
          entry'[c].state \in {"Prepared", "Authorized", "Executing"} \ {entry[c].state}
             => RunOf[c] \notin barrier]_vars

\* Evidence first: what a commitment was allowed is recorded before it takes effect, and
\* an R2 commitment is authorized only with the recorded approval of the owner.
EvidenceFirst ==
    \A c \in Commitments :
        /\ entry[c].state = "Prepared" => "Prepared" \in log[c]
        /\ entry[c].state \in {"Authorized", "Executing"} =>
              "Authorized" \in log[c] /\ (c \in R2Actions => "Approved" \in log[c])
        /\ entry[c].state = "Executing" \/ c \in world => "Started" \in log[c]

\* Every commitment whose preparation was recorded and that ended has exactly one end
\* record, given to the store or held by the call that ended it, whichever of the racing
\* calls that was; one that has not ended has none.
OneEndRecord ==
    \A c \in Commitments :
        ends[c] + Cardinality({t \in Threads : c \in th[t].owed}) = IF Ended(c) THEN 1 ELSE 0

\* No credential lease outlives its commitment, except in the hands of the call that
\* ended it; and none is ended under a commitment that may still act.
LeasesEndWithIt ==
    \A c \in Commitments :
        /\ Ended(c) => c \in lease \/ \E t \in Threads : c \in th[t].leases
        /\ c \in lease => Ended(c) \/ entry[c].state = "absent"

\* When no call is under way, no effect waits without a commitment that may still be
\* consumed; and until the generation moved, no such commitment is left without its
\* effect.  (A stop, slower than the resume that lifts it, may drop with the others the
\* effect of a commitment prepared since.)
NoOrphans ==
    LET waiting == {c \in Commitments : entry[c].state \in Unconsumed} IN
    (\A t \in Threads : At(t, "idle")) =>
        held \subseteq waiting /\ (generation = 0 => waiting \subseteq held)

\* The run of a pinned commitment is known until the pin is released, and retained once
\* for each: an acknowledgement never fails to find its run.
PinsRetainTheirRun ==
    \A r \in Runs :
        LET pins == {c \in Present : entry[c].pinned /\ RunOf[c] = r} IN
        retained[r] = Cardinality(pins) /\ (pins # {} => run[r] # "pruned")

\* What the registry says of a publication is true of the world.
PublicationIsTrue ==
    \A c \in Present : /\ Publication(c) = "Published" => c \in world
                       /\ Publication(c) = "ConfirmedNotPublished" => c \notin world

\* A File action whose outcome is not known is never forgotten: only an acknowledged,
\* conclusive one is pruned.
UncertainIsKept ==
    [][\A c \in FileActions : entry'[c].state = "gone" /\ entry[c].state # "gone"
            => Publication(c) \in {"Published", "ConfirmedNotPublished"}]_vars

\* A commitment ends once: what it was allowed is recorded first, it has one end
\* record, and its leases end with it, whoever ends it and whatever is refused.
EndsOnce == EvidenceFirst /\ OneEndRecord /\ LeasesEndWithIt

\* Nothing is left behind or forgotten too early: no effect without its commitment, no
\* pinned outcome without its run, and no publication reported otherwise than it was.
NothingIsLost == NoOrphans /\ PinsRetainTheirRun /\ PublicationIsTrue

\* An end is final: it takes no other state, nothing starts behind it, and an uncertain
\* File outcome is never pruned.
EndsAreFinal == EndedStaysEnded /\ NothingStartsBehindTheBarrier /\ UncertainIsKept
=============================================================================
