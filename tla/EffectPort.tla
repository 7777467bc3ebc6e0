----------------------------- MODULE EffectPort -----------------------------
(***************************************************************************)
(* The port of mother/src/adapter/mod.rs (GovernedPort) and the broker's    *)
(* records behind it, one atomic operation per call, as the coordinator     *)
(* uses them.  A port is a record: the mutex-guarded registry Runs.  The    *)
(* broker's commitments are a function `action', indexed by mission and     *)
(* effect, and outlive the port: a port that is rebuilt starts empty.       *)
(***************************************************************************)
EXTENDS MissionLog

(***************************************************************************)
(* The broker's commitment of an effect, as the port sees it; the registry  *)
(* itself is module Commitments.  "prepared" stands for                     *)
(* Prepared and Authorized, "lapsed" for Expired and Failed.  A commitment  *)
(* whose run was cancelled is "interrupted" while it still executes, and    *)
(* "cancelled" once it is final, whatever it came to.  "gone" is one the    *)
(* broker's registry no longer knows (the process died), "none" one it      *)
(* never had.                                                               *)
(***************************************************************************)
ActionState == {"none", "prepared", "executing", "succeeded", "denied", "lapsed",
                "interrupted", "cancelled", "gone"}
OpenAtBroker == {"prepared", "executing", "interrupted"}

\* The registry: the runs the port holds and the actions on them, the action
\* each mission waits on, the missions ended, the actions handed back.
Port == [fenced : BOOLEAN,
         open : SUBSET Missions,
         on_run : [Missions -> SUBSET Effects],
         waiting : [Missions -> Effects \cup {NoEffect}],
         ended : SUBSET Missions,
         handed : [Missions -> SUBSET Effects]]

NewPort == [fenced |-> FALSE, open |-> {}, on_run |-> [m \in Missions |-> {}],
            waiting |-> [m \in Missions |-> NoEffect], ended |-> {},
            handed |-> [m \in Missions |-> {}]]

\* What cancelling its run does to an action: not started, it is revoked;
\* executing, it goes on with its cancellation token set.
CancelAction(state) ==
    CASE state = "prepared"  -> "cancelled"
      [] state = "executing" -> "interrupted"
      [] OTHER               -> state

\* The broker cancels the runs port p holds for the missions S.
CancelRuns(p, act, S) ==
    [m \in Missions |-> [e \in Effects |->
        IF m \in S \cap p.open /\ e \in p.on_run[m]
        THEN CancelAction(act[m][e]) ELSE act[m][e]]]

\* fence: no broker call enters from now on and every run held is cancelled.
Fence(p) == [p EXCEPT !.fenced = TRUE]

\* run_for and perform: whether the port lets mission m act.
MayPerformFenced(p, m) == m \notin p.ended      \* mutant: the fence is not checked
MayPerform(p, m) == ~p.fenced /\ m \notin p.ended

\* perform: the mission's run is open, and on it the action that waits.
Performed(p, m) == [p EXCEPT !.open = @ \cup {m}]
PerformedWaiting(p, m, e) ==
    [Performed(p, m) EXCEPT !.on_run[m] = @ \cup {e}, !.waiting[m] = e]

\* end: the mission is marked ended.
EndMission(p, m) == [p EXCEPT !.ended = @ \cup {m}]

\* withdraw: what it leaves at the broker, and whether it succeeds.
WithdrawActions(p, act, m) == IF p.fenced THEN act ELSE CancelRuns(p, act, {m})
WithdrawOk(p, act, m) ==
    IF p.fenced
    THEN m \notin p.open /\ p.handed[m] = {}
    ELSE \A e \in p.handed[m] :
            act[m][e] \in OpenAtBroker => m \in p.open /\ e \in p.on_run[m]

\* settled: confirmed final at the broker, or not known there.
SettledAtPort(p, act, m, e) == ~p.fenced /\ act[m][e] \notin OpenAtBroker

\* approval: what the port may find of the action mission m waits on.  One past
\* its deadline by either of the port's clocks is expired (here lapsed), although
\* the broker ends it only when it next touches it.
ApprovalStatus == {"Waiting", "Approved", "Denied", "Lapsed"}
Waits(p, m) == ~p.fenced /\ m \in p.open /\ p.waiting[m] # NoEffect
StatusOf(state) ==
    CASE state = "prepared"                     -> {"Waiting", "Lapsed"}
      [] state \in {"executing", "interrupted"} -> {"Waiting"}
      [] state = "succeeded"                    -> {"Approved"}
      [] state = "denied"                       -> {"Denied"}
      [] OTHER                                  -> {"Lapsed"}
Approvals(p, act, m) == IF Waits(p, m) THEN StatusOf(act[m][p.waiting[m]]) ELSE {"Lapsed"}
Queried(p, m, status) ==
    IF Waits(p, m) /\ status # "Waiting" THEN [p EXCEPT !.waiting[m] = NoEffect] ELSE p

\* adopt: the journaled actions (mission to effect) are all recorded as handed
\* back; those of the missions S, whose runs the broker lets the door join, are
\* registered again.
Adoptable(p, act, open) ==
    {m \in Missions : /\ open[m] # NoEffect
                      /\ act[m][open[m]] \notin {"none", "gone", "interrupted", "cancelled"}
                      /\ ~p.fenced /\ m \notin p.ended /\ m \notin p.open}
Adopted(p, open, S) ==
    [p EXCEPT !.handed = [m \in Missions |-> IF open[m] = NoEffect THEN p.handed[m]
                                             ELSE p.handed[m] \cup {open[m]}],
              !.open = @ \cup S,
              !.on_run = [m \in Missions |-> IF m \in S THEN {open[m]} ELSE p.on_run[m]],
              !.waiting = [m \in Missions |-> IF m \in S THEN open[m] ELSE p.waiting[m]]]
=============================================================================
