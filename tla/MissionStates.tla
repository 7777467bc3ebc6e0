--------------------------- MODULE MissionStates ---------------------------
(***************************************************************************)
(* The mission state machine of mother/src/state.rs: the states, the        *)
(* triggers and the one transition table, used both by the live coordinator *)
(* (module Coordinator) and by the replay of its journal (MissionLog); and  *)
(* the lanes each working phase runs (phase_roles, coordinator.rs).         *)
(***************************************************************************)
EXTENDS Integers, Sequences

CONSTANTS Hashes,      \* contract hashes: two contracts are equal iff their hashes are
          NoHash,      \* no contract or no consent
          MaxEffects   \* bound on the effects one mission dispatches

ASSUME HashAssumption == NoHash \notin Hashes
ASSUME EffectAssumption == MaxEffects \in Nat

(***************************************************************************)
(* States.  "None" stands for an absent state: the result of an illegal     *)
(* transition, or a mission that was never drafted.                         *)
(***************************************************************************)
Terminal == {"Done", "Stopped", "Denied", "Failed", "Blocked"}
MayWait == {"Investigating", "Building", "Verifying"}
Working == MayWait \cup {"Explaining"}
RevisableLate == {"Draft", "AwaitingConsent", "Approved", "AwaitingApproval"}  \* mutant
Revisable == {"Draft", "AwaitingConsent", "Approved"}
MissionState == Revisable \cup Working \cup Terminal \cup {"AwaitingApproval"}
StoppableAlways == MissionState         \* mutant: a Stop also rewrites an end
Stoppable == MissionState \ Terminal

Roles == {"Sentinel", "ResearcherA", "ResearcherB", "Skeptic", "Builder", "Verifier"}

\* The lanes a working phase runs, in order (none outside them).
PhaseRoles(phase) ==
    CASE phase = "Investigating" -> <<"Sentinel", "ResearcherA", "ResearcherB", "Skeptic">>
      [] phase = "Building"      -> <<"Sentinel", "Builder">>
      [] phase = "Verifying"     -> <<"Sentinel", "Verifier">>
      [] OTHER                   -> << >>

\* The lanes that may be left once one of a phase's lanes has run.
RolesLeft ==
    UNION {{SubSeq(PhaseRoles(p), i, Len(PhaseRoles(p))) : i \in 2..5} : p \in MayWait}

(***************************************************************************)
(* Triggers.  One record shape; a trigger uses the fields it carries in the *)
(* code and leaves the others at their neutral value.  Reasons are left out *)
(* except the one the replay tells apart (EffectOutcomeUnknown), and the    *)
(* File settlement's Settled is in module FileSettlement.                   *)
(***************************************************************************)
NoEffect == -1
Effects == 0..(MaxEffects - 1)

TriggerName == {"Revise", "Submit", "Consent", "Deny", "Start", "PhaseDone", "VerifyPass",
                "VerifyFail", "Block", "BlockOutcomeUnknown", "Fail", "Stop",
                "AwaitApproval", "ActionApproved", "ActionDenied", "ApprovalLapsed"}

Trigger == [name : TriggerName,
            hash : Hashes \cup {NoHash},
            effect : Effects \cup {NoEffect},
            phase : MayWait \cup {"None"},
            rest : 0..MaxEffects,
            roles : RolesLeft]

Plain(name) == [name |-> name, hash |-> NoHash, effect |-> NoEffect, phase |-> "None",
                rest |-> 0, roles |-> << >>]
OfHash(name, h) == [Plain(name) EXCEPT !.hash = h]
OfEffect(name, e) == [Plain(name) EXCEPT !.effect = e]
\* mutant: the lane that asked is kept among those left.
AwaitApprovalAgain(e, rest, roles) ==
    [OfEffect("AwaitApproval", e) EXCEPT !.rest = rest, !.roles = <<"Sentinel">> \o roles]
AwaitApproval(e, rest, roles) ==
    [OfEffect("AwaitApproval", e) EXCEPT !.rest = rest, !.roles = roles]
ActionApproved(e, phase) == [OfEffect("ActionApproved", e) EXCEPT !.phase = phase]

(***************************************************************************)
(* The one transition table: the state a trigger leads to, "None" if the    *)
(* state does not accept it.                                                *)
(***************************************************************************)
Transition(from, t) ==
    CASE t.name = "Revise" /\ from \in Revisable                  -> "Draft"
      [] t.name = "Submit" /\ from = "Draft"                      -> "AwaitingConsent"
      [] t.name = "Consent" /\ from = "AwaitingConsent"           -> "Approved"
      [] t.name = "Deny" /\ from = "AwaitingConsent"              -> "Denied"
      [] t.name = "Start" /\ from = "Approved"                    -> "Investigating"
      [] t.name = "PhaseDone" /\ from = "Investigating"           -> "Building"
      [] t.name = "PhaseDone" /\ from = "Building"                -> "Verifying"
      [] t.name = "PhaseDone" /\ from = "Explaining"              -> "Done"
      [] t.name = "VerifyPass" /\ from = "Verifying"              -> "Explaining"
      [] t.name = "VerifyFail" /\ from = "Verifying"              -> "Failed"
      [] t.name \in {"Block", "BlockOutcomeUnknown"}
           /\ from \in Working \cup {"Approved"}                  -> "Blocked"
      [] t.name = "Fail" /\ from \in Working                      -> "Failed"
      [] t.name = "Stop" /\ from \in Stoppable                    -> "Stopped"
      [] t.name = "AwaitApproval" /\ from \in MayWait             -> "AwaitingApproval"
      [] t.name = "ActionApproved" /\ from = "AwaitingApproval"
           /\ t.phase \in MayWait                                 -> t.phase
      [] t.name = "ActionDenied" /\ from = "AwaitingApproval"     -> "Denied"
      [] t.name = "ApprovalLapsed" /\ from = "AwaitingApproval"   -> "Blocked"
      [] OTHER                                                    -> "None"

Legal(from, t) == Transition(from, t) # "None"
=============================================================================
