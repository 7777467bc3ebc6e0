---------------------------- MODULE ConsentQueue ----------------------------
(***************************************************************************)
(* The consent runtime of one agent (src/kernel/src/consent.rs): the tiers *)
(* an operation needs, the policies that may change them                   *)
(* (src/kernel/src/policy_engine/engine.rs), the queue of approval         *)
(* requests, the votes on them, their one use, and the file the queue      *)
(* rewrites at every change.                                               *)
(*                                                                         *)
(* A request's id is a hash of the audit trail's length and of the         *)
(* request's fingerprint; the hashes are taken to be injective, so an id   *)
(* is the pair <<length, fingerprint>>.  The trail archives its oldest     *)
(* segment when it grows past its limit, so lengths, and ids, come back.   *)
(* The agent and the requester are the runtime's own and are left out of   *)
(* the fingerprint.  A queue kept in memory only is this one with no crash.*)
(***************************************************************************)
EXTENDS Integers, Sequences, FiniteSets

CONSTANTS
    Operations,      \* the governed operations asked for, by their names
    Payloads,        \* payloads an operation is asked with
    Voters,          \* identities that vote; the requester may be one
    Requester,       \* requester_id of the runtime
    AutoTier1,       \* auto_approve_tier1
    Timeout,         \* approval_timeout_secs
    PolicySets,      \* the policy engines the supervisor may attach
    Torn,            \* stands for a file that does not parse
    MaxLive,         \* live events of the audit trail before it archives
    Segment,         \* events archived at once
    LastTime,        \* bound: the wall clock takes the values 1..LastTime
    MaxSets,         \* bound: how often the clock moves
    MaxPolicies,     \* bound: calls of set_policy
    MaxFaults,       \* bound: failed appends and writes
    MaxCrashes       \* bound: restarts

ConsentAssumption ==
    /\ Timeout \in Nat \ {0}
    /\ MaxLive \in Nat \ {0} /\ Segment \in 1..MaxLive
    /\ LastTime \in Nat \ {0}
    /\ {MaxSets, MaxPolicies, MaxFaults, MaxCrashes} \subseteq Nat
    /\ AutoTier1 \in BOOLEAN

VARIABLES
    records,    \* ApprovalQueue::records: id -> record
    index,      \* fingerprint_index: fingerprint -> id
    file,       \* the records in the queue's file, or Torn
    audit,      \* how many events the audit trail holds live
    up,         \* the queue is open in a process
    tier,       \* the consent policy engine's required tier by operation
    allowed,    \* and its allowed approvers
    policies,   \* the attached policy engine, in load order
    now,        \* the wall clock
    answer,     \* what the last call returned
    credit,     \* ghost: who approved a fingerprint since it was last used
    refused,    \* ghost: fingerprints whose denial was acknowledged
    spent       \* what is left of the bounds

vars == <<records, index, file, audit, up, tier, allowed, policies, now,
          answer, credit, refused, spent>>

Tiers == 0..3

-----------------------------------------------------------------------------
(* The tiers *)

Tier1Operations == {"ToolCall", "TimeMachineUndo", "IntegrationSend"}
Tier3Operations == {"SelfMutationApply", "DistributedEnable",
                    "GovernancePolicyModify", "SovereignPromotion",
                    "TranscendentCreation"}

\* ConsentPolicyEngine::default; no operation has an approver there.
DefaultTier(op) == CASE op \in Tier1Operations -> 1
                     [] op \in Tier3Operations -> 3
                     [] OTHER -> 2

\* The operations enforce_operation holds to Tier3 whatever any policy says.
Critical == {"SovereignPromotion", "TranscendentCreation",
             "GovernancePolicyModify", "SelfMutationApply",
             "AgentLifecycleManage"}

approvals_required(t) == CASE t = 0 -> 0
                           [] t = 1 -> (IF AutoTier1 THEN 0 ELSE 1)
                           [] t = 2 -> 1
                           [] t = 3 -> 2

-----------------------------------------------------------------------------
(* The policy engine *)

\* A policy is asked about resource "*" at autonomy L0: one that names a
\* resource or a higher level does not match.
Matches(p, op) == /\ op \in p.actions
                  /\ p.anyResource
                  /\ p.minLevel = 0

Matching(op) == {i \in DOMAIN policies : Matches(policies[i], op)}

\* Sorted by priority and, the sort being stable, by load order.
First(indices) ==
    CHOOSE i \in indices : \A j \in indices :
        \/ policies[i].priority < policies[j].priority
        \/ policies[i].priority = policies[j].priority /\ i <= j

\* PolicyEngine::evaluate, with the tier of RequireApproval.
Evaluate(op) ==
    LET denies == {i \in Matching(op) : policies[i].effect = "deny"}
        allows == Matching(op) \ denies
    IN  IF denies # {} \/ allows = {} THEN [is |-> "deny", tier |-> 0]
        ELSE LET n == policies[First(allows)].required_approvers
             IN  CASE n = -1 -> [is |-> "allow", tier |-> 0]       \* None
                   [] n \in 0..2 -> [is |-> "require", tier |-> n]
                   [] OTHER -> [is |-> "require", tier |-> 3]

-----------------------------------------------------------------------------
(* The queue, as a record of its records, index, file and audit trail *)

Queue == [records |-> records, index |-> index, file |-> file, audit |-> audit]

QueueBecomes(q) == /\ records' = q.records
                   /\ index' = q.index
                   /\ file' = q.file
                   /\ audit' = q.audit

\* append_event, and the archiving in it.
Live(n) == IF n + 1 > MaxLive THEN n + 1 - Segment ELSE n + 1

\* How an append and the write after it end: the append may fail before or
\* after the event is kept, the write before or after it truncated the file.
Endings == {"done", "unaudited", "unsaved", "torn"}

\* The event of a change, then persist.
Recorded(q, how) ==
    [q EXCEPT !.audit = IF how = "unaudited" THEN @ ELSE Live(@),
              !.file = CASE how = "done" -> q.records
                         [] how = "torn" -> Torn
                         [] OTHER -> @]

Asked(f) == [fp |-> f, approvals |-> {}, denials |-> {}, executed |-> FALSE,
             created |-> now]

Put(fn, k, v) == [x \in DOMAIN fn \union {k} |-> IF x = k THEN v ELSE fn[x]]
Drop(fn, k) == [x \in DOMAIN fn \ {k} |-> fn[x]]

\* request_or_get without its event and write.
Inserted(q, f) ==
    LET id == <<q.audit + 1, f>>
    IN  [q EXCEPT !.records = Put(@, id, Asked(f)), !.index = Put(@, f, id)]

\* mark_executed without its event and write.
Used(q, id) == [q EXCEPT !.records[id].executed = TRUE,
                         !.index = Drop(@, id[2])]

TimedOut(rec) == ~rec.executed /\ now - rec.created > Timeout

\* Mutant of ApprovalState: enough approvals outweigh a denial.
ApprovalsFirst(rec) ==
    IF Cardinality(rec.approvals) >= approvals_required(rec.fp[3]) THEN "approved"
    ELSE IF rec.denials # {} \/ TimedOut(rec) THEN "denied"
    ELSE "pending"

\* approval_state
ApprovalState(rec) ==
    IF rec.denials # {} \/ TimedOut(rec) THEN "denied"
    ELSE IF Cardinality(rec.approvals) >= approvals_required(rec.fp[3]) THEN "approved"
    ELSE "pending"

-----------------------------------------------------------------------------
(* Enforcing an operation *)

\* Mutant of Route: the policies are asked before the hardcoded tier.
RoutePolicyFirst(op) ==
    IF policies = <<>>
    THEN [to |-> "queue", tier |-> IF op \in Critical THEN 3 ELSE tier[op], event |-> FALSE]
    ELSE LET d == Evaluate(op)
         IN  CASE d.is = "deny" -> [to |-> "refuse", tier |-> 0, event |-> FALSE]
               [] d.is = "allow" -> [to |-> "pass", tier |-> 0, event |-> TRUE]
               [] OTHER -> [to |-> "queue", tier |-> d.tier, event |-> FALSE]

\* enforce_operation: refused or passed by a policy, or queued at a tier;
\* event: the policy's Allow is written to the audit trail first.
Route(op) ==
    IF op \in Critical
    THEN [to |-> "queue", tier |-> 3, event |-> FALSE]
    ELSE IF policies = <<>>
    THEN [to |-> "queue", tier |-> tier[op], event |-> FALSE]
    ELSE LET d == Evaluate(op)
         IN  CASE d.is = "deny" -> [to |-> "refuse", tier |-> 0, event |-> FALSE]
               [] d.is = "allow" /\ tier[op] >= 2 ->
                    [to |-> "queue", tier |-> tier[op], event |-> TRUE]
               [] d.is = "allow" /\ tier[op] < 2 ->
                    [to |-> "pass", tier |-> 0, event |-> TRUE]
               [] OTHER -> [to |-> "queue", tier |-> d.tier, event |-> FALSE]

Answers(what, f, by) == answer' = [what |-> what, fp |-> f, by |-> by]

\* A fault is taken from the budget; without one every event and write ends
\* well.
Fault(at, how) ==
    IF at = "nowhere" THEN how = "done" /\ UNCHANGED spent
    ELSE /\ how # "done"
         /\ spent.faults < MaxFaults
         /\ spent' = [spent EXCEPT !.faults = @ + 1]

\* A policy refuses, or lets through an operation of Tier0 or Tier1, or the
\* tier asked for is Tier0: no request is made.
EnforceWithoutRequest(op, p, at, how) ==
    LET way == Route(op)
        f == <<op, p, way.tier>>
    IN  /\ up
        /\ way.to # "queue" \/ (way.tier = 0 /\ ~way.event)
        /\ at \in {"nowhere"} \union (IF way.event THEN {"policy"} ELSE {})
        /\ how \in {"done", "unaudited", "unsaved"}
        /\ Fault(at, how)
        /\ audit' = IF way.event /\ how # "unaudited" THEN Live(audit) ELSE audit
        /\ IF way.to = "refuse" THEN Answers("policy_denied", f, {})
           ELSE IF at = "policy" THEN Answers("failed", f, {})
           ELSE Answers("ok", f, {})
        /\ UNCHANGED <<records, index, file, up, tier, allowed, policies, now,
                       credit, refused>>

\* enforce_with_tier: the request of this fingerprint, made if there is none,
\* and its use if it is approved.
EnforceByRequest(op, p, at, how) ==
    LET way == Route(op)
        f == <<op, p, way.tier>>
        End(where) == IF at = where THEN how ELSE "done"
        q0 == IF way.event /\ End("policy") # "unaudited"
              THEN [Queue EXCEPT !.audit = Live(@)] ELSE Queue
        fresh == f \notin DOMAIN index
        q1 == IF fresh THEN Recorded(Inserted(q0, f), End("request")) ELSE q0
        id == q1.index[f]
        state == ApprovalState(q1.records[id])
    IN  /\ up
        /\ way.to = "queue" /\ way.tier > 0
        /\ Fault(at, how)
        /\ CASE at = "policy" ->
                  /\ way.event /\ how # "torn"
                  /\ QueueBecomes(q0)
                  /\ Answers("failed", f, {})
                  /\ UNCHANGED credit
             [] at = "request" ->
                  /\ fresh
                  /\ QueueBecomes(q1)
                  /\ Answers("failed", f, {})
                  /\ UNCHANGED credit
             [] at \in {"use", "nowhere"} /\ state = "approved" ->
                  /\ QueueBecomes(Recorded(Used(q1, id), how))
                  /\ IF at = "use" THEN Answers("failed", f, {}) /\ UNCHANGED credit
                     ELSE /\ Answers("ok", f, q1.records[id].approvals)
                          /\ credit' = [credit EXCEPT ![f] = {}]
             [] at \in {"use", "nowhere"} /\ state # "approved" ->
                  /\ at = "nowhere"
                  /\ QueueBecomes(q1)
                  /\ Answers(IF state = "denied" THEN "denied"
                             ELSE "approval_required", f, {})
                  /\ UNCHANGED credit
        /\ UNCHANGED <<up, tier, allowed, policies, now, refused>>

-----------------------------------------------------------------------------
(* Votes *)

\* submit_decision's refusals.  Nothing asks whether the request is still
\* open, nor how long ago it was made.
MayVote(id, v) == /\ v # Requester
                  /\ v \in allowed[records[id].fp[1]]
                  /\ v \notin records[id].approvals \union records[id].denials

\* approve, and the vote counts even when its event or its write fails.
Approve(id, v, how) ==
    /\ up /\ MayVote(id, v)
    /\ Fault(IF how = "done" THEN "nowhere" ELSE "vote", how)
    /\ QueueBecomes(Recorded([Queue EXCEPT !.records[id].approvals = @ \union {v}], how))
    /\ credit' = IF records[id].executed THEN credit
                 ELSE [credit EXCEPT ![records[id].fp] = @ \union {v}]
    /\ Answers(IF how = "done" THEN "voted" ELSE "failed", records[id].fp, {v})
    /\ UNCHANGED <<up, tier, allowed, policies, now, refused>>

\* deny
Deny(id, v, how) ==
    /\ up /\ MayVote(id, v)
    /\ Fault(IF how = "done" THEN "nowhere" ELSE "vote", how)
    /\ QueueBecomes(Recorded([Queue EXCEPT !.records[id].denials = @ \union {v}], how))
    /\ refused' = IF how = "done" /\ ~records[id].executed
                  THEN refused \union {records[id].fp} ELSE refused
    /\ Answers(IF how = "done" THEN "voted" ELSE "failed", records[id].fp, {v})
    /\ UNCHANGED <<up, tier, allowed, policies, now, credit>>

\* ConsentPolicyEngine::set_policy
SetPolicy(op, t, who) ==
    /\ up /\ spent.policies < MaxPolicies
    /\ <<t, who>> # <<tier[op], allowed[op]>>
    /\ tier' = [tier EXCEPT ![op] = t]
    /\ allowed' = [allowed EXCEPT ![op] = who]
    /\ spent' = [spent EXCEPT !.policies = @ + 1]
    /\ UNCHANGED <<records, index, file, audit, up, policies, now, answer,
                   credit, refused>>

-----------------------------------------------------------------------------
(* Time, and the process *)

\* The wall clock moves, and may be set back.
ClockMoves(t) ==
    /\ spent.sets < MaxSets /\ t # now
    /\ now' = t
    /\ spent' = [spent EXCEPT !.sets = @ + 1]
    /\ UNCHANGED <<records, index, file, audit, up, tier, allowed, policies,
                   answer, credit, refused>>

\* The process ends; a write under way leaves the file truncated.
Crash(f) ==
    /\ up /\ spent.crashes < MaxCrashes
    /\ up' = FALSE
    /\ file' = f
    /\ spent' = [spent EXCEPT !.crashes = @ + 1]
    /\ UNCHANGED <<records, index, audit, tier, allowed, policies, now,
                   answer, credit, refused>>

Open(recs) == {id \in DOMAIN recs : ~recs[id].executed}

\* The index file_backed builds from the records it reads.
Indexed(recs) ==
    [f \in {recs[id].fp : id \in Open(recs)} |->
        CHOOSE id \in Open(recs) : recs[id].fp = f]

\* file_backed: a file that does not parse is an error, and the queue stays
\* shut.  The next process starts its audit trail anew.
Restart ==
    /\ ~up /\ file # Torn
    /\ up' = TRUE
    /\ records' = file
    /\ index' = Indexed(file)
    /\ audit' = 0
    /\ UNCHANGED <<file, tier, allowed, policies, now, answer, credit,
                   refused, spent>>

-----------------------------------------------------------------------------
Fingerprints == Operations \X Payloads \X Tiers
Nothing == [what |-> "none", fp |-> <<>>, by |-> {}]

\* from_manifest with the supervisor's engine; load may have given the
\* operations their approvers.
Init ==
    /\ records = <<>> /\ index = <<>> /\ file = <<>>
    /\ audit = 0
    /\ up = TRUE
    /\ tier = [op \in Operations |-> DefaultTier(op)]
    /\ \E who \in {{}, Voters} : allowed = [op \in Operations |-> who]
    /\ policies \in PolicySets
    /\ now \in {1, LastTime}
    /\ answer = Nothing
    /\ credit = [f \in Fingerprints |-> {}]
    /\ refused = {}
    /\ spent = [sets |-> 0, policies |-> 0, faults |-> 0, crashes |-> 0]

Next ==
    \/ \E op \in Operations, p \in Payloads, how \in Endings :
          \/ \E at \in {"nowhere", "policy"} : EnforceWithoutRequest(op, p, at, how)
          \/ \E at \in {"nowhere", "policy", "request", "use"} :
                EnforceByRequest(op, p, at, how)
    \/ \E id \in DOMAIN records, v \in Voters, how \in Endings :
          Approve(id, v, how) \/ Deny(id, v, how)
    \/ \E op \in Operations, t \in Tiers, who \in SUBSET Voters : SetPolicy(op, t, who)
    \/ \E t \in 1..LastTime : ClockMoves(t)
    \/ \E f \in {file, Torn} : Crash(f)
    \/ Restart

Spec == Init /\ [][Next]_vars

-----------------------------------------------------------------------------
(* Properties *)

RecordSet == [fp : Fingerprints, approvals : SUBSET Voters,
              denials : SUBSET Voters, executed : BOOLEAN,
              created : 1..LastTime]

\* Types; the live audit trail keeps to its limit, and a record is filed
\* under an id made of its own fingerprint.
TypeOK ==
    /\ \A id \in DOMAIN records : records[id] \in RecordSet /\ id[2] = records[id].fp
    /\ \A f \in DOMAIN index : f \in Fingerprints /\ index[f] \in DOMAIN records
    /\ audit \in 0..MaxLive
    /\ up \in BOOLEAN
    /\ tier \in [Operations -> Tiers]
    /\ allowed \in [Operations -> SUBSET Voters]
    /\ now \in 1..LastTime
    /\ credit \in [Fingerprints -> SUBSET Voters]
    /\ refused \subseteq Fingerprints

\* The index and the records say the same: a fingerprint is indexed under its
\* one unused request and a used request is never found again, whatever
\* failed between the two updates, when an id comes back after the audit
\* trail archived, and after a restart.
OneOpenRequest ==
    up => /\ \A f \in DOMAIN index : records[index[f]].fp = f
          /\ Open(records) = {index[f] : f \in DOMAIN index}

\* Approvals are spent once.  Whoever an operation passes by approved it
\* after the fingerprint last passed, across failed writes and restarts
\* (mark_executed, persist, file_backed).
ApprovalsPayOnce ==
    answer' # answer /\ answer'.what = "ok" => answer'.by \subseteq credit[answer'.fp]

\* An acknowledged denial ends its request: the same operation, payload and
\* tier never passes again, whoever votes later, whatever the clock says and
\* whichever writes fail (submit_decision, approval_state).
DenialIsFinal ==
    \A f \in refused : answer' # answer => ~(answer'.what = "ok" /\ answer'.fp = f)

\* The five critical operations pass only with two approvers, neither of
\* them the requester, whatever policy is attached or set: "No Cedar policy,
\* no override, no exception."
CriticalNeedsTwo ==
    answer.what = "ok" /\ answer.fp[1] \in Critical =>
        Cardinality(answer.by \ {Requester}) >= 2

\* Requests and tiers hold: one open request per fingerprint, and two approvers
\* for what is critical.
ConsentHolds == OneOpenRequest /\ CriticalNeedsTwo

\* What was spent or denied does not pass again.
AnswersAreSpent == ApprovalsPayOnce /\ DenialIsFinal
=============================================================================
