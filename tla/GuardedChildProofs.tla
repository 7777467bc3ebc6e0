------------------------- MODULE GuardedChildProofs -------------------------
(***************************************************************************)
(* Proofs, for every number of engagements, of what module GuardedChild     *)
(* states of the owner's answer.  NothingLeftRunning and KilledIsNotExited  *)
(* speak of the end; the inductive invariant says what each point of the    *)
(* owner's way there knows of the watcher, of the process and of the slot.  *)
(*                                                                          *)
(* The second part is about the consent an agent asks the kernel for: the   *)
(* queue of requests, its index, its file and what a vote is good for.      *)
(***************************************************************************)
EXTENDS GuardedChild, Sequences, TLAPS

\* Where the owner has set out to join the watcher, and why.
Stopping == {"set_done", "wake", "notify_all", "join"}

\* Where the owner is past the join.
Joined == {"read_killed", "wait_failed", "reap_halted", "drop_kill", "reap",
           "reap_err", "drop_reap"}

\* There is no watcher before there is a child, nor for a child that could not
\* be guarded; past the join it is gone.
WatcherInv ==
  /\ owner \in {"start", "spawn", "unguarded"} =>
       watcher = "none" /\ then = "none" /\ ~slot.child /\ slot.killed = "none"
  /\ owner = "start" => process = "none"
  /\ owner \in Stopping => then # "none"
  /\ owner \in Joined => watcher \in Gone
  /\ owner = "wait" => watcher \in Gone \cup {"none"}
  /\ owner = "returned" => watcher \in Gone \cup {"none"}
  /\ slot.child => watcher # "none"

\* What was killed does not run, unless the kill failed and is known to have.
ProcessInv ==
  /\ slot.killed = "ok" => process # "running"
  /\ slot.killed = "err" => failed
  /\ (owner \in Stopping /\ then = "read_killed") \/ owner = "read_killed" =>
       process = "reaped"
  /\ owner = "reap" => process # "running"
  /\ owner \in {"reap_err", "wait", "drop_reap", "returned"} /\ process = "running" =>
       failed

\* The watcher's kill stays in the slot until the owner has read it.
SlotInv ==
  /\ watcher = "killed" =>
       slot.killed # "none" \/ owner \in {"reap", "reap_err", "returned"}
  /\ result # "none" => owner = "returned"
  /\ result = "exited" => watcher # "killed"

ChildInv == TypeOK /\ WatcherInv /\ ProcessInv /\ SlotInv

USE EngagementsAssumption DEF Stopping, Joined, Gone

\* A new guard holds the invariant: there is no child and no watcher yet.
LEMMA InitChildInv == Init => ChildInv
  <1>. SUFFICES ASSUME Init PROVE ChildInv
    OBVIOUS
  <1>1. TypeOK
    <2>1. notify \in BOOLEAN /\ done \in BOOLEAN /\ failed \in BOOLEAN
      BY Zenon DEF Init
    <2>. QED
      BY <2>1, SMT DEF Init, TypeOK
  <1>2. WatcherInv /\ ProcessInv /\ SlotInv
    BY DEF Init, WatcherInv, ProcessInv, SlotInv
  <1>. QED
    BY <1>1, <1>2 DEF ChildInv

\* The watcher's steps keep it: only a kill touches the slot, and the kill's
\* outcome says what became of the process.
LEMMA WatcherKeepsInv ==
  ASSUME ChildInv, Watcher \/ WakesSpuriously PROVE ChildInv'
  <1>1. CASE WatcherLocks
    BY <1>1 DEF WatcherLocks, ChildInv, TypeOK, WatcherInv, ProcessInv, SlotInv
  <1>2. CASE WatcherReads
    BY <1>2 DEF WatcherReads, ChildInv, TypeOK, WatcherInv, ProcessInv, SlotInv
  <1>3. CASE WatcherWaits
    BY <1>3 DEF WatcherWaits, ChildInv, TypeOK, WatcherInv, ProcessInv, SlotInv
  <1>4. CASE WatcherKills
    <2>1. CASE slot.child
      <3>1. PICK outcome \in {"ok", "err"} :
              Kill(outcome) /\ slot' = [slot EXCEPT !.killed = outcome]
        BY <1>4, <2>1 DEF WatcherKills
      <3>2. TypeOK'
        BY <1>4, <2>1, <3>1 DEF WatcherKills, Kill, ChildInv, TypeOK
      <3>3. WatcherInv'
        BY <1>4, <2>1, <3>1 DEF WatcherKills, ChildInv, TypeOK, WatcherInv
      <3>4. ProcessInv'
        BY <1>4, <2>1, <3>1 DEF WatcherKills, Kill, ChildInv, TypeOK, WatcherInv, ProcessInv
      <3>5. SlotInv'
        BY <1>4, <2>1, <3>1 DEF WatcherKills, ChildInv, TypeOK, WatcherInv, SlotInv
      <3>. QED
        BY <3>2, <3>3, <3>4, <3>5 DEF ChildInv
    <2>2. CASE ~slot.child
      BY <1>4, <2>2 DEF WatcherKills, ChildInv, TypeOK, WatcherInv, ProcessInv, SlotInv
    <2>. QED
      BY <2>1, <2>2
  <1>5. CASE WakesSpuriously
    BY <1>5 DEF WakesSpuriously, ChildInv, TypeOK, WatcherInv, ProcessInv, SlotInv
  <1>. QED
    BY <1>1, <1>2, <1>3, <1>4, <1>5 DEF Watcher

\* So do the authority's steps, the process's exit and the owner's business,
\* which read and write nothing of the slot.
LEMMA OthersKeepInv ==
  ASSUME ChildInv, Engage \/ EngageNotifies \/ Exits \/ Proceed PROVE ChildInv'
  <1>1. CASE Engage
    BY <1>1 DEF Engage, ChildInv, TypeOK, WatcherInv, ProcessInv, SlotInv
  <1>2. CASE EngageNotifies
    <2>1. TypeOK'
      <3>1. notify' \in BOOLEAN /\ done' \in BOOLEAN /\ failed' \in BOOLEAN
        BY <1>2, Zenon DEF EngageNotifies, Woken, ChildInv, TypeOK
      <3>. QED
        BY <3>1, <1>2, SMT DEF EngageNotifies, Woken, ChildInv, TypeOK
    <2>2. WatcherInv'
      BY <1>2 DEF EngageNotifies, Woken, ChildInv, TypeOK, WatcherInv
    <2>3. ProcessInv'
      BY <1>2 DEF EngageNotifies, Woken, ChildInv, TypeOK, WatcherInv, ProcessInv
    <2>4. SlotInv'
      BY <1>2 DEF EngageNotifies, Woken, ChildInv, TypeOK, WatcherInv, SlotInv
    <2>. QED
      BY <2>1, <2>2, <2>3, <2>4 DEF ChildInv
  <1>3. CASE Exits
    BY <1>3 DEF Exits, Alive, ChildInv, TypeOK, WatcherInv, ProcessInv, SlotInv
  <1>4. CASE Proceed
    BY <1>4 DEF Proceed, ChildInv, TypeOK, WatcherInv, ProcessInv, SlotInv
  <1>. QED
    BY <1>1, <1>2, <1>3, <1>4

\* The owner's way up to the join keeps it: whoever joins later has noted why,
\* and has reaped what it will call exited.
LEMMA OwnerBeforeJoinKeepsInv ==
  ASSUME ChildInv,
         Check \/ Spawn \/ Unguarded \/ TryWait \/ Poll \/ Drop \/ StopsWatcher
  PROVE  ChildInv'
  <1>1. CASE Check
    BY <1>1 DEF Check, Finishes, ChildInv, TypeOK, WatcherInv, ProcessInv, SlotInv
  <1>2. CASE Spawn
    BY <1>2 DEF Spawn, ChildInv, TypeOK, WatcherInv, ProcessInv, SlotInv
  <1>3. CASE Unguarded
    BY <1>3 DEF Unguarded, Kill, ChildInv, TypeOK, WatcherInv, ProcessInv, SlotInv
  <1>4. CASE TryWait
    <2>1. TypeOK'
      <3>1. notify' \in BOOLEAN /\ done' \in BOOLEAN /\ failed' \in BOOLEAN
        BY <1>4, Zenon DEF TryWait, Alive, ChildInv, TypeOK
      <3>. QED
        BY <3>1, <1>4, SMT DEF TryWait, Alive, ChildInv, TypeOK
    <2>2. WatcherInv'
      BY <1>4 DEF TryWait, Alive, ChildInv, TypeOK, WatcherInv
    <2>3. ProcessInv'
      BY <1>4 DEF TryWait, Alive, ChildInv, TypeOK, WatcherInv, ProcessInv
    <2>4. SlotInv'
      BY <1>4 DEF TryWait, Alive, ChildInv, TypeOK, WatcherInv, SlotInv
    <2>. QED
      BY <2>1, <2>2, <2>3, <2>4 DEF ChildInv
  <1>5. CASE Poll
    BY <1>5 DEF Poll, ChildInv, TypeOK, WatcherInv, ProcessInv, SlotInv
  <1>6. CASE Drop
    BY <1>6 DEF Drop, ChildInv, TypeOK, WatcherInv, ProcessInv, SlotInv
  <1>7. CASE SetDone
    BY <1>7 DEF SetDone, ChildInv, TypeOK, WatcherInv, ProcessInv, SlotInv
  <1>8. CASE Wake
    BY <1>8 DEF Wake, ChildInv, TypeOK, WatcherInv, ProcessInv, SlotInv
  <1>9. CASE NotifyAll
    BY <1>9 DEF NotifyAll, Woken, ChildInv, TypeOK, WatcherInv, ProcessInv, SlotInv
  <1>10. CASE Join
    BY <1>10 DEF Join, ChildInv, TypeOK, WatcherInv, ProcessInv, SlotInv
  <1>. QED
    BY <1>1, <1>2, <1>3, <1>4, <1>5, <1>6, <1>7, <1>8, <1>9, <1>10 DEF StopsWatcher

\* And the owner's way from the join to its answer: the kill it finds in the
\* slot, or makes itself, is what it reports.
LEMMA OwnerPastJoinKeepsInv ==
  ASSUME ChildInv,
         ReadKilled \/ WaitFailed \/ WaitChild \/ ReapHalted \/ Reap \/ DropKills \/ DropReaps
  PROVE  ChildInv'
  <1>1. CASE ReadKilled
    BY <1>1 DEF ReadKilled, Finishes, Halted, ChildInv, TypeOK, WatcherInv, ProcessInv, SlotInv
  <1>2. CASE WaitFailed
    <2>1. TypeOK'
      <3>1. notify' \in BOOLEAN /\ done' \in BOOLEAN /\ failed' \in BOOLEAN
        BY <1>2, Zenon DEF WaitFailed, Kill, ChildInv, TypeOK
      <3>2. slot' \in [child : BOOLEAN, killed : {"none", "ok", "err"}]
        BY <1>2 DEF WaitFailed, ChildInv, TypeOK
      <3>3. PICK outcome \in {"ok", "err"} : Kill(outcome)
        BY <1>2 DEF WaitFailed
      <3>4. process' \in {"none", "running", "dying", "exited", "reaped"}
        BY <3>3 DEF Kill, ChildInv, TypeOK
      <3>. QED
        BY <3>1, <3>2, <3>4, <1>2, SMT DEF WaitFailed, ChildInv, TypeOK
    <2>2. WatcherInv'
      BY <1>2 DEF WaitFailed, Kill, ChildInv, TypeOK, WatcherInv
    <2>3. ProcessInv'
      BY <1>2 DEF WaitFailed, Kill, ChildInv, TypeOK, WatcherInv, ProcessInv
    <2>4. SlotInv'
      BY <1>2 DEF WaitFailed, Kill, ChildInv, TypeOK, WatcherInv, SlotInv
    <2>. QED
      BY <2>1, <2>2, <2>3, <2>4 DEF ChildInv
  <1>3. CASE WaitChild
    <2>1. TypeOK'
      <3>1. notify' \in BOOLEAN /\ done' \in BOOLEAN /\ failed' \in BOOLEAN
        BY <1>3, Zenon DEF WaitChild, Finishes, ChildInv, TypeOK
      <3>. QED
        BY <3>1, <1>3, SMT DEF WaitChild, Finishes, ChildInv, TypeOK
    <2>2. WatcherInv'
      BY <1>3 DEF WaitChild, Finishes, ChildInv, TypeOK, WatcherInv
    <2>3. ProcessInv'
      BY <1>3 DEF WaitChild, Finishes, ChildInv, TypeOK, WatcherInv, ProcessInv
    <2>4. SlotInv'
      BY <1>3 DEF WaitChild, Finishes, ChildInv, TypeOK, WatcherInv, SlotInv
    <2>. QED
      BY <2>1, <2>2, <2>3, <2>4 DEF ChildInv
  <1>4. CASE ReapHalted
    <2>1. TypeOK'
      <3>1. notify' \in BOOLEAN /\ done' \in BOOLEAN /\ failed' \in BOOLEAN
        BY <1>4, Zenon DEF ReapHalted, Kill, ChildInv, TypeOK
      <3>. QED
        BY <3>1, <1>4, SMT DEF ReapHalted, Kill, ChildInv, TypeOK
    <2>2. WatcherInv'
      BY <1>4 DEF ReapHalted, Kill, ChildInv, TypeOK, WatcherInv
    <2>3. ProcessInv'
      BY <1>4 DEF ReapHalted, Kill, ChildInv, TypeOK, WatcherInv, ProcessInv
    <2>4. SlotInv'
      BY <1>4 DEF ReapHalted, Kill, ChildInv, TypeOK, WatcherInv, SlotInv
    <2>. QED
      BY <2>1, <2>2, <2>3, <2>4 DEF ChildInv
  <1>5. CASE Reap
    BY <1>5 DEF Reap, Finishes, ChildInv, TypeOK, WatcherInv, ProcessInv, SlotInv
  <1>6. CASE DropKills
    <2>1. TypeOK'
      <3>1. notify' \in BOOLEAN /\ done' \in BOOLEAN /\ failed' \in BOOLEAN
        BY <1>6, Zenon DEF DropKills, Kill, ChildInv, TypeOK
      <3>2. slot' \in [child : BOOLEAN, killed : {"none", "ok", "err"}]
        BY <1>6 DEF DropKills, ChildInv, TypeOK
      <3>3. PICK outcome \in {"ok", "err"} : Kill(outcome)
        BY <1>6 DEF DropKills
      <3>4. process' \in {"none", "running", "dying", "exited", "reaped"}
        BY <3>3 DEF Kill, ChildInv, TypeOK
      <3>. QED
        BY <3>1, <3>2, <3>4, <1>6, SMT DEF DropKills, ChildInv, TypeOK
    <2>2. WatcherInv'
      BY <1>6 DEF DropKills, Kill, ChildInv, TypeOK, WatcherInv
    <2>3. ProcessInv'
      BY <1>6 DEF DropKills, Kill, ChildInv, TypeOK, WatcherInv, ProcessInv
    <2>4. SlotInv'
      BY <1>6 DEF DropKills, Kill, ChildInv, TypeOK, WatcherInv, SlotInv
    <2>. QED
      BY <2>1, <2>2, <2>3, <2>4 DEF ChildInv
  <1>7. CASE DropReaps
    BY <1>7 DEF DropReaps, Finishes, ChildInv, TypeOK, WatcherInv, ProcessInv, SlotInv
  <1>. QED
    BY <1>1, <1>2, <1>3, <1>4, <1>5, <1>6, <1>7

\* A step that changes nothing keeps it.
LEMMA StutterKeepsInv == ASSUME ChildInv, UNCHANGED vars PROVE ChildInv'
  BY DEF vars, ChildInv, TypeOK, WatcherInv, ProcessInv, SlotInv

(* In every behaviour of an owner, its watcher and its process, however many *)
(* stops are engaged: when the owner has its answer the watcher is gone, the *)
(* process does not run unless a kill or a wait failed, and a child that the *)
(* watcher killed is not said to have exited (GuardedChild::finish and drop).*)
THEOREM ChildAccounted == Spec => []ChildIsAccountedFor
  <1>1. Init => ChildInv
    BY InitChildInv
  <1>2. ChildInv /\ [Next]_vars => ChildInv'
    BY WatcherKeepsInv, OthersKeepInv, OwnerBeforeJoinKeepsInv, OwnerPastJoinKeepsInv,
       StutterKeepsInv DEF Next, Owner
  <1>3. ChildInv => ChildIsAccountedFor
    BY DEF ChildInv, WatcherInv, ProcessInv, SlotInv, ChildIsAccountedFor,
           NothingLeftRunning, KilledIsNotExited
  <1>. QED
    BY <1>1, <1>2, <1>3, PTL DEF Spec
-----------------------------------------------------------------------------
(***************************************************************************)
(* The consent queue.  Whatever fails, memory and file each hold a sealed   *)
(* book: one that was whole when it was written.  An opening then finds     *)
(* what the index found, or nothing, where the file is torn.                *)
(***************************************************************************)
CONSTANTS Operations, Payloads, Voters, Requester, AutoTier1, Timeout, PolicySets, Torn,
          MaxLive, Segment, LastTime, MaxSets, MaxPolicies, MaxFaults, MaxCrashes
VARIABLES records, index, file, audit, up, tier, allowed, policies, now, answer, credit,
          refused, spent

Ask == INSTANCE ConsentQueue

IsFcn(x) == x = [i \in DOMAIN x |-> x[i]]

\* The book b of requests is sealed, given who approved a fingerprint since it was
\* last used (cr) and what was denied (re): a request is filed under its own
\* fingerprint, a fingerprint has one open request, whose approvals were not yet
\* spent, and what was denied has an open request with the denial.
Filed(b) ==
  \A id \in DOMAIN b : /\ b[id] \in Ask!RecordSet /\ id[2] = b[id].fp
                       /\ b[id].fp[3] # 0 /\ Requester \notin b[id].approvals
OneOpen(b) ==
  \A i, j \in DOMAIN b : ~b[i].executed /\ ~b[j].executed /\ b[i].fp = b[j].fp => i = j
Unspent(b, cr) ==
  \A id \in DOMAIN b : ~b[id].executed => b[id].approvals \subseteq cr[b[id].fp]
DeniedIn(b, f) == \E id \in DOMAIN b : ~b[id].executed /\ b[id].fp = f /\ b[id].denials # {}
Sealed(b, cr, re) ==
  /\ IsFcn(b) /\ Filed(b) /\ OneOpen(b) /\ Unspent(b, cr)
  /\ \A f \in re : DeniedIn(b, f)

\* The index x of the book b finds its open requests and nothing else.
Points(x, b) ==
  /\ IsFcn(x)
  /\ \A f \in DOMAIN x : x[f] \in DOMAIN b /\ b[x[f]].fp = f /\ ~b[x[f]].executed
  /\ \A id \in DOMAIN b : ~b[id].executed =>
       b[id].fp \in DOMAIN x /\ x[b[id].fp] = id

AskShape ==
  /\ up \in BOOLEAN /\ now \in 1..LastTime
  /\ tier \in [Operations -> Ask!Tiers]
  /\ credit \in [Ask!Fingerprints -> SUBSET Voters]
  /\ refused \subseteq Ask!Fingerprints

AskInv ==
  /\ AskShape
  /\ Sealed(records, credit, refused)
  /\ file = Torn \/ Sealed(file, credit, refused)
  /\ up => Points(index, records)
  /\ Ask!CriticalNeedsTwo

LEMMA DropAt ==
  ASSUME NEW x, NEW k
  PROVE  /\ IsFcn(Ask!Drop(x, k))
         /\ DOMAIN Ask!Drop(x, k) = DOMAIN x \ {k}
         /\ \A i \in DOMAIN x : i # k => Ask!Drop(x, k)[i] = x[i]
BY DEF Ask!Drop, IsFcn

\* A new request, filed where no open one of its fingerprint is: if its id came
\* back, what was filed there is used.
LEMMA InsertKeeps ==
  ASSUME NEW b, NEW cr, NEW re, NEW x, Sealed(b, cr, re), Points(x, b),
         NEW id, NEW rec \in Ask!RecordSet, id[2] = rec.fp, rec.fp[3] # 0,
         rec.approvals = {}, rec.fp \notin DOMAIN x, ~rec.executed
  PROVE  /\ Sealed(Ask!Put(b, id, rec), cr, re)
         /\ Points(Ask!Put(x, rec.fp, id), Ask!Put(b, id, rec))
<1> DEFINE c == Ask!Put(b, id, rec)
           y == Ask!Put(x, rec.fp, id)
<1>1. /\ IsFcn(c) /\ DOMAIN c = DOMAIN b \cup {id} /\ c[id] = rec
      /\ \A i \in DOMAIN b : i # id => c[i] = b[i]
  BY DEF Ask!Put, IsFcn
<1>2. /\ IsFcn(y) /\ DOMAIN y = DOMAIN x \cup {rec.fp} /\ y[rec.fp] = id
      /\ \A f \in DOMAIN x : f # rec.fp => y[f] = x[f]
  BY DEF Ask!Put, IsFcn
<1> HIDE DEF c, y
<1>3. /\ Filed(b) /\ OneOpen(b) /\ Unspent(b, cr)
      /\ \A f \in re : DeniedIn(b, f)
  BY DEF Sealed
<1>4. /\ \A f \in DOMAIN x : x[f] \in DOMAIN b /\ b[x[f]].fp = f /\ ~b[x[f]].executed
      /\ \A i \in DOMAIN b : ~b[i].executed => b[i].fp \in DOMAIN x /\ x[b[i].fp] = i
  BY DEF Points
<1>5. \A i \in DOMAIN b : ~b[i].executed => b[i].fp # rec.fp /\ i # id
  BY <1>3, <1>4 DEF Filed
<1>6. Filed(c)
  BY <1>1, <1>3 DEF Filed
<1>7. OneOpen(c)
  BY <1>1, <1>3, <1>5 DEF OneOpen
<1>8. Unspent(c, cr)
  BY <1>1, <1>3 DEF Unspent
<1>9. \A f \in re : DeniedIn(c, f)
  BY <1>1, <1>3, <1>5 DEF DeniedIn
<1>10. Sealed(c, cr, re)
  BY <1>1, <1>6, <1>7, <1>8, <1>9 DEF Sealed
<1>11. Points(y, c)
  <2>1. \A f \in DOMAIN y : y[f] \in DOMAIN c /\ c[y[f]].fp = f /\ ~c[y[f]].executed
    <3>1. SUFFICES ASSUME NEW f \in DOMAIN x, f # rec.fp
                   PROVE  y[f] \in DOMAIN c /\ c[y[f]].fp = f /\ ~c[y[f]].executed
      BY <1>1, <1>2
    <3> QED BY <1>1, <1>2, <1>4, <1>5, <3>1
  <2>2. \A i \in DOMAIN c : ~c[i].executed => c[i].fp \in DOMAIN y /\ y[c[i].fp] = i
    BY <1>1, <1>2, <1>4, <1>5
  <2> QED BY <1>2, <2>1, <2>2 DEF Points
<1> QED BY <1>10, <1>11 DEF c, y

\* The use of a request that nobody denied.
LEMMA UseKeeps ==
  ASSUME NEW b, NEW cr, NEW re, NEW x, Sealed(b, cr, re), Points(x, b),
         NEW f \in DOMAIN x, NEW id, id = x[f], b[id].denials = {},
         cr \in [Ask!Fingerprints -> SUBSET Voters]
  PROVE  /\ Sealed([b EXCEPT ![id].executed = TRUE], cr, re)
         /\ Sealed([b EXCEPT ![id].executed = TRUE], [cr EXCEPT ![f] = {}], re)
         /\ Points(Ask!Drop(x, id[2]), [b EXCEPT ![id].executed = TRUE])
<1> DEFINE rec == [b[id] EXCEPT !.executed = TRUE]
           c == [b EXCEPT ![id] = rec]
           y == Ask!Drop(x, f)
           d == [cr EXCEPT ![f] = {}]
<1>1. /\ Filed(b) /\ OneOpen(b) /\ Unspent(b, cr) /\ IsFcn(b)
      /\ \A g \in re : DeniedIn(b, g)
  BY DEF Sealed
<1>2. /\ \A g \in DOMAIN x : x[g] \in DOMAIN b /\ b[x[g]].fp = g /\ ~b[x[g]].executed
      /\ \A i \in DOMAIN b : ~b[i].executed => b[i].fp \in DOMAIN x /\ x[b[i].fp] = i
  BY DEF Points
<1>3. id \in DOMAIN b /\ b[id].fp = f /\ ~b[id].executed /\ b[id] \in Ask!RecordSet
      /\ id[2] = f
  BY <1>1, <1>2 DEF Filed
<1>4. rec \in Ask!RecordSet /\ rec.fp = f /\ rec.executed /\ rec.approvals = b[id].approvals
  BY <1>3 DEF Ask!RecordSet
<1> HIDE DEF rec
<1>5. /\ IsFcn(c) /\ DOMAIN c = DOMAIN b /\ c[id] = rec
      /\ \A i \in DOMAIN b : i # id => c[i] = b[i]
  BY <1>1, <1>3 DEF IsFcn
<1>6. /\ IsFcn(y) /\ DOMAIN y = DOMAIN x \ {f}
      /\ \A g \in DOMAIN x : g # f => y[g] = x[g]
  BY DropAt
<1>7. \A g \in Ask!Fingerprints : g # f => d[g] = cr[g]
  OBVIOUS
<1> HIDE DEF c, y, d
<1>8. \A i \in DOMAIN b : ~b[i].executed /\ i # id => b[i].fp # f
  BY <1>1, <1>3 DEF OneOpen
<1>9. Filed(c)
  BY <1>1, <1>3, <1>4, <1>5 DEF Filed
<1>10. OneOpen(c)
  BY <1>1, <1>4, <1>5 DEF OneOpen
<1>11. Unspent(c, cr)
  BY <1>1, <1>4, <1>5 DEF Unspent
<1>12. Unspent(c, d)
  <2>1. SUFFICES ASSUME NEW i \in DOMAIN b, ~b[i].executed, i # id
                 PROVE  b[i].approvals \subseteq d[b[i].fp]
    BY <1>4, <1>5 DEF Unspent
  <2>2. b[i].fp # f /\ b[i].fp \in Ask!Fingerprints
    BY <1>1, <1>8, <2>1 DEF Filed, Ask!RecordSet
  <2> QED BY <1>1, <1>7, <2>1, <2>2 DEF Unspent
<1>13. \A g \in re : DeniedIn(c, g)
  <2>1. SUFFICES ASSUME NEW g \in re
                 PROVE  DeniedIn(c, g)
    OBVIOUS
  <2>2. PICK i \in DOMAIN b : ~b[i].executed /\ b[i].fp = g /\ b[i].denials # {}
    BY <1>1 DEF DeniedIn
  <2>3. i # id
    BY <2>2
  <2> QED BY <1>5, <2>2, <2>3 DEF DeniedIn
<1>14. Sealed(c, cr, re) /\ Sealed(c, d, re)
  BY <1>5, <1>9, <1>10, <1>11, <1>12, <1>13 DEF Sealed
<1>15. Points(y, c)
  <2>1. \A g \in DOMAIN y : y[g] \in DOMAIN c /\ c[y[g]].fp = g /\ ~c[y[g]].executed
    <3>1. SUFFICES ASSUME NEW g \in DOMAIN x, g # f
                   PROVE  y[g] \in DOMAIN c /\ c[y[g]].fp = g /\ ~c[y[g]].executed
      BY <1>6
    <3>2. x[g] # id
      BY <1>2, <1>3, <3>1
    <3> QED BY <1>2, <1>5, <1>6, <3>1, <3>2
  <2>2. \A i \in DOMAIN c : ~c[i].executed => c[i].fp \in DOMAIN y /\ y[c[i].fp] = i
    BY <1>2, <1>4, <1>5, <1>6, <1>8
  <2> QED BY <1>6, <2>1, <2>2 DEF Points
<1> QED BY <1>3, <1>14, <1>15 DEF c, y, d, rec

\* A vote that does not touch who may use the request.
LEMMA VoteKeeps ==
  ASSUME NEW b, NEW cr, NEW re, NEW x, Sealed(b, cr, re), Points(x, b),
         NEW id \in DOMAIN b, NEW rec \in Ask!RecordSet, rec.fp = b[id].fp,
         rec.executed = b[id].executed, Requester \notin rec.approvals,
         b[id].denials \subseteq rec.denials,
         ~rec.executed => rec.approvals \subseteq cr[rec.fp]
  PROVE  /\ Sealed([b EXCEPT ![id] = rec], cr, re)
         /\ Points(x, [b EXCEPT ![id] = rec])
<1> DEFINE c == [b EXCEPT ![id] = rec]
<1>1. /\ Filed(b) /\ OneOpen(b) /\ Unspent(b, cr) /\ IsFcn(b)
      /\ \A g \in re : DeniedIn(b, g)
  BY DEF Sealed
<1>2. /\ IsFcn(c) /\ DOMAIN c = DOMAIN b /\ c[id] = rec
      /\ \A i \in DOMAIN b : i # id => c[i] = b[i]
  BY <1>1 DEF IsFcn
<1> HIDE DEF c
<1>3. Filed(c)
  BY <1>1, <1>2 DEF Filed
<1>4. OneOpen(c)
  BY <1>1, <1>2 DEF OneOpen
<1>5. Unspent(c, cr)
  BY <1>1, <1>2 DEF Unspent
<1>6. \A g \in re : DeniedIn(c, g)
  BY <1>1, <1>2 DEF DeniedIn
<1>7. Points(x, c)
  <2>1. /\ \A g \in DOMAIN x : x[g] \in DOMAIN b /\ b[x[g]].fp = g /\ ~b[x[g]].executed
        /\ \A i \in DOMAIN b : ~b[i].executed => b[i].fp \in DOMAIN x /\ x[b[i].fp] = i
        /\ IsFcn(x)
    BY DEF Points
  <2>2. \A g \in DOMAIN x : x[g] \in DOMAIN c /\ c[x[g]].fp = g /\ ~c[x[g]].executed
    BY <1>2, <2>1
  <2>3. \A i \in DOMAIN c : ~c[i].executed => c[i].fp \in DOMAIN x /\ x[c[i].fp] = i
    BY <1>2, <2>1
  <2> QED BY <2>1, <2>2, <2>3 DEF Points
<1> QED BY <1>2, <1>3, <1>4, <1>5, <1>6, <1>7 DEF Sealed, c

\* More approvals to spend leave a book sealed.
LEMMA CreditGrows ==
  ASSUME NEW b, NEW cr, NEW d, NEW re, Sealed(b, cr, re),
         \A f \in Ask!Fingerprints : cr[f] \subseteq d[f]
  PROVE  Sealed(b, d, re)
BY DEF Sealed, Unspent, Filed, Ask!RecordSet

\* The index that an opening builds.
LEMMA IndexedPoints ==
  ASSUME NEW b, NEW cr, NEW re, Sealed(b, cr, re)
  PROVE  Points(Ask!Indexed(b), b)
<1> DEFINE x == Ask!Indexed(b)
<1>1. OneOpen(b)
  BY DEF Sealed
<1>2. IsFcn(x) /\ DOMAIN x = {b[id].fp : id \in Ask!Open(b)}
  BY DEF Ask!Indexed, IsFcn
<1>3. ASSUME NEW f \in DOMAIN x
      PROVE  x[f] \in Ask!Open(b) /\ b[x[f]].fp = f
  <2>1. x[f] = CHOOSE id \in Ask!Open(b) : b[id].fp = f
    BY <1>3 DEF Ask!Indexed
  <2>2. \E id \in Ask!Open(b) : b[id].fp = f
    BY <1>2, <1>3
  <2> QED BY <2>1, <2>2
<1>4. \A f \in DOMAIN x : x[f] \in DOMAIN b /\ b[x[f]].fp = f /\ ~b[x[f]].executed
  BY <1>3 DEF Ask!Open
<1>5. \A id \in DOMAIN b : ~b[id].executed => b[id].fp \in DOMAIN x /\ x[b[id].fp] = id
  <2>1. SUFFICES ASSUME NEW id \in DOMAIN b, ~b[id].executed
                 PROVE  b[id].fp \in DOMAIN x /\ x[b[id].fp] = id
    OBVIOUS
  <2>2. b[id].fp \in DOMAIN x
    BY <1>2, <2>1 DEF Ask!Open
  <2> HIDE DEF x
  <2> QED BY <1>1, <1>4, <2>1, <2>2 DEF OneOpen
<1> QED BY <1>2, <1>4, <1>5 DEF Points

\* Queues are records of four fields, and what is done to them.
IsQueue(q) ==
  q = [records |-> q.records, index |-> q.index, file |-> q.file, audit |-> q.audit]

LEMMA RecordedAt ==
  ASSUME NEW q, IsQueue(q), NEW how \in Ask!Endings
  PROVE  /\ IsQueue(Ask!Recorded(q, how))
         /\ Ask!Recorded(q, how).records = q.records
         /\ Ask!Recorded(q, how).index = q.index
         /\ Ask!Recorded(q, how).file = IF how = "done" THEN q.records
                                        ELSE IF how = "torn" THEN Torn ELSE q.file
<1> DEFINE F == CASE how = "done" -> q.records
                  [] how = "torn" -> Torn
                  [] OTHER -> q.file
           A == IF how = "unaudited" THEN q.audit ELSE Ask!Live(q.audit)
<1>1. F = IF how = "done" THEN q.records ELSE IF how = "torn" THEN Torn ELSE q.file
  BY DEF Ask!Endings
<1>2. Ask!Recorded(q, how) = [q EXCEPT !.audit = A, !.file = F]
  BY DEF Ask!Recorded
<1> HIDE DEF F, A
<1>3. Ask!Recorded(q, how) = [records |-> q.records, index |-> q.index, file |-> F,
                              audit |-> A]
  BY <1>2 DEF IsQueue
<1> QED BY <1>1, <1>3 DEF IsQueue

LEMMA InsertedAt ==
  ASSUME NEW q, IsQueue(q), NEW f
  PROVE  /\ IsQueue(Ask!Inserted(q, f))
         /\ Ask!Inserted(q, f).records = Ask!Put(q.records, <<q.audit + 1, f>>, Ask!Asked(f))
         /\ Ask!Inserted(q, f).index = Ask!Put(q.index, f, <<q.audit + 1, f>>)
         /\ Ask!Inserted(q, f).file = q.file
<1> DEFINE R == Ask!Put(q.records, <<q.audit + 1, f>>, Ask!Asked(f))
           X == Ask!Put(q.index, f, <<q.audit + 1, f>>)
<1>1. Ask!Inserted(q, f) = [q EXCEPT !.records = R, !.index = X]
  BY DEF Ask!Inserted
<1> HIDE DEF R, X
<1>2. Ask!Inserted(q, f) = [records |-> R, index |-> X, file |-> q.file, audit |-> q.audit]
  BY <1>1 DEF IsQueue
<1> QED BY <1>2 DEF IsQueue, R, X

LEMMA UsedAt ==
  ASSUME NEW q, IsQueue(q), NEW id
  PROVE  /\ IsQueue(Ask!Used(q, id))
         /\ Ask!Used(q, id).records = [q.records EXCEPT ![id].executed = TRUE]
         /\ Ask!Used(q, id).index = Ask!Drop(q.index, id[2])
         /\ Ask!Used(q, id).file = q.file
<1> DEFINE R == [q.records EXCEPT ![id].executed = TRUE]
           X == Ask!Drop(q.index, id[2])
<1>1. Ask!Used(q, id) = [q EXCEPT !.records = R, !.index = X]
  BY DEF Ask!Used
<1> HIDE DEF R, X
<1>2. Ask!Used(q, id) = [records |-> R, index |-> X, file |-> q.file, audit |-> q.audit]
  BY <1>1 DEF IsQueue
<1> QED BY <1>2 DEF IsQueue, R, X

\* Where an operation goes: what is critical is queued at Tier3, and what is not
\* queued carries no tier.
LEMMA RouteKnown ==
  ASSUME AskShape, NEW op \in Operations
  PROVE  /\ Ask!Route(op).tier \in Ask!Tiers
         /\ Ask!Route(op).to # "queue" => Ask!Route(op).tier = 0
         /\ op \in Ask!Critical => Ask!Route(op).to = "queue" /\ Ask!Route(op).tier = 3
<1>1. tier[op] \in 0..3
  BY DEF AskShape, Ask!Tiers
<1>2. Ask!Evaluate(op).is \in {"deny", "allow", "require"} /\ Ask!Evaluate(op).tier \in 0..3
  <2> DEFINE denies == {i \in Ask!Matching(op) : policies[i].effect = "deny"}
             allows == Ask!Matching(op) \ denies
             n == policies[Ask!First(allows)].required_approvers
  <2>1. Ask!Evaluate(op) =
          IF denies # {} \/ allows = {} THEN [is |-> "deny", tier |-> 0]
          ELSE CASE n = -1 -> [is |-> "allow", tier |-> 0]
                 [] n \in 0..2 -> [is |-> "require", tier |-> n]
                 [] OTHER -> [is |-> "require", tier |-> 3]
    BY DEF Ask!Evaluate
  <2> HIDE DEF n, denies, allows
  <2> QED BY <2>1
<1>3. CASE op \in Ask!Critical
  BY <1>3 DEF Ask!Route, Ask!Tiers
<1>4. CASE op \notin Ask!Critical /\ policies = <<>>
  BY <1>1, <1>4 DEF Ask!Route, Ask!Tiers
<1>5. CASE op \notin Ask!Critical /\ policies # <<>>
  <2> DEFINE d == Ask!Evaluate(op)
  <2>1. Ask!Route(op) =
          CASE d.is = "deny" -> [to |-> "refuse", tier |-> 0, event |-> FALSE]
            [] d.is = "allow" /\ tier[op] >= 2 ->
                 [to |-> "queue", tier |-> tier[op], event |-> TRUE]
            [] d.is = "allow" /\ tier[op] < 2 ->
                 [to |-> "pass", tier |-> 0, event |-> TRUE]
            [] OTHER -> [to |-> "queue", tier |-> d.tier, event |-> FALSE]
    BY <1>5 DEF Ask!Route
  <2>2. d.is \in {"deny", "allow", "require"} /\ d.tier \in 0..3
    BY <1>2
  <2> HIDE DEF d
  <2>3. CASE d.is = "deny"
    BY <1>5, <2>1, <2>3 DEF Ask!Tiers
  <2>4. CASE d.is = "allow" /\ tier[op] >= 2
    BY <1>1, <1>5, <2>1, <2>4 DEF Ask!Tiers
  <2>5. CASE d.is = "allow" /\ tier[op] < 2
    BY <1>1, <1>5, <2>1, <2>5 DEF Ask!Tiers
  <2>6. CASE d.is = "require"
    BY <1>5, <2>1, <2>2, <2>6 DEF Ask!Tiers
  <2>7. tier[op] >= 2 \/ tier[op] < 2
    BY <1>1
  <2> QED BY <2>2, <2>3, <2>4, <2>5, <2>6, <2>7
<1> QED BY <1>3, <1>4, <1>5

\* What an enforced operation that is queued does: the request is found or made
\* (b, x, g are then the book, its index and the file), and used if approved.
Found(f, b, x, g) ==
  \/ b = records /\ x = index /\ g = file /\ f \in DOMAIN index
  \/ /\ f \notin DOMAIN index
     /\ \E n : /\ b = Ask!Put(records, <<n, f>>, Ask!Asked(f))
               /\ x = Ask!Put(index, f, <<n, f>>)
               /\ g \in {b, file, Torn}

LEMMA ByRequest ==
  ASSUME Ask!ConsentAssumption, NEW op \in Operations, NEW p \in Payloads, NEW at, NEW how \in Ask!Endings,
         at \in {"nowhere", "policy", "request", "use"},
         Ask!EnforceByRequest(op, p, at, how)
  PROVE  LET f == <<op, p, Ask!Route(op).tier>>
         IN  \/ /\ records' = records /\ index' = index /\ file' = file
                /\ credit' = credit /\ answer'.what = "failed"
             \/ \E b, x, g :
                  /\ Found(f, b, x, g)
                  /\ records' = b /\ index' = x /\ file' = g /\ credit' = credit
                  /\ answer'.what \in {"failed", "denied", "approval_required"}
             \/ \E b, x, g :
                  /\ Found(f, b, x, g) /\ g \in {file, b}
                  /\ Ask!ApprovalState(b[x[f]]) = "approved"
                  /\ records' = [b EXCEPT ![x[f]].executed = TRUE]
                  /\ index' = Ask!Drop(x, x[f][2])
                  /\ \/ /\ file' \in {records', g, Torn} /\ credit' = credit
                        /\ answer'.what = "failed"
                     \/ /\ file' = records' /\ credit' = [credit EXCEPT ![f] = {}]
                        /\ answer' = [what |-> "ok", fp |-> f, by |-> b[x[f]].approvals]
<1> DEFINE way == Ask!Route(op)
           f == <<op, p, way.tier>>
           End(where) == IF at = where THEN how ELSE "done"
           q0 == IF way.event /\ End("policy") # "unaudited"
                 THEN [Ask!Queue EXCEPT !.audit = Ask!Live(@)] ELSE Ask!Queue
           fresh == f \notin DOMAIN index
           q1 == IF fresh THEN Ask!Recorded(Ask!Inserted(q0, f), End("request")) ELSE q0
           id == q1.index[f]
           state == Ask!ApprovalState(q1.records[id])
           q2 == Ask!Recorded(Ask!Used(q1, id), how)
<1>1. \/ at = "policy" /\ Ask!QueueBecomes(q0) /\ Ask!Answers("failed", f, {})
         /\ credit' = credit
      \/ at = "request" /\ fresh /\ Ask!QueueBecomes(q1) /\ Ask!Answers("failed", f, {})
         /\ credit' = credit
      \/ /\ at \in {"use", "nowhere"} /\ state = "approved" /\ Ask!QueueBecomes(q2)
         /\ \/ at = "use" /\ Ask!Answers("failed", f, {}) /\ credit' = credit
            \/ at = "nowhere" /\ Ask!Answers("ok", f, q1.records[id].approvals)
               /\ credit' = [credit EXCEPT ![f] = {}]
      \/ /\ at = "nowhere" /\ state # "approved" /\ Ask!QueueBecomes(q1)
         /\ \E w \in {"denied", "approval_required"} : Ask!Answers(w, f, {})
         /\ credit' = credit
  BY DEF Ask!EnforceByRequest
<1>2. at = "nowhere" => how = "done"
  BY DEF Ask!EnforceByRequest, Ask!Fault
<1>3. IsQueue(q0) /\ q0.records = records /\ q0.index = index /\ q0.file = file
  BY DEF Ask!Queue, IsQueue
<1> HIDE DEF q0
<1>4. /\ IsQueue(q1) /\ Found(f, q1.records, q1.index, q1.file)
      /\ at # "request" => q1.file \in {file, q1.records}
  <2>1. CASE ~fresh
    BY <1>3, <2>1 DEF Found
  <2>2. CASE fresh
    <3> DEFINE i == Ask!Inserted(q0, f)
    <3>1. /\ IsQueue(i) /\ i.file = file
          /\ i.records = Ask!Put(records, <<q0.audit + 1, f>>, Ask!Asked(f))
          /\ i.index = Ask!Put(index, f, <<q0.audit + 1, f>>)
      BY <1>3, InsertedAt
    <3> HIDE DEF i
    <3>2. End("request") \in Ask!Endings /\ (at # "request" => End("request") = "done")
      BY DEF Ask!Endings
    <3> HIDE DEF End
    <3>3. q1 = Ask!Recorded(i, End("request"))
      BY <2>2 DEF i
    <3>4. /\ IsQueue(q1) /\ q1.records = i.records /\ q1.index = i.index
          /\ q1.file = IF End("request") = "done" THEN i.records
                       ELSE IF End("request") = "torn" THEN Torn ELSE i.file
      BY <3>1, <3>2, <3>3, RecordedAt
    <3> HIDE DEF q1, fresh
    <3>5. q1.file \in {q1.records, file, Torn} /\ (at # "request" => q1.file = q1.records)
      BY <3>1, <3>2, <3>4
    <3> QED BY <2>2, <3>1, <3>4, <3>5 DEF Found, fresh
  <2> QED BY <2>1, <2>2
<1> HIDE DEF q1
<1>5. /\ q2.records = [q1.records EXCEPT ![id].executed = TRUE]
      /\ q2.index = Ask!Drop(q1.index, id[2])
      /\ q2.file = IF how = "done" THEN q2.records ELSE IF how = "torn" THEN Torn ELSE q1.file
  <2>1. /\ IsQueue(Ask!Used(q1, id))
        /\ Ask!Used(q1, id).records = [q1.records EXCEPT ![id].executed = TRUE]
        /\ Ask!Used(q1, id).index = Ask!Drop(q1.index, id[2])
        /\ Ask!Used(q1, id).file = q1.file
    BY <1>4, UsedAt
  <2> QED BY <2>1, RecordedAt
<1> HIDE DEF q2
<1>6. CASE at = "policy" /\ Ask!QueueBecomes(q0) /\ Ask!Answers("failed", f, {})
           /\ credit' = credit
  <2>1. records' = records /\ index' = index /\ file' = file /\ answer'.what = "failed"
    BY <1>3, <1>6 DEF Ask!QueueBecomes, Ask!Answers
  <2> QED BY <1>6, <2>1
<1>7. ASSUME Ask!QueueBecomes(q1), credit' = credit,
             NEW w \in {"failed", "denied", "approval_required"}, Ask!Answers(w, f, {})
      PROVE  \E b, x, g :
                  /\ Found(f, b, x, g)
                  /\ records' = b /\ index' = x /\ file' = g /\ credit' = credit
                  /\ answer'.what \in {"failed", "denied", "approval_required"}
  <2>1. /\ records' = q1.records /\ index' = q1.index /\ file' = q1.file
        /\ answer'.what \in {"failed", "denied", "approval_required"}
    BY <1>7 DEF Ask!QueueBecomes, Ask!Answers
  <2> QED BY <1>4, <1>7, <2>1
<1>8. ASSUME at \in {"use", "nowhere"}, state = "approved", Ask!QueueBecomes(q2),
             \/ at = "use" /\ Ask!Answers("failed", f, {}) /\ credit' = credit
             \/ at = "nowhere" /\ Ask!Answers("ok", f, q1.records[id].approvals)
                /\ credit' = [credit EXCEPT ![f] = {}]
      PROVE  \E b, x, g :
                  /\ Found(f, b, x, g) /\ g \in {file, b}
                  /\ Ask!ApprovalState(b[x[f]]) = "approved"
                  /\ records' = [b EXCEPT ![x[f]].executed = TRUE]
                  /\ index' = Ask!Drop(x, x[f][2])
                  /\ \/ /\ file' \in {records', g, Torn} /\ credit' = credit
                        /\ answer'.what = "failed"
                     \/ /\ file' = records' /\ credit' = [credit EXCEPT ![f] = {}]
                        /\ answer' = [what |-> "ok", fp |-> f, by |-> b[x[f]].approvals]
  <2>1. records' = q2.records /\ index' = q2.index /\ file' = q2.file
    BY <1>8 DEF Ask!QueueBecomes
  <2>2. /\ Found(f, q1.records, q1.index, q1.file) /\ q1.file \in {file, q1.records}
        /\ Ask!ApprovalState(q1.records[q1.index[f]]) = "approved"
    BY <1>4, <1>8
  <2>3. /\ records' = [q1.records EXCEPT ![q1.index[f]].executed = TRUE]
        /\ index' = Ask!Drop(q1.index, q1.index[f][2])
    BY <1>5, <2>1
  <2>4. file' \in {records', q1.file, Torn} /\ (how = "done" => file' = records')
    BY <1>5, <2>1
  <2>5. \/ credit' = credit /\ answer'.what = "failed"
        \/ /\ file' = records' /\ credit' = [credit EXCEPT ![f] = {}]
           /\ answer' = [what |-> "ok", fp |-> f, by |-> q1.records[q1.index[f]].approvals]
    BY <1>2, <1>8, <2>4 DEF Ask!Answers
  <2> HIDE DEF f
  <2> QED BY <2>2, <2>3, <2>4, <2>5
<1> HIDE DEF f, state, id, fresh
<1>9. QED
  <2>1. CASE at = "request" /\ Ask!QueueBecomes(q1) /\ Ask!Answers("failed", f, {})
             /\ credit' = credit
    BY <1>7, <2>1 DEF f
  <2>2. CASE /\ at = "nowhere" /\ Ask!QueueBecomes(q1)
             /\ \E w \in {"denied", "approval_required"} : Ask!Answers(w, f, {})
             /\ credit' = credit
    BY <1>7, <2>2 DEF f
  <2>3. CASE /\ at \in {"use", "nowhere"} /\ state = "approved" /\ Ask!QueueBecomes(q2)
             /\ \/ at = "use" /\ Ask!Answers("failed", f, {}) /\ credit' = credit
                \/ at = "nowhere" /\ Ask!Answers("ok", f, q1.records[id].approvals)
                   /\ credit' = [credit EXCEPT ![f] = {}]
    BY <1>8, <2>3 DEF f
  <2> QED BY <1>1, <1>6, <2>1, <2>2, <2>3

LEMMA FoundKeeps ==
  ASSUME AskInv, up, NEW f \in Ask!Fingerprints, f[3] # 0, NEW b, NEW x, NEW g,
         Found(f, b, x, g)
  PROVE  /\ Sealed(b, credit, refused) /\ Points(x, b) /\ f \in DOMAIN x
         /\ g = Torn \/ Sealed(g, credit, refused)
         /\ b[x[f]].fp = f /\ b[x[f]].approvals \subseteq credit[f]
         /\ Requester \notin b[x[f]].approvals
         /\ f \in refused => b[x[f]].denials # {}
<1>1. /\ AskShape /\ Sealed(records, credit, refused) /\ Points(index, records)
      /\ file = Torn \/ Sealed(file, credit, refused)
  BY DEF AskInv
<1>2. /\ Sealed(b, credit, refused) /\ Points(x, b) /\ f \in DOMAIN x
      /\ g = Torn \/ Sealed(g, credit, refused)
  <2>1. CASE b = records /\ x = index /\ g = file /\ f \in DOMAIN index
    BY <1>1, <2>1
  <2>2. ASSUME f \notin DOMAIN index, NEW n,
               b = Ask!Put(records, <<n, f>>, Ask!Asked(f)),
               x = Ask!Put(index, f, <<n, f>>), g \in {b, file, Torn}
        PROVE  /\ Sealed(b, credit, refused) /\ Points(x, b) /\ f \in DOMAIN x
               /\ g = Torn \/ Sealed(g, credit, refused)
    <3> DEFINE rec == Ask!Asked(f)
               id == <<n, f>>
    <3>1. /\ rec \in Ask!RecordSet /\ rec.fp = f /\ rec.approvals = {} /\ ~rec.executed
          /\ id[2] = f
      BY <1>1 DEF Ask!Asked, Ask!RecordSet, AskShape
    <3>2. f \in DOMAIN x
      BY <2>2 DEF Ask!Put
    <3>3. b = Ask!Put(records, id, rec) /\ x = Ask!Put(index, rec.fp, id)
      BY <2>2, <3>1
    <3> HIDE DEF rec, id
    <3>4. Sealed(Ask!Put(records, id, rec), credit, refused)
          /\ Points(Ask!Put(index, rec.fp, id), Ask!Put(records, id, rec))
      BY <1>1, <2>2, <3>1, InsertKeeps
    <3> QED BY <1>1, <2>2, <3>2, <3>3, <3>4
  <2> QED BY <2>1, <2>2 DEF Found
<1>3. x[f] \in DOMAIN b /\ b[x[f]].fp = f /\ ~b[x[f]].executed
  BY <1>2 DEF Points
<1>4. b[x[f]].approvals \subseteq credit[f] /\ Requester \notin b[x[f]].approvals
  BY <1>2, <1>3 DEF Sealed, Unspent, Filed
<1>5. f \in refused => b[x[f]].denials # {}
  BY <1>2, <1>3 DEF Sealed, DeniedIn, OneOpen
<1> QED BY <1>2, <1>3, <1>4, <1>5

\* A request is approved when nobody denied it and enough approved it.
LEMMA ApprovedKnown ==
  ASSUME NEW rec, Ask!ApprovalState(rec) = "approved"
  PROVE  /\ rec.denials = {}
         /\ rec.fp[3] = 3 => Ask!Cardinality(rec.approvals) >= 2
BY DEF Ask!ApprovalState, Ask!approvals_required

LEMMA ByRequestStep ==
  ASSUME Ask!ConsentAssumption, AskInv, NEW op \in Operations, NEW p \in Payloads, NEW at,
         NEW how \in Ask!Endings, at \in {"nowhere", "policy", "request", "use"},
         Ask!EnforceByRequest(op, p, at, how)
  PROVE  AskInv' /\ Ask!AnswersAreSpent
<1> DEFINE f == <<op, p, Ask!Route(op).tier>>
<1>1. /\ AskShape /\ Sealed(records, credit, refused) /\ Points(index, records)
      /\ file = Torn \/ Sealed(file, credit, refused)
      /\ credit \in [Ask!Fingerprints -> SUBSET Voters] /\ up
  BY DEF AskInv, AskShape, Ask!EnforceByRequest
<1>2. /\ Ask!Route(op).tier > 0 /\ up' = up /\ tier' = tier /\ now' = now
      /\ refused' = refused
  BY DEF Ask!EnforceByRequest
<1>3. f \in Ask!Fingerprints /\ f[3] # 0 /\ f[1] = op
      /\ (op \in Ask!Critical => f[3] = 3)
  <2>1. Ask!Route(op).tier \in Ask!Tiers
        /\ (op \in Ask!Critical => Ask!Route(op).tier = 3)
    BY <1>1, RouteKnown
  <2> QED BY <1>2, <2>1 DEF Ask!Fingerprints
<1> HIDE DEF f
<1>4. ASSUME Sealed(records', credit', refused), Points(index', records'),
             file' = Torn \/ Sealed(file', credit', refused),
             credit' \in [Ask!Fingerprints -> SUBSET Voters], Ask!CriticalNeedsTwo'
      PROVE  AskInv'
  <2>1. AskShape'
    BY <1>1, <1>2, <1>4 DEF AskShape, Ask!Tiers, Ask!Fingerprints
  <2>2. Sealed(records', credit', refused') /\ (file' = Torn \/ Sealed(file', credit', refused'))
    BY <1>2, <1>4
  <2> QED BY <1>4, <2>1, <2>2
          DEF AskInv, Sealed, Points, Filed, OneOpen, Unspent, DeniedIn, IsFcn, Ask!RecordSet,
              Ask!Fingerprints, Ask!Tiers
<1>5. ASSUME answer'.what \in {"failed", "denied", "approval_required"}
      PROVE  Ask!CriticalNeedsTwo' /\ Ask!AnswersAreSpent
  BY <1>5 DEF Ask!CriticalNeedsTwo, Ask!AnswersAreSpent, Ask!ApprovalsPayOnce,
              Ask!DenialIsFinal
<1>6. CASE /\ records' = records /\ index' = index /\ file' = file
           /\ credit' = credit /\ answer'.what = "failed"
  BY <1>1, <1>4, <1>5, <1>6
<1>7. ASSUME NEW b, NEW x, NEW g, Found(f, b, x, g), records' = b, index' = x, file' = g,
             credit' = credit, answer'.what \in {"failed", "denied", "approval_required"}
      PROVE  AskInv' /\ Ask!AnswersAreSpent
  <2>1. /\ Sealed(b, credit, refused) /\ Points(x, b)
        /\ g = Torn \/ Sealed(g, credit, refused)
    BY <1>1, <1>3, <1>7, FoundKeeps
  <2> QED BY <1>1, <1>4, <1>5, <1>7, <2>1
<1>8. ASSUME NEW b, NEW x, NEW g, Found(f, b, x, g), g \in {file, b},
             Ask!ApprovalState(b[x[f]]) = "approved",
             records' = [b EXCEPT ![x[f]].executed = TRUE],
             index' = Ask!Drop(x, x[f][2]),
             \/ /\ file' \in {records', g, Torn} /\ credit' = credit
                /\ answer'.what = "failed"
             \/ /\ file' = records' /\ credit' = [credit EXCEPT ![f] = {}]
                /\ answer' = [what |-> "ok", fp |-> f, by |-> b[x[f]].approvals]
      PROVE  AskInv' /\ Ask!AnswersAreSpent
  <2>1. /\ Sealed(b, credit, refused) /\ Points(x, b) /\ f \in DOMAIN x
        /\ g = Torn \/ Sealed(g, credit, refused)
        /\ b[x[f]].fp = f /\ b[x[f]].approvals \subseteq credit[f]
        /\ Requester \notin b[x[f]].approvals
        /\ f \in refused => b[x[f]].denials # {}
    BY <1>1, <1>3, <1>8, FoundKeeps
  <2>2. /\ b[x[f]].denials = {}
        /\ f[3] = 3 => Ask!Cardinality(b[x[f]].approvals) >= 2
    BY <1>8, <2>1, ApprovedKnown
  <2>3. /\ Sealed(records', credit, refused)
        /\ Sealed(records', [credit EXCEPT ![f] = {}], refused)
        /\ Points(index', records')
    BY <1>1, <1>8, <2>1, <2>2, UseKeeps
  <2>4. CASE /\ file' \in {records', g, Torn} /\ credit' = credit
             /\ answer'.what = "failed"
    BY <1>1, <1>4, <1>5, <2>1, <2>3, <2>4
  <2>5. CASE /\ file' = records' /\ credit' = [credit EXCEPT ![f] = {}]
             /\ answer' = [what |-> "ok", fp |-> f, by |-> b[x[f]].approvals]
    <3>1. credit' \in [Ask!Fingerprints -> SUBSET Voters]
      BY <1>1, <2>5
    <3>2. Ask!CriticalNeedsTwo'
      <4>1. b[x[f]].approvals \ {Requester} = b[x[f]].approvals
        BY <2>1
      <4>2. answer'.fp = f /\ answer'.by = b[x[f]].approvals
        BY <2>5
      <4>3. op \in Ask!Critical => Ask!Cardinality(b[x[f]].approvals \ {Requester}) >= 2
        BY <1>3, <2>2, <4>1
      <4> QED BY <1>3, <4>2, <4>3 DEF Ask!CriticalNeedsTwo, Ask!Critical
    <3>3. Ask!AnswersAreSpent
      BY <2>1, <2>2, <2>5 DEF Ask!AnswersAreSpent, Ask!ApprovalsPayOnce, Ask!DenialIsFinal
    <3> QED BY <1>4, <2>3, <2>5, <3>1, <3>2, <3>3
  <2> QED BY <1>8, <2>4, <2>5
<1>9. QED
  <2>1. \/ /\ records' = records /\ index' = index /\ file' = file
           /\ credit' = credit /\ answer'.what = "failed"
        \/ \E b, x, g :
             /\ Found(f, b, x, g)
             /\ records' = b /\ index' = x /\ file' = g /\ credit' = credit
             /\ answer'.what \in {"failed", "denied", "approval_required"}
        \/ \E b, x, g :
             /\ Found(f, b, x, g) /\ g \in {file, b}
             /\ Ask!ApprovalState(b[x[f]]) = "approved"
             /\ records' = [b EXCEPT ![x[f]].executed = TRUE]
             /\ index' = Ask!Drop(x, x[f][2])
             /\ \/ /\ file' \in {records', g, Torn} /\ credit' = credit
                   /\ answer'.what = "failed"
                \/ /\ file' = records' /\ credit' = [credit EXCEPT ![f] = {}]
                   /\ answer' = [what |-> "ok", fp |-> f, by |-> b[x[f]].approvals]
    BY ByRequest DEF f
  <2> QED BY <1>6, <1>7, <1>8, <2>1

LEMMA WithoutRequestStep ==
  ASSUME Ask!ConsentAssumption, AskInv, NEW op \in Operations, NEW p \in Payloads,
         NEW at, NEW how, Ask!EnforceWithoutRequest(op, p, at, how)
  PROVE  AskInv' /\ Ask!AnswersAreSpent
<1> DEFINE f == <<op, p, Ask!Route(op).tier>>
<1>1. /\ AskShape /\ Sealed(records, credit, refused)
  BY DEF AskInv
<1>2. /\ records' = records /\ index' = index /\ file' = file /\ up' = up /\ tier' = tier
      /\ now' = now /\ credit' = credit /\ refused' = refused
      /\ Ask!Route(op).to # "queue" \/ Ask!Route(op).tier = 0
  BY DEF Ask!EnforceWithoutRequest
<1>3. Ask!Route(op).tier = 0 /\ op \notin Ask!Critical
  BY <1>1, <1>2, RouteKnown
<1>4. answer'.fp = f /\ answer'.by = {}
  BY DEF Ask!EnforceWithoutRequest, Ask!Answers
<1>5. f \notin refused
  <2>1. f[3] = 0
    BY <1>3
  <2> HIDE DEF f
  <2> QED BY <1>1, <2>1 DEF Sealed, DeniedIn, Filed
<1>6. f[1] = op
  OBVIOUS
<1> HIDE DEF f
<1>7. Ask!AnswersAreSpent
  BY <1>4, <1>5 DEF Ask!AnswersAreSpent, Ask!ApprovalsPayOnce, Ask!DenialIsFinal
<1>8. Ask!CriticalNeedsTwo'
  BY <1>3, <1>4, <1>6 DEF Ask!CriticalNeedsTwo, Ask!Critical
<1>9. AskInv'
  BY <1>2, <1>8 DEF AskInv, AskShape, Sealed, Points, Filed, OneOpen, Unspent, DeniedIn,
                    IsFcn, Ask!RecordSet, Ask!Fingerprints, Ask!Tiers
<1> QED BY <1>7, <1>9

\* The parts of the next state, from the books alone.
LEMMA AskFrom ==
  ASSUME AskShape', Sealed(records', credit', refused'),
         file' = Torn \/ Sealed(file', credit', refused'),
         up' => Points(index', records'), Ask!CriticalNeedsTwo'
  PROVE  AskInv'
BY DEF AskInv, Sealed, Points, Filed, OneOpen, Unspent, DeniedIn, IsFcn, Ask!RecordSet,
       Ask!Fingerprints, Ask!Tiers

LEMMA VotedAt ==
  ASSUME NEW id, NEW rec, NEW how \in Ask!Endings, NEW R,
         R = [records EXCEPT ![id] = rec],
         Ask!QueueBecomes(Ask!Recorded([Ask!Queue EXCEPT !.records = R], how))
  PROVE  /\ records' = R /\ index' = index
         /\ file' \in {R, file, Torn} /\ (how = "done" => file' = R)
<1> DEFINE q == [Ask!Queue EXCEPT !.records = R]
<1>1. IsQueue(q) /\ q.records = R /\ q.index = index /\ q.file = file
  BY DEF Ask!Queue, IsQueue
<1> HIDE DEF q
<1>2. /\ Ask!Recorded(q, how).records = R /\ Ask!Recorded(q, how).index = index
      /\ Ask!Recorded(q, how).file = IF how = "done" THEN R
                                     ELSE IF how = "torn" THEN Torn ELSE file
  BY <1>1, RecordedAt
<1>3. Ask!QueueBecomes(Ask!Recorded(q, how))
  BY DEF q
<1> QED BY <1>2, <1>3 DEF Ask!QueueBecomes

LEMMA ApproveStep ==
  ASSUME AskInv, NEW id \in DOMAIN records, NEW v \in Voters, NEW how \in Ask!Endings,
         Ask!Approve(id, v, how)
  PROVE  AskInv' /\ Ask!AnswersAreSpent
<1> DEFINE old == records[id]
           rec == [old EXCEPT !.approvals = old.approvals \cup {v}]
           R == [records EXCEPT ![id] = rec]
<1>1. /\ AskShape /\ Sealed(records, credit, refused) /\ Points(index, records) /\ up
      /\ file = Torn \/ Sealed(file, credit, refused)
      /\ credit \in [Ask!Fingerprints -> SUBSET Voters]
  BY DEF AskInv, AskShape, Ask!Approve
<1>2. old \in Ask!RecordSet /\ Requester \notin old.approvals /\ old.fp \in Ask!Fingerprints
  BY <1>1 DEF Sealed, Filed, Ask!RecordSet
<1>3. /\ rec \in Ask!RecordSet /\ rec.fp = old.fp /\ rec.executed = old.executed
      /\ rec.approvals = old.approvals \cup {v} /\ rec.denials = old.denials
  <2> HIDE DEF old
  <2> QED BY <1>2 DEF Ask!RecordSet
<1>4. /\ v # Requester /\ up' = up /\ tier' = tier /\ now' = now /\ refused' = refused
      /\ credit' = IF old.executed THEN credit
                   ELSE [credit EXCEPT ![old.fp] = @ \cup {v}]
      /\ answer'.what \in {"voted", "failed"}
  BY DEF Ask!Approve, Ask!MayVote, Ask!Answers
<1>5. Ask!QueueBecomes(Ask!Recorded([Ask!Queue EXCEPT !.records = R], how))
  <2>1. Ask!QueueBecomes(Ask!Recorded(
          [Ask!Queue EXCEPT !.records[id].approvals = @ \cup {v}], how))
    BY DEF Ask!Approve
  <2>2. [Ask!Queue EXCEPT !.records[id].approvals = @ \cup {v}]
          = [Ask!Queue EXCEPT !.records = R]
    BY DEF Ask!Queue
  <2> QED BY <2>1, <2>2
<1> HIDE DEF rec, R
<1>6. R = [records EXCEPT ![id] = rec]
  BY DEF R
<1>7. records' = R /\ index' = index /\ file' \in {R, file, Torn}
  BY <1>5, <1>6, VotedAt
<1>8. /\ credit' \in [Ask!Fingerprints -> SUBSET Voters]
      /\ \A f \in Ask!Fingerprints : credit[f] \subseteq credit'[f]
      /\ ~old.executed => v \in credit'[old.fp]
  <2>1. CASE old.executed
    BY <1>1, <1>4, <2>1
  <2>2. CASE ~old.executed
    <3>1. credit' = [credit EXCEPT ![old.fp] = credit[old.fp] \cup {v}]
      BY <1>4, <2>2
    <3> HIDE DEF old
    <3> QED BY <1>1, <1>2, <3>1
  <2> QED BY <2>1, <2>2
<1>9. Sealed(records, credit', refused) /\ (file = Torn \/ Sealed(file, credit', refused))
  BY <1>1, <1>8, CreditGrows
<1>10. ~rec.executed => rec.approvals \subseteq credit'[rec.fp]
  <2>1. ~old.executed => old.approvals \subseteq credit[old.fp]
    BY <1>1 DEF Sealed, Unspent
  <2> QED BY <1>2, <1>3, <1>8, <2>1
<1>11. Sealed(R, credit', refused) /\ Points(index, R)
  <2>1. Requester \notin rec.approvals /\ rec.fp = records[id].fp
        /\ rec.executed = records[id].executed /\ records[id].denials \subseteq rec.denials
    BY <1>2, <1>3, <1>4
  <2> QED BY <1>1, <1>3, <1>6, <1>9, <1>10, <2>1, VoteKeeps
<1>12. AskShape'
  BY <1>1, <1>4, <1>8 DEF AskShape, Ask!Tiers, Ask!Fingerprints
<1>13. Ask!CriticalNeedsTwo' /\ Ask!AnswersAreSpent
  BY <1>4 DEF Ask!CriticalNeedsTwo, Ask!AnswersAreSpent, Ask!ApprovalsPayOnce,
              Ask!DenialIsFinal
<1>14. Sealed(records', credit', refused')
       /\ (file' = Torn \/ Sealed(file', credit', refused')) /\ Points(index', records')
  BY <1>4, <1>7, <1>9, <1>11
<1> QED BY <1>12, <1>13, <1>14, AskFrom

LEMMA DenyStep ==
  ASSUME AskInv, NEW id \in DOMAIN records, NEW v \in Voters, NEW how \in Ask!Endings,
         Ask!Deny(id, v, how)
  PROVE  AskInv' /\ Ask!AnswersAreSpent
<1> DEFINE old == records[id]
           rec == [old EXCEPT !.denials = old.denials \cup {v}]
           R == [records EXCEPT ![id] = rec]
<1>1. /\ AskShape /\ Sealed(records, credit, refused) /\ Points(index, records) /\ up
      /\ file = Torn \/ Sealed(file, credit, refused)
  BY DEF AskInv, AskShape, Ask!Deny
<1>2. /\ old \in Ask!RecordSet /\ Requester \notin old.approvals
      /\ old.fp \in Ask!Fingerprints
      /\ ~old.executed => old.approvals \subseteq credit[old.fp]
  BY <1>1 DEF Sealed, Filed, Unspent, Ask!RecordSet
<1>3. /\ rec \in Ask!RecordSet /\ rec.fp = old.fp /\ rec.executed = old.executed
      /\ rec.approvals = old.approvals /\ rec.denials = old.denials \cup {v}
  <2> HIDE DEF old
  <2> QED BY <1>2 DEF Ask!RecordSet
<1>4. /\ up' = up /\ tier' = tier /\ now' = now /\ credit' = credit
      /\ \/ refused' = refused
         \/ how = "done" /\ ~old.executed /\ refused' = refused \cup {old.fp}
      /\ answer'.what \in {"voted", "failed"}
  BY DEF Ask!Deny, Ask!Answers
<1>5. Ask!QueueBecomes(Ask!Recorded([Ask!Queue EXCEPT !.records = R], how))
  <2>1. Ask!QueueBecomes(Ask!Recorded(
          [Ask!Queue EXCEPT !.records[id].denials = @ \cup {v}], how))
    BY DEF Ask!Deny
  <2>2. [Ask!Queue EXCEPT !.records[id].denials = @ \cup {v}]
          = [Ask!Queue EXCEPT !.records = R]
    BY DEF Ask!Queue
  <2> QED BY <2>1, <2>2
<1> HIDE DEF rec, R
<1>6. R = [records EXCEPT ![id] = rec]
  BY DEF R
<1>7. /\ records' = R /\ index' = index /\ file' \in {R, file, Torn}
      /\ how = "done" => file' = R
  BY <1>5, <1>6, VotedAt
<1>8. Sealed(R, credit, refused) /\ Points(index, R)
  <2>1. /\ Requester \notin rec.approvals /\ rec.fp = records[id].fp
        /\ rec.executed = records[id].executed /\ records[id].denials \subseteq rec.denials
        /\ ~rec.executed => rec.approvals \subseteq credit[rec.fp]
    BY <1>2, <1>3
  <2> QED BY <1>1, <1>3, <1>6, <2>1, VoteKeeps
<1>9. ~old.executed => DeniedIn(R, old.fp)
  <2>1. id \in DOMAIN R /\ R[id] = rec
    <3>1. IsFcn(records)
      BY <1>1 DEF Sealed
    <3> QED BY <1>6, <3>1 DEF IsFcn
  <2> QED BY <1>3, <2>1 DEF DeniedIn
<1>10. Sealed(records', credit', refused')
       /\ (file' = Torn \/ Sealed(file', credit', refused')) /\ Points(index', records')
  <2>1. CASE refused' = refused
    BY <1>1, <1>4, <1>7, <1>8, <2>1
  <2>2. CASE how = "done" /\ ~old.executed /\ refused' = refused \cup {old.fp}
    <3>1. Sealed(R, credit, refused')
      BY <1>8, <1>9, <2>2 DEF Sealed
    <3> QED BY <1>4, <1>7, <1>8, <2>2, <3>1
  <2> QED BY <1>4, <2>1, <2>2
<1>11. AskShape'
  BY <1>1, <1>2, <1>4 DEF AskShape, Ask!Tiers, Ask!Fingerprints
<1>12. Ask!CriticalNeedsTwo' /\ Ask!AnswersAreSpent
  BY <1>4 DEF Ask!CriticalNeedsTwo, Ask!AnswersAreSpent, Ask!ApprovalsPayOnce,
              Ask!DenialIsFinal
<1> QED BY <1>10, <1>11, <1>12, AskFrom

\* Policies, time, and the process: nothing is asked or answered.
LEMMA UnansweredStep ==
  ASSUME AskInv,
         \/ \E op \in Operations, t \in Ask!Tiers, who \in SUBSET Voters :
              Ask!SetPolicy(op, t, who)
         \/ \E t \in 1..LastTime : Ask!ClockMoves(t)
         \/ \E f \in {file, Torn} : Ask!Crash(f)
         \/ Ask!Restart
         \/ UNCHANGED Ask!vars
  PROVE  AskInv' /\ Ask!AnswersAreSpent
<1>1. answer' = answer /\ credit' = credit /\ refused' = refused
  BY DEF Ask!SetPolicy, Ask!ClockMoves, Ask!Crash, Ask!Restart, Ask!vars
<1>2. Ask!CriticalNeedsTwo' /\ Ask!AnswersAreSpent
  BY <1>1 DEF AskInv, Ask!CriticalNeedsTwo, Ask!AnswersAreSpent, Ask!ApprovalsPayOnce,
              Ask!DenialIsFinal, Ask!Critical
<1>3. /\ AskShape /\ Sealed(records, credit, refused) /\ (up => Points(index, records))
      /\ file = Torn \/ Sealed(file, credit, refused)
  BY DEF AskInv
<1>4. AskShape'
  BY <1>1, <1>3 DEF AskShape, Ask!SetPolicy, Ask!ClockMoves, Ask!Crash, Ask!Restart,
                    Ask!vars, Ask!Tiers, Ask!Fingerprints
<1>5. CASE Ask!Restart
  <2>1. /\ file # Torn /\ records' = file /\ index' = Ask!Indexed(file) /\ file' = file
    BY <1>5 DEF Ask!Restart
  <2>2. Points(Ask!Indexed(file), file)
    BY <1>3, <2>1, IndexedPoints
  <2> QED BY <1>1, <1>2, <1>3, <1>4, <2>1, <2>2, AskFrom
<1>6. ASSUME records' = records, index' = index, up' => up, file' \in {file, Torn}
      PROVE  AskInv'
  BY <1>1, <1>2, <1>3, <1>4, <1>6, AskFrom
<1>7. Ask!Restart \/ (records' = records /\ index' = index /\ (up' => up)
                      /\ file' \in {file, Torn})
  BY DEF Ask!SetPolicy, Ask!ClockMoves, Ask!Crash, Ask!vars
<1> QED BY <1>2, <1>5, <1>6, <1>7

LEMMA AskNext ==
  ASSUME Ask!ConsentAssumption, AskInv, [Ask!Next]_(Ask!vars)
  PROVE  AskInv' /\ Ask!AnswersAreSpent
<1>1. ASSUME NEW op \in Operations, NEW p \in Payloads, NEW how \in Ask!Endings,
             NEW at \in {"nowhere", "policy"}, Ask!EnforceWithoutRequest(op, p, at, how)
      PROVE  AskInv' /\ Ask!AnswersAreSpent
  BY <1>1, WithoutRequestStep
<1>2. ASSUME NEW op \in Operations, NEW p \in Payloads, NEW how \in Ask!Endings,
             NEW at \in {"nowhere", "policy", "request", "use"},
             Ask!EnforceByRequest(op, p, at, how)
      PROVE  AskInv' /\ Ask!AnswersAreSpent
  BY <1>2, ByRequestStep
<1>3. ASSUME NEW id \in DOMAIN records, NEW v \in Voters, NEW how \in Ask!Endings,
             Ask!Approve(id, v, how) \/ Ask!Deny(id, v, how)
      PROVE  AskInv' /\ Ask!AnswersAreSpent
  BY <1>3, ApproveStep, DenyStep
<1>4. CASE \/ \E op \in Operations, t \in Ask!Tiers, who \in SUBSET Voters :
                Ask!SetPolicy(op, t, who)
           \/ \E t \in 1..LastTime : Ask!ClockMoves(t)
           \/ \E f \in {file, Torn} : Ask!Crash(f)
           \/ Ask!Restart
           \/ UNCHANGED Ask!vars
  BY <1>4, UnansweredStep
<1> QED BY <1>1, <1>2, <1>3, <1>4 DEF Ask!Next

LEMMA AskInitially ==
  ASSUME Ask!ConsentAssumption, Ask!Init
  PROVE  AskInv
<1>1. AskShape
  <2>1. now \in 1..LastTime
    BY DEF Ask!Init, Ask!ConsentAssumption
  <2>2. \A op \in Operations : Ask!DefaultTier(op) \in Ask!Tiers
    BY DEF Ask!DefaultTier, Ask!Tiers
  <2> QED BY <2>1, <2>2 DEF Ask!Init, AskShape
<1>2. DOMAIN records = {} /\ DOMAIN file = {} /\ DOMAIN index = {}
      /\ IsFcn(records) /\ IsFcn(file) /\ IsFcn(index) /\ refused = {}
  BY DEF Ask!Init, IsFcn
<1>3. Sealed(records, credit, refused) /\ Sealed(file, credit, refused)
      /\ Points(index, records)
  BY <1>2 DEF Sealed, Filed, OneOpen, Unspent, Points
<1>4. Ask!CriticalNeedsTwo
  BY DEF Ask!Init, Ask!CriticalNeedsTwo, Ask!Nothing
<1> QED BY <1>1, <1>3, <1>4 DEF AskInv

\* The queue of requests is sound in every reachable state (consent.rs): the index
\* finds exactly the open requests, one per fingerprint, whatever failed between two
\* updates and after every restart, and a critical operation passed with two
\* approvers other than the requester.
THEOREM ConsentAlwaysHolds ==
  ASSUME Ask!ConsentAssumption
  PROVE  Ask!Spec => []Ask!ConsentHolds
<1>1. Ask!Init => AskInv
  BY AskInitially
<1>2. AskInv /\ [Ask!Next]_(Ask!vars) => AskInv'
  BY AskNext
<1>3. AskInv => Ask!ConsentHolds
  <2>1. ASSUME AskInv, up
        PROVE  /\ \A f \in DOMAIN index : records[index[f]].fp = f
               /\ Ask!Open(records) = {index[f] : f \in DOMAIN index}
    <3>1. /\ \A f \in DOMAIN index : /\ index[f] \in DOMAIN records
                                     /\ records[index[f]].fp = f
                                     /\ ~records[index[f]].executed
          /\ \A id \in DOMAIN records : ~records[id].executed =>
               records[id].fp \in DOMAIN index /\ index[records[id].fp] = id
      BY <2>1 DEF AskInv, Points
    <3>2. Ask!Open(records) = {id \in DOMAIN records : ~records[id].executed}
      BY DEF Ask!Open
    <3> QED BY <3>1, <3>2
  <2> QED BY <2>1 DEF AskInv, Ask!ConsentHolds, Ask!OneOpenRequest
<1> QED BY <1>1, <1>2, <1>3, PTL DEF Ask!Spec

\* What was spent or denied does not pass again, across failed writes and restarts
\* (mark_executed, submit_decision, file_backed): those an operation passes by
\* approved it after its fingerprint last passed, and a fingerprint whose denial
\* was acknowledged never passes.
THEOREM AnswersAlwaysSpent ==
  ASSUME Ask!ConsentAssumption
  PROVE  Ask!Spec => [][Ask!AnswersAreSpent]_(Ask!vars)
<1>1. Ask!Init => AskInv
  BY AskInitially
<1>2. AskInv /\ [Ask!Next]_(Ask!vars) => AskInv' /\ [Ask!AnswersAreSpent]_(Ask!vars)
  BY AskNext
<1> QED BY <1>1, <1>2, PTL DEF Ask!Spec
=============================================================================
