-------------------------- MODULE CommitmentsProofs --------------------------
(***************************************************************************)
(* Proofs, for any number of threads, commitments, runs and grants, of what *)
(* module Commitments states: a commitment ends once, nothing is lost or    *)
(* left behind, and an end is final.                                        *)
(*                                                                          *)
(* A thread lets go of the registry's lock between the steps of a call.     *)
(* The inductive invariant says what it still knows after that: the effect  *)
(* of a commitment is in one place only, a reservation is good for one      *)
(* transition, an end is owed by the one call that made it, and a run that  *)
(* ended keeps no commitment that could start.                              *)
(***************************************************************************)
EXTENDS Commitments, FiniteSetTheorems, TLAPS

EntryType == [state : CommitmentState, reserved : Threads \cup {NoThread}, gen : Nat,
              pinned : BOOLEAN, finished_started : BOOLEAN, uncertain : BOOLEAN,
              handoff : Handoff]
RunState == {"unopened", "active", "cancelled", "finished", "pruned"}

\* The types the proofs need: TypeOK, but for the bound on the policy generation.
Types ==
  /\ entry \in [Commitments -> EntryType]
  /\ lock \in Threads \cup {NoThread} /\ held \subseteq Commitments
  /\ run \in [Runs -> RunState] /\ retained \in [Runs -> Nat]
  /\ halted \in BOOLEAN /\ stopped \in BOOLEAN /\ generation \in Nat
  /\ grant \in [Grants -> {"live", "revoked", "expired"}] /\ late \subseteq Commitments
  /\ th \in [Threads -> Thread]
  /\ log \in [Commitments -> SUBSET Phases] /\ ends \in [Commitments -> Nat]
  /\ lease \subseteq Commitments /\ world \subseteq Commitments /\ barrier \subseteq Runs

-----------------------------------------------------------------------------
\* Where a thread is with its commitment.
Recording == {"record", "withdraw", "complete", "finalize"}
Paying == {"leases", "records"}
Creating(x) == x.at \in {"record_prepared", "insert"}

\* Thread x has the effect of its commitment, to put it into the table or taken
\* out of it.
Carrying(x) ==
  \/ x.at \in {"fill", "start", "fail_unstarted", "executing"}
  \/ x.at \in Recording /\ x.transition = "Started"
  \/ x.at \in Paying /\ x.then = "fail_unstarted"

Places(x) == Creating(x) \/ Carrying(x)

\* An effect is in one place: with the call that creates it, in the table, or
\* with the call that took it out.
PlaceOK(u) ==
  LET x == th[u] IN
  /\ Places(x) => x.c \notin held
  /\ Creating(x) => entry[x.c].state = "absent" /\ x.c \notin lease
  /\ Carrying(x) => entry[x.c].state \notin {"absent", "refused"}
  /\ x.at = "executing" => entry[x.c].state = "Executing"
Apart(t, u) == Places(th[t]) /\ Places(th[u]) /\ th[t].c = th[u].c => t = u
PlaceInv ==
  /\ \A u \in Threads : PlaceOK(u)
  /\ \A t, u \in Threads : Apart(t, u)
  /\ \A c \in held : entry[c].state \notin {"absent", "refused"}

-----------------------------------------------------------------------------
\* A transition completes only what it was reserved for, and was recorded.
AllowedOK(u) ==
  LET x == th[u] IN
  /\ x.at \in Recording => x.transition \in {"Approved", "Authorized", "Started"}
  /\ x.at \in {"complete", "finalize"} => x.transition \in log[x.c]
  /\ x.at = "finalize" => lock = u /\ StillReserved(u, x.c)
  /\ x.at = "insert" => "Prepared" \in log[x.c]
  /\ x.c \in R2Actions /\ (x.at = "authorize" \/ (x.at \in Recording /\ x.transition = "Authorized"))
        => "Approved" \in log[x.c]
AllowedInv ==
  /\ \A u \in Threads : AllowedOK(u)
  /\ lock # NoThread => th[lock].at = "finalize"
  /\ EvidenceFirst

-----------------------------------------------------------------------------
\* What an end owes is owed by the call that made it.
DebtOK(u) ==
  LET x == th[u] IN
  /\ x.owed # {} => x.at \in {"leases", "records", "bump", "drop_all", "drop_runs_halted"}
  /\ x.leases = IF x.at = "leases" THEN x.owed ELSE {}
  /\ \A c \in x.owed : Ended(c) /\ ends[c] = 0
Owes(u, c) == c \in th[u].owed
OneOwes(t, u) == \A c \in Commitments : Owes(t, c) /\ Owes(u, c) => t = u
EndOK(c) ==
  /\ ends[c] \in {0, 1} /\ (ends[c] = 1 => Ended(c))
  /\ Ended(c) => ends[c] = 1 \/ \E u \in Threads : Owes(u, c)
  /\ Ended(c) => c \in lease \/ \E u \in Threads : c \in th[u].leases
  /\ c \in lease => Ended(c) \/ entry[c].state = "absent"
DebtInv ==
  /\ \A u \in Threads : DebtOK(u)
  /\ \A t, u \in Threads : OneOwes(t, u)
  /\ \A c \in Commitments : EndOK(c)

-----------------------------------------------------------------------------
\* Where a thread is that ends runs.
RunEnds == {"drop_runs", "bump", "drop_runs_halted"}
Dropping(x) ==
  x.at \in {"bump", "drop_all", "drop_runs", "drop_runs_halted"} \/ (x.at \in Paying /\ x.then \in RunEnds)

Over(r) == run[r] \notin {"unopened", "active"}
Cleared(r) == Over(r) /\ \A c \in Commitments : RunOf[c] = r => entry[c].state \notin Unconsumed

\* A run that a call ended does not come back; past its revocation, no commitment
\* of it may start.
RunsOK(u) ==
  LET x == th[u] IN
  /\ x.at \in Paying => x.then \in {"idle", "drop_if_final", "fail_unstarted", "unhold", "take_dead"} \cup RunEnds
  /\ x.at = "records" => x.then \notin {"bump", "drop_runs_halted"}
  /\ x.at = "revoke" => x.then \in RunEnds /\ \A r \in x.runs : Over(r)
  /\ Dropping(x) => \A r \in x.runs : Cleared(r)
  /\ x.at = "drop_all" => generation # 0 /\ x.then = "idle"
RunsInv ==
  /\ \A u \in Threads : RunsOK(u)
  /\ \A r \in barrier : Cleared(r)

-----------------------------------------------------------------------------
\* Thread x is at `at', or goes there once it has paid.
Due(x, at) == x.at = at \/ (x.at \in Paying /\ x.then = at)

\* Thread x is about to take the effect of c, which ended, out of the table.
Removes(x, c) ==
  \/ (Due(x, "drop_if_final") \/ Due(x, "unhold")) /\ x.c = c
  \/ Due(x, "take_dead")
  \/ (Due(x, "drop_runs") \/ Due(x, "drop_runs_halted")) /\ RunOf[c] \in x.runs
  \/ Due(x, "bump") \/ x.at = "drop_all"

\* An effect waits for a commitment that may start, or is about to be dropped;
\* one that may start has its effect somewhere.
HeldOK(c) ==
  /\ c \in held => entry[c].state \in Unconsumed \/ \E u \in Threads : Removes(th[u], c)
  /\ generation = 0 /\ entry[c].state \in Unconsumed =>
        c \in held \/ \E u \in Threads : Carrying(th[u]) /\ th[u].c = c
HeldInv ==
  /\ \A c \in Commitments : HeldOK(c)
  /\ \A u \in Threads : Due(th[u], "unhold") => Ended(th[u].c)

-----------------------------------------------------------------------------
\* What the world and the registry say of a commitment, and the pins.
WorldOK(c) ==
  /\ c \in world =>
       \/ entry[c].state \in {"Executing", "Succeeded", "gone"}
       \/ /\ entry[c].state \in {"Failed", "Cancelled"} /\ entry[c].finished_started
          /\ c \in FileActions => entry[c].handoff = "handed_off"
  /\ entry[c].state = "Succeeded" => c \in world
  /\ c \in FileActions /\ c \in Present /\ ~entry[c].pinned => AckConclusive(c)
WorldInv ==
  /\ \A c \in Commitments : WorldOK(c)
  /\ \A u \in Threads : th[u].at = "executing" /\ th[u].c \in world /\ th[u].c \in FileActions
        => th[u].handoff = "handed_off"

Pins(r) == {c \in Present : entry[c].pinned /\ RunOf[c] = r}
PinInv ==
  \A r \in Runs : IsFiniteSet(Pins(r)) /\ retained[r] = Cardinality(Pins(r))
                  /\ (Pins(r) # {} => run[r] # "pruned")

Inv == Types /\ PlaceInv /\ AllowedInv /\ DebtInv /\ RunsInv /\ HeldInv /\ WorldInv /\ PinInv

-----------------------------------------------------------------------------
\* The threads' records and the registry's entries, field by field.
LEMMA Fields ==
  ASSUME Types
  PROVE  /\ \A u \in Threads :
              /\ th[u] \in Thread /\ th[u].at \in Points /\ th[u].c \in Commitments
              /\ th[u].transition \in Phases /\ th[u].seen \in BOOLEAN /\ th[u].runs \subseteq Runs
              /\ th[u].owed \subseteq Commitments /\ th[u].leases \subseteq Commitments
              /\ th[u].then \in Points /\ th[u].handoff \in Handoff
         /\ \A c \in Commitments :
              /\ entry[c] \in EntryType /\ entry[c].state \in CommitmentState
              /\ entry[c].reserved \in Threads \cup {NoThread}
              /\ entry[c].pinned \in BOOLEAN /\ entry[c].finished_started \in BOOLEAN
              /\ entry[c].uncertain \in BOOLEAN /\ entry[c].handoff \in Handoff
              /\ log[c] \subseteq Phases /\ ends[c] \in Nat
  <1>1. th \in [Threads -> Thread] /\ entry \in [Commitments -> EntryType]
        /\ log \in [Commitments -> SUBSET Phases] /\ ends \in [Commitments -> Nat]
    BY DEF Types
  <1>2. \A x \in Thread :
              /\ x.at \in Points /\ x.c \in Commitments
              /\ x.transition \in Phases /\ x.seen \in BOOLEAN /\ x.runs \subseteq Runs
              /\ x.owed \subseteq Commitments /\ x.leases \subseteq Commitments
              /\ x.then \in Points /\ x.handoff \in Handoff
    BY DEF Thread
  <1>3. \A e \in EntryType :
              /\ e.state \in CommitmentState /\ e.reserved \in Threads \cup {NoThread}
              /\ e.pinned \in BOOLEAN /\ e.finished_started \in BOOLEAN
              /\ e.uncertain \in BOOLEAN /\ e.handoff \in Handoff
    BY DEF EntryType
  <1>. QED
    BY <1>1, <1>2, <1>3

\* A thread between two calls.
LEMMA IdleIs ==
  /\ Idle \in Thread /\ Idle.at = "idle" /\ Idle.owed = {} /\ Idle.leases = {}
  <1>1. (CHOOSE c \in Commitments : TRUE) \in Commitments
    BY CommitmentAssumptions
  <1>2. PICK x \in Commitments : x = CHOOSE c \in Commitments : TRUE
    BY <1>1, Zenon
  <1>3. Idle = [at |-> "idle", c |-> x, transition |-> "Prepared", seen |-> FALSE, runs |-> {},
                owed |-> {}, leases |-> {}, then |-> "idle", handoff |-> "not_handed_off"]
    BY <1>2, Zenon DEF Idle
  <1>. QED
    BY <1>2, <1>3 DEF Thread, Points, Phases, Handoff

Only(t) == \A u \in Threads \ {t} : th'[u] = th[u]

\* A thread that goes on keeps what it carries; one that is done is idle.
Keeps(x, y) ==
  /\ y.c = x.c /\ y.transition = x.transition /\ y.runs = x.runs /\ y.owed = x.owed
  /\ y.leases = x.leases /\ y.then = x.then /\ y.handoff = x.handoff
LEMMA GoesIs ==
  ASSUME Types, NEW t \in Threads, NEW at \in Points, Goes(t, at)
  PROVE  /\ th' \in [Threads -> Thread] /\ Only(t) /\ th'[t].at = at
         /\ at = "idle" => th'[t] = Idle
         /\ at # "idle" => Keeps(th[t], th'[t])
  <1>1. th[t] \in Thread /\ th \in [Threads -> Thread]
    BY Fields DEF Types
  <1>2. [th[t] EXCEPT !.at = at] \in Thread
    BY <1>1 DEF Thread
  <1>. QED
    BY <1>1, <1>2, IdleIs DEF Goes, Only, Keeps, Thread

\* A thread that ended S pays for it first.
LEMMA OwingIs ==
  ASSUME Types, NEW t \in Threads, NEW S \in SUBSET Commitments, NEW then \in Points, Owing(t, S, then)
  PROVE  /\ th' \in [Threads -> Thread] /\ Only(t)
         /\ th'[t].at = "leases" /\ th'[t].owed = S /\ th'[t].leases = S /\ th'[t].then = then
         /\ th'[t].c = th[t].c /\ th'[t].runs = th[t].runs /\ th'[t].transition = th[t].transition
  <1>1. th[t] \in Thread /\ th \in [Threads -> Thread]
    BY Fields DEF Types
  <1>. DEFINE y == [th[t] EXCEPT !.at = "leases", !.owed = S, !.leases = S, !.then = then]
  <1>2. y \in Thread
    BY <1>1 DEF Thread, Points
  <1>3. th' = [th EXCEPT ![t] = y]
    BY <1>1 DEF Owing, Thread
  <1>4. y.at = "leases" /\ y.owed = S /\ y.leases = S /\ y.then = then
        /\ y.c = th[t].c /\ y.runs = th[t].runs /\ y.transition = th[t].transition
    BY <1>1 DEF Thread
  <1>5. th' \in [Threads -> Thread] /\ th'[t] = y /\ Only(t)
    <2>. HIDE DEF y
    <2>. QED BY <1>1, <1>2, <1>3 DEF Only
  <1>. QED
    BY <1>4, <1>5

-----------------------------------------------------------------------------
\* A step that ends or starts no commitment.
Same(c) ==
  /\ entry'[c].state = entry[c].state /\ entry'[c].pinned = entry[c].pinned
  /\ entry'[c].finished_started = entry[c].finished_started
  /\ entry'[c].uncertain = entry[c].uncertain /\ entry'[c].handoff = entry[c].handoff
Stands == \A c \in Commitments : Same(c)
StatesStand == \A c \in Commitments : entry'[c].state = entry[c].state

\* Such a step keeps what each part of the invariant says of the threads that
\* stand still.
LEMMA PlaceKept ==
  ASSUME Types, Types', PlaceInv, NEW t, Only(t), StatesStand, held' \subseteq held,
         \A u \in Threads \ {t} : Creating(th[u]) => th[u].c \notin lease',
         t \in Threads => PlaceOK(t)',
         t \in Threads /\ Places(th'[t]) =>
            \/ Places(th[t]) /\ th'[t].c = th[t].c
            \/ \A u \in Threads \ {t} : Places(th[u]) => th[u].c # th'[t].c
  PROVE  PlaceInv'
  <1>1. \A u \in Threads : PlaceOK(u)'
    <2>. SUFFICES ASSUME NEW u \in Threads \ {t} PROVE PlaceOK(u)'
      OBVIOUS
    <2>1. th'[u] = th[u] /\ th[u].c \in Commitments
      BY Fields DEF Only
    <2>. QED
      BY <2>1 DEF PlaceInv, PlaceOK, Places, Creating, Carrying, StatesStand
  <1>2. \A v, u \in Threads : Apart(v, u)'
    BY DEF PlaceInv, Apart, Only, Places, Creating, Carrying
  <1>3. \A c \in held' : entry'[c].state \notin {"absent", "refused"}
    BY DEF PlaceInv, StatesStand, Types
  <1>. QED
    BY <1>1, <1>2, <1>3 DEF PlaceInv

LEMMA AllowedKept ==
  ASSUME Types, Types', AllowedInv, NEW t, Only(t), StatesStand, lock' = lock, world' \subseteq world,
         \A c \in Commitments : log[c] \subseteq log'[c],
         \A c \in Commitments : lock # NoThread => entry'[c].reserved = entry[c].reserved,
         t \in Threads => AllowedOK(t)' /\ (lock = t => th'[t].at = "finalize")
  PROVE  AllowedInv'
  <1>1. \A u \in Threads : AllowedOK(u)'
    <2>. SUFFICES ASSUME NEW u \in Threads \ {t} PROVE AllowedOK(u)'
      OBVIOUS
    <2>1. th'[u] = th[u] /\ th[u].c \in Commitments
      BY Fields DEF Only
    <2>2. AllowedOK(u)
      BY DEF AllowedInv
    <2>3. NoThread \notin Threads
      BY CommitmentAssumptions
    <2>. QED
      BY <2>1, <2>2, <2>3 DEF AllowedOK, Recording, StillReserved, StatesStand
  <1>2. lock' # NoThread => th'[lock'].at = "finalize"
    BY DEF AllowedInv, Only, Types
  <1>3. EvidenceFirst'
    BY DEF AllowedInv, EvidenceFirst, StatesStand, Types
  <1>. QED
    BY <1>1, <1>2, <1>3 DEF AllowedInv

LEMMA DebtKept ==
  ASSUME Types, Types', DebtInv, NEW t, Only(t), StatesStand, lease' = lease, ends' = ends,
         t \in Threads => th'[t].owed = th[t].owed /\ th'[t].leases = th[t].leases /\ DebtOK(t)'
  PROVE  DebtInv'
  <1>1. \A u \in Threads : th'[u].owed = th[u].owed /\ th'[u].leases = th[u].leases
    BY DEF Only
  <1>2. \A c \in Commitments : Ended(c)' = Ended(c)
    BY DEF Ended, StatesStand
  <1>3. ASSUME NEW u \in Threads PROVE DebtOK(u)'
    BY <1>1, <1>2, <1>3, Fields DEF DebtInv, DebtOK, Only
  <1>4. \A v, u \in Threads : OneOwes(v, u)'
    BY <1>1 DEF DebtInv, OneOwes, Owes
  <1>5. ASSUME NEW c \in Commitments PROVE EndOK(c)'
    BY <1>1, <1>2, <1>5 DEF DebtInv, EndOK, Owes, StatesStand
  <1>. QED
    BY <1>3, <1>4, <1>5 DEF DebtInv

\* Runs end and do not come back.
RunsGoOn == (\A r \in Runs : Over(r) => Over(r)') /\ (generation # 0 => generation' # 0)

LEMMA ClearedKept ==
  ASSUME RunsGoOn, NEW r \in Runs, Cleared(r),
         \A c \in Commitments : entry'[c].state \in Unconsumed => entry[c].state \in Unconsumed
  PROVE  Cleared(r)'
  BY DEF RunsGoOn, Cleared

LEMMA RunsKept ==
  ASSUME Types, Types', RunsInv, NEW t, Only(t), RunsGoOn,
         \A c \in Commitments : entry'[c].state \in Unconsumed => entry[c].state \in Unconsumed,
         t \in Threads => RunsOK(t)', \A r \in barrier' : r \in barrier \/ Cleared(r)'
  PROVE  RunsInv'
  <1>1. \A r \in Runs : Cleared(r) => Cleared(r)'
    BY ClearedKept
  <1>2. ASSUME NEW u \in Threads \ {t} PROVE RunsOK(u)'
    <2>1. th'[u] = th[u] /\ th[u].runs \subseteq Runs /\ RunsOK(u)
      BY <1>2, Fields DEF Only, RunsInv
    <2>. QED
      BY <1>1, <2>1 DEF RunsOK, Dropping, RunsGoOn
  <1>3. \A r \in barrier' : Cleared(r)'
    BY <1>1 DEF RunsInv, Types
  <1>. QED
    BY <1>2, <1>3 DEF RunsInv

HeldGoesOn(t) ==
  /\ \A c \in held : Removes(th[t], c) /\ entry[c].state \notin Unconsumed => Removes(th'[t], c)
  /\ Carrying(th[t]) /\ entry[th[t].c].state \in Unconsumed => Carrying(th'[t]) /\ th'[t].c = th[t].c
  /\ Due(th'[t], "unhold") => Ended(th'[t].c)
LEMMA HeldKept ==
  ASSUME Types, Types', HeldInv, NEW t, Only(t), StatesStand, held' = held,
         generation' = 0 => generation = 0,
         t \in Threads => HeldGoesOn(t)
  PROVE  HeldInv'
  <1>1. ASSUME NEW c \in Commitments PROVE HeldOK(c)'
    <2>1. HeldOK(c) /\ entry'[c].state = entry[c].state
      BY <1>1 DEF HeldInv, StatesStand
    <2>2. ASSUME c \in held, entry[c].state \notin Unconsumed
          PROVE  \E u \in Threads : Removes(th'[u], c)
      BY <2>1, <2>2 DEF HeldOK, Only, HeldGoesOn
    <2>3. ASSUME generation = 0, entry[c].state \in Unconsumed, c \notin held
          PROVE  \E u \in Threads : Carrying(th'[u]) /\ th'[u].c = c
      BY <2>1, <2>3 DEF HeldOK, Only, HeldGoesOn
    <2>. QED
      BY <2>1, <2>2, <2>3 DEF HeldOK
  <1>2. ASSUME NEW u \in Threads, Due(th'[u], "unhold") PROVE Ended(th[u].c)'
    <2>1. Ended(th'[u].c) /\ th'[u].c \in Commitments
      BY <1>2, Fields DEF HeldInv, Only, Types, Thread, HeldGoesOn
    <2>. QED
      BY <2>1 DEF Ended, StatesStand
  <1>. QED
    BY <1>1, <1>2 DEF HeldInv

LEMMA WorldKept ==
  ASSUME Types, Types', WorldInv, NEW t, Only(t), Stands, world' = world,
         t \in Threads /\ th'[t].at = "executing" /\ th'[t].c \in world /\ th'[t].c \in FileActions
            => th'[t].handoff = "handed_off"
  PROVE  WorldInv'
  <1>1. ASSUME NEW c \in Commitments PROVE WorldOK(c)'
    <2>1. WorldOK(c) /\ Same(c)
      BY <1>1 DEF WorldInv, Stands
    <2>. QED
      BY <2>1 DEF WorldOK, Same, Present, AckConclusive, Publication
  <1>. QED
    BY <1>1 DEF WorldInv, Only

LEMMA PinKept ==
  ASSUME Types, Types', PinInv, Stands, retained' = retained,
         \A r \in Runs : run'[r] = "pruned" => run[r] = "pruned" \/ retained[r] = 0
  PROVE  PinInv'
  <1>1. \A r \in Runs : Pins(r)' = Pins(r)
    BY DEF Pins, Present, Stands, Same
  <1>2. \A r \in Runs : retained[r] = 0 /\ PinInv => Pins(r) = {}
    BY FS_EmptySet DEF PinInv
  <1>. QED
    BY <1>1, <1>2 DEF PinInv

-----------------------------------------------------------------------------
\* An end is final: it takes no other state, nothing starts behind the barrier of
\* its run, and an uncertain File outcome is not forgotten.
FinalOK(c) ==
  /\ Ended(c) => entry'[c].state \in {entry[c].state, "gone"}
  /\ entry'[c].state \in {"Prepared", "Authorized", "Executing"} \ {entry[c].state} => RunOf[c] \notin barrier
  /\ c \in FileActions /\ entry'[c].state = "gone" /\ entry[c].state # "gone"
        => Publication(c) \in {"Published", "ConfirmedNotPublished"}
FinalStep == \A c \in Commitments : FinalOK(c)

LEMMA StandsFinal == ASSUME StatesStand PROVE FinalStep
  BY DEF StatesStand, FinalStep, FinalOK

-----------------------------------------------------------------------------
\* A step of thread t (of no thread, where t is none) that moves no effect, pays
\* no debt and ends no commitment keeps the invariant, where it keeps what the
\* invariant says of t.
MoveGoesOn(t) ==
  /\ PlaceOK(t)' /\ DebtOK(t)' /\ RunsOK(t)' /\ HeldGoesOn(t)
  /\ Places(th'[t]) => Places(th[t]) /\ th'[t].c = th[t].c
  /\ th'[t].owed = th[t].owed /\ th'[t].leases = th[t].leases
  /\ th'[t].at = "executing" /\ th'[t].c \in world /\ th'[t].c \in FileActions
        => th'[t].handoff = "handed_off"
Moves(t) ==
  /\ Types' /\ Only(t) /\ Stands /\ RunsGoOn
  /\ UNCHANGED <<held, retained, lease, ends, world, barrier>>
  /\ \A r \in Runs : run'[r] = "pruned" => run[r] = "pruned" \/ retained[r] = 0
LEMMA MoveKeeps ==
  ASSUME Inv, NEW t, Moves(t), t \in Threads => MoveGoesOn(t), AllowedInv'
  PROVE  Inv' /\ FinalStep
  <1>0. /\ Types /\ PlaceInv /\ AllowedInv /\ DebtInv /\ RunsInv /\ HeldInv /\ WorldInv /\ PinInv
        /\ StatesStand
    BY DEF Inv, Moves, Stands, Same, StatesStand
  <1>1. PlaceInv'
    <2>1. \A u \in Threads \ {t} : Creating(th[u]) => th[u].c \notin lease'
      BY <1>0 DEF PlaceInv, PlaceOK, Moves
    <2>. QED
      BY <1>0, <2>1, PlaceKept DEF Moves, MoveGoesOn
  <1>3. DebtInv'
    BY <1>0, DebtKept DEF Moves, MoveGoesOn
  <1>4. RunsInv'
    BY <1>0, RunsKept DEF Moves, MoveGoesOn, StatesStand
  <1>5. HeldInv'
    BY <1>0, HeldKept DEF Moves, MoveGoesOn, RunsGoOn
  <1>6. WorldInv'
    BY <1>0, WorldKept DEF Moves, MoveGoesOn
  <1>7. PinInv'
    BY <1>0, PinKept DEF Moves
  <1>. QED
    BY <1>0, <1>1, <1>3, <1>4, <1>5, <1>6, <1>7, StandsFinal DEF Inv, Moves

\* The same, of a step that leaves the lock alone.
ThreadGoesOn(t) == MoveGoesOn(t) /\ AllowedOK(t)' /\ (lock = t => th'[t].at = "finalize")
Walks(t) ==
  /\ Moves(t) /\ lock' = lock
  /\ \A c \in Commitments : log[c] \subseteq log'[c]
  /\ \A c \in Commitments : lock # NoThread => entry'[c].reserved = entry[c].reserved
LEMMA WalkKeeps ==
  ASSUME Inv, NEW t, Walks(t), t \in Threads => ThreadGoesOn(t)
  PROVE  Inv' /\ FinalStep
  <1>1. AllowedInv'
    BY AllowedKept DEF Inv, Walks, Moves, ThreadGoesOn, Stands, Same, StatesStand
  <1>. QED
    BY <1>1, MoveKeeps DEF Walks, ThreadGoesOn

\* What the invariant says of thread t.
LEMMA Knows ==
  ASSUME Inv, NEW t \in Threads
  PROVE  /\ Types /\ PlaceOK(t) /\ AllowedOK(t) /\ DebtOK(t) /\ RunsOK(t)
         /\ Due(th[t], "unhold") => Ended(th[t].c)
         /\ NoThread \notin Threads
         /\ th[t] \in Thread /\ th[t].c \in Commitments /\ th[t].at \in Points
         /\ lock = t => th[t].at = "finalize"
  BY Fields, CommitmentAssumptions DEF Inv, PlaceInv, AllowedInv, DebtInv, RunsInv, HeldInv

\* Thread t, at idle, begins with commitment c at `at'.
LEMMA AuthorizeKeeps ==
  ASSUME Inv, NEW t \in Threads, NEW c \in Commitments, Authorize(t, c)
  PROVE  Inv' /\ FinalStep
  <1>. DEFINE y == [th[t] EXCEPT !.at = IF c \in R2Actions THEN "ask" ELSE "authorize", !.c = c]
  <1>1. th[t] \in Thread /\ th \in [Threads -> Thread] /\ th[t].at = "idle"
    BY Knows DEF Authorize, At, Types
  <1>2. y \in Thread /\ y.c = c /\ y.at \in {"ask", "authorize"} /\ y.owed = th[t].owed /\ y.leases = th[t].leases
        /\ (c \in R2Actions => y.at = "ask")
    BY <1>1 DEF Thread, Points
  <1>3. th' = [th EXCEPT ![t] = y]
    BY <1>1 DEF Authorize, Thread
  <1>. HIDE DEF y
  <1>4. Only(t) /\ th'[t] = y /\ th' \in [Threads -> Thread]
    BY <1>1, <1>2, <1>3 DEF Only
  <1>5. Walks(t)
    BY <1>4, Knows DEF Walks, Moves, Authorize, registry, policy, history, Types, Stands, Same, RunsGoOn, Over
  <1>6. ThreadGoesOn(t)
    BY <1>1, <1>2, <1>4, Knows DEF ThreadGoesOn, MoveGoesOn, PlaceOK, AllowedOK, DebtOK, RunsOK, HeldGoesOn, Places,
       Creating, Carrying, Recording, Paying, Dropping, Due, Removes
  <1>. QED
    BY <1>5, <1>6, WalkKeeps

\* A step that only moves a thread.
LEMMA GoesWalks ==
  ASSUME Inv, NEW t \in Threads, NEW at \in Points, Goes(t, at),
         UNCHANGED <<registry, lock, policy, history>>
  PROVE  /\ Walks(t) /\ th'[t].at = at
         /\ at = "idle" => th'[t] = Idle
         /\ at # "idle" => Keeps(th[t], th'[t])
  BY GoesIs, Knows DEF Walks, Moves, registry, policy, history, Types, Stands, Same, RunsGoOn, Over

\* Where a thread that has nothing in hand may go.
LEMMA FreeGoesOn ==
  ASSUME Inv, NEW t \in Threads, th[t].owed = {}, th[t].leases = {},
         th'[t].owed = {}, th'[t].leases = {}, lock # t,
         ~Places(th[t]), \A c \in Commitments : ~Removes(th[t], c),
         th'[t].at \in {"idle", "ask", "dialog", "sweep", "bump_grant", "drop_if_final"}
  PROVE  ThreadGoesOn(t)
  BY Knows DEF ThreadGoesOn, MoveGoesOn, PlaceOK, AllowedOK, DebtOK, RunsOK, HeldGoesOn, Places, Creating, Carrying,
     Recording, Paying, Dropping, Due, Removes, Types

LEMMA PruneKeeps == ASSUME Inv, NEW t \in Threads, Prune(t) PROVE Inv' /\ FinalStep
  <1>1. th[t].at = "idle" /\ Goes(t, "sweep") /\ UNCHANGED <<registry, lock, policy, history>>
    BY DEF Prune, At
  <1>2. Walks(t) /\ th'[t].at = "sweep" /\ Keeps(th[t], th'[t])
    BY <1>1, GoesWalks DEF Points
  <1>3. ThreadGoesOn(t)
    BY <1>1, <1>2, Knows, FreeGoesOn DEF Keeps, DebtOK, Places, Creating, Carrying, Recording, Paying, Due, Removes
  <1>. QED
    BY <1>2, <1>3, WalkKeeps

\* A call that is refused its transition goes on at its end.
LEMMA RefusedKeeps ==
  ASSUME Inv, NEW t \in Threads, NEW at, Goes(t, at), UNCHANGED <<registry, lock, policy, history>>,
         \/ th[t].at \in {"ask", "dialog", "authorize"} /\ at = "drop_if_final"
         \/ th[t].at = "ask" /\ at = "dialog"
         \/ th[t].at = "start" /\ at = "fail_unstarted"
         \/ th[t].at = "record" /\ at = "withdraw"
         \/ th[t].at = "complete" /\ at = Refused(th[t].transition)
  PROVE  Inv' /\ FinalStep
  <1>1. at \in {"drop_if_final", "dialog", "fail_unstarted", "withdraw"}
    BY DEF Refused
  <1>2. Walks(t) /\ th'[t].at = at /\ Keeps(th[t], th'[t])
    BY <1>1, GoesWalks DEF Points
  <1>3. ThreadGoesOn(t)
    BY <1>1, <1>2, Knows DEF Keeps, Refused, Walks, Moves, ThreadGoesOn, MoveGoesOn, PlaceOK, AllowedOK, DebtOK, RunsOK, HeldGoesOn,
       Places, Creating, Carrying, Recording, Paying, Dropping, Due, Removes, Stands, Same
  <1>. QED
    BY <1>2, <1>3, WalkKeeps

-----------------------------------------------------------------------------
\* Thread t ends the commitments S.
Unstarted == {"Denied", "Expired", "Revoked", "Failed"}
Unended == Unconsumed \cup {"Executing"}
EndsOf(t, S) ==
  /\ Types' /\ Only(t) /\ lock = NoThread /\ S \subseteq Commitments
  /\ UNCHANGED <<held, retained, lock, policy, history>>
  /\ \A c \in S : /\ entry[c].state \in Unended /\ entry'[c].state \in Final
                  /\ entry'[c].pinned = entry[c].pinned
  /\ \A c \in Commitments \ S : entry'[c] = entry[c]
  /\ th'[t].at = "leases" /\ th'[t].owed = S /\ th'[t].leases = S

\* Where it goes on: with the effect it carries, or to drop what it ended.
EndsGoOn(t, S) ==
  /\ th[t].owed = {} /\ th[t].leases = {}
  /\ \A c \in S : entry[c].state = "Executing" => th[t].at = "executing" /\ th[t].c = c
  /\ \A c \in S : WorldOK(c)'
  /\ th'[t].then \in {"idle", "drop_if_final", "fail_unstarted", "unhold", "take_dead"} \cup RunEnds
  /\ th'[t].then = "fail_unstarted" => Carrying(th[t]) /\ th'[t].c = th[t].c
  /\ Carrying(th[t]) => th'[t].then = "fail_unstarted" \/ th[t].c \in S
  /\ th'[t].then = "unhold" => th'[t].c \in S
  /\ th'[t].then \in RunEnds => \A r \in th'[t].runs : Over(r) /\ \A c \in Commitments \ S :
                                  RunOf[c] = r => entry[c].state \notin Unconsumed
  /\ \A c \in S \cap held : Removes(th'[t], c)
  /\ \A c \in Commitments : ~Removes(th[t], c)

LEMMA EndsKeep ==
  ASSUME Inv, NEW t \in Threads, NEW S, EndsOf(t, S), EndsGoOn(t, S)
  PROVE  Inv' /\ FinalStep
  <1>0. Types /\ PlaceInv /\ AllowedInv /\ DebtInv /\ RunsInv /\ HeldInv /\ WorldInv /\ PinInv
    BY DEF Inv
  <1>1. /\ Types' /\ Only(t) /\ lock = NoThread /\ S \subseteq Commitments
        /\ \A u \in Threads \ {t} : th'[u] = th[u]
        /\ held' = held /\ retained' = retained /\ lock' = lock /\ run' = run /\ generation' = generation
        /\ log' = log /\ ends' = ends /\ lease' = lease /\ world' = world /\ barrier' = barrier
    BY DEF EndsOf, Only, policy, history
  <1>2. \A c \in S : /\ entry[c].state \in Unended /\ entry'[c].state \in Final
                     /\ entry'[c].pinned = entry[c].pinned
    BY DEF EndsOf
  <1>3. \A c \in Commitments \ S : entry'[c] = entry[c]
    BY DEF EndsOf
  <1>4. th'[t].at = "leases" /\ th'[t].owed = S /\ th'[t].leases = S
    BY DEF EndsOf
  <1>5. \A c \in S : ~Ended(c) /\ Ended(c)'
    BY <1>2 DEF Ended, Unended, Unconsumed, Final
  <1>6. \A c \in Commitments \ S : Ended(c)' = Ended(c)
    BY <1>3 DEF Ended
  <1>7. \A u \in Threads : th[u].c \in Commitments /\ th'[u].c \in Commitments
    BY <1>0, <1>1, Fields DEF Types, Thread
  <1>8. NoThread \notin Threads
    BY CommitmentAssumptions
  <1>a. PlaceInv'
    <2>1. Places(th'[t]) => Carrying(th[t]) /\ th'[t].c = th[t].c /\ ~Creating(th'[t])
      BY <1>4 DEF EndsGoOn, Places, Creating, Carrying, Recording, Paying
    <2>2. ASSUME NEW u \in Threads PROVE PlaceOK(u)'
      <3>1. CASE u # t
        <4>1. PlaceOK(u) /\ th'[u] = th[u] /\ th[u].c \in Commitments
          BY <1>0, <1>1, <1>7, <3>1, <2>2 DEF PlaceInv
        <4>2. th[u].at = "executing" => th[u].c \notin S
          <5>1. Apart(t, u) /\ PlaceOK(u)
            BY <1>0, <2>2 DEF PlaceInv
          <5>. QED
            BY <3>1, <5>1 DEF Apart, EndsGoOn, Places, Carrying, PlaceOK
        <4>. QED
          BY <1>1, <1>2, <1>3, <4>1, <4>2 DEF PlaceOK, Places, Creating, Final, Unended, Unconsumed
      <3>2. CASE u = t
        <4>1. PlaceOK(t) /\ th[t].c \in Commitments
          BY <1>0, <1>7 DEF PlaceInv
        <4>. QED
          BY <1>1, <1>2, <1>3, <1>4, <2>1, <3>2, <4>1 DEF PlaceOK, Places, Final, Unended, Unconsumed
      <3>. QED
        BY <3>1, <3>2
    <2>3. \A v, u \in Threads : Apart(v, u)'
      BY <1>0, <1>1, <2>1 DEF PlaceInv, Apart, Places
    <2>4. \A c \in held' : entry'[c].state \notin {"absent", "refused"}
      BY <1>0, <1>1, <1>2, <1>3 DEF PlaceInv, Types, Final
    <2>. QED
      BY <2>2, <2>3, <2>4 DEF PlaceInv
  <1>b. AllowedInv'
    <2>1. ASSUME NEW u \in Threads PROVE AllowedOK(u)'
      BY <1>0, <1>1, <1>4, <1>8, <2>1 DEF AllowedInv, AllowedOK, Recording
    <2>2. EvidenceFirst'
      BY <1>0, <1>1, <1>2, <1>3 DEF AllowedInv, EvidenceFirst, Final
    <2>. QED
      BY <1>1, <2>1, <2>2 DEF AllowedInv
  <1>c. DebtInv'
    <2>1. ASSUME NEW u \in Threads PROVE DebtOK(u)'
      <3>1. CASE u # t
        BY <1>0, <1>1, <1>5, <1>6, <3>1, <2>1, Fields DEF DebtInv, DebtOK
      <3>2. CASE u = t
        BY <1>0, <1>1, <1>4, <1>5, <3>2 DEF DebtInv, DebtOK, EndOK
      <3>. QED
        BY <3>1, <3>2
    <2>2. ASSUME NEW v \in Threads, NEW u \in Threads PROVE OneOwes(v, u)'
      BY <1>0, <1>1, <1>4, <1>5, <2>2 DEF DebtInv, OneOwes, Owes, DebtOK
    <2>3. ASSUME NEW c \in Commitments PROVE EndOK(c)'
      <3>1. EndOK(c)
        BY <1>0 DEF DebtInv
      <3>2. CASE c \in S
        BY <1>1, <1>4, <1>5, <3>1, <3>2 DEF EndOK, Owes
      <3>3. CASE c \notin S
        <4>1. \A u \in Threads : (Owes(u, c) => Owes(u, c)') /\ (c \in th[u].leases => c \in th'[u].leases)
          BY <1>1 DEF EndsGoOn, Owes
        <4>. QED
          BY <1>1, <1>3, <1>6, <3>1, <3>3, <4>1 DEF EndOK
      <3>. QED
        BY <3>2, <3>3
    <2>. QED
      BY <2>1, <2>2, <2>3 DEF DebtInv
  <1>d. RunsInv'
    <2>1. RunsGoOn /\ \A c \in Commitments : entry'[c].state \in Unconsumed => entry[c].state \in Unconsumed
      BY <1>1, <1>2, <1>3 DEF RunsGoOn, Over, Final, Unconsumed
    <2>2. th'[t].then \in RunEnds => \A r \in th'[t].runs : Cleared(r)'
      BY <1>1, <1>2, <1>3 DEF EndsGoOn, Cleared, Over, Final, Unended, Unconsumed
    <2>3. RunsOK(t)'
      BY <1>4, <2>2 DEF RunsOK, EndsGoOn, Dropping, Paying
    <2>. QED
      BY <1>0, <1>1, <2>1, <2>3, RunsKept
  <1>e. HeldInv'
    <2>1. ASSUME NEW c \in Commitments PROVE HeldOK(c)'
      <3>1. HeldOK(c)
        BY <1>0 DEF HeldInv
      <3>2. CASE c \in S
        BY <1>1, <1>2, <3>2 DEF HeldOK, EndsGoOn, Final, Unended, Unconsumed
      <3>3. CASE c \notin S
        <4>1. \A u \in Threads : Removes(th[u], c) => Removes(th'[u], c)
          BY <1>1 DEF EndsGoOn
        <4>2. \A u \in Threads : Carrying(th[u]) /\ th[u].c = c => Carrying(th'[u]) /\ th'[u].c = c
          BY <1>1, <1>4, <3>3 DEF EndsGoOn, Carrying, Paying
        <4>. QED
          BY <1>1, <1>3, <3>1, <3>3, <4>1, <4>2 DEF HeldOK
      <3>. QED
        BY <3>2, <3>3
    <2>2. ASSUME NEW u \in Threads, Due(th'[u], "unhold") PROVE Ended(th[u].c)'
      <3>1. CASE u # t
        BY <1>0, <1>1, <1>5, <1>6, <1>7, <2>2, <3>1 DEF HeldInv
      <3>2. CASE u = t
        BY <1>4, <1>5, <2>2, <3>2 DEF EndsGoOn, Due, Paying
      <3>. QED
        BY <3>1, <3>2
    <2>. QED
      BY <2>1, <2>2 DEF HeldInv
  <1>f. WorldInv'
    <2>1. ASSUME NEW c \in Commitments PROVE WorldOK(c)'
      <3>1. WorldOK(c)
        BY <1>0 DEF WorldInv
      <3>2. CASE c \in S
        BY <3>2 DEF EndsGoOn
      <3>3. CASE c \notin S
        BY <1>1, <1>3, <3>1, <3>3 DEF WorldOK, Present, AckConclusive, Publication
      <3>. QED
        BY <3>2, <3>3
    <2>. QED
      BY <1>0, <1>1, <1>4, <2>1 DEF WorldInv
  <1>g. PinInv'
    <2>1. \A r \in Runs : Pins(r)' = Pins(r)
      <3>1. \A c \in Commitments : (c \in Present)' = (c \in Present) /\ entry'[c].pinned = entry[c].pinned
        BY <1>2, <1>3 DEF Present, Final, Unended, Unconsumed
      <3>. QED
        BY <3>1 DEF Pins, Present
    <2>. QED
      BY <1>0, <1>1, <2>1 DEF PinInv
  <1>h. FinalStep
    BY <1>2, <1>3, <1>5 DEF FinalStep, FinalOK, Final
  <1>. QED
    BY <1>1, <1>a, <1>b, <1>c, <1>d, <1>e, <1>f, <1>g, <1>h DEF Inv

\* A commitment that ends unstarted was not published.
LEMMA UnstartedWorld ==
  ASSUME Inv, NEW c \in Commitments, entry[c].state \in Unconsumed, entry'[c].state \in Unstarted,
         entry'[c].pinned = entry[c].pinned, world' = world
  PROVE  WorldOK(c)'
  <1>0. WorldOK(c)
    BY DEF Inv, WorldInv
  <1>1. Publication(c) = "Pending"
    BY DEF Publication
  <1>2. c \in Present /\ ~AckConclusive(c)
    BY <1>1 DEF Present, AckConclusive, Unconsumed
  <1>3. c \notin world /\ (c \in FileActions => entry[c].pinned)
    BY <1>0, <1>2 DEF WorldOK, Unconsumed
  <1>. QED
    BY <1>3 DEF WorldOK, Unstarted

\* Ending each of S, in a state of its own.
LEMMA EndEntryIs ==
  ASSUME Types, NEW S \in SUBSET Commitments, NEW state \in CommitmentState, NEW e, e = EndEntry(S, state)
  PROVE  /\ e \in [Commitments -> EntryType]
         /\ \A c \in S : /\ e[c].state = state /\ e[c].pinned = entry[c].pinned
                         /\ e[c].finished_started = entry[c].finished_started
                         /\ e[c].uncertain = entry[c].uncertain /\ e[c].handoff = entry[c].handoff
         /\ \A c \in Commitments \ S : e[c] = entry[c]
  <1>1. \A c \in Commitments : entry[c] \in EntryType
    BY Fields
  <1>2. \A c \in Commitments : LET d == [entry[c] EXCEPT !.state = state, !.reserved = NoThread] IN
           /\ d \in EntryType /\ d.state = state /\ d.pinned = entry[c].pinned
           /\ d.finished_started = entry[c].finished_started
           /\ d.uncertain = entry[c].uncertain /\ d.handoff = entry[c].handoff
    BY <1>1 DEF EntryType
  <1>. QED
    BY <1>1, <1>2 DEF EndEntry

\* A thread that ends its own commitment under the lock.
LEMMA EndsIs ==
  ASSUME Inv, NEW t \in Threads, NEW c, c = th[t].c, NEW state \in Unstarted, NEW then \in Points,
         Ends(t, c, state, then), lock = NoThread, entry[c].state \in Unconsumed,
         UNCHANGED <<held, retained, lock, policy, history>>
  PROVE  /\ EndsOf(t, {c}) /\ th'[t].then = then /\ th'[t].c = c /\ th'[t].runs = th[t].runs
         /\ WorldOK(c)'
  <1>1. Types /\ c \in Commitments /\ state \in CommitmentState
    BY Knows DEF Unstarted, CommitmentState, Final
  <1>2. entry' = EndEntry({c}, state) /\ Owing(t, {c}, then)
    BY DEF Ends
  <1>3. /\ entry' \in [Commitments -> EntryType]
        /\ entry'[c].state = state /\ entry'[c].pinned = entry[c].pinned
        /\ \A d \in Commitments \ {c} : entry'[d] = entry[d]
    <2>. DEFINE S == {c}
    <2>1. S \in SUBSET Commitments /\ c \in S /\ \A d \in Commitments : d # c => d \notin S
      BY <1>1
    <2>2. entry' = EndEntry(S, state)
      BY <1>2
    <2>. HIDE DEF S
    <2>. QED
      BY <1>1, <2>1, <2>2, EndEntryIs
  <1>4. /\ th' \in [Threads -> Thread] /\ Only(t)
        /\ th'[t].at = "leases" /\ th'[t].owed = {c} /\ th'[t].leases = {c} /\ th'[t].then = then
        /\ th'[t].c = th[t].c /\ th'[t].runs = th[t].runs
    BY <1>1, <1>2, OwingIs
  <1>5. Types'
    BY <1>1, <1>3, <1>4 DEF Types, policy, history
  <1>6. WorldOK(c)'
    BY <1>1, <1>3, UnstartedWorld DEF history
  <1>. QED
    BY <1>1, <1>3, <1>4, <1>5, <1>6 DEF EndsOf, Unended, Unstarted, Final

\* A check that fails ends the commitment unstarted.
LEMMA LiveCheckIs ==
  ASSUME NEW c, NEW past, LiveCheck(c, past) # "live"
  PROVE  LiveCheck(c, past) \in Unstarted
  BY DEF LiveCheck, Unstarted

\* A call that ends its own commitment goes on at its end.
LEMMA EndsOwnKeeps ==
  ASSUME Inv, NEW t \in Threads, NEW c, c = th[t].c, NEW state \in Unstarted, NEW then,
         Ends(t, c, state, then), lock = NoThread, entry[c].state \in Unconsumed,
         UNCHANGED <<held, retained, lock, policy, history>>,
         \/ th[t].at \in {"ask", "dialog", "authorize"} /\ then = "drop_if_final"
         \/ th[t].at = "start" /\ then = "fail_unstarted"
         \/ th[t].at = "complete" /\ then = Refused(th[t].transition)
         \/ th[t].at = "fail_unstarted" /\ then = "idle"
  PROVE  Inv' /\ FinalStep
  <1>1. then \in {"drop_if_final", "fail_unstarted", "idle"} /\ then \in Points
    BY DEF Refused, Points
  <1>2. EndsOf(t, {c}) /\ th'[t].then = then /\ th'[t].c = c /\ WorldOK(c)'
    BY <1>1, EndsIs
  <1>3. DebtOK(t) /\ PlaceOK(t) /\ AllowedOK(t)
    BY Knows
  <1>4. \A d \in {c} \cap held : Removes(th'[t], d)
    BY <1>2, <1>3 DEF EndsOf, Removes, Due, Paying, PlaceOK, Places, Carrying, Recording, Refused
  <1>5. EndsGoOn(t, {c})
    BY <1>1, <1>2, <1>3, <1>4 DEF EndsGoOn, EndsOf, DebtOK, AllowedOK, Carrying, Recording, Paying, Refused, RunEnds,
       Removes, Due, Unconsumed
  <1>. QED
    BY <1>2, <1>5, EndsKeep

\* A transition is refused, ended or reserved.
LEMMA ReservesKeeps ==
  ASSUME Inv, NEW t \in Threads, NEW c, c = th[t].c, NEW expected, NEW transition, NEW refused,
         Reserves(t, c, expected, transition, refused),
         UNCHANGED <<held, retained, lock, policy, history>>,
         \/ /\ th[t].at = "dialog" /\ expected = "Prepared" /\ transition = "Approved"
            /\ refused = "drop_if_final"
         \/ /\ th[t].at = "authorize" /\ expected = "Prepared" /\ transition = "Authorized"
            /\ refused = "drop_if_final"
         \/ /\ th[t].at = "start" /\ expected = "Authorized" /\ transition = "Started"
            /\ refused = "fail_unstarted"
  PROVE  Inv' /\ FinalStep
  <1>0. lock = NoThread /\ c \in Commitments /\ Types
    BY Knows DEF Reserves, Free
  <1>1. CASE Goes(t, refused) /\ UNCHANGED entry
    BY <1>1, RefusedKeeps DEF registry
  <1>2. CASE /\ entry[c].state = expected /\ LiveCheck(c, c \in late) # "live"
             /\ Ends(t, c, LiveCheck(c, c \in late), refused)
    <2>1. entry[c].state \in Unconsumed
      BY <1>2 DEF Unconsumed
    <2>. QED
      BY <1>0, <1>2, <2>1, LiveCheckIs, EndsOwnKeeps
  <1>3. CASE /\ entry' = [entry EXCEPT ![c].reserved = t]
             /\ th' = [th EXCEPT ![t].at = "record", ![t].c = c, ![t].transition = transition]
    <2>. DEFINE y == [th[t] EXCEPT !.at = "record", !.c = c, !.transition = transition]
    <2>1. th[t] \in Thread /\ th \in [Threads -> Thread] /\ transition \in Phases
      BY Knows DEF Types, Phases
    <2>2. /\ y \in Thread /\ y.c = c /\ y.at = "record" /\ y.transition = transition
          /\ y.owed = th[t].owed /\ y.leases = th[t].leases
      BY <1>0, <2>1 DEF Thread, Points
    <2>3. th' = [th EXCEPT ![t] = y]
      BY <1>3, <2>1 DEF Thread
    <2>. HIDE DEF y
    <2>4. Only(t) /\ th'[t] = y /\ th' \in [Threads -> Thread]
      BY <2>1, <2>2, <2>3 DEF Only
    <2>5. entry' \in [Commitments -> EntryType] /\ Stands
      <3>1. entry \in [Commitments -> EntryType]
        BY <1>0 DEF Types
      <3>2. [entry[c] EXCEPT !.reserved = t] \in EntryType
        BY <1>0, <3>1 DEF EntryType
      <3>3. entry' = [entry EXCEPT ![c] = [entry[c] EXCEPT !.reserved = t]]
        BY <1>3
      <3>4. entry' \in [Commitments -> EntryType]
        BY <1>0, <3>1, <3>2, <3>3
      <3>. QED
        BY <1>0, <3>1, <3>3, <3>4 DEF Stands, Same, EntryType
    <2>6. Walks(t)
      BY <1>0, <2>4, <2>5 DEF Walks, Moves, policy, history, Types, RunsGoOn, Over
    <2>7. ThreadGoesOn(t)
      BY <1>0, <2>2, <2>4, <2>5, Knows DEF Walks, Moves, ThreadGoesOn, MoveGoesOn, PlaceOK, AllowedOK, DebtOK, RunsOK, HeldGoesOn,
         Places, Creating, Carrying, Recording, Paying, Dropping, Due, Removes, Stands, Same, history
    <2>. QED
      BY <2>6, <2>7, WalkKeeps
  <1>. QED
    BY <1>1, <1>2, <1>3 DEF Reserves

LEMMA AskKeeps == ASSUME Inv, NEW t \in Threads, Ask(t) PROVE Inv' /\ FinalStep
  <1>. DEFINE c == th[t].c
              live == LiveCheck(c, c \in late)
  <1>1. th[t].at = "ask" /\ lock = NoThread /\ UNCHANGED <<held, retained, lock, policy, history>>
    BY DEF Ask, At, Free
  <1>2. CASE Goes(t, "drop_if_final") /\ UNCHANGED entry
    BY <1>1, <1>2, RefusedKeeps DEF registry
  <1>3. CASE Goes(t, "dialog") /\ UNCHANGED entry
    BY <1>1, <1>3, RefusedKeeps DEF registry
  <1>4. CASE entry[c].state = "Prepared" /\ live # "live" /\ Ends(t, c, live, "drop_if_final")
    <2>1. entry[c].state \in Unconsumed /\ live \in Unstarted
      BY <1>4, LiveCheckIs DEF Unconsumed
    <2>. QED
      BY <1>1, <1>4, <2>1, EndsOwnKeeps
  <1>. QED
    BY <1>2, <1>3, <1>4 DEF Ask

LEMMA AnswerKeeps == ASSUME Inv, NEW t \in Threads, Answer(t) PROVE Inv' /\ FinalStep
  <1>. DEFINE c == th[t].c
  <1>1. th[t].at = "dialog" /\ UNCHANGED <<held, retained, lock, policy, history>>
    BY DEF Answer, At
  <1>2. CASE Reserves(t, c, "Prepared", "Approved", "drop_if_final")
    BY <1>1, <1>2, ReservesKeeps
  <1>3. CASE Free(t) /\ entry[c].state = "Prepared" /\ Ends(t, c, "Denied", "drop_if_final")
    BY <1>1, <1>3, EndsOwnKeeps DEF Free, Unconsumed, Unstarted
  <1>. QED
    BY <1>2, <1>3 DEF Answer

LEMMA ReserveAuthorizeKeeps == ASSUME Inv, NEW t \in Threads, ReserveAuthorize(t) PROVE Inv' /\ FinalStep
  BY ReservesKeeps DEF ReserveAuthorize, At

LEMMA StartKeeps == ASSUME Inv, NEW t \in Threads, Start(t) PROVE Inv' /\ FinalStep
  <1>. DEFINE c == th[t].c
  <1>1. th[t].at = "start" /\ UNCHANGED <<held, retained, lock, policy, history>>
    BY DEF Start, At
  <1>2. CASE Reserves(t, c, "Authorized", "Started", "fail_unstarted")
    BY <1>1, <1>2, ReservesKeeps
  <1>3. CASE Goes(t, "fail_unstarted") /\ UNCHANGED entry
    BY <1>1, <1>3, RefusedKeeps DEF registry
  <1>4. CASE Free(t) /\ entry[c].state = "Authorized" /\ Ends(t, c, "Failed", "fail_unstarted")
    BY <1>1, <1>4, EndsOwnKeeps DEF Free, Unconsumed, Unstarted
  <1>. QED
    BY <1>2, <1>3, <1>4 DEF Start

LEMMA FailUnstartedKeeps == ASSUME Inv, NEW t \in Threads, FailUnstarted(t) PROVE Inv' /\ FinalStep
  <1>. DEFINE c == th[t].c
  <1>1. th[t].at = "fail_unstarted" /\ lock = NoThread /\ UNCHANGED <<held, retained, lock, policy, history>>
    BY DEF FailUnstarted, At, Free
  <1>2. CASE entry[c].state \in Unconsumed /\ Ends(t, c, "Failed", "idle")
    BY <1>1, <1>2, EndsOwnKeeps DEF Unstarted
  <1>3. CASE entry[c].state \notin Unconsumed /\ Goes(t, "idle") /\ UNCHANGED entry
    <2>1. Walks(t) /\ th'[t] = Idle
      BY <1>1, <1>3, GoesWalks DEF registry, Points
    <2>2. ThreadGoesOn(t)
      BY <1>1, <1>3, <2>1, Knows, IdleIs DEF ThreadGoesOn, MoveGoesOn, PlaceOK, AllowedOK, DebtOK, RunsOK, HeldGoesOn,
         Places, Creating, Carrying, Recording, Paying, Dropping, Due, Removes
    <2>. QED
      BY <2>1, <2>2, WalkKeeps
  <1>. QED
    BY <1>2, <1>3 DEF FailUnstarted

\* The gating record, and a reservation dropped.
LEMMA RecordTransitionKeeps == ASSUME Inv, NEW t \in Threads, RecordTransition(t) PROVE Inv' /\ FinalStep
  <1>. DEFINE c == th[t].c
              y == [th[t] EXCEPT !.at = "complete", !.seen = c \in late]
  <1>1. th[t].at = "record" /\ UNCHANGED <<registry, lock, policy, ends, lease, world, barrier>>
    BY DEF RecordTransition, At
  <1>2. th[t] \in Thread /\ th \in [Threads -> Thread] /\ c \in Commitments /\ Types
    BY Knows DEF Types
  <1>3. CASE Goes(t, "withdraw") /\ UNCHANGED log
    BY <1>1, <1>3, RefusedKeeps DEF history
  <1>4. CASE /\ log' = [log EXCEPT ![c] = @ \cup {th[t].transition}]
             /\ th' = [th EXCEPT ![t].at = "complete", ![t].seen = c \in late]
    <2>1. y \in Thread /\ y.at = "complete" /\ Keeps(th[t], y)
      <3>1. (c \in late) \in BOOLEAN
        OBVIOUS
      <3>. QED
        BY <1>2, <3>1 DEF Thread, Points, Keeps
    <2>2. th' = [th EXCEPT ![t] = y]
      BY <1>2, <1>4 DEF Thread
    <2>. HIDE DEF y
    <2>3. Only(t) /\ th'[t] = y /\ th' \in [Threads -> Thread]
      BY <1>2, <2>1, <2>2 DEF Only
    <2>4. /\ log' \in [Commitments -> SUBSET Phases] /\ th[t].transition \in log'[c]
          /\ \A d \in Commitments : log[d] \subseteq log'[d]
      BY <1>2, <1>4 DEF Types, Thread
    <2>5. Walks(t)
      BY <1>1, <1>2, <2>3, <2>4 DEF Walks, Moves, registry, policy, Types, Stands, Same, RunsGoOn, Over
    <2>6. ThreadGoesOn(t)
      BY <1>1, <1>2, <2>1, <2>3, <2>4, <2>5, Knows DEF Walks, Moves, Keeps, ThreadGoesOn, MoveGoesOn, PlaceOK, AllowedOK, DebtOK,
         RunsOK, HeldGoesOn, Places, Creating, Carrying, Recording, Paying, Dropping, Due, Removes, registry
    <2>. QED
      BY <2>5, <2>6, WalkKeeps
  <1>. QED
    BY <1>3, <1>4 DEF RecordTransition

LEMMA WithdrawKeeps == ASSUME Inv, NEW t \in Threads, Withdraw(t) PROVE Inv' /\ FinalStep
  <1>. DEFINE c == th[t].c
              at == Refused(th[t].transition)
              e == [entry[c] EXCEPT !.reserved = IF @ = t THEN NoThread ELSE @]
  <1>1. /\ th[t].at = "withdraw" /\ lock = NoThread /\ Goes(t, at) /\ UNCHANGED <<held, retained, lock, policy, history>>
        /\ entry' = [entry EXCEPT ![c].reserved = IF @ = t THEN NoThread ELSE @]
    BY DEF Withdraw, At, Free
  <1>2. at \in {"drop_if_final", "fail_unstarted"} /\ at \in Points /\ at # "idle"
    BY DEF Refused, Points
  <1>3. c \in Commitments /\ Types /\ entry \in [Commitments -> EntryType]
    BY Knows DEF Types
  <1>4. th' \in [Threads -> Thread] /\ Only(t) /\ th'[t].at = at /\ Keeps(th[t], th'[t])
    BY <1>1, <1>2, <1>3, GoesIs
  <1>5. e \in EntryType /\ entry' = [entry EXCEPT ![c] = e]
    BY <1>1, <1>3 DEF EntryType
  <1>6. entry' \in [Commitments -> EntryType] /\ Stands
    <2>1. entry' \in [Commitments -> EntryType]
      BY <1>3, <1>5
    <2>. QED
      BY <1>3, <1>5, <2>1 DEF Stands, Same, EntryType
  <1>7. Walks(t)
    BY <1>1, <1>3, <1>4, <1>6 DEF Walks, Moves, policy, history, Types, RunsGoOn, Over
  <1>8. ThreadGoesOn(t)
    BY <1>1, <1>2, <1>3, <1>4, <1>6, Knows DEF Keeps, Refused, Walks, Moves, ThreadGoesOn, MoveGoesOn, PlaceOK, AllowedOK, DebtOK, RunsOK,
       HeldGoesOn, Places, Creating, Carrying, Recording, Paying, Dropping, Due, Removes, Stands, Same, history
  <1>. QED
    BY <1>7, <1>8, WalkKeeps

-----------------------------------------------------------------------------
\* complete: the lock is held from the check to the transition.
LEMMA CompleteKeeps == ASSUME Inv, NEW t \in Threads, Complete(t) PROVE Inv' /\ FinalStep
  <1>. DEFINE c == th[t].c
              refused == Refused(th[t].transition)
  <1>1. th[t].at = "complete" /\ lock = NoThread /\ UNCHANGED <<held, retained, policy, history>>
    BY DEF Complete, At, Free
  <1>2. CASE Goes(t, refused) /\ UNCHANGED <<entry, lock>>
    BY <1>1, <1>2, RefusedKeeps DEF registry
  <1>3. ASSUME NEW past, StillReserved(t, c), LiveCheck(c, past) # "live",
               Ends(t, c, LiveCheck(c, past), refused), UNCHANGED lock
        PROVE  Inv' /\ FinalStep
    <2>1. entry[c].state \in Unconsumed /\ LiveCheck(c, past) \in Unstarted
      BY <1>3, LiveCheckIs DEF StillReserved, Unconsumed
    <2>. QED
      BY <1>1, <1>3, <2>1, EndsOwnKeeps
  <1>4. CASE StillReserved(t, c) /\ lock' = t /\ Goes(t, "finalize") /\ UNCHANGED entry
    <2>1. Types /\ AllowedInv /\ c \in Commitments /\ NoThread \notin Threads
      BY Knows DEF Inv
    <2>2. th' \in [Threads -> Thread] /\ Only(t) /\ th'[t].at = "finalize" /\ Keeps(th[t], th'[t])
      BY <1>4, <2>1, GoesIs DEF Points
    <2>3. Moves(t)
      BY <1>1, <1>4, <2>1, <2>2 DEF Moves, Types, Stands, Same, RunsGoOn, Over, policy, history
    <2>4. MoveGoesOn(t)
      BY <1>1, <1>4, <2>2, <2>3, Knows DEF Moves, Keeps, MoveGoesOn, PlaceOK, DebtOK,
         RunsOK, HeldGoesOn, Places, Creating, Carrying, Recording, Paying, Dropping, Due, Removes
    <2>5. AllowedOK(t)'
      BY <1>1, <1>4, <2>1, <2>2, Knows DEF AllowedOK, Keeps, Recording, StillReserved, history
    <2>6. ASSUME NEW u \in Threads \ {t} PROVE AllowedOK(u)'
      BY <1>1, <1>4, <2>1, <2>2, <2>6 DEF AllowedInv, AllowedOK, Only, history
    <2>7. EvidenceFirst'
      BY <1>1, <1>4, <2>1 DEF AllowedInv, EvidenceFirst, history
    <2>8. AllowedInv'
      BY <1>4, <2>2, <2>5, <2>6, <2>7 DEF AllowedInv
    <2>. QED
      BY <2>3, <2>4, <2>8, MoveKeeps
  <1>. QED
    BY <1>2, <1>3, <1>4 DEF Complete

\* The transition is made: the commitment is as recorded.
LEMMA FinalizeKeeps == ASSUME Inv, NEW t \in Threads, Finalize(t) PROVE Inv' /\ FinalStep
  <1>. DEFINE c == th[t].c
              transition == th[t].transition
              to == CASE transition = "Approved" -> "authorize"
                      [] transition = "Authorized" -> "idle"
                      [] OTHER -> "executing"
              state == CASE transition = "Approved" -> entry[c].state
                         [] transition = "Authorized" -> "Authorized"
                         [] OTHER -> "Executing"
              e == [entry[c] EXCEPT !.reserved = NoThread, !.state = state]
  <1>0. /\ Types /\ PlaceInv /\ AllowedInv /\ DebtInv /\ RunsInv /\ HeldInv /\ WorldInv /\ PinInv
        /\ PlaceOK(t) /\ AllowedOK(t) /\ DebtOK(t) /\ c \in Commitments /\ NoThread \notin Threads
    BY Knows DEF Inv
  <1>1. /\ th[t].at = "finalize" /\ lock' = NoThread /\ UNCHANGED <<held, retained, policy, history>>
        /\ Goes(t, to)
        /\ entry' = [entry EXCEPT ![c].reserved = NoThread,
                              ![c].state = CASE transition = "Approved"   -> @
                                             [] transition = "Authorized" -> "Authorized"
                                             [] OTHER                     -> "Executing"]
    BY DEF Finalize, At
  <1>2. /\ transition \in {"Approved", "Authorized", "Started"} /\ transition \in log[c] /\ lock = t
        /\ entry[c].state = IF transition = "Started" THEN "Authorized" ELSE "Prepared"
        /\ transition = "Authorized" /\ c \in R2Actions => "Approved" \in log[c]
    BY <1>0, <1>1 DEF AllowedOK, Recording, StillReserved
  <1>3. /\ to = IF transition = "Approved" THEN "authorize" ELSE IF transition = "Authorized" THEN "idle"
                ELSE "executing"
        /\ state = IF transition = "Approved" THEN "Prepared" ELSE IF transition = "Authorized" THEN "Authorized"
                   ELSE "Executing"
        /\ to \in Points
    BY <1>2 DEF Points
  <1>. HIDE DEF to
  <1>4. th' \in [Threads -> Thread] /\ Only(t) /\ th'[t].at = to
        /\ (transition # "Authorized" => Keeps(th[t], th'[t])) /\ (transition = "Authorized" => th'[t] = Idle)
    BY <1>0, <1>1, <1>2, <1>3, GoesIs
  <1>5. entry \in [Commitments -> EntryType] /\ entry' = [entry EXCEPT ![c] = e]
    BY <1>0, <1>1 DEF Types
  <1>. HIDE DEF state
  <1>6. /\ e \in EntryType /\ e.state = state /\ e.pinned = entry[c].pinned
        /\ e.finished_started = entry[c].finished_started /\ e.uncertain = entry[c].uncertain
        /\ e.handoff = entry[c].handoff
    BY <1>0, <1>3, <1>5 DEF EntryType, CommitmentState, Unconsumed
  <1>. HIDE DEF e
  <1>7. entry' \in [Commitments -> EntryType] /\ entry'[c] = e /\ \A d \in Commitments \ {c} : entry'[d] = entry[d]
    BY <1>0, <1>5, <1>6
  <1>8. Types'
    BY <1>0, <1>1, <1>4, <1>7 DEF Types, policy, history
  <1>9. AllowedInv'
    <2>1. EvidenceFirst'
      BY <1>0, <1>1, <1>2, <1>3, <1>6, <1>7 DEF AllowedInv, EvidenceFirst, history
    <2>2. ASSUME NEW u \in Threads \ {t} PROVE AllowedOK(u)'
      <3>1. th'[u] = th[u] /\ AllowedOK(u) /\ lock # u
        BY <1>0, <1>2, <1>4, <2>2 DEF Only, AllowedInv
      <3>. QED
        BY <1>1, <3>1 DEF AllowedOK, history
    <2>3. AllowedOK(t)'
      BY <1>1, <1>2, <1>3, <1>4 DEF AllowedOK, Keeps, Recording, history
    <2>. QED
      BY <1>1, <2>1, <2>2, <2>3 DEF AllowedInv
  <1>10. CASE transition = "Approved"
    <2>1. Moves(t)
      BY <1>1, <1>2, <1>3, <1>4, <1>6, <1>7, <1>8, <1>10 DEF Moves, Stands, Same, RunsGoOn, Over, policy, history
    <2>2. MoveGoesOn(t)
      BY <1>0, <1>1, <1>3, <1>4, <1>10, Knows DEF Keeps, MoveGoesOn, PlaceOK, DebtOK,
         RunsOK, HeldGoesOn, Places, Creating, Carrying, Recording, Paying, Dropping, Due, Removes
    <2>. QED
      BY <1>9, <2>1, <2>2, MoveKeeps
  <1>11. CASE transition # "Approved"
    <2>1. /\ entry[c].state \in Unconsumed /\ state \in {"Authorized", "Executing"}
          /\ state = "Authorized" => ~Places(th'[t]) /\ th'[t].at = "idle"
          /\ state = "Executing" => th'[t].at = "executing" /\ th'[t].c = c /\ Carrying(th[t])
          /\ th'[t].at \in {"idle", "executing"} /\ th[t].at = "finalize"
          /\ ~Ended(c) /\ \A d \in Commitments : Ended(d)' = Ended(d)
      <3>1. \/ transition = "Authorized" /\ state = "Authorized" /\ to = "idle" /\ entry[c].state = "Prepared"
            \/ transition = "Started" /\ state = "Executing" /\ to = "executing" /\ entry[c].state = "Authorized"
        BY <1>2, <1>3, <1>11
      <3>2. ~Ended(c) /\ \A d \in Commitments : Ended(d)' = Ended(d)
        BY <1>6, <1>7, <3>1 DEF Ended, Final
      <3>. QED
        BY <1>1, <1>4, <3>1, <3>2 DEF Unconsumed, Places, Creating, Carrying, Recording, Paying, Keeps
    <2>2. PlaceInv'
      <3>1. ASSUME NEW u \in Threads \ {t} PROVE PlaceOK(u)'
        <4>1. th'[u] = th[u] /\ PlaceOK(u) /\ th[u].c \in Commitments
          BY <1>0, <1>4, <3>1, Fields DEF Only, PlaceInv
        <4>. QED
          BY <1>1, <1>6, <1>7, <2>1, <4>1 DEF PlaceOK, Places, Unconsumed, history
      <3>2. PlaceOK(t)'
        BY <1>0, <1>1, <1>3, <1>4, <1>6, <1>7, <2>1 DEF PlaceOK, Places, Creating, Carrying, Recording, Paying
      <3>3. \A v, u \in Threads : Apart(v, u)'
        BY <1>0, <1>4, <2>1 DEF PlaceInv, Apart, Places, Only, Creating, Carrying, Recording, Paying
      <3>4. \A d \in held' : entry'[d].state \notin {"absent", "refused"}
        BY <1>0, <1>1, <1>6, <1>7, <2>1 DEF PlaceInv, Types
      <3>. QED
        BY <3>1, <3>2, <3>3, <3>4 DEF PlaceInv
    <2>3. DebtInv'
      <3>1. \A u \in Threads : th'[u].owed = th[u].owed /\ th'[u].leases = th[u].leases
        BY <1>0, <1>1, <1>4, IdleIs DEF Only, Keeps, DebtOK
      <3>2. ASSUME NEW u \in Threads PROVE DebtOK(u)'
        BY <1>0, <1>1, <1>4, <2>1, <3>1, <3>2, Fields DEF DebtInv, DebtOK, Only, history
      <3>3. \A v, u \in Threads : OneOwes(v, u)'
        BY <1>0, <3>1 DEF DebtInv, OneOwes, Owes
      <3>4. ASSUME NEW d \in Commitments PROVE EndOK(d)'
        BY <1>0, <1>1, <1>7, <2>1, <3>1, <3>4 DEF DebtInv, EndOK, Owes, history, Unconsumed
      <3>. QED
        BY <3>2, <3>3, <3>4 DEF DebtInv
    <2>4. RunsInv'
      <3>1. RunsGoOn /\ (\A d \in Commitments : entry'[d].state \in Unconsumed => entry[d].state \in Unconsumed)
        BY <1>1, <1>7, <2>1 DEF RunsGoOn, Over, policy
      <3>2. RunsOK(t)'
        BY <2>1 DEF RunsOK, Paying, Dropping
      <3>. QED
        BY <1>0, <1>1, <1>4, <1>8, <3>1, <3>2, RunsKept DEF history
    <2>5. HeldInv'
      <3>1. ASSUME NEW d \in Commitments PROVE HeldOK(d)'
        <4>1. HeldOK(d)
          BY <1>0 DEF HeldInv
        <4>2. \A u \in Threads : Removes(th[u], d) => Removes(th'[u], d)
          <5>1. ~Removes(th[t], d)
            BY <1>1 DEF Removes, Due, Paying
          <5>. QED
            BY <1>4, <5>1 DEF Only
        <4>3. \A u \in Threads : Carrying(th[u]) /\ th[u].c = d => u = t \/ (Carrying(th'[u]) /\ th'[u].c = d)
          BY <1>4 DEF Only
        <4>4. CASE d # c
          BY <1>1, <1>4, <1>7, <4>1, <4>2, <4>3, <4>4 DEF HeldOK, policy
        <4>5. CASE d = c /\ state = "Executing"
          BY <1>0, <1>1, <2>1, <4>5 DEF HeldOK, PlaceOK, Places, Unconsumed, Carrying
        <4>6. CASE d = c /\ state = "Authorized"
          <5>1. ~Carrying(th[t])
            BY <1>1, <1>2, <1>3, <4>6 DEF Carrying, Recording, Paying
          <5>. QED
            BY <1>1, <1>6, <1>7, <2>1, <4>1, <4>3, <4>6, <5>1 DEF HeldOK, policy, Unconsumed
        <4>. QED
          BY <2>1, <4>4, <4>5, <4>6
      <3>2. ASSUME NEW u \in Threads, Due(th'[u], "unhold") PROVE Ended(th[u].c)'
        BY <1>0, <1>4, <2>1, <3>2, Fields DEF HeldInv, Only, Due, Paying
      <3>. QED
        BY <3>1, <3>2 DEF HeldInv
    <2>6. WorldInv'
      <3>1. Publication(c) = "Pending"
        BY <2>1 DEF Publication
      <3>2. c \notin world /\ (c \in FileActions => entry[c].pinned)
        BY <1>0, <2>1, <3>1 DEF WorldInv, WorldOK, Present, AckConclusive, Unconsumed
      <3>3. ASSUME NEW d \in Commitments PROVE WorldOK(d)'
        BY <1>0, <1>1, <1>6, <1>7, <2>1, <3>2, <3>3 DEF WorldInv, WorldOK, Present, AckConclusive, Publication, history
      <3>. QED
        BY <1>0, <1>1, <1>4, <2>1, <3>2, <3>3 DEF WorldInv, Only, history
    <2>7. PinInv'
      <3>1. \A r \in Runs : Pins(r)' = Pins(r)
        BY <1>6, <1>7, <2>1 DEF Pins, Present, Unconsumed
      <3>. QED
        BY <1>0, <1>1, <3>1 DEF PinInv, policy
    <2>8. FinalStep
      <3>1. RunOf[c] \notin barrier
        BY <1>0, <2>1 DEF RunsInv, Cleared
      <3>. QED
        BY <1>6, <1>7, <2>1, <3>1 DEF FinalStep, FinalOK
    <2>. QED
      BY <1>8, <1>9, <2>8, <2>2, <2>3, <2>4, <2>5, <2>6, <2>7 DEF Inv
  <1>. QED
    BY <1>10, <1>11

-----------------------------------------------------------------------------
\* The effect, under its guard: a change is handed to the kernel, or proven not
\* to be published.
LEMMA HandoffKeeps ==
  ASSUME Inv, NEW t \in Threads, HandingOff(t) \/ ProvenNotPublished(t)
  PROVE  Inv' /\ FinalStep
  <1>. DEFINE h == IF th[t].handoff = "not_handed_off" THEN "handed_off" ELSE "proven_not_published"
              y == [th[t] EXCEPT !.handoff = h]
  <1>1. /\ th[t].at = "executing" /\ UNCHANGED <<registry, lock, policy, history>>
        /\ h = "proven_not_published" => th[t].c \notin world
        /\ th' = [th EXCEPT ![t].handoff = h]
    BY DEF HandingOff, ProvenNotPublished, At
  <1>2. Types /\ th \in [Threads -> Thread] /\ th[t] \in Thread /\ h \in {"handed_off", "proven_not_published"}
    BY Knows DEF Types
  <1>. HIDE DEF h
  <1>3. /\ y \in Thread /\ y.at = th[t].at /\ y.c = th[t].c /\ y.owed = th[t].owed /\ y.leases = th[t].leases
        /\ y.then = th[t].then /\ y.runs = th[t].runs /\ y.transition = th[t].transition /\ y.handoff = h
    BY <1>2 DEF Thread, Handoff
  <1>4. th' = [th EXCEPT ![t] = y]
    BY <1>1, <1>2
  <1>. HIDE DEF y
  <1>5. th' \in [Threads -> Thread] /\ Only(t) /\ th'[t] = y
    BY <1>2, <1>3, <1>4 DEF Only
  <1>6. Walks(t)
    BY <1>1, <1>2, <1>5 DEF Walks, Moves, registry, policy, history, Types, Stands, Same, RunsGoOn, Over
  <1>7. ThreadGoesOn(t)
    BY <1>1, <1>2, <1>3, <1>5, <1>6, Knows DEF Walks, Moves, ThreadGoesOn, MoveGoesOn, PlaceOK, AllowedOK, DebtOK, RunsOK,
       HeldGoesOn, Places, Creating, Carrying, Recording, Paying, Dropping, Due, Removes, registry, history
  <1>. QED
    BY <1>6, <1>7, WalkKeeps

\* The effect happens while its thread executes it.
LEMMA EffectHappensKeeps == ASSUME Inv, NEW t \in Threads, EffectHappens(t) PROVE Inv' /\ FinalStep
  <1>. DEFINE c == th[t].c
  <1>0. /\ Types /\ PlaceInv /\ AllowedInv /\ DebtInv /\ RunsInv /\ HeldInv /\ WorldInv /\ PinInv
        /\ PlaceOK(t) /\ c \in Commitments
    BY Knows DEF Inv
  <1>1. /\ th[t].at = "executing" /\ (c \in FileActions => th[t].handoff = "handed_off")
        /\ world' = world \cup {c}
        /\ UNCHANGED <<entry, held, retained, lock, run, halted, stopped, generation, grant, late, th, log, ends,
                       lease, barrier>>
    BY DEF EffectHappens, At, registry, policy
  <1>2. entry[c].state = "Executing"
    BY <1>0, <1>1 DEF PlaceOK
  <1>3. Types'
    BY <1>0, <1>1 DEF Types
  <1>4. PlaceInv'
    BY <1>0, <1>1 DEF PlaceInv, PlaceOK, Apart, Places, Creating, Carrying
  <1>5. AllowedInv'
    <2>1. EvidenceFirst'
      BY <1>0, <1>1, <1>2 DEF AllowedInv, EvidenceFirst
    <2>. QED
      BY <1>0, <1>1, <2>1 DEF AllowedInv, AllowedOK, StillReserved
  <1>6. DebtInv'
    BY <1>0, <1>1 DEF DebtInv, DebtOK, OneOwes, Owes, EndOK, Ended
  <1>7. RunsInv'
    BY <1>0, <1>1 DEF RunsInv, RunsOK, Dropping, Cleared, Over
  <1>8. HeldInv'
    BY <1>0, <1>1 DEF HeldInv, HeldOK, Removes, Carrying, Due, Ended
  <1>9. WorldInv'
    <2>1. ASSUME NEW d \in Commitments PROVE WorldOK(d)'
      BY <1>0, <1>1, <1>2, <2>1 DEF WorldInv, WorldOK, Present, AckConclusive, Publication
    <2>2. ASSUME NEW u \in Threads, th[u].at = "executing", th[u].c = c PROVE u = t
      BY <1>0, <1>1, <2>2 DEF PlaceInv, Apart, Places, Carrying
    <2>. QED
      BY <1>0, <1>1, <2>1, <2>2 DEF WorldInv
  <1>10. PinInv'
    BY <1>0, <1>1 DEF PinInv, Pins, Present
  <1>11. FinalStep
    BY <1>1, StandsFinal DEF StatesStand
  <1>. QED
    BY <1>11, <1>3, <1>4, <1>5, <1>6, <1>7, <1>8, <1>9, <1>10 DEF Inv

\* The effect's own end, and what it came to.
LEMMA FinishKeeps == ASSUME Inv, NEW t \in Threads, Finish(t) PROVE Inv' /\ FinalStep
  <1>1. PICK o \in Outcomes(t) :
          entry' = [EndEntry({th[t].c}, o.state) EXCEPT ![th[t].c].finished_started = TRUE,
                                                        ![th[t].c].uncertain = o.uncertain,
                                                        ![th[t].c].handoff = th[t].handoff]
    BY DEF Finish
  <1>2. /\ th[t].at = "executing" /\ lock = NoThread /\ Owing(t, {th[t].c}, "idle")
        /\ UNCHANGED <<held, retained, lock, policy, history>>
    BY DEF Finish, At, Free
  <1>3. PICK c \in Commitments : c = th[t].c
    BY Knows
  <1>4. /\ Types /\ PlaceOK(t) /\ DebtOK(t) /\ WorldOK(c) /\ entry \in [Commitments -> EntryType]
        /\ c \in world /\ c \in FileActions => th[t].handoff = "handed_off"
        /\ th[t].handoff \in Handoff
    BY <1>2, <1>3, Knows, Fields DEF Inv, WorldInv, Types
  <1>5. /\ o.state \in {"Succeeded", "Failed", "Cancelled"} /\ o.uncertain \in BOOLEAN
        /\ o.state = "Succeeded" => c \in world
    BY <1>1, <1>3 DEF Outcomes
  <1>. DEFINE e == [entry[c] EXCEPT !.state = o.state, !.reserved = NoThread, !.finished_started = TRUE,
                                    !.uncertain = o.uncertain, !.handoff = th[t].handoff]
  <1>6. /\ e \in EntryType /\ e.state = o.state /\ e.pinned = entry[c].pinned /\ e.finished_started
        /\ e.handoff = th[t].handoff
    BY <1>4, <1>5 DEF EntryType, CommitmentState, Final
  <1>7. entry' = [entry EXCEPT ![c] = e]
    <2>1. EndEntry({c}, o.state) = [entry EXCEPT ![c] = [entry[c] EXCEPT !.state = o.state, !.reserved = NoThread]]
      BY <1>4 DEF EndEntry
    <2>. QED
      BY <1>1, <1>3, <1>4, <2>1 DEF EntryType
  <1>. HIDE DEF e
  <1>8. entry' \in [Commitments -> EntryType] /\ entry'[c] = e /\ \A d \in Commitments \ {c} : entry'[d] = entry[d]
    BY <1>4, <1>6, <1>7
  <1>9. /\ th' \in [Threads -> Thread] /\ Only(t) /\ th'[t].at = "leases" /\ th'[t].owed = {c}
        /\ th'[t].leases = {c} /\ th'[t].then = "idle" /\ th'[t].c = c
    BY <1>2, <1>3, <1>4, OwingIs DEF Points
  <1>10. Types'
    BY <1>2, <1>4, <1>8, <1>9 DEF Types, policy, history
  <1>11. entry[c].state = "Executing" /\ c \notin held
    BY <1>2, <1>3, <1>4 DEF PlaceOK, Places, Carrying
  <1>12. EndsOf(t, {c})
    BY <1>2, <1>5, <1>6, <1>8, <1>9, <1>10, <1>11 DEF EndsOf, Unended, Final
  <1>13. WorldOK(c)'
    <2>1. Publication(c) = "Pending"
      BY <1>11 DEF Publication
    <2>2. c \in FileActions => entry[c].pinned
      BY <1>4, <1>11, <2>1 DEF WorldOK, Present, AckConclusive
    <2>. QED
      BY <1>2, <1>4, <1>5, <1>6, <1>8, <2>2 DEF WorldOK, history
  <1>14. EndsGoOn(t, {c})
    BY <1>2, <1>3, <1>4, <1>9, <1>11, <1>13 DEF EndsGoOn, DebtOK, Carrying, RunEnds, Removes, Due, Paying
  <1>. QED
    BY <1>12, <1>14, EndsKeep

-----------------------------------------------------------------------------
\* Runs are opened, pruned and ended; time runs out; grants are revoked.
LEMMA EnvironmentKeeps == ASSUME Inv, Environment PROVE Inv' /\ FinalStep
  <1>1. Types /\ PinInv /\ NoThread \notin Threads
    BY CommitmentAssumptions DEF Inv
  <1>2. UNCHANGED <<entry, held, retained, lock, halted, th, log, ends, lease, world, barrier>>
    BY DEF Environment, OpenRun, PruneRun, DeadlinePasses, GrantExpires, Lift, registry, history
  <1>3. /\ run' \in [Runs -> RunState] /\ (\A r \in Runs : Over(r) => Over(r)')
        /\ \A r \in Runs : run'[r] = "pruned" => run[r] = "pruned" \/ retained[r] = 0
    BY <1>1 DEF Environment, OpenRun, PruneRun, DeadlinePasses, GrantExpires, Lift, Types, RunState, Over, Prunable
  <1>4. /\ stopped' \in BOOLEAN /\ generation' = generation
        /\ grant' \in [Grants -> {"live", "revoked", "expired"}] /\ late' \subseteq Commitments
    BY <1>1 DEF Environment, OpenRun, PruneRun, DeadlinePasses, GrantExpires, Lift, Types
  <1>5. Walks(NoThread)
    BY <1>1, <1>2, <1>3, <1>4 DEF Walks, Moves, Types, Only, Stands, Same, RunsGoOn
  <1>. QED
    BY <1>1, <1>5, WalkKeeps

\* A thread that ends runs: they are over, and their commitments yet to be revoked.
LEMMA EndsRuns ==
  ASSUME Inv, NEW t \in Threads, th[t].at = "idle", NEW S \in SUBSET Runs, NEW then \in RunEnds,
         th' = [th EXCEPT ![t].at = "revoke", ![t].runs = S, ![t].then = then],
         UNCHANGED <<registry, lock, generation, grant, late, history>>,
         halted' \in BOOLEAN, stopped' \in BOOLEAN, run' \in [Runs -> RunState],
         \A r \in Runs : (Over(r) => Over(r)') /\ (run'[r] = "pruned" => run[r] = "pruned"),
         \A r \in S : Over(r)'
  PROVE  Inv' /\ FinalStep
  <1>. DEFINE y == [th[t] EXCEPT !.at = "revoke", !.runs = S, !.then = then]
  <1>1. Types /\ th[t] \in Thread /\ th \in [Threads -> Thread]
    BY Knows DEF Types
  <1>2. /\ y \in Thread /\ y.at = "revoke" /\ y.runs = S /\ y.then = then /\ y.owed = th[t].owed
        /\ y.leases = th[t].leases
    BY <1>1 DEF Thread, Points, RunEnds
  <1>3. th' = [th EXCEPT ![t] = y]
    BY <1>1 DEF Thread
  <1>. HIDE DEF y
  <1>4. Only(t) /\ th'[t] = y /\ th' \in [Threads -> Thread]
    BY <1>1, <1>2, <1>3 DEF Only
  <1>5. Walks(t)
    BY <1>1, <1>4 DEF Walks, Moves, registry, history, Types, Stands, Same, RunsGoOn
  <1>6. ThreadGoesOn(t)
    BY <1>2, <1>4, Knows DEF ThreadGoesOn, MoveGoesOn, PlaceOK, AllowedOK, DebtOK, RunsOK, HeldGoesOn, Places,
       Creating, Carrying, Recording, Paying, Dropping, Due, Removes
  <1>. QED
    BY <1>5, <1>6, WalkKeeps

LEMMA EndRunKeeps == ASSUME Inv, NEW t \in Threads, NEW r \in Runs, EndRun(t, r) PROVE Inv' /\ FinalStep
  <1>. DEFINE S == {r}
  <1>1. Types /\ S \in SUBSET Runs /\ "drop_runs" \in RunEnds
    BY DEF Inv, RunEnds
  <1>2. /\ run' \in [Runs -> RunState] /\ halted' \in BOOLEAN /\ stopped' \in BOOLEAN
        /\ \A q \in Runs : (Over(q) => Over(q)') /\ (run'[q] = "pruned" => run[q] = "pruned")
        /\ \A q \in S : Over(q)'
    BY <1>1 DEF EndRun, Types, RunState, Over
  <1>3. /\ th[t].at = "idle" /\ UNCHANGED <<registry, lock, generation, grant, late, history>>
        /\ th' = [th EXCEPT ![t].at = "revoke", ![t].runs = S, ![t].then = "drop_runs"]
    BY DEF EndRun, At
  <1>. HIDE DEF S
  <1>. QED
    BY <1>1, <1>2, <1>3, EndsRuns

LEMMA CancelAllIs ==
  ASSUME Types, NEW S \in SUBSET Runs, run' = CancelAll(S)
  PROVE  /\ run' \in [Runs -> RunState] /\ Known(S) \in SUBSET Runs
         /\ \A r \in Runs : (Over(r) => Over(r)') /\ (run'[r] = "pruned" => run[r] = "pruned")
         /\ \A r \in Known(S) : Over(r)'
  BY DEF CancelAll, Known, Types, RunState, Over

LEMMA HaltDoorKeeps == ASSUME Inv, NEW t \in Threads, HaltDoor(t) PROVE Inv' /\ FinalStep
  <1>. DEFINE S == Known(DoorRuns)
  <1>0. Types /\ DoorRuns \in SUBSET Runs /\ "drop_runs_halted" \in RunEnds
    BY CommitmentAssumptions DEF Inv, RunEnds
  <1>1. /\ th[t].at = "idle" /\ run' = CancelAll(DoorRuns)
        /\ UNCHANGED <<registry, lock, generation, grant, late, history>>
        /\ halted' \in BOOLEAN /\ stopped' \in BOOLEAN
    BY <1>0 DEF HaltDoor, At, Types
  <1>2. th' = [th EXCEPT ![t].at = "revoke", ![t].runs = S, ![t].then = "drop_runs_halted"]
    BY <1>0 DEF HaltDoor, Types, Thread
  <1>. HIDE DEF S
  <1>. QED
    BY <1>0, <1>1, <1>2, CancelAllIs, EndsRuns DEF S

LEMMA StopAllKeeps == ASSUME Inv, NEW t \in Threads, StopAll(t) PROVE Inv' /\ FinalStep
  <1>. DEFINE S == Known(Runs)
  <1>0. Types /\ Runs \in SUBSET Runs /\ "bump" \in RunEnds
    BY DEF Inv, RunEnds
  <1>1. /\ th[t].at = "idle" /\ run' = CancelAll(Runs)
        /\ UNCHANGED <<registry, lock, generation, grant, late, history>>
        /\ halted' \in BOOLEAN /\ stopped' \in BOOLEAN
    BY <1>0 DEF StopAll, At, Types
  <1>2. th' = [th EXCEPT ![t].at = "revoke", ![t].runs = S, ![t].then = "bump"]
    BY <1>0 DEF StopAll, Types, Thread
  <1>. HIDE DEF S
  <1>. QED
    BY <1>0, <1>1, <1>2, CancelAllIs, EndsRuns DEF S

LEMMA RevokeGrantKeeps == ASSUME Inv, NEW t \in Threads, NEW g \in Grants, RevokeGrant(t, g) PROVE Inv' /\ FinalStep
  <1>0. Types
    BY DEF Inv
  <1>1. th[t].at = "idle" /\ Goes(t, "bump_grant")
        /\ UNCHANGED <<registry, lock, run, halted, stopped, generation, late, history>>
        /\ grant' \in [Grants -> {"live", "revoked", "expired"}]
    BY <1>0 DEF RevokeGrant, At, Types
  <1>2. th' \in [Threads -> Thread] /\ Only(t) /\ th'[t].at = "bump_grant" /\ Keeps(th[t], th'[t])
    BY <1>0, <1>1, GoesIs DEF Points
  <1>3. Walks(t)
    BY <1>0, <1>1, <1>2 DEF Walks, Moves, registry, history, Types, Stands, Same, RunsGoOn, Over
  <1>4. ThreadGoesOn(t)
    BY <1>1, <1>2, Knows, FreeGoesOn DEF Keeps, DebtOK, Places, Creating, Carrying, Recording, Paying, Due, Removes
  <1>. QED
    BY <1>3, <1>4, WalkKeeps

LEMMA BumpOfRevokeKeeps == ASSUME Inv, NEW t \in Threads, BumpOfRevoke(t) PROVE Inv' /\ FinalStep
  <1>0. Types
    BY DEF Inv
  <1>1. th[t].at = "bump_grant" /\ Goes(t, "idle") /\ generation' = generation + 1
        /\ UNCHANGED <<registry, lock, run, halted, stopped, grant, late, history>>
    BY DEF BumpOfRevoke, At
  <1>2. th' \in [Threads -> Thread] /\ Only(t) /\ th'[t] = Idle
    BY <1>0, <1>1, GoesIs DEF Points
  <1>3. Walks(t)
    BY <1>0, <1>1, <1>2 DEF Walks, Moves, registry, history, Types, Stands, Same, RunsGoOn, Over
  <1>4. ThreadGoesOn(t)
    BY <1>1, <1>2, Knows, FreeGoesOn, IdleIs DEF DebtOK, Places, Creating, Carrying, Recording, Paying, Due, Removes
  <1>. QED
    BY <1>3, <1>4, WalkKeeps

LEMMA BumpOfStopKeeps == ASSUME Inv, NEW t \in Threads, BumpOfStop(t) PROVE Inv' /\ FinalStep
  <1>. DEFINE y == [th[t] EXCEPT !.at = "drop_all", !.then = "idle"]
  <1>1. Types /\ th[t] \in Thread /\ th \in [Threads -> Thread]
    BY Knows DEF Types
  <1>2. th[t].at = "bump" /\ generation' = generation + 1
        /\ UNCHANGED <<registry, lock, run, halted, stopped, grant, late, history>>
    BY DEF BumpOfStop, At
  <1>3. /\ y \in Thread /\ y.at = "drop_all" /\ y.then = "idle" /\ y.runs = th[t].runs /\ y.owed = th[t].owed
        /\ y.leases = th[t].leases
    BY <1>1 DEF Thread, Points
  <1>4. th' = [th EXCEPT ![t] = y]
    BY <1>1 DEF BumpOfStop, Thread
  <1>. HIDE DEF y
  <1>5. Only(t) /\ th'[t] = y /\ th' \in [Threads -> Thread]
    BY <1>1, <1>3, <1>4 DEF Only
  <1>6. Walks(t)
    BY <1>1, <1>2, <1>5 DEF Walks, Moves, registry, history, Types, Stands, Same, RunsGoOn, Over
  <1>7. ThreadGoesOn(t)
    <2>1. RunsOK(t)'
      BY <1>1, <1>2, <1>3, <1>5, Knows DEF RunsOK, Dropping, Paying, Cleared, Over, registry, Types
    <2>2. DebtOK(t)'
      BY <1>1, <1>2, <1>3, <1>5, Knows DEF DebtOK, Ended, registry, history
    <2>. QED
      BY <1>2, <1>3, <1>5, <2>1, <2>2, Knows DEF ThreadGoesOn, MoveGoesOn, PlaceOK, AllowedOK, HeldGoesOn, Places,
         Creating, Carrying, Recording, Paying, Due, Removes
  <1>. QED
    BY <1>6, <1>7, WalkKeeps

-----------------------------------------------------------------------------
\* The calls that end commitments of others: deny, the sweep and a revocation.
LEMMA DenyKeeps == ASSUME Inv, NEW t \in Threads, NEW c \in Commitments, Deny(t, c) PROVE Inv' /\ FinalStep
  <1>. DEFINE S == {c}
              y == [th[t] EXCEPT !.at = "leases", !.c = c, !.owed = S, !.leases = S, !.then = "unhold"]
  <1>1. Types /\ th[t] \in Thread /\ th \in [Threads -> Thread] /\ DebtOK(t)
    BY Knows DEF Types
  <1>2. /\ th[t].at = "idle" /\ lock = NoThread /\ entry[c].state \in Unconsumed
        /\ UNCHANGED <<held, retained, lock, policy, history>> /\ entry' = EndEntry(S, "Denied")
    BY DEF Deny, At, Free
  <1>3. y \in Thread /\ y.at = "leases" /\ y.c = c /\ y.owed = S /\ y.leases = S /\ y.then = "unhold"
    BY <1>1 DEF Thread, Points
  <1>4. th' = [th EXCEPT ![t] = y]
    BY <1>1 DEF Deny, Thread
  <1>5. S \in SUBSET Commitments /\ c \in S /\ (\A d \in S : d = c) /\ "Denied" \in CommitmentState
    BY DEF CommitmentState, Final
  <1>. HIDE DEF y, S
  <1>6. Only(t) /\ th'[t] = y /\ th' \in [Threads -> Thread]
    BY <1>1, <1>3, <1>4 DEF Only
  <1>7. /\ entry' \in [Commitments -> EntryType] /\ entry'[c].state = "Denied" /\ entry'[c].pinned = entry[c].pinned
        /\ \A d \in Commitments \ S : entry'[d] = entry[d]
    BY <1>1, <1>2, <1>5, EndEntryIs
  <1>8. Types'
    BY <1>1, <1>2, <1>6, <1>7 DEF Types, policy, history
  <1>9. EndsOf(t, S)
    BY <1>2, <1>3, <1>5, <1>6, <1>7, <1>8 DEF EndsOf, Unended, Final
  <1>10. WorldOK(c)'
    BY <1>2, <1>7, UnstartedWorld DEF history, Unstarted
  <1>11. EndsGoOn(t, S)
    BY <1>1, <1>2, <1>3, <1>5, <1>6, <1>10 DEF EndsGoOn, DebtOK, Carrying, Recording, Paying, RunEnds, Removes, Due, Unconsumed
  <1>. QED
    BY <1>9, <1>11, EndsKeep

LEMMA SweepKeeps == ASSUME Inv, NEW t \in Threads, Sweep(t) PROVE Inv' /\ FinalStep
  <1>. DEFINE S == {c \in Present : entry[c].state \in Unconsumed /\ LiveCheck(c, c \in late) # "live"}
  <1>1. Types /\ DebtOK(t)
    BY Knows
  <1>2. /\ th[t].at = "sweep" /\ lock = NoThread /\ UNCHANGED <<held, retained, lock, policy, history>>
        /\ Owing(t, S, "take_dead")
        /\ entry' = [c \in Commitments |->
                       IF c \in S THEN EndEntry(S, LiveCheck(c, c \in late))[c] ELSE entry[c]]
    BY DEF Sweep, At, Free
  <1>3. S \in SUBSET Commitments /\ \A c \in S : entry[c].state \in Unconsumed /\ LiveCheck(c, c \in late) \in Unstarted
    BY LiveCheckIs DEF Present
  <1>. HIDE DEF S
  <1>4. ASSUME NEW c \in S
        PROVE  entry'[c] \in EntryType /\ entry'[c].state \in Unstarted /\ entry'[c].pinned = entry[c].pinned
    <2>1. PICK state \in Unstarted : state = LiveCheck(c, c \in late)
      BY <1>3, <1>4
    <2>2. PICK e : e = EndEntry(S, state)
      OBVIOUS
    <2>3. entry'[c] = e[c]
      BY <1>2, <1>3, <1>4, <2>1, <2>2, Zenon
    <2>4. state \in CommitmentState
      BY DEF Unstarted, CommitmentState, Final
    <2>. QED
      BY <1>1, <1>3, <1>4, <2>2, <2>3, <2>4, EndEntryIs
  <1>5. \A d \in Commitments \ S : entry'[d] = entry[d]
    BY <1>2
  <1>6. entry' \in [Commitments -> EntryType]
    <2>1. \A c \in Commitments : entry'[c] \in EntryType
      BY <1>1, <1>4, <1>5, Fields
    <2>. QED
      BY <1>2, <2>1
  <1>7. /\ th' \in [Threads -> Thread] /\ Only(t)
        /\ th'[t].at = "leases" /\ th'[t].owed = S /\ th'[t].leases = S /\ th'[t].then = "take_dead"
    BY <1>1, <1>2, <1>3, OwingIs DEF Points
  <1>8. Types'
    BY <1>1, <1>2, <1>6, <1>7 DEF Types, policy, history
  <1>9. EndsOf(t, S)
    BY <1>2, <1>3, <1>4, <1>5, <1>7, <1>8 DEF EndsOf, Unended, Unstarted, Final
  <1>10. \A c \in S : WorldOK(c)'
    BY <1>2, <1>3, <1>4, UnstartedWorld DEF history
  <1>11. EndsGoOn(t, S)
    BY <1>1, <1>2, <1>3, <1>7, <1>10 DEF EndsGoOn, DebtOK, Carrying, Recording, Paying, RunEnds, Removes, Due, Unconsumed
  <1>. QED
    BY <1>9, <1>11, EndsKeep

LEMMA RevokeKeeps == ASSUME Inv, NEW t \in Threads, Revoke(t) PROVE Inv' /\ FinalStep
  <1>0. PICK S : S = RevokedOf(t)
    OBVIOUS
  <1>1. Types /\ DebtOK(t) /\ RunsOK(t) /\ th[t].runs \subseteq Runs /\ th[t] \in Thread
    BY Knows, Fields
  <1>2. /\ th[t].at = "revoke" /\ lock = NoThread /\ UNCHANGED <<held, retained, lock, policy, history>>
        /\ entry' = EndEntry(S, "Revoked") /\ Owing(t, S, th[t].then)
    BY <1>0 DEF Revoke, At, Free
  <1>3. /\ S \in SUBSET Commitments /\ "Revoked" \in CommitmentState
        /\ \A c \in S : entry[c].state \in Unconsumed /\ (th[t].then = "bump" \/ RunOf[c] \in th[t].runs)
        /\ \A c \in Commitments \ S : RunOf[c] \in th[t].runs => entry[c].state \notin Unconsumed
    BY <1>0 DEF RevokedOf, Present, Unconsumed, CommitmentState, Final
  <1>4. th[t].then \in RunEnds /\ th[t].then \in Points /\ \A r \in th[t].runs : Over(r)
    BY <1>1, <1>2 DEF RunsOK, Thread
  <1>5. /\ entry' \in [Commitments -> EntryType]
        /\ \A c \in S : entry'[c].state = "Revoked" /\ entry'[c].pinned = entry[c].pinned
        /\ \A d \in Commitments \ S : entry'[d] = entry[d]
    <2>1. Types /\ S \in SUBSET Commitments /\ "Revoked" \in CommitmentState /\ entry' = EndEntry(S, "Revoked")
      BY <1>1, <1>2, <1>3
    <2>. QED
      BY <2>1, EndEntryIs
  <1>6. /\ th' \in [Threads -> Thread] /\ Only(t) /\ th'[t].at = "leases" /\ th'[t].owed = S /\ th'[t].leases = S
        /\ th'[t].then = th[t].then /\ th'[t].runs = th[t].runs
    BY <1>1, <1>2, <1>3, <1>4, OwingIs
  <1>7. Types'
    BY <1>1, <1>2, <1>5, <1>6 DEF Types, policy, history
  <1>8. EndsOf(t, S)
    BY <1>2, <1>3, <1>5, <1>6, <1>7 DEF EndsOf, Unended, Final
  <1>9. \A c \in S : WorldOK(c)'
    BY <1>2, <1>3, <1>5, UnstartedWorld DEF history, Unstarted
  <1>10. \A c \in S \cap held : Removes(th'[t], c)
    BY <1>3, <1>4, <1>6 DEF Removes, Due, Paying, RunEnds
  <1>11. EndsGoOn(t, S)
    BY <1>1, <1>2, <1>3, <1>4, <1>6, <1>9, <1>10 DEF EndsGoOn, DebtOK, Carrying, Recording, Paying, RunEnds, Removes, Due, Unconsumed
  <1>. QED
    BY <1>8, <1>11, EndsKeep

-----------------------------------------------------------------------------
\* A step of thread t on the table of the effects that wait.
OnTable(t) ==
  /\ Types' /\ Only(t) /\ UNCHANGED <<entry, retained, lock, run, generation, log, ends, lease, world>>
  /\ th[t].at # "finalize" /\ th'[t].at \notin {"executing", "finalize"}
TableGoesOn(t) ==
  /\ DebtOK(t)' /\ RunsOK(t)' /\ AllowedOK(t)' /\ ~Due(th'[t], "unhold")
  /\ th'[t].owed = th[t].owed /\ th'[t].leases = th[t].leases
  /\ \A r \in barrier' : r \in barrier \/ Cleared(r)
  /\ \A d \in held' : d \in held \/ entry[d].state \in Unconsumed
  /\ \A d \in held' : Removes(th[t], d) /\ entry[d].state \notin Unconsumed => Removes(th'[t], d)
  /\ \A d \in Commitments :
        /\ generation = 0 /\ entry[d].state \in Unconsumed
        /\ d \in held \/ (Carrying(th[t]) /\ th[t].c = d)
        => d \in held' \/ (Carrying(th'[t]) /\ th'[t].c = d)
LEMMA TableKeeps ==
  ASSUME Inv, NEW t \in Threads, OnTable(t), TableGoesOn(t), PlaceInv'
  PROVE  Inv' /\ FinalStep
  <1>0. /\ Types /\ AllowedInv /\ DebtInv /\ RunsInv /\ HeldInv /\ WorldInv /\ PinInv
        /\ StatesStand /\ Stands /\ Types' /\ Only(t) /\ RunsGoOn
        /\ lock # t
    BY Knows DEF Inv, OnTable, Stands, Same, StatesStand, RunsGoOn, Over
  <1>1. AllowedInv'
    BY <1>0, AllowedKept DEF OnTable, TableGoesOn
  <1>2. DebtInv'
    BY <1>0, DebtKept DEF OnTable, TableGoesOn
  <1>3. RunsInv'
    <2>1. \A r \in barrier' : r \in barrier \/ Cleared(r)'
      BY DEF OnTable, TableGoesOn, Cleared, Over
    <2>. QED
      BY <1>0, <2>1, RunsKept DEF OnTable, TableGoesOn, StatesStand
  <1>4. HeldInv'
    <2>1. ASSUME NEW d \in Commitments PROVE HeldOK(d)'
      <3>1. HeldOK(d) /\ entry'[d].state = entry[d].state /\ generation' = generation
        BY <1>0 DEF HeldInv, OnTable
      <3>2. ASSUME d \in held', entry[d].state \notin Unconsumed
            PROVE  \E u \in Threads : Removes(th'[u], d)
        BY <1>0, <3>1, <3>2 DEF HeldOK, Only, TableGoesOn
      <3>3. ASSUME generation = 0, entry[d].state \in Unconsumed, d \notin held'
            PROVE  \E u \in Threads : Carrying(th'[u]) /\ th'[u].c = d
        BY <1>0, <3>1, <3>3 DEF HeldOK, Only, TableGoesOn
      <3>. QED
        BY <3>1, <3>2, <3>3 DEF HeldOK
    <2>2. ASSUME NEW u \in Threads, Due(th'[u], "unhold") PROVE Ended(th[u].c)'
      <3>1. Ended(th'[u].c) /\ th'[u].c \in Commitments
        BY <1>0, <2>2, Fields DEF HeldInv, Only, TableGoesOn
      <3>. QED
        BY <1>0, <3>1 DEF Ended, StatesStand
    <2>. QED
      BY <2>1, <2>2 DEF HeldInv
  <1>5. WorldInv'
    BY <1>0, WorldKept DEF OnTable
  <1>6. PinInv'
    BY <1>0, PinKept DEF OnTable
  <1>. QED
    BY <1>0, <1>1, <1>2, <1>3, <1>4, <1>5, <1>6, StandsFinal DEF Inv

\* An effect that is put into the table was carried there.
LEMMA FillPlaceKeeps == ASSUME Inv, NEW t \in Threads, FillPlace(t) PROVE Inv' /\ FinalStep
  <1>1. PICK c \in Commitments : c = th[t].c
    BY Knows
  <1>2. /\ th[t].at = "fill" /\ th' = [th EXCEPT ![t] = Idle] /\ held' = Fill(c)
        /\ UNCHANGED <<entry, retained, lock, policy, history>>
    BY <1>1 DEF FillPlace, At
  <1>3. Types /\ PlaceInv /\ th \in [Threads -> Thread] /\ DebtOK(t)
    BY Knows DEF Inv, Types
  <1>4. Only(t) /\ th'[t] = Idle /\ th' \in [Threads -> Thread]
    BY <1>2, <1>3, IdleIs DEF Only
  <1>5. held' \subseteq Commitments /\ held \subseteq held' /\ (\A d \in held' : d \in held \/ (d = c /\ entry[d].state \in Unconsumed))
        /\ (entry[c].state \in Unconsumed => c \in held')
    BY <1>2, <1>3 DEF Fill, Types
  <1>6. OnTable(t)
    BY <1>2, <1>3, <1>4, <1>5, IdleIs DEF OnTable, Types, policy, history
  <1>7. TableGoesOn(t)
    BY <1>1, <1>2, <1>3, <1>4, <1>5, IdleIs DEF TableGoesOn, DebtOK, RunsOK, AllowedOK, Dropping, Due, Removes, Carrying,
       Recording, Paying, history
  <1>8. PlaceInv'
    <2>1. ~Places(th'[t])
      BY <1>4, IdleIs DEF Places, Creating, Carrying, Recording, Paying
    <2>2. ASSUME NEW u \in Threads \ {t}, Places(th[u]) PROVE th[u].c # c
      BY <1>1, <1>2, <1>3, <2>2 DEF PlaceInv, Apart, Places, Carrying
    <2>3. ASSUME NEW u \in Threads PROVE PlaceOK(u)'
      <3>1. CASE u = t
        BY <1>4, <2>1, <3>1, IdleIs DEF PlaceOK, Places
      <3>2. CASE u # t
        BY <1>2, <1>3, <1>4, <1>5, <2>2, <2>3, <3>2 DEF PlaceInv, PlaceOK, Places, Only, history
      <3>. QED
        BY <3>1, <3>2
    <2>4. \A v, u \in Threads : Apart(v, u)'
      BY <1>3, <1>4, <2>1 DEF PlaceInv, Apart, Places, Only
    <2>5. \A d \in held' : entry'[d].state \notin {"absent", "refused"}
      BY <1>2, <1>3, <1>5 DEF PlaceInv, Unconsumed
    <2>. QED
      BY <2>3, <2>4, <2>5 DEF PlaceInv
  <1>. QED
    BY <1>6, <1>7, <1>8, TableKeeps

\* An effect that is taken out of the table is carried on.
LEMMA ExecuteKeeps == ASSUME Inv, NEW t \in Threads, NEW c \in Commitments, Execute(t, c) PROVE Inv' /\ FinalStep
  <1>. DEFINE y == [th[t] EXCEPT !.at = "start", !.c = c]
  <1>1. Types /\ PlaceInv /\ th \in [Threads -> Thread] /\ th[t] \in Thread /\ DebtOK(t)
    BY Knows DEF Inv, Types
  <1>2. /\ th[t].at = "idle" /\ c \in held /\ held' = held \ {c}
        /\ UNCHANGED <<entry, retained, lock, policy, history>>
    BY DEF Execute, At
  <1>3. y \in Thread /\ y.at = "start" /\ y.c = c /\ y.owed = th[t].owed /\ y.leases = th[t].leases
    BY <1>1 DEF Thread, Points
  <1>4. th' = [th EXCEPT ![t] = y]
    BY <1>1 DEF Execute, Thread
  <1>. HIDE DEF y
  <1>5. Only(t) /\ th'[t] = y /\ th' \in [Threads -> Thread]
    BY <1>1, <1>3, <1>4 DEF Only
  <1>6. OnTable(t)
    BY <1>1, <1>2, <1>3, <1>5 DEF OnTable, Types, policy, history
  <1>7. TableGoesOn(t)
    BY <1>1, <1>2, <1>3, <1>5 DEF TableGoesOn, DebtOK, RunsOK, AllowedOK, Dropping, Due, Removes, Carrying,
       Recording, Paying, history
  <1>8. PlaceInv'
    <2>1. PlaceOK(t)'
      BY <1>1, <1>2, <1>3, <1>5 DEF PlaceInv, PlaceOK, Places, Creating, Carrying
    <2>2. \A u \in Threads \ {t} : /\ Places(th[u]) => th[u].c # th'[t].c
                                   /\ Creating(th[u]) => th[u].c \notin lease'
      BY <1>1, <1>2, <1>3, <1>5 DEF PlaceInv, PlaceOK, history
    <2>. QED
      BY <1>1, <1>2, <1>5, <1>6, <2>1, <2>2, PlaceKept DEF OnTable, StatesStand
  <1>. QED
    BY <1>6, <1>7, <1>8, TableKeeps

\* Effects that no commitment needs are dropped from it.
LEMMA DropKeeps ==
  ASSUME Inv, NEW t \in Threads, OnTable(t), TableGoesOn(t), held' \subseteq held, ~Places(th'[t])
  PROVE  Inv' /\ FinalStep
  <1>1. PlaceOK(t)' /\ Types /\ PlaceInv
    BY DEF PlaceOK, OnTable, Places, Creating, Carrying, Inv
  <1>2. \A u \in Threads \ {t} : Creating(th[u]) => th[u].c \notin lease'
    BY <1>1 DEF PlaceInv, PlaceOK, OnTable
  <1>3. PlaceInv'
    BY <1>1, <1>2, PlaceKept DEF OnTable, StatesStand
  <1>. QED
    BY <1>3, TableKeeps

LEMMA DropIfFinalKeeps == ASSUME Inv, NEW t \in Threads, DropIfFinal(t) PROVE Inv' /\ FinalStep
  <1>1. PICK c \in Commitments : c = th[t].c
    BY Knows
  <1>2. /\ th[t].at = "drop_if_final" /\ Goes(t, "idle") /\ UNCHANGED <<entry, retained, lock, policy, history>>
        /\ held' = IF entry[c].state \in Unconsumed THEN held ELSE held \ {c}
    BY <1>1 DEF DropIfFinal, At
  <1>3. Types /\ DebtOK(t)
    BY Knows
  <1>4. Only(t) /\ th'[t] = Idle /\ th' \in [Threads -> Thread]
    BY <1>2, <1>3, GoesIs DEF Points
  <1>5. OnTable(t)
    BY <1>2, <1>3, <1>4, IdleIs DEF OnTable, Types, policy, history
  <1>6. TableGoesOn(t)
    BY <1>1, <1>2, <1>3, <1>4, IdleIs DEF TableGoesOn, DebtOK, RunsOK, AllowedOK, Dropping, Due, Removes, Carrying,
       Recording, Paying, history
  <1>. QED
    BY <1>2, <1>4, <1>5, <1>6, IdleIs, DropKeeps DEF Places, Creating, Carrying, Recording, Paying

LEMMA UnholdKeeps == ASSUME Inv, NEW t \in Threads, Unhold(t) PROVE Inv' /\ FinalStep
  <1>1. PICK c \in Commitments : c = th[t].c
    BY Knows
  <1>2. /\ th[t].at = "unhold" /\ Goes(t, "sweep") /\ UNCHANGED <<entry, retained, lock, policy, history>>
        /\ held' = held \ {c}
    BY <1>1 DEF Unhold, At
  <1>3. Types /\ DebtOK(t) /\ entry[c].state \notin Unconsumed
    BY <1>1, <1>2, Knows DEF Due, Ended, Unconsumed, Final
  <1>4. Only(t) /\ th'[t].at = "sweep" /\ Keeps(th[t], th'[t]) /\ th' \in [Threads -> Thread]
    BY <1>2, <1>3, GoesIs DEF Points
  <1>5. OnTable(t)
    BY <1>2, <1>3, <1>4 DEF OnTable, Types, policy, history
  <1>6. TableGoesOn(t)
    BY <1>1, <1>2, <1>3, <1>4 DEF TableGoesOn, Keeps, DebtOK, RunsOK, AllowedOK, Dropping, Due, Removes, Carrying,
       Recording, Paying, history
  <1>. QED
    BY <1>2, <1>4, <1>5, <1>6, DropKeeps DEF Places, Creating, Carrying, Recording, Paying

LEMMA TakeDeadKeeps == ASSUME Inv, NEW t \in Threads, TakeDead(t) PROVE Inv' /\ FinalStep
  <1>1. /\ th[t].at = "take_dead" /\ Goes(t, "idle") /\ UNCHANGED <<entry, retained, lock, policy, history>>
        /\ held' = {c \in held : entry[c].state \in Unconsumed}
    BY DEF TakeDead, At
  <1>2. Types /\ DebtOK(t)
    BY Knows
  <1>3. Only(t) /\ th'[t] = Idle /\ th' \in [Threads -> Thread]
    BY <1>1, <1>2, GoesIs DEF Points
  <1>4. OnTable(t)
    BY <1>1, <1>2, <1>3, IdleIs DEF OnTable, Types, policy, history
  <1>5. TableGoesOn(t)
    BY <1>1, <1>2, <1>3, IdleIs DEF TableGoesOn, DebtOK, RunsOK, AllowedOK, Dropping, Due, Removes, Carrying,
       Recording, Paying, history
  <1>. QED
    BY <1>1, <1>3, <1>4, <1>5, IdleIs, DropKeeps DEF Places, Creating, Carrying, Recording, Paying

LEMMA DropAllKeeps == ASSUME Inv, NEW t \in Threads, DropAll(t) PROVE Inv' /\ FinalStep
  <1>1. /\ th[t].at = "drop_all" /\ Goes(t, "records") /\ held' = {} /\ barrier' = barrier \cup th[t].runs
        /\ UNCHANGED <<entry, retained, lock, policy, log, ends, lease, world>>
    BY DEF DropAll, At
  <1>2. Types /\ DebtOK(t) /\ RunsOK(t) /\ th[t].runs \subseteq Runs
    BY Knows, Fields
  <1>3. Only(t) /\ th'[t].at = "records" /\ Keeps(th[t], th'[t]) /\ th' \in [Threads -> Thread]
    BY <1>1, <1>2, GoesIs DEF Points
  <1>4. OnTable(t)
    BY <1>1, <1>2, <1>3 DEF OnTable, Types, policy
  <1>5. TableGoesOn(t)
    <2>1. th'[t].then = "idle" /\ generation # 0
      BY <1>1, <1>2, <1>3 DEF RunsOK, Keeps
    <2>2. \A r \in th[t].runs : Cleared(r)
      BY <1>1, <1>2 DEF RunsOK, Dropping
    <2>3. DebtOK(t)'
      BY <1>1, <1>2, <1>3 DEF DebtOK, Keeps, Ended
    <2>. QED
      BY <1>1, <1>3, <2>1, <2>2, <2>3 DEF TableGoesOn, Keeps, RunsOK, RunEnds, AllowedOK, Dropping, Due, Carrying,
         Recording, Paying
  <1>6. ~Places(th'[t])
    BY <1>1, <1>2, <1>3 DEF Places, Creating, Carrying, Recording, Paying, RunsOK, Keeps
  <1>. QED
    BY <1>1, <1>4, <1>5, <1>6, DropKeeps

LEMMA DropRunsKeeps == ASSUME Inv, NEW t \in Threads, DropRuns(t) PROVE Inv' /\ FinalStep
  <1>. DEFINE z == [th[t] EXCEPT !.at = "records", !.then = "idle"]
  <1>1. /\ th[t].at \in {"drop_runs", "drop_runs_halted"} /\ barrier' = barrier \cup th[t].runs
        /\ held' = {c \in held : RunOf[c] \notin th[t].runs}
        /\ UNCHANGED <<entry, retained, lock, policy, log, ends, lease, world>>
    BY DEF DropRuns, At
  <1>2. /\ Types /\ DebtOK(t) /\ RunsOK(t) /\ th[t].runs \subseteq Runs /\ th[t] \in Thread
        /\ th \in [Threads -> Thread]
    BY Knows, Fields DEF Types
  <1>3. PICK y : y = IF th[t].at = "drop_runs" THEN Idle ELSE z
    OBVIOUS
  <1>4. y \in Thread /\ y.at \in {"idle", "records"} /\ (y.at = "records" => y.then = "idle")
        /\ y.owed = th[t].owed /\ y.leases = th[t].leases /\ (y.at = "idle" => y.owed = {})
    <2>1. z \in Thread /\ z.at = "records" /\ z.then = "idle" /\ z.owed = th[t].owed /\ z.leases = th[t].leases
      BY <1>2 DEF Thread, Points
    <2>2. th[t].leases = {} /\ (th[t].at = "drop_runs" => th[t].owed = {})
      BY <1>1, <1>2 DEF DebtOK
    <2>. QED
      BY <1>1, <1>3, <2>1, <2>2, IdleIs
  <1>5. th' = [th EXCEPT ![t] = y]
    BY <1>2, <1>3 DEF DropRuns, At
  <1>6. Only(t) /\ th'[t] = y /\ th' \in [Threads -> Thread]
    BY <1>2, <1>4, <1>5 DEF Only
  <1>7. OnTable(t)
    BY <1>1, <1>2, <1>4, <1>6 DEF OnTable, Types, policy
  <1>8. \A r \in th[t].runs : Cleared(r)
    BY <1>1, <1>2 DEF RunsOK, Dropping
  <1>9. DebtOK(t)'
    BY <1>1, <1>2, <1>4, <1>6 DEF DebtOK, Ended
  <1>10. \A c \in held : entry[c].state \in Unconsumed => RunOf[c] \notin th[t].runs
    BY <1>2, <1>8 DEF Cleared, Types
  <1>11. TableGoesOn(t)
    BY <1>1, <1>2, <1>4, <1>6, <1>8, <1>9, <1>10 DEF TableGoesOn, RunsOK, RunEnds, AllowedOK, Dropping, Due, Removes,
       Carrying, Recording, Paying
  <1>12. ~Places(th'[t])
    BY <1>4, <1>6 DEF Places, Creating, Carrying, Recording, Paying
  <1>. QED
    BY <1>1, <1>7, <1>11, <1>12, DropKeeps

-----------------------------------------------------------------------------
\* A call pays what it owes, and goes on where it was to go.
Pays(t) ==
  /\ Types' /\ Only(t) /\ UNCHANGED <<entry, held, retained, lock, run, generation, log, world, barrier>>
  /\ th[t].at \in Paying
  /\ \/ /\ th'[t].at = "records" /\ th'[t].then = th[t].then /\ th[t].then \notin {"bump", "drop_runs_halted"}
        /\ th'[t].c = th[t].c /\ th'[t].runs = th[t].runs
     \/ /\ th'[t].at = th[t].then /\ th[t].then # "idle"
        /\ th'[t].c = th[t].c /\ th'[t].runs = th[t].runs
     \/ th'[t].at = "idle" /\ th[t].then = "idle"
LEMMA PayKeeps ==
  ASSUME Inv, NEW t \in Threads, Pays(t), DebtInv',
         \A u \in Threads : Creating(th[u]) => th[u].c \notin lease'
  PROVE  Inv' /\ FinalStep
  <1>0. /\ Types /\ PlaceInv /\ AllowedInv /\ RunsInv /\ HeldInv /\ WorldInv /\ PinInv
        /\ StatesStand /\ Stands /\ Types' /\ Only(t) /\ RunsGoOn
        /\ lock # t /\ PlaceOK(t) /\ RunsOK(t) /\ (Due(th[t], "unhold") => Ended(th[t].c))
    BY Knows DEF Inv, Pays, Paying, Stands, Same, StatesStand, RunsGoOn, Over
  <1>1. th[t].then \in {"idle", "drop_if_final", "fail_unstarted", "unhold", "take_dead"} \cup RunEnds
    BY <1>0 DEF RunsOK, Pays
  <1>2. PlaceInv'
    <2>1. Places(th'[t]) => Carrying(th[t]) /\ ~Creating(th'[t]) /\ th'[t].c = th[t].c
      BY <1>1 DEF Pays, Places, Creating, Carrying, Recording, Paying, RunEnds
    <2>2. PlaceOK(t)'
      BY <1>0, <1>1, <2>1 DEF PlaceOK, Pays, Places, RunEnds
    <2>. QED
      BY <1>0, <2>1, <2>2, PlaceKept DEF Pays, Places
  <1>3. AllowedInv'
    <2>1. AllowedOK(t)'
      BY <1>1 DEF AllowedOK, Pays, Recording, RunEnds
    <2>. QED
      BY <1>0, <2>1, AllowedKept DEF Pays
  <1>4. RunsInv'
    <2>1. \A r \in Runs : Cleared(r)' = Cleared(r)
      BY DEF Pays, Cleared, Over
    <2>2. th[t].runs \subseteq Runs
      BY <1>0, Fields
    <2>3. RunsOK(t)'
      BY <1>0, <1>1, <2>1, <2>2 DEF RunsOK, Pays, Dropping, Paying, RunEnds
    <2>. QED
      BY <1>0, <2>3, RunsKept DEF Pays
  <1>5. HeldInv'
    <2>1. HeldGoesOn(t)
      BY <1>0, <1>1 DEF HeldGoesOn, Pays, Removes, Due, Carrying, Paying, Recording, RunEnds
    <2>. QED
      BY <1>0, <2>1, HeldKept DEF Pays
  <1>6. WorldInv'
    BY <1>0, <1>1, WorldKept DEF Pays, RunEnds
  <1>7. PinInv'
    BY <1>0, PinKept DEF Pays
  <1>. QED
    BY <1>0, <1>2, <1>3, <1>4, <1>5, <1>6, <1>7, StandsFinal DEF Inv

LEMMA EndLeasesKeeps == ASSUME Inv, NEW t \in Threads, EndLeases(t) PROVE Inv' /\ FinalStep
  <1>. DEFINE at == IF th[t].then \in {"bump", "drop_runs_halted"} THEN th[t].then ELSE "records"
              y == [th[t] EXCEPT !.leases = {}, !.at = at]
  <1>1. /\ Types /\ PlaceInv /\ DebtInv /\ DebtOK(t) /\ th[t] \in Thread /\ th \in [Threads -> Thread]
        /\ th[t].owed \subseteq Commitments /\ th[t].leases \subseteq Commitments
    BY Knows, Fields DEF Inv, Types
  <1>2. /\ th[t].at = "leases" /\ lease' = lease \cup th[t].leases /\ th[t].leases = th[t].owed
        /\ UNCHANGED <<registry, lock, policy, log, ends, world, barrier>>
    BY <1>1 DEF EndLeases, At, DebtOK
  <1>3. /\ y \in Thread /\ y.leases = {} /\ y.at = at /\ y.owed = th[t].owed /\ y.then = th[t].then /\ y.c = th[t].c
        /\ y.runs = th[t].runs
    BY <1>1 DEF Thread, Points
  <1>4. th' = [th EXCEPT ![t] = y]
    BY <1>1 DEF EndLeases, Thread
  <1>. HIDE DEF y
  <1>5. Only(t) /\ th'[t] = y /\ th' \in [Threads -> Thread]
    BY <1>1, <1>3, <1>4 DEF Only
  <1>6. Pays(t)
    BY <1>1, <1>2, <1>3, <1>5 DEF Pays, Types, registry, policy, Paying
  <1>7. \A c \in Commitments : Ended(c)' = Ended(c) /\ entry'[c] = entry[c] /\ ends'[c] = ends[c]
    BY <1>2 DEF Ended, registry
  <1>8. \A c \in th[t].owed : Ended(c) /\ entry[c].state # "absent"
    BY <1>1 DEF DebtOK, Ended, Final
  <1>9. DebtInv'
    <2>1. \A u \in Threads : th'[u].owed = th[u].owed
      BY <1>3, <1>5 DEF Only
    <2>2. ASSUME NEW u \in Threads PROVE DebtOK(u)'
      <3>1. CASE u = t
        BY <1>1, <1>3, <1>5, <1>7, <3>1 DEF DebtOK
      <3>2. CASE u # t
        BY <1>1, <1>5, <1>7, <2>2, <3>2, Fields DEF DebtInv, DebtOK, Only
      <3>. QED
        BY <3>1, <3>2
    <2>3. \A v, u \in Threads : OneOwes(v, u)'
      BY <1>1, <2>1 DEF DebtInv, OneOwes, Owes
    <2>4. ASSUME NEW c \in Commitments PROVE EndOK(c)'
      <3>1. EndOK(c)
        BY <1>1 DEF DebtInv
      <3>2. \A u \in Threads : c \in th[u].leases => c \in lease' \/ c \in th'[u].leases
        BY <1>2, <1>5 DEF Only
      <3>. QED
        BY <1>2, <1>7, <1>8, <2>1, <2>4, <3>1, <3>2 DEF EndOK, Owes
    <2>. QED
      BY <2>2, <2>3, <2>4 DEF DebtInv
  <1>10. \A u \in Threads : Creating(th[u]) => th[u].c \notin lease'
    BY <1>1, <1>2, <1>8 DEF PlaceInv, PlaceOK
  <1>. QED
    BY <1>6, <1>9, <1>10, PayKeeps

LEMMA GiveRecordsKeeps == ASSUME Inv, NEW t \in Threads, GiveRecords(t) PROVE Inv' /\ FinalStep
  <1>. DEFINE z == [th[t] EXCEPT !.at = th[t].then, !.owed = {}]
  <1>1. /\ Types /\ PlaceInv /\ DebtInv /\ DebtOK(t) /\ RunsOK(t) /\ th[t] \in Thread /\ th \in [Threads -> Thread]
        /\ th[t].owed \subseteq Commitments
    BY Knows, Fields DEF Inv, Types
  <1>2. /\ th[t].at = "records" /\ th[t].leases = {}
        /\ ends' = [c \in Commitments |-> ends[c] + IF c \in th[t].owed THEN 1 ELSE 0]
        /\ UNCHANGED <<registry, lock, policy, log, lease, world, barrier>>
    BY <1>1 DEF GiveRecords, At, DebtOK
  <1>3. PICK y : y = IF th[t].then = "idle" THEN Idle ELSE z
    OBVIOUS
  <1>4. /\ y \in Thread /\ y.owed = {} /\ y.leases = {} /\ y.at = th[t].then
        /\ th[t].then # "idle" => y.c = th[t].c /\ y.runs = th[t].runs
        /\ th[t].then # "leases"
    <2>1. z \in Thread /\ z.owed = {} /\ z.leases = th[t].leases /\ z.at = th[t].then /\ z.c = th[t].c /\ z.runs = th[t].runs
      BY <1>1 DEF Thread
    <2>2. th[t].then # "leases"
      BY <1>1, <1>2 DEF RunsOK, Paying, RunEnds
    <2>. QED
      BY <1>2, <1>3, <2>1, <2>2, IdleIs
  <1>5. th' = [th EXCEPT ![t] = y]
    BY <1>1, <1>3 DEF GiveRecords
  <1>6. Only(t) /\ th'[t] = y /\ th' \in [Threads -> Thread]
    BY <1>1, <1>4, <1>5 DEF Only
  <1>7. \A c \in Commitments : Ended(c)' = Ended(c) /\ entry'[c] = entry[c]
    BY <1>2 DEF Ended, registry
  <1>8. /\ ends' \in [Commitments -> Nat]
        /\ \A c \in th[t].owed : Ended(c) /\ ends'[c] = 1
        /\ \A c \in Commitments \ th[t].owed : ends'[c] = ends[c]
    BY <1>1, <1>2 DEF DebtOK, Types
  <1>9. Pays(t)
    BY <1>1, <1>2, <1>4, <1>6, <1>8 DEF Pays, Types, registry, policy, Paying
  <1>10. DebtInv'
    <2>1. \A u \in Threads \ {t} : th'[u] = th[u] /\ th[u].owed \subseteq Commitments
      BY <1>1, <1>6, Fields DEF Only
    <2>2. \A u \in Threads \ {t} : \A c \in th[u].owed : c \notin th[t].owed
      BY <1>1, <2>1 DEF DebtInv, OneOwes, Owes
    <2>3. ASSUME NEW u \in Threads PROVE DebtOK(u)'
      <3>1. CASE u = t
        BY <1>4, <1>6, <3>1 DEF DebtOK
      <3>2. CASE u # t
        BY <1>1, <1>7, <1>8, <2>1, <2>2, <2>3, <3>2 DEF DebtInv, DebtOK
      <3>. QED
        BY <3>1, <3>2
    <2>4. \A v, u \in Threads : OneOwes(v, u)'
      BY <1>1, <1>4, <1>6, <2>1 DEF DebtInv, OneOwes, Owes
    <2>5. ASSUME NEW c \in Commitments PROVE EndOK(c)'
      <3>1. EndOK(c)
        BY <1>1 DEF DebtInv
      <3>2. \A u \in Threads : c \in th[u].leases => c \in th'[u].leases
        BY <1>2, <2>1
      <3>3. \A u \in Threads : Owes(u, c) => c \in th[t].owed \/ Owes(u, c)'
        BY <2>1 DEF Owes
      <3>. QED
        BY <1>2, <1>7, <1>8, <2>5, <3>1, <3>2, <3>3 DEF EndOK
    <2>. QED
      BY <2>3, <2>4, <2>5 DEF DebtInv
  <1>11. \A u \in Threads : Creating(th[u]) => th[u].c \notin lease'
    BY <1>1, <1>2 DEF PlaceInv, PlaceOK
  <1>. QED
    BY <1>9, <1>10, <1>11, PayKeeps

-----------------------------------------------------------------------------
\* A commitment that is not created: its leases end, and it never was.
LEMMA NotCreatedKeeps ==
  ASSUME Inv, NEW t \in Threads, NEW c \in Commitments, entry[c].state = "absent", Only(t),
         lease' = lease \cup {c}, UNCHANGED <<registry, lock, policy, log, ends, world, barrier>>,
         \A u \in Threads \ {t} : Creating(th[u]) => th[u].c # c,
         \/ th[t].at = "idle" /\ th' = th
         \/ th[t].at = "record_prepared" /\ th' = [th EXCEPT ![t] = Idle]
  PROVE  Inv' /\ FinalStep
  <1>0. /\ Types /\ PlaceInv /\ AllowedInv /\ DebtInv /\ RunsInv /\ HeldInv /\ WorldInv /\ PinInv
        /\ th \in [Threads -> Thread] /\ lock # t /\ DebtOK(t)
    BY Knows DEF Inv, Types
  <1>1. /\ th' \in [Threads -> Thread] /\ th'[t].at = "idle" /\ th'[t].owed = th[t].owed
        /\ th'[t].leases = th[t].leases /\ th[t].owed = {} /\ th[t].leases = {}
    BY <1>0, IdleIs DEF DebtOK
  <1>2. /\ Types' /\ StatesStand /\ Stands /\ RunsGoOn
    BY <1>0, <1>1 DEF Types, registry, policy, StatesStand, Stands, Same, RunsGoOn, Over
  <1>3. /\ PlaceOK(t)' /\ AllowedOK(t)' /\ DebtOK(t)' /\ RunsOK(t)' /\ HeldGoesOn(t) /\ ~Places(th'[t])
    BY <1>0, <1>1 DEF PlaceOK, AllowedOK, DebtOK, RunsOK, HeldGoesOn, Places, Creating, Carrying, Recording, Paying,
       Dropping, Due, Removes
  <1>4. PlaceInv'
    <2>1. \A u \in Threads \ {t} : Creating(th[u]) => th[u].c \notin lease'
      BY <1>0 DEF PlaceInv, PlaceOK
    <2>. QED
      BY <1>0, <1>2, <1>3, <2>1, PlaceKept DEF registry
  <1>5. AllowedInv'
    BY <1>0, <1>2, <1>3, AllowedKept DEF registry
  <1>6. DebtInv'
    <2>1. \A u \in Threads : th'[u].owed = th[u].owed /\ th'[u].leases = th[u].leases
      BY <1>1 DEF Only
    <2>2. \A d \in Commitments : Ended(d)' = Ended(d) /\ entry'[d].state = entry[d].state
      BY <1>2 DEF Ended, StatesStand
    <2>3. ASSUME NEW u \in Threads PROVE DebtOK(u)'
      BY <1>0, <1>3, <2>1, <2>2, <2>3, Fields DEF DebtInv, DebtOK, Only
    <2>4. \A v, u \in Threads : OneOwes(v, u)'
      BY <1>0, <2>1 DEF DebtInv, OneOwes, Owes
    <2>5. ASSUME NEW d \in Commitments PROVE EndOK(d)'
      BY <1>0, <2>1, <2>2, <2>5 DEF DebtInv, EndOK, Owes
    <2>. QED
      BY <2>3, <2>4, <2>5 DEF DebtInv
  <1>7. RunsInv'
    BY <1>0, <1>2, <1>3, RunsKept DEF StatesStand
  <1>8. HeldInv'
    BY <1>0, <1>2, <1>3, HeldKept DEF registry, policy
  <1>9. WorldInv'
    BY <1>0, <1>1, <1>2, WorldKept
  <1>10. PinInv'
    BY <1>0, <1>2, PinKept DEF registry, policy
  <1>. QED
    BY <1>2, <1>4, <1>5, <1>6, <1>7, <1>8, <1>9, <1>10, StandsFinal DEF Inv

\* propose: the commitment is created by one call.
LEMMA ProposeKeeps == ASSUME Inv, NEW t \in Threads, NEW c \in Commitments, Propose(t, c) PROVE Inv' /\ FinalStep
  <1>1. /\ th[t].at = "idle" /\ entry[c].state = "absent" /\ c \notin lease
        /\ \A u \in Threads : Creating(th[u]) => th[u].c # c
        /\ UNCHANGED <<registry, lock, policy, log, ends, world, barrier>>
    BY DEF Propose, At, Creating
  <1>2. CASE lease' = lease \cup {c} /\ th' = th
    BY <1>1, <1>2, NotCreatedKeeps DEF Only
  <1>3. CASE th' = [th EXCEPT ![t].at = "record_prepared", ![t].c = c] /\ lease' = lease
    <2>. DEFINE y == [th[t] EXCEPT !.at = "record_prepared", !.c = c]
    <2>0. /\ Types /\ PlaceInv /\ AllowedInv /\ DebtInv /\ RunsInv /\ HeldInv /\ WorldInv /\ PinInv
          /\ th \in [Threads -> Thread] /\ th[t] \in Thread /\ lock # t /\ DebtOK(t)
      BY <1>1, Knows DEF Inv, Types
    <2>1. y \in Thread /\ y.at = "record_prepared" /\ y.c = c /\ y.owed = th[t].owed /\ y.leases = th[t].leases
      BY <2>0 DEF Thread, Points
    <2>2. th' = [th EXCEPT ![t] = y]
      BY <1>3, <2>0 DEF Thread
    <2>. HIDE DEF y
    <2>3. Only(t) /\ th'[t] = y /\ th' \in [Threads -> Thread]
      BY <2>0, <2>1, <2>2 DEF Only
    <2>4. Types' /\ StatesStand /\ Stands /\ RunsGoOn
      BY <1>1, <1>3, <2>0, <2>3 DEF Types, registry, policy, StatesStand, Stands, Same, RunsGoOn, Over
    <2>5. PlaceInv'
      <3>1. PlaceOK(t)'
        BY <1>1, <1>3, <2>0, <2>1, <2>3 DEF PlaceOK, PlaceInv, Places, Creating, Carrying, Recording, Paying, registry
      <3>2. \A u \in Threads \ {t} : Places(th[u]) => th[u].c # th'[t].c
        BY <1>1, <2>0, <2>1, <2>3 DEF PlaceInv, PlaceOK, Places
      <3>3. \A u \in Threads \ {t} : Creating(th[u]) => th[u].c \notin lease'
        BY <1>3, <2>0 DEF PlaceInv, PlaceOK
      <3>. QED
        BY <1>1, <2>0, <2>3, <2>4, <3>1, <3>2, <3>3, PlaceKept DEF registry
    <2>6. /\ AllowedOK(t)' /\ DebtOK(t)' /\ RunsOK(t)' /\ HeldGoesOn(t)
      BY <1>1, <2>0, <2>1, <2>3 DEF AllowedOK, DebtOK, RunsOK, HeldGoesOn, Creating, Carrying, Recording, Paying,
         Dropping, Due, Removes
    <2>7. AllowedInv'
      BY <1>1, <2>0, <2>3, <2>4, <2>6, AllowedKept DEF registry
    <2>8. DebtInv'
      BY <1>1, <1>3, <2>0, <2>1, <2>3, <2>4, <2>6, DebtKept
    <2>9. RunsInv'
      BY <1>1, <2>0, <2>3, <2>4, <2>6, RunsKept DEF StatesStand
    <2>10. HeldInv'
      BY <1>1, <2>0, <2>3, <2>4, <2>6, HeldKept DEF registry, policy
    <2>11. WorldInv'
      BY <1>1, <2>0, <2>1, <2>3, <2>4, WorldKept
    <2>12. PinInv'
      BY <1>1, <2>0, <2>4, PinKept DEF registry, policy
    <2>. QED
      BY <2>4, <2>5, <2>7, <2>8, <2>9, <2>10, <2>11, <2>12, StandsFinal DEF Inv
  <1>. QED
    BY <1>2, <1>3 DEF Propose

LEMMA RecordPreparedKeeps == ASSUME Inv, NEW t \in Threads, RecordPrepared(t) PROVE Inv' /\ FinalStep
  <1>1. PICK c \in Commitments : c = th[t].c
    BY Knows
  <1>2. /\ th[t].at = "record_prepared" /\ UNCHANGED <<lock, held, retained, policy, ends, world, barrier>>
    BY DEF RecordPrepared, At
  <1>3. /\ Types /\ PlaceInv /\ PlaceOK(t) /\ th \in [Threads -> Thread] /\ entry \in [Commitments -> EntryType]
    BY Knows DEF Inv, Types
  <1>4. CASE lease' = lease \cup {c} /\ th' = [th EXCEPT ![t] = Idle] /\ UNCHANGED <<entry, log>>
    <2>1. entry[c].state = "absent"
      BY <1>1, <1>2, <1>3 DEF PlaceOK, Creating
    <2>2. \A u \in Threads \ {t} : Creating(th[u]) => th[u].c # c
      BY <1>1, <1>2, <1>3 DEF PlaceInv, Apart, Places, Creating
    <2>3. Only(t)
      BY <1>3, <1>4 DEF Only
    <2>. QED
      BY <1>2, <1>4, <2>1, <2>2, <2>3, NotCreatedKeeps DEF registry
  <1>5. CASE /\ entry' = [entry EXCEPT ![c].gen = generation]
             /\ log' = [log EXCEPT ![c] = @ \cup {"Prepared"}]
             /\ Goes(t, "insert") /\ lease' = lease
    <2>. DEFINE e == [entry[c] EXCEPT !.gen = generation]
    <2>1. /\ e \in EntryType /\ e.state = entry[c].state /\ e.pinned = entry[c].pinned /\ e.reserved = entry[c].reserved
          /\ e.finished_started = entry[c].finished_started /\ e.uncertain = entry[c].uncertain
          /\ e.handoff = entry[c].handoff
      BY <1>3 DEF EntryType, Types
    <2>2. entry' = [entry EXCEPT ![c] = e]
      BY <1>5
    <2>. HIDE DEF e
    <2>3. /\ entry' \in [Commitments -> EntryType] /\ Stands
          /\ \A d \in Commitments : entry'[d].reserved = entry[d].reserved
      BY <1>3, <2>1, <2>2 DEF Stands, Same
    <2>4. th' \in [Threads -> Thread] /\ Only(t) /\ th'[t].at = "insert" /\ Keeps(th[t], th'[t])
      BY <1>3, <1>5, GoesIs DEF Points
    <2>5. /\ log' \in [Commitments -> SUBSET Phases] /\ "Prepared" \in log'[c]
          /\ \A d \in Commitments : log[d] \subseteq log'[d]
      BY <1>3, <1>5 DEF Types, Phases
    <2>6. Walks(t)
      BY <1>2, <1>3, <1>5, <2>3, <2>4, <2>5 DEF Walks, Moves, policy, Types, RunsGoOn, Over
    <2>7. ThreadGoesOn(t)
      BY <1>1, <1>2, <1>5, <2>3, <2>4, <2>5, Knows DEF Keeps, ThreadGoesOn, MoveGoesOn, PlaceOK, AllowedOK, DebtOK,
         RunsOK, HeldGoesOn, Places, Creating, Carrying, Recording, Paying, Dropping, Due, Removes, Stands, Same
    <2>. QED
      BY <2>6, <2>7, WalkKeeps
  <1>. QED
    BY <1>1, <1>4, <1>5 DEF RecordPrepared

-----------------------------------------------------------------------------
\* ack: the pin and the run it retains are released together.
LEMMA AckKeeps == ASSUME Inv, NEW t \in Threads, NEW c \in Commitments, Ack(t, c) PROVE Inv' /\ FinalStep
  <1>. DEFINE e == [entry[c] EXCEPT !.pinned = FALSE]
  <1>0. /\ Types /\ PlaceInv /\ AllowedInv /\ DebtInv /\ RunsInv /\ HeldInv /\ WorldInv /\ PinInv
        /\ entry \in [Commitments -> EntryType] /\ NoThread \notin Threads
    BY CommitmentAssumptions DEF Inv, Types
  <1>1. /\ lock = NoThread /\ c \in Present /\ entry[c].pinned /\ AckConclusive(c)
        /\ run[RunOf[c]] # "pruned" /\ retained[RunOf[c]] > 0
        /\ retained' = [retained EXCEPT ![RunOf[c]] = @ - 1]
        /\ entry' = [entry EXCEPT ![c] = e]
        /\ UNCHANGED <<held, lock, policy, th, history>>
    BY DEF Ack, Free
  <1>2. /\ e \in EntryType /\ e.state = entry[c].state /\ ~e.pinned
        /\ e.finished_started = entry[c].finished_started /\ e.uncertain = entry[c].uncertain
        /\ e.handoff = entry[c].handoff
    BY <1>0 DEF EntryType
  <1>. HIDE DEF e
  <1>3. entry' \in [Commitments -> EntryType] /\ entry'[c] = e /\ \A d \in Commitments \ {c} : entry'[d] = entry[d]
    BY <1>0, <1>1, <1>2
  <1>4. RunOf[c] \in Runs /\ retained \in [Runs -> Nat] /\ retained' \in [Runs -> Nat]
    <2>1. RunOf[c] \in Runs /\ retained \in [Runs -> Nat]
      BY <1>0, CommitmentAssumptions DEF Types
    <2>2. retained[RunOf[c]] - 1 \in Nat
      BY <1>1, <2>1
    <2>. QED
      BY <1>1, <2>1, <2>2
  <1>5. Types' /\ StatesStand /\ RunsGoOn /\ Only(NoThread)
    BY <1>0, <1>1, <1>2, <1>3, <1>4 DEF Types, policy, history, StatesStand, RunsGoOn, Over, Only
  <1>6. PlaceInv'
    <2>1. \A u \in Threads \ {NoThread} : Creating(th[u]) => th[u].c \notin lease'
      BY <1>0, <1>1 DEF PlaceInv, PlaceOK, history
    <2>. QED
      BY <1>0, <1>1, <1>5, <2>1, PlaceKept
  <1>7. AllowedInv'
    BY <1>0, <1>1, <1>5, AllowedKept DEF history
  <1>8. DebtInv'
    BY <1>0, <1>1, <1>5, DebtKept DEF history
  <1>9. RunsInv'
    BY <1>0, <1>1, <1>5, RunsKept DEF history, StatesStand
  <1>10. HeldInv'
    BY <1>0, <1>1, <1>5, HeldKept DEF policy
  <1>11. WorldInv'
    <2>1. ASSUME NEW d \in Commitments PROVE WorldOK(d)'
      <3>1. WorldOK(d) /\ world' = world
        BY <1>0, <1>1 DEF WorldInv, history
      <3>2. CASE d = c
        BY <1>1, <1>2, <1>3, <3>1, <3>2 DEF WorldOK, Present, AckConclusive, Publication
      <3>3. CASE d # c
        BY <1>3, <3>1, <3>3 DEF WorldOK, Present, AckConclusive, Publication
      <3>. QED
        BY <3>2, <3>3
    <2>. QED
      BY <1>0, <1>1, <2>1 DEF WorldInv, history
  <1>12. PinInv'
    <2>1. ASSUME NEW r \in Runs, r # RunOf[c] PROVE Pins(r)' = Pins(r) /\ retained'[r] = retained[r]
      BY <1>1, <1>2, <1>3, <1>4, <2>1 DEF Pins, Present
    <2>2. Pins(RunOf[c])' = Pins(RunOf[c]) \ {c} /\ c \in Pins(RunOf[c])
      BY <1>1, <1>2, <1>3 DEF Pins, Present
    <2>3. /\ IsFiniteSet(Pins(RunOf[c])) /\ retained[RunOf[c]] = Cardinality(Pins(RunOf[c]))
      BY <1>0, <1>4 DEF PinInv
    <2>4. /\ IsFiniteSet(Pins(RunOf[c]) \ {c})
          /\ Cardinality(Pins(RunOf[c]) \ {c}) = Cardinality(Pins(RunOf[c])) - 1
      BY <2>2, <2>3, FS_RemoveElement
    <2>5. retained'[RunOf[c]] = Cardinality(Pins(RunOf[c])')
      BY <1>1, <1>4, <2>2, <2>3, <2>4
    <2>6. ASSUME NEW r \in Runs
          PROVE  (IsFiniteSet(Pins(r)) /\ retained[r] = Cardinality(Pins(r)) /\ (Pins(r) # {} => run[r] # "pruned"))'
      <3>1. CASE r # RunOf[c]
        BY <1>0, <1>1, <2>1, <3>1 DEF PinInv, policy
      <3>2. CASE r = RunOf[c]
        BY <1>1, <2>2, <2>4, <2>5, <3>2 DEF policy
      <3>. QED
        BY <3>1, <3>2
    <2>. QED
      BY <2>6 DEF PinInv
  <1>. QED
    BY <1>5, <1>6, <1>7, <1>8, <1>9, <1>10, <1>11, <1>12, StandsFinal DEF Inv

-----------------------------------------------------------------------------
\* A registry that is full forgets what is final and not pinned.
Forgets(d, e) ==
  \/ e[d] = entry[d]
  \/ /\ entry[d].state \in Final /\ ~entry[d].pinned
     /\ e[d].state = "gone" /\ e[d].pinned = entry[d].pinned
LEMMA RetainedIs ==
  ASSUME Types
  PROVE  Retained \in [Commitments -> EntryType] /\ \A d \in Commitments : Forgets(d, Retained)
  <1>1. entry \in [Commitments -> EntryType]
    BY DEF Types
  <1>2. \A d \in Commitments : LET g == [entry[d] EXCEPT !.state = "gone"] IN
           g \in EntryType /\ g.state = "gone" /\ g.pinned = entry[d].pinned
    BY <1>1 DEF EntryType, CommitmentState
  <1>. DEFINE R == [c \in Commitments |-> IF c \in Pruned THEN [entry[c] EXCEPT !.state = "gone"] ELSE entry[c]]
  <1>3. R \in [Commitments -> EntryType] /\ \A d \in Commitments : Forgets(d, R)
    BY <1>1, <1>2 DEF Pruned, Forgets
  <1>4. Retained = entry \/ Retained = R
    BY DEF Retained
  <1>. QED
    BY <1>1, <1>3, <1>4 DEF Forgets

\* The commitment is in the registry or refused, whatever was forgotten for it.
InsertOf(t, c) ==
  /\ Types' /\ Only(t) /\ c = th[t].c /\ lock = NoThread /\ th[t].at = "insert"
  /\ UNCHANGED <<held, lock, policy, history>>
  /\ \A d \in Commitments \ {c} : Forgets(d, entry')
LEMMA InsertIs ==
  ASSUME Inv, NEW t \in Threads, NEW c \in Commitments, c = th[t].c, Insert(t)
  PROVE  /\ InsertOf(t, c)
         /\ \/ /\ entry'[c].state = "Prepared" /\ (entry'[c].pinned <=> c \in FileActions)
               /\ retained' = [retained EXCEPT ![RunOf[c]] = @ + IF c \in FileActions THEN 1 ELSE 0]
               /\ th'[t].at = "fill" /\ Keeps(th[t], th'[t]) /\ run[RunOf[c]] = "active"
            \/ /\ entry'[c].state = "refused" /\ retained' = retained
               /\ th'[t].at = "leases" /\ th'[t].owed = {c} /\ th'[t].leases = {c} /\ th'[t].then = "idle"
  <1>1. /\ th[t].at = "insert" /\ lock = NoThread /\ UNCHANGED <<held, lock, policy, history>>
    BY DEF Insert, At, Free
  <1>2. Types /\ PlaceOK(t) /\ retained \in [Runs -> Nat] /\ RunOf[c] \in Runs
    BY Knows, CommitmentAssumptions DEF Types
  <1>3. PICK R : R = Retained
    OBVIOUS
  <1>4. R \in [Commitments -> EntryType] /\ \A d \in Commitments : Forgets(d, R)
    BY <1>2, <1>3, RetainedIs
  <1>5. CASE /\ MayInsert(c) /\ entry' = [R EXCEPT ![c].state = "Prepared", ![c].pinned = c \in FileActions]
             /\ retained' = [retained EXCEPT ![RunOf[c]] = @ + IF c \in FileActions THEN 1 ELSE 0]
             /\ Goes(t, "fill")
    <2>. DEFINE e == [R[c] EXCEPT !.state = "Prepared", !.pinned = c \in FileActions]
    <2>1. e \in EntryType /\ e.state = "Prepared" /\ (e.pinned <=> c \in FileActions)
      <3>1. PICK p \in BOOLEAN : p = (c \in FileActions)
        <4>1. CASE c \in FileActions
          <5>1. TRUE = (c \in FileActions)
            BY <4>1
          <5>. QED
            BY <5>1, Zenon
        <4>2. CASE c \notin FileActions
          <5>1. FALSE = (c \in FileActions)
            BY <4>2
          <5>. QED
            BY <5>1, Zenon
        <4>. QED
          BY <4>1, <4>2
      <3>2. p <=> c \in FileActions
        BY <3>1
      <3>3. e = [R[c] EXCEPT !.state = "Prepared", !.pinned = p]
        BY <3>1
      <3>. HIDE DEF e
      <3>. QED
        BY <1>4, <3>2, <3>3 DEF EntryType, CommitmentState, Unconsumed
    <2>2. entry' = [R EXCEPT ![c] = e]
      BY <1>4, <1>5 DEF EntryType
    <2>. HIDE DEF e
    <2>3. entry' \in [Commitments -> EntryType] /\ entry'[c] = e /\ \A d \in Commitments \ {c} : entry'[d] = R[d]
      BY <1>4, <2>1, <2>2
    <2>4. th' \in [Threads -> Thread] /\ Only(t) /\ th'[t].at = "fill" /\ Keeps(th[t], th'[t])
      BY <1>2, <1>5, GoesIs DEF Points
    <2>5. retained' \in [Runs -> Nat]
      BY <1>2, <1>5
    <2>6. Types'
      BY <1>1, <1>2, <2>3, <2>4, <2>5 DEF Types, policy, history
    <2>7. \A d \in Commitments \ {c} : Forgets(d, entry')
      BY <1>4, <2>3 DEF Forgets
    <2>8. run[RunOf[c]] = "active"
      BY <1>5 DEF MayInsert, RunLive
    <2>. QED
      BY <1>1, <1>5, <2>1, <2>3, <2>4, <2>6, <2>7, <2>8 DEF InsertOf
  <1>6. CASE entry' = [R EXCEPT ![c].state = "refused"] /\ Owing(t, {c}, "idle") /\ retained' = retained
    <2>. DEFINE e == [R[c] EXCEPT !.state = "refused"]
    <2>1. e \in EntryType /\ e.state = "refused"
      BY <1>4 DEF EntryType, CommitmentState
    <2>2. entry' = [R EXCEPT ![c] = e]
      BY <1>4, <1>6 DEF EntryType
    <2>. HIDE DEF e
    <2>3. entry' \in [Commitments -> EntryType] /\ entry'[c] = e /\ \A d \in Commitments \ {c} : entry'[d] = R[d]
      BY <1>4, <2>1, <2>2
    <2>4. /\ th' \in [Threads -> Thread] /\ Only(t) /\ th'[t].at = "leases" /\ th'[t].owed = {c}
          /\ th'[t].leases = {c} /\ th'[t].then = "idle"
      BY <1>2, <1>6, OwingIs DEF Points
    <2>5. Types'
      BY <1>1, <1>2, <1>6, <2>3, <2>4 DEF Types, policy, history
    <2>6. \A d \in Commitments \ {c} : Forgets(d, entry')
      BY <1>4, <2>3 DEF Forgets
    <2>. QED
      BY <1>1, <1>6, <2>1, <2>3, <2>4, <2>5, <2>6 DEF InsertOf
  <1>. QED
    BY <1>3, <1>5, <1>6 DEF Insert

\* What an insertion leaves as it was.
LEMMA InsertKeepsOthers ==
  ASSUME Inv, NEW t \in Threads, NEW c \in Commitments, InsertOf(t, c)
  PROVE  /\ entry[c].state = "absent" /\ ~Ended(c) /\ c \notin held /\ c \notin lease /\ c \notin world
         /\ "Prepared" \in log[c] /\ ends[c] = 0 /\ (\A u \in Threads : ~Owes(u, c))
         /\ \A u \in Threads \ {t} : th'[u] = th[u] /\ (Places(th[u]) => th[u].c # c)
         /\ \A d \in Commitments \ {c} : /\ Ended(d)' = Ended(d)
                                         /\ entry[d].state \notin Final => entry'[d] = entry[d]
                                         /\ entry[d].state \in Final => entry'[d].state \in Final \cup {"gone"}
  <1>1. Types /\ PlaceInv /\ DebtInv /\ WorldInv /\ PlaceOK(t) /\ AllowedOK(t)
    BY Knows DEF Inv
  <1>2. entry[c].state = "absent" /\ c \notin held /\ c \notin lease /\ "Prepared" \in log[c]
    BY <1>1 DEF InsertOf, PlaceOK, AllowedOK, Places, Creating
  <1>3. ~Ended(c) /\ c \notin world
    BY <1>1, <1>2 DEF Ended, Final, WorldInv, WorldOK
  <1>4. ends[c] = 0 /\ \A u \in Threads : ~Owes(u, c)
    BY <1>1, <1>3 DEF DebtInv, DebtOK, EndOK, Owes
  <1>5. \A u \in Threads \ {t} : th'[u] = th[u] /\ (Places(th[u]) => th[u].c # c)
    BY <1>1 DEF InsertOf, Only, PlaceInv, Apart, Places, Creating
  <1>6. \A d \in Commitments \ {c} : /\ Ended(d)' = Ended(d)
                                     /\ entry[d].state \notin Final => entry'[d] = entry[d]
                                     /\ entry[d].state \in Final => entry'[d].state \in Final \cup {"gone"}
    BY DEF InsertOf, Forgets, Ended
  <1>. QED
    BY <1>2, <1>3, <1>4, <1>5, <1>6

LEMMA InsertKeeps == ASSUME Inv, NEW t \in Threads, Insert(t) PROVE Inv' /\ FinalStep
  <1>1. PICK c \in Commitments : c = th[t].c
    BY Knows
  <1>. DEFINE Kept == /\ entry'[c].state = "Prepared" /\ (entry'[c].pinned <=> c \in FileActions)
                      /\ retained' = [retained EXCEPT ![RunOf[c]] = @ + IF c \in FileActions THEN 1 ELSE 0]
                      /\ th'[t].at = "fill" /\ Keeps(th[t], th'[t]) /\ run[RunOf[c]] = "active"
              NotKept == /\ entry'[c].state = "refused" /\ retained' = retained
                         /\ th'[t].at = "leases" /\ th'[t].owed = {c} /\ th'[t].leases = {c}
                         /\ th'[t].then = "idle"
  <1>2. InsertOf(t, c) /\ (Kept \/ NotKept)
    BY <1>1, InsertIs
  <1>3. /\ entry[c].state = "absent" /\ ~Ended(c) /\ c \notin held /\ c \notin lease /\ c \notin world
        /\ "Prepared" \in log[c] /\ ends[c] = 0 /\ (\A u \in Threads : ~Owes(u, c))
        /\ \A u \in Threads \ {t} : th'[u] = th[u] /\ (Places(th[u]) => th[u].c # c)
        /\ \A d \in Commitments \ {c} : /\ Ended(d)' = Ended(d)
                                        /\ entry[d].state \notin Final => entry'[d] = entry[d]
                                        /\ entry[d].state \in Final => entry'[d].state \in Final \cup {"gone"}
    BY <1>2, InsertKeepsOthers
  <1>4. /\ Types /\ PlaceInv /\ AllowedInv /\ DebtInv /\ RunsInv /\ HeldInv /\ WorldInv /\ PinInv
        /\ PlaceOK(t) /\ AllowedOK(t) /\ DebtOK(t) /\ NoThread \notin Threads
    BY Knows DEF Inv
  <1>5. /\ Types' /\ th[t].at = "insert" /\ lock = NoThread /\ held' = held /\ lock' = lock /\ run' = run
        /\ generation' = generation /\ log' = log /\ ends' = ends /\ lease' = lease /\ world' = world
        /\ barrier' = barrier /\ \A d \in Commitments \ {c} : Forgets(d, entry')
    BY <1>2 DEF InsertOf, policy, history
  <1>6. /\ th'[t].at \in {"fill", "leases"} /\ (th'[t].at = "leases" => th'[t].then = "idle")
        /\ (th'[t].at = "fill" <=> Kept) /\ (Kept => th'[t].c = c /\ th'[t].owed = {} /\ th'[t].leases = {})
        /\ (Kept => ~NotKept)
    BY <1>1, <1>2, <1>4, <1>5 DEF Keeps, DebtOK
  <1>7. \A u \in Threads : th[u].c \in Commitments /\ th'[u].c \in Commitments /\ th[u].owed \subseteq Commitments
    BY <1>4, <1>5, Fields DEF Types, Thread
  <1>. HIDE DEF Kept, NotKept
  <1>8. /\ Kept => entry'[c].state = "Prepared" /\ ~Ended(c)'
        /\ NotKept => entry'[c].state = "refused" /\ Ended(c)'
    BY DEF Kept, NotKept, Ended, Final
  <1>a. PlaceInv'
    <2>1. PlaceOK(t)'
      BY <1>2, <1>3, <1>5, <1>6, <1>8 DEF PlaceOK, Places, Creating, Carrying, Recording, Paying
    <2>2. ASSUME NEW u \in Threads \ {t} PROVE PlaceOK(u)'
      <3>1. PlaceOK(u) /\ th'[u] = th[u] /\ (Places(th[u]) => th[u].c # c) /\ th[u].c \in Commitments
        BY <1>3, <1>4, <1>7, <2>2 DEF PlaceInv
      <3>2. \A d \in Commitments \ {c} :
               /\ entry[d].state \in {"absent", "Executing"} => entry'[d].state = entry[d].state
               /\ entry[d].state \notin {"absent", "refused"} => entry'[d].state \notin {"absent", "refused"}
        BY <1>3 DEF Final
      <3>. QED
        BY <1>5, <3>1, <3>2 DEF PlaceOK, Places, Carrying
    <2>3. \A v, u \in Threads : Apart(v, u)'
      BY <1>2, <1>3, <1>4, <1>6 DEF PlaceInv, Apart, Places, Creating, Carrying, Recording, Paying
    <2>4. ASSUME NEW d \in held PROVE entry'[d].state \notin {"absent", "refused"}
      BY <1>3, <1>4, <2>4 DEF PlaceInv, Types, Final
    <2>. QED
      BY <1>5, <2>1, <2>2, <2>3, <2>4 DEF PlaceInv
  <1>b. AllowedInv'
    <2>1. ASSUME NEW u \in Threads PROVE AllowedOK(u)'
      BY <1>3, <1>4, <1>5, <1>6, <2>1 DEF AllowedInv, AllowedOK, Recording
    <2>2. EvidenceFirst'
      BY <1>2, <1>3, <1>4, <1>5, <1>8 DEF AllowedInv, EvidenceFirst, Final
    <2>. QED
      BY <1>5, <2>1, <2>2 DEF AllowedInv
  <1>c. DebtInv'
    <2>1. ASSUME NEW u \in Threads PROVE DebtOK(u)'
      <3>1. CASE u # t
        <4>1. DebtOK(u) /\ th'[u] = th[u] /\ \A d \in th[u].owed : d # c
          BY <1>3, <1>4, <2>1, <3>1 DEF DebtInv, Owes
        <4>. QED
          BY <1>3, <1>5, <1>7, <4>1 DEF DebtOK
      <3>2. CASE u = t /\ Kept
        BY <1>6, <3>2 DEF DebtOK
      <3>3. CASE u = t /\ NotKept
        BY <1>3, <1>5, <1>8, <3>3 DEF DebtOK, NotKept
      <3>. QED
        BY <1>2, <3>1, <3>2, <3>3
    <2>2. ASSUME NEW v \in Threads, NEW u \in Threads PROVE OneOwes(v, u)'
      <3>1. \A d \in Commitments : Owes(t, d)' => d = c
        BY <1>2, <1>6 DEF Owes, NotKept
      <3>. QED
        BY <1>3, <1>4, <2>2, <3>1 DEF DebtInv, OneOwes, Owes
    <2>3. ASSUME NEW d \in Commitments PROVE EndOK(d)'
      <3>1. EndOK(d)
        BY <1>4 DEF DebtInv
      <3>2. CASE d = c /\ Kept
        BY <1>3, <1>5, <1>8, <3>2 DEF EndOK
      <3>3. CASE d = c /\ NotKept
        BY <1>3, <1>5, <1>8, <3>3 DEF EndOK, Owes, NotKept
      <3>4. CASE d # c
        <4>1. \A u \in Threads : (Owes(u, d) => Owes(u, d)') /\ (d \in th[u].leases => d \in th'[u].leases)
          BY <1>3, <1>4, <1>5 DEF Owes, DebtOK
        <4>2. entry[d].state = "absent" => entry'[d].state = "absent"
          BY <1>3, <3>4 DEF Final
        <4>. QED
          BY <1>3, <1>5, <3>1, <3>4, <4>1, <4>2 DEF EndOK
      <3>. QED
        BY <1>2, <3>2, <3>3, <3>4
    <2>. QED
      BY <2>1, <2>2, <2>3 DEF DebtInv
  <1>d. RunsInv'
    <2>1. ASSUME NEW r \in Runs, Cleared(r) PROVE Cleared(r)'
      <3>1. Kept => RunOf[c] # r
        BY <2>1 DEF Kept, Cleared, Over
      <3>2. NotKept => entry'[c].state \notin Unconsumed
        BY <1>8 DEF Unconsumed
      <3>3. \A d \in Commitments \ {c} : entry'[d].state \in Unconsumed => entry[d].state \in Unconsumed
        BY <1>3 DEF Final, Unconsumed
      <3>. QED
        BY <1>2, <1>5, <2>1, <3>1, <3>2, <3>3 DEF Cleared, Over
    <2>2. RunsOK(t)'
      BY <1>6 DEF RunsOK, Paying, Dropping, RunEnds
    <2>3. ASSUME NEW u \in Threads \ {t} PROVE RunsOK(u)'
      <3>1. RunsOK(u) /\ th'[u] = th[u] /\ th[u].runs \subseteq Runs
        BY <1>3, <1>4, <2>3, Fields DEF RunsInv
      <3>. QED
        BY <1>5, <2>1, <3>1 DEF RunsOK, Over
    <2>. QED
      BY <1>4, <1>5, <2>1, <2>2, <2>3 DEF RunsInv, Types
  <1>e. HeldInv'
    <2>1. ASSUME NEW d \in Commitments PROVE HeldOK(d)'
      <3>1. HeldOK(d)
        BY <1>4 DEF HeldInv
      <3>2. CASE d = c /\ Kept
        BY <1>3, <1>5, <1>6, <3>2 DEF HeldOK, Carrying
      <3>3. CASE d = c /\ NotKept
        BY <1>3, <1>5, <1>8, <3>3 DEF HeldOK, Unconsumed
      <3>4. CASE d # c
        <4>1. ~Removes(th[t], d) /\ ~Carrying(th[t])
          BY <1>5 DEF Removes, Due, Paying, Carrying, Recording
        <4>2. entry'[d].state \in Unconsumed <=> entry[d].state \in Unconsumed
          BY <1>3, <3>4 DEF Final, Unconsumed
        <4>. QED
          BY <1>3, <1>5, <3>1, <4>1, <4>2 DEF HeldOK
      <3>. QED
        BY <1>2, <3>2, <3>3, <3>4
    <2>2. ASSUME NEW u \in Threads, Due(th'[u], "unhold") PROVE Ended(th[u].c)'
      <3>1. u # t /\ th'[u] = th[u]
        BY <1>3, <1>6, <2>2 DEF Due, Paying
      <3>2. Ended(th[u].c) /\ th[u].c # c
        BY <1>3, <1>4, <2>2, <3>1 DEF HeldInv
      <3>. QED
        BY <1>3, <1>7, <3>1, <3>2
    <2>. QED
      BY <2>1, <2>2 DEF HeldInv
  <1>f. WorldInv'
    <2>1. ASSUME NEW d \in Commitments PROVE WorldOK(d)'
      <3>1. WorldOK(d)
        BY <1>4 DEF WorldInv
      <3>2. CASE d = c /\ Kept
        BY <1>3, <1>5, <3>2 DEF WorldOK, Kept
      <3>3. CASE d = c /\ NotKept
        BY <1>3, <1>5, <1>8, <3>3 DEF WorldOK, Present
      <3>4. CASE d # c
        BY <1>5, <3>1, <3>4 DEF WorldOK, Forgets, Present, AckConclusive, Publication
      <3>. QED
        BY <1>2, <3>2, <3>3, <3>4
    <2>. QED
      BY <1>3, <1>4, <1>5, <1>6, <2>1 DEF WorldInv
  <1>g. PinInv'
    <2>0. retained \in [Runs -> Nat] /\ RunOf[c] \in Runs
      BY <1>4, CommitmentAssumptions DEF Types
    <2>1. \A d \in Commitments \ {c} : (d \in Present /\ entry[d].pinned)' = (d \in Present /\ entry[d].pinned)
      BY <1>5 DEF Present, Forgets, Final
    <2>2. c \notin Present
      BY <1>3 DEF Present
    <2>3. ASSUME NEW r \in Runs
          PROVE  (IsFiniteSet(Pins(r)) /\ retained[r] = Cardinality(Pins(r)) /\ (Pins(r) # {} => run[r] # "pruned"))'
      <3>0. /\ IsFiniteSet(Pins(r)) /\ retained[r] = Cardinality(Pins(r)) /\ (Pins(r) # {} => run[r] # "pruned")
            /\ c \notin Pins(r)
        BY <1>4, <2>2 DEF PinInv, Pins
      <3>1. CASE Kept /\ c \in FileActions /\ RunOf[c] = r
        <4>1. Pins(r)' = Pins(r) \cup {c}
          BY <2>1, <2>2, <3>1 DEF Pins, Kept, Present
        <4>2. IsFiniteSet(Pins(r) \cup {c}) /\ Cardinality(Pins(r) \cup {c}) = Cardinality(Pins(r)) + 1
          BY <3>0, FS_AddElement
        <4>3. retained'[r] = retained[r] + 1 /\ run'[r] # "pruned"
          BY <1>5, <2>0, <3>1 DEF Kept
        <4>. QED
          BY <3>0, <4>1, <4>2, <4>3
      <3>2. CASE ~(Kept /\ c \in FileActions /\ RunOf[c] = r)
        <4>1. Pins(r)' = Pins(r)
          <5>1. ~(c \in Present /\ entry[c].pinned /\ RunOf[c] = r)'
            BY <1>2, <1>8, <3>2 DEF Kept, Present
          <5>. QED
            BY <2>1, <2>2, <5>1 DEF Pins, Present
        <4>2. retained'[r] = retained[r]
          BY <1>2, <2>0, <3>2 DEF Kept, NotKept
        <4>. QED
          BY <1>5, <3>0, <4>1, <4>2
      <3>. QED
        BY <3>1, <3>2
    <2>. QED
      BY <2>3 DEF PinInv
  <1>h. FinalStep
    <2>1. FinalOK(c)
      <3>1. Kept => RunOf[c] \notin barrier
        BY <1>4 DEF RunsInv, Cleared, Over, Kept
      <3>. QED
        BY <1>2, <1>3, <1>8, <3>1 DEF FinalOK
    <2>2. ASSUME NEW d \in Commitments \ {c} PROVE FinalOK(d)
      <3>1. CASE entry'[d] = entry[d]
        BY <3>1 DEF FinalOK
      <3>2. CASE entry[d].state \in Final /\ ~entry[d].pinned /\ entry'[d].state = "gone"
        <4>1. WorldOK(d) /\ d \in Present
          BY <1>4, <2>2, <3>2 DEF WorldInv, Present, Final
        <4>. QED
          BY <3>2, <4>1 DEF WorldOK, FinalOK, AckConclusive
      <3>. QED
        BY <1>5, <2>2, <3>1, <3>2 DEF Forgets
    <2>. QED
      BY <2>1, <2>2 DEF FinalStep
  <1>. QED
    BY <1>5, <1>a, <1>b, <1>c, <1>d, <1>e, <1>f, <1>g, <1>h DEF Inv

-----------------------------------------------------------------------------
LEMMA InitInv == Init => Inv
  <1>. SUFFICES ASSUME Init PROVE Inv
    OBVIOUS
  <1>1. /\ th \in [Threads -> Thread] /\ \A u \in Threads : th[u] = Idle
    BY IdleIs DEF Init
  <1>2. /\ NewEntry \in EntryType /\ NewEntry.state = "absent" /\ ~NewEntry.pinned
        /\ entry \in [Commitments -> EntryType] /\ \A c \in Commitments : entry[c] = NewEntry
    BY DEF Init, NewEntry, EntryType, CommitmentState, Handoff
  <1>3. Types
    BY <1>1, <1>2 DEF Init, Types, RunState
  <1>4. PlaceInv
    BY <1>1, IdleIs DEF Init, PlaceInv, PlaceOK, Apart, Places, Creating, Carrying, Recording, Paying
  <1>5. AllowedInv
    BY <1>1, <1>2, IdleIs DEF Init, AllowedInv, AllowedOK, EvidenceFirst, Recording
  <1>6. DebtInv
    <2>1. \A u \in Threads : th[u].at = "idle" /\ th[u].owed = {} /\ th[u].leases = {}
      BY <1>1, IdleIs
    <2>2. \A c \in Commitments : ~Ended(c) /\ ends[c] = 0 /\ c \notin lease
      BY <1>2 DEF Init, Ended, Final
    <2>3. \A u \in Threads : DebtOK(u)
      BY <2>1 DEF DebtOK
    <2>4. \A t, u \in Threads : OneOwes(t, u)
      BY <2>1 DEF OneOwes, Owes
    <2>5. \A c \in Commitments : EndOK(c)
      BY <2>2 DEF EndOK
    <2>. QED
      BY <2>3, <2>4, <2>5 DEF DebtInv
  <1>7. RunsInv
    BY <1>1, IdleIs DEF Init, RunsInv, RunsOK, Paying, Dropping
  <1>8. HeldInv
    BY <1>1, <1>2, IdleIs DEF Init, HeldInv, HeldOK, Due, Paying, Unconsumed
  <1>9. WorldInv
    BY <1>1, <1>2, IdleIs DEF Init, WorldInv, WorldOK, Present
  <1>10. PinInv
    <2>1. \A r \in Runs : Pins(r) = {}
      BY <1>2 DEF Pins, Present
    <2>. QED
      BY <2>1, FS_EmptySet DEF Init, PinInv
  <1>. QED
    BY <1>3, <1>4, <1>5, <1>6, <1>7, <1>8, <1>9, <1>10 DEF Inv

LEMMA StutterKeeps == ASSUME Inv, UNCHANGED vars PROVE Inv' /\ FinalStep
  <1>1. UNCHANGED <<registry, lock, policy, history, th>>
    BY DEF vars, registry, policy, history
  <1>2. Types /\ NoThread \notin Threads
    BY CommitmentAssumptions DEF Inv
  <1>3. Walks(NoThread)
    BY <1>1, <1>2 DEF Walks, Moves, Types, Only, Stands, Same, RunsGoOn, Over, registry, policy, history
  <1>. QED
    BY <1>2, <1>3, WalkKeeps

LEMMA NextKeeps == Inv /\ [Next]_vars => Inv' /\ FinalStep
  <1>. SUFFICES ASSUME Inv, [Next]_vars PROVE Inv' /\ FinalStep
    OBVIOUS
  <1>1. ASSUME NEW t \in Threads, Calls(t) PROVE Inv' /\ FinalStep
    BY <1>1, ProposeKeeps, AuthorizeKeeps, ExecuteKeeps, DenyKeeps, AckKeeps, EndRunKeeps, RevokeGrantKeeps,
       HaltDoorKeeps, StopAllKeeps, PruneKeeps DEF Calls
  <1>2. ASSUME NEW t \in Threads, Continues(t) PROVE Inv' /\ FinalStep
    <2>1. CASE RecordPrepared(t) \/ Insert(t) \/ FillPlace(t) \/ Ask(t) \/ ReserveAuthorize(t) \/ Start(t)
      BY <2>1, RecordPreparedKeeps, InsertKeeps, FillPlaceKeeps, AskKeeps, ReserveAuthorizeKeeps, StartKeeps
    <2>2. CASE RecordTransition(t) \/ Withdraw(t) \/ Complete(t) \/ Finalize(t) \/ FailUnstarted(t) \/ DropIfFinal(t)
      BY <2>2, RecordTransitionKeeps, WithdrawKeeps, CompleteKeeps, FinalizeKeeps, FailUnstartedKeeps, DropIfFinalKeeps
    <2>3. CASE EndLeases(t) \/ GiveRecords(t) \/ Unhold(t) \/ Sweep(t) \/ TakeDead(t)
      BY <2>3, EndLeasesKeeps, GiveRecordsKeeps, UnholdKeeps, SweepKeeps, TakeDeadKeeps
    <2>4. CASE Revoke(t) \/ BumpOfStop(t) \/ DropAll(t) \/ DropRuns(t) \/ BumpOfRevoke(t)
      BY <2>4, RevokeKeeps, BumpOfStopKeeps, DropAllKeeps, DropRunsKeeps, BumpOfRevokeKeeps
    <2>. QED
      BY <1>2, <2>1, <2>2, <2>3, <2>4 DEF Continues
  <1>3. ASSUME NEW t \in Threads, Awaited(t) \/ Effects(t) PROVE Inv' /\ FinalStep
    BY <1>3, AnswerKeeps, FinishKeeps, HandoffKeeps, EffectHappensKeeps DEF Awaited, Effects
  <1>. QED
    BY <1>1, <1>2, <1>3, EnvironmentKeeps, StutterKeeps DEF Next

\* The invariant holds in every state, for every number of threads, commitments,
\* runs and grants, and every capacity of the registry.
THEOREM CommitmentsInvariant == Spec => []Inv
  <1>1. Inv /\ [Next]_vars => Inv'
    BY NextKeeps
  <1>. QED
    BY <1>1, InitInv, PTL DEF Spec

-----------------------------------------------------------------------------
\* What the invariant says of the end records and of the pins is what the
\* properties count.
LEMMA EndsOnceHolds == Inv => EndsOnce
  <1>. SUFFICES ASSUME Inv PROVE EndsOnce
    OBVIOUS
  <1>0. DebtInv /\ EvidenceFirst /\ Types
    BY DEF Inv, AllowedInv
  <1>1. ASSUME NEW c \in Commitments
        PROVE  ends[c] + Cardinality({u \in Threads : c \in th[u].owed}) = IF Ended(c) THEN 1 ELSE 0
    <2>. DEFINE D == {u \in Threads : c \in th[u].owed}
    <2>0. EndOK(c)
      BY <1>0 DEF DebtInv
    <2>1. CASE \E t \in Threads : Owes(t, c)
      <3>1. PICK t \in Threads : Owes(t, c)
        BY <2>1
      <3>2. D = {t}
        BY <1>0, <3>1 DEF DebtInv, OneOwes, Owes
      <3>3. Cardinality(D) = 1
        BY <3>2, FS_Singleton
      <3>4. Ended(c) /\ ends[c] = 0
        BY <1>0, <3>1 DEF DebtInv, DebtOK, Owes
      <3>. QED
        BY <3>3, <3>4
    <2>2. CASE ~\E t \in Threads : Owes(t, c)
      <3>1. D = {}
        BY <2>2 DEF Owes
      <3>2. Cardinality(D) = 0
        BY <3>1, FS_EmptySet
      <3>3. ends[c] = IF Ended(c) THEN 1 ELSE 0
        BY <2>0, <2>2 DEF EndOK
      <3>. QED
        BY <3>2, <3>3
    <2>. QED
      BY <2>1, <2>2
  <1>2. LeasesEndWithIt
    BY <1>0 DEF DebtInv, EndOK, LeasesEndWithIt
  <1>. QED
    BY <1>0, <1>1, <1>2 DEF EndsOnce, OneEndRecord

\* A commitment ends once: whatever thread ends it, and whatever it races with, what
\* it was allowed was recorded first, it has one end record, given or owed by the one
\* call that ended it, and its leases end with it (commitment.rs: end_entry, complete,
\* finish, flush).
THEOREM EveryCommitmentEndsOnce == Spec => []EndsOnce
  BY CommitmentsInvariant, EndsOnceHolds, PTL

LEMMA NothingIsLostHolds == Inv => NothingIsLost
  <1>. SUFFICES ASSUME Inv PROVE NothingIsLost
    OBVIOUS
  <1>0. Types /\ HeldInv /\ WorldInv /\ PinInv
    BY DEF Inv
  <1>1. NoOrphans
    <2>. DEFINE waiting == {c \in Commitments : entry[c].state \in Unconsumed}
    <2>. SUFFICES ASSUME \A t \in Threads : th[t].at = "idle"
                  PROVE  held \subseteq waiting /\ (generation = 0 => waiting \subseteq held)
      BY DEF NoOrphans, At
    <2>1. \A u \in Threads : ~Carrying(th[u]) /\ \A c \in Commitments : ~Removes(th[u], c)
      BY DEF Carrying, Removes, Due, Paying, Recording
    <2>2. \A c \in Commitments : /\ c \in held => entry[c].state \in Unconsumed
                                 /\ generation = 0 /\ entry[c].state \in Unconsumed => c \in held
      BY <1>0, <2>1 DEF HeldInv, HeldOK
    <2>. QED
      BY <1>0, <2>2 DEF Types
  <1>2. PinsRetainTheirRun
    BY <1>0 DEF PinInv, Pins, PinsRetainTheirRun
  <1>3. PublicationIsTrue
    <2>. SUFFICES ASSUME NEW c \in Present
                  PROVE  /\ Publication(c) = "Published" => c \in world
                         /\ Publication(c) = "ConfirmedNotPublished" => c \notin world
      BY DEF PublicationIsTrue
    <2>1. c \in Commitments /\ entry[c].state \notin {"absent", "refused", "gone"} /\ entry[c].state \in CommitmentState
      BY <1>0, Fields DEF Present
    <2>2. WorldOK(c)
      BY <1>0, <2>1 DEF WorldInv
    <2>. QED
      BY <2>1, <2>2 DEF WorldOK, Publication, Unconsumed
  <1>. QED
    BY <1>1, <1>2, <1>3 DEF NothingIsLost

\* Nothing is lost: an idle registry holds the effect of a commitment just when it may
\* still be consumed, a pinned outcome retains its run, and a publication is reported
\* as it was (commitment.rs: publication, ack; control.rs: the pending table).
THEOREM NothingIsEverLost == Spec => []NothingIsLost
  BY CommitmentsInvariant, NothingIsLostHolds, PTL

\* An end is final: no step takes a commitment out of an end, starts one behind the
\* barrier of a cancelled, halted or stopped run, or forgets an uncertain File outcome
\* (commitment.rs: complete's token, revoke_runs, prune).
THEOREM EveryEndIsFinal == Spec => EndsAreFinal
  <1>1. Inv /\ [Next]_vars =>
           [\A c \in Commitments : Ended(c) => entry'[c].state \in {entry[c].state, "gone"}]_vars
    BY NextKeeps DEF FinalStep, FinalOK
  <1>2. Inv /\ [Next]_vars =>
           [\A c \in Commitments :
              entry'[c].state \in {"Prepared", "Authorized", "Executing"} \ {entry[c].state}
                 => RunOf[c] \notin barrier]_vars
    BY NextKeeps DEF FinalStep, FinalOK
  <1>3. Inv /\ [Next]_vars =>
           [\A c \in FileActions : entry'[c].state = "gone" /\ entry[c].state # "gone"
                => Publication(c) \in {"Published", "ConfirmedNotPublished"}]_vars
    BY NextKeeps, CommitmentAssumptions DEF FinalStep, FinalOK
  <1>. QED
    BY <1>1, <1>2, <1>3, CommitmentsInvariant, PTL
       DEF Spec, EndsAreFinal, EndedStaysEnded, NothingStartsBehindTheBarrier, UncertainIsKept
=============================================================================
