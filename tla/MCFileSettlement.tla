-------------------------- MODULE MCFileSettlement --------------------------
(***************************************************************************)
(* FileSettlement for TLC, in two scopes: one File stopped by two threads   *)
(* and the budget, no append failing; and two Files, one thread stopping    *)
(* at a time, an append, a withdrawal or a read failing.  A crash may come  *)
(* anywhere in both.                                                        *)
(***************************************************************************)
EXTENDS FileSettlement, TLC

Symmetry == Permutations(Stoppers)

VARIABLE scope
mcvars == <<scope, vars>>

InScope ==
  CASE scope = "races"  -> /\ faults = 0
                           /\ th[Adv].pc = "boundary" => m.next = 1
    [] scope = "faults" -> /\ cell # "time"
                           /\ \E s \in Stoppers : th[s] = Idle

MCInit == Init /\ scope \in {"races", "faults"}
MCNext == Next /\ scope' = scope /\ InScope'
MCSpec == MCInit /\ [][MCNext]_mcvars
=============================================================================
