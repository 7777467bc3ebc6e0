---------------------------- MODULE OwnerPromise ----------------------------
(***************************************************************************)
(* What Mother promises the Owner about a mission, whatever lanes, broker,  *)
(* failures and restarts do: nothing of it begins before the Owner agreed   *)
(* to its contract as it stands; once something began, the contract stands; *)
(* nothing begins while the Owner is asked about an action; and an ended    *)
(* mission begins nothing.                                                  *)
(***************************************************************************)
EXTENDS Naturals

CONSTANTS Missions, Hashes, NoHash

VARIABLES contract,     \* per mission, the hash of its contract
          agreed,       \* per mission, the contract the Owner agreed to
          begun,        \* per mission, how many of its effects began
          asked,        \* per mission, whether an action waits for the Owner
          over          \* per mission, whether it ended

promise == <<contract, agreed, begun, asked, over>>

Init ==
    /\ contract = [m \in Missions |-> NoHash]
    /\ agreed = [m \in Missions |-> NoHash]
    /\ begun = [m \in Missions |-> 0]
    /\ asked = [m \in Missions |-> FALSE]
    /\ over = [m \in Missions |-> FALSE]

\* A contract is drafted or revised.
Write(m, h) ==
    /\ begun[m] = 0 /\ ~over[m]
    /\ contract' = [contract EXCEPT ![m] = h]
    /\ agreed' = [agreed EXCEPT ![m] = NoHash]
    /\ UNCHANGED <<begun, asked, over>>

\* The Owner agrees to the contract as it stands.
Agree(m) ==
    /\ contract[m] # NoHash /\ agreed[m] = NoHash /\ ~over[m]
    /\ agreed' = [agreed EXCEPT ![m] = contract[m]]
    /\ UNCHANGED <<contract, begun, asked, over>>

Begin(m) ==
    /\ agreed[m] # NoHash /\ agreed[m] = contract[m]
    /\ ~asked[m] /\ ~over[m]
    /\ begun' = [begun EXCEPT ![m] = @ + 1]
    /\ UNCHANGED <<contract, agreed, asked, over>>

\* An effect that began waits for the Owner's approval; later it does not.
Ask(m) ==
    /\ begun[m] > 0 /\ ~asked[m] /\ ~over[m]
    /\ asked' = [asked EXCEPT ![m] = TRUE]
    /\ UNCHANGED <<contract, agreed, begun, over>>

Answer(m) ==
    /\ asked[m]
    /\ asked' = [asked EXCEPT ![m] = FALSE]
    /\ UNCHANGED <<contract, agreed, begun, over>>

End(m) ==
    /\ contract[m] # NoHash /\ ~over[m]
    /\ over' = [over EXCEPT ![m] = TRUE]
    /\ UNCHANGED <<contract, agreed, begun, asked>>

Next ==
    \E m \in Missions :
        \/ \E h \in Hashes : Write(m, h)
        \/ Agree(m) \/ Begin(m) \/ Ask(m) \/ Answer(m) \/ End(m)

Spec == Init /\ [][Next]_promise
=============================================================================
