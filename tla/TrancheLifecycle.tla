-------------------------- MODULE TrancheLifecycle --------------------------
(***************************************************************************)
(* What the pool promises about reward tranches, without vaults, markets,  *)
(* blocks or rotations: tranches of a cycle are opened one after another,  *)
(* one is in flight at a time, and each one opened is settled exactly once *)
(* with the STX and sBTC that its stakers share.  RewardPool implements    *)
(* this specification.                                                     *)
(***************************************************************************)
EXTENDS Integers

CONSTANTS Cycles, MaxTranche, None

VARIABLES
    opened,    \* tranches opened per cycle
    inFlight,  \* the tranche being swapped, or None
    outcome    \* for each tranche: None, or the STX and sBTC to pay out

lifecycleVars == <<opened, inFlight, outcome>>

AllTranches == [cycle : Cycles, tranche : 0..MaxTranche]

\* The sBTC is None for a tranche that was sold in full.
Outcomes == [stx : Nat, sbtc : Nat \cup {None}]

LifecycleInit ==
    /\ opened = [c \in Cycles |-> 0]
    /\ inFlight = None
    /\ outcome = [b \in AllTranches |-> None]

Open(c) ==
    /\ inFlight = None
    /\ opened[c] <= MaxTranche
    /\ inFlight' = [cycle |-> c, tranche |-> opened[c]]
    /\ opened' = [opened EXCEPT ![c] = @ + 1]
    /\ UNCHANGED outcome

Settle(o) ==
    /\ inFlight # None
    /\ outcome[inFlight] = None
    /\ outcome' = [outcome EXCEPT ![inFlight] = o]
    /\ inFlight' = None
    /\ UNCHANGED opened

LifecycleNext ==
    \/ \E c \in Cycles : Open(c)
    \/ /\ inFlight # None
       /\ outcome'[inFlight] \in Outcomes
       /\ Settle(outcome'[inFlight])

LifecycleSpec == LifecycleInit /\ [][LifecycleNext]_lifecycleVars
=============================================================================
