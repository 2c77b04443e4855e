----------------------------- MODULE RewardPool -----------------------------
(***************************************************************************)
(* Reward batches of juice-pool-sbtc-signer.clar, and the pool's handshake *)
(* with its swap vaults.                                                   *)
(*                                                                         *)
(* Claiming pool rewards opens a tranche of a reward cycle and funds the   *)
(* active vault; the tranche is settled when the pool collects the STX of  *)
(* the closed batch (finalize-swap) or takes everything back               *)
(* (emergency-recover).  One tranche is in flight at a time, over all      *)
(* cycles.  The admin may rotate to another vault after a notice.  Payouts *)
(* to stakers are in TranchePayouts; here settled money stays in the pool. *)
(***************************************************************************)
EXTENDS SwapVault, FiniteSets, Functions

CONSTANTS
    InitialVault,   \* .juice-sbtc-autoswap
    VaultNotice,    \* SWAP_VAULT_COOLDOWN (4032)
    Cycles,         \* reward cycles
    MaxTranche,     \* bound: highest tranche number of a cycle
    DistLength      \* burn blocks per pox-5 distribution cycle

ASSUME PoolAssumption ==
    /\ InitialVault \in Vaults
    /\ None \notin Vaults
    /\ VaultNotice \in Nat
    /\ IsFiniteSet(Cycles)
    /\ None \notin [cycle : Cycles, tranche : Nat]
    /\ MaxTranche \in Nat
    /\ DistLength \in Nat \ {0}

VARIABLES
    swapVault,           \* swap-vault
    pendingVault,        \* pending-swap-vault
    pendingVaultHeight,  \* pending-swap-vault-height
    pendingSwap,         \* pending-swap: the tranche in flight, or None
    trancheCount,        \* tranche-count
    lastClaimDist,       \* last-claim-dist-cycle
    finalized,           \* finalized-tranches, as the set of its keys
    stxPot,              \* stx-pot
    recoveredPot,        \* recovered-sbtc-pot; None where the code has no entry
    poolStx,             \* the pool's uSTX balance
    poolSbtc             \* the pool's sBTC balance

rotation == <<swapVault, pendingVault, pendingVaultHeight>>
ledger   == <<pendingSwap, trancheCount, lastClaimDist, finalized, stxPot,
              recoveredPot, poolStx, poolSbtc>>
poolVars == <<vaultVars, rotation, ledger>>

Tranches == [cycle : Cycles, tranche : 0..MaxTranche]

\* pox-5's current-distribution-cycle.
CurrentDist == height \div DistLength

-----------------------------------------------------------------------------
PoolInit ==
    /\ VaultInit
    /\ swapVault = InitialVault
    /\ pendingVault = None
    /\ pendingVaultHeight = 0
    /\ pendingSwap = None
    /\ trancheCount = [c \in Cycles |-> 0]
    /\ lastClaimDist = [c \in Cycles |-> None]
    /\ finalized = {}
    /\ stxPot = [b \in Tranches |-> 0]
    /\ recoveredPot = [b \in Tranches |-> None]
    /\ poolStx = 0
    /\ poolSbtc = 0

(* Vault rotation.  Only the admin may call these.                         *)

\* assert-idle-vault: no batch clock, no live or parked ask.
Idle(v) == batchStart[v] = None /\ resting[v] = 0 /\ parked[v] = 0

\* Mutant: a proposal that replaces another keeps its notice.
ReplaceProposal(v) ==
    /\ v # swapVault
    /\ Idle(v)
    /\ pendingVault' = v
    /\ pendingVaultHeight' = IF pendingVault = None THEN height ELSE pendingVaultHeight
    /\ UNCHANGED <<vaultVars, swapVault, ledger>>

ProposeSwapVault(v) ==
    /\ v # swapVault
    /\ Idle(v)
    /\ pendingVault' = v
    /\ pendingVaultHeight' = height
    /\ UNCHANGED <<vaultVars, swapVault, ledger>>

CancelSwapVaultProposal ==
    /\ pendingVault' = None
    /\ pendingVaultHeight' = 0
    /\ UNCHANGED <<vaultVars, swapVault, ledger>>

\* Mutant: a closed batch that waits to be finished is not seen.
ConfirmSwapVaultByClock ==
    /\ pendingVault # None
    /\ height >= pendingVaultHeight + VaultNotice
    /\ Idle(swapVault)
    /\ Idle(pendingVault)
    /\ swapVault' = pendingVault
    /\ pendingVault' = None
    /\ pendingVaultHeight' = 0
    /\ UNCHANGED <<vaultVars, ledger>>

ConfirmSwapVault ==
    /\ pendingVault # None
    /\ height >= pendingVaultHeight + VaultNotice
    /\ pendingSwap = None
    /\ Idle(swapVault)
    /\ Idle(pendingVault)
    /\ swapVault' = pendingVault
    /\ pendingVault' = None
    /\ pendingVaultHeight' = 0
    /\ UNCHANGED <<vaultVars, ledger>>

-----------------------------------------------------------------------------
(* Anyone may call these, with the active vault.                           *)

\* One claim per reward cycle and distribution; pox-5 hands over `claimed`
\* sats, which go to the vault in the same transaction.
PoxClaimRewards(c, claimed) ==
    /\ lastClaimDist[c] # None => CurrentDist > lastClaimDist[c]
    /\ claimed > 0
    /\ pendingSwap = None
    /\ Fund(swapVault, claimed)
    /\ pendingSwap' = [cycle |-> c, tranche |-> trancheCount[c]]
    /\ trancheCount' = [trancheCount EXCEPT ![c] = @ + 1]
    /\ lastClaimDist' = [lastClaimDist EXCEPT ![c] = CurrentDist]
    /\ UNCHANGED <<rotation, finalized, stxPot, recoveredPot, poolStx,
                   poolSbtc>>

\* Mutant: the tranche is paid for but not marked.
FinalizeSwapUnmarked ==
    /\ pendingSwap # None
    /\ Finish(swapVault)
    /\ poolStx' = poolStx + FinishAmount(swapVault)
    /\ stxPot' = [stxPot EXCEPT ![pendingSwap] = FinishAmount(swapVault)]
    /\ pendingSwap' = None
    /\ UNCHANGED <<rotation, trancheCount, lastClaimDist, finalized,
                   recoveredPot, poolSbtc>>

FinalizeSwap ==
    /\ pendingSwap # None
    /\ Finish(swapVault)
    /\ poolStx' = poolStx + FinishAmount(swapVault)
    /\ stxPot' = [stxPot EXCEPT ![pendingSwap] = FinishAmount(swapVault)]
    /\ finalized' = finalized \cup {pendingSwap}
    /\ pendingSwap' = None
    /\ UNCHANGED <<rotation, trancheCount, lastClaimDist, recoveredPot,
                   poolSbtc>>

\* Mutant: what comes back from the market is not credited.
RecoverSwapWalletOnly ==
    /\ pendingSwap # None
    /\ EmergencyRecover(swapVault)
    /\ poolStx' = poolStx + stx[swapVault]
    /\ poolSbtc' = poolSbtc + sbtc[swapVault] + MarketTotal(swapVault)
    /\ stxPot' = [stxPot EXCEPT ![pendingSwap] = stx[swapVault]]
    /\ recoveredPot' = [recoveredPot EXCEPT ![pendingSwap] = sbtc[swapVault]]
    /\ finalized' = finalized \cup {pendingSwap}
    /\ pendingSwap' = None
    /\ UNCHANGED <<rotation, trancheCount, lastClaimDist>>

\* Mutant: a recovered tranche is not marked.
RecoverSwapUnmarked ==
    LET sats == sbtc[swapVault] + MarketTotal(swapVault) IN
    /\ pendingSwap # None
    /\ EmergencyRecover(swapVault)
    /\ poolStx' = poolStx + stx[swapVault]
    /\ poolSbtc' = poolSbtc + sats
    /\ stxPot' = [stxPot EXCEPT ![pendingSwap] = stx[swapVault]]
    /\ recoveredPot' = [recoveredPot EXCEPT ![pendingSwap] = sats]
    /\ pendingSwap' = None
    /\ UNCHANGED <<rotation, trancheCount, lastClaimDist, finalized>>

RecoverSwap ==
    LET sats == sbtc[swapVault] + MarketTotal(swapVault) IN
    /\ pendingSwap # None
    /\ EmergencyRecover(swapVault)
    /\ poolStx' = poolStx + stx[swapVault]
    /\ poolSbtc' = poolSbtc + sats
    /\ stxPot' = [stxPot EXCEPT ![pendingSwap] = stx[swapVault]]
    /\ recoveredPot' = [recoveredPot EXCEPT ![pendingSwap] = sats]
    /\ finalized' = finalized \cup {pendingSwap}
    /\ pendingSwap' = None
    /\ UNCHANGED <<rotation, trancheCount, lastClaimDist>>

-----------------------------------------------------------------------------
Rotation ==
    \/ \E v \in Vaults : ProposeSwapVault(v)
    \/ CancelSwapVaultProposal
    \/ ConfirmSwapVault

\* A claim is explored when its tranche number and its whole recovery delay
\* still lie within the bounds.
Claim ==
    \E c \in Cycles, claimed \in FundAmounts :
        /\ trancheCount[c] <= MaxTranche
        /\ height + RecoveryDelay <= MaxHeight
        /\ PoxClaimRewards(c, claimed)

\* What happens at the vaults.  The pool passes the admin's settings and swaps
\* on to its active vault only.
VaultStep ==
    /\ \/ Setting(swapVault)
       \/ AdminSwap(swapVault)
       \/ \E v \in Vaults : Public(v) \/ Market(v) \/ Donation(v)
    /\ UNCHANGED <<rotation, ledger>>

PoolTick == Tick /\ UNCHANGED <<rotation, ledger>>

PoolNext ==
    PoolTick \/ VaultStep \/ Rotation \/ Claim \/ FinalizeSwap \/ RecoverSwap

PoolSpec == PoolInit /\ [][PoolNext]_poolVars

\* Blocks keep coming, and finalize-swap and emergency-recover are open to
\* anyone, so someone who is owed money calls them once they can succeed.
FairPoolSpec ==
    /\ PoolSpec
    /\ WF_poolVars(PoolTick)
    /\ WF_poolVars(FinalizeSwap)
    /\ WF_poolVars(RecoverSwap)

-----------------------------------------------------------------------------
\* Types, of the vaults and of the ledger of the pool; the pots and balances are
\* amounts that were received.
PoolTypeOK ==
    /\ VaultTypeOK
    /\ swapVault \in Vaults
    /\ pendingVault \in Vaults \cup {None}
    /\ pendingVaultHeight \in Nat
    /\ pendingSwap \in Tranches \cup {None}
    /\ trancheCount \in [Cycles -> 0..(MaxTranche + 1)]
    /\ lastClaimDist \in [Cycles -> Nat \cup {None}]
    /\ finalized \subseteq Tranches
    /\ stxPot \in [Tranches -> Nat]
    /\ recoveredPot \in [Tranches -> Nat \cup {None}]
    /\ poolStx \in Nat
    /\ poolSbtc \in Nat

\* The vault holds a batch, open or closed, exactly while the pool has a
\* tranche in flight; a vault that is not the active one never holds any, so
\* no rotation leaves a batch behind and no batch is without a tranche.
VaultBusyIffPending ==
    \A v \in Vaults :
        (batchStart[v] # None \/ readyToFinish[v])
            <=> (pendingSwap # None /\ v = swapVault)

\* Of the tranches claimed so far, all are settled but the one in flight,
\* which is the newest of its cycle.
SettledAllButPending ==
    \A b \in Tranches :
        /\ b \in finalized <=> b.tranche < trancheCount[b.cycle] /\ b # pendingSwap
        /\ b = pendingSwap => b.tranche + 1 = trancheCount[b.cycle]

\* A tranche has no STX or sBTC to pay out before it is settled.
NoPotBeforeSettled ==
    \A b \in Tranches \ finalized : stxPot[b] = 0 /\ recoveredPot[b] = None

\* The pots are exactly the pool's money: every uSTX and sat a vault sent home
\* is owed to one tranche, and no tranche is owed money that never came.
PotsMatchBalances ==
    /\ poolStx = SumFunctionOnSet(stxPot, Tranches)
    /\ poolSbtc = SumFunctionOnSet(recoveredPot,
                                   {b \in Tranches : recoveredPot[b] # None})

\* When the pool collects a closed batch the vault is left without STX
\* ("`finish` must return all payout STX to this pool",
\* README-juice-pool-vault-upgrades.md).
FinishReturnsAllStx ==
    [][\A v \in Vaults : readyToFinish[v] /\ ~readyToFinish'[v]
          => stx'[v] = 0]_poolVars

\* Whatever is left in a vault the pool does not use is at most dust and
\* gifts: a rotation strands no more than that of the stakers' sBTC.
IdleVaultsHoldOnlyDust ==
    \A v \in Vaults \ {swapVault} :
        sbtc[v] + MarketTotal(v) <= DustSats + gift[v]

\* A settled tranche stays settled and its pots never change again.
SettledForever ==
    [][\A b \in finalized :
          /\ b \in finalized'
          /\ stxPot'[b] = stxPot[b]
          /\ recoveredPot'[b] = recoveredPot[b]]_poolVars

\* What a tranche was settled with: its two pots.
TrancheOutcome ==
    [b \in Tranches |-> IF b \in finalized
                        THEN [stx |-> stxPot[b], sbtc |-> recoveredPot[b]]
                        ELSE None]

\* The pool implements TrancheLifecycle under this mapping.
Lifecycle == INSTANCE TrancheLifecycle WITH
    opened <- trancheCount,
    inFlight <- pendingSwap,
    outcome <- TrancheOutcome

\* Every step of the pool is a step of TrancheLifecycle or none: whatever the
\* vaults, the market and the rotation do, tranches open in order, one at a
\* time, and each is settled once with one outcome.
ImplementsLifecycle == Lifecycle!LifecycleSpec

\* Blocks since the proposal, counted up to the notice.
ProposalAge ==
    IF height >= pendingVaultHeight + VaultNotice
    THEN VaultNotice
    ELSE height - pendingVaultHeight

VaultChange == INSTANCE DelayedChange WITH
    Delay <- VaultNotice,
    NoOffer <- None,
    value <- swapVault,
    offer <- pendingVault,
    age <- ProposalAge

\* The pool moves only to a vault proposed, unchanged, VaultNotice blocks ago.
VaultChangesOnNotice == VaultChange!ChangeSpec

\* A tranche in flight is settled in the end: by a sale, or by recovery.
TrancheSettles == pendingSwap # None ~> pendingSwap = None
=============================================================================
