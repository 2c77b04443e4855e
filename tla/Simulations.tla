----------------------------- MODULE Simulations -----------------------------
(***************************************************************************)
(* The simulation scripts of simulations/, replayed on the models: those   *)
(* of the pool on JuicePool, those of the earlier pool on JuicePoolStx.    *)
(* A behaviour runs one script; one family's variables stay put while a    *)
(* script of the other runs.                                               *)
(***************************************************************************)
EXTENDS PayScripts, SeatScripts, VaultScripts

VARIABLES
    script,  \* the script that is running, or None
    line     \* its next step

\* The state of the earlier pool and its scripts.
VARIABLES
    oldHeight, oldCalculated, oldUnlock, oldShares, oldUnclaimed, oldAdmin,
    oldPaused, oldFeeBips, oldPendingFee, oldPendingFeeHeight, oldOgStakers,
    oldEarnedFees, oldStxPot, oldTrancheCount, oldLastClaimDist, oldStxPaid,
    oldTranchePaid, oldTranchePaidShares, oldBalance, oldEarly, oldScript,
    oldLine

ScriptStakers ==
    {"A", "B", "C", "D", "E", "PREP", "HOP", "HOP2", "UNS", "ZERO", "LATE",
     "UNDER", "OG1", "PAYER", "ALICE", "BOB", "SAFE"} \cup DOMAIN ShareOf

ScriptPrincipals == {"deployer", "stranger"} \cup ScriptStakers

OldPrincipals ==
    {"s1", "s2", "s3", "s4", "s5", "s6", "s7", "s8", "deployer", "friedger",
     "stranger"}

Old == INSTANCE StxPoolScripts WITH
    Principals <- OldPrincipals, FirstAdmin <- "deployer", None <- None,
    FeeCooldown <- 144, MaxBips <- 10000, MaxFeeBips <- 2000, DistLength <- 1050,
    PrepareLength <- 100,
    Amounts <- {1}, Rewards <- {3}, FeeChoices <- {0}, OgChoices <- {},
    LastCycle <- 6, MaxTranche <- 2,
    MaxHeight <- 9000,
    height <- oldHeight, calculated <- oldCalculated, unlock <- oldUnlock,
    shares <- oldShares, unclaimed <- oldUnclaimed, admin <- oldAdmin,
    paused <- oldPaused, feeBips <- oldFeeBips, pendingFee <- oldPendingFee,
    pendingFeeHeight <- oldPendingFeeHeight, ogStakers <- oldOgStakers,
    earnedFees <- oldEarnedFees, stxPot <- oldStxPot,
    trancheCount <- oldTrancheCount, lastClaimDist <- oldLastClaimDist,
    stxPaid <- oldStxPaid, tranchePaid <- oldTranchePaid,
    tranchePaidShares <- oldTranchePaidShares, balance <- oldBalance,
    early <- oldEarly,
    script <- oldScript, line <- oldLine

oldVars ==
    <<oldHeight, oldCalculated, oldUnlock, oldShares, oldUnclaimed, oldAdmin,
      oldPaused, oldFeeBips, oldPendingFee, oldPendingFeeHeight, oldOgStakers,
      oldEarnedFees, oldStxPot, oldTrancheCount, oldLastClaimDist, oldStxPaid,
      oldTranchePaid, oldTranchePaidShares, oldBalance, oldEarly, oldScript,
      oldLine>>

-----------------------------------------------------------------------------
PoolScripts ==
    [pool_og_cap |-> OgCap, pool_og_shrink |-> OgShrink,
     pool_og_evict |-> OgEvict, pool_og_seats |-> OgSeatsAndPay,
     pool_admin_handover |-> AdminHandover,
     pool_pay_batches |-> PayBatches, pool_pay_fees |-> PayFees,
     pool_accounting |-> Accounting, pool_claim_guards |-> ClaimGuards,
     pool_vault_fixes |-> VaultFixes,
     pool_vault_maker |-> SoldByMaker, pool_vault_router |-> SoldByRouter,
     pool_vault_take |-> SoldByTake, pool_vault_split |-> SoldBySplit,
     pool_autostake |-> Autostake,
     pool_vault_recovery |-> Recovery,
     recovery_none |-> RecoveryUnplaced, recovery_pending |-> RecoveryPending,
     recovery_resting |-> RecoveryResting, recovery_parked |-> RecoveryParked,
     recovery_topped_up |-> RecoveryToppedUp,
     pool_vault_upgrade |-> Upgrade]

Running == script # None /\ line \in DOMAIN PoolScripts[script]

Step == PoolScripts[script][line]

SimulationsInit ==
    /\ JuiceInit
    /\ script \in DOMAIN PoolScripts \cup {None}
    /\ line = 1
    /\ Old!StxScriptInit
    /\ (script = None) # (oldScript = None)

PoolScriptStep ==
    /\ Running
    /\ line' = line + 1
    /\ UNCHANGED <<script, oldVars>>
    /\ IF Step.kind = "does"
       THEN Perform(Step.by, Step.fn, Step.args)
       ELSE UNCHANGED juiceVars

OldScriptStep ==
    /\ Old!StxScriptNext
    /\ UNCHANGED <<juiceVars, script, line>>

SimulationsNext == PoolScriptStep \/ OldScriptStep

SimulationsSpec ==
    SimulationsInit /\ [][SimulationsNext]_<<juiceVars, script, line, oldVars>>

-----------------------------------------------------------------------------
\* The pool does what its scripts expect of the contract on a fork of mainnet:
\* a call that is to succeed is enabled, one that is to fail is not, and the
\* readings after them have the expected values.
PoolScriptsAgree ==
    Running =>
        CASE Step.kind = "does"    -> ENABLED Perform(Step.by, Step.fn, Step.args)
          [] Step.kind = "refuses" -> ~ENABLED Perform(Step.by, Step.fn, Step.args)
          [] Step.kind = "shows"   -> Reading(Step.fn, Step.args) = Step.want

\* Both pools, the present one and the earlier one, do what their scripts expect
\* of the contracts.
ScriptsAgree == PoolScriptsAgree /\ Old!StxScriptsAgree
=============================================================================
