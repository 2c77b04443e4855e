------------------------------ MODULE JuicePool ------------------------------
(***************************************************************************)
(* The whole of juice-pool-sbtc-signer.clar: reward tranches and vaults    *)
(* (RewardPool), OG seats (OgSeats), admin and fee (PoolGovernance) and    *)
(* payouts (TranchePayouts), put together as the calls of one contract.    *)
(*                                                                         *)
(* The components share state: payouts use the fee of PoolGovernance, the  *)
(* covers of OgSeats and the pots of RewardPool, and every call of the     *)
(* admin asks PoolGovernance who that is.  pox-5's cycles in OgSeats and   *)
(* the burn heights of the rest advance separately.                        *)
(*                                                                         *)
(* JuiceSpec lets all of them act on one state, in any order; Call is the  *)
(* same contract call by call, for the scripts of Simulations.             *)
(***************************************************************************)
EXTENDS RewardPool

CONSTANTS
    \* OgSeats
    Stakers, Wealth, InitialCap, MaxLock, MaxCap, MaxCycle,
    \* PoolGovernance and TranchePayouts
    Principals, FirstAdmin, AdminCooldown, FeeCooldown, MaxBips, MaxFeeBips,
    FirstFee

ASSUME JuiceAssumption ==
    /\ IsFiniteSet(Stakers)
    /\ Cycles \subseteq Nat
    /\ {Wealth, InitialCap, MaxLock, MaxCap, MaxCycle, AdminCooldown,
          FeeCooldown} \subseteq Nat
    /\ FirstAdmin \in Principals
    /\ None \notin Principals
    /\ None \notin [amount : Nat, unlock : Nat, signer : {"pool", "other"}]
    /\ None \notin [stx : Nat, sbtc : Nat \cup {None}]
    /\ MaxBips \in Nat \ {0}
    /\ MaxFeeBips \in 0..MaxBips
    /\ FirstFee \in 0..MaxFeeBips

VARIABLES
    cycle, prepare, info, paused, cap, ogStakers, ogSeats, ogCovered,
    admin, pendingAdmin, pendingAdminHeight, feeBips, pendingFee,
    pendingFeeHeight,
    shares, receipt, paid, paidShares, earned, balance, dust

OG == INSTANCE OgSeats

Gov == INSTANCE PoolGovernance WITH FirstHeight <- MaxCooldown, NoOffer <- None

Pay == INSTANCE TranchePayouts WITH
    opened <- trancheCount,
    inFlight <- pendingSwap,
    outcome <- TrancheOutcome,
    cover <- [s \in Stakers |-> OG!Cover(s)],
    ShareChoices <- Nat,
    CoverChoices <- Nat,
    PotChoices <- [stx : Nat, sbtc : Nat \cup {None}]

seatVars == <<cycle, prepare, info, paused, cap, ogStakers, ogSeats, ogCovered>>
offices  == <<admin, pendingAdmin, pendingAdminHeight, feeBips, pendingFee,
              pendingFeeHeight>>
accounts == <<shares, receipt, paid, paidShares, earned, balance, dust>>
juiceVars == <<poolVars, seatVars, offices, accounts>>

JuiceInit ==
    /\ PoolInit
    /\ OG!OgInit
    /\ admin = FirstAdmin
    /\ pendingAdmin = None
    /\ pendingAdminHeight = 0
    /\ feeBips = FirstFee
    /\ pendingFee = None
    /\ pendingFeeHeight = 0
    /\ shares = [c \in Cycles |-> [s \in Stakers |-> 0]]
    /\ receipt = [a \in Pay!Assets |->
                    [b \in Tranches |-> [s \in Stakers |-> None]]]
    /\ paid = [a \in Pay!Assets |-> [b \in Tranches |-> 0]]
    /\ paidShares = [a \in Pay!Assets |-> [b \in Tranches |-> 0]]
    /\ dust = [a \in Pay!Assets |-> [b \in Tranches |-> 0]]
    /\ earned = [a \in Pay!Assets |-> 0]
    /\ balance = [a \in Pay!Assets |-> 0]

-----------------------------------------------------------------------------
(* The steps in which the components meet.                                 *)

\* pox-5 pays nothing for a cycle in which the pool has no shares.
ClaimRewards(c) ==
    /\ Pay!TotalShares(c) > 0
    /\ UNCHANGED <<seatVars, offices, accounts>>

\* What finalize-swap and emergency-recover bring is in the pool's wallet, for
\* the payouts to share out.
CollectTranche ==
    /\ balance' = [balance EXCEPT !["stx"] = @ + (poolStx' - poolStx),
                                  !["sbtc"] = @ + (poolSbtc' - poolSbtc)]
    /\ UNCHANGED <<seatVars, offices, shares, receipt, paid, paidShares, earned,
                   dust>>

\* A staker's shares of the pool in the current cycle.
SharesOf(s) == IF OG!Staying(s) THEN info[s].amount ELSE 0

\* With a cycle pox-5 freezes its shares: the stake of those who are locked with
\* the pool.  A pool whose stake, with that of its bonds, is below pox-5's
\* minimum has none in the cycle.
BeginCycle ==
    \/ UNCHANGED shares
    \/ /\ cycle' \in Cycles
       /\ cycle' # cycle
       /\ shares' = [shares EXCEPT ![cycle'] = [s \in Stakers |-> SharesOf(s)']]

-----------------------------------------------------------------------------
(* All of it.                                                              *)

PoolStep ==
    /\ PoolTick \/ VaultStep \/ Rotation
    /\ UNCHANGED <<seatVars, offices, accounts>>

ClaimStep == Claim /\ ClaimRewards(pendingSwap'.cycle)

CollectStep == (FinalizeSwap \/ RecoverSwap) /\ CollectTranche

SeatStep == OG!SeatCall /\ UNCHANGED <<poolVars, offices, accounts>>

PhaseStep ==
    /\ OG!NextPhase
    /\ BeginCycle
    /\ UNCHANGED <<poolVars, offices, receipt, paid, paidShares, earned,
                   balance, dust>>

OfficeStep ==
    /\ \E caller \in Principals : Gov!GovernanceCall(caller)
    /\ UNCHANGED <<poolVars, seatVars, accounts>>

PayoutStep == UNCHANGED <<poolVars, seatVars, offices>> /\ Pay!PayoutCall

JuiceNext ==
    \/ PoolStep
    \/ ClaimStep
    \/ CollectStep
    \/ SeatStep
    \/ PhaseStep
    \/ OfficeStep
    \/ PayoutStep

JuiceSpec == JuiceInit /\ [][JuiceNext]_juiceVars

\* The wallet is what the vaults sent, less what was paid: it is owed to the
\* stakers of the tranches it came for, or a fee, whoever rotates vaults, sells,
\* recovers, pays, sweeps and withdraws.
WalletBacksDebts == Pay!BalanceBacksDebts

\* A stake that is covered in full is paid in full: whoever is locked with the
\* pool and has a cover for all of it pays no fee on the tranches of the
\* current cycle, whatever the admin makes of the fee.
CoveredIsPaidInFull ==
    [][\A a \in Pay!Assets, b \in Tranches, s \in Stakers :
          /\ b.cycle = cycle
          /\ OG!Staying(s)
          /\ OG!Cover(s) >= info[s].amount
          /\ receipt[a][b][s] = None
          /\ receipt'[a][b][s] # None
          => receipt'[a][b][s] = Pay!Owed(a, b, s)]_juiceVars

-----------------------------------------------------------------------------
(* Who may call what.                                                      *)

\* The calls that start with assert-admin; those of PoolGovernance ask for
\* the caller themselves.
AdminCalls ==
    {"raise-og-cap", "set-paused", "propose-swap-vault",
     "cancel-swap-vault-proposal", "confirm-swap-vault",
     "set-vault-window-blocks", "set-vault-max-chunk-sats",
     "set-vault-router-cooldown", "set-vault-pyth-fee-budget", "jing-take",
     "router-swap-split", "refloor-vault", "sweep-tranche-dust",
     "sweep-recovered-sbtc-dust", "withdraw-fees", "withdraw-all-fees",
     "withdraw-sbtc-fees"}

\* The calls that take the active vault (assert-active-vault).
PoolVaultCalls ==
    {"pox-claim-rewards", "finalize-swap", "emergency-recover",
     "confirm-swap-vault", "set-vault-window-blocks",
     "set-vault-max-chunk-sats", "set-vault-router-cooldown",
     "set-vault-pyth-fee-budget", "jing-take", "router-swap-split",
     "refloor-vault"}

\* As Authorized, for any caller.
ActiveVaultOnly(by, fn, a) == fn \in PoolVaultCalls => a[1] = swapVault

Authorized(by, fn, a) ==
    /\ fn \in AdminCalls => by = admin
    /\ fn \in PoolVaultCalls => a[1] = swapVault

\* What a sale is known to have sold; None if only its success is known.
Sold(v, sats) == sats # None => sbtc'[v] = sbtc[v] - sats

-----------------------------------------------------------------------------
(* The calls, by component.  `a` is the list of arguments.                 *)

GovernanceCall(by, fn, a) ==
    /\ UNCHANGED <<poolVars, seatVars, accounts>>
    /\ \/ fn = "propose-admin" /\ Gov!ProposeAdmin(by, a[1])
       \/ fn = "accept-admin" /\ Gov!AcceptAdmin(by)
       \/ fn = "cancel-admin-proposal" /\ Gov!CancelAdminProposal(by)
       \/ fn = "propose-fee-bips" /\ Gov!ProposeFeeBips(by, a[1])
       \/ fn = "confirm-fee-bips" /\ Gov!ConfirmFeeBips(by)
       \/ fn = "cancel-fee-bips" /\ Gov!CancelFeeBips(by)

SeatCall(by, fn, a) ==
    /\ UNCHANGED <<poolVars, offices, accounts>>
    /\ \/ fn = "stake" /\ OG!Stake(by, a[1], a[2], a[3])
       \/ fn = "stake-update" /\ OG!StakeUpdate(by, a[1], a[2], a[3])
       \/ fn = "unstake" /\ OG!Unstake(by)
       \/ fn = "evict-og" /\ OG!EvictOg(a[1])
       \/ fn = "raise-og-cap" /\ OG!RaiseOgCap(a[1])
       \/ fn = "set-paused" /\ OG!SetPaused(a[1])
       \/ fn = "next phase" /\ OG!NextPhase

RotationCall(fn, a) ==
    \/ fn = "propose-swap-vault" /\ a[1] \in Vaults /\ ProposeSwapVault(a[1])
    \/ fn = "cancel-swap-vault-proposal" /\ CancelSwapVaultProposal
    \/ fn = "confirm-swap-vault" /\ a[2] = pendingVault /\ ConfirmSwapVault

SettingCall(fn, v, n) ==
    \/ fn = "set-vault-window-blocks" /\ SetWindowBlocks(v, n)
    \/ fn = "set-vault-max-chunk-sats" /\ SetMaxChunkSats(v, n)
    \/ fn = "set-vault-router-cooldown" /\ SetRouterCooldown(v, n)
    \/ fn = "set-vault-pyth-fee-budget" /\ SetPythFeeBudget(v, n)

\* Swaps and the market; the last argument says what a sale sold, or whether
\* a placed ask went live at once.
SwapCall(fn, a) ==
    \/ fn = "jing-place" /\ JingPlace(a[1]) /\ (escrow'[a[1]] = escrow[a[1]] <=> a[2])
    \/ fn = "jing-reclaim" /\ JingReclaim(a[1])
    \/ fn = "jing-take" /\ JingTake(a[1], a[2]) /\ Sold(a[1], a[3])
    \/ fn = "router-swap" /\ RouterSwap(a[1]) /\ Sold(a[1], a[2])
    \/ fn = "router-swap-split" /\ RouterSwapSplit(a[1], a[2], a[4]) /\ Sold(a[1], a[3])
    \/ fn = "refloor-vault" /\ JingRefloor(a[1])
    \/ fn = "close-batch" /\ CloseBatch(a[1])
    \/ fn = "market fills" /\ MarketFill(a[1], a[2])
    \/ fn = "market parks" /\ MarketPark(a[1])
    \/ fn = "market settles" /\ MarketSettle(a[1])
    \/ fn = "send 1 sat" /\ DonateSbtc(a[1])

VaultCall(fn, a) ==
    /\ UNCHANGED <<seatVars, offices, accounts>>
    /\ \/ RotationCall(fn, a)
       \/ /\ \/ SettingCall(fn, a[1], a[2])
             \/ SwapCall(fn, a)
          /\ UNCHANGED <<rotation, ledger>>

TrancheCall(fn, a) ==
    \/ /\ fn = "pox-claim-rewards"
       /\ PoxClaimRewards(a[2], a[3])
       /\ ClaimRewards(a[2])
    \/ /\ \/ fn = "finalize-swap" /\ FinalizeSwap
          \/ fn = "emergency-recover" /\ RecoverSwap
       /\ CollectTranche

PayoutCall(fn, a) ==
    /\ UNCHANGED <<poolVars, seatVars, offices>>
    /\ \/ fn = "pay-stx-stakers" /\ Pay!PayStxStakers(a[1], a[2])
       \/ /\ fn = "pay-recovered-sbtc-stakers"
          /\ Pay!PayRecoveredSbtcStakers(a[1], a[2])
       \/ fn = "sweep-tranche-dust" /\ Pay!SweepTrancheDust(a[1])
       \/ fn = "sweep-recovered-sbtc-dust" /\ Pay!SweepRecoveredSbtcDust(a[1])
       \/ fn = "withdraw-fees" /\ Pay!WithdrawFees("stx", a[1])
       \/ fn = "withdraw-all-fees" /\ Pay!WithdrawFees("stx", earned["stx"])
       \/ fn = "withdraw-sbtc-fees" /\ Pay!WithdrawFees("sbtc", a[1])

\* n burn blocks.
Advance(n) ==
    /\ height' = height + n
    /\ UNCHANGED <<clock, lastRouterSwap, config, coins, market, gift, rotation,
                   ledger, seatVars, offices, accounts>>

Call(by, fn, a) ==
    /\ Authorized(by, fn, a)
    /\ \/ GovernanceCall(by, fn, a)
       \/ SeatCall(by, fn, a)
       \/ VaultCall(fn, a)
       \/ TrancheCall(fn, a)
       \/ PayoutCall(fn, a)
       \/ fn = "advance" /\ Advance(a[1])
=============================================================================
