# Juice: models, checks and proofs

This directory holds TLA+ models of the Clarity contracts of Juice, the TLC
configurations that check them on small instances, a replay of the repository's
simulation scripts on the models, and TLAPS proofs. The reference is always the
code; paths below are relative to `src/`.

## The system

| part | contracts | state | operations | what makes it correct |
|---|---|---|---|---|
| **Pool signer** | `contracts/pox-5/juice-pool-sbtc-signer.clar` | admin and fee with pending changes; active and proposed vault; tranche in flight, tranche counts, pots; receipts and payout totals; OG seats and cap | claim rewards, finalize or recover a swap, pay stakers, sweep, withdraw fees, rotate the vault, validate stakes, evict, two-step changes | a claimed batch is settled once; every uSTX and sat is owed to somebody and paid once; fees, admin and vault change on notice; OG cover is honoured and never exceeds its cap |
| **Swap vault** | `contracts/pox-5/juice-sbtc-autoswap.clar` | batch clock, ready flag, settings, cooldown; wallet; position on the market | fund, place, reclaim, take, router swaps, close, finish, recover, setters | sells only as a maker during the patience window; closes on dust; leaves the market; recovery is always open in the end |
| **Earlier STX pool** | `contracts/pox-5/juice-pool-stx-signer.clar` | tranche pots, payout marks and shares, fees, OG list, pending fee | claim, pay, sweep, withdraw, admin | each staker paid once per tranche; only rounding is swept |
| **pox-5** (external) | `contracts/external/pox-5.clar` | staker locks, shares, reward cycles | stake, update, unstake, claim | environment |
| **Jing market and router** (external) | `tests/vault/fixtures/v6-market.clar` | live and parked asks, escrowed deposits | deposit, cancel, settle, swap | environment |
| **jSTX custody** | `contracts/core.clar`, `vault.clar`, `redeem-stx-nft.clar` | idle STX per cycle, reserved STX, receipts, receipt market | deposit, idle and instant withdrawal, start and finalize withdrawal, receipt trade | jSTX is backed; a mature receipt is paid in the end |
| **jSTX stacking** | `delegation.clar`, `allocation.clar`, `stacker.clar`, `pool.clar` | assignments, targets, allocations, locked STX | assign, reduce, update, execute, return | totals agree with what they count |
| **jSTX rewards** | `jstx-token.clar`, `share-data.clar`, `yield.clar` | balances, index, snapshots, vesting buckets | transfer, mint, burn, sweep, vest, claim | what was swept covers what can be claimed; nobody's claim shrinks |
| **Administration** | `registry.clar`, `dao.clar`, `treasury.clar`, `commission.clar`, `fees-none.clar` | tables, authorized contracts, fees | setters | configuration of the above |
| **juice-v0, jBTC** | `juice-v0.clar`, `pox-5/jbtc-*.clar`, `juice-staker.clar`, `juice-signer-manager.clar` | registration; as jSTX rewards | distribute; as jSTX | as above |
| **Simulation scripts** | `simulations/*.mjs` | — | sequences of calls on a fork of mainnet with expected outcomes | the models answer as the scripts expect of the contracts |

Each Clarity transaction is atomic, contract calls inside it included, so a
transaction is one action of the models and the interleavings are those of
transactions by different callers between blocks. What is concurrent is the rest of the
chain: the market fills, parks, settles and refunds the vault's asks when others
call it; anybody may call the permissionless operations, send tokens to a
contract or let a block pass; keepers rebalance jSTX in any order between
deposits and withdrawals. What fails is a whole transaction, a disabled action:
no state survives a failed call.

Hard to test, and therefore what the properties are about (each with its line
in `PROJECT.json`): the four places a vault's sBTC can be in; six ways to end a
batch; donations at any moment; windows, cooldowns and notices
that race claims, settlement and rotation; payouts cut into batches while fee
and cover change; a cover that the pool updates only when pox-5 happens to call
it; receipts that wait while their STX is locked, re-assigned or withdrawn by
others; share accounting rounded down at every step while tokens move.

## Modules

    DelayedChange     TrancheLifecycle            abstract: what is promised
         ^   ^          ^          ^
         |   |          |          |  extends
         |   |          |       TranchePayouts
         |  RewardPool -+ implements     ^
         |     | extends                 | instance     RedeemNft
         |  SwapVault                    |                  ^ extends
    PoolGovernance    OgSeats            |              JstxCore
         ^               ^               |
         +------ JuicePool (extends RewardPool)         JstxYield
                     ^ extends
                 PoolCalls  <- ScriptSteps ->  StxPoolScripts -> JuicePoolStx
                     ^                              ^               | implements
                     |                              |         DelayedChange
      SeatScripts, PayScripts, VaultScripts         | instance
                     ^------ Simulations -----------+

**SwapVault** — one action per public function of `juice-sbtc-autoswap.clar`
that changes state; every variable is a function over `Vaults`. `resting`,
`parked` and `escrow` are the vault's live ask, its ask pushed out of a full
book and its deposit in escrow, which the market settles into a live ask
(`MarketSettle`) or, if it would cross, refunds to the vault (`MarketRefund`);
`MarketReadmit` brings a parked ask back. `Sell` is the common tail of the taker
sales with `close-if-empty`; `Market` and `Donation` are the environment. `gift`
is a history variable for `ClosesOnDust`. Prices are a constant. `jing-take` may sell
any positive part of its amount, which covers every price floor; a router sale
must sell strictly more than `RouterSlack` sats (`ROUTER_SLACK_SATS`, 8 in the code,
line 491) and may leave the rest unsold. The fee budget is capped (`MaxFeeBudget`, line 122). An
oracle verification costs `OracleFee`, and a step that needs some is enabled only
if budget and balance allow it.

**RewardPool** extends it with the pool's ledger and the vault rotation.
`PoxClaimRewards` contains `Fund(swapVault, ..)`, `FinalizeSwap` contains
`Finish`, `RecoverSwap` contains `EmergencyRecover`, as the calls do. Settings
and admin swaps reach the active vault only (`assert-active-vault`).
`recoveredPot` is `None` where the map has no entry, because
`is-recovered-tranche` asks exactly that. The balance check of `finalize-swap`
(lines 991-1014) always succeeds for the modelled vault and leaves no trace.

**TrancheLifecycle** — the promise about tranches without vaults: opened in
order, one in flight, each settled once with one outcome. RewardPool implements
it under `opened <- trancheCount, inFlight <- pendingSwap,
outcome <- TrancheOutcome`; TranchePayouts builds on it instead of on RewardPool,
which is what keeps the payouts small enough to check. **DelayedChange** is the
promise the fee, the admin and the vault rotation implement, and the fee of the
earlier pool: a change takes effect only if on offer, unchanged, for the whole delay.

**TranchePayouts** — receipts, totals, fees, sweeps and withdrawals. The ledgers
for STX and for recovered sBTC are separate code with the same rules (`pay-one` /
`pay-recovered-sbtc-one` and so on), hence one definition over `Assets`. The
fold over a list of stakers is an update over a set: the code skips a staker who
has a receipt, so order and repetitions do not matter. (`PayScripts` pays lists
entry by entry as well, as the scripts' own reference model does.) `dust` is a
history variable for `SweepIsDust`. The shares of a cycle are set by `FreezeShares`
while nothing is claimed for it: pox-5 allows no stake, update or unstake in
the prepare phase, and pays for a cycle only when it has begun.

**OgSeats** — `take-og-seat` is `ShrinkSeat \/ GrowSeat` (disjoint guards); it
runs inside pox-5's `stake` and `stake-update` when they name the pool. Locks end
silently with `NextPhase`; `Unstake` and moves to `"other"` do not tell the pool.

**PoolGovernance** — the two-step changes of admin and fee; every call has a
caller.

**JuicePool** — the whole pool contract: instances of the components share state
(fee, covers, pots, wallet, admin). `JuiceSpec` lets all of them act on one state in
any order: blocks, vaults and rotation (`PoolStep`), claims (`ClaimStep`, only for a
cycle with shares), settlements, whose STX and sBTC arrive in the wallet
(`CollectStep`), seats (`SeatStep`), pox-5's clock (`PhaseStep`), admin and fee
(`OfficeStep`), payouts, sweeps and withdrawals (`PayoutStep`). With a new cycle
pox-5 freezes its shares (`BeginCycle`): the stakes of those locked with the pool, or
none at all if the pool is below pox-5's minimum. pox-5's cycles and the burn heights
of vaults and notices advance independently, which allows more than the chain
does. `Call(by, fn, a)` is the same contract call by call, with its
`assert-admin` and `assert-active-vault`, for the scripts.

**JuicePoolStx** — the earlier pool: stakes and shares of pox-5, claims, payment
of *any* tranche number, claimed or not, sweep, fees, the OG list, admin and pause.
Stakes start, are raised, extended, moved to or from another signer and end through
pox-5's `stake`, `stake-update` and `unstake`, none of them in the prepare phase. A
stake with another signer has no amount in the model, so a staker who comes from
there may bring any.
`early` is a history variable: somebody was paid for a tranche not yet claimed.
`FeeChoices` and `OgChoices` are what the admin is seen to choose, a matter of
the exploration only.

**Scripts.** `ScriptSteps` has three kinds of steps: a call that `does`, one the
contract `refuses`, and a reading that `shows` a value. `PoolCalls` says what the
fixtures of the scripts set and what the readings read. `SeatScripts`,
`PayScripts`, `VaultScripts` and `StxPoolScripts` are the scripts themselves, 22
scenarios of the pool and 5 of the earlier one, with heights and amounts scaled;
`Simulations` runs one of them per behaviour. A refusal is `~ENABLED` of the call
with exactly its arguments, so a model that is too permissive fails just as one that is
too strict.

**RedeemNft** — the receipts of withdrawals, their listing, sale, transfer and
burn, with the four functions that keep the balance counts.

**JstxCore** extends it with deposits, the three ways out, delegation, allocation
and the STX of the stackers. Time is relative to the PoX cycle, so the state
space is finite without a bound on heights; `pending-ustx-per-cycle` is kept for
the two cycles that are ever touched. Supply is the counter `ft-get-supply`. Keeper calls
happen in any order and with stale assignments, and anybody may send STX to the vault,
whose plain balance the code reads, or to a stacker. A deposit may choose only a
stacker to which the registry gives a share (`SignerShare`): the "Known gaps" that
`docs/stx-flow.md` lists (release ignores the reserve, the order of
`execute-allocation` and `return-excess`, unchecked weights, drift of
delegation) are the code's behaviour and part of the model.

**JstxYield** — vesting buckets, the index, snapshots, settlement inside every
mint, burn, transfer and claim, sweeps and the catch-up of an older bucket,
commissions. Divisions round as in the code, with `INDEX_SCALE` scaled
down so that rounding is visible. `paid` is what a wallet was sent.

**SumTheorems** — facts about the sum of a function over a finite set
(`SumFunctionOnSet` of the community modules), which every invariant about
balances and counters rests on: how a sum changes when one term does, is
additive, monotonic, and moves over a union or a table of tranches and stakers. It
also holds what both pools and the yield need of floor division: a quotient
between its bounds, monotonic, and `PartsOfPot`, the rounded parts of a pot never
exceed it and fall short of it by less than one sat each. The library's induction theorems take
an operator as a parameter; the inductions here use a *set* of numbers or
of subsets instead, obtained from the well-foundedness of `<`.

## Checks

Deadlock is checked in `core`, which never stops; the other models end at a
height, cycle or script bound. `MaxHeight`, `MaxCycle`, `MaxTranche`, `MaxGift`,
`MaxCap`, `MaxLock`, `MaxReceipts`, `MaxSupply`, `MaxStx`, `MaxCollected` and `LastCycle` are such
bounds; all other constants are the code's own limits, scaled down with their
order kept (`MaxWindowBlocks < RecoveryDelay`, `DustSats` less than a funding).

| run | instance | shows |
|---|---|---|
| `vault` | 1 vault, fundings of 1 and 4 sats, windows 0..2 (3 and 4 offered), recovery after 3 blocks, 7 blocks | two batches with changing settings; a funding of one sat is a dust-only batch |
| `pool` | 3 vaults, 2 cycles of 2 tranches each, notice of 2 blocks, oracle fee, router sales of more than 1 sat, 4 blocks | rotation racing claims, settlement, recovery; proposals replaced, cancelled and confirmed around the notice; exact pots; settlement in the end; refinement of TrancheLifecycle |
| `finish_reserve` | 1 vault, oracle fee, budgets 0 and 1 | **violated**: first finding |
| `og_seats` | 2 stakers (symmetric) with 3 uSTX each, cap 2 raised up to 4, locks up to 2 cycles, cycles 0..3 | the stakers' covers exceed the cap together; both leave and return |
| `payouts` | 2 stakers with 0 or 2 shares, 2 tranches of one cycle, each sold or recovered, with pots that leave a rest | any batches, fees and covers; everyone can be paid at any moment and is paid in the end; what is swept is rounding |
| `contract` | 1 vault, 1 staker with 2 uSTX, 1 tranche of one cycle, cap 1, fee of 0 or 1 in 2, windows and notices of 1 block | all components on one state |
| `governance` | 3 principals, delays of 2 blocks, 5 blocks | offers replaced, cancelled and accepted around both delays |
| `stx_pool` | 2 principals, one of them an OG at times, 2 tranches of the one cycle that has stakes, of 1 each, cycles of 2 blocks whose second is the prepare phase, rewards of 3 sats, a fee of nothing or all, notice of 4 blocks | claims, payments before and after them, sweeps and withdrawals in any order; who is harmed only by a payment that comes before its claim |
| `stx_pool_final` | 2 principals, 1 tranche, rewards of 3 sats | **violated**: second finding |
| `simulations` | 27 scenarios | each call succeeds, fails and reads as its script expects |
| `core` | 2 users, 2 stackers of equal weight, 20% user influence, 2 STX in the protocol, donated ones included, 1 receipt, cycles of 2 blocks | two users compete for the same STX in the vault and on two stackers while one has a receipt |
| `yield` | 2 wallets (symmetric), 3 jSTX, two cycles of 2 blocks, sweeps of 3 sats up to 5, scale 10, fees 0 to 40% (50% refused) | uneven index steps, two buckets, settlements at different times |

Why these are enough: a property of the vault speaks of one batch and what the
previous one left behind, so two batches suffice; a rotation involves two vaults, a
replaced proposal three; a receipt, a sweep or a fee withdrawal can take another
tranche's money only if there are two (in either pool); the whole contract is
checked where its parts meet (a stake becomes shares, shares a claim, a claim a pot,
a pot a receipt at the fee and cover of the moment), once around, and its parts with
more of everything in their own runs; covers compete for the cap with two stakers; a
transfer, a receipt's sale or a competing withdrawal is between two users, a
rebalance between two stackers; a rollover is between two buckets, and a claim loses
by rounding only against a division that leaves a rest, which 3 sats at scale 10
over 1 to 3 jSTX do. A single receipt in a whole behaviour of `core` is the narrowest
bound: what one receipt does to another is covered by the proofs, which hold of
any number; only `EveryReceiptIsPaid` is not checked with more. `stx_pool` has stakes
of one size and shares in one cycle; stakes that grow and several cycles are covered
by the proofs. The safety properties of passing runs
are also proved below for every value of the constants, except that of
`simulations`. Each property of a passing run is listed in `PROJECT.json` with a
mutated operator (`\* Mutant:` in the modules) under which TLC finds it violated.

**The scripts.** What the runs on small instances explore widely, `simulations`
follows narrowly but with the code's own constants (windows of 288 blocks, recovery
after 432, notices of 144 and 4032) and against expectations other people wrote.
Each
script has the shares and seats of its own fixture: the stakers of
`pool-vault-recovery-stxer.mjs` and of `pool-autostake-e2e-stxer.mjs` hold no seat,
and the former's are paid net of the launch fee of 4.5%, as its lines 170-174 expect.
One step differs from its script. In
`pool-stx-signer-lifecycle-sim.mjs` the second withdrawal of all fees is labelled
"ok u0"; in the code it transfers 0, which fails, and the replay
expects the failure. Not replayed: scripts about oracle fees
(`pool-vault-pyth-fee`), allowances, a mismatched vault and live prices; the
Safe wallets and `juice-v0`; probes of pox-5 and read-only traits; and
`pool-stx-signer-sim.mjs`, which is about an interface that no longer exists.

**Fairness.** `FairPoolSpec` assumes that blocks come (`WF PoolTick`) and that
`finalize-swap` and `emergency-recover` are called when they stay possible. Both are
permissionless and unlock money owed to stakers. No fairness is assumed of the
admin, market, or any sale: `TrancheSettles` rests on recovery alone.
`FairPayoutSpec` assumes that each staker gets themselves paid for one tranche or
another as long as some such call stays possible; anybody may call it, the staker
too. Sweeps and withdrawals are not fair. `FairCoreSpec` assumes blocks (`WF Tick`),
and strong fairness of `delegation.update` per user, of the end of a lock and of
`return-excess` per stacker and of `finalize-withdraw` per receipt: these are the
keeper's duties in `docs/stx-flow.md`, and possible only in windows between locks,
hence strong. No fairness is assumed of users or of `execute-allocation`: an instant
withdrawal may take the returned STX first, but only as often as a deposit put as
much in, and the receipt is asked for again. (With the instance's 2 STX a receipt
competes with at most one more jSTX; a receipt that waits for many small returns at
once is larger than the run.) These are the only liveness properties; they are
model-checked only.

**Findings.** (1) `finish` keeps `min(balance, pyth-fee-budget)` in the vault
(`juice-sbtc-autoswap.clar:280-312`, as its own comment says), while
`README-juice-pool-vault-upgrades.md:83` requires of every vault that it "must
return all payout STX to this pool". `FinishReturnsAllStx` states the latter and
`finish_reserve` refutes it. No staker's accounting is affected
(`PotsMatchBalances`): the reserve becomes part of the next batch of that vault.
If the vault is rotated out meanwhile, no call moves the reserve any more. (Line 85
of the same README, that the pool "trusts the amount rather than checking its
own balance delta", is out of date: `finalize-swap` checks it.)
(2) The earlier pool pays a tranche that was never claimed: `pay-stx-stakers`
(`juice-pool-stx-signer.clar:540`) asks neither for the tranche count nor for a pot,
marks its stakers as paid with 0 and counts their shares. A later claim opens a
tranche that is fully paid at once. The comment at lines 403-404 says of a tranche
whose paid shares reach the total that "whatever is left of THAT CYCLE'S pot is
rounding residue"; `FullyPaidLeavesRounding` states that and `stx_pool_final`
refutes it. A staker counted like this who unstakes before the cycle begins stays
counted, in place of another who was not paid; once the admin has swept the tranche,
that one is paid out of other pots, although lines 406-409 say that "cycle N can
never reach into cycle N+1's unpaid pot". Only an early payment leads there:
`OnlyEarlyPaymentsHurt`, checked in `stx_pool` and proved, says that both comments
hold as long as nobody was paid before the claim. The present pool asks that a
tranche is finalized (`juice-pool-sbtc-signer.clar:842`), and there `SweepIsDust`
holds.
(3) Without a run: the comment at `core.clar:86` says that the idle STX of a cycle
"resets when strategy delegates STX to signers", and no contract resets it; `FullyBacked`
holds nevertheless, because the withdrawal that uses the stale number moves
STX out of the vault and burns as much jSTX.

## Proofs

TLAPS proves, for every value of the constants that satisfies the named
assumptions (`VaultAssumption`, `PoolAssumption`, `OgAssumption`,
`GovernanceAssumption`, `PayoutAssumption`, `JuiceAssumption`, `StxPoolAssumption`,
`UsersAssumption`, `ReceiptsAssumption`,
`StackersAssumption`, `TimeAssumption`, `WalletsAssumption`, `YieldNumbers`; TLC
evaluates them in the runs):

* **RewardPoolProofs**, first part — all properties of the `vault` run. The inductive
  invariant `VaultInv` is type correctness, `ClockIsSound`,
  `NoPositionWithoutBatch`, `ClosesOnDust` and `WindowBounded`. The third needs
  the second (only an open batch can be closed or placed); `WindowBounded` with
  `MaxWindowBlocks < RecoveryDelay` gives `RecoveryOpensAfterWindow`.
  Preservation is proved for `VaultStepAny`, every step a vault can take whoever
  calls it, group by group (`Setting`, `AdminSwap`, `Public`, `Market`,
  `Donation`, pool calls), so that the pool's proof can cite it: each pool step
  is such a step or leaves the vaults alone.
* **RewardPoolProofs**, second part — all safety properties of `pool`,
  and both refinements. `PoolInv` joins `VaultInv` with
  `VaultBusyIffPending`, `SettledAllButPending` and `NoPotBeforeSettled`. The
  first is what makes `assert-idle-vault` sufficient although it does not read
  `ready-to-finish` or escrow: with no tranche in flight, no vault holds a batch,
  hence none has a position. `PoolImplementsLifecycle` and `VaultOnNotice` are
  step simulations from that invariant. `PotsMatchBalances` is proved on top of it:
  a settlement adds to one pot what it adds to the pool's balance.
* **SeatsAndOfficesProofs** — the two parts of the pool that say who pays which fee:
  all properties of `og_seats` and of `governance`. `OgInv` says nothing of the sums,
  so the counters are only integers in it; with `CoverWithinStake` (a locked staker is
  never covered beyond the stake) it shows that seats last: no top-up is then below
  the cover, so none can shrink it. `CountersAddUp` and, from it, `OgTypeCorrect` (the
  counters never run below zero) are the second part. The third is type correctness of
  admin and fee, with the fee limits, and both implementations of `DelayedChange`.
* **TranchePayoutsProofs** — all safety properties of `payouts`. `PayoutInv` says of
  each tranche *which* stakers its books stand for: `paidShares` and the paid total
  are the sums over those with a receipt, there are none before settlement, a sweep
  happens only when all shares are paid. The bounds follow: what is owed to all is
  at most the pot and short of it by less than one sat per staker
  (`SweepTakesDust`), and the balance is what the pots have left and the fees
  (`WalletBacksDebts`). `NobodyComesTooLate` puts the two together: what those
  without a receipt are owed is within what their pot has left, even after a sweep,
  since a sweep needs all shares paid and then nobody is owed; so the wallet can pay
  everyone and all fees, in any order. `ReceiptsStay` needs none of it.
* **JuicePoolProofs** — the whole contract. `JuiceSpec` implements the specification of
  each component (`JuiceImplementsPool`, `JuiceImplementsSeats`,
  `JuiceImplementsGovernance`, `JuiceImplementsPayouts`; the instances `Parts`
  and `PayP` bring in the components' proofs), so what is proved of a component alone holds
  of the contract: `NobodyTooLateInContract`, `SeatLastsInContract`,
  `FeeNoticeInContract`, `ContractBacksDebts`. The first three refinements hold of
  each step by itself. That of payouts needs the others' invariants and two more
  facts, joined in `JuiceInv`: a settlement must bring the wallet exactly the
  tranche's pots, a claim must find shares, the fee must stay within its maximum, and a
  cycle's shares must be frozen before its first claim. The last is what
  `FutureIsEmpty` is for: a cycle that has not begun has no shares and hence no
  tranche. `CoverIsHonoured` is about the seams: fees are charged on the shares above
  the cover, and shares are frozen while cover and stake move on. `SharesWithinStake` says that
  whoever has shares in the running cycle is still locked for no less (pox-5 lets a stake
  only grow, and an early unstake ends with the cycle), so a stake that is covered
  in full now was covered for all its shares.
* **JuicePoolStxProofs** — all properties of `stx_pool`, and two more of the earlier
  pool: its fee implements `DelayedChange`, what somebody was paid is final.
  `StxInv` joins the types with `UnopenedEmpty` (no pot before the claim),
  `WalletIsBooks`, `OpenBegun` and `BooksOK`. `OpenBegun` says that a tranche is
  open, or rewards are credited, only for a cycle that has begun: pox-5 changes the
  shares of cycles to come only, so the shares by which a tranche is divided stand
  still. `BooksOK` holds as long as nobody was paid early: the books of a tranche
  stand for exactly the stakers with a receipt, each at the part computed today,
  until all are paid and the rest is swept. With `PartsOfPot` the rest is then
  rounding, and the unpaid are owed no more than their pot has left; summed over the
  tranches and set against `WalletIsBooks` this is `OnlyEarlyPayments`.
* **JstxCoreProofs** — all safety properties of `core`. `FundsInv` (types,
  `locked <= held`, `vault + totalAllocated >= supply`, `allocated <= held`) gives
  `Backed`: no user, keeper or market step breaks it, and STX sent to the vault or
  a stacker only adds to it. That an allocation is never negative needs that no target
  is (`TargetIsNat`), which needs the sums below. `NftInv` (ids above `lastId` are fresh)
  gives `ReceiptBooks`, count and listing agree with ownership. `CoreInv` adds `PhaseOK` for the
  clock and the sums: `DelegationBooks` (each stacker's total is what users
  assigned to it), `MoneyBooks` (jSTX adds up to the supply) and `Earmarked`
  (what is reserved is what the outstanding receipts will be paid), from which
  `ReceiptsCovered`, `CountersAreSums` and `CoreTypeCorrect`. `TermsStand`: amount and
  maturity of a receipt change only by blocks passing.
* **JstxYieldProofs** — all properties of `yield`. `YieldInv` (types,
  snapshots, `vested` within the window) and two arithmetic lemmas, vesting grows with
  the height (`VestingGrows`) and division is monotonic (`DivMono`), give
  `SnapshotsFollow`, `ClaimsStand` (no step takes from what a wallet has and is
  owed) and `RolloverAppliesAll` (`NothingStrands`). `ClaimsBacked` needs an
  invariant free of division: in `MoneyInv`, `Solvent` says that `Scale * sbtc`
  is at least the unrounded debts to all wallets plus the unvested rest of
  every bucket. Raising the index rounds down, so what it adds to the debts is no more
  than what leaves the bucket; this uses that supply is the sum of the balances
  and each snapshot is the balance.

The assumptions are as weak as the code allows: sets of stakers, cycles, wallets and
users are finite, `None` is none of the values it stands apart from, the limits are
ordered as in the code.

Only model-checked: the liveness properties (`TrancheSettles`, `EveryoneIsPaid`,
`EveryReceiptIsPaid`), which need fairness, and the replay (`ScriptsAgree`), which
rests on `ENABLED`; with it the dispatch `Call` of JuicePool. Both findings are runs
that fail, and nothing is proved about them.

## Not modelled

* Prices and their settings (leeway, slippage, maker spread, DIA band, Pyth and
  DIA reads, minimum outputs), and the allowance arithmetic of a router swap:
  integer arithmetic on one call's values. The 128-bit width of integers is far
  above the supply of either token.
* `pox-settle-stakers` and `register-self`, which change no state of the pools;
  transfers of STX or sBTC straight to a pool's own wallet, which no ledger counts (those
  to a vault, to the vault of jSTX and to its stackers are modelled);
  bonds, which `validate-stake!` refuses. In `OgSeats` a staker's wealth is fixed
  and pox-5's conditions on signer keys and start heights are left out, since
  they only restrict who may stake.
* Escape hatches of the admin that move tokens past the books:
  `stacker.stx-transfer-all`, `vault.get-stx`, `yield.get-sbtc`. `FullyBacked` and
  `ClaimsAreCovered` speak of the protocol without them.
* The stop flags, and changes of fees, buffers, weights and user influence of the
  jSTX contracts while in use; signer authorizations, Bitcoin addresses and the
  proposal of reward addresses in `pool.clar`; `settle-defi-position`, whose
  positions live in external contracts.
* Registry, dao, treasury, commission and fee contracts (tables and destinations);
  `juice-v0` (one-shot and sequential); the jBTC contracts, which repeat
  `yield.clar` over bonds; mocks, fixtures and tests.

The hazards these leave open are listed in `PROJECT.json`, each with its line and
the reason.

## Possible extensions

Reward addresses of `pool.clar` against `DelayedChange`; the jBTC variant of
JstxYield with bonds; JstxCore composed with JstxYield, with core as a wallet that earns
while receipts wait; `VaultPricing` as pure operators against a reference.
