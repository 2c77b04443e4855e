------------------------------ MODULE SwapVault ------------------------------
(***************************************************************************)
(* The swap vault of the STX reward pool: juice-sbtc-autoswap.clar.        *)
(*                                                                         *)
(* A vault holds one reward batch at a time.  The pool funds it with sBTC; *)
(* during a patience window the sBTC may only rest as a maker ask on the   *)
(* Jing market; after the window anyone may sell it chunk by chunk through *)
(* the router; once at most DustSats are left the batch closes and the     *)
(* pool collects the STX.  RecoveryDelay blocks after funding, anyone may  *)
(* send everything home unsold.                                            *)
(*                                                                         *)
(* All state is a function over Vaults, so that a rotation from one vault  *)
(* to the next can be modelled.  Prices are abstracted: a sat sells for    *)
(* Price uSTX.  The operations only the pool may call (Fund, Finish,       *)
(* EmergencyRecover, the setters, the admin swaps) are actions here too,   *)
(* with an environment that calls them whenever the vault lets it.         *)
(***************************************************************************)
EXTENDS Integers

CONSTANTS
    Vaults,           \* contracts that implement swap-vault-trait
    None,             \* the Clarity value none
    MaxWindowBlocks,  \* MAX_WINDOW_BLOCKS (288)
    RecoveryDelay,    \* RECOVERY_DELAY_BLOCKS (432)
    DustSats,         \* DUST_SATS (2)
    RouterSlack,      \* ROUTER_SLACK_SATS (8)
    MaxCooldown,      \* MAX_COOLDOWN_BLOCKS (144)
    MaxFeeBudget,     \* MAX_PYTH_FEE_BUDGET (10 STX)
    OracleFee,        \* uSTX the oracle charges per price verification
    Price,            \* uSTX a sat sells for
    \* What the model enumerates: the arguments of the calls.
    FundAmounts,      \* sats of a reward claim
    WindowChoices,    \* arguments of set-window-blocks
    ChunkChoices,     \* arguments of set-max-chunk-sats
    CooldownChoices,  \* arguments of set-router-cooldown
    BudgetChoices,    \* arguments of set-pyth-fee-budget
    \* Bounds of the exploration.
    MaxHeight,        \* burn height at which a behaviour ends
    MaxGift           \* a vault worth this much gets no more donations

ASSUME VaultAssumption ==
    /\ None \notin Int
    /\ {RecoveryDelay, MaxHeight, Price} \subseteq Nat \ {0}
    /\ {MaxWindowBlocks, DustSats, RouterSlack, MaxCooldown, MaxFeeBudget,
          OracleFee, MaxGift} \subseteq Nat
    /\ MaxWindowBlocks < RecoveryDelay
    /\ FundAmounts \subseteq Nat
    /\ WindowChoices \subseteq Nat
    /\ ChunkChoices \subseteq Nat \ {0}
    /\ CooldownChoices \subseteq 0..MaxCooldown
    /\ BudgetChoices \subseteq Nat

VARIABLES
    height,          \* burn-block-height
    batchStart,      \* batch-start: the height a batch was funded, or None
    readyToFinish,   \* ready-to-finish
    lastRouterSwap,  \* last-router-swap
    window,          \* window-blocks
    chunk,           \* max-chunk-sats
    cooldown,        \* router-cooldown-blocks
    budget,          \* pyth-fee-budget
    sbtc,            \* sBTC in the vault's wallet
    stx,             \* uSTX in the vault's wallet
    resting,         \* the vault's live ask on the market
    parked,          \* its ask pushed out of a full book
    escrow,          \* its deposit the market has not settled yet
    gift             \* history: sats donated since the last batch closed

config == <<window, chunk, cooldown, budget>>
clock  == <<batchStart, readyToFinish>>
market == <<resting, parked, escrow>>
coins  == <<sbtc, stx>>
vaultVars == <<height, clock, lastRouterSwap, config, coins, market, gift>>

-----------------------------------------------------------------------------
(* What the code reads.                                                    *)

WindowOpen(v) ==
    batchStart[v] # None /\ height < batchStart[v] + window[v]

\* Mutant: the patience window is not waited for.
NoPatience(v) == batchStart[v] # None

WindowElapsed(v) ==
    batchStart[v] # None /\ height >= batchStart[v] + window[v]

MarketTotal(v) == resting[v] + parked[v] + escrow[v]

\* Mutant: the market is not asked.
EmptyWalletWith(v, wallet) == wallet <= DustSats

\* The wallet test of is-empty, on the balance a sale leaves behind.
EmptyWith(v, wallet) == wallet <= DustSats /\ MarketTotal(v) = 0

\* A chosen amount, swept up to the whole balance once that fits a chunk.
SweepAmount(v, requested) ==
    IF sbtc[v] <= chunk[v] THEN sbtc[v] ELSE requested

\* What a permissionless swap sells: the balance, or one full chunk.
ChunkAmount(v) == IF sbtc[v] <= chunk[v] THEN sbtc[v] ELSE chunk[v]

CheckAmount(v, amount) == amount > 0 /\ amount <= sbtc[v]

CooledDown(v) == height >= lastRouterSwap[v] + cooldown[v]

\* The vault can pay n price verifications, each within its own allowance.
CanVerify(v, n) == OracleFee <= budget[v] /\ n * OracleFee <= stx[v]

\* Mutant: a balance below the budget is not looked at.
ReserveOfBudget(v) == budget[v]

\* The STX finish keeps back for the verifications of the next batch.
Reserve(v) == IF stx[v] > budget[v] THEN budget[v] ELSE stx[v]

FinishAmount(v) == stx[v] - Reserve(v)

-----------------------------------------------------------------------------
VaultInit ==
    /\ height = MaxCooldown
    /\ batchStart = [v \in Vaults |-> None]
    /\ readyToFinish = [v \in Vaults |-> FALSE]
    /\ lastRouterSwap = [v \in Vaults |-> 0]
    /\ window = [v \in Vaults |-> MaxWindowBlocks]
    /\ chunk \in [Vaults -> ChunkChoices]
    /\ cooldown \in [Vaults -> CooldownChoices]
    /\ budget \in [Vaults -> BudgetChoices]
    /\ sbtc = [v \in Vaults |-> 0]
    /\ stx = [v \in Vaults |-> 0]
    /\ resting = [v \in Vaults |-> 0]
    /\ parked = [v \in Vaults |-> 0]
    /\ escrow = [v \in Vaults |-> 0]
    /\ gift = [v \in Vaults |-> 0]

(* Settings.  Only the pool may call them.                                 *)

\* Mutant: no maximum.
SetAnyWindowBlocks(v, blocks) ==
    /\ batchStart[v] = None
    /\ window' = [window EXCEPT ![v] = blocks]
    /\ UNCHANGED <<height, clock, lastRouterSwap, chunk, cooldown, budget,
                   coins, market, gift>>

SetWindowBlocks(v, blocks) ==
    /\ batchStart[v] = None
    /\ blocks <= MaxWindowBlocks
    /\ window' = [window EXCEPT ![v] = blocks]
    /\ UNCHANGED <<height, clock, lastRouterSwap, chunk, cooldown, budget,
                   coins, market, gift>>

SetMaxChunkSats(v, sats) ==
    /\ chunk' = [chunk EXCEPT ![v] = sats]
    /\ UNCHANGED <<height, clock, lastRouterSwap, window, cooldown, budget,
                   coins, market, gift>>

SetRouterCooldown(v, blocks) ==
    /\ blocks <= MaxCooldown
    /\ cooldown' = [cooldown EXCEPT ![v] = blocks]
    /\ UNCHANGED <<height, clock, lastRouterSwap, window, chunk, budget,
                   coins, market, gift>>

SetPythFeeBudget(v, ustx) ==
    /\ ustx <= MaxFeeBudget
    /\ budget' = [budget EXCEPT ![v] = ustx]
    /\ UNCHANGED <<height, clock, lastRouterSwap, window, chunk, cooldown,
                   coins, market, gift>>

-----------------------------------------------------------------------------
(* The life of a batch.                                                    *)

\* The pool moves its claimed rewards in and starts the clock.
Fund(v, amount) ==
    /\ batchStart[v] = None
    /\ ~readyToFinish[v]
    /\ amount > 0
    /\ sbtc' = [sbtc EXCEPT ![v] = @ + amount]
    /\ batchStart' = [batchStart EXCEPT ![v] = height]
    /\ UNCHANGED <<height, readyToFinish, lastRouterSwap, config, stx,
                   market, gift>>

\* Anyone: place the whole wallet as an ask.  The market takes it at once,
\* together with a parked ask, or holds it in escrow first.
JingPlace(v) ==
    /\ CanVerify(v, 1)
    /\ WindowOpen(v)
    /\ CheckAmount(v, sbtc[v])
    /\ sbtc' = [sbtc EXCEPT ![v] = 0]
    /\ stx' = [stx EXCEPT ![v] = @ - OracleFee]
    /\ \/ /\ resting' = [resting EXCEPT ![v] = @ + parked[v] + sbtc[v]]
          /\ parked' = [parked EXCEPT ![v] = 0]
          /\ UNCHANGED escrow
       \/ /\ escrow' = [escrow EXCEPT ![v] = @ + sbtc[v]]
          /\ UNCHANGED <<resting, parked>>
    /\ UNCHANGED <<height, clock, lastRouterSwap, config, gift>>

\* Cancel whatever the vault has on the market; it comes home.
ReclaimCore(v) ==
    /\ MarketTotal(v) > 0
    /\ sbtc' = [sbtc EXCEPT ![v] = @ + MarketTotal(v)]
    /\ resting' = [resting EXCEPT ![v] = 0]
    /\ parked' = [parked EXCEPT ![v] = 0]
    /\ escrow' = [escrow EXCEPT ![v] = 0]

JingReclaim(v) ==
    /\ WindowElapsed(v)
    /\ ReclaimCore(v)
    /\ UNCHANGED <<height, clock, lastRouterSwap, config, stx, gift>>

\* Mutant: the clock keeps running after the last sale.
CloseIfEmptyKeepingClock(v, wallet) ==
    IF EmptyWith(v, wallet)
    THEN /\ readyToFinish' = [readyToFinish EXCEPT ![v] = TRUE]
         /\ gift' = [gift EXCEPT ![v] = 0]
         /\ UNCHANGED batchStart
    ELSE UNCHANGED <<clock, gift>>

\* close-if-empty, at the end of every sale: the sale leaves `wallet` sats.
CloseIfEmpty(v, wallet) ==
    IF EmptyWith(v, wallet)
    THEN /\ batchStart' = [batchStart EXCEPT ![v] = None]
         /\ readyToFinish' = [readyToFinish EXCEPT ![v] = TRUE]
         /\ gift' = [gift EXCEPT ![v] = 0]
    ELSE UNCHANGED <<clock, gift>>

\* Mutant: verifications are paid on credit.
SellOnCredit(v, sold, verifies) ==
    /\ sbtc' = [sbtc EXCEPT ![v] = @ - sold]
    /\ stx' = [stx EXCEPT ![v] = @ - verifies * OracleFee + sold * Price]
    /\ CloseIfEmpty(v, sbtc[v] - sold)
    /\ UNCHANGED <<height, config, market>>

\* A taker sale of `sold` sats that verified `verifies` prices.
Sell(v, sold, verifies) ==
    /\ verifies > 0 => CanVerify(v, verifies)
    /\ sbtc' = [sbtc EXCEPT ![v] = @ - sold]
    /\ stx' = [stx EXCEPT ![v] = @ - verifies * OracleFee + sold * Price]
    /\ CloseIfEmpty(v, sbtc[v] - sold)
    /\ UNCHANGED <<height, config, market>>

\* The pool's admin: take the market's bids.  The market refuses a taker who
\* still has an ask there, and refunds what it could not fill.
JingTake(v, requested) ==
    LET amount == SweepAmount(v, requested) IN
    /\ WindowElapsed(v)
    /\ CheckAmount(v, amount)
    /\ resting[v] = 0 /\ parked[v] = 0
    /\ \E sold \in 1..amount : Sell(v, sold, 2)
    /\ UNCHANGED lastRouterSwap

\* Anyone: sell a chunk through the router.  What does not fit inside the
\* price floor stays in the vault; a sale of RouterSlack sats or less fails.
RouterSwap(v) ==
    /\ WindowElapsed(v)
    /\ CheckAmount(v, ChunkAmount(v))
    /\ CooledDown(v)
    /\ lastRouterSwap' = [lastRouterSwap EXCEPT ![v] = height]
    /\ \E sold \in 1..ChunkAmount(v) : sold > RouterSlack /\ Sell(v, sold, 2)

\* The pool's admin: sell a chosen amount, split over venues; with a Pyth
\* update (two verifications) or on the DIA or native price (none).
RouterSwapSplit(v, amount, verifies) ==
    /\ WindowElapsed(v)
    /\ amount <= chunk[v]
    /\ CheckAmount(v, amount)
    /\ CooledDown(v)
    /\ lastRouterSwap' = [lastRouterSwap EXCEPT ![v] = height]
    /\ \E sold \in 1..amount : Sell(v, sold, verifies)

\* The pool's admin: move the limit of an existing ask.
JingRefloor(v) ==
    /\ CanVerify(v, 1)
    /\ resting[v] > 0 \/ parked[v] > 0
    /\ stx' = [stx EXCEPT ![v] = @ - OracleFee]
    /\ UNCHANGED <<height, clock, lastRouterSwap, config, sbtc, market, gift>>

\* Mutant: only the wallet is compared with the dust limit.
CloseBatchByWallet(v) ==
    /\ batchStart[v] # None
    /\ sbtc[v] <= DustSats
    /\ sbtc' = [sbtc EXCEPT ![v] = @ + MarketTotal(v)]
    /\ resting' = [resting EXCEPT ![v] = 0]
    /\ parked' = [parked EXCEPT ![v] = 0]
    /\ escrow' = [escrow EXCEPT ![v] = 0]
    /\ batchStart' = [batchStart EXCEPT ![v] = None]
    /\ readyToFinish' = [readyToFinish EXCEPT ![v] = TRUE]
    /\ gift' = [gift EXCEPT ![v] = 0]
    /\ UNCHANGED <<height, lastRouterSwap, config, stx>>

\* Anyone: close a batch of which at most dust is left; dust that sits on
\* the market is cancelled home first.
CloseBatch(v) ==
    /\ batchStart[v] # None
    /\ sbtc[v] + MarketTotal(v) <= DustSats
    /\ sbtc' = [sbtc EXCEPT ![v] = @ + MarketTotal(v)]
    /\ resting' = [resting EXCEPT ![v] = 0]
    /\ parked' = [parked EXCEPT ![v] = 0]
    /\ escrow' = [escrow EXCEPT ![v] = 0]
    /\ batchStart' = [batchStart EXCEPT ![v] = None]
    /\ readyToFinish' = [readyToFinish EXCEPT ![v] = TRUE]
    /\ gift' = [gift EXCEPT ![v] = 0]
    /\ UNCHANGED <<height, lastRouterSwap, config, stx>>

\* The pool: collect FinishAmount(v) uSTX of a closed batch.
Finish(v) ==
    /\ readyToFinish[v]
    /\ stx' = [stx EXCEPT ![v] = Reserve(v)]
    /\ readyToFinish' = [readyToFinish EXCEPT ![v] = FALSE]
    /\ UNCHANGED <<height, batchStart, lastRouterSwap, config, sbtc, market,
                   gift>>

\* Mutant: recovery waits until the vault has left the market.
EmergencyRecoverOffMarket(v) ==
    /\ batchStart[v] # None
    /\ height >= batchStart[v] + RecoveryDelay
    /\ MarketTotal(v) = 0
    /\ sbtc' = [sbtc EXCEPT ![v] = 0]
    /\ stx' = [stx EXCEPT ![v] = 0]
    /\ batchStart' = [batchStart EXCEPT ![v] = None]
    /\ readyToFinish' = [readyToFinish EXCEPT ![v] = FALSE]
    /\ gift' = [gift EXCEPT ![v] = 0]
    /\ UNCHANGED <<height, lastRouterSwap, config, market>>

\* The pool: take everything home, RecoveryDelay blocks after funding.  It
\* receives sbtc[v] + MarketTotal(v) sats and stx[v] uSTX.
EmergencyRecover(v) ==
    /\ batchStart[v] # None
    /\ height >= batchStart[v] + RecoveryDelay
    /\ sbtc' = [sbtc EXCEPT ![v] = 0]
    /\ stx' = [stx EXCEPT ![v] = 0]
    /\ resting' = [resting EXCEPT ![v] = 0]
    /\ parked' = [parked EXCEPT ![v] = 0]
    /\ escrow' = [escrow EXCEPT ![v] = 0]
    /\ batchStart' = [batchStart EXCEPT ![v] = None]
    /\ readyToFinish' = [readyToFinish EXCEPT ![v] = FALSE]
    /\ gift' = [gift EXCEPT ![v] = 0]
    /\ UNCHANGED <<height, lastRouterSwap, config>>

-----------------------------------------------------------------------------
(* The market and the rest of the chain.                                   *)

\* A settlement sells part of the live ask.
MarketFill(v, sats) ==
    /\ sats \in 1..resting[v]
    /\ resting' = [resting EXCEPT ![v] = @ - sats]
    /\ stx' = [stx EXCEPT ![v] = @ + sats * Price]
    /\ UNCHANGED <<height, clock, lastRouterSwap, config, sbtc, parked,
                   escrow, gift>>

\* A full book pushes the ask out.
MarketPark(v) ==
    /\ resting[v] > 0 /\ parked[v] = 0
    /\ parked' = [parked EXCEPT ![v] = resting[v]]
    /\ resting' = [resting EXCEPT ![v] = 0]
    /\ UNCHANGED <<height, clock, lastRouterSwap, config, coins, escrow, gift>>

\* Anyone: a parked ask goes live again.
MarketReadmit(v) ==
    /\ parked[v] > 0
    /\ resting' = [resting EXCEPT ![v] = @ + parked[v]]
    /\ parked' = [parked EXCEPT ![v] = 0]
    /\ UNCHANGED <<height, clock, lastRouterSwap, config, coins, escrow, gift>>

\* Anyone: an escrowed deposit goes live, together with a parked ask.
MarketSettle(v) ==
    /\ escrow[v] > 0
    /\ resting' = [resting EXCEPT ![v] = MarketTotal(v)]
    /\ parked' = [parked EXCEPT ![v] = 0]
    /\ escrow' = [escrow EXCEPT ![v] = 0]
    /\ UNCHANGED <<height, clock, lastRouterSwap, config, coins, gift>>

\* An escrowed deposit that would cross the best bid goes back to the vault.
MarketRefund(v) ==
    /\ escrow[v] > 0
    /\ sbtc' = [sbtc EXCEPT ![v] = @ + escrow[v]]
    /\ escrow' = [escrow EXCEPT ![v] = 0]
    /\ UNCHANGED <<height, clock, lastRouterSwap, config, stx, resting, parked,
                   gift>>

\* Everything the vault holds, for the bound on donations.
Worth(v) == stx[v] + Price * (sbtc[v] + MarketTotal(v))

\* Token transfers into the vault are permissionless.
DonateSbtc(v) ==
    /\ Worth(v) < MaxGift
    /\ sbtc' = [sbtc EXCEPT ![v] = @ + 1]
    /\ gift' = [gift EXCEPT ![v] = IF batchStart[v] = None THEN @ + 1 ELSE @]
    /\ UNCHANGED <<height, clock, lastRouterSwap, config, stx, market>>

DonateStx(v) ==
    /\ Worth(v) < MaxGift
    /\ stx' = [stx EXCEPT ![v] = @ + 1]
    /\ UNCHANGED <<height, clock, lastRouterSwap, config, sbtc, market, gift>>

Tick ==
    /\ height < MaxHeight
    /\ height' = height + 1
    /\ UNCHANGED <<clock, lastRouterSwap, config, coins, market, gift>>

-----------------------------------------------------------------------------
(* Every step except the pool's own transactions and the clock.            *)

Setting(v) ==
    \/ \E w \in WindowChoices : SetWindowBlocks(v, w)
    \/ \E c \in ChunkChoices : SetMaxChunkSats(v, c)
    \/ \E c \in CooldownChoices : SetRouterCooldown(v, c)
    \/ \E b \in BudgetChoices : SetPythFeeBudget(v, b)

AdminSwap(v) ==
    \/ JingRefloor(v)
    \/ \E amount \in 1..sbtc[v] :
          \/ JingTake(v, amount)
          \/ RouterSwapSplit(v, amount, 2)
          \/ RouterSwapSplit(v, amount, 0)

Public(v) == JingPlace(v) \/ JingReclaim(v) \/ RouterSwap(v) \/ CloseBatch(v)

Market(v) ==
    \/ \E sats \in 1..resting[v] : MarketFill(v, sats)
    \/ MarketPark(v)
    \/ MarketReadmit(v)
    \/ MarketSettle(v)
    \/ MarketRefund(v)

Donation(v) == DonateSbtc(v) \/ DonateStx(v)

\* The pool funds while the batch can still run its course within the bound.
PoolCall(v) ==
    \/ /\ height + RecoveryDelay <= MaxHeight
       /\ \E amount \in FundAmounts : Fund(v, amount)
    \/ Finish(v)
    \/ EmergencyRecover(v)

VaultNext ==
    \/ Tick
    \/ \E v \in Vaults :
          Setting(v) \/ AdminSwap(v) \/ Public(v) \/ Market(v) \/ Donation(v)
             \/ PoolCall(v)

VaultSpec == VaultInit /\ [][VaultNext]_vaultVars

-----------------------------------------------------------------------------
(* Properties.                                                             *)

\* Types: no amount the vault or the market holds is ever negative, so no
\* subtraction of the contract underflows.
VaultTypeOK ==
    /\ height \in Nat
    /\ batchStart \in [Vaults -> Nat \cup {None}]
    /\ readyToFinish \in [Vaults -> BOOLEAN]
    /\ lastRouterSwap \in [Vaults -> Nat]
    /\ window \in [Vaults -> Nat]
    /\ chunk \in [Vaults -> Nat]
    /\ cooldown \in [Vaults -> Nat]
    /\ budget \in [Vaults -> Nat]
    /\ sbtc \in [Vaults -> Nat]
    /\ stx \in [Vaults -> Nat]
    /\ resting \in [Vaults -> Nat]
    /\ parked \in [Vaults -> Nat]
    /\ escrow \in [Vaults -> Nat]
    /\ gift \in [Vaults -> Nat]

\* A batch is open, or waits to be finished, or neither; never both.  An
\* open batch started in the past.
ClockIsSound ==
    \A v \in Vaults :
        batchStart[v] # None => ~readyToFinish[v] /\ batchStart[v] <= height

\* The vault has an ask, parked ask or escrow on the market only while a
\* batch is open: whatever closes a batch leaves nothing behind there.
NoPositionWithoutBatch ==
    \A v \in Vaults : batchStart[v] = None => MarketTotal(v) = 0

\* A batch never closes on more than dust of the stakers' sBTC: whatever else
\* is in the wallet of a vault without a batch was donated since.
ClosesOnDust ==
    \A v \in Vaults : batchStart[v] = None => sbtc[v] <= DustSats + gift[v]

\* By the time recovery opens, the patience window is over, so the router
\* could sell first (MAX_WINDOW_BLOCKS "must close before recovery opens").
RecoveryOpensAfterWindow ==
    \A v \in Vaults :
        /\ batchStart[v] # None
        /\ height >= batchStart[v] + RecoveryDelay
        => WindowElapsed(v)

\* While the patience window is open, sBTC leaves the vault and the market
\* only by a fill of the vault's own resting ask: no taker sale, no exit.
MakerOnlyWhileWindowOpen ==
    [][\A v \in Vaults :
          /\ WindowOpen(v)
          /\ (sbtc[v] + MarketTotal(v))' < sbtc[v] + MarketTotal(v)
          => resting'[v] < resting[v] /\ sbtc'[v] = sbtc[v]]_vaultVars
=============================================================================
