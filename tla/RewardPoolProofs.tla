-------------------------- MODULE RewardPoolProofs --------------------------
(***************************************************************************)
(* Proofs about swap vaults and the pool's reward batches, for any vaults, *)
(* amounts, settings, cycles and tranche bound.                            *)
(*                                                                         *)
(* The first part is about SwapVault alone: the inductive invariant        *)
(* VaultInv joins its types with the facts about a vault without a batch,  *)
(* and is preserved by VaultStepAny, every step a vault can take whoever   *)
(* calls it.  The second is about RewardPool: PoolInv joins VaultInv, the  *)
(* pool's types and the three facts that tie its ledger to its active      *)
(* vault.  On top of it: a settled tranche never changes, and the pool     *)
(* implements TrancheLifecycle.                                            *)
(***************************************************************************)
EXTENDS RewardPool, SumTheorems

(* Part 1: the vaults.                                                     *)


\* set-window-blocks never lets the window reach the recovery delay.
WindowBounded == \A v \in Vaults : window[v] <= MaxWindowBlocks

VaultInv ==
    /\ VaultTypeOK
    /\ ClockIsSound
    /\ NoPositionWithoutBatch
    /\ ClosesOnDust
    /\ WindowBounded

\* Every step of a vault or of the clock, with no bound on when Fund is called.
VaultStepAny ==
    \/ Tick
    \/ \E v \in Vaults :
          \/ Setting(v) \/ AdminSwap(v) \/ Public(v) \/ Market(v) \/ Donation(v)
          \/ \E amount \in FundAmounts : Fund(v, amount)
          \/ Finish(v)
          \/ EmergencyRecover(v)

-----------------------------------------------------------------------------
\* The market total is a natural number, and is zero only if all parts are.
LEMMA MarketTotalNat ==
    ASSUME VaultTypeOK, NEW v \in Vaults
    PROVE  /\ MarketTotal(v) \in Nat
           /\ MarketTotal(v) = 0 =>
                resting[v] = 0 /\ parked[v] = 0 /\ escrow[v] = 0
  BY DEF VaultTypeOK, MarketTotal

\* A taker sale of at most the wallet keeps the types: the code never spends
\* STX it does not have on verifications.
LEMMA SellTypeOK ==
    ASSUME VaultTypeOK, NEW v \in Vaults, NEW sold \in Nat, sold <= sbtc[v],
           NEW n \in {0, 2}, Sell(v, sold, n), lastRouterSwap' \in [Vaults -> Nat]
    PROVE  VaultTypeOK'
<1>1. sbtc' \in [Vaults -> Nat]
  BY DEF Sell, VaultTypeOK
<1>2. stx' \in [Vaults -> Nat]
  <2>1. n * OracleFee \in Nat /\ n * OracleFee <= stx[v]
    BY VaultAssumption DEF Sell, CanVerify, VaultTypeOK
  <2>2. sold * Price \in Nat
    BY VaultAssumption
  <2>3. stx[v] - n * OracleFee + sold * Price \in Nat
    BY <2>1, <2>2 DEF VaultTypeOK
  <2> QED BY <2>3 DEF Sell, VaultTypeOK
<1>3. /\ batchStart' \in [Vaults -> Nat \cup {None}]
      /\ readyToFinish' \in [Vaults -> BOOLEAN]
      /\ gift' \in [Vaults -> Nat]
  <2>1. CASE EmptyWith(v, sbtc[v] - sold)
    <3>1. batchStart' = [batchStart EXCEPT ![v] = None]
      BY <2>1 DEF Sell, CloseIfEmpty
    <3>2. readyToFinish' = [readyToFinish EXCEPT ![v] = TRUE]
      BY <2>1 DEF Sell, CloseIfEmpty
    <3>3. gift' = [gift EXCEPT ![v] = 0]
      BY <2>1 DEF Sell, CloseIfEmpty
    <3> QED BY <3>1, <3>2, <3>3 DEF VaultTypeOK
  <2>2. CASE ~EmptyWith(v, sbtc[v] - sold)
    BY <2>2 DEF Sell, CloseIfEmpty, clock, VaultTypeOK
  <2> QED BY <2>1, <2>2
<1> QED
  BY <1>1, <1>2, <1>3 DEF Sell, VaultTypeOK, config, market

-----------------------------------------------------------------------------
(* Type correctness, group of callers by group of callers.                 *)

\* A setter keeps the types: its argument is in range.
LEMMA SettingTypeOK ==
    ASSUME VaultTypeOK, NEW v \in Vaults, Setting(v)
    PROVE  VaultTypeOK'
<1>1. ASSUME NEW w \in WindowChoices, SetWindowBlocks(v, w) PROVE VaultTypeOK'
  BY <1>1, VaultAssumption
     DEF SetWindowBlocks, VaultTypeOK, clock, coins, market
<1>2. ASSUME NEW c \in ChunkChoices, SetMaxChunkSats(v, c) PROVE VaultTypeOK'
  BY <1>2, VaultAssumption
     DEF SetMaxChunkSats, VaultTypeOK, clock, coins, market
<1>3. ASSUME NEW c \in CooldownChoices, SetRouterCooldown(v, c)
      PROVE  VaultTypeOK'
  <2>1. c \in Nat
    BY VaultAssumption
  <2> QED BY <1>3, <2>1 DEF SetRouterCooldown, VaultTypeOK, clock, coins, market
<1>4. ASSUME NEW b \in BudgetChoices, SetPythFeeBudget(v, b) PROVE VaultTypeOK'
  BY <1>4, VaultAssumption
     DEF SetPythFeeBudget, VaultTypeOK, clock, coins, market
<1> QED BY <1>1, <1>2, <1>3, <1>4 DEF Setting

\* The pool admin's swaps keep the types: none spends or sells more than there is.
LEMMA AdminSwapTypeOK ==
    ASSUME VaultTypeOK, NEW v \in Vaults, AdminSwap(v)
    PROVE  VaultTypeOK'
<1>1. ASSUME JingRefloor(v) PROVE VaultTypeOK'
  <2>1. stx[v] - OracleFee \in Nat
    BY <1>1, VaultAssumption DEF JingRefloor, CanVerify, VaultTypeOK
  <2> QED BY <1>1, <2>1
             DEF JingRefloor, VaultTypeOK, clock, config, market
<1>2. ASSUME NEW amount \in 1..sbtc[v], JingTake(v, amount) PROVE VaultTypeOK'
  <2>1. SweepAmount(v, amount) \in Nat /\ SweepAmount(v, amount) <= sbtc[v]
    BY <1>2 DEF JingTake, CheckAmount, SweepAmount, VaultTypeOK
  <2>2. PICK sold \in 1..SweepAmount(v, amount) : Sell(v, sold, 2)
    BY <1>2 DEF JingTake
  <2>3. sold \in Nat /\ sold <= sbtc[v] /\ lastRouterSwap' \in [Vaults -> Nat]
    BY <1>2, <2>1, <2>2 DEF JingTake, VaultTypeOK
  <2> QED BY <2>2, <2>3, SellTypeOK
<1>3. ASSUME NEW amount \in 1..sbtc[v], NEW n \in {0, 2},
             RouterSwapSplit(v, amount, n)
      PROVE  VaultTypeOK'
  <2>1. PICK sold \in 1..amount : Sell(v, sold, n)
    BY <1>3 DEF RouterSwapSplit
  <2>2. sold \in Nat /\ sold <= sbtc[v]
    BY <1>3, <2>1 DEF RouterSwapSplit, CheckAmount, VaultTypeOK
  <2>3. lastRouterSwap' \in [Vaults -> Nat]
    BY <1>3 DEF RouterSwapSplit, VaultTypeOK
  <2> QED BY <2>1, <2>2, <2>3, SellTypeOK
<1> QED BY <1>1, <1>2, <1>3 DEF AdminSwap

\* What anyone may call keeps the types.
LEMMA PublicTypeOK ==
    ASSUME VaultTypeOK, NEW v \in Vaults, Public(v)
    PROVE  VaultTypeOK'
<1>1. ASSUME JingPlace(v) PROVE VaultTypeOK'
  <2>1. stx[v] - OracleFee \in Nat
    BY <1>1, VaultAssumption DEF JingPlace, CanVerify, VaultTypeOK
  <2>2. /\ resting' \in [Vaults -> Nat]
        /\ parked' \in [Vaults -> Nat]
        /\ escrow' \in [Vaults -> Nat]
    BY <1>1 DEF JingPlace, VaultTypeOK
  <2> QED BY <1>1, <2>1, <2>2 DEF JingPlace, VaultTypeOK, clock, config
<1>2. ASSUME JingReclaim(v) PROVE VaultTypeOK'
  BY <1>2, MarketTotalNat
     DEF JingReclaim, ReclaimCore, VaultTypeOK, clock, config
<1>3. ASSUME RouterSwap(v) PROVE VaultTypeOK'
  <2>1. ChunkAmount(v) \in Nat /\ ChunkAmount(v) <= sbtc[v]
    BY <1>3 DEF RouterSwap, CheckAmount, ChunkAmount, VaultTypeOK
  <2>2. PICK sold \in 1..ChunkAmount(v) : Sell(v, sold, 2)
    BY <1>3 DEF RouterSwap
  <2>3. sold \in Nat /\ sold <= sbtc[v]
    BY <2>1, <2>2 DEF VaultTypeOK
  <2>4. lastRouterSwap' \in [Vaults -> Nat]
    BY <1>3 DEF RouterSwap, VaultTypeOK
  <2> QED BY <2>2, <2>3, <2>4, SellTypeOK
<1>4. ASSUME CloseBatch(v) PROVE VaultTypeOK'
  BY <1>4, MarketTotalNat DEF CloseBatch, VaultTypeOK, config
<1> QED BY <1>1, <1>2, <1>3, <1>4 DEF Public

\* The market's own steps keep the types.
LEMMA MarketTypeOK ==
    ASSUME VaultTypeOK, NEW v \in Vaults, Market(v)
    PROVE  VaultTypeOK'
<1>1. ASSUME NEW sats \in 1..resting[v], MarketFill(v, sats) PROVE VaultTypeOK'
  <2>1. resting[v] - sats \in Nat /\ stx[v] + sats * Price \in Nat
    <3>1. sats \in Nat /\ sats * Price \in Nat
      BY VaultAssumption DEF VaultTypeOK
    <3> QED BY <3>1 DEF VaultTypeOK
  <2> QED BY <1>1, <2>1 DEF MarketFill, VaultTypeOK, clock, config
<1>2. ASSUME MarketPark(v) PROVE VaultTypeOK'
  BY <1>2 DEF MarketPark, VaultTypeOK, clock, config, coins
<1>3. ASSUME MarketReadmit(v) PROVE VaultTypeOK'
  BY <1>3 DEF MarketReadmit, VaultTypeOK, clock, config, coins
<1>4. ASSUME MarketSettle(v) PROVE VaultTypeOK'
  BY <1>4, MarketTotalNat DEF MarketSettle, VaultTypeOK, clock, config, coins
<1>5. ASSUME MarketRefund(v) PROVE VaultTypeOK'
  BY <1>5 DEF MarketRefund, VaultTypeOK, clock, config
<1> QED BY <1>1, <1>2, <1>3, <1>4, <1>5 DEF Market

\* A token transfer into the vault keeps the types.
LEMMA DonationTypeOK ==
    ASSUME VaultTypeOK, NEW v \in Vaults, Donation(v)
    PROVE  VaultTypeOK'
<1>1. ASSUME DonateSbtc(v) PROVE VaultTypeOK'
  BY <1>1 DEF DonateSbtc, VaultTypeOK, clock, config, market
<1>2. ASSUME DonateStx(v) PROVE VaultTypeOK'
  BY <1>2 DEF DonateStx, VaultTypeOK, clock, config, market
<1> QED BY <1>1, <1>2 DEF Donation

\* The pool's fund, finish and emergency-recover keep the types.
LEMMA PoolCallTypeOK ==
    ASSUME VaultTypeOK, NEW v \in Vaults,
           \/ \E amount \in FundAmounts : Fund(v, amount)
           \/ Finish(v)
           \/ EmergencyRecover(v)
    PROVE  VaultTypeOK'
<1>1. ASSUME NEW amount \in FundAmounts, Fund(v, amount) PROVE VaultTypeOK'
  <2>1. amount \in Nat
    BY VaultAssumption
  <2> QED BY <1>1, <2>1 DEF Fund, VaultTypeOK, config, market
<1>2. ASSUME Finish(v) PROVE VaultTypeOK'
  BY <1>2 DEF Finish, Reserve, VaultTypeOK, config, market
<1>3. ASSUME EmergencyRecover(v) PROVE VaultTypeOK'
  BY <1>3 DEF EmergencyRecover, VaultTypeOK, config
<1> QED BY <1>1, <1>2, <1>3

\* Every step of a vault keeps the types.
LEMMA StepTypeOK ==
    ASSUME VaultTypeOK, VaultStepAny PROVE VaultTypeOK'
<1>1. CASE Tick
  BY <1>1 DEF Tick, VaultTypeOK, clock, config, coins, market
<1> QED
  BY <1>1, SettingTypeOK, AdminSwapTypeOK, PublicTypeOK, MarketTypeOK,
     DonationTypeOK, PoolCallTypeOK DEF VaultStepAny

-----------------------------------------------------------------------------
(* The four facts about a vault without a batch.                           *)

Facts == ClockIsSound /\ NoPositionWithoutBatch /\ ClosesOnDust /\ WindowBounded

USE DEF Facts, VaultInv

\* A sale out of an open batch keeps the facts: it closes the batch only when
\* wallet and market are down to dust.
LEMMA SellFacts ==
    ASSUME VaultInv, NEW v \in Vaults, NEW sold \in Nat, sold <= sbtc[v],
           NEW n, Sell(v, sold, n), batchStart[v] # None
    PROVE  Facts'
<1> USE DEF Sell, MarketTotal, VaultTypeOK
<1>1. CASE EmptyWith(v, sbtc[v] - sold)
  <2>1. /\ batchStart' = [batchStart EXCEPT ![v] = None]
        /\ readyToFinish' = [readyToFinish EXCEPT ![v] = TRUE]
        /\ gift' = [gift EXCEPT ![v] = 0]
    BY <1>1 DEF CloseIfEmpty
  <2>2. /\ sbtc' = [sbtc EXCEPT ![v] = @ - sold]
        /\ UNCHANGED <<height, config, market>>
    OBVIOUS
  <2>3. ClockIsSound'
    BY <2>1, <2>2 DEF ClockIsSound
  <2>4. NoPositionWithoutBatch'
    BY <1>1, <2>1, <2>2 DEF NoPositionWithoutBatch, EmptyWith, market
  <2>5. ClosesOnDust'
    BY <1>1, <2>1, <2>2, VaultAssumption DEF ClosesOnDust, EmptyWith
  <2>6. WindowBounded'
    BY <2>2 DEF WindowBounded, config
  <2> QED BY <2>3, <2>4, <2>5, <2>6
<1>2. CASE ~EmptyWith(v, sbtc[v] - sold)
  <2>1. UNCHANGED <<clock, gift>>
    BY <1>2 DEF CloseIfEmpty
  <2>2. /\ sbtc' = [sbtc EXCEPT ![v] = @ - sold]
        /\ UNCHANGED <<height, config, market>>
    OBVIOUS
  <2>3. ClockIsSound'
    BY <2>1, <2>2 DEF ClockIsSound, clock
  <2>4. NoPositionWithoutBatch' /\ ClosesOnDust'
    BY <2>1, <2>2 DEF NoPositionWithoutBatch, ClosesOnDust, clock, market
  <2>5. WindowBounded'
    BY <2>2 DEF WindowBounded, config
  <2> QED BY <2>3, <2>4, <2>5
<1> QED BY <1>1, <1>2

\* A setter keeps the invariant: the window stays below the recovery delay.
LEMMA SettingFacts ==
    ASSUME VaultInv, NEW v \in Vaults, Setting(v)
    PROVE  Facts'
<1> USE DEF ClockIsSound, NoPositionWithoutBatch, ClosesOnDust, MarketTotal,
            clock, coins, market
<1>1. ASSUME NEW w \in WindowChoices, SetWindowBlocks(v, w) PROVE Facts'
  <2>1. WindowBounded'
    BY <1>1 DEF SetWindowBlocks, WindowBounded, VaultTypeOK
  <2> QED BY <1>1, <2>1 DEF SetWindowBlocks
<1>2. ASSUME NEW c \in ChunkChoices, SetMaxChunkSats(v, c) PROVE Facts'
  BY <1>2 DEF SetMaxChunkSats, WindowBounded
<1>3. ASSUME NEW c \in CooldownChoices, SetRouterCooldown(v, c) PROVE Facts'
  BY <1>3 DEF SetRouterCooldown, WindowBounded
<1>4. ASSUME NEW b \in BudgetChoices, SetPythFeeBudget(v, b) PROVE Facts'
  BY <1>4 DEF SetPythFeeBudget, WindowBounded
<1> QED BY <1>1, <1>2, <1>3, <1>4 DEF Setting

\* The pool admin's swaps keep the invariant: a sale closes the batch only when
\* wallet and market are empty up to dust.
LEMMA AdminSwapFacts ==
    ASSUME VaultInv, NEW v \in Vaults, AdminSwap(v)
    PROVE  Facts'
<1>1. ASSUME JingRefloor(v) PROVE Facts'
  BY <1>1 DEF JingRefloor, ClockIsSound, NoPositionWithoutBatch, ClosesOnDust,
              WindowBounded, MarketTotal, clock, config, market
<1>2. ASSUME NEW amount \in 1..sbtc[v], JingTake(v, amount) PROVE Facts'
  <2>1. SweepAmount(v, amount) \in Nat /\ SweepAmount(v, amount) <= sbtc[v]
    BY <1>2 DEF JingTake, CheckAmount, SweepAmount, VaultTypeOK
  <2>2. PICK sold \in 1..SweepAmount(v, amount) : Sell(v, sold, 2)
    BY <1>2 DEF JingTake
  <2>3. sold \in Nat /\ sold <= sbtc[v] /\ batchStart[v] # None
    BY <1>2, <2>1, <2>2 DEF JingTake, WindowElapsed, VaultTypeOK
  <2> QED BY <2>2, <2>3, SellFacts
<1>3. ASSUME NEW amount \in 1..sbtc[v], NEW n \in {0, 2},
             RouterSwapSplit(v, amount, n)
      PROVE  Facts'
  <2>1. PICK sold \in 1..amount : Sell(v, sold, n)
    BY <1>3 DEF RouterSwapSplit
  <2>2. sold \in Nat /\ sold <= sbtc[v] /\ batchStart[v] # None
    BY <1>3, <2>1 DEF RouterSwapSplit, CheckAmount, WindowElapsed, VaultTypeOK
  <2> QED BY <2>1, <2>2, SellFacts
<1> QED BY <1>1, <1>2, <1>3 DEF AdminSwap

\* What anyone may call keeps the invariant: placing and reclaiming need an open
\* batch, and closing leaves the market.
LEMMA PublicFacts ==
    ASSUME VaultInv, NEW v \in Vaults, Public(v)
    PROVE  Facts'
<1>1. ASSUME JingPlace(v) PROVE Facts'
  <2>1. batchStart[v] # None
    BY <1>1 DEF JingPlace, WindowOpen
  <2>2. /\ \A w \in Vaults \ {v} : /\ sbtc'[w] = sbtc[w]
                                   /\ MarketTotal(w)' = MarketTotal(w)
        /\ UNCHANGED <<height, clock, config, gift>>
    BY <1>1 DEF JingPlace, MarketTotal, VaultTypeOK
  <2> QED BY <2>1, <2>2 DEF ClockIsSound, NoPositionWithoutBatch, ClosesOnDust,
                            WindowBounded, clock, config
<1>2. ASSUME JingReclaim(v) PROVE Facts'
  <2>1. batchStart[v] # None
    BY <1>2 DEF JingReclaim, WindowElapsed
  <2>2. /\ \A w \in Vaults \ {v} : /\ sbtc'[w] = sbtc[w]
                                   /\ MarketTotal(w)' = MarketTotal(w)
        /\ UNCHANGED <<height, clock, config, gift>>
    BY <1>2 DEF JingReclaim, ReclaimCore, MarketTotal, VaultTypeOK
  <2> QED BY <2>1, <2>2 DEF ClockIsSound, NoPositionWithoutBatch, ClosesOnDust,
                            WindowBounded, clock, config
<1>3. ASSUME RouterSwap(v) PROVE Facts'
  <2>1. ChunkAmount(v) \in Nat /\ ChunkAmount(v) <= sbtc[v]
    BY <1>3 DEF RouterSwap, CheckAmount, ChunkAmount, VaultTypeOK
  <2>2. PICK sold \in 1..ChunkAmount(v) : Sell(v, sold, 2)
    BY <1>3 DEF RouterSwap
  <2>3. sold \in Nat /\ sold <= sbtc[v] /\ batchStart[v] # None
    BY <1>3, <2>1, <2>2 DEF RouterSwap, WindowElapsed, VaultTypeOK
  <2> QED BY <2>2, <2>3, SellFacts
<1>4. ASSUME CloseBatch(v) PROVE Facts'
  <2>1. ClockIsSound' /\ WindowBounded'
    BY <1>4 DEF CloseBatch, ClockIsSound, WindowBounded, config, VaultTypeOK
  <2>2. NoPositionWithoutBatch'
    BY <1>4 DEF CloseBatch, NoPositionWithoutBatch, MarketTotal, VaultTypeOK
  <2>3. ClosesOnDust'
    BY <1>4, MarketTotalNat, VaultAssumption
       DEF CloseBatch, ClosesOnDust, VaultTypeOK
  <2> QED BY <2>1, <2>2, <2>3
<1> QED BY <1>1, <1>2, <1>3, <1>4 DEF Public

\* The market's own steps keep the invariant: they need a position, hence a batch.
LEMMA MarketFacts ==
    ASSUME VaultInv, NEW v \in Vaults, Market(v)
    PROVE  Facts'
<1> SUFFICES ASSUME /\ MarketTotal(v) # 0
                    /\ \A w \in Vaults \ {v} : MarketTotal(w)' = MarketTotal(w)
                    /\ \A w \in Vaults \ {v} : sbtc'[w] = sbtc[w]
                    /\ UNCHANGED <<height, clock, config, gift>>
             PROVE  Facts'
  BY DEF Market, MarketFill, MarketPark, MarketReadmit, MarketSettle,
         MarketRefund, MarketTotal, VaultTypeOK, coins
<1>1. batchStart[v] # None
  BY DEF NoPositionWithoutBatch
<1> QED BY <1>1 DEF ClockIsSound, NoPositionWithoutBatch, ClosesOnDust,
                    WindowBounded, clock, config

\* A donation keeps the invariant: without a batch it is recorded as a gift.
LEMMA DonationFacts ==
    ASSUME VaultInv, NEW v \in Vaults, Donation(v)
    PROVE  Facts'
<1>1. ASSUME DonateSbtc(v) PROVE Facts'
  <2>1. ClosesOnDust'
    BY <1>1, VaultAssumption DEF DonateSbtc, ClosesOnDust, clock, VaultTypeOK
  <2> QED BY <1>1, <2>1 DEF DonateSbtc, ClockIsSound, NoPositionWithoutBatch,
                            WindowBounded, MarketTotal, clock, config, market
<1>2. ASSUME DonateStx(v) PROVE Facts'
  BY <1>2 DEF DonateStx, ClockIsSound, NoPositionWithoutBatch, ClosesOnDust,
              WindowBounded, MarketTotal, clock, config, market
<1> QED BY <1>1, <1>2 DEF Donation

\* The pool's fund, finish and emergency-recover keep the invariant.
LEMMA PoolCallFacts ==
    ASSUME VaultInv, NEW v \in Vaults,
           \/ \E amount \in FundAmounts : Fund(v, amount)
           \/ Finish(v)
           \/ EmergencyRecover(v)
    PROVE  Facts'
<1>1. ASSUME NEW amount \in FundAmounts, Fund(v, amount) PROVE Facts'
  BY <1>1, VaultAssumption
     DEF Fund, ClockIsSound, NoPositionWithoutBatch, ClosesOnDust,
         WindowBounded, MarketTotal, config, market, VaultTypeOK
<1>2. ASSUME Finish(v) PROVE Facts'
  BY <1>2 DEF Finish, ClockIsSound, NoPositionWithoutBatch, ClosesOnDust,
              WindowBounded, MarketTotal, config, market, VaultTypeOK
<1>3. ASSUME EmergencyRecover(v) PROVE Facts'
  BY <1>3, VaultAssumption
     DEF EmergencyRecover, ClockIsSound, NoPositionWithoutBatch, ClosesOnDust,
         WindowBounded, MarketTotal, config, VaultTypeOK
<1> QED BY <1>1, <1>2, <1>3

\* Every step of a vault keeps the invariant.
LEMMA StepVaultInv ==
    ASSUME VaultInv, VaultStepAny PROVE VaultInv'
<1>1. VaultTypeOK'
  BY StepTypeOK
<1>2. CASE Tick
  BY <1>1, <1>2
     DEF Tick, ClockIsSound, NoPositionWithoutBatch, ClosesOnDust,
         WindowBounded, MarketTotal, clock, config, coins, market, VaultTypeOK
<1> QED
  BY <1>1, <1>2, SettingFacts, AdminSwapFacts, PublicFacts, MarketFacts,
     DonationFacts, PoolCallFacts DEF VaultStepAny

-----------------------------------------------------------------------------
(* What leaves a vault while its window is open.                           *)

\* The step of MakerOnlyWhileWindowOpen for one vault.
MakerStep(v) ==
    /\ WindowOpen(v)
    /\ (sbtc[v] + MarketTotal(v))' < sbtc[v] + MarketTotal(v)
    => resting'[v] < resting[v] /\ sbtc'[v] = sbtc[v]

\* A window is not open and elapsed at once, and recovery waits for its end.
LEMMA WindowsExclude ==
    ASSUME VaultInv, NEW v \in Vaults
    PROVE  /\ WindowElapsed(v) => ~WindowOpen(v)
           /\ EmergencyRecover(v) => ~WindowOpen(v)
  BY VaultAssumption DEF VaultTypeOK, WindowBounded, WindowElapsed, WindowOpen,
                         EmergencyRecover

\* A step that takes nothing from a vault satisfies MakerStep.
LEMMA KeepingIsMaker ==
    ASSUME VaultTypeOK, NEW v \in Vaults,
           (sbtc[v] + MarketTotal(v))' = sbtc[v] + MarketTotal(v)
    PROVE  MakerStep(v)
  BY MarketTotalNat DEF MakerStep, VaultTypeOK

\* No step of a vault lowers the sBTC of one whose patience window is open, but
\* for a fill of its resting ask.
LEMMA StepMaker ==
    ASSUME VaultInv, VaultStepAny, NEW w \in Vaults
    PROVE  MakerStep(w)
<1> USE DEF MarketTotal, VaultTypeOK
<1>1. CASE Tick
  BY <1>1, KeepingIsMaker DEF Tick, coins, market
<1>2. ASSUME NEW v \in Vaults, Setting(v) PROVE MakerStep(w)
  BY <1>2, KeepingIsMaker
     DEF Setting, SetWindowBlocks, SetMaxChunkSats, SetRouterCooldown,
         SetPythFeeBudget, coins, market
<1>3. ASSUME NEW v \in Vaults, NEW sold, NEW n, Sell(v, sold, n),
             WindowElapsed(v)
      PROVE  MakerStep(w)
  <2>1. CASE v = w
    BY <1>3, <2>1, WindowsExclude DEF MakerStep
  <2>2. CASE v # w
    BY <1>3, <2>2, KeepingIsMaker DEF Sell, market
  <2> QED BY <2>1, <2>2
<1>4. ASSUME NEW v \in Vaults, AdminSwap(v) PROVE MakerStep(w)
  <2>1. CASE JingRefloor(v)
    BY <2>1, KeepingIsMaker DEF JingRefloor, market
  <2>2. CASE ~JingRefloor(v)
    BY <1>3, <1>4, <2>2 DEF AdminSwap, JingTake, RouterSwapSplit
  <2> QED BY <2>1, <2>2
<1>5. ASSUME NEW v \in Vaults, Public(v) PROVE MakerStep(w)
  <2>1. CASE JingPlace(v)
    BY <2>1, KeepingIsMaker DEF JingPlace
  <2>2. CASE JingReclaim(v)
    BY <2>2, KeepingIsMaker DEF JingReclaim, ReclaimCore
  <2>3. CASE RouterSwap(v)
    BY <1>3, <2>3 DEF RouterSwap
  <2>4. CASE CloseBatch(v)
    BY <2>4, KeepingIsMaker DEF CloseBatch
  <2> QED BY <1>5, <2>1, <2>2, <2>3, <2>4 DEF Public
<1>6. ASSUME NEW v \in Vaults, Market(v) PROVE MakerStep(w)
  <2>1. ASSUME NEW sats \in 1..resting[v], MarketFill(v, sats)
        PROVE  MakerStep(w)
    BY <2>1 DEF MarketFill, MakerStep
  <2>2. CASE MarketPark(v)
    BY <2>2, KeepingIsMaker DEF MarketPark, coins
  <2>3. CASE MarketReadmit(v)
    BY <2>3, KeepingIsMaker DEF MarketReadmit, coins
  <2>4. CASE MarketSettle(v)
    BY <2>4, KeepingIsMaker DEF MarketSettle, coins
  <2>5. CASE MarketRefund(v)
    BY <2>5, KeepingIsMaker DEF MarketRefund
  <2> QED BY <1>6, <2>1, <2>2, <2>3, <2>4, <2>5 DEF Market
<1>7. ASSUME NEW v \in Vaults, Donation(v) PROVE MakerStep(w)
  BY <1>7 DEF Donation, DonateSbtc, DonateStx, MakerStep, market
<1>8. ASSUME NEW v \in Vaults, NEW amount \in FundAmounts, Fund(v, amount)
      PROVE  MakerStep(w)
  <2>1. amount \in Nat
    BY VaultAssumption
  <2> QED BY <1>8, <2>1 DEF Fund, MakerStep, market
<1>9. ASSUME NEW v \in Vaults, Finish(v) PROVE MakerStep(w)
  BY <1>9, KeepingIsMaker DEF Finish, market
<1>10. ASSUME NEW v \in Vaults, EmergencyRecover(v) PROVE MakerStep(w)
  <2>1. CASE v = w
    BY <1>10, <2>1, WindowsExclude DEF MakerStep
  <2>2. CASE v # w
    BY <1>10, <2>2, KeepingIsMaker DEF EmergencyRecover
  <2> QED BY <2>1, <2>2
<1> QED
  BY <1>1, <1>2, <1>4, <1>5, <1>6, <1>7, <1>8, <1>9, <1>10 DEF VaultStepAny

-----------------------------------------------------------------------------
(* The theorems.                                                           *)

\* The invariant holds at deployment.
LEMMA InitVaultInv ==
    ASSUME VaultInit PROVE VaultInv
<1> USE VaultAssumption DEF VaultInit
<1>1. height \in Nat /\ MaxWindowBlocks \in Nat
  OBVIOUS
<1>2. cooldown \in [Vaults -> Nat]
  <2>1. CooldownChoices \subseteq Nat
    OBVIOUS
  <2> QED BY <2>1
<1>3. chunk \in [Vaults -> Nat] /\ budget \in [Vaults -> Nat]
  <2>1. ChunkChoices \subseteq Nat /\ BudgetChoices \subseteq Nat
    OBVIOUS
  <2> QED BY <2>1
<1>4. VaultTypeOK
  BY <1>1, <1>2, <1>3 DEF VaultTypeOK
<1> QED
  BY <1>4 DEF ClockIsSound, NoPositionWithoutBatch, ClosesOnDust,
              WindowBounded, MarketTotal

\* The next-state relation is a restriction of VaultStepAny.
LEMMA NextIsAnyStep == VaultNext => VaultStepAny
  BY DEF VaultNext, VaultStepAny, PoolCall

\* A step that leaves the vault variables alone keeps the invariant.
LEMMA StutterVaultInv ==
    ASSUME VaultInv, UNCHANGED vaultVars PROVE VaultInv'
  BY DEF vaultVars, clock, config, coins, market, VaultTypeOK, ClockIsSound,
         NoPositionWithoutBatch, ClosesOnDust, WindowBounded, MarketTotal

\* The vault's invariant, whoever calls it and whatever the market does.
THEOREM VaultInvariant == VaultSpec => []VaultInv
<1>1. VaultInit => VaultInv
  BY InitVaultInv
<1>2. VaultInv /\ [VaultNext]_vaultVars => VaultInv'
  BY NextIsAnyStep, StepVaultInv, StutterVaultInv
<1> QED BY <1>1, <1>2, PTL DEF VaultSpec

\* Types, among them that no wallet goes below zero.
THEOREM VaultTypeCorrect == VaultSpec => []VaultTypeOK
  BY VaultInvariant, PTL

\* Nothing is left on the market when a batch closes.
THEOREM VaultLeavesMarket == VaultSpec => []NoPositionWithoutBatch
  BY VaultInvariant, PTL

\* A batch is open or waits to be finished, never both, and started in the past.
THEOREM VaultClockIsSound == VaultSpec => []ClockIsSound
  BY VaultInvariant, PTL DEF VaultInv

\* A batch closes on dust: neither rounding, partial fills nor escrowed
\* deposits let one close on more.
THEOREM VaultClosesOnDust == VaultSpec => []ClosesOnDust
  BY VaultInvariant, PTL

\* Recovery never opens before the patience window has passed.
THEOREM RecoveryAfterWindow == VaultSpec => []RecoveryOpensAfterWindow
<1>1. VaultInv => RecoveryOpensAfterWindow
  BY VaultAssumption
     DEF RecoveryOpensAfterWindow, WindowBounded, WindowElapsed, VaultTypeOK
<1> QED BY <1>1, VaultInvariant, PTL

\* While the window is open, sBTC leaves only by a fill of the vault's ask.
THEOREM MakerOnly == VaultSpec => MakerOnlyWhileWindowOpen
<1>1. VaultInv /\ [VaultNext]_vaultVars
        => [\A v \in Vaults : MakerStep(v)]_vaultVars
  BY NextIsAnyStep, StepMaker
<1>2. [\A v \in Vaults : MakerStep(v)]_vaultVars
        => [\A v \in Vaults :
              /\ WindowOpen(v)
              /\ (sbtc[v] + MarketTotal(v))' < sbtc[v] + MarketTotal(v)
              => resting'[v] < resting[v] /\ sbtc'[v] = sbtc[v]]_vaultVars
  BY DEF MakerStep
<1> QED
  BY <1>1, <1>2, VaultInvariant, PTL DEF VaultSpec, MakerOnlyWhileWindowOpen

-----------------------------------------------------------------------------
(* Part 2: the pool.                                                       *)


PoolInv ==
    /\ VaultInv
    /\ PoolTypeOK
    /\ VaultBusyIffPending
    /\ SettledAllButPending
    /\ NoPotBeforeSettled

\* The vault holds a batch, open or closed.
Busy(v) == batchStart[v] # None \/ readyToFinish[v]

\* What everybody but the pool itself does to a vault.
OutsideStep(v) ==
    Setting(v) \/ AdminSwap(v) \/ Public(v) \/ Market(v) \/ Donation(v)

-----------------------------------------------------------------------------
(* Vaults: only the pool's own calls make one busy or free.                *)

\* A sale closes the batch but leaves the vault busy until finish.
LEMMA SellKeepsBusy ==
    ASSUME VaultTypeOK, NEW v \in Vaults, NEW sold, NEW n, Sell(v, sold, n),
           batchStart[v] # None, NEW w \in Vaults
    PROVE  Busy(w)' <=> Busy(w)
<1>1. CASE EmptyWith(v, sbtc[v] - sold)
  <2>1. /\ batchStart' = [batchStart EXCEPT ![v] = None]
        /\ readyToFinish' = [readyToFinish EXCEPT ![v] = TRUE]
    BY <1>1 DEF Sell, CloseIfEmpty
  <2> QED BY <2>1 DEF Busy, VaultTypeOK
<1>2. CASE ~EmptyWith(v, sbtc[v] - sold)
  BY <1>2 DEF Sell, CloseIfEmpty, Busy, clock
<1> QED BY <1>1, <1>2

\* No setting, swap, market event or donation makes a vault busy or free.
LEMMA OutsideKeepsBusy ==
    ASSUME VaultTypeOK, NEW v \in Vaults, OutsideStep(v), NEW w \in Vaults
    PROVE  Busy(w)' <=> Busy(w)
<1>1. CASE UNCHANGED clock
  BY <1>1 DEF clock, Busy
<1>2. CASE CloseBatch(v)
  BY <1>2 DEF CloseBatch, Busy, VaultTypeOK
<1>3. CASE \E sold, n : Sell(v, sold, n) /\ WindowElapsed(v)
  BY <1>3, SellKeepsBusy DEF WindowElapsed
<1>4. Setting(v) \/ Market(v) \/ Donation(v) => UNCHANGED clock
  BY DEF Setting, SetWindowBlocks, SetMaxChunkSats, SetRouterCooldown,
         SetPythFeeBudget, Market, MarketFill, MarketPark, MarketReadmit,
         MarketSettle, MarketRefund, Donation, DonateSbtc, DonateStx
<1>5. AdminSwap(v) => \/ UNCHANGED clock
                      \/ \E sold, n : Sell(v, sold, n) /\ WindowElapsed(v)
  BY DEF AdminSwap, JingRefloor, JingTake, RouterSwapSplit
<1>6. Public(v) => \/ UNCHANGED clock
                   \/ CloseBatch(v)
                   \/ \E sold, n : Sell(v, sold, n) /\ WindowElapsed(v)
  BY DEF Public, JingPlace, JingReclaim, RouterSwap
<1> QED BY <1>1, <1>2, <1>3, <1>4, <1>5, <1>6 DEF OutsideStep

\* Every step of the pool is, for the vaults, one of theirs or none.
LEMMA PoolStepIsVaultStep ==
    ASSUME PoolInv, PoolNext
    PROVE  VaultStepAny \/ UNCHANGED vaultVars
<1> USE DEF VaultStepAny
<1>1. swapVault \in Vaults
  BY DEF PoolInv, PoolTypeOK
<1>2. CASE PoolTick
  BY <1>2 DEF PoolTick
<1>3. CASE VaultStep
  BY <1>1, <1>3 DEF VaultStep
<1>4. CASE Rotation
  BY <1>4 DEF Rotation, ProposeSwapVault, CancelSwapVaultProposal,
              ConfirmSwapVault
<1>5. CASE Claim
  BY <1>1, <1>5 DEF Claim, PoxClaimRewards
<1>6. CASE FinalizeSwap
  BY <1>1, <1>6 DEF FinalizeSwap
<1>7. CASE RecoverSwap
  BY <1>1, <1>7 DEF RecoverSwap
<1> QED BY <1>2, <1>3, <1>4, <1>5, <1>6, <1>7 DEF PoolNext

\* The vaults' own invariant holds in the pool.
LEMMA PoolStepVaultInv ==
    ASSUME PoolInv, PoolNext PROVE VaultInv'
  BY PoolStepIsVaultStep, StepVaultInv, StutterVaultInv DEF PoolInv

-----------------------------------------------------------------------------
(* The ledger, action by action.                                           *)

LedgerTypeOK ==
    /\ swapVault \in Vaults
    /\ pendingVault \in Vaults \cup {None}
    /\ pendingVaultHeight \in Nat
    /\ pendingSwap \in Tranches \cup {None}
    /\ trancheCount \in [Cycles -> 0..(MaxTranche + 1)]
    /\ lastClaimDist \in [Cycles -> Nat \cup {None}]
    /\ finalized \subseteq Tranches
    /\ stxPot \in [Tranches -> Nat]
    /\ recoveredPot \in [Tranches -> Nat \cup {None}]
    /\ poolStx \in Nat
    /\ poolSbtc \in Nat

LedgerInv ==
    LedgerTypeOK /\ VaultBusyIffPending /\ SettledAllButPending
      /\ NoPotBeforeSettled

\* PoolInv is the vaults' invariant and the ledger's.
LEMMA PoolInvParts == PoolInv <=> VaultInv /\ LedgerInv
  BY DEF PoolInv, LedgerInv, LedgerTypeOK, PoolTypeOK, VaultInv

\* None is not a tranche.
LEMMA NoneIsNoTranche == None \notin Tranches
  BY PoolAssumption DEF Tranches

\* A step that leaves the ledger alone and frees or occupies no vault.
LEMMA QuietLedger ==
    ASSUME LedgerInv, UNCHANGED <<rotation, ledger>>,
           \A w \in Vaults : Busy(w)' <=> Busy(w)
    PROVE  LedgerInv'
  BY DEF LedgerInv, LedgerTypeOK, VaultBusyIffPending, SettledAllButPending,
         NoPotBeforeSettled, rotation, ledger, Busy

\* A rotation moves the pool from one vault without a batch to another.
LEMMA RotationLedger ==
    ASSUME VaultInv, LedgerInv, Rotation PROVE LedgerInv'
<1> USE DEF LedgerInv
<1>1. LedgerTypeOK'
  <2>1. ASSUME NEW v \in Vaults, ProposeSwapVault(v) PROVE LedgerTypeOK'
    <3>1. height \in Nat
      BY DEF VaultInv, VaultTypeOK
    <3> QED BY <2>1, <3>1 DEF ProposeSwapVault, LedgerTypeOK, ledger
  <2>2. CASE CancelSwapVaultProposal
    BY <2>2 DEF CancelSwapVaultProposal, LedgerTypeOK, ledger
  <2>3. CASE ConfirmSwapVault
    BY <2>3 DEF ConfirmSwapVault, LedgerTypeOK, ledger
  <2> QED BY <2>1, <2>2, <2>3 DEF Rotation
<1>2. VaultBusyIffPending'
  <2>1. UNCHANGED <<batchStart, readyToFinish, pendingSwap>>
    BY DEF Rotation, ProposeSwapVault, CancelSwapVaultProposal,
           ConfirmSwapVault, ledger, vaultVars, clock
  <2>2. swapVault' = swapVault \/ pendingSwap = None
    BY DEF Rotation, ProposeSwapVault, CancelSwapVaultProposal,
           ConfirmSwapVault
  <2> QED BY <2>1, <2>2 DEF VaultBusyIffPending
<1>3. SettledAllButPending' /\ NoPotBeforeSettled'
  BY DEF Rotation, ProposeSwapVault, CancelSwapVaultProposal,
         ConfirmSwapVault, SettledAllButPending, NoPotBeforeSettled, ledger
<1> QED BY <1>1, <1>2, <1>3

\* A claim opens the next tranche of its cycle and occupies the vault.
LEMMA ClaimLedger ==
    ASSUME VaultInv, LedgerInv, NEW c \in Cycles, NEW claimed \in FundAmounts,
           trancheCount[c] <= MaxTranche, PoxClaimRewards(c, claimed)
    PROVE  LedgerInv'
<1> USE DEF LedgerInv
<1> DEFINE new == [cycle |-> c, tranche |-> trancheCount[c]]
<1>1. trancheCount[c] \in 0..MaxTranche
  BY PoolAssumption DEF LedgerTypeOK
<1>2. new \in Tranches /\ new # None
  BY <1>1, NoneIsNoTranche DEF Tranches
<1>3. /\ pendingSwap = None
      /\ pendingSwap' = new
      /\ trancheCount' = [trancheCount EXCEPT ![c] = @ + 1]
      /\ UNCHANGED <<rotation, finalized, stxPot, recoveredPot, poolStx,
                     poolSbtc>>
  BY DEF PoxClaimRewards
<1>4. LedgerTypeOK'
  <2>1. lastClaimDist' \in [Cycles -> Nat \cup {None}]
    <3>1. CurrentDist \in Nat
      BY PoolAssumption DEF CurrentDist, VaultInv, VaultTypeOK
    <3> QED BY <3>1 DEF PoxClaimRewards, LedgerTypeOK
  <2>2. trancheCount' \in [Cycles -> 0..(MaxTranche + 1)]
    BY <1>1, <1>3, PoolAssumption DEF LedgerTypeOK
  <2> QED BY <1>2, <1>3, <2>1, <2>2 DEF LedgerTypeOK, rotation
<1>5. VaultBusyIffPending'
  <2>1. batchStart' = [batchStart EXCEPT ![swapVault] = height]
        /\ UNCHANGED readyToFinish /\ height # None
    BY VaultAssumption DEF PoxClaimRewards, Fund, VaultInv, VaultTypeOK
  <2> QED BY <1>2, <1>3, <2>1
             DEF VaultBusyIffPending, rotation, VaultInv, VaultTypeOK,
                 LedgerTypeOK
<1>6. SettledAllButPending'
  <2> SUFFICES ASSUME NEW b \in Tranches
               PROVE  /\ b \in finalized <=>
                           b.tranche < trancheCount'[b.cycle] /\ b # new
                      /\ b = new => b.tranche + 1 = trancheCount'[b.cycle]
    BY <1>3 DEF SettledAllButPending
  <2>1. /\ b.cycle \in Cycles /\ b.tranche \in Nat
        /\ b = [cycle |-> b.cycle, tranche |-> b.tranche]
    BY DEF Tranches
  <2>2. b \in finalized <=> b.tranche < trancheCount[b.cycle]
    BY <1>3, NoneIsNoTranche DEF SettledAllButPending
  <2>3. CASE b = new
    BY <1>1, <1>3, <2>2, <2>3 DEF LedgerTypeOK
  <2>4. CASE b # new /\ b.cycle = c
    BY <1>1, <1>3, <2>1, <2>2, <2>4 DEF LedgerTypeOK
  <2>5. CASE b.cycle # c
    BY <1>3, <2>1, <2>2, <2>5 DEF LedgerTypeOK
  <2> QED BY <2>3, <2>4, <2>5
<1>7. NoPotBeforeSettled'
  BY <1>3 DEF NoPotBeforeSettled
<1> QED BY <1>4, <1>5, <1>6, <1>7

\* What finalize-swap and emergency-recover have in common: the tranche in
\* flight is settled with its own two pots, and the vault is free.
LEMMA SettleLedger ==
    ASSUME LedgerInv, NEW ustx \in Nat, NEW sats \in Nat \cup {None},
           pendingSwap # None,
           pendingSwap' = None,
           finalized' = finalized \cup {pendingSwap},
           stxPot' = [stxPot EXCEPT ![pendingSwap] = ustx],
           recoveredPot' = [recoveredPot EXCEPT ![pendingSwap] = sats],
           poolStx' \in Nat, poolSbtc' \in Nat,
           UNCHANGED <<rotation, trancheCount, lastClaimDist>>,
           \A w \in Vaults : Busy(w)' <=> (Busy(w) /\ w # swapVault)
    PROVE  LedgerInv'
<1> USE DEF LedgerInv
<1>1. pendingSwap \in Tranches
  BY DEF LedgerTypeOK
<1>2. LedgerTypeOK'
  BY <1>1 DEF LedgerTypeOK, rotation
<1>3. VaultBusyIffPending'
  BY DEF VaultBusyIffPending, Busy, rotation
<1>4. SettledAllButPending'
  <2> SUFFICES ASSUME NEW b \in Tranches
               PROVE  b \in finalized' <=> b.tranche < trancheCount[b.cycle]
    BY NoneIsNoTranche DEF SettledAllButPending
  <2>1. CASE b = pendingSwap
    <3>1. b.tranche \in Nat /\ b.tranche + 1 = trancheCount[b.cycle]
      BY <2>1 DEF SettledAllButPending, Tranches
    <3> QED BY <2>1, <3>1
  <2>2. CASE b # pendingSwap
    BY <2>2 DEF SettledAllButPending
  <2> QED BY <2>1, <2>2
<1>5. NoPotBeforeSettled'
  BY <1>1 DEF NoPotBeforeSettled, LedgerTypeOK
<1> QED BY <1>2, <1>3, <1>4, <1>5

\* The amounts that come home are natural numbers.
LEMMA AmountsNat ==
    ASSUME VaultTypeOK, NEW v \in Vaults
    PROVE  /\ FinishAmount(v) \in Nat
           /\ stx[v] \in Nat
           /\ sbtc[v] + MarketTotal(v) \in Nat
  BY MarketTotalNat DEF FinishAmount, Reserve, VaultTypeOK

\* finalize-swap keeps the ledger sound: it settles the tranche in flight and frees
\* the active vault.
LEMMA FinalizeLedger ==
    ASSUME VaultInv, LedgerInv, FinalizeSwap PROVE LedgerInv'
<1>1. swapVault \in Vaults /\ poolStx \in Nat /\ poolSbtc \in Nat
  BY DEF LedgerInv, LedgerTypeOK
<1>2. FinishAmount(swapVault) \in Nat
  BY <1>1, AmountsNat DEF VaultInv
<1>3. \A w \in Vaults : Busy(w)' <=> (Busy(w) /\ w # swapVault)
  BY <1>1 DEF FinalizeSwap, Finish, Busy, VaultInv, VaultTypeOK, ClockIsSound
<1>4. pendingSwap \in Tranches
  BY DEF FinalizeSwap, LedgerInv, LedgerTypeOK
<1>5. recoveredPot' = [recoveredPot EXCEPT ![pendingSwap]
                         = recoveredPot[pendingSwap]]
  BY <1>4 DEF FinalizeSwap, LedgerInv, LedgerTypeOK
<1>6. recoveredPot[pendingSwap] \in Nat \cup {None}
  BY <1>4 DEF LedgerInv, LedgerTypeOK
<1>7. /\ pendingSwap # None
      /\ pendingSwap' = None
      /\ finalized' = finalized \cup {pendingSwap}
      /\ stxPot' = [stxPot EXCEPT ![pendingSwap] = FinishAmount(swapVault)]
      /\ poolStx' \in Nat /\ poolSbtc' \in Nat
      /\ UNCHANGED <<rotation, trancheCount, lastClaimDist>>
  BY <1>1, <1>2 DEF FinalizeSwap
<1> QED
  BY <1>2, <1>3, <1>5, <1>6, <1>7, SettleLedger

\* emergency-recover keeps the ledger sound in the same way.
LEMMA RecoverLedger ==
    ASSUME VaultInv, LedgerInv, RecoverSwap PROVE LedgerInv'
<1> DEFINE sats == sbtc[swapVault] + MarketTotal(swapVault)
<1>1. swapVault \in Vaults /\ poolStx \in Nat /\ poolSbtc \in Nat
  BY DEF LedgerInv, LedgerTypeOK
<1>2. stx[swapVault] \in Nat /\ sats \in Nat
  BY <1>1, AmountsNat DEF VaultInv
<1>3. \A w \in Vaults : Busy(w)' <=> (Busy(w) /\ w # swapVault)
  BY <1>1 DEF RecoverSwap, EmergencyRecover, Busy, VaultInv, VaultTypeOK
<1>4. recoveredPot' = [recoveredPot EXCEPT ![pendingSwap] = sats]
  BY DEF RecoverSwap
<1> HIDE DEF sats
<1>5. poolStx' \in Nat /\ poolSbtc' \in Nat
  BY <1>1, <1>2 DEF RecoverSwap, sats
<1> QED
  BY <1>2, <1>3, <1>4, <1>5, SettleLedger DEF RecoverSwap

-----------------------------------------------------------------------------
(* The theorems.                                                           *)

\* The invariant holds at deployment.
LEMMA InitPoolInv ==
    ASSUME PoolInit PROVE PoolInv
<1> USE PoolAssumption DEF PoolInit
<1>1. VaultInv
  BY InitVaultInv
<1>2. LedgerTypeOK
  BY DEF LedgerTypeOK
<1>3. VaultBusyIffPending
  BY DEF VaultBusyIffPending, VaultInit
<1>4. SettledAllButPending /\ NoPotBeforeSettled
  BY NoneIsNoTranche DEF SettledAllButPending, NoPotBeforeSettled, Tranches
<1> QED BY <1>1, <1>2, <1>3, <1>4, PoolInvParts DEF LedgerInv

\* Every step of the pool keeps the ledger's part.
LEMMA StepLedgerInv ==
    ASSUME VaultInv, LedgerInv, PoolNext PROVE LedgerInv'
<1>1. swapVault \in Vaults
  BY DEF LedgerInv, LedgerTypeOK
<1>2. CASE PoolTick
  BY <1>2, QuietLedger DEF PoolTick, Tick, clock, Busy
<1>3. CASE VaultStep
  <2>1. UNCHANGED <<rotation, ledger>> /\ \E v \in Vaults : OutsideStep(v)
    BY <1>1, <1>3 DEF VaultStep, OutsideStep
  <2>2. \A w \in Vaults : Busy(w)' <=> Busy(w)
    BY <2>1, OutsideKeepsBusy DEF VaultInv
  <2> QED BY <2>1, <2>2, QuietLedger
<1>4. CASE Rotation
  BY <1>4, RotationLedger
<1>5. CASE Claim
  BY <1>5, ClaimLedger DEF Claim
<1>6. CASE FinalizeSwap
  BY <1>6, FinalizeLedger
<1>7. CASE RecoverSwap
  BY <1>7, RecoverLedger
<1> QED BY <1>2, <1>3, <1>4, <1>5, <1>6, <1>7 DEF PoolNext

\* Every step of the pool keeps the invariant.
LEMMA StepPoolInv ==
    ASSUME PoolInv, [PoolNext]_poolVars PROVE PoolInv'
<1>1. PoolInv <=> VaultInv /\ LedgerInv
  BY PoolInvParts
<1>2. PoolInv' <=> VaultInv' /\ LedgerInv'
  BY DEF PoolInv, LedgerInv, LedgerTypeOK, PoolTypeOK, VaultInv
<1>3. CASE PoolNext
  BY <1>1, <1>2, <1>3, PoolStepVaultInv, StepLedgerInv
<1>4. CASE UNCHANGED poolVars
  <2>1. VaultInv'
    BY <1>1, <1>4, StutterVaultInv DEF poolVars
  <2>2. LedgerInv'
    BY <1>1, <1>4, QuietLedger DEF poolVars, vaultVars, clock, Busy
  <2> QED BY <1>2, <2>1, <2>2
<1> QED BY <1>3, <1>4

\* The pool's invariant, whatever the vaults, the market and the admin do.
THEOREM PoolInvariant == PoolSpec => []PoolInv
  BY InitPoolInv, StepPoolInv, PTL DEF PoolSpec

\* Types, among them that neither the pool nor a vault spends what it lacks.
THEOREM PoolTypeCorrect == PoolSpec => []PoolTypeOK
<1>1. PoolInv => PoolTypeOK
  BY DEF PoolInv
<1> QED BY <1>1, PoolInvariant, PTL

\* A vault holds a batch exactly while the pool has a tranche in flight, and
\* then it is the active vault: no rotation abandons a batch.
THEOREM NoBatchAbandoned == PoolSpec => []VaultBusyIffPending
<1>1. PoolInv => VaultBusyIffPending
  BY DEF PoolInv
<1> QED BY <1>1, PoolInvariant, PTL

\* Every tranche claimed so far is settled, but the one in flight.
THEOREM ClaimedIsSettled == PoolSpec => []SettledAllButPending
<1>1. PoolInv => SettledAllButPending
  BY DEF PoolInv
<1> QED BY <1>1, PoolInvariant, PTL

\* No tranche has anything to pay before it is settled.
THEOREM NothingBeforeSettled == PoolSpec => []NoPotBeforeSettled
<1>1. PoolInv => NoPotBeforeSettled
  BY DEF PoolInv
<1> QED BY <1>1, PoolInvariant, PTL

\* A vault the pool does not use holds no more than dust and gifts.
THEOREM RotationStrandsOnlyDust == PoolSpec => []IdleVaultsHoldOnlyDust
<1>1. PoolInv => IdleVaultsHoldOnlyDust
  <2> SUFFICES ASSUME PoolInv, NEW v \in Vaults \ {swapVault}
               PROVE  sbtc[v] + MarketTotal(v) <= DustSats + gift[v]
    BY DEF IdleVaultsHoldOnlyDust
  <2>1. batchStart[v] = None
    BY DEF PoolInv, VaultBusyIffPending
  <2>2. MarketTotal(v) = 0 /\ sbtc[v] <= DustSats + gift[v]
    BY <2>1 DEF PoolInv, VaultInv, NoPositionWithoutBatch, ClosesOnDust
  <2> QED BY <2>2 DEF PoolInv, VaultInv, VaultTypeOK
<1> QED BY <1>1, PoolInvariant, PTL

-----------------------------------------------------------------------------
(* The pots and the money.                                                 *)

\* A pool of finitely many cycles has finitely many tranches.
LEMMA TranchesFinite == IsFiniteSet(Tranches)
<1>1. IsFiniteSet(0..MaxTranche)
  BY PoolAssumption, FS_Interval
<1> QED BY <1>1, PoolAssumption, TranchesOfFinite DEF Tranches

\* The tranches whose sBTC came back.
Recovered == {b \in Tranches : recoveredPot[b] # None}

\* Filling the empty pot of a tranche raises the sum of the pots by as much.
LEMMA FillStxPot ==
    ASSUME PoolInv, NEW b \in Tranches \ finalized, stxPot'[b] \in Nat,
           \A c \in Tranches \ {b} : stxPot'[c] = stxPot[c]
    PROVE  SumFunctionOnSet(stxPot', Tranches)
             = SumFunctionOnSet(stxPot, Tranches) + stxPot'[b]
<1>1. stxPot \in [Tranches -> Nat] /\ stxPot[b] = 0
  BY DEF PoolInv, PoolTypeOK, NoPotBeforeSettled
<1>2. b \in Tranches /\ IntegersOn(stxPot, Tranches) /\ stxPot'[b] \in Int
  BY <1>1 DEF IntegersOn
<1>3. SumFunctionOnSet(stxPot', Tranches)
        = SumFunctionOnSet(stxPot, Tranches) - stxPot[b] + stxPot'[b]
  BY <1>2, TranchesFinite, SumChange
<1>4. SumFunctionOnSet(stxPot, Tranches) \in Int
  BY <1>2, TranchesFinite, SumTake
<1> QED BY <1>1, <1>3, <1>4

\* So does recording what came back of a tranche.
LEMMA FillRecoveredPot ==
    ASSUME PoolInv, NEW b \in Tranches \ finalized, NEW sats \in Nat,
           recoveredPot' = [recoveredPot EXCEPT ![b] = sats]
    PROVE  SumFunctionOnSet(recoveredPot', Recovered')
             = SumFunctionOnSet(recoveredPot, Recovered) + sats
<1>1. recoveredPot \in [Tranches -> Nat \cup {None}] /\ recoveredPot[b] = None
  BY DEF PoolInv, PoolTypeOK, NoPotBeforeSettled
<1>2. sats # None
  BY VaultAssumption
<1>3. Recovered' = Recovered \cup {b} /\ b \notin Recovered
  BY <1>1, <1>2 DEF Recovered
<1>4. /\ \A c \in Recovered : recoveredPot'[c] = recoveredPot[c]
      /\ recoveredPot'[b] = sats
  BY <1>1, <1>3 DEF Recovered
<1>5. IntegersOn(recoveredPot, Recovered)
  BY <1>1 DEF IntegersOn, Recovered
<1>6. IntegersOn(recoveredPot', Recovered \cup {b})
  BY <1>4, <1>5 DEF IntegersOn
<1>7. IsFiniteSet(Recovered)
  BY TranchesFinite, FS_Subset DEF Recovered
<1>8. SumFunctionOnSet(recoveredPot', Recovered \cup {b})
        = SumFunctionOnSet(recoveredPot', Recovered) + recoveredPot'[b]
  BY <1>3, <1>6, <1>7, SumAddElement
<1>9. SumFunctionOnSet(recoveredPot', Recovered)
        = SumFunctionOnSet(recoveredPot, Recovered)
  BY <1>4, <1>5, <1>7, SumSame
<1> QED BY <1>3, <1>4, <1>8, <1>9

\* The pots stay the pool's money: only the settlements touch either.
LEMMA StepPots ==
    ASSUME PoolInv, PotsMatchBalances, [PoolNext]_poolVars
    PROVE  PotsMatchBalances'
<1> USE DEF PotsMatchBalances
<1>1. CASE UNCHANGED <<stxPot, recoveredPot, poolStx, poolSbtc>>
  BY <1>1
<1>2. ASSUME pendingSwap # None
      PROVE  /\ pendingSwap \in Tranches \ finalized
             /\ swapVault \in Vaults
             /\ FinishAmount(swapVault) \in Nat
             /\ stx[swapVault] \in Nat
             /\ sbtc[swapVault] + MarketTotal(swapVault) \in Nat
  <2>1. pendingSwap \in Tranches \ finalized /\ swapVault \in Vaults
    BY <1>2 DEF PoolInv, PoolTypeOK, SettledAllButPending
  <2> QED BY <2>1, AmountsNat DEF PoolInv, VaultInv
<1>6. stxPot \in [Tranches -> Nat]
  BY DEF PoolInv, PoolTypeOK
<1>3. CASE FinalizeSwap
  <2>1. /\ pendingSwap # None
        /\ stxPot'[pendingSwap] = FinishAmount(swapVault)
        /\ \A c \in Tranches \ {pendingSwap} : stxPot'[c] = stxPot[c]
    BY <1>2, <1>3, <1>6 DEF FinalizeSwap
  <2>2. SumFunctionOnSet(stxPot', Tranches)
          = SumFunctionOnSet(stxPot, Tranches) + stxPot'[pendingSwap]
    BY <1>2, <2>1, FillStxPot
  <2> QED BY <1>3, <2>1, <2>2 DEF FinalizeSwap
<1>4. CASE RecoverSwap
  <2> DEFINE sats == sbtc[swapVault] + MarketTotal(swapVault)
  <2>1. /\ pendingSwap # None
        /\ stxPot'[pendingSwap] = stx[swapVault]
        /\ \A c \in Tranches \ {pendingSwap} : stxPot'[c] = stxPot[c]
        /\ recoveredPot' = [recoveredPot EXCEPT ![pendingSwap] = sats]
        /\ poolStx' = poolStx + stx[swapVault]
        /\ poolSbtc' = poolSbtc + sats
    BY <1>2, <1>4, <1>6 DEF RecoverSwap
  <2>2. sats \in Nat
    BY <1>2, <2>1
  <2> HIDE DEF sats
  <2>3. SumFunctionOnSet(stxPot', Tranches)
          = SumFunctionOnSet(stxPot, Tranches) + stxPot'[pendingSwap]
    BY <1>2, <2>1, FillStxPot
  <2>4. SumFunctionOnSet(recoveredPot', Recovered')
          = SumFunctionOnSet(recoveredPot, Recovered) + sats
    BY <1>2, <2>1, <2>2, FillRecoveredPot
  <2>5. PotsMatchBalances'
    BY <2>1, <2>3, <2>4 DEF Recovered
  <2> QED BY <2>5
<1>5. CASE PoolTick \/ VaultStep \/ Rotation \/ Claim \/ UNCHANGED poolVars
  BY <1>1, <1>5
     DEF PoolTick, VaultStep, Rotation, ProposeSwapVault,
         CancelSwapVaultProposal, ConfirmSwapVault, Claim, PoxClaimRewards,
         ledger, poolVars
<1> QED BY <1>3, <1>4, <1>5 DEF PoolNext

\* The pool's STX and sBTC are exactly the pots of its tranches: nothing a
\* vault sends home is lost or credited twice.
THEOREM PotsAreTheMoney == PoolSpec => []PotsMatchBalances
<1>1. PoolInit => PotsMatchBalances
  <2> SUFFICES ASSUME PoolInit PROVE PotsMatchBalances
    OBVIOUS
  <2>1. SumFunctionOnSet(stxPot, Tranches) = 0
    BY TranchesFinite, SumZero DEF PoolInit
  <2>2. {b \in Tranches : recoveredPot[b] # None} = {}
    BY DEF PoolInit
  <2> QED BY <2>1, <2>2, SumEmpty DEF PotsMatchBalances, PoolInit
<1>2. PoolInv /\ PotsMatchBalances /\ [PoolNext]_poolVars => PotsMatchBalances'
  BY StepPots
<1> QED BY <1>1, <1>2, PoolInvariant, PTL DEF PoolSpec

\* Only the clock moves the height.
LEMMA OnlyClockMovesHeight ==
    ASSUME PoolNext PROVE PoolTick \/ UNCHANGED height
<1>1. ASSUME NEW v, OutsideStep(v) PROVE UNCHANGED height
  BY <1>1
     DEF OutsideStep, Setting, SetWindowBlocks, SetMaxChunkSats,
         SetRouterCooldown, SetPythFeeBudget, AdminSwap, JingRefloor,
         JingTake, RouterSwapSplit, Public, JingPlace, JingReclaim,
         RouterSwap, CloseBatch, Market, MarketFill, MarketPark,
         MarketReadmit, MarketSettle, MarketRefund, Donation, DonateSbtc,
         DonateStx, Sell
<1>2. CASE VaultStep
  BY <1>1, <1>2 DEF VaultStep, OutsideStep
<1>3. CASE Rotation
  BY <1>3 DEF Rotation, ProposeSwapVault, CancelSwapVaultProposal,
              ConfirmSwapVault, vaultVars
<1>4. CASE Claim \/ FinalizeSwap \/ RecoverSwap
  BY <1>4 DEF Claim, PoxClaimRewards, Fund, FinalizeSwap, Finish,
              RecoverSwap, EmergencyRecover
<1> QED BY <1>2, <1>3, <1>4 DEF PoolNext

\* Only the admin's three calls touch the rotation.
LEMMA StepKeepsRotation ==
    ASSUME PoolInv, [PoolNext]_poolVars
    PROVE  \/ UNCHANGED rotation /\ (UNCHANGED height \/ height' = height + 1)
           \/ Rotation
<1>1. CASE UNCHANGED poolVars
  BY <1>1 DEF poolVars, vaultVars
<1>2. CASE PoolTick
  BY <1>2 DEF PoolTick, Tick
<1>3. CASE VaultStep
  BY <1>3, OnlyClockMovesHeight DEF VaultStep, PoolTick, Tick, PoolNext
<1>4. CASE Claim \/ FinalizeSwap \/ RecoverSwap
  BY <1>4 DEF Claim, PoxClaimRewards, Fund, FinalizeSwap, Finish,
              RecoverSwap, EmergencyRecover
<1> QED BY <1>1, <1>2, <1>3, <1>4 DEF PoolNext

\* No proposal was made in the future.
LEMMA StepProposal ==
    ASSUME PoolInv, pendingVaultHeight <= height, [PoolNext]_poolVars
    PROVE  (pendingVaultHeight <= height)'
<1> USE DEF PoolInv, PoolTypeOK, VaultTypeOK
<1>1. CASE UNCHANGED rotation /\ (UNCHANGED height \/ height' = height + 1)
  BY <1>1 DEF rotation
<1>2. CASE Rotation
  BY <1>2 DEF Rotation, ProposeSwapVault, CancelSwapVaultProposal,
              ConfirmSwapVault, vaultVars
<1> QED BY <1>1, <1>2, StepKeepsRotation

\* The pool changes its vault only on notice.
THEOREM VaultOnNotice == PoolSpec => VaultChangesOnNotice
<1> USE PoolAssumption
    DEF VaultChange!ChangeNext, VaultChange!changeVars, PoolInv, PoolTypeOK,
        VaultTypeOK
<1>1. PoolInit => VaultChange!ChangeInit /\ pendingVaultHeight <= height
  BY VaultAssumption
     DEF PoolInit, VaultInit, VaultChange!ChangeInit
<1>2. PoolInv /\ pendingVaultHeight <= height /\ [PoolNext]_poolVars
        => [VaultChange!ChangeNext]_(VaultChange!changeVars)
  <2> SUFFICES ASSUME PoolInv, pendingVaultHeight <= height,
                      [PoolNext]_poolVars
               PROVE  [VaultChange!ChangeNext]_(VaultChange!changeVars)
    OBVIOUS
  <2>1. ASSUME NEW v \in Vaults, ProposeSwapVault(v)
        PROVE  VaultChange!Announce \/ UNCHANGED VaultChange!changeVars
    BY <2>1 DEF ProposeSwapVault, vaultVars, ProposalAge, VaultChange!Announce
  <2>2. ASSUME CancelSwapVaultProposal PROVE VaultChange!Withdraw
    BY <2>2 DEF CancelSwapVaultProposal, VaultChange!Withdraw
  <2>3. ASSUME ConfirmSwapVault PROVE VaultChange!Adopt
    BY <2>3 DEF ConfirmSwapVault, ProposalAge, VaultChange!Adopt
  <2>4. ASSUME UNCHANGED rotation, UNCHANGED height \/ height' = height + 1
        PROVE  [VaultChange!ChangeNext]_(VaultChange!changeVars)
    BY <2>4 DEF rotation, ProposalAge, VaultChange!Wait, VaultChange!Withdraw
  <2>5. \/ UNCHANGED rotation /\ (UNCHANGED height \/ height' = height + 1)
        \/ Rotation
    BY StepKeepsRotation
  <2> QED BY <2>1, <2>2, <2>3, <2>4, <2>5 DEF Rotation
<1> QED
  BY <1>1, <1>2, StepProposal, PoolInvariant, PTL
     DEF PoolSpec, VaultChangesOnNotice, VaultChange!ChangeSpec

-----------------------------------------------------------------------------
(* Settled tranches, and the abstract life of a tranche.                   *)

\* A step settles at most the tranche in flight, and no pot of another one
\* changes.
LEMMA StepSettles ==
    ASSUME PoolInv, PoolNext
    PROVE  \/ UNCHANGED <<pendingSwap, trancheCount, finalized, stxPot,
                          recoveredPot>>
           \/ \E c \in Cycles :
                /\ pendingSwap = None
                /\ trancheCount[c] <= MaxTranche
                /\ pendingSwap' = [cycle |-> c, tranche |-> trancheCount[c]]
                /\ trancheCount' = [trancheCount EXCEPT ![c] = @ + 1]
                /\ UNCHANGED <<finalized, stxPot, recoveredPot>>
           \/ /\ pendingSwap # None
              /\ pendingSwap' = None
              /\ UNCHANGED trancheCount
              /\ finalized' = finalized \cup {pendingSwap}
              /\ \A b \in Tranches \ {pendingSwap} :
                    stxPot'[b] = stxPot[b] /\ recoveredPot'[b] = recoveredPot[b]
<1>1. CASE PoolTick \/ VaultStep
  BY <1>1 DEF PoolTick, VaultStep, ledger
<1>2. CASE Rotation
  BY <1>2 DEF Rotation, ProposeSwapVault, CancelSwapVaultProposal,
              ConfirmSwapVault, ledger
<1>3. CASE Claim
  BY <1>3 DEF Claim, PoxClaimRewards
<1>4. CASE FinalizeSwap
  BY <1>4 DEF FinalizeSwap, PoolInv, PoolTypeOK
<1>5. CASE RecoverSwap
  BY <1>5 DEF RecoverSwap, PoolInv, PoolTypeOK
<1> QED BY <1>1, <1>2, <1>3, <1>4, <1>5 DEF PoolNext

\* The tranche in flight is not settled yet.
LEMMA PendingIsOpen == ASSUME PoolInv PROVE pendingSwap \notin finalized
  BY DEF PoolInv, PoolTypeOK, SettledAllButPending

\* A settled tranche stays settled and its pots never change again: neither a
\* later batch nor a recovery writes to it.
THEOREM SettledIsFinal == PoolSpec => SettledForever
<1>1. PoolInv /\ [PoolNext]_poolVars
        => [\A b \in finalized :
              /\ b \in finalized'
              /\ stxPot'[b] = stxPot[b]
              /\ recoveredPot'[b] = recoveredPot[b]]_poolVars
  <2> SUFFICES ASSUME PoolInv, PoolNext, NEW b \in finalized
               PROVE  /\ b \in finalized'
                      /\ stxPot'[b] = stxPot[b]
                      /\ recoveredPot'[b] = recoveredPot[b]
    OBVIOUS
  <2>1. b \in Tranches /\ b # pendingSwap
    BY PendingIsOpen DEF PoolInv, PoolTypeOK
  <2> QED BY <2>1, StepSettles
<1> QED BY <1>1, PoolInvariant, PTL DEF PoolSpec, SettledForever

\* The two modules mean the same by a tranche, and None is no tranche there.
LEMMA SameTranches == Lifecycle!AllTranches = Tranches
  BY DEF Lifecycle!AllTranches, Tranches

\* A step of the pool is a step of the abstract life of a tranche, or none.
LEMMA StepRefines ==
    ASSUME PoolInv, PoolInv', PoolNext
    PROVE  [Lifecycle!LifecycleNext]_(Lifecycle!lifecycleVars)
<1> USE DEF Lifecycle!lifecycleVars
<1>1. CASE UNCHANGED <<pendingSwap, trancheCount, finalized, stxPot,
                       recoveredPot>>
  BY <1>1 DEF TrancheOutcome
<1>2. ASSUME NEW c \in Cycles,
             pendingSwap = None,
             trancheCount[c] <= MaxTranche,
             pendingSwap' = [cycle |-> c, tranche |-> trancheCount[c]],
             trancheCount' = [trancheCount EXCEPT ![c] = @ + 1],
             UNCHANGED <<finalized, stxPot, recoveredPot>>
      PROVE  Lifecycle!LifecycleNext
  <2>1. Lifecycle!Open(c)
    BY <1>2 DEF Lifecycle!Open, TrancheOutcome
  <2> QED BY <2>1 DEF Lifecycle!LifecycleNext
<1>3. ASSUME pendingSwap # None,
             pendingSwap' = None,
             UNCHANGED trancheCount,
             finalized' = finalized \cup {pendingSwap},
             \A b \in Tranches \ {pendingSwap} :
                stxPot'[b] = stxPot[b] /\ recoveredPot'[b] = recoveredPot[b]
      PROVE  Lifecycle!LifecycleNext
  <2>1. pendingSwap \in Tranches /\ pendingSwap \notin finalized
    BY <1>3, PendingIsOpen DEF PoolInv, PoolTypeOK
  <2> DEFINE o == [stx |-> stxPot'[pendingSwap],
                   sbtc |-> recoveredPot'[pendingSwap]]
  <2>2. TrancheOutcome[pendingSwap] = None /\ TrancheOutcome'[pendingSwap] = o
    BY <1>3, <2>1 DEF TrancheOutcome
  <2>3. TrancheOutcome' = [TrancheOutcome EXCEPT ![pendingSwap] = o]
    BY <1>3, <2>1 DEF TrancheOutcome
  <2>4. o \in Lifecycle!Outcomes
    BY <2>1 DEF PoolInv, PoolTypeOK, Lifecycle!Outcomes
  <2>5. Lifecycle!Settle(o)
    BY <1>3, <2>2, <2>3 DEF Lifecycle!Settle
  <2> QED BY <1>3, <2>2, <2>4, <2>5 DEF Lifecycle!LifecycleNext
<1> QED BY <1>1, <1>2, <1>3, StepSettles

\* The pool implements the life of a tranche: whatever the vaults, the market
\* and the rotation do, tranches open in order, one at a time, and each is
\* settled once, with one outcome.
THEOREM PoolImplementsLifecycle == PoolSpec => ImplementsLifecycle
<1>1. PoolInit => Lifecycle!LifecycleInit
  BY SameTranches
     DEF PoolInit, Lifecycle!LifecycleInit, TrancheOutcome
<1>2. PoolInv /\ PoolInv' /\ [PoolNext]_poolVars
        => [Lifecycle!LifecycleNext]_(Lifecycle!lifecycleVars)
  <2>1. CASE PoolNext
    BY <2>1, StepRefines
  <2>2. CASE UNCHANGED poolVars
    BY <2>2 DEF poolVars, ledger, TrancheOutcome, Lifecycle!lifecycleVars
  <2> QED BY <2>1, <2>2
<1> QED
  BY <1>1, <1>2, PoolInvariant, PTL
     DEF PoolSpec, ImplementsLifecycle, Lifecycle!LifecycleSpec
=============================================================================
