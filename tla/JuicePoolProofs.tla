--------------------------- MODULE JuicePoolProofs ---------------------------
(***************************************************************************)
(* Proofs about the whole contract, for any values of its constants: it    *)
(* implements each of the specifications it is put together from, so that  *)
(* whatever is proved of a component alone holds in the composition, too.  *)
(* The components are not independent (payouts are settled with pots of    *)
(* vaults, at fees and covers that others change); each refinement says    *)
(* that one component's step is, for the other, a step it allows.          *)
(*                                                                         *)
(* Parts (OG seats, admin and fee) and PayP are the proofs of the          *)
(* components under the mapping by which JuicePool uses the components     *)
(* themselves (OG, Gov, Pay).                                              *)
(***************************************************************************)
EXTENDS JuicePool, RewardPoolProofs

Parts == INSTANCE SeatsAndOfficesProofs WITH
    FirstHeight <- MaxCooldown,
    NoOffer <- None

PayP == INSTANCE TranchePayoutsProofs WITH
    opened <- trancheCount,
    inFlight <- pendingSwap,
    outcome <- TrancheOutcome,
    cover <- [s \in Stakers |-> OG!Cover(s)],
    ShareChoices <- Nat,
    CoverChoices <- Nat,
    PotChoices <- [stx : Nat, sbtc : Nat \cup {None}]

-----------------------------------------------------------------------------
(* The assumptions of the components.                                      *)

LEMMA OgOK == Parts!OgAssumption
<1>1. Parts!IsFiniteSet(Stakers)
  BY JuiceAssumption DEF IsFiniteSet, Parts!IsFiniteSet
<1> QED
  BY <1>1, JuiceAssumption, VaultAssumption DEF Parts!OgAssumption

LEMMA GovernanceOK == Parts!GovernanceAssumption
  BY JuiceAssumption, VaultAssumption DEF Parts!GovernanceAssumption

LEMMA PayoutOK == PayP!PayoutAssumption
<1>1. None \notin Nat \cup PayP!AllTranches \cup PayP!Outcomes
  BY JuiceAssumption, VaultAssumption, PoolAssumption
     DEF PayP!AllTranches, PayP!Outcomes
<1>2. PayP!IsFiniteSet(Stakers) /\ PayP!IsFiniteSet(Cycles)
  BY JuiceAssumption, PoolAssumption DEF IsFiniteSet, PayP!IsFiniteSet
<1> QED
  BY <1>1, <1>2, JuiceAssumption, PoolAssumption
     DEF PayP!PayoutAssumption, PayP!Outcomes

-----------------------------------------------------------------------------
(* Reward batches: RewardPool.                                             *)

\* Seats, cycles, offices and payouts leave the pool's batches alone.
LEMMA JuiceStepIsPoolStep ==
    ASSUME JuiceNext PROVE [PoolNext]_poolVars
  BY DEF JuiceNext, PoolStep, ClaimStep, CollectStep, SeatStep, PhaseStep,
         OfficeStep, PayoutStep, PoolNext

\* The whole contract does with reward batches what RewardPool says.
THEOREM JuiceImplementsPool == JuiceSpec => PoolSpec
<1>1. JuiceInit => PoolInit
  BY DEF JuiceInit
<1>2. [JuiceNext]_juiceVars => [PoolNext]_poolVars
  BY JuiceStepIsPoolStep DEF juiceVars
<1> QED BY <1>1, <1>2, PTL DEF JuiceSpec, PoolSpec

\* So its invariant holds.
THEOREM JuicePoolInv == JuiceSpec => []PoolInv
  BY JuiceImplementsPool, PoolInvariant, PTL

-----------------------------------------------------------------------------
(* Seats: OgSeats.                                                         *)

\* Whatever is not a step of a staker, of pox-5's clock or of the seats leaves
\* them alone.
LEMMA JuiceStepIsOgStep ==
    ASSUME JuiceNext PROVE [OG!OgNext]_(OG!ogVars)
  BY DEF JuiceNext, PoolStep, ClaimStep, CollectStep, SeatStep, PhaseStep,
         OfficeStep, PayoutStep, ClaimRewards, CollectTranche, seatVars,
         OG!OgNext, OG!ogVars, OG!chain, OG!seats

\* OG and Parts say the same.
LEMMA SameSeatCall ==
    ASSUME OG!SeatCall PROVE Parts!SeatCall
  BY DEF OG!SeatCall, OG!StakerMove, OG!Stake, OG!StakeUpdate, OG!Unstake,
         OG!EvictOg, OG!RaiseOgCap, OG!SetPaused, OG!ValidateStake,
         OG!ShrinkSeat, OG!GrowSeat, OG!Cover, OG!Locked, OG!Staying,
         OG!chain, OG!seats, OG!Signers,
         Parts!SeatCall, Parts!StakerMove, Parts!Stake, Parts!StakeUpdate,
         Parts!Unstake, Parts!EvictOg, Parts!RaiseOgCap, Parts!SetPaused,
         Parts!ValidateStake, Parts!ShrinkSeat, Parts!GrowSeat, Parts!Cover,
         Parts!Locked, Parts!Staying, Parts!chain, Parts!seats, Parts!Signers

LEMMA SameOgStep ==
    ASSUME OG!OgNext PROVE Parts!OgNext
  BY SameSeatCall DEF OG!OgNext, OG!NextPhase, OG!seats, Parts!OgNext,
                      Parts!NextPhase, Parts!seats

\* The whole contract does with seats what OgSeats says.
THEOREM JuiceImplementsSeats == JuiceSpec => Parts!OgSpec
<1>1. JuiceInit => Parts!OgInit
  BY DEF JuiceInit, OG!OgInit, Parts!OgInit
<1>2. [JuiceNext]_juiceVars => [Parts!OgNext]_(Parts!ogVars)
  <2>1. CASE JuiceNext
    <3>1. OG!OgNext => Parts!OgNext
      BY SameOgStep
    <3>2. UNCHANGED OG!ogVars => UNCHANGED Parts!ogVars
      BY DEF OG!ogVars, OG!chain, OG!seats, Parts!ogVars, Parts!chain, Parts!seats
    <3> QED BY <2>1, <3>1, <3>2, JuiceStepIsOgStep
  <2>2. CASE UNCHANGED juiceVars
    BY <2>2 DEF juiceVars, seatVars, Parts!ogVars, Parts!chain, Parts!seats
  <2> QED BY <2>1, <2>2
<1> QED BY <1>1, <1>2, PTL DEF JuiceSpec, Parts!OgSpec

\* So their types and the facts about covers hold.
THEOREM JuiceSeatInv == JuiceSpec => []Parts!OgInv
  BY JuiceImplementsSeats, OgOK, GovernanceOK, Parts!OgInvariant, PTL

-----------------------------------------------------------------------------
(* Admin and fee: PoolGovernance.                                          *)

\* Gov and Parts say the same.
LEMMA SameGovernanceCall ==
    ASSUME NEW caller \in Principals, Gov!GovernanceCall(caller)
    PROVE  Parts!GovernanceCall(caller) /\ UNCHANGED height
  BY DEF Gov!GovernanceCall, Gov!ProposeAdmin, Gov!AcceptAdmin,
         Gov!CancelAdminProposal, Gov!ProposeFeeBips, Gov!ConfirmFeeBips,
         Gov!CancelFeeBips, Gov!IsAdmin, Gov!adminVars, Gov!feeVars,
         Parts!GovernanceCall, Parts!ProposeAdmin, Parts!AcceptAdmin,
         Parts!CancelAdminProposal, Parts!ProposeFeeBips, Parts!ConfirmFeeBips,
         Parts!CancelFeeBips, Parts!IsAdmin, Parts!adminVars, Parts!feeVars

\* The clock of the vaults is that of the notices, and no call but those of the
\* two changes touches either.
LEMMA JuiceStepIsGovernanceStep ==
    ASSUME JuiceNext PROVE [Parts!GovernanceNext]_(Parts!governanceVars)
<1> USE DEF Parts!governanceVars, Parts!adminVars, Parts!feeVars, offices
<1>1. CASE PoolTick /\ UNCHANGED offices
  <2>1. Parts!NewBlock
    BY <1>1 DEF PoolTick, Tick, Parts!NewBlock
  <2> QED BY <2>1 DEF Parts!GovernanceNext
<1>2. CASE UNCHANGED height /\ UNCHANGED offices
  BY <1>2
<1>3. CASE PoolStep \/ ClaimStep \/ CollectStep
  <2>1. UNCHANGED offices
    BY <1>3 DEF PoolStep, ClaimStep, CollectStep, ClaimRewards, CollectTranche
  <2>2. PoolNext
    BY <1>3 DEF PoolStep, ClaimStep, CollectStep, PoolNext
  <2> QED BY <1>1, <1>2, <2>1, <2>2, OnlyClockMovesHeight
<1>4. CASE SeatStep \/ PhaseStep \/ PayoutStep
  BY <1>2, <1>4 DEF SeatStep, PhaseStep, PayoutStep, poolVars, vaultVars
<1>5. CASE OfficeStep
  BY <1>5, SameGovernanceCall DEF OfficeStep, Parts!GovernanceNext
<1> QED BY <1>3, <1>4, <1>5 DEF JuiceNext

\* The whole contract does with its admin and its fee what PoolGovernance says.
THEOREM JuiceImplementsGovernance == JuiceSpec => Parts!GovernanceSpec
<1>1. JuiceInit => Parts!GovernanceInit
  BY DEF JuiceInit, PoolInit, VaultInit, Parts!GovernanceInit
<1>2. [JuiceNext]_juiceVars => [Parts!GovernanceNext]_(Parts!governanceVars)
  <2>1. UNCHANGED juiceVars => UNCHANGED Parts!governanceVars
    BY DEF juiceVars, poolVars, vaultVars, offices, Parts!governanceVars,
           Parts!adminVars, Parts!feeVars
  <2> QED BY <2>1, JuiceStepIsGovernanceStep
<1> QED BY <1>1, <1>2, PTL DEF JuiceSpec, Parts!GovernanceSpec

\* So no fee is ever above the maximum.
THEOREM JuiceOffices == JuiceSpec => []Parts!GovernanceTypeOK
  BY JuiceImplementsGovernance, OgOK, GovernanceOK, Parts!GovernanceTypeCorrect, PTL

-----------------------------------------------------------------------------
(* Payouts: TranchePayouts.                                                *)

\* A cycle that has not begun has neither shares nor tranches, so that its
\* shares can still be frozen.
FutureIsEmpty ==
    \A c \in Cycles : c > cycle =>
        trancheCount[c] = 0 /\ \A s \in Stakers : shares[c][s] = 0

\* Whoever has shares in the current cycle is locked for no less than those,
\* whatever they did since: a stake grows, and an early unstake ends it with the
\* cycle only.
SharesWithinStake ==
    \A s \in Stakers :
        cycle \in Cycles /\ shares[cycle][s] > 0
            => OG!Locked(s) /\ shares[cycle][s] <= info[s].amount

\* What the components' refinements rest on.
JuiceInv ==
    /\ PoolInv
    /\ Parts!OgInv
    /\ Parts!GovernanceTypeOK
    /\ PayP!PayoutInv
    /\ FutureIsEmpty
    /\ SharesWithinStake

\* Pay and PayP say the same.
LEMMA SameTotal ==
    ASSUME NEW c PROVE Pay!TotalShares(c) = PayP!TotalShares(c)
  BY DEF Pay!TotalShares, PayP!TotalShares,
         Pay!SumFunction, Pay!SumFunctionOnSet, Pay!FoldFunctionOnSet,
         Pay!MapThenFoldSet, PayP!SumFunction, PayP!SumFunctionOnSet,
         PayP!FoldFunctionOnSet, PayP!MapThenFoldSet

LEMMA SamePay ==
    ASSUME NEW a, NEW S, NEW b, Pay!Pay(a, S, b) PROVE PayP!Pay(a, S, b)
  BY DEF Pay!Pay, Pay!Net, Pay!Owed, Pay!Fee, Pay!Pot, Pay!TotalShares,
         Pay!lifecycleVars, Pay!terms,
         PayP!Pay, PayP!Net, PayP!Owed, PayP!Fee, PayP!Pot, PayP!TotalShares,
         PayP!lifecycleVars, PayP!terms,
         Pay!SumFunction, Pay!SumFunctionOnSet, Pay!FoldFunctionOnSet,
         Pay!MapThenFoldSet, PayP!SumFunction, PayP!SumFunctionOnSet,
         PayP!FoldFunctionOnSet, PayP!MapThenFoldSet

LEMMA SameSweep ==
    ASSUME NEW a, NEW b, Pay!Sweep(a, b) PROVE PayP!Sweep(a, b)
  BY SameTotal
     DEF Pay!Sweep, Pay!FullyPaid, Pay!Residue, Pay!Pot, Pay!lifecycleVars,
         Pay!terms, PayP!Sweep, PayP!FullyPaid, PayP!Residue, PayP!Pot,
         PayP!lifecycleVars, PayP!terms

LEMMA SamePayoutCall ==
    ASSUME Pay!PayoutCall PROVE PayP!PayoutCall
  BY SamePay, SameSweep
     DEF Pay!PayoutCall, Pay!PayStxStakers, Pay!PayRecoveredSbtcStakers,
         Pay!SweepTrancheDust, Pay!SweepRecoveredSbtcDust, Pay!WithdrawFees,
         Pay!IsFinalized, Pay!IsRecovered, Pay!AllTranches, Pay!Assets,
         Pay!lifecycleVars, Pay!terms, Pay!books,
         PayP!PayoutCall, PayP!PayStxStakers, PayP!PayRecoveredSbtcStakers,
         PayP!SweepTrancheDust, PayP!SweepRecoveredSbtcDust,
         PayP!WithdrawFees, PayP!IsFinalized, PayP!IsRecovered,
         PayP!AllTranches, PayP!Assets, PayP!lifecycleVars, PayP!terms,
         PayP!books

-----------------------------------------------------------------------------
(* Each step of the contract is, for payouts, one of theirs or none.       *)

LEMMA AllTranchesAgree == PayP!AllTranches = Tranches /\ Pay!AllTranches = Tranches
  BY DEF PayP!AllTranches, Pay!AllTranches, Tranches

\* What payouts have no part in.
LEMMA PayoutStutter ==
    ASSUME UNCHANGED <<pendingSwap, trancheCount, finalized, stxPot,
                       recoveredPot>>,
           UNCHANGED <<ogStakers, feeBips, accounts>>
    PROVE  UNCHANGED PayP!payoutVars
  BY DEF PayP!payoutVars, PayP!lifecycleVars, PayP!terms, PayP!books,
         accounts, TrancheOutcome, OG!Cover

\* Blocks, vaults and their rotation.
LEMMA PoolStepPays ==
    ASSUME PoolStep PROVE UNCHANGED PayP!payoutVars
<1>1. UNCHANGED ledger
  BY DEF PoolStep, PoolTick, VaultStep, Rotation, ProposeSwapVault,
         CancelSwapVaultProposal, ConfirmSwapVault
<1> QED
  BY <1>1, PayoutStutter DEF PoolStep, ledger, seatVars, offices

\* A claim opens a tranche, of a cycle in which the pool has shares.
LEMMA ClaimStepPays ==
    ASSUME PoolInv, ClaimStep
    PROVE  \E c \in Cycles : PayP!OpenTranche(c)
<1>1. PICK c \in Cycles :
         /\ trancheCount[c] <= MaxTranche
         /\ pendingSwap = None
         /\ pendingSwap' = [cycle |-> c, tranche |-> trancheCount[c]]
         /\ trancheCount' = [trancheCount EXCEPT ![c] = @ + 1]
         /\ UNCHANGED <<finalized, stxPot, recoveredPot>>
  BY DEF ClaimStep, Claim, PoxClaimRewards
<1>2. PayP!TotalShares(c) > 0 /\ UNCHANGED <<seatVars, offices, accounts>>
  BY <1>1, SameTotal DEF ClaimStep, ClaimRewards
<1>3. UNCHANGED TrancheOutcome
  BY <1>1 DEF TrancheOutcome
<1>4. UNCHANGED <<PayP!terms, PayP!books, earned, balance>>
  BY <1>2 DEF PayP!terms, PayP!books, seatVars, offices, accounts, OG!Cover
<1> QED
  BY <1>1, <1>2, <1>3, <1>4 DEF PayP!OpenTranche, PayP!Open

\* What the pool collects settles the tranche in flight: its pots are what came
\* into the wallet.
LEMMA CollectStepPays ==
    ASSUME JuiceInv, PoolInv', CollectStep
    PROVE  \E o \in [stx : Nat, sbtc : Nat \cup {None}] : PayP!SettleTranche(o)
<1> DEFINE o == [stx |-> stxPot'[pendingSwap], sbtc |-> recoveredPot'[pendingSwap]]
<1>1. /\ pendingSwap # None
      /\ pendingSwap \in Tranches /\ pendingSwap \notin finalized
      /\ recoveredPot[pendingSwap] = None
      /\ swapVault \in Vaults /\ poolStx \in Nat /\ poolSbtc \in Nat
      /\ stxPot \in [Tranches -> Nat]
      /\ recoveredPot \in [Tranches -> Nat \cup {None}]
      /\ VaultTypeOK
  BY PendingIsOpen
     DEF JuiceInv, PoolInv, PoolTypeOK, NoPotBeforeSettled, CollectStep,
         FinalizeSwap, RecoverSwap
<1>2. /\ FinishAmount(swapVault) \in Nat
      /\ stx[swapVault] \in Nat
      /\ sbtc[swapVault] + MarketTotal(swapVault) \in Nat
  BY <1>1, AmountsNat
<1>3. None \notin Nat
  BY VaultAssumption
<1>4. /\ pendingSwap' = None
      /\ UNCHANGED trancheCount
      /\ finalized' = finalized \cup {pendingSwap}
      /\ \A b \in Tranches \ {pendingSwap} :
            stxPot'[b] = stxPot[b] /\ recoveredPot'[b] = recoveredPot[b]
  BY <1>1 DEF CollectStep, FinalizeSwap, RecoverSwap
<1>5. /\ o \in [stx : Nat, sbtc : Nat \cup {None}]
      /\ poolStx' - poolStx = o.stx
      /\ poolSbtc' - poolSbtc = IF o.sbtc = None THEN 0 ELSE o.sbtc
  <2>1. CASE FinalizeSwap
    <3>1. /\ poolStx' = poolStx + FinishAmount(swapVault)
          /\ UNCHANGED poolSbtc
          /\ o.stx = FinishAmount(swapVault) /\ o.sbtc = None
      BY <1>1, <2>1 DEF FinalizeSwap
    <3> QED BY <1>1, <1>2, <3>1
  <2>2. CASE RecoverSwap
    <3>1. /\ poolStx' = poolStx + stx[swapVault]
          /\ poolSbtc' = poolSbtc + (sbtc[swapVault] + MarketTotal(swapVault))
          /\ o.stx = stx[swapVault]
          /\ o.sbtc = sbtc[swapVault] + MarketTotal(swapVault)
      BY <1>1, <2>2 DEF RecoverSwap
    <3> QED BY <1>1, <1>2, <1>3, <3>1
  <2> QED BY <2>1, <2>2 DEF CollectStep
<1>6. /\ TrancheOutcome[pendingSwap] = None
      /\ TrancheOutcome' = [TrancheOutcome EXCEPT ![pendingSwap] = o]
  BY <1>1, <1>4 DEF TrancheOutcome
<1>7. balance' = [a \in PayP!Assets |->
                    balance[a] + (IF o[a] = None THEN 0 ELSE o[a])]
  <2>1. balance \in [PayP!Assets -> Int]
    BY DEF JuiceInv, PayP!PayoutInv, PayP!PayoutTypes
  <2>2. balance' = [balance EXCEPT !["stx"] = @ + o.stx,
                                   !["sbtc"] = @ + (IF o.sbtc = None THEN 0
                                                    ELSE o.sbtc)]
    BY <1>5 DEF CollectStep, CollectTranche
  <2>3. o.stx # None
    BY <1>3, <1>5
  <2> HIDE DEF o
  <2> QED BY <2>1, <2>2, <2>3 DEF PayP!Assets
<1>8. UNCHANGED <<PayP!terms, PayP!books, earned>>
  BY DEF CollectStep, CollectTranche, PayP!terms, PayP!books, seatVars, offices,
         OG!Cover
<1>9. PayP!SettleTranche(o)
  BY <1>1, <1>4, <1>6, <1>7, <1>8 DEF PayP!SettleTranche, PayP!Settle
<1> QED BY <1>5, <1>9

\* A call about seats touches the cover of one staker at most.
LEMMA SeatCallCovers ==
    ASSUME Parts!OgInv, Parts!OgInv', OG!SeatCall
    PROVE  \/ UNCHANGED ogStakers
           \/ \E s \in Stakers :
                \A t \in Stakers \ {s} : ogStakers'[t] = ogStakers[t]
<1> USE OgOK, GovernanceOK DEF Parts!OgInv
<1>1. Parts!SeatCall
  BY SameSeatCall
<1>2. ASSUME NEW s \in Stakers, NEW signer \in Parts!Signers, NEW amount \in Nat,
             Parts!ValidateStake(s, signer, amount)
      PROVE  \A t \in Stakers \ {s} : ogStakers'[t] = ogStakers[t]
  BY <1>2, Parts!ValidateEffect
<1>3. ASSUME NEW s \in Stakers, Parts!StakerMove(s)
      PROVE  \A t \in Stakers \ {s} : ogStakers'[t] = ogStakers[t]
  <2>1. ASSUME NEW signer \in Parts!Signers, NEW amount \in 0..Wealth, NEW cycles,
               Parts!Stake(s, signer, amount, cycles)
        PROVE  \A t \in Stakers \ {s} : ogStakers'[t] = ogStakers[t]
    <3>1. amount \in Nat
      BY JuiceAssumption
    <3> QED BY <1>2, <2>1, <3>1 DEF Parts!Stake
  <2>2. ASSUME NEW signer \in Parts!Signers, NEW extend,
               NEW increase \in 0..Wealth,
               Parts!StakeUpdate(s, signer, extend, increase)
        PROVE  \A t \in Stakers \ {s} : ogStakers'[t] = ogStakers[t]
    <3>1. info[s].amount + increase \in Nat
      BY <2>2, JuiceAssumption DEF Parts!StakeUpdate, Parts!Locked, Parts!OgTypes
    <3> QED BY <1>2, <2>2, <3>1 DEF Parts!StakeUpdate
  <2>3. ASSUME Parts!Unstake(s)
        PROVE  \A t \in Stakers \ {s} : ogStakers'[t] = ogStakers[t]
    BY <2>3 DEF Parts!Unstake, Parts!seats
  <2> QED BY <1>3, <2>1, <2>2, <2>3 DEF Parts!StakerMove
<1>4. ASSUME NEW s \in Stakers, Parts!EvictOg(s)
      PROVE  \A t \in Stakers \ {s} : ogStakers'[t] = ogStakers[t]
  BY <1>4 DEF Parts!EvictOg, Parts!OgTypes
<1>5. ASSUME NEW newCap, Parts!RaiseOgCap(newCap) PROVE UNCHANGED ogStakers
  BY <1>5 DEF Parts!RaiseOgCap, Parts!seats
<1>6. ASSUME NEW p, Parts!SetPaused(p) PROVE UNCHANGED ogStakers
  BY <1>6 DEF Parts!SetPaused, Parts!seats
<1> QED BY <1>1, <1>3, <1>4, <1>5, <1>6 DEF Parts!SeatCall

\* A call about seats gives one staker a new cover.
LEMMA SeatStepPays ==
    ASSUME Parts!OgInv, Parts!OgInv', SeatStep
    PROVE  [\E s \in Stakers, ustx \in Nat : PayP!ChangeCover(s, ustx)
           ]_(PayP!payoutVars)
<1>1. UNCHANGED <<poolVars, offices, accounts>>
  BY DEF SeatStep
<1>2. UNCHANGED <<PayP!lifecycleVars, shares, feeBips, PayP!books, earned, balance>>
  BY <1>1 DEF PayP!lifecycleVars, PayP!books, poolVars, ledger, offices, accounts,
              TrancheOutcome
<1>3. CASE UNCHANGED ogStakers
  BY <1>1, <1>3, PayoutStutter DEF poolVars, ledger, offices
<1>4. ASSUME NEW s \in Stakers,
             \A t \in Stakers \ {s} : ogStakers'[t] = ogStakers[t]
      PROVE  \E ustx \in Nat : PayP!ChangeCover(s, ustx)
  <2> DEFINE covers == [t \in Stakers |-> OG!Cover(t)]
  <2>1. OG!Cover(s)' \in Nat
    BY DEF OG!Cover, Parts!OgInv, Parts!OgTypes
  <2>2. covers' = [covers EXCEPT ![s] = OG!Cover(s)']
    BY <1>4 DEF OG!Cover
  <2>3. PayP!ChangeCover(s, OG!Cover(s)')
    BY <1>2, <2>2 DEF PayP!ChangeCover
  <2> QED BY <2>1, <2>3
<1> QED BY <1>3, <1>4, SeatCallCovers DEF SeatStep

\* A new cycle freezes its shares, for the first time.
LEMMA PhaseStepPays ==
    ASSUME JuiceInv, Parts!OgInv', PhaseStep
    PROVE  [\E c \in Cycles, row \in [Stakers -> Nat] : PayP!FreezeShares(c, row)
           ]_(PayP!payoutVars)
<1>1. /\ UNCHANGED <<poolVars, offices, receipt, paid, paidShares, earned,
                     balance, dust>>
      /\ UNCHANGED ogStakers
  BY DEF PhaseStep, OG!NextPhase, OG!seats
<1>2. CASE UNCHANGED shares
  BY <1>1, <1>2, PayoutStutter DEF poolVars, ledger, offices, accounts
<1>3. CASE /\ cycle' \in Cycles
           /\ cycle' # cycle
           /\ shares' = [shares EXCEPT ![cycle'] = [s \in Stakers |-> SharesOf(s)']]
  <2>1. trancheCount[cycle'] = 0
    <3>1. cycle \in Nat /\ cycle' > cycle
      BY <1>3 DEF JuiceInv, Parts!OgInv, Parts!OgTypes, PhaseStep, OG!NextPhase
    <3> QED BY <1>3, <3>1 DEF JuiceInv, FutureIsEmpty
  <2>2. [s \in Stakers |-> SharesOf(s)'] \in [Stakers -> Nat]
    <3>1. ASSUME NEW s \in Stakers PROVE SharesOf(s)' \in Nat
      BY DEF SharesOf, OG!Staying, OG!Locked, Parts!OgInv, Parts!OgTypes
    <3> QED BY <3>1
  <2>3. UNCHANGED <<PayP!lifecycleVars, feeBips, [s \in Stakers |-> OG!Cover(s)],
                    PayP!books, earned, balance>>
    BY <1>1 DEF PayP!lifecycleVars, PayP!books, poolVars, ledger, offices,
                TrancheOutcome, OG!Cover
  <2>4. PayP!FreezeShares(cycle', [s \in Stakers |-> SharesOf(s)'])
    BY <1>3, <2>1, <2>3 DEF PayP!FreezeShares
  <2> QED BY <1>3, <2>2, <2>4
<1> QED BY <1>2, <1>3 DEF PhaseStep, BeginCycle

\* Of the calls about offices, one changes the fee, within its maximum.
LEMMA OfficeStepPays ==
    ASSUME Parts!GovernanceTypeOK', OfficeStep
    PROVE  \E fee \in 0..MaxBips : PayP!ConfirmFeeBips(fee)
<1>1. UNCHANGED <<poolVars, seatVars, accounts>>
  BY DEF OfficeStep
<1>2. UNCHANGED <<PayP!lifecycleVars, shares, [s \in Stakers |-> OG!Cover(s)],
                  PayP!books, earned, balance>>
  BY <1>1 DEF PayP!lifecycleVars, PayP!books, poolVars, ledger, seatVars, accounts,
              TrancheOutcome, OG!Cover
<1>3. feeBips' \in 0..MaxBips /\ feeBips' <= MaxFeeBips
  BY JuiceAssumption DEF Parts!GovernanceTypeOK
<1> QED BY <1>2, <1>3 DEF PayP!ConfirmFeeBips

\* Every step of the contract is one of payouts, or none.
LEMMA JuiceStepIsPayoutStep ==
    ASSUME JuiceInv, PoolInv', Parts!OgInv', Parts!GovernanceTypeOK', JuiceNext
    PROVE  [PayP!PayoutNext]_(PayP!payoutVars)
<1>1. JuiceInv => PoolInv /\ Parts!OgInv
  BY DEF JuiceInv
<1>2. CASE PoolStep
  BY <1>2, PoolStepPays
<1>3. CASE ClaimStep
  BY <1>1, <1>3, ClaimStepPays DEF PayP!PayoutNext
<1>4. CASE CollectStep
  BY <1>4, CollectStepPays DEF PayP!PayoutNext
<1>5. CASE SeatStep
  BY <1>1, <1>5, SeatStepPays DEF PayP!PayoutNext, PayP!NewTerms
<1>6. CASE PhaseStep
  BY <1>6, PhaseStepPays DEF PayP!PayoutNext
<1>7. CASE OfficeStep
  BY <1>7, OfficeStepPays DEF PayP!PayoutNext, PayP!NewTerms
<1>8. CASE PayoutStep
  BY <1>8, SamePayoutCall DEF PayoutStep, PayP!PayoutNext
<1> QED BY <1>2, <1>3, <1>4, <1>5, <1>6, <1>7, <1>8 DEF JuiceNext

-----------------------------------------------------------------------------
(* Cycles and their shares.                                                *)

\* A cycle in which nobody has shares is not claimed for.
LEMMA NoSharesNoClaim ==
    ASSUME PayP!PayoutInv, NEW c \in Cycles,
           \A s \in Stakers : shares[c][s] = 0
    PROVE  Pay!TotalShares(c) = 0
<1>1. PayP!TotalShares(c) = PayP!SumFunctionOnSet(shares[c], Stakers)
  BY PayoutOK, PayP!SharesTotal DEF PayP!PayoutInv
<1>2. PayP!IsFiniteSet(Stakers)
  BY PayoutOK DEF PayP!PayoutAssumption
<1>3. PayP!SumFunctionOnSet(shares[c], Stakers) = 0
  BY <1>2, PayoutOK, PayP!SumZero
<1> QED BY <1>1, <1>3, SameTotal

\* Cycles that have not begun stay empty.
LEMMA StepFuture ==
    ASSUME JuiceInv, [JuiceNext]_juiceVars PROVE FutureIsEmpty'
<1>1. CASE UNCHANGED <<cycle, trancheCount, shares>>
  BY <1>1 DEF JuiceInv, FutureIsEmpty
<1>2. CASE UNCHANGED juiceVars
  BY <1>1, <1>2 DEF juiceVars, poolVars, ledger, seatVars, accounts
<1>3. CASE PoolStep
  <2>1. UNCHANGED trancheCount
    BY <1>3 DEF PoolStep, PoolTick, VaultStep, Rotation, ProposeSwapVault,
                CancelSwapVaultProposal, ConfirmSwapVault, ledger
  <2> QED BY <1>1, <1>3, <2>1 DEF PoolStep, seatVars, accounts
<1>4. CASE ClaimStep
  <2>1. PICK c \in Cycles : /\ pendingSwap' = [cycle |-> c,
                                              tranche |-> trancheCount[c]]
                            /\ trancheCount' = [trancheCount EXCEPT ![c] = @ + 1]
    BY <1>4 DEF ClaimStep, Claim, PoxClaimRewards
  <2>2. Pay!TotalShares(c) > 0 /\ UNCHANGED <<cycle, shares>>
    BY <1>4, <2>1 DEF ClaimStep, ClaimRewards, seatVars, accounts
  <2>3. ~(c > cycle)
    <3>1. SUFFICES ASSUME c > cycle PROVE FALSE
      OBVIOUS
    <3>2. Pay!TotalShares(c) = 0
      BY <3>1, NoSharesNoClaim DEF JuiceInv, FutureIsEmpty
    <3> QED BY <2>2, <3>2
  <2> QED BY <2>1, <2>2, <2>3 DEF JuiceInv, FutureIsEmpty
<1>5. CASE CollectStep
  BY <1>1, <1>5 DEF CollectStep, FinalizeSwap, RecoverSwap, CollectTranche, seatVars
<1>6. CASE SeatStep
  <2>1. UNCHANGED cycle
    BY <1>6 DEF SeatStep, OG!SeatCall, OG!StakerMove, OG!Stake, OG!StakeUpdate,
                OG!Unstake, OG!EvictOg, OG!RaiseOgCap, OG!SetPaused, OG!chain
  <2> QED BY <1>1, <1>6, <2>1 DEF SeatStep, poolVars, ledger, accounts
<1>7. CASE PhaseStep
  <2>1. /\ cycle \in Nat /\ cycle' \in {cycle, cycle + 1}
        /\ UNCHANGED trancheCount
    BY <1>7 DEF JuiceInv, Parts!OgInv, Parts!OgTypes, PhaseStep, OG!NextPhase, poolVars,
                ledger
  <2>2. \A c \in Cycles : c > cycle' => c > cycle /\ shares'[c] = shares[c]
    <3>1. Cycles \subseteq Nat
      BY JuiceAssumption
    <3>2. shares \in [Cycles -> [Stakers -> Nat]]
      BY DEF JuiceInv, PayP!PayoutInv, PayP!PayoutTypes
    <3> QED BY <1>7, <2>1, <3>1, <3>2 DEF PhaseStep, BeginCycle
  <2> QED BY <2>1, <2>2 DEF JuiceInv, FutureIsEmpty
<1>8. CASE OfficeStep \/ PayoutStep
  <2>1. UNCHANGED shares
    BY <1>8
       DEF OfficeStep, PayoutStep, accounts, Pay!PayoutCall, Pay!PayStxStakers,
           Pay!PayRecoveredSbtcStakers, Pay!Pay, Pay!SweepTrancheDust,
           Pay!SweepRecoveredSbtcDust, Pay!Sweep, Pay!WithdrawFees, Pay!terms
  <2> QED BY <1>1, <1>8, <2>1 DEF OfficeStep, PayoutStep, poolVars, ledger, seatVars
<1> QED BY <1>2, <1>3, <1>4, <1>5, <1>6, <1>7, <1>8 DEF JuiceNext

\* pox-5 lets nobody out of a running cycle, nor shrink a stake in it.
LEMMA SeatStepStakes ==
    ASSUME Parts!OgInv, OG!SeatCall, NEW s \in Stakers, OG!Locked(s)
    PROVE  OG!Locked(s)' /\ info'[s].amount >= info[s].amount
<1>1. /\ info \in [Stakers -> [amount : Nat, unlock : Nat, signer : {"pool", "other"}]
                               \cup {None}]
      /\ cycle \in Nat
  BY DEF Parts!OgInv, Parts!OgTypes, Parts!Signers
<1>2. info[s] # None /\ info[s].unlock > cycle
      /\ info[s].amount \in Nat /\ info[s].unlock \in Nat
  BY <1>1 DEF OG!Locked
<1>3. None \notin [amount : Nat, unlock : Nat, signer : {"pool", "other"}]
  BY JuiceAssumption
<1>4. CASE UNCHANGED <<cycle, info>>
  BY <1>2, <1>4 DEF OG!Locked
<1>5. ASSUME NEW t \in Stakers, NEW signer, NEW amount, NEW cycles,
             OG!Stake(t, signer, amount, cycles)
      PROVE  OG!Locked(s)' /\ info'[s].amount >= info[s].amount
  <2>1. t # s /\ UNCHANGED cycle
    BY <1>5 DEF OG!Stake
  <2>2. info'[s] = info[s]
    BY <1>1, <1>5, <2>1 DEF OG!Stake
  <2> QED BY <1>2, <2>1, <2>2 DEF OG!Locked
<1>6. ASSUME NEW t \in Stakers, NEW signer \in OG!Signers, NEW extend \in Nat,
             NEW increase \in Nat, OG!StakeUpdate(t, signer, extend, increase)
      PROVE  OG!Locked(s)' /\ info'[s].amount >= info[s].amount
  <2>1. UNCHANGED cycle
    BY <1>6 DEF OG!StakeUpdate
  <2>2. CASE t # s
    <3>1. info'[s] = info[s]
      BY <1>1, <1>6, <2>2 DEF OG!StakeUpdate
    <3> QED BY <1>2, <2>1, <3>1 DEF OG!Locked
  <2>3. CASE t = s
    <3> DEFINE rec == [amount |-> info[s].amount + increase,
                       unlock |-> info[s].unlock + extend, signer |-> signer]
    <3>1. info'[s] = rec
      BY <1>1, <1>6, <2>3 DEF OG!StakeUpdate
    <3>2. rec \in [amount : Nat, unlock : Nat, signer : {"pool", "other"}]
      BY <1>2, <1>6 DEF OG!Signers
    <3>3. rec # None
      BY <1>3, <3>2
    <3>4. rec.amount >= info[s].amount /\ rec.unlock > cycle
      BY <1>1, <1>2, <1>6
    <3> HIDE DEF rec
    <3> QED BY <2>1, <3>1, <3>3, <3>4 DEF OG!Locked
  <2> QED BY <2>2, <2>3
<1>7. ASSUME NEW t \in Stakers, OG!Unstake(t)
      PROVE  OG!Locked(s)' /\ info'[s].amount >= info[s].amount
  <2>1. UNCHANGED cycle
    BY <1>7 DEF OG!Unstake
  <2>2. info' = [info EXCEPT ![t] = [@ EXCEPT !.unlock = cycle + 1]]
    BY <1>7 DEF OG!Unstake
  <2>3. CASE t # s
    BY <1>1, <1>2, <2>1, <2>2, <2>3 DEF OG!Locked
  <2>4. CASE t = s
    <3> DEFINE rec == [info[s] EXCEPT !.unlock = cycle + 1]
    <3>1. info'[s] = rec
      BY <1>1, <2>2, <2>4
    <3>2. info[s] \in [amount : Nat, unlock : Nat, signer : {"pool", "other"}]
      BY <1>1, <1>2
    <3>3. /\ rec \in [amount : Nat, unlock : Nat, signer : {"pool", "other"}]
          /\ rec.amount = info[s].amount /\ rec.unlock = cycle + 1
      BY <1>1, <3>2
    <3> HIDE DEF rec
    <3> QED BY <1>1, <1>2, <1>3, <2>1, <3>1, <3>3 DEF OG!Locked
  <2> QED BY <2>3, <2>4
<1>8. ASSUME NEW t, OG!StakerMove(t), t \in Stakers
      PROVE  OG!Locked(s)' /\ info'[s].amount >= info[s].amount
  <2>1. 0..MaxLock \subseteq Nat /\ 0..Wealth \subseteq Nat
    BY JuiceAssumption
  <2> QED BY <1>5, <1>6, <1>7, <1>8, <2>1 DEF OG!StakerMove
<1>9. ASSUME NEW t, OG!EvictOg(t) PROVE UNCHANGED <<cycle, info>>
  BY <1>9 DEF OG!EvictOg, OG!chain
<1>10. ASSUME NEW n, OG!RaiseOgCap(n) \/ OG!SetPaused(n)
       PROVE  UNCHANGED <<cycle, info>>
  BY <1>10 DEF OG!RaiseOgCap, OG!SetPaused, OG!chain
<1> QED BY <1>4, <1>8, <1>9, <1>10 DEF OG!SeatCall

\* Shares of the current cycle stay within the stake.
LEMMA StepShares ==
    ASSUME JuiceInv, Parts!OgInv', [JuiceNext]_juiceVars PROVE SharesWithinStake'
<1>1. CASE UNCHANGED <<cycle, info, shares>>
  BY <1>1 DEF JuiceInv, SharesWithinStake, OG!Locked
<1>2. CASE UNCHANGED juiceVars
  BY <1>1, <1>2 DEF juiceVars, seatVars, accounts
<1>3. CASE PoolStep \/ ClaimStep \/ CollectStep
  BY <1>1, <1>3 DEF PoolStep, ClaimStep, CollectStep, ClaimRewards, CollectTranche,
                    seatVars, accounts
<1>4. CASE OfficeStep \/ PayoutStep
  <2>1. UNCHANGED shares
    BY <1>4
       DEF OfficeStep, PayoutStep, accounts, Pay!PayoutCall, Pay!PayStxStakers,
           Pay!PayRecoveredSbtcStakers, Pay!Pay, Pay!SweepTrancheDust,
           Pay!SweepRecoveredSbtcDust, Pay!Sweep, Pay!WithdrawFees, Pay!terms
  <2> QED BY <1>1, <1>4, <2>1 DEF OfficeStep, PayoutStep, seatVars
<1>5. /\ cycle \in Nat /\ cycle' \in Nat
      /\ shares \in [Cycles -> [Stakers -> Nat]]
  BY DEF JuiceInv, Parts!OgInv, Parts!OgTypes, PayP!PayoutInv, PayP!PayoutTypes
<1>6. CASE SeatStep
  <2> SUFFICES ASSUME NEW s \in Stakers, cycle' \in Cycles, shares'[cycle'][s] > 0
               PROVE  OG!Locked(s)' /\ shares'[cycle'][s] <= info'[s].amount
    BY DEF SharesWithinStake
  <2>1. UNCHANGED <<cycle, shares>>
    BY <1>6 DEF SeatStep, accounts, OG!SeatCall, OG!StakerMove, OG!Stake,
                OG!StakeUpdate, OG!Unstake, OG!EvictOg, OG!RaiseOgCap, OG!SetPaused,
                OG!chain
  <2>2. OG!Locked(s) /\ shares[cycle][s] <= info[s].amount
    BY <2>1 DEF JuiceInv, SharesWithinStake
  <2>3. OG!Locked(s)' /\ info'[s].amount >= info[s].amount
    BY <1>6, <2>2, SeatStepStakes DEF SeatStep, JuiceInv
  <2>4. info[s].amount \in Nat /\ info'[s].amount \in Nat
    BY <2>2, <2>3 DEF JuiceInv, Parts!OgInv, Parts!OgTypes, OG!Locked
  <2> QED BY <1>5, <2>1, <2>2, <2>3, <2>4
<1>7. CASE PhaseStep
  <2> SUFFICES ASSUME NEW s \in Stakers, cycle' \in Cycles, shares'[cycle'][s] > 0
               PROVE  OG!Locked(s)' /\ shares'[cycle'][s] <= info'[s].amount
    BY DEF SharesWithinStake
  <2>1. UNCHANGED info /\ cycle' \in {cycle, cycle + 1}
    BY <1>5, <1>7 DEF PhaseStep, OG!NextPhase
  <2>2. CASE shares' = [shares EXCEPT ![cycle'] = [t \in Stakers |-> SharesOf(t)']]
    <3>1. shares'[cycle'][s] = SharesOf(s)'
      BY <1>5, <2>2
    <3>2. OG!Staying(s)' /\ shares'[cycle'][s] = info'[s].amount
      BY <3>1 DEF SharesOf
    <3>3. info'[s].amount \in Nat /\ OG!Locked(s)'
      BY <3>2 DEF Parts!OgInv, Parts!OgTypes, OG!Staying, OG!Locked
    <3> QED BY <3>2, <3>3
  <2>3. CASE UNCHANGED shares
    <3>1. cycle' = cycle
      <4>1. cycle' > cycle => shares[cycle'][s] = 0
        BY DEF JuiceInv, FutureIsEmpty
      <4> QED BY <1>5, <2>1, <2>3, <4>1
    <3> QED BY <2>1, <2>3, <3>1 DEF JuiceInv, SharesWithinStake, OG!Locked
  <2> QED BY <1>7, <2>2, <2>3 DEF PhaseStep, BeginCycle
<1> QED BY <1>2, <1>3, <1>4, <1>6, <1>7 DEF JuiceNext

-----------------------------------------------------------------------------
(* All of it.                                                              *)

LEMMA InitJuiceInv ==
    ASSUME JuiceInit
    PROVE  /\ PayP!PayoutInit
           /\ PayP!PayoutInv
           /\ FutureIsEmpty
           /\ SharesWithinStake
<1>1. PayP!PayoutInit
  <2>1. trancheCount = [c \in Cycles |-> 0] /\ pendingSwap = None
        /\ TrancheOutcome = [b \in PayP!AllTranches |-> None]
    BY AllTranchesAgree DEF JuiceInit, PoolInit, TrancheOutcome
  <2>2. [s \in Stakers |-> OG!Cover(s)] = [s \in Stakers |-> 0]
    BY DEF JuiceInit, OG!OgInit, OG!Cover
  <2>3. feeBips \in 0..MaxFeeBips
    BY JuiceAssumption DEF JuiceInit
  <2> QED
    BY <2>1, <2>2, <2>3, AllTranchesAgree
       DEF JuiceInit, PayP!PayoutInit, PayP!LifecycleInit, Pay!Assets, PayP!Assets
<1>2. PayP!PayoutInv
  BY <1>1, PayoutOK, PayP!InitPayoutInv
<1>3. FutureIsEmpty /\ SharesWithinStake
  BY DEF JuiceInit, PoolInit, FutureIsEmpty, SharesWithinStake
<1> QED BY <1>1, <1>2, <1>3

\* The three parts that only this module has, and that of the payouts, which
\* rest on the others.
LEMMA StepJuiceInv ==
    ASSUME JuiceInv, PoolInv', Parts!OgInv', Parts!GovernanceTypeOK',
           [JuiceNext]_juiceVars
    PROVE  /\ [PayP!PayoutNext]_(PayP!payoutVars)
           /\ JuiceInv'
<1>1. [PayP!PayoutNext]_(PayP!payoutVars)
  <2>1. CASE UNCHANGED juiceVars
    BY <2>1, PayoutStutter DEF juiceVars, poolVars, ledger, seatVars, offices
  <2> QED BY <2>1, JuiceStepIsPayoutStep
<1>2. PayP!PayoutInv'
  BY <1>1, PayoutOK, PayP!StepPayoutInv DEF JuiceInv
<1> QED BY <1>1, <1>2, StepFuture, StepShares DEF JuiceInv

\* The invariant of the whole contract.
THEOREM JuiceInvariant == JuiceSpec => []JuiceInv
<1>1. JuiceInit => PayP!PayoutInv /\ FutureIsEmpty /\ SharesWithinStake
  BY InitJuiceInv
<1>2. /\ PoolInv /\ Parts!OgInv /\ Parts!GovernanceTypeOK
      /\ PayP!PayoutInv /\ FutureIsEmpty /\ SharesWithinStake
      <=> JuiceInv
  BY DEF JuiceInv
<1>3. JuiceInv /\ PoolInv' /\ Parts!OgInv' /\ Parts!GovernanceTypeOK'
        /\ [JuiceNext]_juiceVars
      => JuiceInv'
  BY StepJuiceInv
<1> QED
  BY <1>1, <1>2, <1>3, JuicePoolInv, JuiceSeatInv, JuiceOffices, PTL DEF JuiceSpec

\* The whole contract pays stakers as TranchePayouts says: at fees and covers
\* that change as the admin and the seats do, and from pots that vaults brought.
THEOREM JuiceImplementsPayouts == JuiceSpec => PayP!PayoutSpec
<1>1. JuiceInit => PayP!PayoutInit
  BY InitJuiceInv
<1>2. JuiceInv /\ JuiceInv' /\ [JuiceNext]_juiceVars
        => [PayP!PayoutNext]_(PayP!payoutVars)
  BY StepJuiceInv DEF JuiceInv
<1> QED
  BY <1>1, <1>2, JuiceInvariant, PTL DEF JuiceSpec, PayP!PayoutSpec

\* The pool's wallet always backs what it owes, whoever rotates vaults, sells,
\* recovers, pays, sweeps and withdraws.
THEOREM ContractBacksDebts == JuiceSpec => []WalletBacksDebts
<1>1. WalletBacksDebts <=> PayP!BalanceBacksDebts
  BY AllTranchesAgree
     DEF WalletBacksDebts, Pay!BalanceBacksDebts, Pay!Residue, Pay!Pot, Pay!Assets,
         Pay!SumFunction, Pay!SumFunctionOnSet, Pay!FoldFunctionOnSet,
         Pay!MapThenFoldSet, PayP!BalanceBacksDebts, PayP!Residue, PayP!Pot,
         PayP!Assets, PayP!SumFunction, PayP!SumFunctionOnSet,
         PayP!FoldFunctionOnSet, PayP!MapThenFoldSet
<1>2. PayP!PayoutSpec => []PayP!BalanceBacksDebts
  BY PayoutOK, PayP!WalletBacksDebts
<1> QED BY <1>1, <1>2, JuiceImplementsPayouts, PTL

\* It is never short for those not paid yet.
THEOREM NobodyTooLateInContract == JuiceSpec => []PayP!EveryoneCanBePaid
  BY JuiceImplementsPayouts, PayoutOK, PayP!NobodyComesTooLate, PTL

\* A seat lasts while its staker stays, whatever else the contract does.
THEOREM SeatLastsInContract == JuiceSpec => Parts!SeatLastsWhileStaying
  BY JuiceImplementsSeats, OgOK, GovernanceOK, Parts!SeatLasts, PTL

\* The fee changes on notice only, whatever is paid or rotated meanwhile.
THEOREM FeeNoticeInContract == JuiceSpec => Parts!FeeChangesOnNotice
  BY JuiceImplementsGovernance, OgOK, GovernanceOK, Parts!FeeOnNotice, PTL

-----------------------------------------------------------------------------
(* Covers and fees: where seats, stakes, shares and payouts meet.          *)

\* Who is staying and covered in full pays no fee on the current cycle.
LEMMA CoveredPaysNoFee ==
    ASSUME JuiceInv, NEW a \in Pay!Assets, NEW b \in Tranches, NEW s \in Stakers,
           b.cycle = cycle, OG!Staying(s), OG!Cover(s) >= info[s].amount
    PROVE  Pay!Fee(a, b, s) = 0
<1>1. /\ OG!Cover(s) \in Nat
      /\ info[s].amount \in Nat
  BY DEF JuiceInv, Parts!OgInv, Parts!OgTypes, OG!Cover, OG!Staying, OG!Locked
<1>2. cycle \in Cycles /\ shares[cycle][s] \in Nat
  BY DEF JuiceInv, PayP!PayoutInv, PayP!PayoutTypes, Tranches
<1>3. shares[cycle][s] <= info[s].amount
  BY <1>1, <1>2 DEF JuiceInv, SharesWithinStake
<1>4. shares[b.cycle][s] - [t \in Stakers |-> OG!Cover(t)][s] <= 0
  BY <1>1, <1>2, <1>3
<1> QED BY <1>4 DEF Pay!Fee

\* A new receipt is written by a batch, for the net amount of the moment.
LEMMA NewReceipt ==
    ASSUME JuiceInv, JuiceNext, NEW a \in Pay!Assets, NEW b \in Tranches,
           NEW s \in Stakers, receipt[a][b][s] = None, receipt'[a][b][s] # None
    PROVE  /\ receipt'[a][b][s] = Pay!Net(a, b, s)
           /\ TrancheOutcome[b] # None
<1>1. receipt \in [Pay!Assets -> [Tranches -> [Stakers -> Nat \cup {None}]]]
  BY AllTranchesAgree DEF JuiceInv, PayP!PayoutInv, PayP!PayoutTypes, Pay!Assets,
                          PayP!Assets
<1>2. CASE UNCHANGED receipt
  BY <1>2
<1>3. ASSUME NEW e \in Pay!Assets, NEW S \in SUBSET Stakers, NEW d \in Tranches,
             Pay!Pay(e, S, d), TrancheOutcome[d] # None
      PROVE  /\ receipt'[a][b][s] = Pay!Net(a, b, s)
             /\ TrancheOutcome[b] # None
  <2> DEFINE due == {t \in S : shares[d.cycle][t] > 0 /\ receipt[e][d][t] = None}
             row == [t \in Stakers |-> IF t \in due THEN Pay!Net(e, d, t)
                                       ELSE receipt[e][d][t]]
  <2>1. receipt' = [receipt EXCEPT ![e][d] = row]
    BY <1>1, <1>3 DEF Pay!Pay
  <2>2. a = e /\ b = d /\ receipt'[a][b] = row
    BY <1>1, <2>1
  <2>3. row[s] = IF s \in due THEN Pay!Net(e, d, s) ELSE receipt[e][d][s]
    OBVIOUS
  <2> HIDE DEF row
  <2> QED BY <1>3, <2>2, <2>3
<1>4. Pay!PayoutCall =>
         \/ UNCHANGED receipt
         \/ \E e \in Pay!Assets, S \in SUBSET Stakers, d \in Tranches :
               Pay!Pay(e, S, d) /\ TrancheOutcome[d] # None
  BY AllTranchesAgree
     DEF Pay!PayoutCall, Pay!PayStxStakers, Pay!PayRecoveredSbtcStakers,
         Pay!IsFinalized, Pay!IsRecovered, Pay!Assets, Pay!SweepTrancheDust,
         Pay!SweepRecoveredSbtcDust, Pay!Sweep, Pay!WithdrawFees, Pay!books
<1>5. ~PayoutStep => UNCHANGED receipt
  BY DEF JuiceNext, PoolStep, ClaimStep, CollectStep, SeatStep, PhaseStep,
         OfficeStep, ClaimRewards, CollectTranche, accounts
<1> QED BY <1>2, <1>3, <1>4, <1>5 DEF PayoutStep

\* Seats keep their promise to the last payout of the cycle: whoever stays and
\* is covered in full is paid in full, for every tranche of the current cycle.
THEOREM CoverIsHonoured == JuiceSpec => CoveredIsPaidInFull
<1> DEFINE Honoured ==
      \A a \in Pay!Assets, b \in Tranches, s \in Stakers :
          /\ b.cycle = cycle
          /\ OG!Staying(s)
          /\ OG!Cover(s) >= info[s].amount
          /\ receipt[a][b][s] = None
          /\ receipt'[a][b][s] # None
          => receipt'[a][b][s] = Pay!Owed(a, b, s)
<1>1. JuiceInv /\ [JuiceNext]_juiceVars => [Honoured]_juiceVars
  <2> SUFFICES ASSUME JuiceInv, JuiceNext,
                      NEW a \in Pay!Assets, NEW b \in Tranches, NEW s \in Stakers,
                      b.cycle = cycle, OG!Staying(s),
                      OG!Cover(s) >= info[s].amount,
                      receipt[a][b][s] = None, receipt'[a][b][s] # None
               PROVE  receipt'[a][b][s] = Pay!Owed(a, b, s)
    OBVIOUS
  <2>1. receipt'[a][b][s] = Pay!Net(a, b, s) /\ TrancheOutcome[b] # None
    BY NewReceipt
  <2>2. Pay!Fee(a, b, s) = 0
    BY CoveredPaysNoFee
  <2>3. Pay!Owed(a, b, s) \in Int
    <3>1. PayP!Owed(a, b, s) \in Nat
      BY <2>1, PayoutOK, PayP!OwedBounds, AllTranchesAgree
         DEF JuiceInv, Pay!Assets, PayP!Assets
    <3>2. Pay!Owed(a, b, s) = PayP!Owed(a, b, s)
      BY SameTotal DEF Pay!Owed, Pay!Pot, PayP!Owed, PayP!Pot
    <3> QED BY <3>1, <3>2
  <2> QED BY <2>1, <2>2, <2>3 DEF Pay!Net
<1> QED BY <1>1, JuiceInvariant, PTL DEF JuiceSpec, CoveredIsPaidInFull
=============================================================================
