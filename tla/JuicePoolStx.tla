---------------------------- MODULE JuicePoolStx ----------------------------
(***************************************************************************)
(* The earlier pool, juice-pool-stx-signer.clar: stakers share the sBTC    *)
(* rewards themselves, nothing is swapped.                                 *)
(*                                                                         *)
(* A claim opens the next tranche of a reward cycle with the sats that     *)
(* pox-5 pays out; anyone may pay any stakers their shares of a tranche;   *)
(* the admin sweeps the rounding of a fully paid tranche and withdraws the *)
(* earned fees.  pox-5 (shares, rewards, cycles) is the environment.       *)
(***************************************************************************)
EXTENDS Integers, FiniteSets, Functions

CONSTANTS
    Principals,   \* stakers, the admin and everybody else
    FirstAdmin,   \* the deployer
    None,         \* the Clarity value none
    FeeCooldown,  \* FEE_COOLDOWN (144)
    MaxBips,      \* MAX_BIPS (10000)
    MaxFeeBips,   \* MAX_FEE_BIPS (2000)
    DistLength,   \* burn blocks per pox-5 distribution cycle
    PrepareLength, \* pox-prepare-cycle-length: end of a reward cycle
    \* What the model enumerates, and the bounds of the exploration.
    Amounts,      \* stakes
    Rewards,      \* sats that pox-5 credits to the pool
    FeeChoices,   \* fees that are proposed
    OgChoices,    \* who is made an OG
    LastCycle,    \* no stake lasts longer
    MaxTranche,   \* highest tranche number of a cycle
    MaxHeight     \* burn height at which a behaviour ends

ASSUME StxPoolAssumption ==
    /\ IsFiniteSet(Principals)
    /\ FirstAdmin \in Principals
    /\ None \notin Nat
    /\ {FeeCooldown, LastCycle, MaxTranche, MaxHeight, PrepareLength} \subseteq Nat
    /\ {MaxBips, DistLength} \subseteq Nat \ {0}
    /\ MaxFeeBips \in 0..MaxBips
    /\ Amounts \cup Rewards \cup FeeChoices \subseteq Nat
    /\ OgChoices \subseteq Principals

VARIABLES
    \* pox-5
    height,             \* burn-block-height
    calculated,         \* the distribution cycle of the last calculate-rewards
    unlock,             \* first cycle after a staker's lock, 0 without one
    shares,             \* shares staked with the pool, per cycle and staker
    unclaimed,          \* sats credited to the pool and not claimed, per cycle
    \* the pool
    admin,
    paused,
    feeBips,            \* fee-bips
    pendingFee,         \* pending-fee, or None
    pendingFeeHeight,   \* pending-fee-height
    ogStakers,          \* og-stakers: these pay no fee
    earnedFees,         \* earned-fees
    stxPot,             \* stx-pot, in sats in spite of its name
    trancheCount,       \* tranche-count
    lastClaimDist,      \* last-claim-dist-cycle
    stxPaid,            \* stx-paid: the net amount, or None
    tranchePaid,        \* tranche-paid: gross
    tranchePaidShares,  \* tranche-paid-shares
    balance,            \* sats in the pool's wallet
    early               \* history: a staker was paid for an unopened tranche

chain  == <<height, calculated, unlock, shares, unclaimed>>
terms  == <<admin, paused, feeBips, pendingFee, pendingFeeHeight, ogStakers>>
claims == <<stxPot, trancheCount, lastClaimDist>>
books  == <<stxPaid, tranchePaid, tranchePaidShares, earnedFees, balance, early>>
stxPoolVars == <<chain, terms, claims, books>>

RewardCycles == 0..LastCycle
Tranches == [cycle : RewardCycles, tranche : 0..MaxTranche]

-----------------------------------------------------------------------------
(* What the code reads.                                                    *)

CurrentDist == height \div DistLength

CurrentCycle == height \div (2 * DistLength)

\* is-in-prepare-phase: the stakes of the next cycle are fixed.
InPreparePhase ==
    height >= 2 * DistLength * (CurrentCycle + 1) - PrepareLength

Locked(s) == unlock[s] > CurrentCycle

\* get-cycle-total-shares
TotalShares(c) == SumFunction(shares[c])

\* get-effective-fee-bips
FeeOf(s) == IF s \in ogStakers THEN 0 ELSE feeBips

\* A staker's part of a tranche, before the fee.
Owed(b, s) ==
    LET total == TotalShares(b.cycle) IN
    IF total = 0 THEN 0 ELSE (stxPot[b] * shares[b.cycle][s]) \div total

Fee(b, s) == (Owed(b, s) * FeeOf(s)) \div MaxBips

\* get-tranche-residue
Residue(b) == stxPot[b] - tranchePaid[b]

IsOpened(b) == b.tranche < trancheCount[b.cycle]

\* is-tranche-fully-paid
FullyPaid(b) == tranchePaidShares[b] >= TotalShares(b.cycle)

IsAdmin(caller) == caller = admin

-----------------------------------------------------------------------------
StxPoolInit ==
    /\ height = 0
    /\ calculated = 0
    /\ unlock = [s \in Principals |-> 0]
    /\ shares = [c \in RewardCycles |-> [s \in Principals |-> 0]]
    /\ unclaimed = [c \in RewardCycles |-> 0]
    /\ admin = FirstAdmin
    /\ paused = FALSE
    /\ feeBips = 0
    /\ pendingFee = None
    /\ pendingFeeHeight = 0
    /\ ogStakers = {}
    /\ earnedFees = 0
    /\ stxPot = [b \in Tranches |-> 0]
    /\ trancheCount = [c \in RewardCycles |-> 0]
    /\ lastClaimDist = [c \in RewardCycles |-> None]
    /\ stxPaid = [b \in Tranches |-> [s \in Principals |-> None]]
    /\ tranchePaid = [b \in Tranches |-> 0]
    /\ tranchePaidShares = [b \in Tranches |-> 0]
    /\ balance = 0
    /\ early = FALSE

(* pox-5.                                                                  *)

Advance(blocks) ==
    /\ height' = height + blocks
    /\ UNCHANGED <<calculated, unlock, shares, unclaimed, terms, claims, books>>

\* What pox-5 does with the shares of s in the pool from the next cycle on.
SharesFromNext(s, last, amount) ==
    [c \in RewardCycles |->
        CASE c <= CurrentCycle -> shares[c]
          [] c \in (CurrentCycle + 1)..last -> [shares[c] EXCEPT ![s] = amount]
          [] OTHER -> [shares[c] EXCEPT ![s] = 0]]

\* stake: from the next cycle on, to cycle `last`.  pox-5 asks the pool's
\* validate-stake!, which refuses only while it is paused.
Stake(s, amount, last) ==
    /\ ~InPreparePhase
    /\ ~Locked(s)
    /\ ~paused
    /\ last \in (CurrentCycle + 1)..LastCycle
    /\ unlock' = [unlock EXCEPT ![s] = last + 1]
    /\ shares' = SharesFromNext(s, last, amount)
    /\ UNCHANGED <<height, calculated, unclaimed, terms, claims, books>>

\* stake with another signer.
StakeElsewhere(s, last) ==
    /\ ~InPreparePhase
    /\ ~Locked(s)
    /\ last \in (CurrentCycle + 1)..LastCycle
    /\ unlock' = [unlock EXCEPT ![s] = last + 1]
    /\ UNCHANGED <<height, calculated, shares, unclaimed, terms, claims, books>>

\* stake-update with the pool as the new signer: the stake grows to `amount`,
\* the lock to cycle `last`.  The amount of a stake with another signer is not
\* modelled, so a staker who comes from there may bring any.
StakeUpdate(s, amount, last) ==
    /\ ~InPreparePhase
    /\ Locked(s)
    /\ ~paused
    /\ \A c \in RewardCycles : c >= CurrentCycle => amount >= shares[c][s]
    /\ last \in (CurrentCycle + 1)..LastCycle
    /\ last + 1 >= unlock[s]
    /\ unlock' = [unlock EXCEPT ![s] = last + 1]
    /\ shares' = SharesFromNext(s, last, amount)
    /\ UNCHANGED <<height, calculated, unclaimed, terms, claims, books>>

\* stake-update with another signer.
MoveElsewhere(s, last) ==
    /\ ~InPreparePhase
    /\ Locked(s)
    /\ last \in (CurrentCycle + 1)..LastCycle
    /\ last + 1 >= unlock[s]
    /\ unlock' = [unlock EXCEPT ![s] = last + 1]
    /\ shares' = SharesFromNext(s, CurrentCycle, 0)
    /\ UNCHANGED <<height, calculated, unclaimed, terms, claims, books>>

\* unstake: the shares of the cycles after the current one are gone.
Unstake(s) ==
    /\ ~InPreparePhase
    /\ Locked(s)
    /\ unlock' = [unlock EXCEPT ![s] = CurrentCycle + 1]
    /\ shares' = SharesFromNext(s, CurrentCycle, 0)
    /\ UNCHANGED <<height, calculated, unclaimed, terms, claims, books>>

\* calculate-rewards: once per distribution cycle, for the reward cycle in
\* which the cycle before it lay; `sats` is the pool's part.
CalculateRewards(sats) ==
    LET c == (CurrentDist - 1) \div 2 IN
    /\ CurrentDist > calculated
    /\ c \in RewardCycles
    /\ calculated' = CurrentDist
    /\ unclaimed' = [unclaimed EXCEPT
                       ![c] = @ + IF TotalShares(c) = 0 THEN 0 ELSE sats]
    /\ UNCHANGED <<height, unlock, shares, terms, claims, books>>

-----------------------------------------------------------------------------
(* The pool.                                                               *)

SetAdmin(caller, newAdmin) ==
    /\ IsAdmin(caller)
    /\ admin' = newAdmin
    /\ UNCHANGED <<chain, paused, feeBips, pendingFee, pendingFeeHeight,
                   ogStakers, claims, books>>

SetPaused(caller, p) ==
    /\ IsAdmin(caller)
    /\ paused' = p
    /\ UNCHANGED <<chain, admin, feeBips, pendingFee, pendingFeeHeight,
                   ogStakers, claims, books>>

ProposeFeeBips(caller, newFee) ==
    /\ IsAdmin(caller)
    /\ newFee <= MaxFeeBips
    /\ pendingFee' = newFee
    /\ pendingFeeHeight' = height
    /\ UNCHANGED <<chain, admin, paused, feeBips, ogStakers, claims, books>>

ConfirmFeeBips(caller) ==
    /\ pendingFee # None
    /\ IsAdmin(caller)
    /\ height >= pendingFeeHeight + FeeCooldown
    /\ feeBips' = pendingFee
    /\ pendingFee' = None
    /\ UNCHANGED <<chain, admin, paused, pendingFeeHeight, ogStakers, claims,
                   books>>

CancelFeeBips(caller) ==
    /\ IsAdmin(caller)
    /\ pendingFee' = None
    /\ UNCHANGED <<chain, admin, paused, feeBips, pendingFeeHeight, ogStakers,
                   claims, books>>

SetOg(caller, s, og) ==
    /\ IsAdmin(caller)
    /\ ogStakers' = IF og THEN ogStakers \cup {s} ELSE ogStakers \ {s}
    /\ UNCHANGED <<chain, admin, paused, feeBips, pendingFee, pendingFeeHeight,
                   claims, books>>

\* Mutant: a claim reopens the last tranche.
PoxClaimSameTranche(c) ==
    LET b == [cycle |-> c, tranche |-> 0] IN
    /\ lastClaimDist[c] # None => CurrentDist > lastClaimDist[c]
    /\ unclaimed[c] > 0
    /\ b \in Tranches
    /\ unclaimed' = [unclaimed EXCEPT ![c] = 0]
    /\ balance' = balance + unclaimed[c]
    /\ stxPot' = [stxPot EXCEPT ![b] = unclaimed[c]]
    /\ trancheCount' = [trancheCount EXCEPT ![c] = 1]
    /\ lastClaimDist' = [lastClaimDist EXCEPT ![c] = CurrentDist]
    /\ UNCHANGED <<height, calculated, unlock, shares, terms, stxPaid,
                   tranchePaid, tranchePaidShares, earnedFees, early>>

\* Anyone, once per reward cycle and distribution.
PoxClaimRewards(c) ==
    LET b == [cycle |-> c, tranche |-> trancheCount[c]] IN
    /\ lastClaimDist[c] # None => CurrentDist > lastClaimDist[c]
    /\ unclaimed[c] > 0
    /\ b \in Tranches
    /\ unclaimed' = [unclaimed EXCEPT ![c] = 0]
    /\ balance' = balance + unclaimed[c]
    /\ stxPot' = [stxPot EXCEPT ![b] = unclaimed[c]]
    /\ trancheCount' = [trancheCount EXCEPT ![c] = @ + 1]
    /\ lastClaimDist' = [lastClaimDist EXCEPT ![c] = CurrentDist]
    /\ UNCHANGED <<height, calculated, unlock, shares, terms, stxPaid,
                   tranchePaid, tranchePaidShares, earnedFees, early>>

\* Anyone: the fold of pay-one over a list.  Who was paid already or has no
\* shares is skipped; whether the tranche was opened is not asked.
PayStxStakers(S, b) ==
    LET due  == {s \in S : shares[b.cycle][s] > 0 /\ stxPaid[b][s] = None}
        nets == SumFunction([s \in due |-> Owed(b, s) - Fee(b, s)]) IN
    /\ nets <= balance
    /\ stxPaid' = [stxPaid EXCEPT ![b] = [s \in Principals |->
                     IF s \in due THEN Owed(b, s) - Fee(b, s) ELSE @[s]]]
    /\ tranchePaid' = [tranchePaid EXCEPT ![b] =
                         @ + SumFunction([s \in due |-> Owed(b, s)])]
    /\ tranchePaidShares' = [tranchePaidShares EXCEPT ![b] =
                               @ + SumFunction([s \in due |-> shares[b.cycle][s]])]
    /\ earnedFees' = earnedFees + SumFunction([s \in due |-> Fee(b, s)])
    /\ balance' = balance - nets
    /\ early' = (early \/ (due # {} /\ ~IsOpened(b)))
    /\ UNCHANGED <<chain, terms, claims>>

\* As SweepTrancheDust, before every staker is paid.
SweepUnpaidPot(caller, b) ==
    /\ IsAdmin(caller)
    /\ Residue(b) > 0
    /\ Residue(b) <= balance
    /\ balance' = balance - Residue(b)
    /\ tranchePaid' = [tranchePaid EXCEPT ![b] = @ + Residue(b)]
    /\ UNCHANGED <<chain, terms, claims, stxPaid, tranchePaidShares, earnedFees,
                   early>>

SweepTrancheDust(caller, b) ==
    /\ IsAdmin(caller)
    /\ FullyPaid(b)
    /\ Residue(b) > 0
    /\ Residue(b) <= balance
    /\ balance' = balance - Residue(b)
    /\ tranchePaid' = [tranchePaid EXCEPT ![b] = @ + Residue(b)]
    /\ UNCHANGED <<chain, terms, claims, stxPaid, tranchePaidShares, earnedFees,
                   early>>

\* withdraw-fees, withdraw-all-fees.  A transfer of 0 fails.
WithdrawFees(caller, amount) ==
    /\ IsAdmin(caller)
    /\ amount \in 1..earnedFees
    /\ amount <= balance
    /\ earnedFees' = earnedFees - amount
    /\ balance' = balance - amount
    /\ UNCHANGED <<chain, terms, claims, stxPaid, tranchePaid, tranchePaidShares,
                   early>>

-----------------------------------------------------------------------------
Pox5Step ==
    \/ height < MaxHeight /\ Advance(1)
    \/ \E s \in Principals :
          \/ \E amount \in Amounts, last \in RewardCycles :
                Stake(s, amount, last) \/ StakeUpdate(s, amount, last)
          \/ \E last \in RewardCycles :
                StakeElsewhere(s, last) \/ MoveElsewhere(s, last)
          \/ Unstake(s)
    \/ \E sats \in Rewards : CalculateRewards(sats)

AdminStep(caller) ==
    \/ \E p \in Principals : SetAdmin(caller, p)
    \/ \E p \in BOOLEAN : SetPaused(caller, p)
    \/ \E fee \in FeeChoices : ProposeFeeBips(caller, fee)
    \/ ConfirmFeeBips(caller)
    \/ CancelFeeBips(caller)
    \/ \E s \in OgChoices, og \in BOOLEAN : SetOg(caller, s, og)
    \/ \E b \in Tranches : SweepTrancheDust(caller, b)
    \/ \E amount \in 1..earnedFees : WithdrawFees(caller, amount)

PublicStep ==
    \/ \E c \in RewardCycles : PoxClaimRewards(c)
    \/ \E S \in SUBSET Principals \ {{}}, b \in Tranches : PayStxStakers(S, b)

StxPoolNext ==
    \/ Pox5Step
    \/ \E caller \in Principals : AdminStep(caller)
    \/ PublicStep

StxPoolSpec == StxPoolInit /\ [][StxPoolNext]_stxPoolVars

-----------------------------------------------------------------------------
\* Once every staker of a cycle is counted as paid for a tranche, what is left
\* of its pot is rounding, less than a sat for each of them ("every staker of
\* that cycle has been paid, and whatever is left of THAT CYCLE'S pot is
\* rounding residue", juice-pool-stx-signer.clar).
FullyPaidLeavesRounding ==
    \A b \in Tranches :
        IsOpened(b) /\ FullyPaid(b) =>
            Residue(b) <= Cardinality({s \in Principals : shares[b.cycle][s] > 0})

\* The one wallet of the pool is what its books say: the earned fees and what
\* is left of each tranche, in whatever order tranches are claimed, paid (even
\* before they are opened) and swept.
WalletIsBooks ==
    balance = earnedFees + SumFunction([b \in Tranches |-> Residue(b)])

\* What the stakers of a tranche who are not paid yet are owed, before fees.
Unpaid(b) ==
    SumFunction([s \in {p \in Principals : /\ shares[b.cycle][p] > 0
                                           /\ stxPaid[b][p] = None}
                   |-> Owed(b, s)])

\* As long as nobody was paid for a tranche before it was opened, the comments
\* are right: what is left of a fully paid tranche is rounding, and no cycle
\* reaches "into cycle N+1's unpaid pot", for the wallet can pay the fees
\* and everyone who is owed a part of a tranche.
OnlyEarlyPaymentsHurt ==
    ~early =>
        /\ FullyPaidLeavesRounding
        /\ earnedFees + SumFunction([b \in Tranches |-> Unpaid(b)]) <= balance

\* What a staker was paid for a tranche is final.
StxReceiptsAreFinal ==
    [][\A b \in Tranches, s \in Principals :
          stxPaid[b][s] # None => stxPaid'[b][s] = stxPaid[b][s]]_stxPoolVars

\* Blocks since the proposal of the pending fee, counted up to the notice.
FeeAge ==
    IF height >= pendingFeeHeight + FeeCooldown
    THEN FeeCooldown
    ELSE height - pendingFeeHeight

StxFeeChange == INSTANCE DelayedChange WITH
    Delay <- FeeCooldown,
    NoOffer <- None,
    value <- feeBips,
    offer <- pendingFee,
    age <- FeeAge

\* The fee changes only to one announced, unchanged, for FeeCooldown blocks,
\* even if the admin changes meanwhile.
StxFeeChangesOnNotice == StxFeeChange!ChangeSpec
=============================================================================
