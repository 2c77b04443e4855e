--------------------------- MODULE TranchePayouts ---------------------------
(***************************************************************************)
(* How juice-pool-sbtc-signer.clar pays settled tranches out.              *)
(*                                                                         *)
(* Tranches come from TrancheLifecycle, which RewardPool implements: a     *)
(* settled tranche has a pot of STX and, if it was recovered, one of sBTC. *)
(* Each pot is shared by the stakers of the tranche's cycle, paid in any   *)
(* order and any number of batches by anyone, at the fee rate and OG cover *)
(* of the moment; the rounding is swept once everyone is paid.  The two    *)
(* ledgers have the same rules, so both are functions over Assets here.    *)
(***************************************************************************)
EXTENDS TrancheLifecycle, FiniteSets, Functions

CONSTANTS
    Stakers,
    MaxBips,       \* MAX_BIPS (10000)
    MaxFeeBips,    \* MAX_FEE_BIPS (500)
    \* What the model enumerates.
    ShareChoices,  \* shares of a staker in a cycle
    CoverChoices,  \* OG cover of a staker
    PotChoices     \* outcomes a tranche is settled with

ASSUME PayoutAssumption ==
    /\ IsFiniteSet(Stakers)
    /\ IsFiniteSet(Cycles)
    /\ MaxTranche \in Nat
    /\ None \notin Nat \cup AllTranches \cup Outcomes
    /\ MaxBips \in Nat \ {0}
    /\ MaxFeeBips \in 0..MaxBips
    /\ ShareChoices \cup CoverChoices \subseteq Nat
    /\ PotChoices \subseteq Outcomes

Assets == {"stx", "sbtc"}

VARIABLES
    shares,      \* pox-5's shares, frozen when the cycle starts
    feeBips,     \* fee-bips
    cover,       \* og-stakers, by get-og-ustx
    receipt,     \* stx-paid, recovered-sbtc-paid: net amount, or None
    paid,        \* tranche-paid, recovered-sbtc-tranche-paid
    paidShares,  \* tranche-paid-shares, recovered-sbtc-paid-shares
    earned,      \* earned-fees, earned-sbtc-fees
    balance,     \* what the pool's wallet holds
    dust         \* history: swept from each tranche

terms  == <<shares, feeBips, cover>>
books  == <<receipt, paid, paidShares, dust>>
payoutVars == <<lifecycleVars, terms, books, earned, balance>>

-----------------------------------------------------------------------------
\* get-cycle-total-shares
TotalShares(c) == SumFunction(shares[c])

\* get-stx-pot, get-recovered-sbtc-pot
Pot(a, b) ==
    IF outcome[b] = None \/ outcome[b][a] = None THEN 0 ELSE outcome[b][a]

\* A staker's part of the pot, before the fee.
Owed(a, b, s) == (Pot(a, b) * shares[b.cycle][s]) \div TotalShares(b.cycle)

\* Mutant: the fee is charged twice over.
DoubleFee(a, b, s) ==
    (Owed(a, b, s) * 2 * feeBips * shares[b.cycle][s])
        \div (MaxBips * shares[b.cycle][s])

\* get-staker-fee: on the shares above the OG cover only.
Fee(a, b, s) ==
    LET taxed == shares[b.cycle][s] - cover[s] IN
    IF taxed <= 0
    THEN 0
    ELSE (Owed(a, b, s) * feeBips * taxed)
            \div (MaxBips * shares[b.cycle][s])

Net(a, b, s) == Owed(a, b, s) - Fee(a, b, s)

\* get-tranche-residue, get-recovered-sbtc-residue
Residue(a, b) == Pot(a, b) - paid[a][b]

\* Mutant: one payment makes a tranche paid.
PartlyPaid(a, b) == paidShares[a][b] > 0

\* is-tranche-fully-paid, is-recovered-tranche-fully-paid
FullyPaid(a, b) == paidShares[a][b] >= TotalShares(b.cycle)

IsFinalized(b) == outcome[b] # None

IsRecovered(b) == IsFinalized(b) /\ outcome[b].sbtc # None

-----------------------------------------------------------------------------
PayoutInit ==
    /\ LifecycleInit
    /\ shares = [c \in Cycles |-> [s \in Stakers |-> 0]]
    /\ feeBips \in 0..MaxFeeBips
    /\ cover = [s \in Stakers |-> 0]
    /\ receipt = [a \in Assets |->
                    [b \in AllTranches |-> [s \in Stakers |-> None]]]
    /\ paid = [a \in Assets |-> [b \in AllTranches |-> 0]]
    /\ paidShares = [a \in Assets |-> [b \in AllTranches |-> 0]]
    /\ dust = [a \in Assets |-> [b \in AllTranches |-> 0]]
    /\ earned = [a \in Assets |-> 0]
    /\ balance = [a \in Assets |-> 0]

\* pox-5 freezes the shares of a cycle when it begins, before it pays anything
\* for it.
FreezeShares(c, row) ==
    /\ opened[c] = 0
    /\ shares' = [shares EXCEPT ![c] = row]
    /\ UNCHANGED <<lifecycleVars, feeBips, cover, books, earned, balance>>

\* pox-5 pays rewards only to a pool that has shares in the cycle.
OpenTranche(c) ==
    /\ TotalShares(c) > 0
    /\ Open(c)
    /\ UNCHANGED <<terms, books, earned, balance>>

SettleTranche(o) ==
    /\ Settle(o)
    /\ balance' = [a \in Assets |->
                     balance[a] + (IF o[a] = None THEN 0 ELSE o[a])]
    /\ UNCHANGED <<terms, books, earned>>

\* Mutant: receipts are not looked at.
PayAgain(a, S, b) ==
    LET due  == {s \in S : shares[b.cycle][s] > 0}
        nets == SumFunction([s \in due |-> Net(a, b, s)]) IN
    /\ nets <= balance[a]
    /\ receipt' = [receipt EXCEPT ![a][b] =
                     [s \in Stakers |-> IF s \in due THEN Net(a, b, s) ELSE @[s]]]
    /\ paid' = [paid EXCEPT ![a][b] =
                  @ + SumFunction([s \in due |-> Owed(a, b, s)])]
    /\ paidShares' = [paidShares EXCEPT ![a][b] =
                        @ + SumFunction([s \in due |-> shares[b.cycle][s]])]
    /\ earned' = [earned EXCEPT ![a] =
                    @ + SumFunction([s \in due |-> Fee(a, b, s)])]
    /\ balance' = [balance EXCEPT ![a] = @ - nets]
    /\ UNCHANGED <<lifecycleVars, terms, dust>>

\* Mutant: the shares of those already paid are counted again.
PayCountingAll(a, S, b) ==
    LET due  == {s \in S : shares[b.cycle][s] > 0 /\ receipt[a][b][s] = None}
        nets == SumFunction([s \in due |-> Net(a, b, s)]) IN
    /\ nets <= balance[a]
    /\ receipt' = [receipt EXCEPT ![a][b] =
                     [s \in Stakers |-> IF s \in due THEN Net(a, b, s) ELSE @[s]]]
    /\ paid' = [paid EXCEPT ![a][b] =
                  @ + SumFunction([s \in due |-> Owed(a, b, s)])]
    /\ paidShares' = [paidShares EXCEPT ![a][b] =
                        @ + SumFunction([s \in S |-> shares[b.cycle][s]])]
    /\ earned' = [earned EXCEPT ![a] =
                    @ + SumFunction([s \in due |-> Fee(a, b, s)])]
    /\ balance' = [balance EXCEPT ![a] = @ - nets]
    /\ UNCHANGED <<lifecycleVars, terms, dust>>

\* Mutant: the net amount is booked against the pot.
PayBookingNet(a, S, b) ==
    LET due  == {s \in S : shares[b.cycle][s] > 0 /\ receipt[a][b][s] = None}
        nets == SumFunction([s \in due |-> Net(a, b, s)]) IN
    /\ nets <= balance[a]
    /\ receipt' = [receipt EXCEPT ![a][b] =
                     [s \in Stakers |-> IF s \in due THEN Net(a, b, s) ELSE @[s]]]
    /\ paid' = [paid EXCEPT ![a][b] =
                  @ + SumFunction([s \in due |-> Net(a, b, s)])]
    /\ paidShares' = [paidShares EXCEPT ![a][b] =
                        @ + SumFunction([s \in due |-> shares[b.cycle][s]])]
    /\ earned' = [earned EXCEPT ![a] =
                    @ + SumFunction([s \in due |-> Fee(a, b, s)])]
    /\ balance' = [balance EXCEPT ![a] = @ - nets]
    /\ UNCHANGED <<lifecycleVars, terms, dust>>

\* The fold of pay-one, pay-recovered-sbtc-one over a list of stakers: those
\* without shares or already paid are skipped, so the list may as well be a set.
Pay(a, S, b) ==
    LET due  == {s \in S : shares[b.cycle][s] > 0 /\ receipt[a][b][s] = None}
        nets == SumFunction([s \in due |-> Net(a, b, s)]) IN
    /\ nets <= balance[a]
    /\ receipt' = [receipt EXCEPT ![a][b] =
                     [s \in Stakers |-> IF s \in due THEN Net(a, b, s) ELSE @[s]]]
    /\ paid' = [paid EXCEPT ![a][b] =
                  @ + SumFunction([s \in due |-> Owed(a, b, s)])]
    /\ paidShares' = [paidShares EXCEPT ![a][b] =
                        @ + SumFunction([s \in due |-> shares[b.cycle][s]])]
    /\ earned' = [earned EXCEPT ![a] =
                    @ + SumFunction([s \in due |-> Fee(a, b, s)])]
    /\ balance' = [balance EXCEPT ![a] = @ - nets]
    /\ UNCHANGED <<lifecycleVars, terms, dust>>

PayStxStakers(S, b) == IsFinalized(b) /\ Pay("stx", S, b)

PayRecoveredSbtcStakers(S, b) == IsRecovered(b) /\ Pay("sbtc", S, b)

\* The admin takes the rounding of a tranche whose stakers are all paid.
Sweep(a, b) ==
    /\ FullyPaid(a, b)
    /\ Residue(a, b) > 0
    /\ Residue(a, b) <= balance[a]
    /\ balance' = [balance EXCEPT ![a] = @ - Residue(a, b)]
    /\ paid' = [paid EXCEPT ![a][b] = @ + Residue(a, b)]
    /\ dust' = [dust EXCEPT ![a][b] = @ + Residue(a, b)]
    /\ UNCHANGED <<lifecycleVars, terms, receipt, paidShares, earned>>

SweepTrancheDust(b) == IsFinalized(b) /\ Sweep("stx", b)

SweepRecoveredSbtcDust(b) == IsRecovered(b) /\ Sweep("sbtc", b)

\* withdraw-fees, withdraw-all-fees, withdraw-sbtc-fees, by the admin.  A
\* transfer of 0 fails.
WithdrawFees(a, amount) ==
    /\ amount > 0
    /\ amount <= earned[a]
    /\ amount <= balance[a]
    /\ balance' = [balance EXCEPT ![a] = @ - amount]
    /\ earned' = [earned EXCEPT ![a] = @ - amount]
    /\ UNCHANGED <<lifecycleVars, terms, books>>

\* What changes the terms of payouts still to come: see PoolGovernance for
\* the fee and OgSeats for the cover.
ConfirmFeeBips(fee) ==
    /\ fee <= MaxFeeBips
    /\ feeBips' = fee
    /\ UNCHANGED <<lifecycleVars, shares, cover, books, earned, balance>>

ChangeCover(s, ustx) ==
    /\ cover' = [cover EXCEPT ![s] = ustx]
    /\ UNCHANGED <<lifecycleVars, shares, feeBips, books, earned, balance>>

-----------------------------------------------------------------------------
NewTerms ==
    \/ \E fee \in 0..MaxBips : ConfirmFeeBips(fee)
    \/ \E s \in Stakers, ustx \in CoverChoices : ChangeCover(s, ustx)

PayoutCall ==
    \/ \E S \in SUBSET Stakers, b \in AllTranches :
          PayStxStakers(S, b) \/ PayRecoveredSbtcStakers(S, b)
    \/ \E b \in AllTranches : SweepTrancheDust(b) \/ SweepRecoveredSbtcDust(b)
    \/ \E a \in Assets : \E amount \in 1..balance[a] : WithdrawFees(a, amount)

PayoutNext ==
    \/ \E c \in Cycles, row \in [Stakers -> ShareChoices] : FreezeShares(c, row)
    \/ \E c \in Cycles : OpenTranche(c)
    \/ \E o \in PotChoices : SettleTranche(o)
    \/ PayoutCall
    \/ NewTerms

PayoutSpec == PayoutInit /\ [][PayoutNext]_payoutVars

\* Anyone may pay anyone, so a staker who is owed money, whatever the tranche,
\* sees to it.
FairPayoutSpec ==
    /\ PayoutSpec
    /\ \A s \in Stakers :
          WF_payoutVars(\E b \in AllTranches :
              PayStxStakers({s}, b) \/ PayRecoveredSbtcStakers({s}, b))

-----------------------------------------------------------------------------
\* Types: no balance, pot or fee account underflows.
PayoutTypeOK ==
    /\ opened \in [Cycles -> 0..(MaxTranche + 1)]
    /\ inFlight \in AllTranches \cup {None}
    /\ outcome \in [AllTranches -> PotChoices \cup {None}]
    /\ shares \in [Cycles -> [Stakers -> Nat]]
    /\ feeBips \in 0..MaxFeeBips
    /\ cover \in [Stakers -> Nat]
    /\ receipt \in [Assets -> [AllTranches -> [Stakers -> Nat \cup {None}]]]
    /\ paid \in [Assets -> [AllTranches -> Nat]]
    /\ paidShares \in [Assets -> [AllTranches -> Nat]]
    /\ dust \in [Assets -> [AllTranches -> Nat]]
    /\ earned \in [Assets -> Nat]
    /\ balance \in [Assets -> Nat]

\* The pool's wallet is what it owes: the unpaid part of every pot and the
\* fees.  So no payout, sweep or withdrawal ever uses another tranche's money.
BalanceBacksDebts ==
    \A a \in Assets :
        balance[a] = earned[a]
                       + SumFunction([b \in AllTranches |-> Residue(a, b)])

\* What the stakers of a tranche who are not paid yet are owed, before fees.
Unpaid(a, b) ==
    SumFunction([s \in {r \in Stakers : /\ shares[b.cycle][r] > 0
                                       /\ receipt[a][b][r] = None}
                   |-> Owed(a, b, s)])

\* The wallet is never short: it can pay all fees and every staker of every
\* settled tranche, so no payment fails and no order of payments, sweeps and
\* withdrawals leaves the last one without money.
EveryoneCanBePaid ==
    \A a \in Assets :
        earned[a] + SumFunction([b \in AllTranches |-> Unpaid(a, b)])
            <= balance[a]

\* A tranche counts as fully paid exactly when every staker with shares has
\* been paid, however the batches were cut.
FullyPaidMeansEveryone ==
    \A a \in Assets, b \in AllTranches :
        opened[b.cycle] > b.tranche =>
            (FullyPaid(a, b) <=> \A s \in Stakers :
                shares[b.cycle][s] > 0 => receipt[a][b][s] # None)

\* The admin's sweep takes rounding only, less than one unit per staker.
SweepIsDust ==
    \A a \in Assets, b \in AllTranches :
        dust[a][b] < Cardinality({s \in Stakers : shares[b.cycle][s] > 0})
            \/ dust[a][b] = 0

\* Every staker gets the exact share of the pot less at most the highest fee,
\* whenever and in whatever batch they are paid.
ReceiptIsFair ==
    \A a \in Assets, b \in AllTranches, s \in Stakers :
        receipt[a][b][s] # None =>
            /\ receipt[a][b][s] <= Owed(a, b, s)
            /\ receipt[a][b][s] * MaxBips
                  >= Owed(a, b, s) * (MaxBips - MaxFeeBips)

\* What a staker was paid for a tranche is final: a second payment, a new fee
\* or a lost seat does not touch it.
ReceiptsAreFinal ==
    [][\A a \in Assets, b \in AllTranches, s \in Stakers :
          receipt[a][b][s] # None => receipt'[a][b][s] = receipt[a][b][s]
      ]_payoutVars

\* Every staker of a settled tranche is paid in the end, whatever the admin
\* sweeps or withdraws meanwhile.
EveryoneIsPaid ==
    \A b \in AllTranches :
        IsFinalized(b) ~> \A s \in Stakers :
            shares[b.cycle][s] > 0 =>
                /\ receipt["stx"][b][s] # None
                /\ IsRecovered(b) => receipt["sbtc"][b][s] # None
=============================================================================
