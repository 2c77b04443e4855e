------------------------ MODULE TranchePayoutsProofs ------------------------
(***************************************************************************)
(* Proofs about payouts, for any finite sets of stakers and cycles, any    *)
(* shares, pots, covers and fees.  The first part, about receipts, needs   *)
(* nothing of the second: PayoutInv, which says of each tranche which      *)
(* stakers its books stand for, and gives the theorems about the money.    *)
(***************************************************************************)
EXTENDS TranchePayouts, SumTheorems

\* The receipts are a table, so that an update of one entry leaves the others.
ReceiptTable ==
    /\ receipt = [a \in Assets |-> receipt[a]]
    /\ \A a \in Assets : receipt[a] = [b \in AllTranches |-> receipt[a][b]]
    /\ \A a \in Assets, b \in AllTranches :
          receipt[a][b] = [s \in Stakers |-> receipt[a][b][s]]

\* What a step may do to the receipts.
ReceiptStep ==
    \A a \in Assets, b \in AllTranches, s \in Stakers :
        receipt[a][b][s] # None => receipt'[a][b][s] = receipt[a][b][s]

\* A payment writes the receipts of stakers who have none, and keeps the table.
LEMMA PayKeepsReceipts ==
    ASSUME ReceiptTable, NEW a \in Assets, NEW S, NEW b \in AllTranches,
           Pay(a, S, b)
    PROVE  ReceiptTable' /\ ReceiptStep
<1> DEFINE due  == {s \in S : shares[b.cycle][s] > 0 /\ receipt[a][b][s] = None}
           row  == [s \in Stakers |-> IF s \in due THEN Net(a, b, s)
                                      ELSE receipt[a][b][s]]
<1>1. receipt' = [receipt EXCEPT ![a][b] = row]
  BY DEF Pay
<1> HIDE DEF row
<1>2. receipt'[a][b] = row
  BY <1>1 DEF ReceiptTable
<1>3. \A c \in Assets, d \in AllTranches :
         ~(c = a /\ d = b) => receipt'[c][d] = receipt[c][d]
  BY <1>1 DEF ReceiptTable
<1>4. ReceiptTable'
  <2>1. receipt' = [c \in Assets |-> receipt'[c]]
    BY <1>1 DEF ReceiptTable
  <2>2. ASSUME NEW c \in Assets
        PROVE  receipt'[c] = [d \in AllTranches |-> receipt'[c][d]]
    BY <1>1 DEF ReceiptTable
  <2>3. row = [s \in Stakers |-> row[s]]
    BY DEF row
  <2>4. ASSUME NEW c \in Assets, NEW d \in AllTranches
        PROVE  receipt'[c][d] = [s \in Stakers |-> receipt'[c][d][s]]
    <3>1. CASE c = a /\ d = b
      BY <3>1, <1>2, <2>3
    <3>2. CASE ~(c = a /\ d = b)
      <4>1. receipt[c][d] = [s \in Stakers |-> receipt[c][d][s]]
        BY DEF ReceiptTable
      <4> QED BY <3>2, <4>1, <1>3
    <3> QED BY <3>1, <3>2
  <2> QED BY <2>1, <2>2, <2>4 DEF ReceiptTable
<1>5. ReceiptStep
  <2> SUFFICES ASSUME NEW c \in Assets, NEW d \in AllTranches,
                      NEW s \in Stakers, receipt[c][d][s] # None
               PROVE  receipt'[c][d][s] = receipt[c][d][s]
    BY DEF ReceiptStep
  <2>1. CASE c = a /\ d = b
    <3>1. s \notin due
      BY <2>1
    <3> QED BY <2>1, <3>1, <1>2 DEF row
  <2>2. CASE ~(c = a /\ d = b)
    BY <2>2, <1>3
  <2> QED BY <2>1, <2>2
<1> QED BY <1>4, <1>5

\* A step that leaves the receipts alone is harmless.
LEMMA SameReceipts ==
    ASSUME ReceiptTable, UNCHANGED receipt
    PROVE  ReceiptTable' /\ ReceiptStep
  BY DEF ReceiptTable, ReceiptStep

\* Every step keeps the table and every receipt in it.
LEMMA StepReceipts ==
    ASSUME ReceiptTable, [PayoutNext]_payoutVars
    PROVE  ReceiptTable' /\ ReceiptStep
<1>0. ASSUME NEW c \in Cycles, NEW row, FreezeShares(c, row)
      PROVE  UNCHANGED receipt
  BY <1>0 DEF FreezeShares, books
<1>1. ASSUME NEW c \in Cycles, OpenTranche(c) PROVE UNCHANGED receipt
  BY <1>1 DEF OpenTranche, books
<1>2. ASSUME NEW o \in PotChoices, SettleTranche(o) PROVE UNCHANGED receipt
  BY <1>2 DEF SettleTranche, books
<1>3. ASSUME NEW S \in SUBSET Stakers, NEW b \in AllTranches,
             PayStxStakers(S, b) \/ PayRecoveredSbtcStakers(S, b)
      PROVE  ReceiptTable' /\ ReceiptStep
  <2>1. PICK a \in Assets : Pay(a, S, b)
    BY <1>3 DEF PayStxStakers, PayRecoveredSbtcStakers, Assets
  <2> QED BY <2>1, PayKeepsReceipts
<1>4. ASSUME NEW b \in AllTranches,
             SweepTrancheDust(b) \/ SweepRecoveredSbtcDust(b)
      PROVE  UNCHANGED receipt
  BY <1>4 DEF SweepTrancheDust, SweepRecoveredSbtcDust, Sweep
<1>5. ASSUME NEW a \in Assets, NEW amount, WithdrawFees(a, amount)
      PROVE  UNCHANGED receipt
  BY <1>5 DEF WithdrawFees, books
<1>6. ASSUME NewTerms PROVE UNCHANGED receipt
  BY <1>6 DEF NewTerms, ConfirmFeeBips, ChangeCover, books
<1>7. ASSUME UNCHANGED payoutVars PROVE UNCHANGED receipt
  BY <1>7 DEF payoutVars, books
<1> QED
  BY <1>0, <1>1, <1>2, <1>3, <1>4, <1>5, <1>6, <1>7, SameReceipts DEF PayoutNext, PayoutCall

\* What a staker was paid for a tranche is final, whatever the fee, the cover,
\* the sweeps and the repeated calls.
THEOREM ReceiptsStay == PayoutSpec => ReceiptsAreFinal
<1>1. PayoutInit => ReceiptTable
  BY DEF PayoutInit, ReceiptTable
<1>2. ReceiptTable /\ [PayoutNext]_payoutVars => ReceiptTable'
  BY StepReceipts
<1>3. ReceiptTable /\ [PayoutNext]_payoutVars
        => [\A a \in Assets, b \in AllTranches, s \in Stakers :
              receipt[a][b][s] # None
                => receipt'[a][b][s] = receipt[a][b][s]]_payoutVars
  BY StepReceipts DEF ReceiptStep
<1> QED
  BY <1>1, <1>2, <1>3, PTL DEF PayoutSpec, ReceiptsAreFinal
-----------------------------------------------------------------------------
(* What every state satisfies.                                             *)

\* Types; a balance is only an integer until BalanceBacksDebts is known.
PayoutTypes ==
    /\ opened \in [Cycles -> 0..(MaxTranche + 1)]
    /\ inFlight \in AllTranches \cup {None}
    /\ outcome \in [AllTranches -> PotChoices \cup {None}]
    /\ shares \in [Cycles -> [Stakers -> Nat]]
    /\ feeBips \in 0..MaxFeeBips
    /\ cover \in [Stakers -> Nat]
    /\ receipt \in [Assets -> [AllTranches -> [Stakers -> Nat \cup {None}]]]
    /\ paid \in [Assets -> [AllTranches -> Nat]]
    /\ paidShares \in [Assets -> [AllTranches -> Nat]]
    /\ dust \in [Assets -> [AllTranches -> Nat]]
    /\ earned \in [Assets -> Nat]
    /\ balance \in [Assets -> Int]

\* Only a cycle with shares has tranches, and a tranche is opened before it is
\* in flight or settled.
OpenedHasShares ==
    /\ \A c \in Cycles : opened[c] > 0 => TotalShares(c) > 0
    /\ \A b \in AllTranches :
          outcome[b] # None \/ inFlight = b => opened[b.cycle] > b.tranche

\* Those who were paid, and what each staker is owed.
PaidStakers(a, b) == {s \in Stakers : receipt[a][b][s] # None}
OwedTo(a, b) == [s \in Stakers |-> Owed(a, b, s)]

\* The books of one tranche: shares and payments counted are those of the
\* stakers paid; before it is settled there are none; it is swept only when
\* all shares are paid, and then nothing of the pot is left.
BookOK(a, b) ==
    /\ \A s \in PaidStakers(a, b) :
          /\ shares[b.cycle][s] > 0
          /\ receipt[a][b][s] <= Owed(a, b, s)
          /\ Owed(a, b, s) * (MaxBips - MaxFeeBips) <= receipt[a][b][s] * MaxBips
    /\ paidShares[a][b] = SumFunctionOnSet(shares[b.cycle], PaidStakers(a, b))
    /\ paid[a][b]
         = SumFunctionOnSet(OwedTo(a, b), PaidStakers(a, b)) + dust[a][b]
    /\ outcome[b] = None => PaidStakers(a, b) = {} /\ dust[a][b] = 0
    /\ dust[a][b] > 0 => FullyPaid(a, b) /\ paid[a][b] = Pot(a, b)

BooksOK == \A a \in Assets, b \in AllTranches : BookOK(a, b)

PayoutInv == PayoutTypes /\ OpenedHasShares /\ BooksOK

-----------------------------------------------------------------------------
(* What follows from it in one state.                                      *)

\* There are finitely many tranches.
LEMMA AllTranchesFinite == IsFiniteSet(AllTranches)
<1>1. IsFiniteSet(0..MaxTranche)
  BY PayoutAssumption, FS_Interval
<1> QED BY <1>1, PayoutAssumption, TranchesOfFinite DEF AllTranches

\* The shares of a cycle.
LEMMA SharesTotal ==
    ASSUME PayoutTypes, NEW c \in Cycles
    PROVE  /\ TotalShares(c) = SumFunctionOnSet(shares[c], Stakers)
           /\ TotalShares(c) \in Nat
           /\ \A s \in Stakers : shares[c][s] \in Nat
<1>1. shares[c] \in [Stakers -> Nat]
  BY DEF PayoutTypes
<1>2. DOMAIN shares[c] = Stakers /\ \A s \in Stakers : shares[c][s] \in Nat
  BY <1>1
<1>3. TotalShares(c) = SumFunctionOnSet(shares[c], Stakers)
  BY <1>2 DEF TotalShares, SumFunction
<1>4. SumFunctionOnSet(shares[c], Stakers) \in Nat
  BY <1>2, PayoutAssumption, SumNat
<1> QED BY <1>2, <1>3, <1>4

\* A pot is a number, and there is none before the tranche is settled.
LEMMA PotNat ==
    ASSUME PayoutTypes, NEW a \in Assets, NEW b \in AllTranches
    PROVE  Pot(a, b) \in Nat /\ (outcome[b] = None => Pot(a, b) = 0)
<1>1. outcome[b] \in Outcomes \cup {None}
  BY PayoutAssumption DEF PayoutTypes
<1> QED BY <1>1 DEF Pot, Outcomes, Assets

\* What a staker of a settled tranche is owed, and the fee on it.
LEMMA OwedBounds ==
    ASSUME PayoutInv, NEW a \in Assets, NEW b \in AllTranches,
           outcome[b] # None, NEW s \in Stakers
    PROVE  /\ TotalShares(b.cycle) \in Nat \ {0}
           /\ Owed(a, b, s) \in Nat
           /\ TotalShares(b.cycle) * Owed(a, b, s)
                <= Pot(a, b) * shares[b.cycle][s]
           /\ Pot(a, b) * shares[b.cycle][s]
                <= TotalShares(b.cycle) * Owed(a, b, s)
                     + TotalShares(b.cycle) - 1
<1>1. b.cycle \in Cycles /\ b.tranche \in Nat
  BY PayoutAssumption DEF AllTranches
<1>2. TotalShares(b.cycle) \in Nat \ {0}
  <2>1. opened[b.cycle] > b.tranche /\ opened[b.cycle] \in Nat
    BY <1>1, PayoutAssumption DEF PayoutInv, OpenedHasShares, PayoutTypes
  <2> QED BY <1>1, <2>1, SharesTotal DEF PayoutInv, OpenedHasShares
<1>3. Pot(a, b) \in Nat /\ shares[b.cycle][s] \in Nat
  BY <1>1, PotNat, SharesTotal DEF PayoutInv
<1> DEFINE x == Pot(a, b) * shares[b.cycle][s]
<1>4. x \in Nat
  BY <1>3
<1>5. Owed(a, b, s) = x \div TotalShares(b.cycle)
  BY DEF Owed
<1> HIDE DEF x
<1>6. /\ Owed(a, b, s) \in Nat
      /\ TotalShares(b.cycle) * Owed(a, b, s) <= x
      /\ x <= TotalShares(b.cycle) * Owed(a, b, s) + TotalShares(b.cycle) - 1
  <2>1. x \div TotalShares(b.cycle) \in Nat
    BY <1>2, <1>4, DivNat
  <2>2. x \in Int
    BY <1>4
  <2> QED BY <1>2, <1>5, <2>1, <2>2, DivBounds
<1> QED BY <1>2, <1>6 DEF x

\* The fee is at most its highest rate of what is owed.
LEMMA FeeBounds ==
    ASSUME PayoutInv, NEW a \in Assets, NEW b \in AllTranches,
           outcome[b] # None, NEW s \in Stakers, shares[b.cycle][s] > 0
    PROVE  /\ Fee(a, b, s) \in Nat
           /\ Fee(a, b, s) <= Owed(a, b, s)
           /\ Net(a, b, s) \in Nat
           /\ Net(a, b, s) <= Owed(a, b, s)
           /\ Owed(a, b, s) * (MaxBips - MaxFeeBips) <= Net(a, b, s) * MaxBips
<1> DEFINE owed  == Owed(a, b, s)
           fee   == Fee(a, b, s)
           sh    == shares[b.cycle][s]
           taxed == sh - cover[s]
<1>1. owed \in Nat
  BY OwedBounds
<1>2. sh \in Nat \ {0} /\ cover[s] \in Nat /\ feeBips \in 0..MaxFeeBips
  <2>1. b.cycle \in Cycles
    BY DEF AllTranches
  <2> QED BY <2>1, SharesTotal DEF PayoutInv, PayoutTypes
<1>3. MaxBips \in Nat \ {0} /\ MaxFeeBips \in 0..MaxBips
  BY PayoutAssumption
<1>4. taxed \in Int /\ taxed <= sh
  BY <1>2
<1>5. fee = IF taxed <= 0 THEN 0
            ELSE (owed * feeBips * taxed) \div (MaxBips * sh)
  BY DEF Fee
<1>6. Net(a, b, s) = owed - fee
  BY DEF Net
<1> HIDE DEF owed, fee, sh, taxed
<1>7. fee \in Nat /\ MaxBips * fee <= MaxFeeBips * owed
  <2>1. CASE taxed <= 0
    <3>1. MaxFeeBips * owed >= 0
      BY <1>1, <1>3
    <3> QED BY <1>3, <1>5, <2>1, <3>1
  <2>2. CASE taxed > 0
    <3> DEFINE x == owed * feeBips * taxed
               d == MaxBips * sh
    <3>1. x \in Nat /\ d \in Nat \ {0}
      <4>1. owed * feeBips \in Nat
        BY <1>1, <1>2
      <4> QED BY <1>2, <1>3, <1>4, <2>2, <4>1
    <3>2. fee = x \div d
      BY <1>5, <2>2, <1>4
    <3> HIDE DEF x, d
    <3>3. fee \in Nat /\ d * fee <= x
      BY <3>1, <3>2, DivBounds, DivNat
    <3>4. x <= sh * (MaxFeeBips * owed)
      <4>1. owed * feeBips \in Nat
        BY <1>1, <1>2
      <4>2. (owed * feeBips) * taxed <= (owed * feeBips) * sh
        BY <1>2, <1>4, <4>1, MulMono
      <4>3. owed * feeBips <= owed * MaxFeeBips
        BY <1>1, <1>2, <1>3, MulMono
      <4>4. owed * MaxFeeBips \in Int
        BY <1>1, <1>3
      <4>5. sh * (owed * feeBips) <= sh * (owed * MaxFeeBips)
        BY <1>2, <4>1, <4>3, <4>4, MulMono
      <4>6. (owed * feeBips) * sh = sh * (owed * feeBips)
        BY <1>2, <4>1
      <4>7. owed * MaxFeeBips = MaxFeeBips * owed
        BY <1>1, <1>3
      <4>8. (owed * feeBips) * taxed \in Int /\ sh * (owed * feeBips) \in Int
            /\ sh * (owed * MaxFeeBips) \in Int
        BY <1>2, <1>4, <4>1, <4>4
      <4> QED BY <4>2, <4>5, <4>6, <4>7, <4>8 DEF x
    <3>5. sh * (MaxBips * fee) <= sh * (MaxFeeBips * owed)
      <4>1. d * fee = sh * (MaxBips * fee)
        BY <1>2, <1>3, <3>3 DEF d
      <4>2. sh * (MaxBips * fee) \in Int /\ sh * (MaxFeeBips * owed) \in Int
        BY <1>1, <1>2, <1>3, <3>3
      <4> QED BY <3>1, <3>3, <3>4, <4>1, <4>2
    <3>6. MaxBips * fee \in Int /\ MaxFeeBips * owed \in Int
      BY <1>1, <1>3, <3>3
    <3> QED BY <1>2, <3>3, <3>5, <3>6, CancelFactor
  <2> QED BY <1>4, <2>1, <2>2
<1>8. fee <= owed
  <2>1. owed * MaxFeeBips <= owed * MaxBips
    BY <1>1, <1>3, MulMono
  <2>2. MaxBips * fee <= MaxBips * owed
    <3>1. MaxFeeBips * owed = owed * MaxFeeBips
          /\ owed * MaxBips = MaxBips * owed
          /\ MaxFeeBips * owed \in Int /\ MaxBips * owed \in Int
          /\ MaxBips * fee \in Int
      BY <1>1, <1>3, <1>7
    <3> QED BY <1>7, <2>1, <3>1
  <2> QED BY <1>1, <1>3, <1>7, <2>2, CancelFactor
<1>9. owed * (MaxBips - MaxFeeBips) <= (owed - fee) * MaxBips
  <2>1. /\ owed * (MaxBips - MaxFeeBips) = MaxBips * owed - MaxFeeBips * owed
        /\ (owed - fee) * MaxBips = MaxBips * owed - MaxBips * fee
        /\ MaxFeeBips * owed \in Int /\ MaxBips * owed \in Int
        /\ MaxBips * fee \in Int
    BY <1>1, <1>3, <1>7
  <2> QED BY <1>7, <2>1
<1> QED BY <1>1, <1>6, <1>7, <1>8, <1>9 DEF owed, fee

\* The sum of the payments booked for a settled tranche, and what it leaves.
LEMMA PaidSum ==
    ASSUME PayoutInv, NEW a \in Assets, NEW b \in AllTranches, outcome[b] # None
    PROVE  /\ SumFunctionOnSet(OwedTo(a, b), PaidStakers(a, b)) \in Nat
           /\ SumFunctionOnSet(OwedTo(a, b), PaidStakers(a, b)) <= Pot(a, b)
           /\ FullyPaid(a, b)
                => Pot(a, b) - SumFunctionOnSet(OwedTo(a, b), PaidStakers(a, b))
                     < Cardinality(PaidStakers(a, b))
<1> DEFINE R     == PaidStakers(a, b)
           sh    == shares[b.cycle]
           part  == OwedTo(a, b)
           total == TotalShares(b.cycle)
<1>1. R \in SUBSET Stakers /\ IsFiniteSet(R) /\ IsFiniteSet(Stakers)
  BY PayoutAssumption, FS_Subset DEF PaidStakers
<1>2. b.cycle \in Cycles
  BY DEF AllTranches
<1>3. /\ total = SumFunctionOnSet(sh, Stakers)
      /\ \A s \in Stakers : sh[s] \in Nat
      /\ Pot(a, b) \in Nat
  BY <1>2, SharesTotal, PotNat DEF PayoutInv
<1>4. total \in Nat \ {0}
  <2>1. Stakers # {} => total \in Nat \ {0}
    BY OwedBounds
  <2>2. total \in Nat
    BY <1>2, SharesTotal DEF PayoutInv
  <2>3. opened[b.cycle] > b.tranche /\ b.tranche \in Nat
        /\ opened[b.cycle] \in Nat
    BY <1>2, PayoutAssumption
       DEF PayoutInv, OpenedHasShares, PayoutTypes, AllTranches
  <2> QED BY <1>2, <2>2, <2>3 DEF PayoutInv, OpenedHasShares
<1>5. \A s \in R : /\ sh[s] \in Nat
                   /\ part[s] \in Nat
                   /\ total * part[s] <= Pot(a, b) * sh[s]
                   /\ Pot(a, b) * sh[s] <= total * part[s] + total - 1
  <2> SUFFICES ASSUME NEW s \in R
               PROVE  /\ sh[s] \in Nat
                      /\ part[s] \in Nat
                      /\ total * part[s] <= Pot(a, b) * sh[s]
                      /\ Pot(a, b) * sh[s] <= total * part[s] + total - 1
    OBVIOUS
  <2>1. s \in Stakers /\ part[s] = Owed(a, b, s)
    BY <1>1 DEF OwedTo
  <2> HIDE DEF R, part
  <2>2. sh[s] \in Nat
    BY <1>3, <2>1
  <2> QED BY <2>1, <2>2, OwedBounds
<1>6. paidShares[a][b] = SumFunctionOnSet(sh, R)
  BY DEF PayoutInv, BooksOK, BookOK
<1> HIDE DEF R, sh, part, total
<1>7. SumFunctionOnSet(sh, R) <= total /\ SumFunctionOnSet(sh, R) \in Nat
  BY <1>1, <1>3, <1>5, SumSubset, SumNat
<1>8. /\ SumFunctionOnSet(part, R) \in Nat
      /\ SumFunctionOnSet(part, R) <= Pot(a, b)
      /\ SumFunctionOnSet(sh, R) = total
           => /\ Cardinality(R) > 0
              /\ Pot(a, b) - SumFunctionOnSet(part, R) < Cardinality(R)
  BY <1>1, <1>3, <1>4, <1>5, <1>7, PartsOfPot
<1>9. FullyPaid(a, b) => SumFunctionOnSet(sh, R) = total
  BY <1>4, <1>6, <1>7 DEF FullyPaid, total
<1> QED BY <1>8, <1>9 DEF R, part

\* All shares are paid exactly when all who have some are.
LEMMA FullMeansAll ==
    ASSUME PayoutInv, NEW a \in Assets, NEW b \in AllTranches
    PROVE  FullyPaid(a, b)
             <=> \A s \in Stakers : shares[b.cycle][s] > 0
                                      => receipt[a][b][s] # None
<1> DEFINE R     == PaidStakers(a, b)
           sh    == shares[b.cycle]
           total == TotalShares(b.cycle)
<1>1. /\ R \in SUBSET Stakers /\ IsFiniteSet(Stakers)
      /\ \A s \in Stakers : s \in R <=> receipt[a][b][s] # None
  BY PayoutAssumption DEF PaidStakers
<1>2. /\ total = SumFunctionOnSet(sh, Stakers)
      /\ \A s \in Stakers : sh[s] \in Nat
  <2>1. b.cycle \in Cycles
    BY DEF AllTranches
  <2> QED BY <2>1, SharesTotal DEF PayoutInv
<1>3. FullyPaid(a, b) <=> SumFunctionOnSet(sh, R) >= SumFunctionOnSet(sh, Stakers)
  BY <1>2 DEF FullyPaid, PayoutInv, BooksOK, BookOK
<1> HIDE DEF R, sh, total
<1>4. FullyPaid(a, b) <=> \A s \in Stakers : sh[s] > 0 => s \in R
  BY <1>1, <1>2, <1>3, SumOfAll
<1> QED BY <1>1, <1>4 DEF sh

\* No tranche has paid more than its pot, and what is left is a number.
LEMMA ResidueNat ==
    ASSUME PayoutInv, NEW a \in Assets, NEW b \in AllTranches
    PROVE  /\ paid[a][b] <= Pot(a, b)
           /\ Residue(a, b) \in Nat
           /\ outcome[b] = None => Pot(a, b) = 0 /\ paid[a][b] = 0
<1>1. paid[a][b] \in Nat /\ dust[a][b] \in Nat /\ Pot(a, b) \in Nat
  BY PotNat DEF PayoutInv, PayoutTypes
<1>2. /\ paid[a][b]
           = SumFunctionOnSet(OwedTo(a, b), PaidStakers(a, b)) + dust[a][b]
      /\ outcome[b] = None => PaidStakers(a, b) = {} /\ dust[a][b] = 0
      /\ dust[a][b] > 0 => paid[a][b] = Pot(a, b)
  BY DEF PayoutInv, BooksOK, BookOK
<1>3. CASE outcome[b] = None
  <2>1. SumFunctionOnSet(OwedTo(a, b), PaidStakers(a, b)) = 0
    BY <1>2, <1>3, SumEmpty
  <2>2. Pot(a, b) = 0
    BY <1>3, PotNat DEF PayoutInv
  <2>3. paid[a][b] = 0
    BY <1>2, <1>3, <2>1
  <2> QED BY <2>2, <2>3 DEF Residue
<1>4. CASE outcome[b] # None
  <2>1. SumFunctionOnSet(OwedTo(a, b), PaidStakers(a, b)) <= Pot(a, b)
        /\ SumFunctionOnSet(OwedTo(a, b), PaidStakers(a, b)) \in Nat
    BY <1>4, PaidSum
  <2>2. paid[a][b] <= Pot(a, b)
    BY <1>1, <1>2, <2>1
  <2> QED BY <1>1, <1>4, <2>2 DEF Residue
<1> QED BY <1>3, <1>4

-----------------------------------------------------------------------------
(* Steps.                                                                  *)

\* A step that leaves the books of a tranche, its outcome and the shares of its
\* cycle alone keeps them sound.
LEMMA SameBook ==
    ASSUME PayoutInv, NEW a \in Assets, NEW b \in AllTranches,
           receipt'[a][b] = receipt[a][b],
           paid'[a][b] = paid[a][b],
           paidShares'[a][b] = paidShares[a][b],
           dust'[a][b] = dust[a][b],
           outcome'[b] = outcome[b],
           shares'[b.cycle] = shares[b.cycle]
    PROVE  BookOK(a, b)' /\ Residue(a, b)' = Residue(a, b)
<1>1. /\ Pot(a, b)' = Pot(a, b)
      /\ TotalShares(b.cycle)' = TotalShares(b.cycle)
      /\ PaidStakers(a, b)' = PaidStakers(a, b)
  BY DEF Pot, TotalShares, PaidStakers
<1>2. \A s : Owed(a, b, s)' = Owed(a, b, s)
  BY <1>1 DEF Owed
<1>3. OwedTo(a, b)' = OwedTo(a, b)
  BY <1>2 DEF OwedTo
<1>4. BookOK(a, b)
  BY DEF PayoutInv, BooksOK
<1>5. FullyPaid(a, b)' <=> FullyPaid(a, b)
  BY <1>1 DEF FullyPaid
<1>6. Residue(a, b)' = Residue(a, b)
  BY <1>1 DEF Residue
<1> QED BY <1>1, <1>2, <1>3, <1>4, <1>5, <1>6 DEF BookOK

\* Those of S who are still to be paid.
Due(a, S, b) == {s \in S : shares[b.cycle][s] > 0 /\ receipt[a][b][s] = None}

\* What a batch pays and keeps as fees is what its stakers are owed.
LEMMA BatchTotals ==
    ASSUME PayoutInv, NEW a \in Assets, NEW b \in AllTranches,
           outcome[b] # None, NEW T \in SUBSET Stakers,
           \A s \in T : shares[b.cycle][s] > 0
    PROVE  /\ SumFunction([s \in T |-> Owed(a, b, s)])
                = SumFunctionOnSet(OwedTo(a, b), T)
           /\ SumFunction([s \in T |-> shares[b.cycle][s]])
                = SumFunctionOnSet(shares[b.cycle], T)
           /\ SumFunctionOnSet(shares[b.cycle], T) \in Nat
           /\ SumFunctionOnSet(OwedTo(a, b), T) \in Nat
           /\ SumFunction([s \in T |-> Fee(a, b, s)]) \in Nat
           /\ SumFunction([s \in T |-> Net(a, b, s)]) \in Nat
           /\ SumFunctionOnSet(OwedTo(a, b), T)
                = SumFunction([s \in T |-> Net(a, b, s)])
                    + SumFunction([s \in T |-> Fee(a, b, s)])
<1> DEFINE owed  == [s \in T |-> Owed(a, b, s)]
           sh    == [s \in T |-> shares[b.cycle][s]]
           fee   == [s \in T |-> Fee(a, b, s)]
           net   == [s \in T |-> Net(a, b, s)]
           total == OwedTo(a, b)
           of    == shares[b.cycle]
<1>1. IsFiniteSet(T)
  BY PayoutAssumption, FS_Subset
<1>2. \A s \in T : /\ owed[s] \in Nat /\ fee[s] \in Nat /\ net[s] \in Nat
                   /\ owed[s] = net[s] + fee[s]
                   /\ total[s] = owed[s]
  <2> SUFFICES ASSUME NEW s \in T
               PROVE  /\ owed[s] \in Nat /\ fee[s] \in Nat /\ net[s] \in Nat
                      /\ owed[s] = net[s] + fee[s]
                      /\ total[s] = owed[s]
    OBVIOUS
  <2>1. Owed(a, b, s) \in Nat /\ Fee(a, b, s) \in Nat /\ Net(a, b, s) \in Nat
    BY OwedBounds, FeeBounds
  <2>2. Owed(a, b, s) = Net(a, b, s) + Fee(a, b, s)
    BY <2>1 DEF Net
  <2>3. total[s] = Owed(a, b, s)
    BY DEF OwedTo
  <2> HIDE DEF total
  <2> QED BY <2>1, <2>2, <2>3
<1>3. \A s \in T : of[s] \in Nat /\ sh[s] = of[s]
  <2>1. b.cycle \in Cycles
    BY DEF AllTranches
  <2> QED BY <2>1, SharesTotal DEF PayoutInv
<1>4. DOMAIN owed = T /\ DOMAIN sh = T /\ DOMAIN fee = T /\ DOMAIN net = T
  OBVIOUS
<1> HIDE DEF owed, sh, fee, net, total, of
<1>5. \A s \in T : total[s] \in Int /\ total[s] \in Nat
  BY <1>2
<1>6. SumFunction(owed) = SumFunctionOnSet(total, T)
  <2>1. \A s \in T : owed[s] = total[s]
    BY <1>2
  <2> QED BY <1>1, <1>4, <1>5, <2>1, SumOfTable
<1>7. SumFunction(sh) = SumFunctionOnSet(of, T)
  <2>1. \A s \in T : of[s] \in Int /\ sh[s] = of[s]
    BY <1>3
  <2> QED BY <1>1, <1>4, <2>1, SumOfTable
<1>8. SumFunctionOnSet(of, T) \in Nat /\ SumFunctionOnSet(total, T) \in Nat
  BY <1>1, <1>3, <1>5, SumNat
<1>9. SumFunction(fee) = SumFunctionOnSet(fee, T)
      /\ SumFunction(net) = SumFunctionOnSet(net, T)
  BY <1>4 DEF SumFunction
<1>10. SumFunctionOnSet(fee, T) \in Nat /\ SumFunctionOnSet(net, T) \in Nat
  BY <1>1, <1>2, SumNat
<1>11. SumFunctionOnSet(total, T)
         = SumFunctionOnSet(net, T) + SumFunctionOnSet(fee, T)
  <2>1. /\ IntegersOn(net, T) /\ IntegersOn(fee, T)
        /\ \A s \in T : total[s] = net[s] + fee[s]
    BY <1>2 DEF IntegersOn
  <2> QED BY <1>1, <2>1, SumPlus
<1> QED BY <1>6, <1>7, <1>8, <1>9, <1>10, <1>11 DEF owed, sh, fee, net, total, of

\* A table by asset and tranche in which one entry changes.
LEMMA OneEntry ==
    ASSUME NEW T, NEW f, f \in [Assets -> [AllTranches -> T]], NEW a \in Assets,
           NEW b \in AllTranches, NEW x \in T, NEW g,
           g = [f EXCEPT ![a][b] = x]
    PROVE  /\ g \in [Assets -> [AllTranches -> T]]
           /\ g[a][b] = x
           /\ \A c \in Assets, d \in AllTranches :
                 ~(c = a /\ d = b) => g[c][d] = f[c][d]
  OBVIOUS

\* The books of the other tranches stay.
OtherBooksSame(a, b) ==
    \A c \in Assets, d \in AllTranches : ~(c = a /\ d = b) =>
        /\ receipt'[c][d] = receipt[c][d]
        /\ paid'[c][d] = paid[c][d]
        /\ paidShares'[c][d] = paidShares[c][d]

\* A batch, entry by entry.
LEMMA PayEntries ==
    ASSUME PayoutInv, NEW a \in Assets, NEW S \in SUBSET Stakers,
           NEW b \in AllTranches, outcome[b] # None, Pay(a, S, b)
    PROVE  /\ PayoutTypes'
           /\ paid'[a][b] = paid[a][b] + SumFunctionOnSet(OwedTo(a, b), Due(a, S, b))
           /\ paidShares'[a][b] = paidShares[a][b]
                + SumFunctionOnSet(shares[b.cycle], Due(a, S, b))
           /\ SumFunctionOnSet(OwedTo(a, b), Due(a, S, b)) \in Nat
           /\ SumFunctionOnSet(shares[b.cycle], Due(a, S, b)) \in Nat
           /\ \A s \in Stakers : receipt'[a][b][s] =
                 IF s \in Due(a, S, b) THEN Net(a, b, s) ELSE receipt[a][b][s]
           /\ balance'[a] - earned'[a]
                = balance[a] - earned[a]
                    - SumFunctionOnSet(OwedTo(a, b), Due(a, S, b))
           /\ OtherBooksSame(a, b)
           /\ \A c \in Assets \ {a} :
                 balance'[c] = balance[c] /\ earned'[c] = earned[c]
           /\ UNCHANGED <<lifecycleVars, terms, dust>>
<1> DEFINE due  == Due(a, S, b)
           row  == [s \in Stakers |-> IF s \in due THEN Net(a, b, s)
                                      ELSE receipt[a][b][s]]
           owed == SumFunctionOnSet(OwedTo(a, b), due)
           cut  == SumFunctionOnSet(shares[b.cycle], due)
           nets == SumFunction([s \in due |-> Net(a, b, s)])
           fees == SumFunction([s \in due |-> Fee(a, b, s)])
           paidNow   == paid[a][b] + owed
           sharesNow == paidShares[a][b] + cut
<1>1. due \in SUBSET Stakers /\ \A s \in due : shares[b.cycle][s] > 0
  BY DEF Due
<1>2. /\ owed \in Nat /\ cut \in Nat /\ nets \in Nat /\ fees \in Nat
      /\ owed = nets + fees
      /\ SumFunction([s \in due |-> Owed(a, b, s)]) = owed
      /\ SumFunction([s \in due |-> shares[b.cycle][s]]) = cut
  BY <1>1, BatchTotals
<1>3. row \in [Stakers -> Nat \cup {None}]
  <2>1. \A s \in Stakers : receipt[a][b][s] \in Nat \cup {None}
    BY DEF PayoutInv, PayoutTypes
  <2>2. \A s \in due : Net(a, b, s) \in Nat
    BY <1>1, FeeBounds
  <2> QED BY <2>1, <2>2
<1>4. /\ receipt' = [receipt EXCEPT ![a][b] = row]
      /\ paid' = [paid EXCEPT ![a][b] =
                    @ + SumFunction([s \in due |-> Owed(a, b, s)])]
      /\ paidShares' = [paidShares EXCEPT ![a][b] =
                          @ + SumFunction([s \in due |-> shares[b.cycle][s]])]
      /\ earned' = [earned EXCEPT ![a] = @ + fees]
      /\ balance' = [balance EXCEPT ![a] = @ - nets]
      /\ UNCHANGED <<lifecycleVars, terms, dust>>
  BY DEF Pay, Due
<1>5. \A s \in Stakers : row[s] = IF s \in due THEN Net(a, b, s)
                                  ELSE receipt[a][b][s]
  OBVIOUS
<1> HIDE DEF row, owed, cut, nets, fees, due
<1>6. /\ receipt \in [Assets -> [AllTranches -> [Stakers -> Nat \cup {None}]]]
      /\ paid \in [Assets -> [AllTranches -> Nat]]
      /\ paidShares \in [Assets -> [AllTranches -> Nat]]
      /\ earned \in [Assets -> Nat]
      /\ balance \in [Assets -> Int]
  BY DEF PayoutInv, PayoutTypes
<1>7. paidNow \in Nat /\ sharesNow \in Nat
  <2>1. paid[a][b] \in Nat /\ paidShares[a][b] \in Nat
    BY <1>6
  <2> QED BY <1>2, <2>1
<1>8. /\ paid' = [paid EXCEPT ![a][b] = paidNow]
      /\ paidShares' = [paidShares EXCEPT ![a][b] = sharesNow]
  BY <1>2, <1>4, <1>6
<1> HIDE DEF paidNow, sharesNow
<1>9. /\ receipt' \in [Assets -> [AllTranches -> [Stakers -> Nat \cup {None}]]]
      /\ receipt'[a][b] = row
      /\ \A c \in Assets, d \in AllTranches :
            ~(c = a /\ d = b) => receipt'[c][d] = receipt[c][d]
  BY <1>3, <1>4, <1>6, OneEntry
<1>10. /\ paid' \in [Assets -> [AllTranches -> Nat]]
       /\ paid'[a][b] = paidNow
       /\ \A c \in Assets, d \in AllTranches :
             ~(c = a /\ d = b) => paid'[c][d] = paid[c][d]
  BY <1>6, <1>7, <1>8, OneEntry
<1>11. /\ paidShares' \in [Assets -> [AllTranches -> Nat]]
       /\ paidShares'[a][b] = sharesNow
       /\ \A c \in Assets, d \in AllTranches :
             ~(c = a /\ d = b) => paidShares'[c][d] = paidShares[c][d]
  BY <1>6, <1>7, <1>8, OneEntry
<1>12. /\ earned' \in [Assets -> Nat] /\ balance' \in [Assets -> Int]
       /\ earned'[a] = earned[a] + fees /\ balance'[a] = balance[a] - nets
       /\ \A c \in Assets \ {a} :
             balance'[c] = balance[c] /\ earned'[c] = earned[c]
  BY <1>2, <1>4, <1>6
<1>13. balance'[a] - earned'[a] = balance[a] - earned[a] - owed
  <2>1. balance[a] \in Int /\ earned[a] \in Nat
    BY <1>6
  <2> QED BY <1>2, <1>12, <2>1
<1>14. PayoutTypes'
  BY <1>4, <1>9, <1>10, <1>11, <1>12
     DEF PayoutInv, PayoutTypes, lifecycleVars, terms
<1>15. \A s \in Stakers : receipt'[a][b][s] =
          IF s \in due THEN Net(a, b, s) ELSE receipt[a][b][s]
  BY <1>5, <1>9
<1>16. OtherBooksSame(a, b)
  BY <1>9, <1>10, <1>11 DEF OtherBooksSame
<1> QED
  BY <1>2, <1>4, <1>10, <1>11, <1>12, <1>13, <1>14, <1>15, <1>16
     DEF owed, cut, due, paidNow, sharesNow

\* Whom a batch pays is paid once and for the first time.
LEMMA PayBook ==
    ASSUME PayoutInv, NEW a \in Assets, NEW S \in SUBSET Stakers,
           NEW b \in AllTranches, outcome[b] # None, Pay(a, S, b)
    PROVE  /\ BookOK(a, b)'
           /\ Residue(a, b)' = Residue(a, b)
                - SumFunctionOnSet(OwedTo(a, b), Due(a, S, b))
<1> DEFINE due  == Due(a, S, b)
           R    == PaidStakers(a, b)
           sh   == shares[b.cycle]
           part == OwedTo(a, b)
           owed == SumFunctionOnSet(part, due)
           cut  == SumFunctionOnSet(sh, due)
<1>1. /\ due \in SUBSET Stakers /\ IsFiniteSet(due)
      /\ R \in SUBSET Stakers /\ IsFiniteSet(R)
      /\ due \cap R = {}
      /\ \A s \in due : sh[s] > 0
  BY PayoutAssumption, FS_Subset DEF Due, PaidStakers
<1>2. /\ paid'[a][b] = paid[a][b] + owed
      /\ paidShares'[a][b] = paidShares[a][b] + cut
      /\ owed \in Nat /\ cut \in Nat
      /\ \A s \in Stakers : receipt'[a][b][s] =
            IF s \in due THEN Net(a, b, s) ELSE receipt[a][b][s]
      /\ UNCHANGED <<lifecycleVars, terms, dust>>
  <2>1. paid'[a][b] = paid[a][b] + owed
    BY PayEntries
  <2>2. paidShares'[a][b] = paidShares[a][b] + cut
    BY PayEntries
  <2>3. owed \in Nat /\ cut \in Nat
    BY PayEntries
  <2>4. \A s \in Stakers : receipt'[a][b][s] =
           IF s \in due THEN Net(a, b, s) ELSE receipt[a][b][s]
    BY PayEntries
  <2>5. UNCHANGED <<lifecycleVars, terms, dust>>
    BY PayEntries
  <2> QED BY <2>1, <2>2, <2>3, <2>4, <2>5
<1>3. /\ Pot(a, b)' = Pot(a, b)
      /\ \A c : TotalShares(c)' = TotalShares(c)
      /\ UNCHANGED <<shares, dust, outcome>>
  BY <1>2 DEF Pot, TotalShares, lifecycleVars, terms
<1>4. (\A s : Owed(a, b, s)' = Owed(a, b, s)) /\ OwedTo(a, b)' = part
  BY <1>3 DEF Owed, OwedTo
<1>5. \A s \in due : /\ Net(a, b, s) \in Nat
                     /\ Net(a, b, s) <= Owed(a, b, s)
                     /\ Owed(a, b, s) * (MaxBips - MaxFeeBips)
                          <= Net(a, b, s) * MaxBips
  BY <1>1, FeeBounds
<1>6. PaidStakers(a, b)' = R \cup due
  <2>1. \A s \in due : Net(a, b, s) # None
    BY <1>5, PayoutAssumption
  <2> QED BY <1>1, <1>2, <2>1 DEF PaidStakers
<1>7. /\ \A s \in R : /\ sh[s] > 0
                      /\ receipt[a][b][s] <= Owed(a, b, s)
                      /\ Owed(a, b, s) * (MaxBips - MaxFeeBips)
                           <= receipt[a][b][s] * MaxBips
      /\ paidShares[a][b] = SumFunctionOnSet(sh, R)
      /\ paid[a][b] = SumFunctionOnSet(part, R) + dust[a][b]
      /\ dust[a][b] > 0 => FullyPaid(a, b) /\ paid[a][b] = Pot(a, b)
  BY DEF PayoutInv, BooksOK, BookOK
<1>8. \A s \in Stakers : sh[s] \in Nat /\ part[s] \in Nat
  <2>1. b.cycle \in Cycles
    BY DEF AllTranches
  <2> QED BY <2>1, SharesTotal, OwedBounds DEF PayoutInv, OwedTo
<1>9. /\ paid[a][b] \in Nat /\ paidShares[a][b] \in Nat /\ dust[a][b] \in Nat
      /\ Pot(a, b) \in Nat
  BY PotNat DEF PayoutInv, PayoutTypes
<1>10. /\ SumFunctionOnSet(sh, R \cup due) = SumFunctionOnSet(sh, R) + cut
       /\ SumFunctionOnSet(part, R \cup due) = SumFunctionOnSet(part, R) + owed
       /\ SumFunctionOnSet(part, R) \in Nat
  <2> HIDE DEF sh, part, R, due
  <2>1. IntegersOn(sh, R \cup due) /\ IntegersOn(part, R \cup due)
    BY <1>1, <1>8 DEF IntegersOn
  <2>2. SumFunctionOnSet(part, R) \in Nat
    BY <1>1, <1>8, SumNat
  <2> QED BY <1>1, <2>1, <2>2, SumUnion
<1>11. dust[a][b] > 0 => due = {} /\ owed = 0
  <2>1. dust[a][b] > 0 => due = {}
    BY <1>7, FullMeansAll DEF Due
  <2> QED BY <2>1, SumEmpty
<1> HIDE DEF due, R, sh, part, owed, cut
<1>12. Residue(a, b)' = Residue(a, b) - owed
  BY <1>2, <1>3, <1>9 DEF Residue
<1>13. paidShares'[a][b] = SumFunctionOnSet(sh, R \cup due)
  BY <1>2, <1>7, <1>10
<1>14. paid'[a][b] = SumFunctionOnSet(part, R \cup due) + dust'[a][b]
  BY <1>2, <1>3, <1>7, <1>9, <1>10
<1>15. \A s \in R \cup due :
          /\ sh[s] > 0
          /\ receipt'[a][b][s] <= Owed(a, b, s)
          /\ Owed(a, b, s) * (MaxBips - MaxFeeBips)
               <= receipt'[a][b][s] * MaxBips
  <2> SUFFICES ASSUME NEW s \in R \cup due
               PROVE  /\ sh[s] > 0
                      /\ receipt'[a][b][s] <= Owed(a, b, s)
                      /\ Owed(a, b, s) * (MaxBips - MaxFeeBips)
                           <= receipt'[a][b][s] * MaxBips
    OBVIOUS
  <2>1. CASE s \in due
    <3>1. receipt'[a][b][s] = Net(a, b, s)
      BY <1>1, <1>2, <2>1
    <3> QED BY <1>1, <1>5, <2>1, <3>1
  <2>2. CASE s \notin due
    <3>1. receipt'[a][b][s] = receipt[a][b][s] /\ s \in R
      BY <1>1, <1>2, <2>2
    <3> QED BY <1>7, <3>1
  <2> QED BY <2>1, <2>2
<1>16. dust'[a][b] > 0 => FullyPaid(a, b)' /\ paid'[a][b] = Pot(a, b)
  <2> SUFFICES ASSUME dust[a][b] > 0
               PROVE  FullyPaid(a, b)' /\ paid'[a][b] = Pot(a, b)
    BY <1>3
  <2>1. paid'[a][b] = Pot(a, b)
    BY <1>2, <1>7, <1>9, <1>11
  <2>2. paidShares'[a][b] >= paidShares[a][b]
    BY <1>2, <1>9
  <2>3. TotalShares(b.cycle) \in Nat
    <3>1. b.cycle \in Cycles
      BY DEF AllTranches
    <3> QED BY <3>1, SharesTotal DEF PayoutInv
  <2>4. paidShares[a][b] >= TotalShares(b.cycle)
    BY <1>7 DEF FullyPaid
  <2>5. paidShares'[a][b] \in Nat
    BY <1>2, <1>9
  <2>6. FullyPaid(a, b)'
    BY <1>3, <1>9, <2>2, <2>3, <2>4, <2>5 DEF FullyPaid
  <2> QED BY <2>1, <2>6
<1>17. outcome'[b] # None
  BY <1>3
<1> QED
  BY <1>3, <1>4, <1>6, <1>12, <1>13, <1>14, <1>15, <1>16, <1>17
     DEF BookOK, sh, owed, part, due

\* What a step may do to the money of an asset: nothing, or it changes what is
\* left of one tranche and the wallet, less the fees, by the same amount.
Untouched(a) ==
    /\ \A b \in AllTranches : Residue(a, b)' = Residue(a, b)
    /\ balance'[a] - earned'[a] = balance[a] - earned[a]

TouchesOne(a, b) ==
    /\ \A d \in AllTranches \ {b} : Residue(a, d)' = Residue(a, d)
    /\ balance'[a] - earned'[a] - Residue(a, b)'
         = balance[a] - earned[a] - Residue(a, b)

MoneyStep ==
    \A a \in Assets : Untouched(a) \/ \E b \in AllTranches : TouchesOne(a, b)

\* A batch.
LEMMA PayStep ==
    ASSUME PayoutInv, NEW a \in Assets, NEW S \in SUBSET Stakers,
           NEW b \in AllTranches, outcome[b] # None, Pay(a, S, b)
    PROVE  PayoutInv' /\ MoneyStep
<1> DEFINE owed == SumFunctionOnSet(OwedTo(a, b), Due(a, S, b))
<1>0. OtherBooksSame(a, b)
  BY PayEntries
<1>1. PayoutTypes' /\ UNCHANGED <<lifecycleVars, terms, dust>>
  <2>1. PayoutTypes'
    BY PayEntries
  <2>2. UNCHANGED <<lifecycleVars, terms, dust>>
    BY PayEntries
  <2> QED BY <2>1, <2>2
<1>2. BookOK(a, b)' /\ Residue(a, b)' = Residue(a, b) - owed
  BY PayBook
<1>3. \A c \in Assets, d \in AllTranches : ~(c = a /\ d = b) =>
         BookOK(c, d)' /\ Residue(c, d)' = Residue(c, d)
  <2> SUFFICES ASSUME NEW c \in Assets, NEW d \in AllTranches, ~(c = a /\ d = b)
               PROVE  BookOK(c, d)' /\ Residue(c, d)' = Residue(c, d)
    OBVIOUS
  <2>1. /\ receipt'[c][d] = receipt[c][d]
        /\ paid'[c][d] = paid[c][d]
        /\ paidShares'[c][d] = paidShares[c][d]
    BY <1>0 DEF OtherBooksSame
  <2>2. dust'[c][d] = dust[c][d] /\ outcome'[d] = outcome[d] /\ UNCHANGED shares
    BY <1>1 DEF lifecycleVars, terms
  <2> QED BY <2>1, <2>2, SameBook
<1>4. BooksOK'
  <2>1. \A c \in Assets, d \in AllTranches : BookOK(c, d)'
    BY <1>2, <1>3
  <2> QED BY <2>1 DEF BooksOK
<1>5. OpenedHasShares'
  BY <1>1 DEF PayoutInv, OpenedHasShares, TotalShares, lifecycleVars, terms
<1>6. balance'[a] - earned'[a] = balance[a] - earned[a] - owed
  BY PayEntries
<1>7. owed \in Nat /\ balance[a] \in Int /\ earned[a] \in Int
      /\ Residue(a, b) \in Int /\ balance'[a] \in Int /\ earned'[a] \in Int
  <2>1. owed \in Nat
    BY PayEntries
  <2> QED BY <1>1, <2>1, ResidueNat DEF PayoutInv, PayoutTypes
<1> HIDE DEF owed
<1>8. TouchesOne(a, b)
  BY <1>2, <1>3, <1>6, <1>7 DEF TouchesOne
<1>9. \A c \in Assets \ {a} : balance'[c] = balance[c] /\ earned'[c] = earned[c]
  BY PayEntries
<1>10. \A c \in Assets \ {a} : Untouched(c)
  BY <1>3, <1>9 DEF Untouched
<1> QED BY <1>1, <1>4, <1>5, <1>8, <1>10 DEF PayoutInv, MoneyStep

\* A sweep leaves nothing of the pot.
LEMMA SweepStep ==
    ASSUME PayoutInv, NEW a \in Assets, NEW b \in AllTranches,
           outcome[b] # None, Sweep(a, b)
    PROVE  PayoutInv' /\ MoneyStep
<1> DEFINE left == Residue(a, b)
           paidNow == paid[a][b] + left
           dustNow == dust[a][b] + left
<1>1. /\ FullyPaid(a, b) /\ left > 0 /\ left \in Nat
      /\ paid[a][b] \in Nat /\ dust[a][b] \in Nat /\ Pot(a, b) \in Nat
      /\ left = Pot(a, b) - paid[a][b]
      /\ paid \in [Assets -> [AllTranches -> Nat]]
      /\ dust \in [Assets -> [AllTranches -> Nat]]
      /\ balance \in [Assets -> Int] /\ earned \in [Assets -> Nat]
  BY ResidueNat, PotNat DEF Sweep, Residue, PayoutInv, PayoutTypes
<1>2. /\ paid' = [paid EXCEPT ![a][b] = paidNow]
      /\ dust' = [dust EXCEPT ![a][b] = dustNow]
      /\ balance' = [balance EXCEPT ![a] = @ - left]
      /\ UNCHANGED <<lifecycleVars, terms, receipt, paidShares, earned>>
  BY <1>1 DEF Sweep
<1> HIDE DEF left
<1>3. paidNow \in Nat /\ dustNow \in Nat
  BY <1>1
<1> HIDE DEF paidNow, dustNow
<1>4. /\ paid' \in [Assets -> [AllTranches -> Nat]]
      /\ paid'[a][b] = paidNow
      /\ \A c \in Assets, d \in AllTranches :
            ~(c = a /\ d = b) => paid'[c][d] = paid[c][d]
  BY <1>1, <1>2, <1>3, OneEntry
<1>5. /\ dust' \in [Assets -> [AllTranches -> Nat]]
      /\ dust'[a][b] = dustNow
      /\ \A c \in Assets, d \in AllTranches :
            ~(c = a /\ d = b) => dust'[c][d] = dust[c][d]
  BY <1>1, <1>2, <1>3, OneEntry
<1>6. balance' \in [Assets -> Int] /\ balance'[a] = balance[a] - left
      /\ \A c \in Assets \ {a} : balance'[c] = balance[c]
  BY <1>1, <1>2
<1>7. UNCHANGED <<opened, inFlight, outcome, shares, feeBips, cover, receipt,
                  paidShares, earned>>
  BY <1>2 DEF lifecycleVars, terms
<1>8. PayoutTypes'
  BY <1>4, <1>5, <1>6, <1>7 DEF PayoutInv, PayoutTypes
<1>9. OpenedHasShares'
  BY <1>7 DEF PayoutInv, OpenedHasShares, TotalShares
<1>10. \A c \in Assets, d \in AllTranches : ~(c = a /\ d = b) =>
         BookOK(c, d)' /\ Residue(c, d)' = Residue(c, d)
  BY <1>4, <1>5, <1>7, SameBook
<1>11. /\ Pot(a, b)' = Pot(a, b)
       /\ \A c : TotalShares(c)' = TotalShares(c)
       /\ PaidStakers(a, b)' = PaidStakers(a, b)
  BY <1>7 DEF Pot, TotalShares, PaidStakers
<1>12. (\A s : Owed(a, b, s)' = Owed(a, b, s)) /\ OwedTo(a, b)' = OwedTo(a, b)
  BY <1>7, <1>11 DEF Owed, OwedTo
<1>13. BookOK(a, b)'
  <2>1. BookOK(a, b)
    BY DEF PayoutInv, BooksOK
  <2>2. FullyPaid(a, b)'
    BY <1>1, <1>7, <1>11 DEF FullyPaid
  <2>3. paid'[a][b] = Pot(a, b)
    BY <1>1, <1>4 DEF paidNow
  <2>4. paid[a][b] = SumFunctionOnSet(OwedTo(a, b), PaidStakers(a, b))
                       + dust[a][b]
    BY <2>1 DEF BookOK
  <2>5. SumFunctionOnSet(OwedTo(a, b), PaidStakers(a, b)) \in Nat
    BY PaidSum
  <2>6. paid'[a][b] = SumFunctionOnSet(OwedTo(a, b), PaidStakers(a, b))
                        + dust'[a][b]
    BY <1>1, <1>4, <1>5, <2>4, <2>5 DEF paidNow, dustNow
  <2>7. outcome'[b] # None
    BY <1>7
  <2> QED BY <1>7, <1>11, <1>12, <2>1, <2>2, <2>3, <2>6, <2>7 DEF BookOK
<1>14. BooksOK'
  <2>1. \A c \in Assets, d \in AllTranches : BookOK(c, d)'
    BY <1>10, <1>13
  <2> QED BY <2>1 DEF BooksOK
<1>15. TouchesOne(a, b)
  <2>1. Residue(a, b)' = 0
    BY <1>1, <1>4, <1>11 DEF Residue, paidNow
  <2>2. balance[a] \in Int /\ earned[a] \in Int
    BY <1>1
  <2>3. Residue(a, b) = left
    BY DEF left
  <2> QED BY <1>1, <1>6, <1>7, <1>10, <2>1, <2>2, <2>3 DEF TouchesOne
<1>16. \A c \in Assets \ {a} : Untouched(c)
  BY <1>6, <1>7, <1>10 DEF Untouched
<1> QED BY <1>8, <1>9, <1>14, <1>15, <1>16 DEF PayoutInv, MoneyStep

\* What leaves the books and the outcomes alone.
LEMMA QuietStep ==
    ASSUME PayoutInv, PayoutTypes', UNCHANGED <<shares, books, outcome>>,
           \A a \in Assets : balance'[a] - earned'[a] = balance[a] - earned[a]
    PROVE  BooksOK' /\ MoneyStep
<1>1. \A a \in Assets, b \in AllTranches :
         BookOK(a, b)' /\ Residue(a, b)' = Residue(a, b)
  BY SameBook DEF books
<1>2. BooksOK'
  BY <1>1 DEF BooksOK
<1> QED BY <1>1, <1>2 DEF MoneyStep, Untouched

\* A claim opens the next tranche of a cycle that has shares.
LEMMA OpenStep ==
    ASSUME PayoutInv, NEW c \in Cycles, OpenTranche(c)
    PROVE  PayoutInv' /\ MoneyStep
<1> DEFINE new == [cycle |-> c, tranche |-> opened[c]]
<1>1. /\ TotalShares(c) > 0
      /\ opened[c] \in 0..MaxTranche /\ opened \in [Cycles -> 0..(MaxTranche + 1)]
      /\ inFlight' = new
      /\ opened' = [opened EXCEPT ![c] = @ + 1]
      /\ UNCHANGED <<outcome, shares, feeBips, cover, receipt, paid, paidShares,
                     dust, earned, balance>>
  BY PayoutAssumption
     DEF OpenTranche, Open, terms, books, PayoutInv, PayoutTypes
<1>2. new \in AllTranches
  BY <1>1 DEF AllTranches
<1>3. opened' \in [Cycles -> 0..(MaxTranche + 1)]
  BY <1>1, PayoutAssumption
<1>4. PayoutTypes'
  BY <1>1, <1>2, <1>3 DEF PayoutInv, PayoutTypes
<1>5. BooksOK' /\ MoneyStep
  BY <1>1, <1>4, QuietStep DEF books
<1>6. \A d \in Cycles : /\ opened'[d] >= opened[d]
                        /\ opened[d] \in Nat /\ opened'[d] \in Nat
                        /\ opened'[d] > opened[d] => d = c
  BY <1>1, <1>3, PayoutAssumption
<1>7. \A d : TotalShares(d)' = TotalShares(d)
  BY <1>1 DEF TotalShares
<1>8. \A d \in Cycles : opened'[d] > 0 => TotalShares(d) > 0
  BY <1>1, <1>6 DEF PayoutInv, OpenedHasShares
<1>9. ASSUME NEW b \in AllTranches, outcome'[b] # None \/ inFlight' = b
      PROVE  opened'[b.cycle] > b.tranche
  <2>1. b.cycle \in Cycles /\ b.tranche \in Nat
    BY PayoutAssumption DEF AllTranches
  <2>2. CASE outcome'[b] # None
    <3>1. opened[b.cycle] > b.tranche
      BY <1>1, <2>2 DEF PayoutInv, OpenedHasShares
    <3> QED BY <1>6, <2>1, <3>1
  <2>3. CASE inFlight' = b
    <3>1. b.cycle = c /\ b.tranche = opened[c]
      BY <1>1, <2>3
    <3> QED BY <1>1, <1>3, <3>1
  <2> QED BY <1>9, <2>2, <2>3
<1> QED BY <1>4, <1>5, <1>7, <1>8, <1>9 DEF PayoutInv, OpenedHasShares

\* A settlement brings the pots of a tranche of which nothing was paid.
LEMMA SettleStep ==
    ASSUME PayoutInv, NEW o \in PotChoices, SettleTranche(o)
    PROVE  PayoutInv' /\ MoneyStep
<1> SUFFICES ASSUME NEW b \in AllTranches, inFlight = b
             PROVE  PayoutInv' /\ MoneyStep
  BY DEF SettleTranche, Settle, PayoutInv, PayoutTypes
<1> DEFINE came(a) == IF o[a] = None THEN 0 ELSE o[a]
<1>1. /\ outcome[b] = None
      /\ outcome' = [outcome EXCEPT ![b] = o]
      /\ inFlight' = None
      /\ balance' = [a \in Assets |-> balance[a] + came(a)]
      /\ UNCHANGED <<opened, shares, feeBips, cover, receipt, paid, paidShares,
                     dust, earned>>
  BY DEF SettleTranche, Settle, terms, books
<1>2. b # None /\ o \in Outcomes /\ o # None
      /\ outcome \in [AllTranches -> PotChoices \cup {None}]
      /\ balance \in [Assets -> Int] /\ earned \in [Assets -> Nat]
  BY <1>1, PayoutAssumption DEF PayoutInv, PayoutTypes
<1>3. \A a \in Assets : came(a) \in Nat
  BY <1>2 DEF Outcomes, Assets
<1>4. outcome' \in [AllTranches -> PotChoices \cup {None}] /\ outcome'[b] = o
      /\ \A d \in AllTranches \ {b} : outcome'[d] = outcome[d]
  BY <1>1, <1>2
<1>5. balance' \in [Assets -> Int]
      /\ \A a \in Assets : balance'[a] = balance[a] + came(a)
  BY <1>1, <1>2, <1>3
<1>6. PayoutTypes'
  BY <1>1, <1>4, <1>5 DEF PayoutInv, PayoutTypes
<1>7. OpenedHasShares'
  <2>1. \A c : TotalShares(c)' = TotalShares(c)
    BY <1>1 DEF TotalShares
  <2>2. \A d \in AllTranches :
           outcome'[d] # None \/ inFlight' = d
             => outcome[d] # None \/ inFlight = d
    BY <1>1, <1>4, PayoutAssumption
  <2> QED BY <1>1, <2>1, <2>2 DEF PayoutInv, OpenedHasShares
<1>8. \A a \in Assets, d \in AllTranches \ {b} :
         BookOK(a, d)' /\ Residue(a, d)' = Residue(a, d)
  BY <1>1, <1>4, SameBook
<1>9. ASSUME NEW a \in Assets
      PROVE  BookOK(a, b)' /\ Residue(a, b)' = came(a) /\ Residue(a, b) = 0
  <2>1. /\ PaidStakers(a, b) = {} /\ dust[a][b] = 0
        /\ paidShares[a][b]
             = SumFunctionOnSet(shares[b.cycle], PaidStakers(a, b))
        /\ paid[a][b] = 0 /\ Pot(a, b) = 0
    BY <1>1, <1>2, ResidueNat DEF PayoutInv, BooksOK, BookOK
  <2>2. PaidStakers(a, b)' = {}
    BY <1>1, <2>1 DEF PaidStakers
  <2>3. Pot(a, b)' = came(a)
    BY <1>2, <1>4 DEF Pot
  <2>4. paidShares'[a][b] = SumFunctionOnSet(shares'[b.cycle], {})
    BY <1>1, <2>1
  <2>5. SumFunctionOnSet(OwedTo(a, b)', {}) = 0
    BY SumEmpty
  <2>6. paid'[a][b] = SumFunctionOnSet(OwedTo(a, b)', {}) + dust'[a][b]
        /\ dust'[a][b] = 0 /\ paid'[a][b] = 0
    BY <1>1, <2>1, <2>5
  <2>7. Residue(a, b)' = came(a) /\ Residue(a, b) = 0
    BY <1>3, <2>1, <2>3, <2>6 DEF Residue
  <2>8. outcome'[b] # None
    BY <1>2, <1>4
  <2> QED BY <2>2, <2>4, <2>6, <2>7, <2>8 DEF BookOK
<1>10. BooksOK'
  <2>1. \A a \in Assets, d \in AllTranches : BookOK(a, d)'
    BY <1>8, <1>9
  <2> QED BY <2>1 DEF BooksOK
<1>11. ASSUME NEW a \in Assets PROVE TouchesOne(a, b)
  <2>1. balance'[a] = balance[a] + came(a) /\ balance[a] \in Int
        /\ earned'[a] = earned[a] /\ earned[a] \in Int
    BY <1>1, <1>2, <1>5
  <2>2. Residue(a, b)' = came(a) /\ Residue(a, b) = 0 /\ came(a) \in Nat
    BY <1>3, <1>9
  <2> HIDE DEF came
  <2>3. balance'[a] - earned'[a] - Residue(a, b)'
          = balance[a] - earned[a] - Residue(a, b)
    BY <2>1, <2>2
  <2> QED BY <1>8, <2>3 DEF TouchesOne
<1> QED BY <1>6, <1>7, <1>10, <1>11 DEF PayoutInv, MoneyStep

\* A withdrawal of fees.
LEMMA WithdrawStep ==
    ASSUME PayoutInv, NEW a \in Assets, NEW amount \in Int,
           WithdrawFees(a, amount)
    PROVE  PayoutInv' /\ MoneyStep
<1>1. /\ amount <= earned[a]
      /\ balance' = [balance EXCEPT ![a] = @ - amount]
      /\ earned' = [earned EXCEPT ![a] = @ - amount]
      /\ UNCHANGED <<lifecycleVars, terms, books>>
      /\ balance \in [Assets -> Int] /\ earned \in [Assets -> Nat]
  BY DEF WithdrawFees, PayoutInv, PayoutTypes
<1>2. balance' \in [Assets -> Int] /\ earned' \in [Assets -> Nat]
  BY <1>1
<1>3. UNCHANGED <<opened, inFlight, outcome, shares, feeBips, cover, receipt,
                  paid, paidShares, dust>>
  BY <1>1 DEF lifecycleVars, terms, books
<1>4. PayoutTypes'
  BY <1>2, <1>3 DEF PayoutInv, PayoutTypes
<1>5. \A c \in Assets : balance'[c] - earned'[c] = balance[c] - earned[c]
  BY <1>1
<1>6. BooksOK' /\ MoneyStep
  BY <1>3, <1>4, <1>5, QuietStep DEF books
<1>7. OpenedHasShares'
  BY <1>3 DEF PayoutInv, OpenedHasShares, TotalShares
<1> QED BY <1>4, <1>6, <1>7 DEF PayoutInv

\* New terms, and no step at all.
LEMMA TermsStep ==
    ASSUME PayoutInv, NewTerms \/ UNCHANGED payoutVars
    PROVE  PayoutInv' /\ MoneyStep
<1>1. UNCHANGED <<opened, inFlight, outcome, shares, receipt, paid, paidShares,
                  dust, earned, balance>>
  BY DEF NewTerms, ConfirmFeeBips, ChangeCover, payoutVars, lifecycleVars,
         terms, books
<1>2. feeBips' \in 0..MaxFeeBips /\ cover' \in [Stakers -> Nat]
  <2>1. feeBips \in 0..MaxFeeBips /\ cover \in [Stakers -> Nat]
    BY DEF PayoutInv, PayoutTypes
  <2>2. ASSUME NEW fee \in 0..MaxBips, ConfirmFeeBips(fee)
        PROVE  feeBips' \in 0..MaxFeeBips /\ UNCHANGED cover
    BY <2>2, PayoutAssumption DEF ConfirmFeeBips
  <2>3. ASSUME NEW s \in Stakers, NEW ustx \in CoverChoices, ChangeCover(s, ustx)
        PROVE  UNCHANGED feeBips /\ cover' \in [Stakers -> Nat]
    BY <2>1, <2>3, PayoutAssumption DEF ChangeCover
  <2> QED BY <2>1, <2>2, <2>3 DEF NewTerms, payoutVars, terms
<1>3. PayoutTypes'
  BY <1>1, <1>2 DEF PayoutInv, PayoutTypes
<1>4. BooksOK' /\ MoneyStep
  BY <1>1, <1>3, QuietStep DEF books
<1>5. OpenedHasShares'
  BY <1>1 DEF PayoutInv, OpenedHasShares, TotalShares
<1> QED BY <1>3, <1>4, <1>5 DEF PayoutInv

\* The shares of a cycle of which nothing is opened are nobody's entitlement
\* yet: they change, and no book does.
LEMMA FreezeStep ==
    ASSUME PayoutInv, NEW c \in Cycles, NEW row \in [Stakers -> ShareChoices],
           FreezeShares(c, row)
    PROVE  PayoutInv' /\ MoneyStep
<1>1. /\ opened[c] = 0
      /\ shares' = [shares EXCEPT ![c] = row]
      /\ shares \in [Cycles -> [Stakers -> Nat]]
      /\ UNCHANGED <<opened, inFlight, outcome, feeBips, cover, receipt, paid,
                     paidShares, dust, earned, balance>>
  BY DEF FreezeShares, lifecycleVars, books, PayoutInv, PayoutTypes
<1>2. row \in [Stakers -> Nat]
  BY PayoutAssumption
<1>3. shares' \in [Cycles -> [Stakers -> Nat]]
      /\ \A d \in Cycles \ {c} : shares'[d] = shares[d]
  BY <1>1, <1>2
<1>4. PayoutTypes'
  BY <1>1, <1>3 DEF PayoutInv, PayoutTypes
<1>5. OpenedHasShares'
  <2>1. \A d \in Cycles \ {c} : TotalShares(d)' = TotalShares(d)
    BY <1>3 DEF TotalShares
  <2> QED BY <1>1, <2>1 DEF PayoutInv, OpenedHasShares
<1>6. ASSUME NEW a \in Assets, NEW b \in AllTranches
      PROVE  BookOK(a, b)' /\ Residue(a, b)' = Residue(a, b)
  <2>1. b.cycle \in Cycles /\ b.tranche \in Nat
    BY PayoutAssumption DEF AllTranches
  <2>2. CASE b.cycle # c
    BY <1>1, <1>3, <2>1, <2>2, SameBook
  <2>3. CASE b.cycle = c
    <3>1. outcome[b] = None
      BY <1>1, <2>1, <2>3 DEF PayoutInv, OpenedHasShares
    <3>2. /\ PaidStakers(a, b) = {} /\ dust[a][b] = 0 /\ paid[a][b] = 0
          /\ paidShares[a][b]
               = SumFunctionOnSet(shares[b.cycle], PaidStakers(a, b))
      BY <3>1, ResidueNat DEF PayoutInv, BooksOK, BookOK
    <3>3. PaidStakers(a, b)' = {}
      BY <1>1, <3>2 DEF PaidStakers
    <3>4. /\ SumFunctionOnSet(shares[b.cycle], {}) = 0
          /\ SumFunctionOnSet(shares'[b.cycle], {}) = 0
          /\ SumFunctionOnSet(OwedTo(a, b)', {}) = 0
      BY SumEmpty
    <3>5. Residue(a, b)' = Residue(a, b)
      BY <1>1 DEF Residue, Pot
    <3>6. /\ paidShares'[a][b] = 0 /\ paid'[a][b] = 0 /\ dust'[a][b] = 0
      BY <1>1, <3>2, <3>4
    <3> QED BY <3>3, <3>4, <3>5, <3>6 DEF BookOK
  <2> QED BY <2>2, <2>3
<1>7. BooksOK' /\ MoneyStep
  BY <1>1, <1>6 DEF BooksOK, MoneyStep, Untouched
<1> QED BY <1>4, <1>5, <1>7 DEF PayoutInv

\* Every step.
LEMMA StepPayoutInv ==
    ASSUME PayoutInv, [PayoutNext]_payoutVars
    PROVE  PayoutInv' /\ MoneyStep
<1>1. CASE \E c \in Cycles : OpenTranche(c)
  BY <1>1, OpenStep
<1>2. CASE \E o \in PotChoices : SettleTranche(o)
  BY <1>2, SettleStep
<1>3. ASSUME NEW S \in SUBSET Stakers, NEW b \in AllTranches,
             PayStxStakers(S, b) \/ PayRecoveredSbtcStakers(S, b)
      PROVE  PayoutInv' /\ MoneyStep
  <2>1. PICK a \in Assets : Pay(a, S, b) /\ outcome[b] # None
    BY <1>3 DEF PayStxStakers, PayRecoveredSbtcStakers, IsRecovered,
                IsFinalized, Assets
  <2> QED BY <2>1, PayStep
<1>4. ASSUME NEW b \in AllTranches,
             SweepTrancheDust(b) \/ SweepRecoveredSbtcDust(b)
      PROVE  PayoutInv' /\ MoneyStep
  <2>1. PICK a \in Assets : Sweep(a, b) /\ outcome[b] # None
    BY <1>4 DEF SweepTrancheDust, SweepRecoveredSbtcDust, IsRecovered,
                IsFinalized, Assets
  <2> QED BY <2>1, SweepStep
<1>5. ASSUME NEW a \in Assets, NEW amount \in 1..balance[a],
             WithdrawFees(a, amount)
      PROVE  PayoutInv' /\ MoneyStep
  BY <1>5, WithdrawStep
<1>6. CASE NewTerms \/ UNCHANGED payoutVars
  BY <1>6, TermsStep
<1>7. ASSUME NEW c \in Cycles, NEW row \in [Stakers -> ShareChoices],
             FreezeShares(c, row)
      PROVE  PayoutInv' /\ MoneyStep
  BY <1>7, FreezeStep
<1> QED BY <1>1, <1>2, <1>3, <1>4, <1>5, <1>6, <1>7 DEF PayoutNext, PayoutCall

\* The first state: nothing opened, settled, paid or owed.
LEMMA InitPayoutInv ==
    ASSUME PayoutInit
    PROVE  PayoutInv /\ \A a \in Assets, b \in AllTranches : Residue(a, b) = 0
<1> USE DEF PayoutInit, LifecycleInit
<1>1. PayoutTypes
  <2>1. shares \in [Cycles -> [Stakers -> Nat]]
    BY PayoutAssumption
  <2> QED BY <2>1, PayoutAssumption DEF PayoutTypes
<1>2. OpenedHasShares
  BY PayoutAssumption DEF OpenedHasShares
<1>3. ASSUME NEW a \in Assets, NEW b \in AllTranches
      PROVE  BookOK(a, b) /\ Residue(a, b) = 0
  <2>1. PaidStakers(a, b) = {}
    BY DEF PaidStakers
  <2>2. /\ SumFunctionOnSet(shares[b.cycle], {}) = 0
        /\ SumFunctionOnSet(OwedTo(a, b), {}) = 0
    BY SumEmpty
  <2>3. paid[a][b] = 0 /\ paidShares[a][b] = 0 /\ dust[a][b] = 0
        /\ outcome[b] = None
    OBVIOUS
  <2>4. Residue(a, b) = 0
    BY <2>3 DEF Residue, Pot
  <2> QED BY <2>1, <2>2, <2>3, <2>4 DEF BookOK
<1> QED BY <1>1, <1>2, <1>3 DEF PayoutInv, BooksOK

-----------------------------------------------------------------------------
(* The money.                                                              *)

\* What is left of the pots of an asset.
Left(a) == [b \in AllTranches |-> Residue(a, b)]

\* In the first state there is no money and nothing owed.
LEMMA InitBacked ==
    ASSUME PayoutInit PROVE BalanceBacksDebts
<1> SUFFICES ASSUME NEW a \in Assets
             PROVE  balance[a] = earned[a] + SumFunction(Left(a))
  BY DEF BalanceBacksDebts, Left
<1>1. \A b \in AllTranches : Left(a)[b] = 0
  BY InitPayoutInv DEF Left
<1>2. DOMAIN Left(a) = AllTranches
  BY DEF Left
<1>3. SumFunctionOnSet(Left(a), AllTranches) = 0
  BY <1>1, AllTranchesFinite, SumZero
<1> QED BY <1>2, <1>3 DEF SumFunction, PayoutInit

\* A change of one residue is matched by the wallet, less the fees.
LEMMA StepBacked ==
    ASSUME PayoutInv, PayoutInv', MoneyStep, BalanceBacksDebts
    PROVE  BalanceBacksDebts'
<1> SUFFICES ASSUME NEW a \in Assets
             PROVE  balance'[a] = earned'[a] + SumFunction(Left(a)')
  BY DEF BalanceBacksDebts, Left
<1> DEFINE before == SumFunctionOnSet(Left(a), AllTranches)
           after  == SumFunctionOnSet(Left(a)', AllTranches)
<1>1. SumFunction(Left(a)) = before /\ SumFunction(Left(a)') = after
  BY DEF Left, SumFunction
<1>2. balance[a] = earned[a] + before
  BY <1>1 DEF BalanceBacksDebts, Left
<1>3. \A b \in AllTranches : /\ Left(a)[b] = Residue(a, b)
                             /\ Left(a)'[b] = Residue(a, b)'
  BY DEF Left
<1>4. \A b \in AllTranches : Left(a)[b] \in Int /\ Left(a)'[b] \in Int
  <2>1. \A b \in AllTranches : Residue(a, b) \in Int
    BY ResidueNat
  <2>2. \A b \in AllTranches : Residue(a, b)' \in Int
    <3>1. ASSUME NEW b \in AllTranches PROVE Residue(a, b)' \in Int
      <4>1. paid'[a][b] \in Int
        BY DEF PayoutInv, PayoutTypes
      <4>2. Pot(a, b)' \in Int
        <5>1. outcome'[b] \in Outcomes \cup {None}
          BY PayoutAssumption DEF PayoutInv, PayoutTypes
        <5> QED BY <5>1 DEF Pot, Outcomes, Assets
      <4> QED BY <4>1, <4>2 DEF Residue
    <3> QED BY <3>1
  <2> QED BY <1>3, <2>1, <2>2
<1>5. /\ balance[a] \in Int /\ balance'[a] \in Int
      /\ earned[a] \in Int /\ earned'[a] \in Int
  BY DEF PayoutInv, PayoutTypes
<1>6. IntegersOn(Left(a), AllTranches)
  BY <1>4 DEF IntegersOn
<1>7. before \in Int
  BY <1>6, AllTranchesFinite, SumTake
<1>8. CASE Untouched(a)
  <2>1. \A b \in AllTranches : Left(a)'[b] = Left(a)[b]
    BY <1>3, <1>8 DEF Untouched
  <2>2. after = before
    BY <1>6, <2>1, AllTranchesFinite, SumSame
  <2> HIDE DEF before, after
  <2> QED BY <1>1, <1>2, <1>5, <1>7, <1>8, <2>2 DEF Untouched
<1>9. ASSUME NEW b \in AllTranches, TouchesOne(a, b)
      PROVE  balance'[a] = earned'[a] + SumFunction(Left(a)')
  <2>1. Left(a)'[b] \in Int /\ \A d \in AllTranches \ {b} : Left(a)'[d] = Left(a)[d]
    BY <1>3, <1>4, <1>9 DEF TouchesOne
  <2>2. after = before - Left(a)[b] + Left(a)'[b]
    BY <1>6, <2>1, AllTranchesFinite, SumChange
  <2>3. balance'[a] - earned'[a] - Left(a)'[b] = balance[a] - earned[a] - Left(a)[b]
    BY <1>3, <1>9 DEF TouchesOne
  <2>4. Left(a)[b] \in Int /\ Left(a)'[b] \in Int
    BY <1>4
  <2> HIDE DEF before, after
  <2> QED BY <1>1, <1>2, <1>5, <1>7, <2>2, <2>3, <2>4
<1> QED BY <1>8, <1>9 DEF MoneyStep

\* Hence no balance is negative.
LEMMA BackedIsNat ==
    ASSUME PayoutInv, BalanceBacksDebts, NEW a \in Assets
    PROVE  balance[a] \in Nat
<1>1. \A b \in AllTranches : Left(a)[b] \in Nat
  BY ResidueNat DEF Left
<1>2. SumFunctionOnSet(Left(a), AllTranches) \in Nat
  BY <1>1, AllTranchesFinite, SumNat
<1>3. balance[a] = earned[a] + SumFunctionOnSet(Left(a), AllTranches)
  BY DEF BalanceBacksDebts, Left, SumFunction
<1> QED BY <1>2, <1>3 DEF PayoutInv, PayoutTypes

\* The sweep of a tranche is less than one unit for each staker with shares.
LEMMA DustIsSmall ==
    ASSUME PayoutInv PROVE SweepIsDust
<1> SUFFICES ASSUME NEW a \in Assets, NEW b \in AllTranches, dust[a][b] # 0
             PROVE  dust[a][b]
                      < Cardinality({s \in Stakers : shares[b.cycle][s] > 0})
  BY DEF SweepIsDust
<1>1. /\ dust[a][b] \in Nat /\ dust[a][b] > 0
      /\ outcome[b] # None
      /\ FullyPaid(a, b) /\ paid[a][b] = Pot(a, b)
      /\ paid[a][b] = SumFunctionOnSet(OwedTo(a, b), PaidStakers(a, b))
                        + dust[a][b]
      /\ \A s \in PaidStakers(a, b) : shares[b.cycle][s] > 0
  BY DEF PayoutInv, PayoutTypes, BooksOK, BookOK
<1>2. PaidStakers(a, b) = {s \in Stakers : shares[b.cycle][s] > 0}
  BY <1>1, FullMeansAll DEF PaidStakers
<1>3. /\ Pot(a, b) - SumFunctionOnSet(OwedTo(a, b), PaidStakers(a, b))
           < Cardinality(PaidStakers(a, b))
      /\ SumFunctionOnSet(OwedTo(a, b), PaidStakers(a, b)) \in Nat
  BY <1>1, PaidSum
<1>4. Pot(a, b) - SumFunctionOnSet(OwedTo(a, b), PaidStakers(a, b)) = dust[a][b]
  BY <1>1, <1>3
<1> QED BY <1>2, <1>3, <1>4

\* Those with shares in a tranche who are not paid for it.
WaitingStakers(a, b) ==
    {r \in Stakers : shares[b.cycle][r] > 0 /\ receipt[a][b][r] = None}

\* What is left of a pot is enough for all who are not paid yet: rounding is in
\* their favour, and a swept tranche has nobody left to pay.
LEMMA UnpaidIsThere ==
    ASSUME PayoutInv, NEW a \in Assets, NEW b \in AllTranches
    PROVE  Unpaid(a, b) \in Nat /\ Unpaid(a, b) <= Residue(a, b)
<1> DEFINE U     == WaitingStakers(a, b)
           R     == PaidStakers(a, b)
           sh    == shares[b.cycle]
           part  == OwedTo(a, b)
           total == TotalShares(b.cycle)
           owing == [s \in U |-> Owed(a, b, s)]
<1>1. /\ U \in SUBSET Stakers /\ R \in SUBSET Stakers /\ U \cap R = {}
      /\ IsFiniteSet(U) /\ IsFiniteSet(R) /\ IsFiniteSet(Stakers)
      /\ IsFiniteSet(R \cup U) /\ R \cup U \in SUBSET Stakers
  <2>1. U \in SUBSET Stakers /\ R \in SUBSET Stakers /\ U \cap R = {}
    BY DEF WaitingStakers, PaidStakers
  <2> HIDE DEF U, R
  <2>2. R \cup U \in SUBSET Stakers
    BY <2>1
  <2> QED BY <2>1, <2>2, PayoutAssumption, FS_Subset
<1>2. b.cycle \in Cycles
  BY DEF AllTranches
<1>3. /\ total = SumFunctionOnSet(sh, Stakers) /\ total \in Nat
      /\ \A s \in Stakers : sh[s] \in Nat
  BY <1>2, SharesTotal DEF PayoutInv
<1>4. Unpaid(a, b) = SumFunctionOnSet(owing, U) /\ DOMAIN owing = U
  BY DEF Unpaid, WaitingStakers, SumFunction
<1>5. Residue(a, b) \in Nat
  BY ResidueNat
<1>6. CASE outcome[b] = None
  <2>1. ASSUME NEW s \in U PROVE owing[s] = 0
    <3>1. s \in Stakers /\ sh[s] > 0
      BY DEF WaitingStakers
    <3>2. sh[s] <= SumFunctionOnSet(sh, Stakers)
      BY <1>1, <1>3, <3>1, SumNat
    <3>3. total \in Nat \ {0} /\ sh[s] \in Nat
      BY <1>3, <3>1, <3>2
    <3>4. Pot(a, b) = 0
      BY <1>6, PotNat DEF PayoutInv
    <3>5. Owed(a, b, s) = (0 * sh[s]) \div total
      BY <3>4 DEF Owed
    <3> HIDE DEF total, sh
    <3>6. 0 * sh[s] = 0 /\ 0 \div total = 0
      BY <3>3
    <3> QED BY <3>5, <3>6
  <2> HIDE DEF owing, U
  <2>2. SumFunctionOnSet(owing, U) = 0
    BY <1>1, <2>1, SumZero
  <2> QED BY <1>4, <1>5, <2>2
<1>7. CASE outcome[b] # None
  <2>1. Pot(a, b) \in Nat
    BY PotNat DEF PayoutInv
  <2>2. \A s \in Stakers :
           /\ total \in Nat \ {0}
           /\ part[s] = Owed(a, b, s) /\ part[s] \in Nat
           /\ total * part[s] <= Pot(a, b) * sh[s]
           /\ Pot(a, b) * sh[s] <= total * part[s] + total - 1
    <3> SUFFICES ASSUME NEW s \in Stakers
                 PROVE  /\ total \in Nat \ {0}
                        /\ part[s] = Owed(a, b, s) /\ part[s] \in Nat
                        /\ total * part[s] <= Pot(a, b) * sh[s]
                        /\ Pot(a, b) * sh[s] <= total * part[s] + total - 1
      OBVIOUS
    <3>1. part[s] = Owed(a, b, s)
      BY DEF OwedTo
    <3> HIDE DEF part
    <3> QED BY <1>7, <3>1, OwedBounds
  <2>3. /\ paid[a][b] = SumFunctionOnSet(part, R) + dust[a][b]
        /\ dust[a][b] \in Nat
        /\ dust[a][b] > 0 => FullyPaid(a, b)
    BY DEF PayoutInv, PayoutTypes, BooksOK, BookOK
  <2>4. \A s \in U : owing[s] = part[s]
    BY <1>1, <2>2
  <2>5. dust[a][b] > 0 => U = {}
    BY <2>3, FullMeansAll DEF WaitingStakers
  <2>6. Residue(a, b) = Pot(a, b) - paid[a][b]
    BY DEF Residue
  <2> HIDE DEF U, R, sh, part, total, owing
  <2>7. SumFunctionOnSet(owing, U) = SumFunctionOnSet(part, U)
    <3>1. IntegersOn(part, U)
      BY <1>1, <2>2 DEF IntegersOn
    <3> QED BY <1>1, <2>4, <3>1, SumSame
  <2>8. SumFunctionOnSet(part, R) \in Nat /\ SumFunctionOnSet(part, U) \in Nat
    <3>1. (\A s \in R : part[s] \in Nat) /\ (\A s \in U : part[s] \in Nat)
      BY <1>1, <2>2
    <3> QED BY <1>1, <3>1, SumNat
  <2>9. SumFunctionOnSet(part, R \cup U)
          = SumFunctionOnSet(part, R) + SumFunctionOnSet(part, U)
    <3>1. IntegersOn(part, R \cup U) /\ U \cap R = {}
      BY <1>1, <2>2 DEF IntegersOn
    <3> QED BY <1>1, <3>1, SumUnion
  <2>10. SumFunctionOnSet(part, R \cup U) <= Pot(a, b)
    <3>1. CASE Stakers = {}
      <4>1. R \cup U = {}
        BY <1>1, <3>1
      <4>2. SumFunctionOnSet(part, R \cup U) = 0
        BY <4>1, SumEmpty
      <4> QED BY <2>1, <4>2
    <3>2. CASE Stakers # {}
      <4>1. total \in Nat \ {0}
        BY <2>2, <3>2
      <4>2. SumFunctionOnSet(sh, R \cup U) <= total
        BY <1>1, <1>3, SumSubset
      <4>3. \A s \in R \cup U : sh[s] \in Nat
        BY <1>1, <1>3
      <4>4. \A s \in R \cup U :
               /\ part[s] \in Nat
               /\ total * part[s] <= Pot(a, b) * sh[s]
               /\ Pot(a, b) * sh[s] <= total * part[s] + total - 1
        BY <1>1, <2>2
      <4> QED BY <1>1, <2>1, <4>1, <4>2, <4>3, <4>4, PartsOfPot
    <3> QED BY <3>1, <3>2
  <2>11. CASE dust[a][b] > 0
    <3>1. SumFunctionOnSet(part, U) = 0
      BY <2>5, <2>11, SumEmpty
    <3> QED BY <1>4, <1>5, <2>7, <3>1
  <2>12. CASE dust[a][b] = 0
    BY <1>4, <2>1, <2>3, <2>6, <2>7, <2>8, <2>9, <2>10, <2>12
  <2> QED BY <2>3, <2>11, <2>12
<1> QED BY <1>6, <1>7

\* So the wallet, which is what is left of all pots and the fees, is enough.
LEMMA WalletIsEnough ==
    ASSUME PayoutInv, BalanceBacksDebts PROVE EveryoneCanBePaid
<1> SUFFICES ASSUME NEW a \in Assets
             PROVE  earned[a] + SumFunction([b \in AllTranches |-> Unpaid(a, b)])
                      <= balance[a]
  BY DEF EveryoneCanBePaid
<1> DEFINE waiting == [b \in AllTranches |-> Unpaid(a, b)]
<1>1. \A b \in AllTranches : /\ waiting[b] \in Int /\ Left(a)[b] \in Int
                             /\ waiting[b] <= Left(a)[b]
  BY UnpaidIsThere, ResidueNat DEF Left
<1>2. DOMAIN waiting = AllTranches
  OBVIOUS
<1> HIDE DEF waiting
<1>3. IntegersOn(waiting, AllTranches) /\ IntegersOn(Left(a), AllTranches)
  BY <1>1 DEF IntegersOn
<1>4. SumFunctionOnSet(waiting, AllTranches)
        <= SumFunctionOnSet(Left(a), AllTranches)
  BY <1>1, <1>3, AllTranchesFinite, SumMono
<1>5. /\ SumFunctionOnSet(waiting, AllTranches) \in Int
      /\ SumFunctionOnSet(Left(a), AllTranches) \in Int
  BY <1>3, AllTranchesFinite, SumTake
<1>6. balance[a] = earned[a] + SumFunctionOnSet(Left(a), AllTranches)
  BY DEF BalanceBacksDebts, Left, SumFunction
<1>7. earned[a] \in Int
  BY DEF PayoutInv, PayoutTypes
<1>8. SumFunction(waiting) = SumFunctionOnSet(waiting, AllTranches)
  BY <1>2 DEF SumFunction
<1> QED BY <1>4, <1>5, <1>6, <1>7, <1>8 DEF waiting

-----------------------------------------------------------------------------
(* The theorems.                                                           *)

\* The invariant, whatever is paid, swept and withdrawn in whatever order.
THEOREM PayoutInvariant == PayoutSpec => [](PayoutInv /\ BalanceBacksDebts)
<1>1. PayoutInit => PayoutInv /\ BalanceBacksDebts
  BY InitPayoutInv, InitBacked
<1>2. PayoutInv /\ BalanceBacksDebts /\ [PayoutNext]_payoutVars
        => PayoutInv' /\ BalanceBacksDebts'
  BY StepPayoutInv, StepBacked
<1> QED BY <1>1, <1>2, PTL DEF PayoutSpec

\* Types: nothing the pool holds, pays or counts ever underflows.
THEOREM PayoutTypeCorrect == PayoutSpec => []PayoutTypeOK
<1>1. PayoutInv /\ BalanceBacksDebts => PayoutTypeOK
  <2> SUFFICES ASSUME PayoutInv, BalanceBacksDebts PROVE PayoutTypeOK
    OBVIOUS
  <2>1. balance \in [Assets -> Nat]
    <3>1. balance \in [Assets -> Int]
      BY DEF PayoutInv, PayoutTypes
    <3> QED BY <3>1, BackedIsNat
  <2> QED BY <2>1 DEF PayoutInv, PayoutTypes, PayoutTypeOK
<1> QED BY <1>1, PayoutInvariant, PTL

\* The wallet is the unpaid part of the pots and the fees: no payout, sweep or
\* withdrawal uses another tranche's money.
THEOREM WalletBacksDebts == PayoutSpec => []BalanceBacksDebts
  BY PayoutInvariant, PTL

\* No payment is refused for want of money: whatever was paid, swept and
\* withdrawn before, there is enough for all fees and everyone still unpaid.
THEOREM NobodyComesTooLate == PayoutSpec => []EveryoneCanBePaid
  BY WalletIsEnough, PayoutInvariant, PTL

\* The count of paid shares closes a tranche exactly when everyone is paid.
THEOREM CountMeansEveryone == PayoutSpec => []FullyPaidMeansEveryone
<1>1. PayoutInv => FullyPaidMeansEveryone
  BY FullMeansAll DEF FullyPaidMeansEveryone
<1> QED BY <1>1, PayoutInvariant, PTL

\* The admin's sweep takes less than one unit per staker.
THEOREM SweepTakesDust == PayoutSpec => []SweepIsDust
  BY DustIsSmall, PayoutInvariant, PTL

\* Everyone paid got their part of the pot less at most the highest fee.
THEOREM EveryReceiptFair == PayoutSpec => []ReceiptIsFair
<1>1. PayoutInv => ReceiptIsFair
  <2> SUFFICES ASSUME PayoutInv, NEW a \in Assets, NEW b \in AllTranches,
                      NEW s \in Stakers, receipt[a][b][s] # None
               PROVE  /\ receipt[a][b][s] <= Owed(a, b, s)
                      /\ receipt[a][b][s] * MaxBips
                           >= Owed(a, b, s) * (MaxBips - MaxFeeBips)
    BY DEF ReceiptIsFair
  <2>1. s \in PaidStakers(a, b) /\ BookOK(a, b)
    BY DEF PaidStakers, PayoutInv, BooksOK
  <2>2. /\ receipt[a][b][s] <= Owed(a, b, s)
        /\ Owed(a, b, s) * (MaxBips - MaxFeeBips) <= receipt[a][b][s] * MaxBips
    BY <2>1 DEF BookOK
  <2>3. Owed(a, b, s) \in Int /\ receipt[a][b][s] \in Int
    <3>1. outcome[b] # None
      BY <2>1 DEF BookOK
    <3>2. receipt[a][b][s] \in Nat \cup {None}
      BY DEF PayoutInv, PayoutTypes
    <3> QED BY <3>1, <3>2, OwedBounds
  <2>4. Owed(a, b, s) * (MaxBips - MaxFeeBips) \in Int
        /\ receipt[a][b][s] * MaxBips \in Int
    BY <2>3, PayoutAssumption
  <2> QED BY <2>2, <2>4
<1> QED BY <1>1, PayoutInvariant, PTL
=============================================================================
