------------------------- MODULE JuicePoolStxProofs -------------------------
(***************************************************************************)
(* Proofs about the earlier pool, for any finite set of principals, any    *)
(* stakes, rewards, fees and lengths of cycles: its fee changes on notice, *)
(* its receipts are final, its wallet is what its books say, and, as long  *)
(* as nobody is paid before a tranche is opened, everyone can be paid.     *)
(***************************************************************************)
EXTENDS JuicePoolStx, SumTheorems

\* Types: neither the fee nor a pending one exceeds its maximum, no notice
\* starts in the future, and the pool never pays more than it has.
StxTypes ==
    /\ height \in Nat
    /\ calculated \in Nat
    /\ unlock \in [Principals -> Nat]
    /\ shares \in [RewardCycles -> [Principals -> Nat]]
    /\ unclaimed \in [RewardCycles -> Nat]
    /\ feeBips \in 0..MaxFeeBips
    /\ pendingFee \in 0..MaxFeeBips \cup {None}
    /\ pendingFeeHeight \in 0..height
    /\ earnedFees \in Nat
    /\ stxPot \in [Tranches -> Nat]
    /\ trancheCount \in [RewardCycles -> Nat]
    /\ stxPaid \in [Tranches -> [Principals -> Nat \cup {None}]]
    /\ tranchePaid \in [Tranches -> Nat]
    /\ tranchePaidShares \in [Tranches -> Nat]
    /\ balance \in Nat

-----------------------------------------------------------------------------
(* What follows from the types in one state.                               *)

\* The constants, one by one.
LEMMA StxNumbers ==
    /\ FeeCooldown \in Nat /\ LastCycle \in Nat /\ MaxTranche \in Nat
    /\ MaxBips \in Nat \ {0} /\ DistLength \in Nat \ {0}
    /\ 2 * DistLength \in Nat \ {0}
    /\ MaxFeeBips \in Nat /\ MaxFeeBips <= MaxBips
    /\ Amounts \subseteq Nat /\ Rewards \subseteq Nat
    /\ RewardCycles \subseteq Nat
<1>1. {FeeCooldown, LastCycle, MaxTranche} \subseteq Nat
      /\ {MaxBips, DistLength} \subseteq Nat \ {0}
      /\ MaxFeeBips \in 0..MaxBips
      /\ Amounts \subseteq Nat /\ Rewards \subseteq Nat
  BY StxPoolAssumption
<1>2. MaxBips \in Nat \ {0} /\ DistLength \in Nat \ {0} /\ LastCycle \in Nat
  BY <1>1
<1>3. 2 * DistLength \in Nat \ {0}
  BY <1>2
<1> QED BY <1>1, <1>2, <1>3 DEF RewardCycles

\* There are finitely many tranches.
LEMMA StxTranchesFinite == IsFiniteSet(Tranches)
<1>1. IsFiniteSet(0..MaxTranche) /\ IsFiniteSet(RewardCycles)
  BY StxNumbers, FS_Interval DEF RewardCycles
<1> QED BY <1>1, TranchesOfFinite DEF Tranches

\* The current cycle is a number.
LEMMA CycleNat ==
    ASSUME StxTypes PROVE CurrentCycle \in Nat /\ CurrentDist \in Nat
  BY StxNumbers, DivNat DEF StxTypes, CurrentCycle, CurrentDist

\* The shares of a cycle.
LEMMA StxSharesTotal ==
    ASSUME StxTypes, NEW c \in RewardCycles
    PROVE  /\ TotalShares(c) = SumFunctionOnSet(shares[c], Principals)
           /\ TotalShares(c) \in Nat
           /\ \A s \in Principals : shares[c][s] \in Nat
<1>1. shares[c] \in [Principals -> Nat]
  BY DEF StxTypes
<1>2. DOMAIN shares[c] = Principals /\ \A s \in Principals : shares[c][s] \in Nat
  BY <1>1
<1>3. TotalShares(c) = SumFunctionOnSet(shares[c], Principals)
  BY <1>2 DEF TotalShares, SumFunction
<1>4. SumFunctionOnSet(shares[c], Principals) \in Nat
  BY <1>2, StxPoolAssumption, SumNat
<1> QED BY <1>2, <1>3, <1>4

\* What a staker is owed, and the fee on it.
LEMMA StxOwedBounds ==
    ASSUME StxTypes, NEW b \in Tranches, NEW s \in Principals
    PROVE  /\ Owed(b, s) \in Nat
           /\ Fee(b, s) \in Nat
           /\ Fee(b, s) <= Owed(b, s)
           /\ stxPot[b] = 0 => Owed(b, s) = 0
           /\ TotalShares(b.cycle) > 0 =>
                /\ TotalShares(b.cycle) * Owed(b, s)
                     <= stxPot[b] * shares[b.cycle][s]
                /\ stxPot[b] * shares[b.cycle][s]
                     <= TotalShares(b.cycle) * Owed(b, s)
                          + TotalShares(b.cycle) - 1
<1> DEFINE x     == stxPot[b] * shares[b.cycle][s]
           total == TotalShares(b.cycle)
<1>1. b.cycle \in RewardCycles
  BY DEF Tranches
<1>2. total \in Nat /\ shares[b.cycle][s] \in Nat /\ stxPot[b] \in Nat
  BY <1>1, StxSharesTotal DEF StxTypes
<1>3. x \in Nat /\ (stxPot[b] = 0 => x = 0)
  BY <1>2
<1>4. Owed(b, s) = IF total = 0 THEN 0 ELSE x \div total
  BY DEF Owed
<1> HIDE DEF x, total
<1>5. ASSUME total # 0
      PROVE  /\ x \div total \in Nat
             /\ total * (x \div total) <= x
             /\ x <= total * (x \div total) + total - 1
             /\ x = 0 => x \div total = 0
  <2>1. total \in Nat \ {0} /\ x \in Int
    BY <1>2, <1>3, <1>5
  <2>2. x \div total \in Nat
    BY <1>3, <2>1, DivNat
  <2>3. 0 \div total = 0
    BY <2>1
  <2> QED BY <2>1, <2>2, <2>3, DivBounds
<1>6. Owed(b, s) \in Nat /\ (stxPot[b] = 0 => Owed(b, s) = 0)
  BY <1>3, <1>4, <1>5
<1>7. Fee(b, s) \in Nat /\ Fee(b, s) <= Owed(b, s)
  <2>1. FeeOf(s) \in Nat /\ FeeOf(s) <= MaxBips
    BY StxNumbers DEF FeeOf, StxTypes
  <2>2. Fee(b, s) = (Owed(b, s) * FeeOf(s)) \div MaxBips
    BY DEF Fee
  <2>3. Owed(b, s) * FeeOf(s) \in Nat
    BY <1>6, <2>1
  <2>4. Fee(b, s) \in Nat
    BY <2>2, <2>3, StxNumbers, DivNat
  <2> QED BY <1>6, <2>1, <2>2, <2>4, StxNumbers, DivShare
<1>8. total > 0 => total * Owed(b, s) <= x /\ x <= total * Owed(b, s) + total - 1
  BY <1>2, <1>4, <1>5
<1> QED BY <1>6, <1>7, <1>8 DEF x, total

\* Those of S who are still to be paid, and what each staker is owed.
Due(S, b) == {s \in S : shares[b.cycle][s] > 0 /\ stxPaid[b][s] = None}
OwedTo(b) == [s \in Principals |-> Owed(b, s)]

\* What a batch pays and keeps as fees is what its stakers are owed.
LEMMA StxBatchTotals ==
    ASSUME StxTypes, NEW b \in Tranches, NEW T \in SUBSET Principals
    PROVE  /\ SumFunction([s \in T |-> Owed(b, s)])
                = SumFunctionOnSet(OwedTo(b), T)
           /\ SumFunction([s \in T |-> shares[b.cycle][s]])
                = SumFunctionOnSet(shares[b.cycle], T)
           /\ SumFunctionOnSet(shares[b.cycle], T) \in Nat
           /\ SumFunctionOnSet(OwedTo(b), T) \in Nat
           /\ SumFunction([s \in T |-> Fee(b, s)]) \in Nat
           /\ SumFunction([s \in T |-> Owed(b, s) - Fee(b, s)]) \in Nat
           /\ SumFunctionOnSet(OwedTo(b), T)
                = SumFunction([s \in T |-> Owed(b, s) - Fee(b, s)])
                    + SumFunction([s \in T |-> Fee(b, s)])
<1> DEFINE owed  == [s \in T |-> Owed(b, s)]
           sh    == [s \in T |-> shares[b.cycle][s]]
           fee   == [s \in T |-> Fee(b, s)]
           net   == [s \in T |-> Owed(b, s) - Fee(b, s)]
           total == OwedTo(b)
           of    == shares[b.cycle]
<1>1. IsFiniteSet(T)
  BY StxPoolAssumption, FS_Subset
<1>2. \A s \in T : /\ fee[s] \in Nat /\ net[s] \in Nat /\ total[s] \in Nat
                   /\ total[s] = net[s] + fee[s]
                   /\ owed[s] = total[s]
  <2> SUFFICES ASSUME NEW s \in T
               PROVE  /\ fee[s] \in Nat /\ net[s] \in Nat /\ total[s] \in Nat
                      /\ total[s] = net[s] + fee[s]
                      /\ owed[s] = total[s]
    OBVIOUS
  <2>1. Owed(b, s) \in Nat /\ Fee(b, s) \in Nat /\ Fee(b, s) <= Owed(b, s)
    BY StxOwedBounds
  <2>2. total[s] = Owed(b, s)
    BY DEF OwedTo
  <2> HIDE DEF total
  <2> QED BY <2>1, <2>2
<1>3. \A s \in T : of[s] \in Nat /\ sh[s] = of[s]
  <2>1. b.cycle \in RewardCycles
    BY DEF Tranches
  <2> QED BY <2>1, StxSharesTotal
<1>4. DOMAIN owed = T /\ DOMAIN sh = T /\ DOMAIN fee = T /\ DOMAIN net = T
  OBVIOUS
<1> HIDE DEF owed, sh, fee, net, total, of
<1>5. SumFunction(owed) = SumFunctionOnSet(total, T)
  <2>1. \A s \in T : total[s] \in Int /\ owed[s] = total[s]
    BY <1>2
  <2> QED BY <1>1, <1>4, <2>1, SumOfTable
<1>6. SumFunction(sh) = SumFunctionOnSet(of, T)
  <2>1. \A s \in T : of[s] \in Int /\ sh[s] = of[s]
    BY <1>3
  <2> QED BY <1>1, <1>4, <2>1, SumOfTable
<1>7. SumFunctionOnSet(of, T) \in Nat /\ SumFunctionOnSet(total, T) \in Nat
  BY <1>1, <1>2, <1>3, SumNat
<1>8. SumFunction(fee) = SumFunctionOnSet(fee, T)
      /\ SumFunction(net) = SumFunctionOnSet(net, T)
  BY <1>4 DEF SumFunction
<1>9. SumFunctionOnSet(fee, T) \in Nat /\ SumFunctionOnSet(net, T) \in Nat
  BY <1>1, <1>2, SumNat
<1>10. SumFunctionOnSet(total, T)
         = SumFunctionOnSet(net, T) + SumFunctionOnSet(fee, T)
  <2>1. /\ IntegersOn(net, T) /\ IntegersOn(fee, T)
        /\ \A s \in T : total[s] = net[s] + fee[s]
    BY <1>2 DEF IntegersOn
  <2> QED BY <1>1, <2>1, SumPlus
<1> QED BY <1>5, <1>6, <1>7, <1>8, <1>9, <1>10 DEF owed, sh, fee, net, total, of

-----------------------------------------------------------------------------
(* What each kind of step does.                                            *)

\* A step of pox-5: time goes on, the shares of the current cycle and of those
\* before stay, and the pool is credited only for such a cycle with shares.
LEMMA ChainStep ==
    ASSUME StxTypes, Pox5Step
    PROVE  /\ StxTypes'
           /\ height' >= height
           /\ UNCHANGED <<terms, claims, books>>
           /\ \A c \in RewardCycles : c <= CurrentCycle => shares'[c] = shares[c]
           /\ \A c \in RewardCycles : unclaimed'[c] > 0 =>
                 \/ unclaimed[c] > 0
                 \/ c <= CurrentCycle /\ TotalShares(c) > 0
<1> DEFINE Effect ==
             /\ StxTypes'
             /\ height' >= height
             /\ UNCHANGED <<terms, claims, books>>
             /\ \A c \in RewardCycles : c <= CurrentCycle => shares'[c] = shares[c]
             /\ \A c \in RewardCycles : unclaimed'[c] > 0 =>
                   \/ unclaimed[c] > 0
                   \/ c <= CurrentCycle /\ TotalShares(c) > 0
<1> USE DEF terms, claims, books
<1>0. CurrentCycle \in Nat /\ RewardCycles \subseteq Nat
  BY CycleNat, StxNumbers
<1>1. CASE Advance(1)
  BY <1>1 DEF Advance, StxTypes
<1>2. ASSUME NEW s \in Principals, NEW amount \in Nat, NEW last,
             shares' = SharesFromNext(s, last, amount)
      PROVE  /\ shares' \in [RewardCycles -> [Principals -> Nat]]
             /\ \A c \in RewardCycles : c <= CurrentCycle => shares'[c] = shares[c]
  <2>1. /\ DOMAIN shares' = RewardCycles
        /\ \A c \in RewardCycles :
              shares'[c] \in {shares[c], [shares[c] EXCEPT ![s] = amount],
                              [shares[c] EXCEPT ![s] = 0]}
    BY <1>2 DEF SharesFromNext
  <2>2. shares' = [c \in RewardCycles |-> shares'[c]]
    BY <1>2 DEF SharesFromNext
  <2>3. \A c \in RewardCycles : shares'[c] \in [Principals -> Nat]
    BY <2>1 DEF StxTypes
  <2>4. shares' \in [RewardCycles -> [Principals -> Nat]]
    BY <2>2, <2>3
  <2> QED BY <1>0, <1>2, <2>4 DEF SharesFromNext
<1>3. ASSUME NEW s \in Principals, NEW amount \in Amounts,
             NEW last \in RewardCycles,
             Stake(s, amount, last) \/ StakeUpdate(s, amount, last)
      PROVE  Effect
  <2>1. amount \in Nat /\ last + 1 \in Nat
    BY StxNumbers
  <2>2. /\ unlock' = [unlock EXCEPT ![s] = last + 1]
        /\ shares' = SharesFromNext(s, last, amount)
        /\ UNCHANGED <<height, calculated, unclaimed, terms, claims, books>>
    BY <1>3 DEF Stake, StakeUpdate
  <2>3. unlock' \in [Principals -> Nat]
    BY <2>1, <2>2 DEF StxTypes
  <2> QED BY <1>2, <2>1, <2>2, <2>3 DEF StxTypes
<1>4. ASSUME NEW s \in Principals, NEW last \in RewardCycles,
             StakeElsewhere(s, last)
      PROVE  Effect
  <2>1. last + 1 \in Nat
    BY StxNumbers
  <2> QED BY <1>4, <2>1 DEF StakeElsewhere, StxTypes
<1>6. ASSUME NEW s \in Principals, NEW last \in RewardCycles,
             MoveElsewhere(s, last) \/ Unstake(s)
      PROVE  Effect
  <2>1. \E n \in Nat : unlock' = [unlock EXCEPT ![s] = n]
    BY <1>0, <1>6 DEF MoveElsewhere, Unstake
  <2>2. /\ shares' = SharesFromNext(s, CurrentCycle, 0)
        /\ UNCHANGED <<height, calculated, unclaimed, terms, claims, books>>
    BY <1>6 DEF MoveElsewhere, Unstake
  <2>3. unlock' \in [Principals -> Nat]
    BY <2>1 DEF StxTypes
  <2> QED BY <1>2, <2>2, <2>3 DEF StxTypes
<1>5. ASSUME NEW sats \in Rewards, CalculateRewards(sats) PROVE Effect
  <2> DEFINE r == (CurrentDist - 1) \div 2
             n == IF TotalShares(r) = 0 THEN 0 ELSE sats
  <2>1. /\ CurrentDist > calculated
        /\ r \in RewardCycles
        /\ calculated' = CurrentDist
        /\ unclaimed' = [unclaimed EXCEPT ![r] = @ + n]
        /\ UNCHANGED <<height, unlock, shares, terms, claims, books>>
    BY <1>5 DEF CalculateRewards
  <2>2. r <= CurrentCycle
    <3>1. r <= CurrentDist \div 2
      BY CycleNat, DivMono
    <3>2. height \in Nat /\ DistLength \in Nat \ {0}
      BY StxNumbers DEF StxTypes
    <3>3. (height \div DistLength) \div 2 <= height \div (2 * DistLength)
      BY <3>2, DivTwice
    <3>4. CurrentDist \div 2 \in Int /\ r \in Int
      BY CycleNat, <1>0, <2>1
    <3> QED BY <1>0, <3>1, <3>3, <3>4 DEF CurrentDist, CurrentCycle
  <2>3. TotalShares(r) \in Nat /\ sats \in Nat /\ n \in Nat
    BY <2>1, StxSharesTotal, StxNumbers
  <2>4. (n > 0 => TotalShares(r) > 0) /\ r \in RewardCycles
    BY <2>1, <2>3
  <2> HIDE DEF n, r
  <2>5. /\ unclaimed' \in [RewardCycles -> Nat]
        /\ \A c \in RewardCycles : unclaimed'[c] > 0 =>
              unclaimed[c] > 0 \/ (c = r /\ n > 0)
    BY <2>1, <2>3, <2>4 DEF StxTypes
  <2>6. StxTypes'
    BY <2>1, <2>5, CycleNat DEF StxTypes
  <2>7. height' >= height
    BY <2>1 DEF StxTypes
  <2> QED BY <2>1, <2>2, <2>4, <2>5, <2>6, <2>7
<1>7. RewardCycles # {}
  BY StxNumbers DEF RewardCycles
<1> QED BY <1>1, <1>3, <1>4, <1>5, <1>6, <1>7 DEF Pox5Step

\* The calls of the admin that move no money.
OfficeCall(caller) ==
    \/ \E p \in Principals : SetAdmin(caller, p)
    \/ \E p \in BOOLEAN : SetPaused(caller, p)
    \/ \E fee \in FeeChoices : ProposeFeeBips(caller, fee)
    \/ ConfirmFeeBips(caller)
    \/ CancelFeeBips(caller)
    \/ \E s \in OgChoices, og \in BOOLEAN : SetOg(caller, s, og)

LEMMA OfficeStep ==
    ASSUME StxTypes, NEW caller, OfficeCall(caller)
    PROVE  StxTypes' /\ UNCHANGED <<chain, claims, books>>
<1> USE DEF chain, claims, books, StxTypes
<1>1. ASSUME NEW p, SetAdmin(caller, p) \/ SetPaused(caller, p)
      PROVE  StxTypes' /\ UNCHANGED <<chain, claims, books>>
  BY <1>1 DEF SetAdmin, SetPaused
<1>2. ASSUME NEW fee \in FeeChoices, ProposeFeeBips(caller, fee)
      PROVE  StxTypes' /\ UNCHANGED <<chain, claims, books>>
  <2>1. fee \in 0..MaxFeeBips
    BY <1>2, StxNumbers, StxPoolAssumption DEF ProposeFeeBips
  <2> QED BY <1>2, <2>1 DEF ProposeFeeBips
<1>3. CASE ConfirmFeeBips(caller) \/ CancelFeeBips(caller)
  BY <1>3 DEF ConfirmFeeBips, CancelFeeBips
<1>4. ASSUME NEW s, NEW og, SetOg(caller, s, og)
      PROVE  StxTypes' /\ UNCHANGED <<chain, claims, books>>
  BY <1>4 DEF SetOg
<1> QED BY <1>1, <1>2, <1>3, <1>4 DEF OfficeCall

\* A claim opens a tranche.
LEMMA ClaimStep ==
    ASSUME StxTypes, NEW c \in RewardCycles, PoxClaimRewards(c)
    PROVE  LET b == [cycle |-> c, tranche |-> trancheCount[c]] IN
           /\ StxTypes'
           /\ b \in Tranches /\ ~IsOpened(b) /\ unclaimed[c] > 0
           /\ stxPot'[b] = unclaimed[c]
           /\ \A d \in Tranches \ {b} : stxPot'[d] = stxPot[d]
           /\ trancheCount'[c] = trancheCount[c] + 1 /\ unclaimed'[c] = 0
           /\ \A r \in RewardCycles \ {c} : trancheCount'[r] = trancheCount[r]
                                            /\ unclaimed'[r] = unclaimed[r]
           /\ balance' = balance + unclaimed[c]
           /\ UNCHANGED <<height, shares, terms, stxPaid, tranchePaid,
                          tranchePaidShares, earnedFees, early>>
<1> DEFINE b == [cycle |-> c, tranche |-> trancheCount[c]]
<1>1. /\ unclaimed[c] > 0 /\ b \in Tranches
      /\ unclaimed' = [unclaimed EXCEPT ![c] = 0]
      /\ balance' = balance + unclaimed[c]
      /\ stxPot' = [stxPot EXCEPT ![b] = unclaimed[c]]
      /\ trancheCount' = [trancheCount EXCEPT ![c] = @ + 1]
      /\ UNCHANGED <<height, calculated, unlock, shares, terms, stxPaid,
                     tranchePaid, tranchePaidShares, earnedFees, early>>
  BY DEF PoxClaimRewards
<1>2. ~IsOpened(b)
  <2>1. b.cycle = c /\ b.tranche = trancheCount[c] /\ trancheCount[c] \in Nat
    BY DEF StxTypes
  <2> QED BY <2>1 DEF IsOpened
<1> HIDE DEF b
<1>3. unclaimed[c] \in Nat /\ trancheCount[c] \in Nat
  BY DEF StxTypes
<1>4. /\ stxPot' \in [Tranches -> Nat]
      /\ stxPot'[b] = unclaimed[c]
      /\ \A d \in Tranches \ {b} : stxPot'[d] = stxPot[d]
  BY <1>1, <1>3 DEF StxTypes
<1>5. /\ unclaimed' \in [RewardCycles -> Nat]
      /\ trancheCount' \in [RewardCycles -> Nat]
      /\ trancheCount'[c] = trancheCount[c] + 1 /\ unclaimed'[c] = 0
      /\ \A r \in RewardCycles \ {c} : trancheCount'[r] = trancheCount[r]
                                       /\ unclaimed'[r] = unclaimed[r]
  BY <1>1, <1>3 DEF StxTypes
<1>6. StxTypes'
  BY <1>1, <1>3, <1>4, <1>5 DEF StxTypes, terms
<1> QED BY <1>1, <1>2, <1>4, <1>5, <1>6 DEF b

\* A batch.
LEMMA PayStep ==
    ASSUME StxTypes, NEW S \in SUBSET Principals, NEW b \in Tranches,
           PayStxStakers(S, b)
    PROVE  /\ StxTypes'
           /\ tranchePaid'[b] = tranchePaid[b] + SumFunctionOnSet(OwedTo(b), Due(S, b))
           /\ tranchePaidShares'[b] = tranchePaidShares[b]
                + SumFunctionOnSet(shares[b.cycle], Due(S, b))
           /\ SumFunctionOnSet(OwedTo(b), Due(S, b)) \in Nat
           /\ SumFunctionOnSet(shares[b.cycle], Due(S, b)) \in Nat
           /\ \A s \in Principals :
                 /\ s \notin Due(S, b) => stxPaid'[b][s] = stxPaid[b][s]
                 /\ s \in Due(S, b) => stxPaid'[b][s] \in Nat
           /\ \A d \in Tranches \ {b} :
                 /\ stxPaid'[d] = stxPaid[d]
                 /\ tranchePaid'[d] = tranchePaid[d]
                 /\ tranchePaidShares'[d] = tranchePaidShares[d]
           /\ balance' - earnedFees'
                = balance - earnedFees - SumFunctionOnSet(OwedTo(b), Due(S, b))
           /\ UNCHANGED <<chain, terms, claims>>
<1> DEFINE due  == Due(S, b)
           row  == [s \in Principals |-> IF s \in due THEN Owed(b, s) - Fee(b, s)
                                         ELSE stxPaid[b][s]]
           owed == SumFunctionOnSet(OwedTo(b), due)
           cut  == SumFunctionOnSet(shares[b.cycle], due)
           nets == SumFunction([s \in due |-> Owed(b, s) - Fee(b, s)])
           fees == SumFunction([s \in due |-> Fee(b, s)])
           paidNow   == tranchePaid[b] + owed
           sharesNow == tranchePaidShares[b] + cut
<1>1. due \in SUBSET Principals
  BY DEF Due
<1>2. /\ owed \in Nat /\ cut \in Nat /\ nets \in Nat /\ fees \in Nat
      /\ owed = nets + fees
      /\ SumFunction([s \in due |-> Owed(b, s)]) = owed
      /\ SumFunction([s \in due |-> shares[b.cycle][s]]) = cut
  BY <1>1, StxBatchTotals
<1>3. \A s \in Principals :
         /\ s \notin due => row[s] = stxPaid[b][s]
         /\ s \in due => row[s] \in Nat
  BY StxOwedBounds
<1>4. row \in [Principals -> Nat \cup {None}]
  <2>1. \A s \in Principals : stxPaid[b][s] \in Nat \cup {None}
    BY DEF StxTypes
  <2> QED BY <1>3, <2>1
<1>5. /\ nets <= balance
      /\ stxPaid' = [stxPaid EXCEPT ![b] = row]
      /\ tranchePaid' = [tranchePaid EXCEPT ![b] =
                           @ + SumFunction([s \in due |-> Owed(b, s)])]
      /\ tranchePaidShares' = [tranchePaidShares EXCEPT ![b] =
                                 @ + SumFunction([s \in due |-> shares[b.cycle][s]])]
      /\ earnedFees' = earnedFees + fees
      /\ balance' = balance - nets
      /\ UNCHANGED <<chain, terms, claims>>
  BY DEF PayStxStakers, Due
<1> HIDE DEF row, owed, cut, nets, fees, due
<1>6. paidNow \in Nat /\ sharesNow \in Nat
  <2>1. tranchePaid[b] \in Nat /\ tranchePaidShares[b] \in Nat
    BY DEF StxTypes
  <2> QED BY <1>2, <2>1
<1>7. /\ tranchePaid' = [tranchePaid EXCEPT ![b] = paidNow]
      /\ tranchePaidShares' = [tranchePaidShares EXCEPT ![b] = sharesNow]
  BY <1>2, <1>5 DEF StxTypes
<1> HIDE DEF paidNow, sharesNow
<1>8. /\ stxPaid' \in [Tranches -> [Principals -> Nat \cup {None}]]
      /\ stxPaid'[b] = row
      /\ \A d \in Tranches \ {b} : stxPaid'[d] = stxPaid[d]
  BY <1>4, <1>5 DEF StxTypes
<1>9. /\ tranchePaid' \in [Tranches -> Nat]
      /\ tranchePaid'[b] = paidNow
      /\ \A d \in Tranches \ {b} : tranchePaid'[d] = tranchePaid[d]
  BY <1>6, <1>7 DEF StxTypes
<1>10. /\ tranchePaidShares' \in [Tranches -> Nat]
       /\ tranchePaidShares'[b] = sharesNow
       /\ \A d \in Tranches \ {b} : tranchePaidShares'[d] = tranchePaidShares[d]
  BY <1>6, <1>7 DEF StxTypes
<1>11. /\ earnedFees' \in Nat /\ balance' \in Nat
       /\ balance' - earnedFees' = balance - earnedFees - owed
  BY <1>2, <1>5 DEF StxTypes
<1>12. StxTypes'
  BY <1>5, <1>8, <1>9, <1>10, <1>11 DEF StxTypes, chain, terms, claims
<1> QED
  BY <1>2, <1>3, <1>5, <1>8, <1>9, <1>10, <1>11, <1>12
     DEF owed, cut, due, paidNow, sharesNow

\* A sweep.
LEMMA SweepStep ==
    ASSUME StxTypes, NEW caller, NEW b \in Tranches, SweepTrancheDust(caller, b)
    PROVE  /\ StxTypes'
           /\ FullyPaid(b)
           /\ tranchePaid'[b] = stxPot[b]
           /\ \A d \in Tranches \ {b} : tranchePaid'[d] = tranchePaid[d]
           /\ balance' = balance - Residue(b)
           /\ UNCHANGED <<chain, terms, claims, stxPaid, tranchePaidShares,
                          earnedFees, early>>
<1>1. /\ stxPot[b] \in Nat /\ tranchePaid[b] \in Nat
      /\ Residue(b) = stxPot[b] - tranchePaid[b]
  BY DEF StxTypes, Residue
<1>2. /\ FullyPaid(b) /\ Residue(b) > 0 /\ Residue(b) <= balance
      /\ balance' = balance - Residue(b)
      /\ tranchePaid' = [tranchePaid EXCEPT ![b] = @ + Residue(b)]
      /\ UNCHANGED <<chain, terms, claims, stxPaid, tranchePaidShares,
                     earnedFees, early>>
  BY DEF SweepTrancheDust
<1>3. tranchePaid' = [tranchePaid EXCEPT ![b] = stxPot[b]]
  <2>1. tranchePaid[b] + Residue(b) = stxPot[b]
    BY <1>1
  <2> QED BY <1>2, <2>1
<1>4. /\ tranchePaid' \in [Tranches -> Nat]
      /\ tranchePaid'[b] = stxPot[b]
      /\ \A d \in Tranches \ {b} : tranchePaid'[d] = tranchePaid[d]
  BY <1>1, <1>3 DEF StxTypes
<1>5. balance' \in Nat
  BY <1>1, <1>2 DEF StxTypes
<1> QED BY <1>2, <1>4, <1>5 DEF StxTypes, chain, terms, claims

\* A withdrawal.
LEMMA WithdrawStep ==
    ASSUME StxTypes, NEW caller, NEW amount, WithdrawFees(caller, amount)
    PROVE  /\ StxTypes'
           /\ balance' - earnedFees' = balance - earnedFees
           /\ UNCHANGED <<chain, terms, claims, stxPaid, tranchePaid,
                          tranchePaidShares, early>>
  BY DEF WithdrawFees, StxTypes, chain, terms, claims

\* Every step is one of these.
LEMMA StxCases ==
    ASSUME [StxPoolNext]_stxPoolVars
    PROVE  \/ Pox5Step
           \/ \E caller \in Principals : OfficeCall(caller)
           \/ \E c \in RewardCycles : PoxClaimRewards(c)
           \/ \E S \in SUBSET Principals, b \in Tranches : PayStxStakers(S, b)
           \/ \E caller \in Principals, b \in Tranches : SweepTrancheDust(caller, b)
           \/ \E caller \in Principals, amount \in Int : WithdrawFees(caller, amount)
           \/ UNCHANGED stxPoolVars
<1>1. ASSUME NEW caller \in Principals, AdminStep(caller)
      PROVE  \/ OfficeCall(caller)
             \/ \E b \in Tranches : SweepTrancheDust(caller, b)
             \/ \E amount \in Int : WithdrawFees(caller, amount)
  BY <1>1 DEF AdminStep, OfficeCall
<1> QED BY <1>1 DEF StxPoolNext, PublicStep

LEMMA StxInit == StxPoolInit => StxTypes
  BY StxPoolAssumption DEF StxPoolInit, StxTypes

\* Every step keeps the types.
LEMMA StepStxTypes ==
    ASSUME StxTypes, [StxPoolNext]_stxPoolVars PROVE StxTypes'
<1>1. CASE UNCHANGED stxPoolVars
  BY <1>1 DEF StxTypes, stxPoolVars, chain, terms, claims, books
<1> QED
  BY <1>1, StxCases, ChainStep, OfficeStep, ClaimStep, PayStep, SweepStep,
     WithdrawStep

\* Types: no counter, pot or wallet of the pool is ever negative, and the fee
\* is never above its maximum.
THEOREM StxTypeCorrect == StxPoolSpec => []StxTypes
  BY StxInit, StepStxTypes, PTL DEF StxPoolSpec

-----------------------------------------------------------------------------
(* Fee and receipts.                                                       *)

\* The fee changes only after an unchanged notice, whoever is the admin.
THEOREM StxFeeOnNotice == StxPoolSpec => StxFeeChangesOnNotice
<1>1. StxPoolInit => StxFeeChange!ChangeInit
  BY DEF StxPoolInit, StxFeeChange!ChangeInit
<1>2. StxTypes /\ [StxPoolNext]_stxPoolVars
        => [StxFeeChange!ChangeNext]_(StxFeeChange!changeVars)
  <2> SUFFICES ASSUME StxTypes, [StxPoolNext]_stxPoolVars
               PROVE  [StxFeeChange!ChangeNext]_(StxFeeChange!changeVars)
    OBVIOUS
  <2> USE StxNumbers
      DEF StxFeeChange!ChangeNext, StxFeeChange!changeVars, FeeAge
  <2>1. /\ height \in Nat /\ pendingFeeHeight \in 0..height
        /\ pendingFee \in Nat \cup {None} /\ None \notin Nat
    BY StxPoolAssumption DEF StxTypes
  <2>2. CASE Pox5Step
    <3>1. CASE Advance(1)
      BY <2>1, <3>1 DEF Advance, terms, StxFeeChange!Wait, StxFeeChange!Withdraw
    <3>2. CASE ~Advance(1)
      <4>1. UNCHANGED <<height, terms>>
        BY <2>2, <3>2
           DEF Pox5Step, Stake, StakeElsewhere, StakeUpdate, MoveElsewhere, Unstake,
               CalculateRewards
      <4> QED BY <4>1 DEF terms
    <3> QED BY <3>1, <3>2
  <2>3. ASSUME NEW caller, NEW newFee \in FeeChoices, ProposeFeeBips(caller, newFee)
        PROVE  StxFeeChange!Announce
    <3>1. newFee \in Nat
      BY StxPoolAssumption
    <3> QED BY <2>1, <2>3, <3>1 DEF ProposeFeeBips, chain, StxFeeChange!Announce
  <2>4. ASSUME NEW caller, ConfirmFeeBips(caller)
        PROVE  StxFeeChange!Adopt
    BY <2>1, <2>4 DEF ConfirmFeeBips, chain, StxFeeChange!Adopt
  <2>5. ASSUME NEW caller, CancelFeeBips(caller)
        PROVE  StxFeeChange!Withdraw
    BY <2>5 DEF CancelFeeBips, StxFeeChange!Withdraw
  <2>6. ASSUME NEW caller, OfficeCall(caller)
        PROVE  [StxFeeChange!ChangeNext]_(StxFeeChange!changeVars)
    <3>1. ASSUME NEW p, NEW og, SetAdmin(caller, p) \/ SetPaused(caller, p)
                                  \/ SetOg(caller, p, og)
          PROVE  UNCHANGED StxFeeChange!changeVars
      BY <3>1 DEF SetAdmin, SetPaused, SetOg, chain
    <3> QED BY <2>3, <2>4, <2>5, <2>6, <3>1 DEF OfficeCall
  <2>7. UNCHANGED <<chain, terms>> => UNCHANGED StxFeeChange!changeVars
    BY DEF chain, terms
  <2>8. ASSUME NEW c \in RewardCycles, PoxClaimRewards(c)
        PROVE  UNCHANGED StxFeeChange!changeVars
    BY <2>8 DEF PoxClaimRewards, terms
  <2>9. UNCHANGED stxPoolVars => UNCHANGED <<chain, terms>>
    BY DEF stxPoolVars
  <2>10. /\ \A S \in SUBSET Principals, b \in Tranches :
               PayStxStakers(S, b) => UNCHANGED <<chain, terms>>
         /\ \A caller \in Principals, b \in Tranches :
               SweepTrancheDust(caller, b) => UNCHANGED <<chain, terms>>
         /\ \A caller \in Principals, amount \in Int :
               WithdrawFees(caller, amount) => UNCHANGED <<chain, terms>>
    BY DEF PayStxStakers, SweepTrancheDust, WithdrawFees
  <2> QED BY StxCases, <2>2, <2>6, <2>7, <2>8, <2>9, <2>10
<1> QED
  BY <1>1, <1>2, StxTypeCorrect, PTL
     DEF StxPoolSpec, StxFeeChangesOnNotice, StxFeeChange!ChangeSpec

\* What a step may do to the receipts.
ReceiptStep ==
    \A b \in Tranches, s \in Principals :
        stxPaid[b][s] # None => stxPaid'[b][s] = stxPaid[b][s]

\* What a staker was paid for a tranche is final, before the tranche is opened
\* as after.
THEOREM StxReceiptsStay == StxPoolSpec => StxReceiptsAreFinal
<1>1. StxTypes /\ [StxPoolNext]_stxPoolVars => ReceiptStep
  <2> SUFFICES ASSUME StxTypes, [StxPoolNext]_stxPoolVars PROVE ReceiptStep
    OBVIOUS
  <2>1. ASSUME NEW S \in SUBSET Principals, NEW b \in Tranches,
               PayStxStakers(S, b)
        PROVE  ReceiptStep
    <3>1. \A s \in Principals : s \notin Due(S, b) => stxPaid'[b][s] = stxPaid[b][s]
      BY <2>1, PayStep
    <3>2. \A d \in Tranches \ {b} : stxPaid'[d] = stxPaid[d]
      BY <2>1, PayStep
    <3> QED BY <3>1, <3>2 DEF ReceiptStep, Due
  <2>2. UNCHANGED stxPaid => ReceiptStep
    BY DEF ReceiptStep
  <2>3. /\ Pox5Step => UNCHANGED stxPaid
        /\ \A caller : OfficeCall(caller) => UNCHANGED stxPaid
        /\ UNCHANGED stxPoolVars => UNCHANGED stxPaid
    BY ChainStep, OfficeStep DEF books, stxPoolVars
  <2>4. /\ \A c \in RewardCycles : PoxClaimRewards(c) => UNCHANGED stxPaid
        /\ \A caller, b : SweepTrancheDust(caller, b) => UNCHANGED stxPaid
        /\ \A caller, amount : WithdrawFees(caller, amount) => UNCHANGED stxPaid
    BY DEF PoxClaimRewards, SweepTrancheDust, WithdrawFees
  <2> QED BY StxCases, <2>1, <2>2, <2>3, <2>4
<1>2. StxTypes /\ [StxPoolNext]_stxPoolVars
        => [\A b \in Tranches, s \in Principals :
              stxPaid[b][s] # None => stxPaid'[b][s] = stxPaid[b][s]]_stxPoolVars
  BY <1>1 DEF ReceiptStep
<1> QED
  BY <1>2, StxTypeCorrect, PTL DEF StxPoolSpec, StxReceiptsAreFinal

-----------------------------------------------------------------------------
(* The wallet.                                                             *)

\* A tranche that was not opened has no pot.
UnopenedEmpty == \A b \in Tranches : ~IsOpened(b) => stxPot[b] = 0

\* What is left of each tranche.
Left == [b \in Tranches |-> Residue(b)]

\* It is an integer; nothing says yet that it is not negative.
LEMMA LeftInt ==
    ASSUME StxTypes
    PROVE  \A b \in Tranches : Left[b] = Residue(b) /\ Residue(b) \in Int
  BY DEF StxTypes, Left, Residue

\* What a step may do to the money: nothing, or it changes what is left of one
\* tranche and the wallet, less the fees, by the same amount.
Untouched ==
    /\ \A b \in Tranches : Residue(b)' = Residue(b)
    /\ balance' - earnedFees' = balance - earnedFees

TouchesOne(b) ==
    /\ \A d \in Tranches \ {b} : Residue(d)' = Residue(d)
    /\ balance' - earnedFees' - Residue(b)' = balance - earnedFees - Residue(b)

\* Every step does one of the two, and no tranche gets a pot before it is
\* opened.
LEMMA MoneySteps ==
    ASSUME StxTypes, UnopenedEmpty, [StxPoolNext]_stxPoolVars
    PROVE  /\ UnopenedEmpty'
           /\ Untouched \/ \E b \in Tranches : TouchesOne(b)
<1> DEFINE Goal == /\ UnopenedEmpty'
                   /\ Untouched \/ \E b \in Tranches : TouchesOne(b)
<1>1. UNCHANGED <<claims, books>> => Goal
  BY DEF claims, books, UnopenedEmpty, IsOpened, Untouched, Residue
<1>2. Pox5Step => Goal
  BY <1>1, ChainStep
<1>3. \A caller : OfficeCall(caller) => Goal
  BY <1>1, OfficeStep
<1>4. ASSUME NEW c \in RewardCycles, PoxClaimRewards(c) PROVE Goal
  <2>1. PICK b \in Tranches :
           /\ b.cycle = c /\ b.tranche = trancheCount[c] /\ ~IsOpened(b)
           /\ stxPot'[b] = unclaimed[c]
           /\ \A d \in Tranches \ {b} : stxPot'[d] = stxPot[d]
    <3>1. \A b : b = [cycle |-> c, tranche |-> trancheCount[c]]
                   => b.cycle = c /\ b.tranche = trancheCount[c]
      OBVIOUS
    <3> QED BY <1>4, <3>1, ClaimStep
  <2>2. /\ trancheCount'[c] = trancheCount[c] + 1 /\ trancheCount[c] \in Nat
        /\ \A r \in RewardCycles \ {c} : trancheCount'[r] = trancheCount[r]
        /\ balance' = balance + unclaimed[c]
        /\ UNCHANGED <<tranchePaid, earnedFees>>
    BY <1>4, ClaimStep DEF StxTypes
  <2>3. \A d \in Tranches : d.cycle \in RewardCycles /\ d.tranche \in Nat
    BY StxNumbers DEF Tranches
  <2>4. UnopenedEmpty'
    BY <2>1, <2>2, <2>3 DEF UnopenedEmpty, IsOpened
  <2>5. stxPot[b] = 0 /\ tranchePaid[b] \in Int /\ unclaimed[c] \in Int
        /\ balance \in Int /\ earnedFees \in Int
    BY <2>1 DEF UnopenedEmpty, StxTypes
  <2>6. TouchesOne(b)
    <3>1. \A d \in Tranches \ {b} : Residue(d)' = Residue(d)
      BY <2>1, <2>2 DEF Residue
    <3>2. Residue(b)' = Residue(b) + unclaimed[c]
      BY <2>1, <2>2, <2>5 DEF Residue
    <3>3. Residue(b) \in Int
      BY <2>5 DEF Residue
    <3>4. balance' - earnedFees' - Residue(b)' = balance - earnedFees - Residue(b)
      BY <2>2, <2>5, <3>2, <3>3
    <3> QED BY <3>1, <3>4 DEF TouchesOne
  <2> QED BY <2>4, <2>6
<1>5. ASSUME NEW S \in SUBSET Principals, NEW b \in Tranches,
             PayStxStakers(S, b)
      PROVE  Goal
  <2> DEFINE owed == SumFunctionOnSet(OwedTo(b), Due(S, b))
  <2>1. /\ tranchePaid'[b] = tranchePaid[b] + owed
        /\ owed \in Nat
        /\ \A d \in Tranches \ {b} : tranchePaid'[d] = tranchePaid[d]
        /\ balance' - earnedFees' = balance - earnedFees - owed
        /\ UNCHANGED claims
        /\ StxTypes'
    BY <1>5, PayStep
  <2> HIDE DEF owed
  <2>2. UnopenedEmpty'
    BY <2>1 DEF UnopenedEmpty, IsOpened, claims
  <2>3. TouchesOne(b)
    <3>1. \A d \in Tranches \ {b} : Residue(d)' = Residue(d)
      BY <2>1 DEF Residue, claims
    <3>2. /\ tranchePaid[b] \in Int /\ stxPot[b] \in Int
          /\ balance \in Int /\ earnedFees \in Int
          /\ balance' \in Int /\ earnedFees' \in Int
      BY <2>1 DEF StxTypes
    <3>3. Residue(b)' = Residue(b) - owed /\ Residue(b) \in Int
      BY <2>1, <3>2 DEF Residue, claims
    <3>4. balance' - earnedFees' - Residue(b)' = balance - earnedFees - Residue(b)
      <4>1. balance' - earnedFees' = balance - earnedFees - owed
        BY <2>1
      <4>2. Residue(b)' = Residue(b) - owed
        BY <3>3
      <4>3. balance' - earnedFees' - Residue(b)'
              = (balance - earnedFees - owed) - (Residue(b) - owed)
        BY <4>1, <4>2, Zenon
      <4>4. owed \in Int /\ Residue(b) \in Int
        BY <2>1, <3>3
      <4>5. balance \in Int /\ earnedFees \in Int
        BY <3>2
      <4>6. (balance - earnedFees - owed) - (Residue(b) - owed)
              = balance - earnedFees - Residue(b)
        BY <4>4, <4>5
      <4> QED BY <4>3, <4>6
    <3> QED BY <3>1, <3>4 DEF TouchesOne
  <2> QED BY <2>2, <2>3
<1>6. ASSUME NEW caller, NEW b \in Tranches, SweepTrancheDust(caller, b)
      PROVE  Goal
  <2>1. /\ tranchePaid'[b] = stxPot[b]
        /\ \A d \in Tranches \ {b} : tranchePaid'[d] = tranchePaid[d]
        /\ balance' = balance - Residue(b)
        /\ UNCHANGED <<claims, earnedFees>>
    BY <1>6, SweepStep
  <2>2. UnopenedEmpty'
    BY <2>1 DEF UnopenedEmpty, IsOpened, claims
  <2>3. TouchesOne(b)
    BY <2>1 DEF TouchesOne, Residue, claims, StxTypes
  <2> QED BY <2>2, <2>3
<1>7. ASSUME NEW caller, NEW amount, WithdrawFees(caller, amount) PROVE Goal
  <2>1. /\ balance' - earnedFees' = balance - earnedFees
        /\ UNCHANGED <<claims, tranchePaid>>
    BY <1>7, WithdrawStep
  <2> QED BY <2>1 DEF claims, UnopenedEmpty, IsOpened, Untouched, Residue
<1>8. UNCHANGED stxPoolVars => UNCHANGED <<claims, books>>
  BY DEF stxPoolVars
<1> QED BY StxCases, <1>1, <1>2, <1>3, <1>4, <1>5, <1>6, <1>7, <1>8

\* So every step keeps the wallet at what the books say.
LEMMA StepWallet ==
    ASSUME StxTypes, UnopenedEmpty, WalletIsBooks, [StxPoolNext]_stxPoolVars
    PROVE  WalletIsBooks'
<1> DEFINE L == SumFunctionOnSet(Left, Tranches)
<1>1. StxTypes'
  BY StepStxTypes
<1>2. /\ \A b \in Tranches : Left[b] = Residue(b) /\ Residue(b) \in Int
      /\ \A b \in Tranches : Left'[b] = Residue(b)' /\ Residue(b)' \in Int
  BY <1>1, LeftInt DEF StxTypes, Left, Residue
<1>3. /\ IntegersOn(Left, Tranches) /\ IntegersOn(Left', Tranches)
  BY <1>2 DEF IntegersOn
<1>4. balance = earnedFees + L
  BY DEF WalletIsBooks, Left, SumFunction
<1>5. /\ L \in Int /\ balance \in Int /\ earnedFees \in Int
      /\ balance' \in Int /\ earnedFees' \in Int
  BY <1>1, <1>3, StxTranchesFinite, SumTake DEF StxTypes
<1>6. balance' = earnedFees' + SumFunctionOnSet(Left', Tranches)
  <2>1. CASE Untouched
    <3>1. SumFunctionOnSet(Left', Tranches) = L
      <4>1. \A b \in Tranches : Left'[b] = Left[b]
        BY <1>2, <2>1 DEF Untouched
      <4> QED BY <1>3, <4>1, StxTranchesFinite, SumSame
    <3> QED BY <1>4, <1>5, <2>1, <3>1 DEF Untouched
  <2>2. ASSUME NEW b \in Tranches, TouchesOne(b)
        PROVE  balance' = earnedFees' + SumFunctionOnSet(Left', Tranches)
    <3>1. SumFunctionOnSet(Left', Tranches) = L - Left[b] + Left'[b]
      <4>1. Left'[b] \in Int /\ \A d \in Tranches \ {b} : Left'[d] = Left[d]
        BY <1>2, <2>2 DEF TouchesOne
      <4> QED BY <1>3, <4>1, StxTranchesFinite, SumChange
    <3> HIDE DEF L
    <3> QED BY <1>2, <1>4, <1>5, <2>2, <3>1 DEF TouchesOne
  <2> QED BY <2>1, <2>2, MoneySteps
<1>7. SumFunctionOnSet(Left', Tranches)
        = SumFunction([b \in Tranches |-> Residue(b)'])
  BY DEF Left, SumFunction
<1> QED BY <1>6, <1>7 DEF WalletIsBooks

\* At first there is no money.
LEMMA WalletInit ==
    StxPoolInit => StxTypes /\ UnopenedEmpty /\ WalletIsBooks
<1> SUFFICES ASSUME StxPoolInit PROVE StxTypes /\ UnopenedEmpty /\ WalletIsBooks
  OBVIOUS
<1>1. StxTypes /\ UnopenedEmpty
  BY StxInit DEF StxPoolInit, UnopenedEmpty
<1>2. \A b \in Tranches : Left[b] = 0
  BY DEF StxPoolInit, Left, Residue
<1>3. SumFunctionOnSet(Left, Tranches) = 0
  BY <1>2, StxTranchesFinite, SumZero
<1> QED BY <1>1, <1>3 DEF StxPoolInit, WalletIsBooks, Left, SumFunction

\* The wallet is the earned fees and what is left of each tranche, in whatever
\* order tranches are claimed, paid and swept.
THEOREM StxWalletIsBooks == StxPoolSpec => []WalletIsBooks
<1>1. StxTypes /\ UnopenedEmpty /\ WalletIsBooks /\ [StxPoolNext]_stxPoolVars
        => StxTypes' /\ UnopenedEmpty' /\ WalletIsBooks'
  BY StepStxTypes, MoneySteps, StepWallet
<1> QED BY <1>1, WalletInit, PTL DEF StxPoolSpec

-----------------------------------------------------------------------------
(* Everyone can be paid, unless somebody was paid early.                   *)

\* Only a cycle that has begun, with shares, has tranches or rewards: nobody
\* stakes for it any more.
OpenBegun ==
    \A c \in RewardCycles : trancheCount[c] > 0 \/ unclaimed[c] > 0 =>
        c <= CurrentCycle /\ TotalShares(c) > 0

\* Those who were paid for a tranche.
PaidStakers(b) == {s \in Principals : stxPaid[b][s] # None}

\* The books of a tranche: they are those of the stakers paid, until a sweep
\* takes what is left after everyone is.
BookOK(b) ==
    /\ \A s \in PaidStakers(b) : shares[b.cycle][s] > 0 /\ IsOpened(b)
    /\ tranchePaidShares[b] = SumFunctionOnSet(shares[b.cycle], PaidStakers(b))
    /\ \/ tranchePaid[b] = SumFunctionOnSet(OwedTo(b), PaidStakers(b))
       \/ FullyPaid(b) /\ tranchePaid[b] = stxPot[b]

BooksOK == ~early => \A b \in Tranches : BookOK(b)

StxInv == StxTypes /\ UnopenedEmpty /\ WalletIsBooks /\ OpenBegun /\ BooksOK

\* The cycle of a tranche, and those who are paid and who are due for it.
LEMMA StxSets ==
    ASSUME StxTypes, NEW b \in Tranches
    PROVE  /\ b.cycle \in RewardCycles /\ b.tranche \in Nat
           /\ PaidStakers(b) \in SUBSET Principals
           /\ IsFiniteSet(PaidStakers(b)) /\ IsFiniteSet(Principals)
           /\ IsOpened(b) => trancheCount[b.cycle] > 0
<1>1. b.cycle \in RewardCycles /\ b.tranche \in Nat
  BY StxNumbers DEF Tranches
<1>2. PaidStakers(b) \in SUBSET Principals
  BY DEF PaidStakers
<1>3. IsOpened(b) => trancheCount[b.cycle] > 0
  BY <1>1 DEF IsOpened, StxTypes
<1> QED BY <1>1, <1>2, <1>3, StxPoolAssumption, FS_Subset

\* All shares are counted as paid exactly when all who have some are paid.
LEMMA StxFullMeansAll ==
    ASSUME StxTypes, NEW b \in Tranches, BookOK(b)
    PROVE  FullyPaid(b)
             <=> \A s \in Principals : shares[b.cycle][s] > 0 => s \in PaidStakers(b)
<1> DEFINE R  == PaidStakers(b)
           sh == shares[b.cycle]
<1>1. /\ R \in SUBSET Principals /\ IsFiniteSet(Principals)
      /\ \A s \in Principals : sh[s] \in Nat
      /\ TotalShares(b.cycle) = SumFunctionOnSet(sh, Principals)
  BY StxSets, StxSharesTotal
<1>2. FullyPaid(b)
        <=> SumFunctionOnSet(sh, R) >= SumFunctionOnSet(sh, Principals)
  BY <1>1 DEF FullyPaid, BookOK
<1> HIDE DEF R, sh
<1>3. FullyPaid(b) <=> \A s \in Principals : sh[s] > 0 => s \in R
  BY <1>1, <1>2, SumOfAll
<1> QED BY <1>3 DEF R, sh

\* What all of some stakers together are owed of a tranche with shares.
LEMMA OwedOfSome ==
    ASSUME StxTypes, NEW b \in Tranches, TotalShares(b.cycle) > 0,
           NEW T \in SUBSET Principals
    PROVE  /\ SumFunctionOnSet(OwedTo(b), T) \in Nat
           /\ SumFunctionOnSet(OwedTo(b), T) <= stxPot[b]
           /\ SumFunctionOnSet(shares[b.cycle], T) >= TotalShares(b.cycle)
                => stxPot[b] - SumFunctionOnSet(OwedTo(b), T) < Cardinality(T)
<1> DEFINE sh    == shares[b.cycle]
           part  == OwedTo(b)
           total == TotalShares(b.cycle)
           pot   == stxPot[b]
<1>1. /\ IsFiniteSet(T) /\ IsFiniteSet(Principals)
      /\ \A s \in Principals : sh[s] \in Nat
      /\ total = SumFunctionOnSet(sh, Principals)
      /\ total \in Nat \ {0} /\ pot \in Nat
  BY StxSets, StxSharesTotal, FS_Subset DEF StxTypes
<1>2. \A s \in T : /\ sh[s] \in Nat
                   /\ part[s] \in Nat
                   /\ total * part[s] <= pot * sh[s]
                   /\ pot * sh[s] <= total * part[s] + total - 1
  <2> SUFFICES ASSUME NEW s \in T
               PROVE  /\ sh[s] \in Nat
                      /\ part[s] \in Nat
                      /\ total * part[s] <= pot * sh[s]
                      /\ pot * sh[s] <= total * part[s] + total - 1
    OBVIOUS
  <2>1. s \in Principals /\ part[s] = Owed(b, s)
    BY DEF OwedTo
  <2> HIDE DEF part
  <2> QED BY <1>1, <2>1, StxOwedBounds
<1> HIDE DEF sh, part, total, pot
<1>3. SumFunctionOnSet(sh, T) <= total /\ SumFunctionOnSet(sh, T) \in Nat
  BY <1>1, <1>2, SumSubset, SumNat
<1>4. /\ SumFunctionOnSet(part, T) \in Nat
      /\ SumFunctionOnSet(part, T) <= pot
      /\ SumFunctionOnSet(sh, T) = total
           => pot - SumFunctionOnSet(part, T) < Cardinality(T)
  BY <1>1, <1>2, <1>3, PartsOfPot
<1>5. SumFunctionOnSet(sh, T) >= total => SumFunctionOnSet(sh, T) = total
  BY <1>1, <1>3
<1> QED BY <1>4, <1>5 DEF sh, part, total, pot

\* Those with shares in a tranche who are not paid for it.
WaitingStakers(b) ==
    {p \in Principals : shares[b.cycle][p] > 0 /\ stxPaid[b][p] = None}

\* What is left of a tranche is enough for all who are not paid for it.
LEMMA StxUnpaidIsThere ==
    ASSUME StxTypes, NEW b \in Tranches, BookOK(b)
    PROVE  Unpaid(b) \in Nat /\ Unpaid(b) <= Residue(b)
<1> DEFINE U    == WaitingStakers(b)
           R    == PaidStakers(b)
           part == OwedTo(b)
<1>1. /\ U \in SUBSET Principals /\ R \in SUBSET Principals /\ U \cap R = {}
      /\ IsFiniteSet(U) /\ IsFiniteSet(R)
  <2>1. U \in SUBSET Principals /\ R \in SUBSET Principals /\ U \cap R = {}
    BY DEF WaitingStakers, PaidStakers
  <2> HIDE DEF U, R
  <2> QED BY <2>1, StxPoolAssumption, FS_Subset
<1>2. /\ Unpaid(b) = SumFunctionOnSet(part, U)
      /\ SumFunctionOnSet(part, U) \in Nat
  BY <1>1, StxBatchTotals DEF Unpaid, WaitingStakers
<1>3. /\ stxPot[b] \in Nat /\ tranchePaid[b] \in Nat
      /\ Residue(b) = stxPot[b] - tranchePaid[b]
      /\ TotalShares(b.cycle) \in Nat
  BY StxSets, StxSharesTotal DEF StxTypes, Residue
<1>4. CASE tranchePaid[b] # SumFunctionOnSet(part, R)
  <2>1. FullyPaid(b) /\ tranchePaid[b] = stxPot[b]
    BY <1>4 DEF BookOK
  <2>2. U = {}
    BY <2>1, StxFullMeansAll DEF WaitingStakers, PaidStakers
  <2>3. SumFunctionOnSet(part, U) = 0
    BY <2>2, SumEmpty
  <2> QED BY <1>2, <1>3, <2>1, <2>3
<1>5. CASE tranchePaid[b] = SumFunctionOnSet(part, R) /\ TotalShares(b.cycle) = 0
  <2>1. \A s \in Principals : ~(shares[b.cycle][s] > 0)
    <3>1. /\ \A s \in Principals : shares[b.cycle][s] \in Nat
          /\ TotalShares(b.cycle) = SumFunctionOnSet(shares[b.cycle], Principals)
      BY StxSets, StxSharesTotal
    <3>2. \A s \in Principals : shares[b.cycle][s] <= TotalShares(b.cycle)
      BY <3>1, StxPoolAssumption, SumNat
    <3> QED BY <1>5, <3>1, <3>2
  <2>2. U = {} /\ R = {}
    BY <2>1 DEF WaitingStakers, PaidStakers, BookOK
  <2>3. SumFunctionOnSet(part, U) = 0 /\ SumFunctionOnSet(part, R) = 0
    BY <2>2, SumEmpty
  <2> QED BY <1>2, <1>3, <1>5, <2>3
<1>6. CASE tranchePaid[b] = SumFunctionOnSet(part, R) /\ TotalShares(b.cycle) # 0
  <2>1. R \cup U \in SUBSET Principals /\ \A s \in Principals : part[s] \in Nat
    BY <1>1, StxOwedBounds DEF OwedTo
  <2>2. SumFunctionOnSet(part, R \cup U) <= stxPot[b]
    BY <1>3, <1>6, <2>1, OwedOfSome
  <2> HIDE DEF U, R, part
  <2>3. SumFunctionOnSet(part, R \cup U)
          = SumFunctionOnSet(part, R) + SumFunctionOnSet(part, U)
    <3>1. IntegersOn(part, R \cup U)
      BY <2>1 DEF IntegersOn
    <3> QED BY <1>1, <3>1, SumUnion
  <2> QED BY <1>2, <1>3, <1>6, <2>2, <2>3
<1> QED BY <1>4, <1>5, <1>6

\* What is left of a fully paid tranche is less than a sat for each staker.
LEMMA StxRoundingIsLeft ==
    ASSUME StxTypes, OpenBegun, NEW b \in Tranches, BookOK(b), IsOpened(b),
           FullyPaid(b)
    PROVE  Residue(b) <= Cardinality({s \in Principals : shares[b.cycle][s] > 0})
<1> DEFINE R == PaidStakers(b)
<1>1. R = {s \in Principals : shares[b.cycle][s] > 0}
  BY StxFullMeansAll DEF PaidStakers, BookOK
<1>2. Cardinality(R) \in Nat /\ R \in SUBSET Principals
  BY StxSets, FS_CardinalityType
<1>3. Residue(b) = stxPot[b] - tranchePaid[b] /\ stxPot[b] \in Nat
  BY DEF Residue, StxTypes
<1>4. TotalShares(b.cycle) > 0
  BY StxSets DEF OpenBegun
<1>5. SumFunctionOnSet(shares[b.cycle], R) >= TotalShares(b.cycle)
  BY DEF BookOK, FullyPaid
<1>6. /\ SumFunctionOnSet(OwedTo(b), R) \in Nat
      /\ stxPot[b] - SumFunctionOnSet(OwedTo(b), R) < Cardinality(R)
  BY <1>2, <1>4, <1>5, OwedOfSome
<1>7. \/ tranchePaid[b] = SumFunctionOnSet(OwedTo(b), R)
      \/ tranchePaid[b] = stxPot[b]
  BY DEF BookOK
<1> HIDE DEF R
<1> QED BY <1>1, <1>2, <1>3, <1>6, <1>7

\* So the invariant gives the property.
LEMMA InvOnlyEarly ==
    ASSUME StxInv PROVE OnlyEarlyPaymentsHurt
<1> SUFFICES ASSUME ~early
             PROVE  /\ FullyPaidLeavesRounding
                    /\ earnedFees + SumFunction([b \in Tranches |-> Unpaid(b)])
                         <= balance
  BY DEF OnlyEarlyPaymentsHurt
<1>1. StxTypes /\ OpenBegun /\ WalletIsBooks /\ \A b \in Tranches : BookOK(b)
  BY DEF StxInv, BooksOK
<1>2. FullyPaidLeavesRounding
  BY <1>1, StxRoundingIsLeft DEF FullyPaidLeavesRounding
<1> DEFINE waiting == [b \in Tranches |-> Unpaid(b)]
<1>3. \A b \in Tranches : /\ waiting[b] \in Int /\ Left[b] \in Int
                          /\ waiting[b] <= Left[b]
  BY <1>1, StxUnpaidIsThere, LeftInt
<1>4. SumFunction(waiting) = SumFunctionOnSet(waiting, Tranches)
  BY DEF SumFunction
<1> HIDE DEF waiting
<1>5. IntegersOn(waiting, Tranches) /\ IntegersOn(Left, Tranches)
  BY <1>3 DEF IntegersOn
<1>6. SumFunctionOnSet(waiting, Tranches) <= SumFunctionOnSet(Left, Tranches)
  BY <1>3, <1>5, StxTranchesFinite, SumMono
<1>7. /\ SumFunctionOnSet(waiting, Tranches) \in Int
      /\ SumFunctionOnSet(Left, Tranches) \in Int
  BY <1>5, StxTranchesFinite, SumTake
<1>8. balance = earnedFees + SumFunctionOnSet(Left, Tranches)
  BY <1>1 DEF WalletIsBooks, Left, SumFunction
<1>9. earnedFees \in Int
  BY <1>1 DEF StxTypes
<1>10. earnedFees + SumFunction(waiting) <= balance
  BY <1>4, <1>6, <1>7, <1>8, <1>9
<1> QED BY <1>2, <1>10 DEF waiting

\* Time only goes on, and so do the cycles.
LEMMA CyclesGoOn ==
    ASSUME StxTypes, StxTypes', height' >= height
    PROVE  CurrentCycle' >= CurrentCycle
<1> DEFINE d == 2 * DistLength
<1>1. d \in Nat \ {0} /\ height \in Int /\ height' \in Int
  BY StxNumbers DEF StxTypes
<1> HIDE DEF d
<1>2. height \div d <= height' \div d
  BY <1>1, DivMono
<1>3. height \div d \in Int /\ height' \div d \in Int
  BY <1>1
<1> QED BY <1>2, <1>3 DEF CurrentCycle, d

\* Every step keeps tranches and rewards to the cycles that have begun.
LEMMA StepOpenBegun ==
    ASSUME StxTypes, OpenBegun, [StxPoolNext]_stxPoolVars PROVE OpenBegun'
<1>1. CurrentCycle \in Nat /\ RewardCycles \subseteq Nat
  BY CycleNat, StxNumbers
<1>2. CASE UNCHANGED <<chain, trancheCount>>
  <2>1. /\ \A c : TotalShares(c)' = TotalShares(c)
        /\ CurrentCycle' = CurrentCycle /\ UNCHANGED <<trancheCount, unclaimed>>
    BY <1>2 DEF chain, CurrentCycle, TotalShares
  <2> QED BY <2>1 DEF OpenBegun
<1>3. CASE Pox5Step
  <2>1. /\ CurrentCycle' >= CurrentCycle /\ CurrentCycle' \in Nat
        /\ UNCHANGED trancheCount
        /\ \A c \in RewardCycles : c <= CurrentCycle => shares'[c] = shares[c]
        /\ \A c \in RewardCycles : unclaimed'[c] > 0 =>
              \/ unclaimed[c] > 0
              \/ c <= CurrentCycle /\ TotalShares(c) > 0
    <3>1. StxTypes' /\ CurrentCycle' >= CurrentCycle
      BY <1>3, ChainStep, CyclesGoOn
    <3>2. CurrentCycle' \in Nat
      BY <3>1, StxNumbers, DivNat DEF StxTypes, CurrentCycle
    <3> QED BY <1>3, <3>1, <3>2, ChainStep DEF claims
  <2> SUFFICES ASSUME NEW c \in RewardCycles,
                      trancheCount'[c] > 0 \/ unclaimed'[c] > 0
               PROVE  c <= CurrentCycle' /\ TotalShares(c)' > 0
    BY DEF OpenBegun
  <2>2. c <= CurrentCycle /\ TotalShares(c) > 0
    BY <2>1 DEF OpenBegun
  <2>3. TotalShares(c)' = TotalShares(c)
    BY <2>1, <2>2 DEF TotalShares
  <2> QED BY <1>1, <2>1, <2>2, <2>3
<1>4. ASSUME NEW c \in RewardCycles, PoxClaimRewards(c) PROVE OpenBegun'
  <2>1. /\ unclaimed[c] > 0 /\ unclaimed'[c] = 0
        /\ \A r \in RewardCycles \ {c} : trancheCount'[r] = trancheCount[r]
                                         /\ unclaimed'[r] = unclaimed[r]
        /\ UNCHANGED <<height, shares>>
    BY <1>4, ClaimStep
  <2> QED BY <2>1 DEF OpenBegun, CurrentCycle, TotalShares
<1>5. /\ \A caller : OfficeCall(caller) => UNCHANGED <<chain, trancheCount>>
      /\ UNCHANGED stxPoolVars => UNCHANGED <<chain, trancheCount>>
  BY OfficeStep DEF claims, stxPoolVars
<1>6. /\ \A S, b : PayStxStakers(S, b) => UNCHANGED <<chain, trancheCount>>
      /\ \A caller, b : SweepTrancheDust(caller, b)
                          => UNCHANGED <<chain, trancheCount>>
      /\ \A caller, amount : WithdrawFees(caller, amount)
                               => UNCHANGED <<chain, trancheCount>>
  BY DEF PayStxStakers, SweepTrancheDust, WithdrawFees, claims
<1> QED BY StxCases, <1>2, <1>3, <1>4, <1>5, <1>6

\* The books of a tranche that was not opened are empty, as long as nobody was
\* paid early.
LEMMA UnopenedBook ==
    ASSUME StxTypes, UnopenedEmpty, NEW b \in Tranches, BookOK(b), ~IsOpened(b)
    PROVE  PaidStakers(b) = {} /\ tranchePaid[b] = 0 /\ tranchePaidShares[b] = 0
<1>1. PaidStakers(b) = {}
  BY DEF BookOK
<1>2. stxPot[b] = 0
  BY DEF UnopenedEmpty
<1> QED BY <1>1, <1>2, SumEmpty DEF BookOK

\* Empty books are in order, whatever the shares.
LEMMA EmptyBook ==
    ASSUME StxTypes, UnopenedEmpty, NEW b \in Tranches, BookOK(b), ~IsOpened(b),
           UNCHANGED <<stxPaid, tranchePaid, tranchePaidShares>>
    PROVE  BookOK(b)'
<1>1. PaidStakers(b)' = {} /\ tranchePaid'[b] = 0 /\ tranchePaidShares'[b] = 0
  BY UnopenedBook DEF PaidStakers
<1>2. \A f : SumFunctionOnSet(f, PaidStakers(b)') = 0
  BY <1>1, SumEmpty
<1>3. /\ tranchePaidShares'[b]
           = SumFunctionOnSet(shares'[b.cycle], PaidStakers(b)')
      /\ tranchePaid'[b] = SumFunctionOnSet(OwedTo(b)', PaidStakers(b)')
  BY <1>1, <1>2
<1> QED BY <1>1, <1>3 DEF BookOK

\* Books stay in order while their tranche, its pot and its shares stay.
LEMMA SameStxBook ==
    ASSUME NEW b \in Tranches, BookOK(b),
           stxPaid'[b] = stxPaid[b], tranchePaid'[b] = tranchePaid[b],
           tranchePaidShares'[b] = tranchePaidShares[b], stxPot'[b] = stxPot[b],
           shares'[b.cycle] = shares[b.cycle], IsOpened(b) => IsOpened(b)'
    PROVE  BookOK(b)'
<1>1. /\ TotalShares(b.cycle)' = TotalShares(b.cycle)
      /\ PaidStakers(b)' = PaidStakers(b)
  BY DEF TotalShares, PaidStakers
<1>2. OwedTo(b)' = OwedTo(b) /\ (FullyPaid(b)' <=> FullyPaid(b))
  BY <1>1 DEF OwedTo, Owed, FullyPaid
<1> QED BY <1>1, <1>2 DEF BookOK

\* Time does not touch the books: the shares of a tranche that was opened stay.
LEMMA ChainBook ==
    ASSUME StxTypes, UnopenedEmpty, OpenBegun, NEW b \in Tranches, BookOK(b),
           Pox5Step
    PROVE  BookOK(b)'
<1>1. UNCHANGED <<stxPot, trancheCount, stxPaid, tranchePaid, tranchePaidShares>>
  BY ChainStep DEF claims, books
<1>2. CASE ~IsOpened(b)
  BY <1>1, <1>2, EmptyBook
<1>3. CASE IsOpened(b)
  <2>1. b.cycle \in RewardCycles /\ b.cycle <= CurrentCycle
    BY <1>3, StxSets DEF OpenBegun
  <2>2. shares'[b.cycle] = shares[b.cycle]
    BY <2>1, ChainStep
  <2>3. IsOpened(b)'
    BY <1>1, <1>3 DEF IsOpened
  <2> QED BY <1>1, <2>2, <2>3, SameStxBook
<1> QED BY <1>2, <1>3

\* A claim opens a tranche with empty books.
LEMMA ClaimBook ==
    ASSUME StxTypes, UnopenedEmpty, NEW b \in Tranches, BookOK(b),
           NEW c \in RewardCycles, PoxClaimRewards(c)
    PROVE  BookOK(b)'
<1>1. PICK d \in Tranches :
         /\ ~IsOpened(d)
         /\ \A e \in Tranches \ {d} : stxPot'[e] = stxPot[e]
  BY ClaimStep
<1>2. /\ UNCHANGED <<shares, stxPaid, tranchePaid, tranchePaidShares>>
      /\ trancheCount'[c] = trancheCount[c] + 1
      /\ \A r \in RewardCycles \ {c} : trancheCount'[r] = trancheCount[r]
  BY ClaimStep
<1>3. CASE ~IsOpened(b)
  BY <1>2, <1>3, EmptyBook
<1>4. CASE IsOpened(b)
  <2>1. stxPot'[b] = stxPot[b]
    BY <1>1, <1>4
  <2>2. IsOpened(b)'
    <3>1. b.cycle \in RewardCycles /\ b.tranche \in Nat
          /\ trancheCount[b.cycle] \in Nat
      BY StxSets DEF StxTypes
    <3> QED BY <1>2, <1>4, <3>1 DEF IsOpened
  <2> QED BY <1>2, <2>1, <2>2, SameStxBook
<1> QED BY <1>3, <1>4

\* A batch adds those it pays.
LEMMA PayBook ==
    ASSUME StxTypes, NEW b \in Tranches, BookOK(b),
           NEW S \in SUBSET Principals, PayStxStakers(S, b),
           Due(S, b) = {} \/ IsOpened(b)
    PROVE  BookOK(b)'
<1> DEFINE due  == Due(S, b)
           R    == PaidStakers(b)
           sh   == shares[b.cycle]
           part == OwedTo(b)
<1>1. /\ due \in SUBSET Principals /\ R \in SUBSET Principals /\ due \cap R = {}
      /\ IsFiniteSet(due) /\ IsFiniteSet(R)
      /\ \A s \in due : sh[s] > 0
  BY StxPoolAssumption, FS_Subset DEF Due, PaidStakers
<1>2. /\ tranchePaid'[b] = tranchePaid[b] + SumFunctionOnSet(part, due)
      /\ tranchePaidShares'[b] = tranchePaidShares[b] + SumFunctionOnSet(sh, due)
      /\ SumFunctionOnSet(sh, due) \in Nat
  BY PayStep
<1>3. \A s \in Principals : /\ s \notin due => stxPaid'[b][s] = stxPaid[b][s]
                            /\ s \in due => stxPaid'[b][s] \in Nat
  BY PayStep
<1>4. UNCHANGED <<chain, claims>>
  BY PayStep
<1>5. /\ UNCHANGED <<shares, stxPot>>
      /\ TotalShares(b.cycle)' = TotalShares(b.cycle)
      /\ IsOpened(b)' <=> IsOpened(b)
      /\ \A s : Owed(b, s)' = Owed(b, s)
  BY <1>4 DEF chain, claims, TotalShares, IsOpened, Owed
<1>6. OwedTo(b)' = part
  BY <1>5 DEF OwedTo
<1>7. PaidStakers(b)' = R \cup due
  <2>1. \A s \in due : stxPaid'[b][s] # None
    BY <1>1, <1>3, StxPoolAssumption
  <2> QED BY <1>1, <1>3, <2>1 DEF PaidStakers
<1>8. /\ \A s \in R : sh[s] > 0 /\ IsOpened(b)
      /\ tranchePaidShares[b] = SumFunctionOnSet(sh, R)
      /\ \/ tranchePaid[b] = SumFunctionOnSet(part, R)
         \/ FullyPaid(b) /\ tranchePaid[b] = stxPot[b]
  BY DEF BookOK
<1>9. FullyPaid(b) => due = {}
  BY StxFullMeansAll DEF Due, PaidStakers
<1>10. \A s \in Principals : sh[s] \in Nat /\ part[s] \in Nat
  BY StxSets, StxSharesTotal, StxOwedBounds DEF OwedTo
<1>11. \A s \in R \cup due : sh[s] > 0 /\ IsOpened(b)
  BY <1>1, <1>8
<1> HIDE DEF due, R, sh, part
<1>12. /\ SumFunctionOnSet(sh, R \cup due)
            = SumFunctionOnSet(sh, R) + SumFunctionOnSet(sh, due)
       /\ SumFunctionOnSet(part, R \cup due)
            = SumFunctionOnSet(part, R) + SumFunctionOnSet(part, due)
  <2>1. IntegersOn(sh, R \cup due) /\ IntegersOn(part, R \cup due)
    BY <1>1, <1>10 DEF IntegersOn
  <2> QED BY <1>1, <2>1, SumUnion
<1>13. tranchePaidShares'[b] = SumFunctionOnSet(sh, R \cup due)
  BY <1>2, <1>8, <1>12
<1>14. CASE tranchePaid[b] = SumFunctionOnSet(part, R)
  <2>1. tranchePaid'[b] = SumFunctionOnSet(part, R \cup due)
    BY <1>2, <1>12, <1>14
  <2> QED BY <1>5, <1>6, <1>7, <1>11, <1>13, <2>1 DEF BookOK, sh
<1>15. CASE FullyPaid(b) /\ tranchePaid[b] = stxPot[b]
  <2>1. SumFunctionOnSet(part, due) = 0 /\ SumFunctionOnSet(sh, due) = 0
    BY <1>9, <1>15, SumEmpty
  <2>2. tranchePaid[b] \in Nat /\ tranchePaidShares[b] \in Nat
    BY DEF StxTypes
  <2>3. tranchePaid'[b] = stxPot'[b]
    BY <1>2, <1>5, <1>15, <2>1, <2>2
  <2>4. tranchePaidShares'[b] = tranchePaidShares[b]
    BY <1>2, <2>1, <2>2
  <2>5. FullyPaid(b)'
    BY <1>5, <1>15, <2>4 DEF FullyPaid
  <2> QED BY <1>5, <1>7, <1>11, <1>13, <2>3, <2>5 DEF BookOK, sh
<1> QED BY <1>8, <1>14, <1>15

\* A sweep leaves nothing of the pot, after everyone is paid.
LEMMA SweepBook ==
    ASSUME StxTypes, NEW b \in Tranches, BookOK(b), NEW caller,
           SweepTrancheDust(caller, b)
    PROVE  BookOK(b)'
<1>1. /\ FullyPaid(b)
      /\ tranchePaid'[b] = stxPot[b]
      /\ UNCHANGED <<chain, claims, stxPaid, tranchePaidShares>>
  BY SweepStep
<1>2. /\ TotalShares(b.cycle)' = TotalShares(b.cycle)
      /\ PaidStakers(b)' = PaidStakers(b)
      /\ IsOpened(b)' <=> IsOpened(b)
      /\ UNCHANGED <<shares, stxPot>>
  BY <1>1 DEF TotalShares, PaidStakers, IsOpened, chain, claims
<1>3. FullyPaid(b)'
  BY <1>1, <1>2 DEF FullyPaid
<1> QED BY <1>1, <1>2, <1>3 DEF BookOK

\* Every step keeps the books in order, unless it pays early.
LEMMA StepBooks ==
    ASSUME StxInv, [StxPoolNext]_stxPoolVars PROVE BooksOK'
<1> SUFFICES ASSUME ~early', NEW b \in Tranches PROVE BookOK(b)'
  BY DEF BooksOK
<1>1. StxTypes /\ UnopenedEmpty /\ OpenBegun
  BY DEF StxInv
<1>2. ~early => BookOK(b)
  BY DEF StxInv, BooksOK
<1>3. UNCHANGED <<chain, claims, books>> => BookOK(b)'
  <2> SUFFICES ASSUME UNCHANGED <<chain, claims, books>> PROVE BookOK(b)'
    OBVIOUS
  <2>1. BookOK(b)
    BY <1>2 DEF books
  <2> QED BY <2>1, SameStxBook DEF chain, claims, books, IsOpened
<1>4. CASE Pox5Step
  <2>1. ~early
    BY <1>1, <1>4, ChainStep DEF books
  <2> QED BY <1>1, <1>2, <1>4, <2>1, ChainBook
<1>5. ASSUME NEW caller, OfficeCall(caller) PROVE BookOK(b)'
  BY <1>1, <1>3, <1>5, OfficeStep
<1>6. ASSUME NEW c \in RewardCycles, PoxClaimRewards(c) PROVE BookOK(b)'
  <2>1. ~early
    BY <1>6 DEF PoxClaimRewards
  <2> QED BY <1>1, <1>2, <1>6, <2>1, ClaimBook
<1>7. ASSUME NEW S \in SUBSET Principals, NEW d \in Tranches,
             PayStxStakers(S, d)
      PROVE  BookOK(b)'
  <2>1. early' = (early \/ (Due(S, d) # {} /\ ~IsOpened(d)))
    BY <1>7 DEF PayStxStakers, Due
  <2>2. ~early /\ (Due(S, d) = {} \/ IsOpened(d))
    BY <2>1, Zenon
  <2>3. BookOK(b)
    BY <1>2, <2>2
  <2>4. CASE b = d
    BY <1>1, <1>7, <2>2, <2>3, <2>4, PayBook
  <2>5. CASE b # d
    <3>1. /\ stxPaid'[b] = stxPaid[b] /\ tranchePaid'[b] = tranchePaid[b]
          /\ tranchePaidShares'[b] = tranchePaidShares[b]
          /\ UNCHANGED <<chain, claims>>
      BY <1>1, <1>7, <2>5, PayStep
    <3> QED BY <2>3, <3>1, SameStxBook DEF chain, claims, IsOpened
  <2> QED BY <2>4, <2>5
<1>8. ASSUME NEW caller, NEW d \in Tranches, SweepTrancheDust(caller, d)
      PROVE  BookOK(b)'
  <2>1. BookOK(b)
    BY <1>2, <1>8 DEF SweepTrancheDust
  <2>2. CASE b = d
    BY <1>1, <1>8, <2>1, <2>2, SweepBook
  <2>3. CASE b # d
    <3>1. /\ tranchePaid'[b] = tranchePaid[b]
          /\ UNCHANGED <<chain, claims, stxPaid, tranchePaidShares>>
      BY <1>1, <1>8, <2>3, SweepStep
    <3> QED BY <2>1, <3>1, SameStxBook DEF chain, claims, IsOpened
  <2> QED BY <2>2, <2>3
<1>9. ASSUME NEW caller, NEW amount, WithdrawFees(caller, amount)
      PROVE  BookOK(b)'
  <2>1. UNCHANGED <<chain, claims, stxPaid, tranchePaid, tranchePaidShares, early>>
    BY <1>1, <1>9, WithdrawStep
  <2>2. BookOK(b)
    BY <1>2, <2>1
  <2> QED BY <2>1, <2>2, SameStxBook DEF chain, claims, IsOpened
<1>10. CASE UNCHANGED stxPoolVars
  BY <1>3, <1>10 DEF stxPoolVars
<1> QED BY StxCases, <1>4, <1>5, <1>6, <1>7, <1>8, <1>9, <1>10

\* The invariant of the earlier pool.
THEOREM StxInvariant == StxPoolSpec => []StxInv
<1>1. StxPoolInit => OpenBegun /\ BooksOK
  <2> SUFFICES ASSUME StxPoolInit PROVE OpenBegun /\ BooksOK
    OBVIOUS
  <2>1. OpenBegun
    BY DEF StxPoolInit, OpenBegun
  <2>2. ASSUME NEW b \in Tranches PROVE BookOK(b)
    <3>1. PaidStakers(b) = {}
      BY DEF StxPoolInit, PaidStakers
    <3>2. tranchePaid[b] = 0 /\ tranchePaidShares[b] = 0
      BY DEF StxPoolInit
    <3> QED BY <3>1, <3>2, SumEmpty DEF BookOK
  <2> QED BY <2>1, <2>2 DEF BooksOK
<1>2. StxInv /\ [StxPoolNext]_stxPoolVars => StxInv'
  BY StepStxTypes, MoneySteps, StepWallet, StepOpenBegun, StepBooks DEF StxInv
<1>3. StxPoolInit => StxInv
  BY <1>1, WalletInit DEF StxInv
<1> QED BY <1>2, <1>3, PTL DEF StxPoolSpec

\* As long as nobody was paid for a tranche before it was opened, what is left
\* of a fully paid tranche is rounding, and the wallet can pay the fees and
\* everyone who is still owed a part, in whatever order tranches are claimed,
\* paid and swept and whatever the fee is at the time.
THEOREM OnlyEarlyPayments == StxPoolSpec => []OnlyEarlyPaymentsHurt
  BY StxInvariant, InvOnlyEarly, PTL
=============================================================================
