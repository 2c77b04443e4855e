--------------------------- MODULE JstxYieldProofs ---------------------------
(***************************************************************************)
(* Proofs about the rewards of jSTX holders, for any wallets, scale, fees, *)
(* rewards and calendar.  The first part is about each wallet and bucket   *)
(* (YieldInv), the second about the sBTC that all of them together are     *)
(* owed (MoneyInv).                                                        *)
(***************************************************************************)
EXTENDS JstxYield, SumTheorems

-----------------------------------------------------------------------------
(* The inductive invariant.                                                *)

YieldTypes ==
    /\ height \in Nat
    /\ bucket \in [Cycles -> [total : Nat, vested : Nat, commission : Int]]
    /\ activeCycle \in Cycles
    /\ protocolFee \in 0..MaxProtocolFee
    /\ globalIndex \in Nat
    /\ trackedSupply \in Int
    /\ snapshot \in [Wallets -> [index : Nat, balance : Nat]]
    /\ jstx \in [Wallets -> Nat]
    /\ supply \in Int
    /\ paid \in [Wallets -> Int]

IndexReached == \A w \in Wallets : snapshot[w].index <= globalIndex

NotAhead == \A c \in Cycles : bucket[c].vested <= VestedAmount(c)

YieldInv ==
    /\ YieldTypes
    /\ SnapshotsAreBalances
    /\ IndexReached
    /\ NotAhead
    /\ activeCycle <= CurrentCycle

LEMMA NumberTypes ==
    /\ Scale \in Nat \ {0} /\ BPS \in Nat \ {0} /\ CycleLength \in Nat \ {0}
    /\ MaxCycle \in Nat /\ MaxSupply \in Nat
    /\ MaxProtocolFee \in 0..BPS
BY YieldNumbers

\* What has vested of `total` for cycle c at height h.
Vesting(total, c, h) ==
    IF h >= CycleStart(c + 1) THEN total
    ELSE IF h > CycleStart(c)
         THEN (total * (h - CycleStart(c))) \div CycleLength
         ELSE 0

LEMMA VestedIsVesting ==
    \A c \in Cycles : VestedAmount(c) = Vesting(bucket[c].total, c, height)
BY DEF VestedAmount, Vesting

LEMMA StartTypes ==
    \A c \in Nat : /\ CycleStart(c) \in Nat
                   /\ CycleStart(c + 1) = CycleStart(c) + CycleLength
BY NumberTypes DEF CycleStart

\* What has vested is a number of sats, at most the whole.
LEMMA VestingBounds ==
    ASSUME NEW t \in Nat, NEW c \in Nat, NEW h \in Nat
    PROVE  Vesting(t, c, h) \in 0..t
<1>1. CASE h > CycleStart(c) /\ h < CycleStart(c + 1)
  <2> DEFINE k == h - CycleStart(c)
  <2>1. k \in Nat /\ k <= CycleLength
    BY <1>1, StartTypes, NumberTypes
  <2>2. Vesting(t, c, h) = (t * k) \div CycleLength
    BY <1>1, StartTypes, NumberTypes DEF Vesting
  <2> HIDE DEF k
  <2>3. t * k \in Nat
    BY <2>1
  <2>4. (t * k) \div CycleLength \in Nat
    BY <2>3, DivNat, NumberTypes
  <2>5. (t * k) \div CycleLength <= t
    BY <2>1, DivShare, NumberTypes
  <2> QED BY <2>2, <2>4, <2>5
<1>2. CASE ~(h > CycleStart(c) /\ h < CycleStart(c + 1))
  <2>1. Vesting(t, c, h) = t \/ Vesting(t, c, h) = 0
    BY <1>2, StartTypes, NumberTypes DEF Vesting
  <2> QED BY <2>1
<1> QED BY <1>1, <1>2

\* It grows with the total and with time.
LEMMA VestingGrows ==
    ASSUME NEW t \in Nat, NEW u \in Nat, t <= u, NEW c \in Nat,
           NEW h \in Nat, NEW k \in Nat, h <= k
    PROVE  Vesting(t, c, h) <= Vesting(u, c, k)
<1> DEFINE a == CycleStart(c)
           b == CycleStart(c + 1)
<1>1. a \in Nat /\ b = a + CycleLength /\ CycleLength \in Nat \ {0}
  BY StartTypes, NumberTypes
<1>2. Vesting(t, c, h) \in 0..t /\ Vesting(u, c, k) \in 0..u
  BY VestingBounds
<1>3. Vesting(t, c, h) = IF h >= b THEN t ELSE IF h > a
                         THEN (t * (h - a)) \div CycleLength ELSE 0
  BY DEF Vesting
<1>4. Vesting(u, c, k) = IF k >= b THEN u ELSE IF k > a
                         THEN (u * (k - a)) \div CycleLength ELSE 0
  BY DEF Vesting
<1> HIDE DEF a, b
<1>5. CASE k >= b
  BY <1>2, <1>4, <1>5
<1>6. CASE k < b /\ h > a
  <2>1. h - a \in Nat /\ k - a \in Nat /\ h - a <= k - a
    BY <1>1, <1>6
  <2>2. t * (h - a) <= t * (k - a)
    BY <2>1, MulMono
  <2>3. (k - a) * t <= (k - a) * u
    BY <2>1, MulMono
  <2>4. t * (h - a) \in Int /\ u * (k - a) \in Int /\ t * (h - a) <= u * (k - a)
    BY <2>1, <2>2, <2>3
  <2>5. (t * (h - a)) \div CycleLength <= (u * (k - a)) \div CycleLength
    BY <1>1, <2>4, DivMono
  <2> QED BY <1>1, <1>3, <1>4, <1>6, <2>5
<1>7. CASE k < b /\ ~(h > a)
  BY <1>1, <1>2, <1>3, <1>7
<1> QED BY <1>1, <1>5, <1>6, <1>7

LEMMA VestedBounds ==
    ASSUME YieldTypes, NEW c \in Cycles
    PROVE  VestedAmount(c) \in 0..bucket[c].total
<1>1. c \in Nat /\ bucket[c].total \in Nat /\ height \in Nat
  BY NumberTypes DEF YieldTypes, Cycles
<1> QED BY <1>1, VestingBounds, VestedIsVesting

\* The index only grows, and the bucket is marked with what was applied.
LEMMA ApplyBounds ==
    ASSUME YieldTypes, NEW c \in Cycles
    PROVE  /\ IndexAfter(c) \in Nat
           /\ IndexAfter(c) >= globalIndex
           /\ BucketAfter(c) \in [Cycles -> [total : Nat, vested : Nat, commission : Int]]
           /\ \A d \in Cycles : BucketAfter(c)[d].total = bucket[d].total
           /\ \A d \in Cycles : BucketAfter(c)[d].vested
                 = IF d = c /\ Applies(c) THEN VestedAmount(c) ELSE bucket[d].vested
<1>1. VestedAmount(c) \in Nat
  BY VestedBounds DEF YieldTypes
<1>2. IndexAfter(c) \in Nat /\ IndexAfter(c) >= globalIndex
  <2>1. CASE Applies(c)
    <3>1. NewlyVested(c) \in Nat /\ trackedSupply \in Nat \ {0}
      BY <1>1, <2>1 DEF Applies, NewlyVested, YieldTypes
    <3>2. NewlyVested(c) * Scale \in Nat
      BY <3>1, NumberTypes
    <3>3. (NewlyVested(c) * Scale) \div trackedSupply \in Nat
      BY <3>1, <3>2, DivNat
    <3>4. globalIndex \in Nat
      BY DEF YieldTypes
    <3>5. IndexAfter(c) = globalIndex + (NewlyVested(c) * Scale) \div trackedSupply
      BY <2>1 DEF IndexAfter
    <3> QED BY <3>3, <3>4, <3>5
  <2>2. CASE ~Applies(c)
    BY <2>2 DEF IndexAfter, YieldTypes
  <2> QED BY <2>1, <2>2
<1>3. CASE Applies(c)
  <2>1. BucketAfter(c) = [bucket EXCEPT ![c].vested = VestedAmount(c)]
    BY <1>3 DEF BucketAfter
  <2> QED BY <1>1, <1>2, <1>3, <2>1 DEF YieldTypes
<1>4. CASE ~Applies(c)
  <2>1. BucketAfter(c) = bucket
    BY <1>4 DEF BucketAfter
  <2> QED BY <1>2, <1>4, <2>1 DEF YieldTypes
<1> QED BY <1>3, <1>4

\* As long as totals and time grow, a bucket marked with what has vested, or
\* left as it was, is not ahead of its window.
LEMMA VestingKept ==
    ASSUME YieldTypes, NotAhead, height' \in Nat, height' >= height,
           \A d \in Cycles :
              /\ bucket'[d].total \in Nat
              /\ bucket'[d].total >= bucket[d].total
              /\ bucket'[d].vested \in {bucket[d].vested, VestedAmount(d)}
    PROVE  NotAhead'
<1> SUFFICES ASSUME NEW d \in Cycles
             PROVE  bucket'[d].vested <= VestedAmount(d)'
  BY DEF NotAhead
<1>1. d \in Nat /\ bucket[d].total \in Nat /\ bucket[d].vested \in Nat /\ height \in Nat
  BY NumberTypes DEF YieldTypes, Cycles
<1>2. VestedAmount(d) = Vesting(bucket[d].total, d, height)
  BY VestedIsVesting
<1>3. VestedAmount(d)' = Vesting(bucket'[d].total, d, height')
  BY DEF VestedAmount, Vesting, CycleStart
<1>4. Vesting(bucket[d].total, d, height) <= Vesting(bucket'[d].total, d, height')
  BY <1>1, VestingGrows
<1>5. Vesting(bucket'[d].total, d, height') \in Nat /\ VestedAmount(d) \in Nat
  <2>1. bucket'[d].total \in Nat /\ height' \in Nat
    OBVIOUS
  <2>2. Vesting(bucket'[d].total, d, height') \in 0..bucket'[d].total
    BY <1>1, <2>1, VestingBounds
  <2>3. VestedAmount(d) \in 0..bucket[d].total
    BY VestedBounds
  <2> QED BY <1>1, <2>1, <2>2, <2>3
<1>6. bucket[d].vested <= VestedAmount(d)
  BY DEF NotAhead
<1> QED BY <1>1, <1>2, <1>3, <1>4, <1>5, <1>6

LEMMA PendingGrows ==
    ASSUME YieldTypes, NEW w \in Wallets, NEW i \in Nat, NEW j \in Nat,
           snapshot[w].index <= i, i <= j
    PROVE  /\ PendingAt(w, i) \in Nat
           /\ PendingAt(w, j) \in Nat
           /\ PendingAt(w, i) <= PendingAt(w, j)
<1> DEFINE b == snapshot[w].balance
           a == snapshot[w].index
<1>1. b \in Nat /\ a \in Nat
  BY DEF YieldTypes
<1>2. PendingAt(w, i) = (b * (i - a)) \div Scale
      /\ PendingAt(w, j) = (b * (j - a)) \div Scale
  BY DEF PendingAt
<1>3. a <= i
  OBVIOUS
<1> HIDE DEF a, b
<1>4. i - a \in Nat /\ j - a \in Nat /\ i - a <= j - a
  BY <1>1, <1>3
<1>5. b * (i - a) \in Nat /\ b * (j - a) \in Nat /\ b * (i - a) <= b * (j - a)
  BY <1>1, <1>4, MulMono
<1>6. (b * (i - a)) \div Scale <= (b * (j - a)) \div Scale
  BY <1>5, DivMono, NumberTypes
<1>7. (b * (i - a)) \div Scale \in Nat /\ (b * (j - a)) \div Scale \in Nat
  BY <1>5, DivNat, NumberTypes
<1> QED BY <1>2, <1>6, <1>7

\* What a step may do to what wallets have and are owed.
ClaimsKept ==
    \A w \in Wallets : paid'[w] + Pending(w)' >= paid[w] + Pending(w)

\* What a step may do to the bucket it leaves.
NoneLeft ==
    activeCycle' # activeCycle /\ trackedSupply > 0 =>
        bucket'[activeCycle].vested = bucket[activeCycle].total

StepKeeps == YieldInv' /\ ClaimsKept /\ NoneLeft

\* A step that leaves the wallets alone and only raises the index owes nobody
\* less.
LEMMA RaisedIndexKeeps ==
    ASSUME YieldTypes, IndexReached, globalIndex' \in Nat, globalIndex' >= globalIndex,
           UNCHANGED <<snapshot, paid>>
    PROVE  ClaimsKept /\ IndexReached'
<1>1. ASSUME NEW w \in Wallets
      PROVE  /\ paid'[w] + Pending(w)' >= paid[w] + Pending(w)
             /\ snapshot'[w].index <= globalIndex'
  <2>1. snapshot[w].index \in Nat /\ globalIndex \in Nat /\ paid[w] \in Int
        /\ snapshot[w].index <= globalIndex
    BY DEF YieldTypes, IndexReached
  <2>2. Pending(w) = PendingAt(w, globalIndex)
        /\ Pending(w)' = PendingAt(w, globalIndex')
    BY DEF Pending, PendingAt
  <2>3. /\ PendingAt(w, globalIndex) \in Nat
        /\ PendingAt(w, globalIndex') \in Nat
        /\ PendingAt(w, globalIndex) <= PendingAt(w, globalIndex')
    BY <2>1, PendingGrows
  <2> QED BY <2>1, <2>2, <2>3
<1> QED BY <1>1 DEF ClaimsKept, IndexReached

LEMMA SettleKeeps ==
    ASSUME YieldInv, NEW S \in SUBSET Wallets, NEW balances \in [Wallets -> Nat],
           NEW n \in Int, \A w \in Wallets \ S : balances[w] = jstx[w],
           SettleWallets(S, balances, n), UNCHANGED <<height, activeCycle, protocolFee>>
    PROVE  StepKeeps
<1> DEFINE c == activeCycle
<1>1. c \in Cycles /\ YieldTypes
  BY DEF YieldInv, YieldTypes
<1>2. globalIndex' \in Nat /\ globalIndex' >= globalIndex
  BY <1>1, ApplyBounds DEF SettleWallets
<1>3. bucket' = BucketAfter(c)
  BY DEF SettleWallets
<1>4. NotAhead'
  <2>1. \A d \in Cycles : /\ bucket'[d].total = bucket[d].total
                          /\ bucket'[d].vested \in {bucket[d].vested, VestedAmount(d)}
    BY <1>1, <1>3, ApplyBounds
  <2>2. \A d \in Cycles : bucket[d].total \in Nat
    BY DEF YieldInv, YieldTypes
  <2>3. height \in Nat /\ NotAhead
    BY DEF YieldInv, YieldTypes
  <2> QED BY <1>1, <2>1, <2>2, <2>3, VestingKept
<1>5. ASSUME NEW w \in Wallets
      PROVE  /\ PendingAt(w, globalIndex') \in Nat
             /\ Pending(w) \in Nat
             /\ Pending(w) <= PendingAt(w, globalIndex')
  BY <1>1, <1>2, PendingGrows DEF YieldInv, IndexReached, YieldTypes, Pending
<1>6. /\ paid' = [w \in Wallets |->
            paid[w] + IF w \in S THEN PendingAt(w, globalIndex') ELSE 0]
      /\ snapshot' = [w \in Wallets |-> IF w \in S
            THEN [index |-> globalIndex', balance |-> balances[w]] ELSE snapshot[w]]
  BY DEF SettleWallets
<1>7. paid' \in [Wallets -> Int]
  BY <1>1, <1>5, <1>6 DEF YieldTypes
<1>8. snapshot' \in [Wallets -> [index : Nat, balance : Nat]]
  BY <1>1, <1>2, <1>6 DEF YieldTypes
<1>9. YieldTypes'
  <2>1. bucket' \in [Cycles -> [total : Nat, vested : Nat, commission : Int]]
    BY <1>1, <1>3, ApplyBounds
  <2>2. trackedSupply' = n /\ supply' = n /\ jstx' = balances
    BY DEF SettleWallets
  <2> QED BY <1>1, <1>2, <1>7, <1>8, <2>1, <2>2 DEF YieldTypes
<1>10. IndexReached'
  <2>1. \A w \in Wallets : snapshot[w].index \in Nat /\ snapshot[w].index <= globalIndex
        /\ globalIndex \in Nat
    BY DEF YieldInv, YieldTypes, IndexReached
  <2> QED BY <1>2, <1>6, <2>1 DEF IndexReached
<1>11. SnapshotsAreBalances'
  <2>1. \A w \in Wallets : snapshot[w].balance = jstx[w]
    BY DEF YieldInv, SnapshotsAreBalances
  <2> QED BY <1>6, <2>1 DEF SettleWallets, SnapshotsAreBalances
<1>12. ClaimsKept
  <2> SUFFICES ASSUME NEW w \in Wallets
               PROVE  paid'[w] + Pending(w)' >= paid[w] + Pending(w)
    BY DEF ClaimsKept
  <2>1. paid[w] \in Int
    BY <1>1 DEF YieldTypes
  <2>2. CASE w \in S
    <3>1. paid'[w] = paid[w] + PendingAt(w, globalIndex')
      BY <1>6, <2>2
    <3>2. Pending(w)' = (balances[w] * (globalIndex' - globalIndex')) \div Scale
      BY <1>6, <2>2 DEF Pending, PendingAt
    <3>3. balances[w] * (globalIndex' - globalIndex') = 0
      BY <1>2
    <3>4. Pending(w)' = 0
      BY <3>2, <3>3, NumberTypes
    <3> QED BY <1>5, <2>1, <3>1, <3>4
  <2>3. CASE w \notin S
    <3>1. paid'[w] = paid[w]
      BY <1>6, <2>1, <2>3
    <3>2. Pending(w)' = PendingAt(w, globalIndex')
      BY <1>6, <2>3 DEF Pending, PendingAt
    <3> QED BY <1>5, <2>1, <3>1, <3>2
  <2> QED BY <2>2, <2>3
<1>13. activeCycle' <= CurrentCycle' /\ NoneLeft
  BY DEF YieldInv, CurrentCycle, NoneLeft
<1> QED BY <1>4, <1>9, <1>10, <1>11, <1>12, <1>13 DEF StepKeeps, YieldInv

LEMMA TokenStepKeeps ==
    ASSUME YieldInv, TokenStep
    PROVE  StepKeeps
<1>1. jstx \in [Wallets -> Nat] /\ supply \in Int
  BY DEF YieldInv, YieldTypes
<1>2. ASSUME NEW w \in Wallets, ClaimRewards(w)
      PROVE  StepKeeps
  BY <1>1, <1>2, SettleKeeps DEF ClaimRewards
<1>3. ASSUME NEW w \in Wallets, NEW amount \in 1..MaxSupply, MintJstx(w, amount)
      PROVE  StepKeeps
  <2> DEFINE b == [jstx EXCEPT ![w] = @ + amount]
  <2>1. b \in [Wallets -> Nat] /\ \A v \in Wallets \ {w} : b[v] = jstx[v]
    BY <1>1
  <2>2. SettleWallets({w}, b, supply + amount)
        /\ UNCHANGED <<height, activeCycle, protocolFee>>
    BY <1>3 DEF MintJstx
  <2> HIDE DEF b
  <2> QED BY <1>1, <2>1, <2>2, SettleKeeps
<1>4. ASSUME NEW w \in Wallets, NEW amount \in 1..MaxSupply, BurnJstx(w, amount)
      PROVE  StepKeeps
  <2> DEFINE b == [jstx EXCEPT ![w] = @ - amount]
  <2>1. b \in [Wallets -> Nat] /\ \A v \in Wallets \ {w} : b[v] = jstx[v]
    BY <1>1, <1>4 DEF BurnJstx
  <2>2. SettleWallets({w}, b, supply - amount)
        /\ UNCHANGED <<height, activeCycle, protocolFee>>
    BY <1>4 DEF BurnJstx
  <2> HIDE DEF b
  <2> QED BY <1>1, <2>1, <2>2, SettleKeeps
<1>5. ASSUME NEW v \in Wallets, NEW w \in Wallets, NEW amount \in 1..MaxSupply,
             Transfer(v, w, amount)
      PROVE  StepKeeps
  <2> DEFINE b == [jstx EXCEPT ![v] = @ - amount, ![w] = @ + amount]
  <2>1. b \in [Wallets -> Nat] /\ \A x \in Wallets \ {v, w} : b[x] = jstx[x]
    BY <1>1, <1>5 DEF Transfer
  <2>2. SettleWallets({v, w}, b, supply)
        /\ UNCHANGED <<height, activeCycle, protocolFee>>
    BY <1>5 DEF Transfer
  <2> HIDE DEF b
  <2> QED BY <1>1, <2>1, <2>2, SettleKeeps
<1> QED BY <1>2, <1>3, <1>4, <1>5 DEF TokenStep

\* The protocol's part of a sweep is at most the sweep.
LEMMA CommissionIsPart ==
    ASSUME YieldTypes, NEW sats \in Nat
    PROVE  (sats * protocolFee) \div BPS \in 0..sats
<1>1. protocolFee \in Nat /\ protocolFee <= BPS
  BY NumberTypes DEF YieldTypes
<1>2. sats * protocolFee \in Nat
  BY <1>1
<1>3. (sats * protocolFee) \div BPS \in Nat
  BY <1>2, DivNat, NumberTypes
<1>4. (sats * protocolFee) \div BPS <= sats
  BY <1>1, DivShare, NumberTypes
<1> QED BY <1>3, <1>4

\* A cycle that is over has vested entirely.
LEMMA OverIsVested ==
    ASSUME YieldTypes, NEW c \in Cycles, c < CurrentCycle
    PROVE  VestedAmount(c) = bucket[c].total
<1>1. c \in Nat /\ height \in Nat
  BY NumberTypes DEF Cycles, YieldTypes
<1>2. CurrentCycle \in Int /\ CycleLength * CurrentCycle <= height
  BY <1>1, NumberTypes, DivBounds DEF CurrentCycle
<1>3. CycleLength * (c + 1) <= CycleLength * CurrentCycle
  BY <1>1, <1>2, NumberTypes, MulMono
<1>4. CycleStart(c + 1) = CycleLength * (c + 1) /\ CycleLength * (c + 1) \in Int
  BY <1>1, NumberTypes DEF CycleStart
<1>5. height >= CycleStart(c + 1)
  BY <1>1, <1>2, <1>3, <1>4, NumberTypes
<1> QED BY <1>5 DEF VestedAmount

LEMMA SweepKeeps ==
    ASSUME YieldInv, NEW sats \in Rewards, SweepStacker(sats)
    PROVE  StepKeeps
<1> DEFINE c == activeCycle
           now == CurrentCycle
           commission == (sats * protocolFee) \div BPS
           base == BucketAfter(c)
<1>1. c \in Cycles /\ YieldTypes /\ sats \in Nat /\ now \in Cycles
  BY YieldNumbers DEF YieldInv, YieldTypes, SweepStacker
<1>2. commission \in 0..sats
  BY <1>1, CommissionIsPart
<1>3. base \in [Cycles -> [total : Nat, vested : Nat, commission : Int]]
      /\ globalIndex' \in Nat /\ globalIndex' >= globalIndex
  BY <1>1, ApplyBounds DEF SweepStacker
<1>4. bucket' = [base EXCEPT ![now].total = @ + sats - commission,
                              ![now].commission = @ + commission]
  BY DEF SweepStacker
<1>5. activeCycle' = now /\ UNCHANGED <<height, protocolFee, trackedSupply, snapshot,
                                         supply, jstx, paid>>
  BY DEF SweepStacker
<1>6. \A d \in Cycles : base[d].total = bucket[d].total
                        /\ base[d].vested = IF d = c /\ Applies(c) THEN VestedAmount(c)
                                            ELSE bucket[d].vested
  BY <1>1, ApplyBounds
<1>7. height \in Nat /\ \A d \in Cycles : bucket[d].total \in Nat /\ bucket[d].vested \in Nat
  BY <1>1 DEF YieldTypes
<1> HIDE DEF commission, base
<1>8. bucket' \in [Cycles -> [total : Nat, vested : Nat, commission : Int]]
  <2>1. base[now].total + sats - commission \in Nat
        /\ base[now].commission + commission \in Int
    BY <1>1, <1>2, <1>3
  <2> QED BY <1>1, <1>3, <1>4, <2>1
<1>9. \A d \in Cycles : bucket'[d].total >= base[d].total
                        /\ bucket'[d].vested = base[d].vested
  <2> SUFFICES ASSUME NEW d \in Cycles
               PROVE  bucket'[d].total >= base[d].total
                      /\ bucket'[d].vested = base[d].vested
    OBVIOUS
  <2>1. bucket'[d].total
          = IF d = now THEN base[d].total + sats - commission ELSE base[d].total
    BY <1>1, <1>3, <1>4
  <2>2. bucket'[d].vested = base[d].vested
    BY <1>1, <1>3, <1>4
  <2>3. base[d].total \in Nat
    BY <1>3
  <2> QED BY <1>1, <1>2, <2>1, <2>2, <2>3
<1>10. NotAhead'
  <2>1. \A d \in Cycles : /\ bucket'[d].total \in Nat
                          /\ bucket'[d].total >= bucket[d].total
                          /\ bucket'[d].vested \in {bucket[d].vested, VestedAmount(d)}
    BY <1>6, <1>8, <1>9
  <2>2. NotAhead
    BY DEF YieldInv
  <2> QED BY <1>1, <1>5, <1>7, <2>1, <2>2, VestingKept
<1>11. ClaimsKept /\ IndexReached'
  BY <1>1, <1>3, <1>5, RaisedIndexKeeps DEF YieldInv
<1>12. YieldTypes'
  BY <1>1, <1>3, <1>5, <1>8 DEF YieldTypes
<1>13. SnapshotsAreBalances' /\ activeCycle' <= CurrentCycle'
  <2>1. CurrentCycle' = CurrentCycle /\ CurrentCycle \in Int
    BY <1>1, <1>5, NumberTypes DEF CurrentCycle, Cycles
  <2> QED BY <1>5, <2>1 DEF YieldInv, SnapshotsAreBalances
<1>14. NoneLeft
  <2> SUFFICES ASSUME activeCycle' # activeCycle, trackedSupply > 0
               PROVE  bucket'[c].vested = bucket[c].total
    BY DEF NoneLeft
  <2>1. c < CurrentCycle
    BY <1>1, <1>5, NumberTypes DEF YieldInv, Cycles
  <2>2. VestedAmount(c) = bucket[c].total
    BY <1>1, <2>1, OverIsVested
  <2>3. bucket[c].vested <= VestedAmount(c)
    BY <1>1 DEF YieldInv, NotAhead
  <2>4. CASE Applies(c)
    BY <1>1, <1>6, <1>9, <2>2, <2>4
  <2>5. CASE ~Applies(c)
    <3>1. ~(bucket[c].total - bucket[c].vested > 0)
      BY <2>2, <2>5 DEF Applies, NewlyVested
    <3>2. bucket[c].vested = bucket[c].total
      BY <1>1, <1>7, <2>2, <2>3, <3>1
    <3> QED BY <1>1, <1>6, <1>9, <2>5, <3>2
  <2> QED BY <2>4, <2>5
<1> QED BY <1>10, <1>11, <1>12, <1>13, <1>14 DEF StepKeeps, YieldInv

LEMMA ApplyCycleKeeps ==
    ASSUME YieldInv, NEW c \in Cycles, ApplyCycle(c)
    PROVE  StepKeeps
<1>1. YieldTypes /\ NotAhead
  BY DEF YieldInv
<1>2. globalIndex' \in Nat /\ globalIndex' >= globalIndex /\ bucket' = BucketAfter(c)
  BY <1>1, ApplyBounds DEF ApplyCycle
<1>3. bucket' \in [Cycles -> [total : Nat, vested : Nat, commission : Int]]
  BY <1>1, <1>2, ApplyBounds
<1>4. UNCHANGED <<height, activeCycle, protocolFee, trackedSupply, snapshot, supply,
                  jstx, paid>>
  BY DEF ApplyCycle
<1>5. NotAhead'
  <2>1. \A d \in Cycles : /\ bucket'[d].total = bucket[d].total
                          /\ bucket'[d].vested \in {bucket[d].vested, VestedAmount(d)}
    BY <1>1, <1>2, ApplyBounds
  <2>2. height \in Nat /\ \A d \in Cycles : bucket[d].total \in Nat
    BY <1>1 DEF YieldTypes
  <2> QED BY <1>1, <1>4, <2>1, <2>2, VestingKept
<1>6. ClaimsKept /\ IndexReached'
  BY <1>1, <1>2, <1>4, RaisedIndexKeeps DEF YieldInv
<1>7. YieldTypes' /\ SnapshotsAreBalances' /\ NoneLeft
  BY <1>1, <1>2, <1>3, <1>4 DEF YieldTypes, YieldInv, SnapshotsAreBalances, NoneLeft
<1>8. activeCycle' <= CurrentCycle'
  BY <1>4 DEF YieldInv, CurrentCycle
<1> QED BY <1>5, <1>6, <1>7, <1>8 DEF StepKeeps, YieldInv

\* Steps that touch neither the index nor what has vested.
LEMMA QuietStepKeeps ==
    ASSUME YieldInv,
           UNCHANGED <<activeCycle, globalIndex, trackedSupply, snapshot, supply, jstx,
                       paid>>,
           protocolFee' \in 0..MaxProtocolFee,
           height' \in Nat, height' >= height,
           bucket' \in [Cycles -> [total : Nat, vested : Nat, commission : Int]],
           \A d \in Cycles : bucket'[d].total = bucket[d].total
                             /\ bucket'[d].vested = bucket[d].vested
    PROVE  StepKeeps
<1>1. YieldTypes /\ NotAhead
  BY DEF YieldInv
<1>2. NotAhead'
  <2>1. \A d \in Cycles : bucket[d].total \in Nat
    BY <1>1 DEF YieldTypes
  <2> QED BY <1>1, <2>1, VestingKept
<1>3. ClaimsKept /\ IndexReached'
  <2>1. globalIndex \in Nat
    BY <1>1 DEF YieldTypes
  <2> QED BY <1>1, <2>1, RaisedIndexKeeps DEF YieldInv
<1>4. YieldTypes' /\ SnapshotsAreBalances' /\ NoneLeft
  BY <1>1 DEF YieldTypes, YieldInv, SnapshotsAreBalances, NoneLeft
<1>5. activeCycle' <= CurrentCycle'
  <2>1. height \in Int /\ height' \in Int /\ height <= height'
    BY <1>1 DEF YieldTypes
  <2>2. height \div CycleLength <= height' \div CycleLength
    BY <2>1, DivMono, NumberTypes
  <2>3. height \div CycleLength \in Int /\ height' \div CycleLength \in Int
        /\ activeCycle \in Int
    BY <1>1, <2>1, NumberTypes DEF YieldTypes, Cycles
  <2> QED BY <2>2, <2>3 DEF YieldInv, CurrentCycle
<1> QED BY <1>2, <1>3, <1>4, <1>5 DEF StepKeeps, YieldInv

LEMMA NextKeeps ==
    ASSUME YieldInv, [YieldNext]_yieldVars
    PROVE  StepKeeps
<1>1. YieldTypes
  BY DEF YieldInv
<1>2. CASE TokenStep
  BY <1>2, TokenStepKeeps
<1>3. ASSUME NEW sats \in Rewards, SweepStacker(sats)
      PROVE  StepKeeps
  BY <1>3, SweepKeeps
<1>4. ASSUME NEW c \in Cycles, ApplyCycle(c)
      PROVE  StepKeeps
  BY <1>4, ApplyCycleKeeps
<1>5. ASSUME NEW c \in Cycles, FlushCommission(c)
      PROVE  StepKeeps
  <2>1. bucket' = [bucket EXCEPT ![c].commission = 0]
    BY <1>5 DEF FlushCommission
  <2>2. /\ bucket' \in [Cycles -> [total : Nat, vested : Nat, commission : Int]]
        /\ \A d \in Cycles : bucket'[d].total = bucket[d].total
                             /\ bucket'[d].vested = bucket[d].vested
    BY <1>1, <2>1 DEF YieldTypes
  <2>3. height' = height /\ height \in Nat /\ protocolFee' = protocolFee
        /\ protocolFee \in 0..MaxProtocolFee
    BY <1>1, <1>5 DEF FlushCommission, YieldTypes
  <2>4. UNCHANGED <<activeCycle, globalIndex, trackedSupply, snapshot, supply, jstx, paid>>
    BY <1>5 DEF FlushCommission, shareData
  <2> QED BY <2>2, <2>3, <2>4, QuietStepKeeps
<1>6. ASSUME NEW fee \in FeeChoices, SetProtocolFee(fee)
      PROVE  StepKeeps
  <2>1. protocolFee' \in 0..MaxProtocolFee
    BY <1>6, YieldNumbers DEF SetProtocolFee
  <2> QED BY <1>1, <1>6, <2>1, QuietStepKeeps
          DEF SetProtocolFee, shareData, YieldTypes
<1>7. CASE Tick
  <2>1. height' \in Nat /\ height' >= height
    BY <1>1, <1>7 DEF Tick, YieldTypes
  <2> QED BY <1>1, <1>7, <2>1, QuietStepKeeps DEF Tick, rewards, shareData, YieldTypes
<1>8. CASE UNCHANGED yieldVars
  BY <1>1, <1>8, QuietStepKeeps DEF yieldVars, rewards, shareData, YieldTypes
<1> QED BY <1>2, <1>3, <1>4, <1>5, <1>6, <1>7, <1>8 DEF YieldNext

LEMMA InitKeeps == YieldInit => YieldInv
<1> SUFFICES ASSUME YieldInit PROVE YieldInv
  OBVIOUS
<1>1. YieldTypes
  BY NumberTypes DEF YieldInit, YieldTypes, Cycles
<1>2. SnapshotsAreBalances /\ IndexReached
  BY DEF YieldInit, SnapshotsAreBalances, IndexReached
<1>3. NotAhead
  <2>1. \A c \in Cycles : bucket[c].vested = 0 /\ bucket[c].total = 0
    BY DEF YieldInit
  <2>2. \A c \in Cycles : VestedAmount(c) \in 0..bucket[c].total
    BY <1>1, VestedBounds
  <2> QED BY <2>1, <2>2 DEF NotAhead
<1>4. activeCycle <= CurrentCycle
  BY NumberTypes, DivNat DEF YieldInit, CurrentCycle
<1> QED BY <1>1, <1>2, <1>3, <1>4 DEF YieldInv

-----------------------------------------------------------------------------
(* The theorems.                                                           *)

\* After every mint, burn and transfer the snapshots of share-data are the
\* balances and the supply of jstx-token.
THEOREM SnapshotsFollow == YieldSpec => []SnapshotsAreBalances
<1>1. YieldInv /\ [YieldNext]_yieldVars => YieldInv'
  BY NextKeeps DEF StepKeeps
<1>2. YieldInv => SnapshotsAreBalances
  BY DEF YieldInv
<1> QED BY InitKeeps, <1>1, <1>2, PTL DEF YieldSpec

\* No step takes from what a wallet has been paid and is owed together.
THEOREM ClaimsStand == YieldSpec => ClaimsNeverShrink
<1>1. YieldInv /\ [YieldNext]_yieldVars => YieldInv'
  BY NextKeeps DEF StepKeeps
<1>2. YieldInv /\ [YieldNext]_yieldVars => ClaimsKept
  BY NextKeeps DEF StepKeeps
<1>3. ClaimsKept => \A w \in Wallets : paid'[w] + Pending(w)' >= paid[w] + Pending(w)
  BY DEF ClaimsKept
<1> QED BY InitKeeps, <1>1, <1>2, <1>3, PTL DEF YieldSpec, ClaimsNeverShrink

\* No bucket vests ahead of its window, and a sweep that moves on leaves the
\* bucket behind fully applied, if anyone holds jSTX.
THEOREM RolloverAppliesAll == YieldSpec => NothingStrands
<1>1. YieldInv /\ [YieldNext]_yieldVars => YieldInv'
  BY NextKeeps DEF StepKeeps
<1>2. YieldInv /\ [YieldNext]_yieldVars =>
        /\ \A c \in Cycles : bucket[c].vested <= VestedAmount(c)
        /\ activeCycle' # activeCycle /\ trackedSupply > 0 =>
              bucket'[activeCycle].vested = bucket[activeCycle].total
  BY NextKeeps DEF StepKeeps, YieldInv, NotAhead, NoneLeft
<1> QED BY InitKeeps, <1>1, <1>2, PTL DEF YieldSpec, NothingStrands

-----------------------------------------------------------------------------
(* The money.                                                              *)

\* What each wallet is owed at an index, in units of 1 / Scale, not rounded.
OwedAt(index) ==
    [w \in Wallets |-> snapshot[w].balance * (index - snapshot[w].index)]

\* What the buckets hold that is not in the index.
RestOf(b) == [c \in Cycles |-> b[c].total - b[c].vested + b[c].commission]

Solvent ==
    Scale * sbtc >= SumFunctionOnSet(OwedAt(globalIndex), Wallets)
                    + Scale * SumFunctionOnSet(RestOf(bucket), Cycles)

MoneyInv ==
    /\ sbtc \in Int
    /\ supply = SumFunctionOnSet(jstx, Wallets)
    /\ Solvent

LEMMA CyclesFinite == IsFiniteSet(Cycles)
BY NumberTypes, FS_Interval DEF Cycles

\* The sums are integers.
LEMMA OwedIsNumber ==
    ASSUME YieldTypes, NEW i \in Nat
    PROVE  /\ IntegersOn(OwedAt(i), Wallets)
           /\ SumFunctionOnSet(OwedAt(i), Wallets) \in Int
<1>1. IntegersOn(OwedAt(i), Wallets)
  BY DEF OwedAt, IntegersOn, YieldTypes
<1> QED BY <1>1, SumTake, WalletsAssumption

Buckets == [Cycles -> [total : Nat, vested : Nat, commission : Int]]

LEMMA RestIsNumber ==
    ASSUME NEW b \in Buckets
    PROVE  /\ IntegersOn(RestOf(b), Cycles)
           /\ SumFunctionOnSet(RestOf(b), Cycles) \in Int
<1>1. IntegersOn(RestOf(b), Cycles)
  BY DEF RestOf, IntegersOn, Buckets
<1> QED BY <1>1, SumTake, CyclesFinite

LEMMA RaiseFactor ==
    \A a \in Int, b \in Int, i \in Int, k \in Int :
        b * ((i + k) - a) = b * (i - a) + k * b
OBVIOUS

\* When the index rises by k, all wallets together are owed k times the supply
\* more.
LEMMA OwedGrows ==
    ASSUME YieldTypes, SnapshotsAreBalances, MoneyInv, NEW i \in Nat, NEW k \in Nat
    PROVE  SumFunctionOnSet(OwedAt(i + k), Wallets)
             = SumFunctionOnSet(OwedAt(i), Wallets) + k * trackedSupply
<1> DEFINE more == [w \in Wallets |-> k * jstx[w]]
<1>1. IntegersOn(jstx, Wallets) /\ IntegersOn(more, Wallets)
      /\ \A w \in Wallets : more[w] = k * jstx[w]
  BY DEF YieldTypes, IntegersOn
<1>2. \A w \in Wallets : OwedAt(i + k)[w] = OwedAt(i)[w] + more[w]
  <2> SUFFICES ASSUME NEW w \in Wallets
               PROVE  OwedAt(i + k)[w] = OwedAt(i)[w] + more[w]
    OBVIOUS
  <2> DEFINE b == snapshot[w].balance
             a == snapshot[w].index
  <2>1. a \in Int /\ b \in Int
    BY DEF YieldTypes
  <2>2. OwedAt(i + k)[w] = b * ((i + k) - a) /\ OwedAt(i)[w] = b * (i - a)
    BY DEF OwedAt
  <2>3. more[w] = k * b
    BY DEF SnapshotsAreBalances
  <2> HIDE DEF a, b, more
  <2>4. b * ((i + k) - a) = b * (i - a) + k * b
    BY <2>1, RaiseFactor
  <2> QED BY <2>2, <2>3, <2>4
<1> HIDE DEF more
<1>3. SumFunctionOnSet(more, Wallets) = k * SumFunctionOnSet(jstx, Wallets)
  BY <1>1, SumTimes, WalletsAssumption
<1>4. IntegersOn(OwedAt(i), Wallets)
  BY OwedIsNumber
<1>5. SumFunctionOnSet(OwedAt(i + k), Wallets)
        = SumFunctionOnSet(OwedAt(i), Wallets) + SumFunctionOnSet(more, Wallets)
  BY <1>1, <1>2, <1>4, SumPlus, WalletsAssumption
<1> QED BY <1>3, <1>5 DEF MoneyInv, SnapshotsAreBalances

\* What is applied to the index is taken from the rest of its bucket.
LEMMA RestShrinks ==
    ASSUME YieldTypes, NEW c \in Cycles, Applies(c)
    PROVE  SumFunctionOnSet(RestOf(BucketAfter(c)), Cycles)
             = SumFunctionOnSet(RestOf(bucket), Cycles) - NewlyVested(c)
<1> DEFINE f == RestOf(bucket)
           g == RestOf(BucketAfter(c))
<1>1. bucket \in Buckets /\ VestedAmount(c) \in Nat
  BY VestedBounds DEF YieldTypes, Buckets
<1>2. IntegersOn(f, Cycles) /\ SumFunctionOnSet(f, Cycles) \in Int
  BY <1>1, RestIsNumber
<1>3. BucketAfter(c) = [bucket EXCEPT ![c].vested = VestedAmount(c)]
  BY DEF BucketAfter
<1>4. g[c] = f[c] - NewlyVested(c) /\ NewlyVested(c) \in Int
  BY <1>1, <1>3 DEF RestOf, NewlyVested, Buckets
<1>5. \A d \in Cycles \ {c} : g[d] = f[d]
  BY <1>1, <1>3 DEF RestOf, Buckets
<1>6. f[c] \in Int
  BY <1>2 DEF IntegersOn
<1>7. g[c] \in Int
  BY <1>4, <1>6
<1> HIDE DEF f, g
<1>8. SumFunctionOnSet(g, Cycles) = SumFunctionOnSet(f, Cycles) - f[c] + g[c]
  BY <1>2, <1>5, <1>7, CyclesFinite, SumChange
<1>9. SumFunctionOnSet(g, Cycles) = SumFunctionOnSet(f, Cycles) - NewlyVested(c)
  BY <1>2, <1>4, <1>6, <1>8
<1> QED BY <1>9 DEF f, g

\* Applying what has vested owes the wallets at most what leaves the rest: the
\* index is rounded down.
LEMMA ApplyPays ==
    ASSUME YieldTypes, SnapshotsAreBalances, MoneyInv, NEW c \in Cycles
    PROVE  SumFunctionOnSet(OwedAt(IndexAfter(c)), Wallets)
             + Scale * SumFunctionOnSet(RestOf(BucketAfter(c)), Cycles)
           <= SumFunctionOnSet(OwedAt(globalIndex), Wallets)
             + Scale * SumFunctionOnSet(RestOf(bucket), Cycles)
<1> DEFINE owed == SumFunctionOnSet(OwedAt(globalIndex), Wallets)
           rest == SumFunctionOnSet(RestOf(bucket), Cycles)
<1>1. globalIndex \in Nat /\ bucket \in Buckets
  BY DEF YieldTypes, Buckets
<1>2. owed \in Int /\ rest \in Int /\ Scale \in Nat
  BY <1>1, OwedIsNumber, RestIsNumber, NumberTypes
<1> HIDE DEF owed, rest
<1>3. CASE Applies(c)
  <2> DEFINE n == NewlyVested(c)
             k == (n * Scale) \div trackedSupply
  <2>1. n \in Nat /\ trackedSupply \in Nat \ {0}
    <3>1. VestedAmount(c) \in Nat
      BY VestedBounds DEF YieldTypes
    <3> QED BY <1>3, <3>1 DEF Applies, NewlyVested, YieldTypes
  <2>2. IndexAfter(c) = globalIndex + k
    BY <1>3 DEF IndexAfter
  <2>3. SumFunctionOnSet(RestOf(BucketAfter(c)), Cycles) = rest - n
    BY <1>3, RestShrinks DEF rest
  <2> HIDE DEF n
  <2>4. n * Scale \in Nat
    BY <1>2, <2>1
  <2>5. k \in Nat /\ trackedSupply * k <= n * Scale
    <3>1. k \in Nat
      BY <2>1, <2>4, DivNat
    <3>2. n * Scale \in Int
      BY <2>4
    <3> HIDE DEF n
    <3>3. trackedSupply * ((n * Scale) \div trackedSupply) <= n * Scale
      BY <2>1, <3>2, DivBounds
    <3> QED BY <3>1, <3>3
  <2> HIDE DEF k
  <2>6. SumFunctionOnSet(OwedAt(globalIndex + k), Wallets) = owed + k * trackedSupply
    BY <1>1, <2>5, OwedGrows DEF owed
  <2>7. k * trackedSupply \in Int /\ k * trackedSupply <= n * Scale
    BY <2>1, <2>5
  <2>8. Scale * (rest - n) = Scale * rest - n * Scale /\ Scale * rest \in Int
    BY <1>2, <2>1
  <2>9. (owed + k * trackedSupply) + Scale * (rest - n) <= owed + Scale * rest
    BY <1>2, <2>4, <2>7, <2>8
  <2> QED BY <2>2, <2>3, <2>6, <2>9 DEF owed, rest
<1>4. CASE ~Applies(c)
  <2>1. IndexAfter(c) = globalIndex /\ BucketAfter(c) = bucket
    BY <1>4 DEF IndexAfter, BucketAfter
  <2>2. owed + Scale * rest <= owed + Scale * rest
    BY <1>2
  <2> QED BY <2>1, <2>2 DEF owed, rest
<1> QED BY <1>3, <1>4

\* The parts paid in a settlement, rounded down, are at most what is owed.
LEMMA PaidIsOwed ==
    ASSUME YieldTypes, NEW i \in Nat, NEW S \in SUBSET Wallets
    PROVE  /\ SumFunctionOnSet([w \in Wallets |-> PendingAt(w, i)], S) \in Int
           /\ Scale * SumFunctionOnSet([w \in Wallets |-> PendingAt(w, i)], S)
                <= SumFunctionOnSet(OwedAt(i), S)
<1> DEFINE f == [w \in Wallets |-> PendingAt(w, i)]
           g == [w \in S |-> Scale * f[w]]
<1>1. ASSUME NEW w \in S
      PROVE  f[w] \in Int /\ g[w] \in Int /\ g[w] <= OwedAt(i)[w]
  <2>1. OwedAt(i)[w] \in Int
    BY OwedIsNumber DEF IntegersOn
  <2>2. f[w] = OwedAt(i)[w] \div Scale
    BY DEF PendingAt, OwedAt
  <2> HIDE DEF f
  <2>3. f[w] \in Int /\ Scale * f[w] <= OwedAt(i)[w]
    BY <2>1, <2>2, DivBounds, NumberTypes
  <2> QED BY <2>3, NumberTypes
<1>2. IsFiniteSet(S) /\ IntegersOn(OwedAt(i), S)
  BY OwedIsNumber, FS_Subset, WalletsAssumption DEF IntegersOn
<1>3. IntegersOn(f, S) /\ IntegersOn(g, S) /\ \A w \in S : g[w] = Scale * f[w]
  BY <1>1 DEF IntegersOn
<1>4. \A w \in S : g[w] <= OwedAt(i)[w]
  BY <1>1
<1> HIDE DEF f, g
<1>5. SumFunctionOnSet(g, S) = Scale * SumFunctionOnSet(f, S)
  BY <1>2, <1>3, NumberTypes, SumTimes
<1>6. SumFunctionOnSet(g, S) <= SumFunctionOnSet(OwedAt(i), S)
  BY <1>2, <1>3, <1>4, SumMono
<1>7. SumFunctionOnSet(f, S) \in Int
  BY <1>2, <1>3, SumTake
<1> QED BY <1>5, <1>6, <1>7 DEF f

\* A settlement leaves all claims of the wallets it pays behind.
LEMMA SettledOwesNothing ==
    ASSUME YieldTypes, NEW S \in SUBSET Wallets, NEW balances \in [Wallets -> Nat],
           globalIndex' \in Nat,
           snapshot' = [w \in Wallets |-> IF w \in S
              THEN [index |-> globalIndex', balance |-> balances[w]] ELSE snapshot[w]]
    PROVE  SumFunctionOnSet(OwedAt(globalIndex)', Wallets)
             = SumFunctionOnSet(OwedAt(globalIndex'), Wallets)
               - SumFunctionOnSet(OwedAt(globalIndex'), S)
<1> SUFFICES ASSUME NEW f, NEW g, NEW i \in Nat, i = globalIndex',
                    f = OwedAt(i), g = OwedAt(globalIndex)'
             PROVE  SumFunctionOnSet(g, Wallets)
                      = SumFunctionOnSet(f, Wallets) - SumFunctionOnSet(f, S)
  OBVIOUS
<1> DEFINE R == Wallets \ S
<1>1. IsFiniteSet(S) /\ IsFiniteSet(R) /\ S \cup R = Wallets /\ R \cap S = {}
  BY FS_Subset, WalletsAssumption
<1>2. IntegersOn(f, Wallets)
  BY OwedIsNumber
<1>3. \A w \in S : g[w] = 0
  <2> SUFFICES ASSUME NEW w \in S PROVE g[w] = 0
    OBVIOUS
  <2>1. snapshot'[w].balance \in Nat /\ snapshot'[w].index = globalIndex'
    OBVIOUS
  <2>2. snapshot'[w].balance * (globalIndex' - globalIndex') = 0
    BY <2>1
  <2> QED BY <2>1, <2>2 DEF OwedAt
<1>4. \A w \in R : g[w] = f[w]
  BY DEF OwedAt
<1>5. IntegersOn(g, S) /\ IntegersOn(g, R) /\ IntegersOn(f, S) /\ IntegersOn(f, R)
      /\ IntegersOn(g, Wallets)
  BY <1>2, <1>3, <1>4 DEF IntegersOn
<1>6. SumFunctionOnSet(g, S) = 0
  BY <1>1, <1>3, SumZero
<1>7. SumFunctionOnSet(g, R) = SumFunctionOnSet(f, R)
  BY <1>1, <1>4, <1>5, SumSame
<1> HIDE DEF R
<1>8. SumFunctionOnSet(g, S \cup R) = SumFunctionOnSet(g, S) + SumFunctionOnSet(g, R)
  BY <1>1, <1>5, SumUnion
<1>9. SumFunctionOnSet(f, S \cup R) = SumFunctionOnSet(f, S) + SumFunctionOnSet(f, R)
  BY <1>1, <1>2, SumUnion
<1>10. SumFunctionOnSet(f, S) \in Int /\ SumFunctionOnSet(f, R) \in Int
  BY <1>1, <1>5, SumTake
<1>11. SumFunctionOnSet(g, S \cup R)
         = SumFunctionOnSet(f, S \cup R) - SumFunctionOnSet(f, S)
  BY <1>6, <1>7, <1>8, <1>9, <1>10
<1>12. S \cup R = Wallets
  BY <1>1
<1> QED BY <1>11, <1>12, Zenon

LEMMA SettleStaysSolvent ==
    ASSUME YieldInv, MoneyInv, NEW S \in SUBSET Wallets,
           NEW balances \in [Wallets -> Nat], NEW n \in Int,
           SettleWallets(S, balances, n), n = SumFunctionOnSet(balances, Wallets)
    PROVE  MoneyInv'
<1> DEFINE c == activeCycle
           i == globalIndex'
           all == SumFunctionOnSet(OwedAt(i), Wallets)
           part == SumFunctionOnSet(OwedAt(i), S)
           total == SumFunctionOnSet([w \in Wallets |-> PendingAt(w, i)], S)
           rest == SumFunctionOnSet(RestOf(bucket'), Cycles)
<1>1. YieldTypes /\ SnapshotsAreBalances /\ c \in Cycles
  BY DEF YieldInv, YieldTypes
<1>2. /\ i = IndexAfter(c)
      /\ bucket' = BucketAfter(c)
      /\ sbtc' = sbtc - total
      /\ supply' = n /\ jstx' = balances
      /\ snapshot' = [w \in Wallets |-> IF w \in S
            THEN [index |-> i, balance |-> balances[w]] ELSE snapshot[w]]
  BY DEF SettleWallets
<1>3. i \in Nat /\ bucket' \in Buckets
  BY <1>1, <1>2, ApplyBounds DEF Buckets
<1>4. /\ total \in Int
      /\ Scale * total <= part
  BY <1>1, <1>3, PaidIsOwed
<1>5. SumFunctionOnSet(OwedAt(globalIndex)', Wallets) = all - part
  BY <1>1, <1>2, <1>3, SettledOwesNothing
<1>6. all + Scale * rest
        <= SumFunctionOnSet(OwedAt(globalIndex), Wallets)
           + Scale * SumFunctionOnSet(RestOf(bucket), Cycles)
  BY <1>1, <1>2, ApplyPays
<1>7. all \in Int /\ part \in Int
  <2>1. IntegersOn(OwedAt(i), S) /\ IsFiniteSet(S) /\ all \in Int
    BY <1>1, <1>3, OwedIsNumber, FS_Subset, WalletsAssumption DEF IntegersOn
  <2> QED BY <2>1, SumTake
<1>8. rest \in Int
  BY <1>3, RestIsNumber
<1>9. /\ SumFunctionOnSet(OwedAt(globalIndex), Wallets) \in Int
      /\ SumFunctionOnSet(RestOf(bucket), Cycles) \in Int
  <2>1. globalIndex \in Nat /\ bucket \in Buckets
    BY <1>1 DEF YieldTypes, Buckets
  <2> QED BY <1>1, <2>1, OwedIsNumber, RestIsNumber
<1>10. SumFunctionOnSet(RestOf(bucket)', Cycles) = rest
  BY DEF RestOf
<1>11. sbtc \in Int /\ Solvent
  BY DEF MoneyInv
<1> HIDE DEF i, all, part, total, rest
<1>12. Scale * (sbtc - total) = Scale * sbtc - Scale * total
       /\ Scale * sbtc \in Int /\ Scale * total \in Int /\ Scale * rest \in Int
  BY <1>4, <1>8, <1>11, NumberTypes
<1>13. Scale * sbtc >= all + Scale * rest
  <2>1. Scale * SumFunctionOnSet(RestOf(bucket), Cycles) \in Int
    BY <1>9, NumberTypes
  <2> QED BY <1>6, <1>7, <1>9, <1>11, <1>12, <2>1 DEF Solvent
<1>14. Scale * (sbtc - total) >= (all - part) + Scale * rest
  BY <1>4, <1>7, <1>12, <1>13
<1>15. Solvent'
  BY <1>2, <1>5, <1>10, <1>14 DEF Solvent
<1>16. sbtc' \in Int
  BY <1>2, <1>4, <1>11
<1> QED BY <1>2, <1>15, <1>16 DEF MoneyInv

LEMMA TokenStepStaysSolvent ==
    ASSUME YieldInv, MoneyInv, TokenStep
    PROVE  MoneyInv'
<1>1. /\ jstx \in [Wallets -> Nat] /\ supply \in Int
      /\ IntegersOn(jstx, Wallets)
      /\ supply = SumFunctionOnSet(jstx, Wallets)
  BY DEF YieldInv, YieldTypes, MoneyInv, IntegersOn
<1>2. ASSUME NEW w \in Wallets, ClaimRewards(w)
      PROVE  MoneyInv'
  BY <1>1, <1>2, SettleStaysSolvent DEF ClaimRewards
<1>3. ASSUME NEW w \in Wallets, NEW n \in Int, NEW b \in [Wallets -> Nat],
             b[w] - jstx[w] = n, \A v \in Wallets \ {w} : b[v] = jstx[v],
             SettleWallets({w}, b, supply + n)
      PROVE  MoneyInv'
  <2>1. b[w] \in Int /\ jstx[w] \in Int /\ \A v \in Wallets \ {w} : b[v] = jstx[v]
    BY <1>1, <1>3
  <2>2. SumFunctionOnSet(b, Wallets) = SumFunctionOnSet(jstx, Wallets) - jstx[w] + b[w]
    BY <1>1, <2>1, SumChange, WalletsAssumption
  <2>3. supply + n = SumFunctionOnSet(b, Wallets) /\ supply + n \in Int
    BY <1>1, <1>3, <2>1, <2>2
  <2> QED BY <1>3, <2>3, SettleStaysSolvent
<1>4. ASSUME NEW w \in Wallets, NEW amount \in 1..MaxSupply, MintJstx(w, amount)
      PROVE  MoneyInv'
  <2> DEFINE b == [jstx EXCEPT ![w] = @ + amount]
  <2>1. /\ b \in [Wallets -> Nat] /\ b[w] - jstx[w] = amount
        /\ \A v \in Wallets \ {w} : b[v] = jstx[v]
    BY <1>1
  <2>2. SettleWallets({w}, b, supply + amount)
    BY <1>4 DEF MintJstx
  <2> HIDE DEF b
  <2> QED BY <1>3, <2>1, <2>2
<1>5. ASSUME NEW w \in Wallets, NEW amount \in 1..MaxSupply, BurnJstx(w, amount)
      PROVE  MoneyInv'
  <2> DEFINE b == [jstx EXCEPT ![w] = @ - amount]
  <2>1. /\ b \in [Wallets -> Nat] /\ b[w] - jstx[w] = -amount
        /\ \A v \in Wallets \ {w} : b[v] = jstx[v]
    BY <1>1, <1>5 DEF BurnJstx
  <2>2. SettleWallets({w}, b, supply - amount)
    BY <1>5 DEF BurnJstx
  <2>3. supply - amount = supply + (-amount) /\ -amount \in Int
    BY <1>1
  <2>4. SettleWallets({w}, b, supply + (-amount))
    BY <2>2, <2>3, Zenon
  <2> HIDE DEF b
  <2> QED BY <1>3, <2>1, <2>3, <2>4
<1>6. ASSUME NEW v \in Wallets, NEW w \in Wallets, NEW amount \in 1..MaxSupply,
             Transfer(v, w, amount)
      PROVE  MoneyInv'
  <2> DEFINE b == [jstx EXCEPT ![v] = @ - amount, ![w] = @ + amount]
  <2>1. v # w /\ jstx[v] >= amount
    BY <1>6 DEF Transfer
  <2>2. /\ b \in [Wallets -> Nat] /\ jstx[v] + jstx[w] = b[v] + b[w]
        /\ \A x \in Wallets \ {v, w} : b[x] = jstx[x]
    BY <1>1, <2>1
  <2>3. SettleWallets({v, w}, b, supply)
    BY <1>6 DEF Transfer
  <2> HIDE DEF b
  <2>4. IntegersOn(b, Wallets)
    BY <2>2 DEF IntegersOn
  <2>5. SumFunctionOnSet(b, Wallets) = SumFunctionOnSet(jstx, Wallets)
    BY <1>1, <2>1, <2>2, <2>4, SumMoved, WalletsAssumption
  <2> QED BY <1>1, <2>2, <2>3, <2>5, SettleStaysSolvent
<1> QED BY <1>2, <1>4, <1>5, <1>6 DEF TokenStep

\* A change of one bucket by `n` sats, which came in or went out.
LEMMA BucketChanges ==
    ASSUME NEW b \in Buckets, NEW d \in Buckets, NEW c \in Cycles, NEW n \in Int,
           RestOf(d)[c] - RestOf(b)[c] = n, \A e \in Cycles \ {c} : d[e] = b[e]
    PROVE  SumFunctionOnSet(RestOf(d), Cycles) = SumFunctionOnSet(RestOf(b), Cycles) + n
<1>1. /\ IntegersOn(RestOf(b), Cycles) /\ IntegersOn(RestOf(d), Cycles)
      /\ SumFunctionOnSet(RestOf(b), Cycles) \in Int
  BY RestIsNumber
<1>2. RestOf(b)[c] \in Int /\ RestOf(d)[c] \in Int
  BY <1>1 DEF IntegersOn
<1>3. \A e \in Cycles \ {c} : RestOf(d)[e] = RestOf(b)[e]
  BY DEF RestOf
<1>4. SumFunctionOnSet(RestOf(d), Cycles)
        = SumFunctionOnSet(RestOf(b), Cycles) - RestOf(b)[c] + RestOf(d)[c]
  BY <1>1, <1>2, <1>3, SumChange, CyclesFinite
<1> QED BY <1>1, <1>2, <1>4

\* A step that leaves snapshots and balances alone, applies what has vested and
\* brings in, or sends away, as much as it adds to the rest.
LEMMA SweptStaysSolvent ==
    ASSUME YieldTypes, SnapshotsAreBalances, MoneyInv, NEW i \in Nat, NEW b \in Buckets,
           NEW n \in Int, i = globalIndex', bucket' \in Buckets, sbtc' = sbtc + n,
           UNCHANGED <<snapshot, jstx, supply>>,
           SumFunctionOnSet(OwedAt(i), Wallets) + Scale * SumFunctionOnSet(RestOf(b), Cycles)
             <= SumFunctionOnSet(OwedAt(globalIndex), Wallets)
                + Scale * SumFunctionOnSet(RestOf(bucket), Cycles),
           SumFunctionOnSet(RestOf(bucket'), Cycles)
             = SumFunctionOnSet(RestOf(b), Cycles) + n
    PROVE  MoneyInv'
<1> DEFINE owed == SumFunctionOnSet(OwedAt(i), Wallets)
           rest == SumFunctionOnSet(RestOf(b), Cycles)
           before == SumFunctionOnSet(OwedAt(globalIndex), Wallets)
                     + Scale * SumFunctionOnSet(RestOf(bucket), Cycles)
<1>1. owed \in Int /\ rest \in Int /\ Scale \in Nat /\ sbtc \in Int
  BY OwedIsNumber, RestIsNumber, NumberTypes DEF MoneyInv
<1>2. Scale * sbtc >= before /\ owed + Scale * rest <= before
  BY DEF MoneyInv, Solvent
<1>3. before \in Int
  <2>1. globalIndex \in Nat /\ bucket \in Buckets
    BY DEF YieldTypes, Buckets
  <2>2. /\ SumFunctionOnSet(OwedAt(globalIndex), Wallets) \in Int
        /\ SumFunctionOnSet(RestOf(bucket), Cycles) \in Int
    BY <2>1, OwedIsNumber, RestIsNumber
  <2> QED BY <1>1, <2>2
<1>4. /\ SumFunctionOnSet(OwedAt(globalIndex)', Wallets) = owed
      /\ SumFunctionOnSet(RestOf(bucket)', Cycles) = rest + n
      /\ sbtc' = sbtc + n
  <2>1. OwedAt(globalIndex)' = OwedAt(i)
    BY DEF OwedAt
  <2>2. RestOf(bucket)' = RestOf(bucket')
    BY DEF RestOf
  <2> QED BY <2>1, <2>2
<1>5. supply' = SumFunctionOnSet(jstx', Wallets)
  BY DEF MoneyInv
<1> HIDE DEF owed, rest, before
<1>6. /\ Scale * (sbtc + n) = Scale * sbtc + Scale * n
      /\ Scale * (rest + n) = Scale * rest + Scale * n
      /\ Scale * sbtc \in Int /\ Scale * rest \in Int /\ Scale * n \in Int
  BY <1>1
<1>7. Scale * (sbtc + n) >= owed + Scale * (rest + n)
  BY <1>1, <1>2, <1>3, <1>6
<1>8. Solvent'
  BY <1>4, <1>7 DEF Solvent
<1>9. sbtc' \in Int
  BY <1>1, <1>4
<1> QED BY <1>5, <1>8, <1>9 DEF MoneyInv

LEMMA SweepStaysSolvent ==
    ASSUME YieldInv, MoneyInv, NEW sats \in Rewards, SweepStacker(sats)
    PROVE  MoneyInv'
<1> DEFINE c == activeCycle
           now == CurrentCycle
           commission == (sats * protocolFee) \div BPS
           base == BucketAfter(c)
<1>1. /\ YieldTypes /\ SnapshotsAreBalances
      /\ c \in Cycles /\ sats \in Nat /\ now \in Cycles
  BY YieldNumbers DEF YieldInv, YieldTypes, SweepStacker
<1>2. commission \in 0..sats
  BY <1>1, CommissionIsPart
<1>3. base \in Buckets /\ IndexAfter(c) \in Nat
  BY <1>1, ApplyBounds DEF Buckets
<1>4. bucket' = [base EXCEPT ![now].total = @ + sats - commission,
                              ![now].commission = @ + commission]
  BY DEF SweepStacker
<1>5. IndexAfter(c) = globalIndex' /\ sbtc' = sbtc + sats
      /\ UNCHANGED <<snapshot, jstx, supply>>
  BY DEF SweepStacker
<1> HIDE DEF commission, base, now
<1>6. bucket' \in Buckets
  <2>1. base[now].total + sats - commission \in Nat
        /\ base[now].commission + commission \in Int
    BY <1>1, <1>2, <1>3 DEF Buckets
  <2> QED BY <1>1, <1>3, <1>4, <2>1 DEF Buckets
<1>7. RestOf(bucket')[now] - RestOf(base)[now] = sats
  <2>1. /\ bucket'[now].total = base[now].total + sats - commission
        /\ bucket'[now].vested = base[now].vested
        /\ bucket'[now].commission = base[now].commission + commission
    BY <1>1, <1>3, <1>4 DEF Buckets
  <2>2. /\ base[now].total \in Int /\ base[now].vested \in Int
        /\ base[now].commission \in Int
    BY <1>1, <1>3 DEF Buckets
  <2>3. /\ RestOf(bucket')[now] = bucket'[now].total - bucket'[now].vested
                                  + bucket'[now].commission
        /\ RestOf(base)[now] = base[now].total - base[now].vested
                               + base[now].commission
    BY <1>1 DEF RestOf
  <2> QED BY <1>1, <1>2, <2>1, <2>2, <2>3
<1>8. \A d \in Cycles \ {now} : bucket'[d] = base[d]
  BY <1>1, <1>3, <1>4 DEF Buckets
<1>9. SumFunctionOnSet(RestOf(bucket'), Cycles)
        = SumFunctionOnSet(RestOf(base), Cycles) + sats
  BY <1>1, <1>3, <1>6, <1>7, <1>8, BucketChanges
<1>10. SumFunctionOnSet(OwedAt(IndexAfter(c)), Wallets)
         + Scale * SumFunctionOnSet(RestOf(base), Cycles)
       <= SumFunctionOnSet(OwedAt(globalIndex), Wallets)
         + Scale * SumFunctionOnSet(RestOf(bucket), Cycles)
  BY <1>1, ApplyPays DEF base
<1> QED BY <1>1, <1>3, <1>5, <1>6, <1>9, <1>10, SweptStaysSolvent

LEMMA ApplyStaysSolvent ==
    ASSUME YieldInv, MoneyInv, NEW c \in Cycles, ApplyCycle(c)
    PROVE  MoneyInv'
<1>1. YieldTypes /\ SnapshotsAreBalances
  BY DEF YieldInv
<1>2. BucketAfter(c) \in Buckets /\ IndexAfter(c) \in Nat
  BY <1>1, ApplyBounds DEF Buckets
<1>3. IndexAfter(c) = globalIndex' /\ bucket' = BucketAfter(c)
      /\ UNCHANGED <<snapshot, jstx, supply, sbtc>>
  BY DEF ApplyCycle
<1>4. sbtc' = sbtc + 0
  BY <1>3 DEF MoneyInv
<1>5. SumFunctionOnSet(RestOf(BucketAfter(c)), Cycles) \in Int
  BY <1>2, RestIsNumber
<1>6. SumFunctionOnSet(RestOf(bucket'), Cycles)
        = SumFunctionOnSet(RestOf(BucketAfter(c)), Cycles) + 0
  BY <1>3, <1>5
<1>7. bucket' \in Buckets
  BY <1>2, <1>3
<1> QED BY <1>1, <1>2, <1>3, <1>4, <1>6, <1>7, ApplyPays, SweptStaysSolvent

\* Steps that change only what one bucket holds, and the balance with it, or
\* nothing of the money.
LEMMA QuietStaysSolvent ==
    ASSUME YieldInv, MoneyInv, NEW n \in Int, bucket' \in Buckets, sbtc' = sbtc + n,
           UNCHANGED <<globalIndex, snapshot, jstx, supply>>,
           SumFunctionOnSet(RestOf(bucket'), Cycles)
             = SumFunctionOnSet(RestOf(bucket), Cycles) + n
    PROVE  MoneyInv'
<1>1. YieldTypes /\ SnapshotsAreBalances /\ globalIndex \in Nat /\ bucket \in Buckets
  BY DEF YieldInv, YieldTypes, Buckets
<1>2. /\ SumFunctionOnSet(OwedAt(globalIndex), Wallets) \in Int
      /\ SumFunctionOnSet(RestOf(bucket), Cycles) \in Int
  BY <1>1, OwedIsNumber, RestIsNumber
<1>3. SumFunctionOnSet(OwedAt(globalIndex), Wallets)
        + Scale * SumFunctionOnSet(RestOf(bucket), Cycles)
      <= SumFunctionOnSet(OwedAt(globalIndex), Wallets)
        + Scale * SumFunctionOnSet(RestOf(bucket), Cycles)
  BY <1>2, NumberTypes
<1>4. globalIndex = globalIndex'
  OBVIOUS
<1> QED BY <1>1, <1>3, <1>4, SweptStaysSolvent

LEMMA NextStaysSolvent ==
    ASSUME YieldInv, MoneyInv, [YieldNext]_yieldVars
    PROVE  MoneyInv'
<1>1. sbtc \in Int /\ bucket \in Buckets
      /\ SumFunctionOnSet(RestOf(bucket), Cycles) \in Int
  <2>1. bucket \in Buckets
    BY DEF YieldInv, YieldTypes, Buckets
  <2> QED BY <2>1, RestIsNumber DEF MoneyInv
<1>2. ASSUME UNCHANGED <<bucket, globalIndex, snapshot, jstx, supply, sbtc>>
      PROVE  MoneyInv'
  <2>1. sbtc' = sbtc + 0 /\ bucket' = bucket
    BY <1>1, <1>2
  <2>2. SumFunctionOnSet(RestOf(bucket'), Cycles)
          = SumFunctionOnSet(RestOf(bucket), Cycles) + 0
    BY <1>1, <2>1
  <2> QED BY <1>1, <1>2, <2>1, <2>2, QuietStaysSolvent
<1>3. CASE TokenStep
  BY <1>3, TokenStepStaysSolvent
<1>4. ASSUME NEW sats \in Rewards, SweepStacker(sats)
      PROVE  MoneyInv'
  BY <1>4, SweepStaysSolvent
<1>5. ASSUME NEW c \in Cycles, ApplyCycle(c)
      PROVE  MoneyInv'
  BY <1>5, ApplyStaysSolvent
<1>6. ASSUME NEW c \in Cycles, FlushCommission(c)
      PROVE  MoneyInv'
  <2> DEFINE n == -bucket[c].commission
  <2>1. bucket' = [bucket EXCEPT ![c].commission = 0]
        /\ sbtc' = sbtc - bucket[c].commission
        /\ UNCHANGED <<globalIndex, snapshot, jstx, supply>>
    BY <1>6 DEF FlushCommission, shareData
  <2>2. n \in Int /\ sbtc' = sbtc + n
    BY <1>1, <2>1 DEF Buckets
  <2>3. bucket' \in Buckets
    BY <1>1, <2>1 DEF Buckets
  <2>4. RestOf(bucket')[c] - RestOf(bucket)[c] = n
        /\ \A e \in Cycles \ {c} : bucket'[e] = bucket[e]
    BY <1>1, <2>1 DEF RestOf, Buckets
  <2> HIDE DEF n
  <2>5. SumFunctionOnSet(RestOf(bucket'), Cycles)
          = SumFunctionOnSet(RestOf(bucket), Cycles) + n
    BY <1>1, <2>2, <2>3, <2>4, BucketChanges
  <2> QED BY <2>1, <2>2, <2>3, <2>5, QuietStaysSolvent
<1>7. CASE \E fee \in FeeChoices : SetProtocolFee(fee)
  BY <1>2, <1>7 DEF SetProtocolFee, shareData
<1>8. CASE Tick
  BY <1>2, <1>8 DEF Tick, rewards, shareData
<1>9. CASE UNCHANGED yieldVars
  BY <1>2, <1>9 DEF yieldVars, rewards, shareData
<1> QED BY <1>3, <1>4, <1>5, <1>6, <1>7, <1>8, <1>9 DEF YieldNext

LEMMA InitIsSolvent == YieldInit => MoneyInv
<1> SUFFICES ASSUME YieldInit PROVE MoneyInv
  OBVIOUS
<1>1. \A w \in Wallets : jstx[w] = 0 /\ OwedAt(globalIndex)[w] = 0
  BY DEF YieldInit, OwedAt
<1>2. \A c \in Cycles : RestOf(bucket)[c] = 0
  BY DEF YieldInit, RestOf
<1>3. SumFunctionOnSet(jstx, Wallets) = 0
  BY <1>1, SumZero, WalletsAssumption
<1>4. SumFunctionOnSet(OwedAt(globalIndex), Wallets) = 0
  BY <1>1, SumZero, WalletsAssumption
<1>5. SumFunctionOnSet(RestOf(bucket), Cycles) = 0
  BY <1>2, SumZero, CyclesFinite
<1>6. sbtc = 0 /\ supply = 0
  BY DEF YieldInit
<1> QED BY <1>3, <1>4, <1>5, <1>6, NumberTypes DEF MoneyInv, Solvent

\* A common factor may be dropped.
LEMMA CancelScale ==
    ASSUME NEW a \in Int, NEW b \in Int, Scale * a >= Scale * b
    PROVE  a >= b
<1>1. ASSUME a < b PROVE FALSE
  <2>1. Scale * (b - a) > 0
    BY <1>1, NumberTypes
  <2>2. Scale * (b - a) = Scale * b - Scale * a
    BY NumberTypes
  <2>3. Scale * a \in Int /\ Scale * b \in Int
    BY NumberTypes
  <2> QED BY <2>1, <2>2, <2>3
<1> QED BY <1>1

LEMMA SolventCoversClaims ==
    ASSUME YieldInv, MoneyInv
    PROVE  ClaimsAreCovered
<1> DEFINE claims == [w \in Wallets |-> PendingAt(w, globalIndex)]
           all == SumFunctionOnSet(claims, Wallets)
           rest == SumFunctionOnSet(RestOf(bucket), Cycles)
<1>1. YieldTypes /\ globalIndex \in Nat /\ bucket \in Buckets /\ sbtc \in Int
  BY DEF YieldInv, YieldTypes, MoneyInv, Buckets
<1>2. /\ all \in Int
      /\ Scale * all <= SumFunctionOnSet(OwedAt(globalIndex), Wallets)
  BY <1>1, PaidIsOwed
<1>3. rest \in Int /\ SumFunctionOnSet(OwedAt(globalIndex), Wallets) \in Int
  BY <1>1, RestIsNumber, OwedIsNumber
<1>4. /\ SumFunction([w \in Wallets |-> Pending(w)]) = all
      /\ SumFunction([c \in Cycles |->
            bucket[c].total - bucket[c].vested + bucket[c].commission]) = rest
  BY DEF SumFunction, Pending, RestOf
<1>5. Scale * sbtc >= SumFunctionOnSet(OwedAt(globalIndex), Wallets) + Scale * rest
  BY DEF MoneyInv, Solvent
<1> HIDE DEF all, rest
<1>6. /\ Scale * (all + rest) = Scale * all + Scale * rest
      /\ Scale * all \in Int /\ Scale * rest \in Int /\ Scale * sbtc \in Int
  BY <1>1, <1>2, <1>3, NumberTypes
<1>7. Scale * sbtc >= Scale * (all + rest)
  BY <1>2, <1>3, <1>5, <1>6
<1>8. sbtc >= all + rest
  BY <1>1, <1>2, <1>3, <1>7, CancelScale
<1> QED BY <1>4, <1>8 DEF ClaimsAreCovered

\* yield holds enough for the claims of all holders, for what is still to vest
\* and for the commissions, for any wallets and rewards and any order of mints,
\* burns, transfers, claims, sweeps and catch-ups: rounding is always in its
\* favour.
THEOREM ClaimsBacked == YieldSpec => []ClaimsAreCovered
<1>1. YieldInit => YieldInv /\ MoneyInv
  BY InitKeeps, InitIsSolvent
<1>2. YieldInv /\ MoneyInv /\ [YieldNext]_yieldVars => YieldInv' /\ MoneyInv'
  BY NextKeeps, NextStaysSolvent DEF StepKeeps
<1>3. YieldInv /\ MoneyInv => ClaimsAreCovered
  BY SolventCoversClaims
<1> QED BY <1>1, <1>2, <1>3, PTL DEF YieldSpec

-----------------------------------------------------------------------------
(* Nothing is negative.                                                    *)

Guarded ==
    /\ height <= CycleStart(MaxCycle + 1)
    /\ \A c \in Cycles : bucket[c].commission \in Nat
    /\ sbtc \in Nat
    /\ paid \in [Wallets -> Nat]

LEMMA SettleStaysGuarded ==
    ASSUME YieldInv, Guarded, MoneyInv', NEW S \in SUBSET Wallets, NEW balances,
           NEW n, SettleWallets(S, balances, n), height' = height
    PROVE  Guarded'
<1> DEFINE c == activeCycle
           i == globalIndex'
           total == SumFunctionOnSet([w \in Wallets |-> PendingAt(w, i)], S)
<1>1. YieldTypes /\ IndexReached /\ c \in Cycles
  BY DEF YieldInv, YieldTypes
<1>2. /\ i = IndexAfter(c)
      /\ bucket' = BucketAfter(c)
      /\ total <= sbtc
      /\ sbtc' = sbtc - total
      /\ paid' = [w \in Wallets |-> paid[w] + IF w \in S THEN PendingAt(w, i) ELSE 0]
  BY DEF SettleWallets
<1>3. i \in Nat /\ i >= globalIndex
  BY <1>1, <1>2, ApplyBounds
<1>4. \A w \in Wallets : PendingAt(w, i) \in Nat
  <2> SUFFICES ASSUME NEW w \in Wallets PROVE PendingAt(w, i) \in Nat
    OBVIOUS
  <2>1. snapshot[w].index <= globalIndex /\ globalIndex \in Nat
        /\ snapshot[w].index \in Nat
    BY <1>1 DEF IndexReached, YieldTypes
  <2>2. snapshot[w].index <= i
    BY <1>3, <2>1
  <2> QED BY <1>1, <1>3, <2>2, PendingGrows
<1>5. \A d \in Cycles : bucket'[d].commission = bucket[d].commission
  BY <1>1, <1>2 DEF BucketAfter, YieldTypes
<1>6. total \in Int
  BY <1>1, <1>3, PaidIsOwed
<1> HIDE DEF i, total
<1>7. paid' \in [Wallets -> Nat]
  BY <1>2, <1>4 DEF Guarded
<1>8. sbtc' \in Nat
  BY <1>2, <1>6 DEF Guarded
<1> QED BY <1>5, <1>7, <1>8 DEF Guarded, CycleStart

LEMMA NextStaysGuarded ==
    ASSUME YieldInv, Guarded, MoneyInv', [YieldNext]_yieldVars
    PROVE  Guarded'
<1>1. YieldTypes
  BY DEF YieldInv
<1>2. CASE TokenStep
  <2>1. ASSUME NEW w \in Wallets, ClaimRewards(w)
        PROVE  Guarded'
    <3>1. SettleWallets({w}, jstx, supply) /\ height' = height
      BY <2>1 DEF ClaimRewards
    <3> QED BY <3>1, SettleStaysGuarded
  <2>2. ASSUME NEW w \in Wallets, NEW amount \in 1..MaxSupply, MintJstx(w, amount)
        PROVE  Guarded'
    <3>1. SettleWallets({w}, [jstx EXCEPT ![w] = @ + amount], supply + amount)
          /\ height' = height
      BY <2>2 DEF MintJstx
    <3> QED BY <3>1, SettleStaysGuarded
  <2>3. ASSUME NEW w \in Wallets, NEW amount \in 1..MaxSupply, BurnJstx(w, amount)
        PROVE  Guarded'
    <3>1. SettleWallets({w}, [jstx EXCEPT ![w] = @ - amount], supply - amount)
          /\ height' = height
      BY <2>3 DEF BurnJstx
    <3> QED BY <3>1, SettleStaysGuarded
  <2>4. ASSUME NEW v \in Wallets, NEW w \in Wallets, NEW amount \in 1..MaxSupply,
               Transfer(v, w, amount)
        PROVE  Guarded'
    <3> DEFINE b == [jstx EXCEPT ![v] = @ - amount, ![w] = @ + amount]
    <3>1. SettleWallets({v, w}, b, supply) /\ height' = height
      BY <2>4 DEF Transfer
    <3>2. {v, w} \in SUBSET Wallets
      OBVIOUS
    <3> HIDE DEF b
    <3> QED BY <3>1, <3>2, SettleStaysGuarded
  <2> QED BY <1>2, <2>1, <2>2, <2>3, <2>4 DEF TokenStep
<1>3. ASSUME NEW sats \in Rewards, SweepStacker(sats)
      PROVE  Guarded'
  <2> DEFINE base == BucketAfter(activeCycle)
             part == (sats * protocolFee) \div BPS
  <2>1. sats \in Nat /\ part \in Nat /\ CurrentCycle \in Cycles
    BY <1>1, <1>3, CommissionIsPart, YieldNumbers DEF SweepStacker
  <2>2. base \in Buckets /\ \A d \in Cycles : base[d].commission \in Nat
    <3>1. activeCycle \in Cycles
      BY <1>1 DEF YieldTypes
    <3>2. base \in Buckets
      BY <1>1, <3>1, ApplyBounds DEF Buckets
    <3>3. \A d \in Cycles : base[d].commission = bucket[d].commission
      BY <1>1, <3>1 DEF BucketAfter, YieldTypes
    <3> QED BY <3>2, <3>3 DEF Guarded
  <2>3. /\ bucket' = [base EXCEPT ![CurrentCycle].total = @ + sats - part,
                                   ![CurrentCycle].commission = @ + part]
        /\ sbtc' = sbtc + sats
        /\ UNCHANGED <<height, paid>>
    BY <1>3 DEF SweepStacker
  <2> HIDE DEF base, part
  <2>4. \A d \in Cycles : bucket'[d].commission \in Nat
    BY <2>1, <2>2, <2>3 DEF Buckets
  <2>5. sbtc' \in Nat /\ UNCHANGED <<height, paid>>
    BY <2>1, <2>3 DEF Guarded
  <2> QED BY <2>4, <2>5 DEF Guarded, CycleStart
<1>4. ASSUME NEW c \in Cycles, ApplyCycle(c)
      PROVE  Guarded'
  <2>1. \A d \in Cycles : bucket'[d].commission = bucket[d].commission
    BY <1>1, <1>4 DEF ApplyCycle, BucketAfter, YieldTypes
  <2> QED BY <1>4, <2>1 DEF ApplyCycle, Guarded, CycleStart
<1>5. ASSUME NEW c \in Cycles, FlushCommission(c)
      PROVE  Guarded'
  <2>1. \A d \in Cycles : bucket'[d].commission \in Nat
    BY <1>1, <1>5 DEF FlushCommission, YieldTypes, Guarded
  <2>2. sbtc' \in Nat
    BY <1>5 DEF FlushCommission, Guarded
  <2> QED BY <1>5, <2>1, <2>2 DEF FlushCommission, Guarded, CycleStart
<1>6. CASE \E fee \in FeeChoices : SetProtocolFee(fee)
  BY <1>6 DEF SetProtocolFee, Guarded, CycleStart
<1>7. CASE Tick
  <2>1. height' <= CycleStart(MaxCycle + 1)
    BY <1>1, <1>7, StartTypes, NumberTypes DEF Tick, YieldTypes
  <2> QED BY <1>7, <2>1 DEF Tick, rewards, Guarded, CycleStart
<1>8. CASE UNCHANGED yieldVars
  BY <1>8 DEF yieldVars, rewards, Guarded, CycleStart
<1> QED BY <1>2, <1>3, <1>4, <1>5, <1>6, <1>7, <1>8 DEF YieldNext

LEMMA BalancesHaveTypes ==
    ASSUME YieldInv, MoneyInv, Guarded
    PROVE  YieldTypeOK
<1>1. YieldTypes /\ IndexReached /\ SnapshotsAreBalances
  BY DEF YieldInv
<1>2. height \in 0..CycleStart(MaxCycle + 1)
  BY <1>1, StartTypes, NumberTypes DEF Guarded, YieldTypes
<1>3. bucket \in [Cycles -> [total : Nat, vested : Nat, commission : Nat]]
  BY <1>1 DEF Guarded, YieldTypes
<1>4. snapshot \in [Wallets -> [index : 0..globalIndex, balance : Nat]]
  BY <1>1 DEF YieldTypes, IndexReached
<1>5. supply = SumFunction(jstx) /\ supply \in Nat
  <2>1. SumFunctionOnSet(jstx, Wallets) \in Nat
    BY <1>1, SumNat, WalletsAssumption DEF YieldTypes
  <2> QED BY <1>1, <2>1 DEF MoneyInv, YieldTypes, SumFunction
<1> QED BY <1>1, <1>2, <1>3, <1>4, <1>5
        DEF YieldTypeOK, YieldTypes, Guarded, SnapshotsAreBalances

\* No balance, bucket, index or supply of the token and of yield is ever
\* negative, no snapshot is ahead of the index, and the supply is the sum of
\* the balances.
THEOREM YieldTypeCorrect == YieldSpec => []YieldTypeOK
<1>1. YieldInit => YieldInv /\ MoneyInv /\ Guarded
  <2>1. YieldInit => Guarded
    BY StartTypes, NumberTypes DEF YieldInit, Guarded
  <2> QED BY <2>1, InitKeeps, InitIsSolvent
<1>2. YieldInv /\ MoneyInv /\ Guarded /\ [YieldNext]_yieldVars
        => YieldInv' /\ MoneyInv' /\ Guarded'
  <2>1. YieldInv /\ MoneyInv /\ [YieldNext]_yieldVars => YieldInv' /\ MoneyInv'
    BY NextKeeps, NextStaysSolvent DEF StepKeeps
  <2> QED BY <2>1, NextStaysGuarded
<1>3. YieldInv /\ MoneyInv /\ Guarded => YieldTypeOK
  BY BalancesHaveTypes
<1> QED BY <1>1, <1>2, <1>3, PTL DEF YieldSpec
=============================================================================
