------------------------------ MODULE JstxYield ------------------------------
(***************************************************************************)
(* The sBTC side of the liquid-staking protocol: yield.clar with its data  *)
(* in share-data.clar, and jstx-token.clar, whose every mint, burn and     *)
(* transfer settles the wallets it touches.                                *)
(*                                                                         *)
(* A sweep brings what a stacker sends after the signer's fee.  Wallets    *)
(* are any principals that hold jSTX, core among them.  `paid` is what     *)
(* yield has sent a wallet.  Positions in other protocols                  *)
(* (settle-defi-position) and the escape hatch get-sbtc are left out.      *)
(***************************************************************************)
EXTENDS Integers, FiniteSets, Functions

CONSTANTS
    Wallets,
    Scale,             \* INDEX_SCALE
    BPS,
    MaxProtocolFee,    \* MAX_PROTOCOL_FEE, in units of 1 / BPS
    FeeChoices,        \* protocol fees the admin tries
    Rewards,           \* sats a stacker may send
    CycleLength,       \* of pox-4
    MaxCycle,          \* bound on cycles
    MaxSupply,         \* bound on jSTX
    MaxCollected       \* bound on the sats in the buckets

ASSUME WalletsAssumption == IsFiniteSet(Wallets)

ASSUME YieldNumbers ==
    /\ {Scale, BPS, CycleLength} \subseteq Nat \ {0}
    /\ {MaxCycle, MaxSupply, MaxCollected} \subseteq Nat
    /\ MaxProtocolFee \in 0..BPS
    /\ FeeChoices \subseteq Nat
    /\ Rewards \subseteq Nat \ {0}

VARIABLES
    height,            \* burn-block-height, cycle 0 starts at 0
    bucket,            \* reward-bucket: cycle -> total, vested, commission
    activeCycle,       \* active-cycle
    protocolFee,       \* protocol-fee
    globalIndex,       \* share-data: global-index
    trackedSupply,     \* share-data: tracked-supply
    snapshot,          \* share-data: wallet-snapshot
    supply,            \* ft-get-supply of jstx-token
    jstx,              \* its balances
    sbtc,              \* sBTC balance of yield
    paid               \* sBTC paid to each wallet

rewards   == <<bucket, activeCycle, protocolFee>>
shareData == <<globalIndex, trackedSupply, snapshot>>
yieldVars == <<height, rewards, shareData, supply, jstx, sbtc, paid>>

Cycles == 0..MaxCycle

CurrentCycle == height \div CycleLength

YieldInit ==
    /\ height = 0
    /\ bucket = [c \in Cycles |-> [total |-> 0, vested |-> 0, commission |-> 0]]
    /\ activeCycle = 0
    /\ protocolFee = 0
    /\ globalIndex = 0
    /\ trackedSupply = 0
    /\ snapshot = [w \in Wallets |-> [index |-> 0, balance |-> 0]]
    /\ supply = 0
    /\ jstx = [w \in Wallets |-> 0]
    /\ sbtc = 0
    /\ paid = [w \in Wallets |-> 0]

-----------------------------------------------------------------------------
(* Vesting.                                                                *)

CycleStart(c) == c * CycleLength

\* get-vested-amount: linear over the cycle's own window, then all of it.
VestedAmount(c) ==
    IF height >= CycleStart(c + 1) THEN bucket[c].total
    ELSE IF height > CycleStart(c)
         THEN (bucket[c].total * (height - CycleStart(c))) \div CycleLength
         ELSE 0

NewlyVested(c) == VestedAmount(c) - bucket[c].vested

\* apply-vested does something.
Applies(c) == NewlyVested(c) > 0 /\ trackedSupply > 0

\* The index and the bucket after apply-vested.
IndexAfter(c) ==
    IF Applies(c) THEN globalIndex + (NewlyVested(c) * Scale) \div trackedSupply
                  ELSE globalIndex

\* As BucketAfter, forgetting what was applied.
BucketUnmarked(c) == IF Applies(c) THEN bucket ELSE [bucket EXCEPT ![c] = @]

BucketAfter(c) ==
    IF Applies(c) THEN [bucket EXCEPT ![c].vested = VestedAmount(c)] ELSE bucket

-----------------------------------------------------------------------------
(* Settlement.                                                             *)

\* What a wallet is owed at an index, from its stored snapshot.
PendingAt(w, index) ==
    (snapshot[w].balance * (index - snapshot[w].index)) \div Scale

\* As SettleWallets, paying for the balances after the move.
SettleAfterMove(S, balances, newSupply) ==
    LET index   == IndexAfter(activeCycle)
        Due(w)  == (balances[w] * (index - snapshot[w].index)) \div Scale
        total   == SumFunctionOnSet([w \in Wallets |-> Due(w)], S)
    IN  /\ bucket' = BucketAfter(activeCycle)
        /\ globalIndex' = index
        /\ total <= sbtc
        /\ sbtc' = sbtc - total
        /\ paid' = [w \in Wallets |-> paid[w] + IF w \in S THEN Due(w) ELSE 0]
        /\ snapshot' = [w \in Wallets |-> IF w \in S
              THEN [index |-> index, balance |-> balances[w]] ELSE snapshot[w]]
        /\ trackedSupply' = newSupply
        /\ supply' = newSupply
        /\ jstx' = balances

\* settle-wallet for every wallet of S, in any order, after jSTX moved to
\* `balances`: the first applies what has vested, all are paid from their
\* snapshot and get a new one.
SettleWallets(S, balances, newSupply) ==
    LET index == IndexAfter(activeCycle)
        total == SumFunctionOnSet([w \in Wallets |-> PendingAt(w, index)], S)
    IN  /\ bucket' = BucketAfter(activeCycle)
        /\ globalIndex' = index
        /\ total <= sbtc
        /\ sbtc' = sbtc - total
        /\ paid' = [w \in Wallets |->
              paid[w] + IF w \in S THEN PendingAt(w, index) ELSE 0]
        /\ snapshot' = [w \in Wallets |-> IF w \in S
              THEN [index |-> index, balance |-> balances[w]] ELSE snapshot[w]]
        /\ trackedSupply' = newSupply
        /\ supply' = newSupply
        /\ jstx' = balances

-----------------------------------------------------------------------------
(* jSTX.                                                                   *)

MintJstx(w, amount) ==
    /\ supply + amount <= MaxSupply
    /\ SettleWallets({w}, [jstx EXCEPT ![w] = @ + amount], supply + amount)
    /\ UNCHANGED <<height, activeCycle, protocolFee>>

BurnJstx(w, amount) ==
    /\ jstx[w] >= amount
    /\ SettleWallets({w}, [jstx EXCEPT ![w] = @ - amount], supply - amount)
    /\ UNCHANGED <<height, activeCycle, protocolFee>>

\* As Transfer, settling the sender only.
TransferSettlingSender(v, w, amount) ==
    /\ v # w
    /\ jstx[v] >= amount
    /\ SettleWallets({v}, [jstx EXCEPT ![v] = @ - amount, ![w] = @ + amount], supply)
    /\ UNCHANGED <<height, activeCycle, protocolFee>>

\* A transfer to oneself fails.
Transfer(v, w, amount) ==
    /\ v # w
    /\ jstx[v] >= amount
    /\ SettleWallets({v, w}, [jstx EXCEPT ![v] = @ - amount, ![w] = @ + amount], supply)
    /\ UNCHANGED <<height, activeCycle, protocolFee>>

\* claim-rewards
ClaimRewards(w) ==
    /\ SettleWallets({w}, jstx, supply)
    /\ UNCHANGED <<height, activeCycle, protocolFee>>

-----------------------------------------------------------------------------
(* Sweeps.                                                                 *)

\* As SweepStacker, moving on without a last look at the active bucket.
SweepWithoutApply(sats) ==
    LET commission == (sats * protocolFee) \div BPS IN
    /\ CurrentCycle \in Cycles
    /\ bucket' = [bucket EXCEPT ![CurrentCycle].total = @ + sats - commission,
                              ![CurrentCycle].commission = @ + commission]
    /\ activeCycle' = CurrentCycle
    /\ sbtc' = sbtc + sats
    /\ UNCHANGED <<height, protocolFee, shareData, supply, jstx, paid>>

\* A keeper, with the sats of one stacker.
SweepStacker(sats) ==
    LET commission == (sats * protocolFee) \div BPS IN
    /\ CurrentCycle \in Cycles
    /\ globalIndex' = IndexAfter(activeCycle)
    /\ bucket' = [BucketAfter(activeCycle) EXCEPT
                     ![CurrentCycle].total = @ + sats - commission,
                     ![CurrentCycle].commission = @ + commission]
    /\ activeCycle' = CurrentCycle
    /\ sbtc' = sbtc + sats
    /\ UNCHANGED <<height, protocolFee, trackedSupply, snapshot, supply, jstx, paid>>

\* Anyone.
ApplyCycle(c) ==
    /\ Applies(c)
    /\ globalIndex' = IndexAfter(c)
    /\ bucket' = BucketAfter(c)
    /\ UNCHANGED <<height, activeCycle, protocolFee, trackedSupply, snapshot,
                   supply, jstx, sbtc, paid>>

FlushCommission(c) ==
    /\ bucket[c].commission > 0
    /\ bucket[c].commission <= sbtc
    /\ sbtc' = sbtc - bucket[c].commission
    /\ bucket' = [bucket EXCEPT ![c].commission = 0]
    /\ UNCHANGED <<height, activeCycle, protocolFee, shareData, supply, jstx, paid>>

SetProtocolFee(fee) ==
    /\ fee <= MaxProtocolFee
    /\ protocolFee' = fee
    /\ UNCHANGED <<height, bucket, activeCycle, shareData, supply, jstx, sbtc, paid>>

Tick ==
    /\ height < CycleStart(MaxCycle + 1)
    /\ height' = height + 1
    /\ UNCHANGED <<rewards, shareData, supply, jstx, sbtc, paid>>

-----------------------------------------------------------------------------
\* Sats in the buckets, those applied included.
Collected ==
    SumFunction([c \in Cycles |-> bucket[c].total + bucket[c].commission])

TokenStep ==
    \E w \in Wallets :
       \/ ClaimRewards(w)
       \/ \E amount \in 1..MaxSupply :
             \/ MintJstx(w, amount)
             \/ BurnJstx(w, amount)
             \/ \E v \in Wallets : Transfer(v, w, amount)

YieldNext ==
    \/ TokenStep
    \/ \E sats \in Rewards : Collected + sats <= MaxCollected /\ SweepStacker(sats)
    \/ \E c \in Cycles : ApplyCycle(c) \/ FlushCommission(c)
    \/ \E fee \in FeeChoices : SetProtocolFee(fee)
    \/ Tick

YieldSpec == YieldInit /\ [][YieldNext]_yieldVars

-----------------------------------------------------------------------------
(* Properties.                                                             *)

YieldTypeOK ==
    /\ height \in 0..CycleStart(MaxCycle + 1)
    /\ bucket \in [Cycles -> [total : Nat, vested : Nat, commission : Nat]]
    /\ activeCycle \in Cycles
    /\ protocolFee \in 0..MaxProtocolFee
    /\ globalIndex \in Nat
    /\ trackedSupply \in Nat
    /\ snapshot \in [Wallets -> [index : 0..globalIndex, balance : Nat]]
    /\ supply = SumFunction(jstx)
    /\ jstx \in [Wallets -> Nat]
    /\ sbtc \in Nat
    /\ paid \in [Wallets -> Nat]

Pending(w) == PendingAt(w, globalIndex)

\* yield holds enough sBTC for every holder's claim, for what is still to vest
\* and for the commissions, although claims and the index are rounded and
\* holders are settled at different times: no payment can fail.
ClaimsAreCovered ==
    sbtc >= SumFunction([w \in Wallets |-> Pending(w)])
            + SumFunction([c \in Cycles |->
                  bucket[c].total - bucket[c].vested + bucket[c].commission])

\* The stored snapshots are the balances and the supply of now, after every
\* move, so nobody earns on tokens sent away ("the new snapshot records the
\* post-operation balance they actually hold", jstx-token.clar).
SnapshotsAreBalances ==
    /\ \A w \in Wallets : snapshot[w].balance = jstx[w]
    /\ trackedSupply = supply

\* No step takes from what a wallet has been paid and is owed together: mints,
\* burns and transfers of others and of its own, sweeps and catch-ups in any
\* order.
ClaimsNeverShrink ==
    [][\A w \in Wallets : paid'[w] + Pending(w)' >= paid[w] + Pending(w)]_yieldVars

\* The vesting of a bucket never runs ahead of its window, and a bucket is left
\* behind by a later sweep only fully vested ("no sBTC can strand on rollover",
\* yield.clar); unless nobody held jSTX, when it waits for apply-cycle.
NothingStrands ==
    [][/\ \A c \in Cycles : bucket[c].vested <= VestedAmount(c)
       /\ activeCycle' # activeCycle /\ trackedSupply > 0 =>
             bucket'[activeCycle].vested = bucket[activeCycle].total]_yieldVars
=============================================================================
