------------------------- MODULE SeatsAndOfficesProofs -------------------------
(***************************************************************************)
(* Proofs about the two small components of the pool that hold no money:   *)
(* its offices and its OG seats.                                           *)
(***************************************************************************)
EXTENDS OgSeats, PoolGovernance, SumTheorems

(***************************************************************************)
(* Admin and fee: they change only on notice, for any delays, fees and     *)
(* principals.                                                             *)
(***************************************************************************)

\* Every step keeps the types.
LEMMA StepGovernanceTypeOK ==
    ASSUME GovernanceTypeOK, [GovernanceNext]_governanceVars
    PROVE  GovernanceTypeOK'
<1> USE GovernanceAssumption DEF GovernanceTypeOK, adminVars, feeVars
<1>1. CASE NewBlock
  BY <1>1 DEF NewBlock
<1>2. CASE UNCHANGED governanceVars
  BY <1>2 DEF governanceVars
<1>3. ASSUME NEW caller \in Principals, NEW newAdmin \in Principals,
             ProposeAdmin(caller, newAdmin)
      PROVE  GovernanceTypeOK'
  BY <1>3 DEF ProposeAdmin
<1>4. ASSUME NEW caller \in Principals,
             AcceptAdmin(caller) \/ CancelAdminProposal(caller)
      PROVE  GovernanceTypeOK'
  BY <1>4 DEF AcceptAdmin, CancelAdminProposal
<1>5. ASSUME NEW caller \in Principals, NEW newFee \in 0..MaxBips,
             ProposeFeeBips(caller, newFee)
      PROVE  GovernanceTypeOK'
  BY <1>5 DEF ProposeFeeBips
<1>6. ASSUME NEW caller \in Principals,
             ConfirmFeeBips(caller) \/ CancelFeeBips(caller)
      PROVE  GovernanceTypeOK'
  BY <1>6 DEF ConfirmFeeBips, CancelFeeBips
<1> QED BY <1>1, <1>2, <1>3, <1>4, <1>5, <1>6 DEF GovernanceNext, GovernanceCall

\* Types: among them that the fee never exceeds MaxFeeBips, and that no
\* proposal was made in the future.
THEOREM GovernanceTypeCorrect == GovernanceSpec => []GovernanceTypeOK
<1>1. GovernanceInit => GovernanceTypeOK
  BY GovernanceAssumption DEF GovernanceInit, GovernanceTypeOK
<1> QED BY <1>1, StepGovernanceTypeOK, PTL DEF GovernanceSpec

\* A pending fee is never changed into another without starting its notice
\* again, and takes effect only when the notice is over.
THEOREM FeeOnNotice == GovernanceSpec => FeeChangesOnNotice
<1>1. GovernanceInit => FeeChange!ChangeInit
  BY DEF GovernanceInit, FeeChange!ChangeInit
<1>2. GovernanceTypeOK /\ [GovernanceNext]_governanceVars
        => [FeeChange!ChangeNext]_(FeeChange!changeVars)
  <2> SUFFICES ASSUME GovernanceTypeOK, [GovernanceNext]_governanceVars
               PROVE  [FeeChange!ChangeNext]_(FeeChange!changeVars)
    OBVIOUS
  <2> USE GovernanceAssumption
      DEF FeeChange!ChangeNext, FeeChange!changeVars, GovernanceTypeOK
  <2>1. CASE NewBlock
    BY <2>1 DEF NewBlock, feeVars, Age, FeeChange!Wait, FeeChange!Withdraw
  <2>2. CASE UNCHANGED governanceVars
    BY <2>2 DEF governanceVars, feeVars, Age
  <2>3. ASSUME NEW caller \in Principals,
               \/ \E newAdmin \in Principals : ProposeAdmin(caller, newAdmin)
               \/ AcceptAdmin(caller)
               \/ CancelAdminProposal(caller)
        PROVE  UNCHANGED FeeChange!changeVars
    BY <2>3 DEF ProposeAdmin, AcceptAdmin, CancelAdminProposal, feeVars, Age
  <2>4. ASSUME NEW caller \in Principals, NEW newFee \in 0..MaxBips,
               ProposeFeeBips(caller, newFee)
        PROVE  FeeChange!Announce \/ UNCHANGED FeeChange!changeVars
    BY <2>4 DEF ProposeFeeBips, Age, FeeChange!Announce
  <2>5. ASSUME NEW caller \in Principals, ConfirmFeeBips(caller)
        PROVE  FeeChange!Adopt
    BY <2>5 DEF ConfirmFeeBips, Age, FeeChange!Adopt
  <2>6. ASSUME NEW caller \in Principals, CancelFeeBips(caller)
        PROVE  FeeChange!Withdraw
    BY <2>6 DEF CancelFeeBips, FeeChange!Withdraw
  <2> QED BY <2>1, <2>2, <2>3, <2>4, <2>5, <2>6 DEF GovernanceNext, GovernanceCall
<1> QED
  BY <1>1, <1>2, GovernanceTypeCorrect, PTL
     DEF GovernanceSpec, FeeChangesOnNotice, FeeChange!ChangeSpec

\* The same for the admin: a successor takes over only after the notice.
THEOREM AdminOnNotice == GovernanceSpec => AdminChangesOnNotice
<1>1. GovernanceInit => AdminChange!ChangeInit
  BY DEF GovernanceInit, AdminChange!ChangeInit
<1>2. GovernanceTypeOK /\ [GovernanceNext]_governanceVars
        => [AdminChange!ChangeNext]_(AdminChange!changeVars)
  <2> SUFFICES ASSUME GovernanceTypeOK, [GovernanceNext]_governanceVars
               PROVE  [AdminChange!ChangeNext]_(AdminChange!changeVars)
    OBVIOUS
  <2> USE GovernanceAssumption
      DEF AdminChange!ChangeNext, AdminChange!changeVars, GovernanceTypeOK
  <2>1. CASE NewBlock
    BY <2>1 DEF NewBlock, adminVars, Age, AdminChange!Wait,
                AdminChange!Withdraw
  <2>2. CASE UNCHANGED governanceVars
    BY <2>2 DEF governanceVars, adminVars, Age
  <2>3. ASSUME NEW caller \in Principals,
               \/ \E newFee \in 0..MaxBips : ProposeFeeBips(caller, newFee)
               \/ ConfirmFeeBips(caller)
               \/ CancelFeeBips(caller)
        PROVE  UNCHANGED AdminChange!changeVars
    BY <2>3 DEF ProposeFeeBips, ConfirmFeeBips, CancelFeeBips, adminVars, Age
  <2>4. ASSUME NEW caller \in Principals, NEW newAdmin \in Principals,
               ProposeAdmin(caller, newAdmin)
        PROVE  AdminChange!Announce \/ UNCHANGED AdminChange!changeVars
    BY <2>4 DEF ProposeAdmin, Age, AdminChange!Announce
  <2>5. ASSUME NEW caller \in Principals, AcceptAdmin(caller)
        PROVE  AdminChange!Adopt
    BY <2>5 DEF AcceptAdmin, Age, AdminChange!Adopt
  <2>6. ASSUME NEW caller \in Principals, CancelAdminProposal(caller)
        PROVE  AdminChange!Withdraw
    BY <2>6 DEF CancelAdminProposal, AdminChange!Withdraw
  <2> QED BY <2>1, <2>2, <2>3, <2>4, <2>5, <2>6 DEF GovernanceNext, GovernanceCall
<1> QED
  BY <1>1, <1>2, GovernanceTypeCorrect, PTL
     DEF GovernanceSpec, AdminChangesOnNotice, AdminChange!ChangeSpec

-----------------------------------------------------------------------------
(***************************************************************************)
(* OG seats, for any finite set of stakers, any wealth, any caps and any   *)
(* lock lengths.  OgInv leaves out the sums over all stakers, so the       *)
(* counters are only known to be integers there; the second part proves    *)
(* SeatsAddUp on top of it, and with it that they are natural.             *)
(***************************************************************************)

OgTypes ==
    /\ cycle \in Nat
    /\ prepare \in BOOLEAN
    /\ info \in [Stakers -> [amount : Nat, unlock : Nat, signer : Signers]
                              \cup {None}]
    /\ paused \in BOOLEAN
    /\ cap \in Nat
    /\ ogStakers \in [Stakers -> (Nat \ {0}) \cup {None}]
    /\ ogSeats \in Int
    /\ ogCovered \in Int

OgInv == OgTypes /\ CoveredWithinCap /\ CoverWithinStake

\* What a step may do to the covers: the body of SeatLastsWhileStaying and of
\* OfferNeverShrinks.
CoversLast ==
    \A t \in Stakers : Staying(t) => Cover(t)' >= Cover(t)

OfferLasts ==
    cap' - ogCovered' < cap - ogCovered
       => \E t \in Stakers : Staying(t)' /\ Cover(t)' > Cover(t)

USE OgAssumption

\* A cover is a natural number.
LEMMA CoverNat ==
    ASSUME OgTypes, NEW s \in Stakers
    PROVE  Cover(s) \in Nat
  BY DEF OgTypes, Cover

\* The room under a cap shrinks only if what is covered grows.
LEMMA RoomArithmetic ==
    \A c, x, y \in Int : x <= y => ~(c - x < c - y)
  OBVIOUS

\* What validate-stake! does to the seats: after a stake with the pool the
\* staker's cover is at most the stake, it shrinks only when the stake was
\* below it, and nobody else's changes.  The covered total grows only with
\* the cover of this staker.
LEMMA ValidateEffect ==
    ASSUME OgTypes, CoveredWithinCap, NEW s \in Stakers, NEW signer \in Signers,
           NEW amount \in Nat, ValidateStake(s, signer, amount)
    PROVE  /\ ogStakers' \in [Stakers -> (Nat \ {0}) \cup {None}]
           /\ ogSeats' \in Int
           /\ ogCovered' \in Int
           /\ ogCovered' <= cap
           /\ \A t \in Stakers \ {s} : ogStakers'[t] = ogStakers[t]
           /\ signer = "pool" => Cover(s)' <= amount
           /\ signer # "pool" => ogStakers'[s] = ogStakers[s]
           /\ Cover(s) <= amount => Cover(s)' >= Cover(s)
           /\ ogCovered' > ogCovered => signer = "pool" /\ Cover(s)' > Cover(s)
<1> USE DEF OgTypes, CoveredWithinCap
<1>1. Cover(s) \in Nat
  BY CoverNat
<1>2. CASE signer # "pool"
  BY <1>1, <1>2 DEF ValidateStake, seats, Cover
<1>3. CASE signer = "pool" /\ ShrinkSeat(s, amount)
  <2>1. CASE amount = 0
    BY <1>1, <1>3, <2>1 DEF ShrinkSeat, Cover
  <2>2. CASE amount # 0
    BY <1>1, <1>3, <2>2 DEF ShrinkSeat, Cover
  <2> QED BY <2>1, <2>2
<1>4. CASE signer = "pool" /\ GrowSeat(s, amount)
  <2> DEFINE left == cap - ogCovered
             want == amount - Cover(s)
             add  == IF want > left THEN left ELSE want
  <2>1. add \in Nat /\ add <= left /\ add <= want
    BY <1>1, <1>4 DEF GrowSeat
  <2>2. CASE add > 0
    <3>1. /\ ogStakers' = [ogStakers EXCEPT ![s] = Cover(s) + add]
          /\ ogSeats' = IF Cover(s) = 0 THEN ogSeats + 1 ELSE ogSeats
          /\ ogCovered' = ogCovered + add
      BY <1>4, <2>2 DEF GrowSeat
    <3>2. Cover(s)' = Cover(s) + add /\ Cover(s) + add \in Nat \ {0}
      BY <1>1, <2>1, <2>2, <3>1 DEF Cover
    <3>3. Cover(s)' > Cover(s)
      BY <1>1, <2>1, <2>2, <3>2
    <3>4. Cover(s)' <= amount /\ ogCovered' \in Int /\ ogCovered' <= cap
      BY <1>1, <2>1, <3>1, <3>2
    <3> QED BY <1>1, <1>4, <3>1, <3>2, <3>3, <3>4
  <2>3. CASE add = 0
    <3>1. UNCHANGED seats
      BY <1>4, <2>1, <2>3 DEF GrowSeat
    <3> QED BY <1>1, <1>4, <2>1, <3>1 DEF seats, Cover, GrowSeat
  <2> QED BY <2>1, <2>2, <2>3
<1> QED BY <1>2, <1>3, <1>4 DEF ValidateStake, Signers

\* A stake or stake-update that leaves the staker locked with the pool, and
\* keeps the invariant; a locked staker's cover does not shrink.
LEMMA StakingStep ==
    ASSUME OgInv, NEW s \in Stakers, NEW signer \in Signers, NEW amount \in Nat,
           NEW unlock \in Nat,
           ValidateStake(s, signer, amount),
           Locked(s) => info[s].amount <= amount,
           unlock > cycle,
           info' = [info EXCEPT ![s] = [amount |-> amount, unlock |-> unlock,
                                        signer |-> signer]],
           UNCHANGED <<cycle, prepare, paused, cap>>
    PROVE  OgInv' /\ CoversLast /\ OfferLasts
<1> USE DEF OgInv
<1>1. /\ ogStakers' \in [Stakers -> (Nat \ {0}) \cup {None}]
      /\ ogSeats' \in Int
      /\ ogCovered' \in Int
      /\ ogCovered' <= cap
      /\ \A t \in Stakers \ {s} : ogStakers'[t] = ogStakers[t]
      /\ signer = "pool" => Cover(s)' <= amount
      /\ signer # "pool" => ogStakers'[s] = ogStakers[s]
      /\ Cover(s) <= amount => Cover(s)' >= Cover(s)
      /\ ogCovered' > ogCovered => signer = "pool" /\ Cover(s)' > Cover(s)
  BY ValidateEffect
<1>2. OgTypes' /\ CoveredWithinCap'
  BY <1>1 DEF OgTypes, CoveredWithinCap
<1>3. info'[s] = [amount |-> amount, unlock |-> unlock, signer |-> signer]
      /\ \A t \in Stakers \ {s} : info'[t] = info[t]
  BY DEF OgTypes
<1>4. CoverWithinStake'
  <2> SUFFICES ASSUME NEW t \in Stakers, Staying(t)'
               PROVE  Cover(t)' <= info'[t].amount
    BY DEF CoverWithinStake
  <2>1. CASE t = s
    BY <1>1, <1>3, <2>1 DEF Staying
  <2>2. CASE t # s
    BY <1>1, <1>3, <2>2 DEF Staying, Locked, Cover, CoverWithinStake
  <2> QED BY <2>1, <2>2
<1>5. ASSUME NEW t \in Stakers, Staying(t) PROVE Cover(t)' >= Cover(t)
  <2>1. Cover(t) \in Nat /\ Cover(t) <= info[t].amount
    BY <1>5, CoverNat DEF CoverWithinStake
  <2>2. CASE t = s
    <3>1. info[s].amount \in Nat /\ info[s].amount <= amount
      BY <1>5, <2>2 DEF Staying, Locked, OgTypes
    <3> QED BY <1>1, <2>1, <2>2, <3>1
  <2>3. CASE t # s
    BY <1>1, <2>1, <2>3 DEF Cover
  <2> QED BY <2>2, <2>3
<1>6. OfferLasts
  <2>1. CASE ogCovered' > ogCovered
    <3>1. signer = "pool" /\ Cover(s)' > Cover(s)
      BY <1>1, <2>1
    <3>2. info'[s] # None
      BY <1>3 DEF OgTypes, Signers
    <3>3. Staying(s)'
      BY <1>3, <3>1, <3>2 DEF Staying, Locked
    <3> QED BY <3>1, <3>3, Zenon DEF OfferLasts
  <2>2. CASE ~(ogCovered' > ogCovered)
    <3>1. cap' = cap /\ cap \in Int /\ ogCovered \in Int /\ ogCovered' \in Int
      BY <1>1 DEF OgTypes
    <3>2. ogCovered' <= ogCovered
      BY <2>2, <3>1
    <3>3. ~(cap - ogCovered' < cap - ogCovered)
      BY <3>1, <3>2, RoomArithmetic
    <3>4. ~(cap' - ogCovered' < cap - ogCovered)
      BY <3>1, <3>3, Zenon
    <3> QED BY <3>4, Zenon DEF OfferLasts
  <2> QED BY <2>1, <2>2
<1> QED BY <1>2, <1>4, <1>5, <1>6 DEF CoversLast

\* Every step keeps the invariant and the cover of those who stay.
LEMMA StepOg ==
    ASSUME OgInv, OgNext
    PROVE  OgInv' /\ CoversLast /\ OfferLasts
<1> USE DEF OgInv
<1>0. \A t \in Stakers : Cover(t) \in Nat
  BY CoverNat
<1>1. ASSUME NEW s \in Stakers, NEW signer \in Signers, NEW amount \in 0..Wealth,
             NEW cycles \in 1..MaxLock, Stake(s, signer, amount, cycles)
      PROVE  OgInv' /\ CoversLast /\ OfferLasts
  <2>1. /\ amount \in Nat /\ cycle + 1 + cycles \in Nat
        /\ cycle + 1 + cycles > cycle
    BY DEF OgTypes
  <2> HIDE DEF OgInv
  <2> QED BY <1>1, <2>1, StakingStep DEF Stake
<1>2. ASSUME NEW s \in Stakers, NEW signer \in Signers, NEW extend \in 0..MaxLock,
             NEW increase \in 0..Wealth, StakeUpdate(s, signer, extend, increase)
      PROVE  OgInv' /\ CoversLast /\ OfferLasts
  <2> DEFINE amount == info[s].amount + increase
             unlock == info[s].unlock + extend
  <2>1. /\ info[s].amount \in Nat /\ info[s].unlock \in Nat
        /\ increase \in Nat /\ extend \in Nat
    BY <1>2 DEF StakeUpdate, Locked, OgTypes
  <2>2. /\ amount \in Nat /\ unlock \in Nat /\ info[s].amount <= amount
        /\ unlock > cycle
    BY <1>2, <2>1 DEF StakeUpdate, OgTypes
  <2>3. /\ ValidateStake(s, signer, amount)
        /\ info' = [info EXCEPT ![s] = [amount |-> amount, unlock |-> unlock,
                                        signer |-> signer]]
        /\ UNCHANGED <<cycle, prepare, paused, cap>>
    BY <1>2 DEF StakeUpdate
  <2> HIDE DEF amount, unlock, OgInv
  <2> QED BY <2>2, <2>3, StakingStep
<1>3. ASSUME NEW s \in Stakers, Unstake(s)
      PROVE  OgInv' /\ CoversLast /\ OfferLasts
  <2>1. /\ info[s] \in [amount : Nat, unlock : Nat, signer : Signers]
        /\ info' = [info EXCEPT ![s] = [@ EXCEPT !.unlock = cycle + 1]]
    BY <1>3 DEF Unstake, Locked, OgTypes
  <2>2. info' \in [Stakers -> [amount : Nat, unlock : Nat, signer : Signers]
                               \cup {None}]
    BY <2>1 DEF OgTypes
  <2>3. \A t \in Stakers : Staying(t)' => Staying(t) /\ info'[t].amount = info[t].amount
    BY <1>3, <2>1 DEF Unstake, Staying, Locked, OgTypes
  <2> QED BY <1>0, <1>3, <2>2, <2>3
             DEF Unstake, seats, OgTypes, CoveredWithinCap, CoverWithinStake,
                 Cover, CoversLast, OfferLasts
<1>4. ASSUME NEW s \in Stakers, EvictOg(s)
      PROVE  OgInv' /\ CoversLast /\ OfferLasts
  <2>1. /\ ogStakers' = [ogStakers EXCEPT ![s] = None]
        /\ ogSeats' = ogSeats - 1
        /\ ogCovered' = ogCovered - Cover(s)
        /\ UNCHANGED <<chain, paused, cap>>
        /\ ~Staying(s)
    BY <1>4 DEF EvictOg
  <2>2. OgTypes' /\ CoveredWithinCap'
    BY <1>0, <2>1 DEF OgTypes, CoveredWithinCap, chain
  <2>3. \A t \in Stakers \ {s} : Cover(t)' = Cover(t)
    BY <2>1 DEF Cover, OgTypes
  <2>4. \A t \in Stakers : Staying(t)' <=> Staying(t)
    BY <2>1 DEF Staying, Locked, chain
  <2>5. CoverWithinStake'
    BY <2>1, <2>3, <2>4 DEF CoverWithinStake, chain
  <2>6. OfferLasts
    <3>1. ~(cap' - ogCovered' < cap - ogCovered)
      BY <1>0, <2>1 DEF OgTypes
    <3> QED BY <3>1 DEF OfferLasts
  <2> QED BY <1>0, <2>1, <2>2, <2>3, <2>5, <2>6 DEF CoversLast
<1>5. ASSUME NEW newCap \in 1..MaxCap, RaiseOgCap(newCap)
      PROVE  OgInv' /\ CoversLast /\ OfferLasts
  BY <1>0, <1>5 DEF RaiseOgCap, OgTypes, CoveredWithinCap, CoverWithinStake,
                    Staying, Locked, Cover, chain, seats, CoversLast,
                    OfferLasts
<1>6. ASSUME NEW p \in BOOLEAN, SetPaused(p)
      PROVE  OgInv' /\ CoversLast /\ OfferLasts
  BY <1>0, <1>6 DEF SetPaused, OgTypes, CoveredWithinCap, CoverWithinStake,
                    Staying, Locked, Cover, chain, seats, CoversLast,
                    OfferLasts
<1>7. CASE NextPhase
  <2>1. cycle' \in Nat /\ cycle' >= cycle /\ prepare' \in BOOLEAN
    BY <1>7 DEF NextPhase, OgTypes
  <2>2. \A t \in Stakers : Staying(t)' => Staying(t)
    BY <1>7, <2>1 DEF NextPhase, Staying, Locked, OgTypes
  <2> QED BY <1>0, <1>7, <2>1, <2>2
             DEF NextPhase, OgTypes, CoveredWithinCap, CoverWithinStake, Cover,
                 seats, CoversLast, OfferLasts
<1> QED
  BY <1>1, <1>2, <1>3, <1>4, <1>5, <1>6, <1>7 DEF OgNext, SeatCall, StakerMove

\* The invariant holds at deployment and in every reachable state.
THEOREM OgInvariant == OgSpec => []OgInv
<1>1. ASSUME OgInit PROVE OgInv
  <2>1. OgTypes
    <3>1. info = [t \in Stakers |-> None] /\ ogStakers = [t \in Stakers |-> None]
      BY <1>1 DEF OgInit
    <3>2. cap \in Nat /\ cycle \in Nat /\ prepare \in BOOLEAN /\ paused \in BOOLEAN
      BY <1>1 DEF OgInit
    <3>3. ogSeats \in Int /\ ogCovered \in Int
      BY <1>1 DEF OgInit
    <3> QED BY <3>1, <3>2, <3>3 DEF OgTypes
  <2>2. CoveredWithinCap
    BY <1>1 DEF OgInit, CoveredWithinCap
  <2>3. CoverWithinStake
    BY <1>1 DEF OgInit, CoverWithinStake, Staying, Locked
  <2> QED BY <2>1, <2>2, <2>3 DEF OgInv
<1>2. OgInv /\ [OgNext]_ogVars => OgInv'
  <2>1. ASSUME OgInv, UNCHANGED ogVars PROVE OgInv'
    BY <2>1 DEF OgInv, ogVars, chain, seats, OgTypes, CoveredWithinCap,
                CoverWithinStake, Staying, Locked, Cover
  <2> QED BY <2>1, StepOg
<1> QED BY <1>1, <1>2, PTL DEF OgSpec

\* The room under the cap is never negative.
THEOREM CapIsKept == OgSpec => []CoveredWithinCap
<1>1. OgInv => CoveredWithinCap
  BY DEF OgInv
<1> QED BY <1>1, OgInvariant, PTL

\* Nobody who is locked with the pool is covered beyond their stake.
THEOREM NoCoverBeyondStake == OgSpec => []CoverWithinStake
<1>1. OgInv => CoverWithinStake
  BY DEF OgInv
<1> QED BY <1>1, OgInvariant, PTL

\* "A seat lasts while the staker stays."
THEOREM SeatLasts == OgSpec => SeatLastsWhileStaying
<1>1. OgInv /\ [OgNext]_ogVars
        => [\A s \in Stakers : Staying(s) => Cover(s)' >= Cover(s)]_ogVars
  BY StepOg DEF CoversLast
<1> QED BY <1>1, OgInvariant, PTL DEF OgSpec, SeatLastsWhileStaying

\* The offer only gets better: room under the cap goes only to somebody's
\* stake.
THEOREM OfferLastsAlways == OgSpec => OfferNeverShrinks
<1>1. OgInv /\ [OgNext]_ogVars
        => [cap' - ogCovered' < cap - ogCovered
              => \E s \in Stakers : Staying(s)' /\ Cover(s)' > Cover(s)]_ogVars
  BY StepOg DEF OfferLasts
<1> QED BY <1>1, OgInvariant, PTL DEF OgSpec, OfferNeverShrinks

-----------------------------------------------------------------------------
(* The counters.                                                           *)

Seated == {s \in Stakers : ogStakers[s] # None}

\* Both counters move with the entry of one staker.
SeatMove(s) ==
    /\ \A t \in Stakers \ {s} : ogStakers'[t] = ogStakers[t]
    /\ ogCovered' = ogCovered - Cover(s) + Cover(s)'
    /\ ogStakers'[s] = None =>
          ogSeats' = IF ogStakers[s] = None THEN ogSeats ELSE ogSeats - 1
    /\ ogStakers'[s] # None =>
          ogSeats' = IF ogStakers[s] = None THEN ogSeats + 1 ELSE ogSeats

\* Whatever validate-stake! does to the seats is such a move.
LEMMA ValidateMoves ==
    ASSUME OgTypes, NEW s \in Stakers, NEW signer \in Signers,
           NEW amount \in Nat, ValidateStake(s, signer, amount)
    PROVE  SeatMove(s)
<1> USE DEF OgTypes
<1>1. Cover(s) \in Nat /\ (Cover(s) = 0 <=> ogStakers[s] = None)
  BY DEF Cover
<1>2. CASE UNCHANGED seats
  BY <1>1, <1>2 DEF SeatMove, seats, Cover
<1>3. CASE ShrinkSeat(s, amount)
  <2>1. CASE amount = 0
    BY <1>1, <1>3, <2>1 DEF ShrinkSeat, SeatMove, Cover
  <2>2. CASE amount # 0
    BY <1>1, <1>3, <2>2 DEF ShrinkSeat, SeatMove, Cover
  <2> QED BY <2>1, <2>2
<1>4. CASE GrowSeat(s, amount) /\ ~UNCHANGED seats
  <2> DEFINE left == cap - ogCovered
             want == amount - Cover(s)
             add  == IF want > left THEN left ELSE want
  <2>1. /\ add > 0 /\ add \in Int
        /\ ogStakers' = [ogStakers EXCEPT ![s] = Cover(s) + add]
        /\ ogSeats' = IF Cover(s) = 0 THEN ogSeats + 1 ELSE ogSeats
        /\ ogCovered' = ogCovered + add
    BY <1>1, <1>4 DEF GrowSeat
  <2> HIDE DEF add
  <2>2. ogStakers'[s] = Cover(s) + add /\ Cover(s) + add \in Nat \ {0}
    BY <1>1, <2>1
  <2>3. Cover(s)' = Cover(s) + add /\ ogStakers'[s] # None
    BY <2>2 DEF Cover
  <2> QED BY <1>1, <2>1, <2>3 DEF SeatMove
<1> QED BY <1>2, <1>3, <1>4 DEF ValidateStake

\* A step is a move of one staker's entry or leaves the seats alone.
LEMMA NextMoves ==
    ASSUME OgTypes, [OgNext]_ogVars
    PROVE  UNCHANGED seats \/ \E s \in Stakers : SeatMove(s)
<1>1. ASSUME NEW s \in Stakers, NEW signer \in Signers, NEW amount \in 0..Wealth,
             NEW cycles \in 1..MaxLock, Stake(s, signer, amount, cycles)
      PROVE  SeatMove(s)
  BY <1>1, ValidateMoves DEF Stake
<1>2. ASSUME NEW s \in Stakers, NEW signer \in Signers, NEW extend \in 0..MaxLock,
             NEW increase \in 0..Wealth, StakeUpdate(s, signer, extend, increase)
      PROVE  SeatMove(s)
  <2>1. info[s].amount + increase \in Nat
    BY <1>2 DEF StakeUpdate, Locked, OgTypes
  <2> QED BY <1>2, <2>1, ValidateMoves DEF StakeUpdate
<1>3. ASSUME NEW s \in Stakers, EvictOg(s) PROVE SeatMove(s)
  BY <1>3 DEF EvictOg, SeatMove, OgTypes, Cover
<1> QED
  BY <1>1, <1>2, <1>3
     DEF OgNext, SeatCall, StakerMove, Unstake, RaiseOgCap, SetPaused, NextPhase, ogVars

\* A move keeps the counters in step with the table.
LEMMA MoveAddsUp ==
    ASSUME OgTypes, OgTypes', SeatsAddUp, NEW s \in Stakers, SeatMove(s)
    PROVE  SeatsAddUp'
<1> DEFINE covers == [t \in Stakers |-> Cover(t)]
<1>1. \A t \in Stakers : Cover(t) \in Nat /\ Cover(t)' \in Nat
  BY DEF OgTypes, Cover
<1>2. ogCovered' = SumFunction([t \in Stakers |-> Cover(t)])'
  <2>1. IntegersOn(covers, Stakers) /\ covers'[s] \in Int
        /\ \A t \in Stakers \ {s} : covers'[t] = covers[t]
    BY <1>1 DEF IntegersOn, SeatMove, Cover
  <2>2. SumFunctionOnSet(covers', Stakers)
          = SumFunctionOnSet(covers, Stakers) - covers[s] + covers'[s]
    <3> HIDE DEF covers
    <3> QED BY <2>1, SumChange
  <2>3. ogCovered = SumFunctionOnSet(covers, Stakers)
    BY DEF SeatsAddUp, SumFunction
  <2> QED BY <2>2, <2>3 DEF SeatMove, SumFunction
<1>3. ogSeats' = Cardinality(Seated')
  <2>1. ogSeats = Cardinality(Seated) /\ IsFiniteSet(Seated)
        /\ IsFiniteSet(Seated \cup {s}) /\ IsFiniteSet(Seated \ {s})
    BY FS_Subset, FS_AddElement, FS_RemoveElement DEF SeatsAddUp, Seated
  <2>2. CASE ogStakers'[s] = None
    <3>1. Seated' = Seated \ {s}
      BY <2>2 DEF Seated, SeatMove
    <3>2. Cardinality(Seated \ {s})
            = IF s \in Seated THEN Cardinality(Seated) - 1 ELSE Cardinality(Seated)
      BY <2>1, FS_RemoveElement
    <3>3. s \in Seated <=> ogStakers[s] # None
      BY DEF Seated
    <3>4. ogSeats' = IF ogStakers[s] = None THEN ogSeats ELSE ogSeats - 1
      BY <2>2 DEF SeatMove
    <3> QED BY <2>1, <3>1, <3>2, <3>3, <3>4
  <2>3. CASE ogStakers'[s] # None
    <3>1. Seated' = Seated \cup {s}
      BY <2>3 DEF Seated, SeatMove
    <3>2. Cardinality(Seated \cup {s})
            = IF s \in Seated THEN Cardinality(Seated) ELSE Cardinality(Seated) + 1
      BY <2>1, FS_AddElement
    <3>3. s \in Seated <=> ogStakers[s] # None
      BY DEF Seated
    <3>4. ogSeats' = IF ogStakers[s] = None THEN ogSeats + 1 ELSE ogSeats
      BY <2>3 DEF SeatMove
    <3> QED BY <2>1, <3>1, <3>2, <3>3, <3>4
  <2> QED BY <2>2, <2>3
<1>4. \A t \in Seated' : ogStakers'[t] > 0
  BY DEF OgTypes, Seated
<1> QED BY <1>2, <1>3, <1>4 DEF SeatsAddUp, Seated

\* og-covered-ustx and og-seats are what the table says they are.
THEOREM CountersAddUp == OgSpec => []SeatsAddUp
<1>1. OgInit => SeatsAddUp
  <2> SUFFICES ASSUME OgInit PROVE SeatsAddUp
    OBVIOUS
  <2> DEFINE covers == [s \in Stakers |-> Cover(s)]
  <2>1. ogStakers = [s \in Stakers |-> None] /\ ogSeats = 0 /\ ogCovered = 0
    BY DEF OgInit
  <2>2. SumFunctionOnSet(covers, Stakers) = 0
    <3>1. \A s \in Stakers : covers[s] = 0
      BY <2>1 DEF Cover
    <3> HIDE DEF covers
    <3> QED BY <3>1, SumZero
  <2>3. Seated = {}
    BY <2>1 DEF Seated
  <2>4. Cardinality(Seated) = 0
    BY <2>3, FS_EmptySet
  <2> QED BY <2>1, <2>2, <2>3, <2>4 DEF SeatsAddUp, SumFunction, Seated
<1>2. SeatsAddUp /\ OgInv /\ OgInv' /\ [OgNext]_ogVars => SeatsAddUp'
  <2> SUFFICES ASSUME SeatsAddUp, OgInv, OgInv', [OgNext]_ogVars
               PROVE  SeatsAddUp'
    OBVIOUS
  <2>1. CASE UNCHANGED seats
    BY <2>1 DEF seats, SeatsAddUp, Cover
  <2>2. ASSUME NEW s \in Stakers, SeatMove(s) PROVE SeatsAddUp'
    BY <2>2, MoveAddsUp DEF OgInv
  <2> QED BY <2>1, <2>2, NextMoves DEF OgInv
<1> QED BY <1>1, <1>2, OgInvariant, PTL DEF OgSpec

\* The counters never underflow.
THEOREM OgTypeCorrect == OgSpec => []OgTypeOK
<1>1. OgInv /\ SeatsAddUp => OgTypeOK
  <2> SUFFICES ASSUME OgInv, SeatsAddUp PROVE OgTypeOK
    OBVIOUS
  <2> DEFINE covers == [s \in Stakers |-> Cover(s)]
  <2>1. ogCovered \in Nat
    <3>1. \A s \in Stakers : covers[s] \in Nat
      BY DEF OgInv, OgTypes, Cover
    <3>2. SumFunctionOnSet(covers, Stakers) \in Nat
      <4> HIDE DEF covers
      <4> QED BY <3>1, SumNat
    <3> QED BY <3>2 DEF SeatsAddUp, SumFunction
  <2>2. ogSeats \in Nat
    BY FS_Subset, FS_CardinalityType DEF SeatsAddUp
  <2> QED BY <2>1, <2>2 DEF OgInv, OgTypes, OgTypeOK
<1> QED BY <1>1, OgInvariant, CountersAddUp, PTL
=============================================================================
