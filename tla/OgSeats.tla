------------------------------- MODULE OgSeats -------------------------------
(***************************************************************************)
(* OG seats of juice-pool-sbtc-signer.clar: stake that is covered at a 0%  *)
(* fee, up to a cap that the admin may only raise.                         *)
(*                                                                         *)
(* A seat is opened or grown by validate-stake!, which pox-5 calls inside  *)
(* every stake or stake-update that names this pool as signer; it may be   *)
(* evicted by anyone once pox-5 no longer lists the staker as locked with  *)
(* the pool.  The interleaving that matters is between the staker's own    *)
(* moves in pox-5 (which the pool sees only if they name it), the reward   *)
(* cycles that end locks silently, and evictions.  pox-5's part is         *)
(* contracts/external/pox-5.clar.                                          *)
(***************************************************************************)
EXTENDS Integers, FiniteSets, Functions

CONSTANTS
    Stakers,
    Wealth,      \* uSTX every staker has, locked or not
    InitialCap,  \* og-cap-ustx at deployment
    MaxLock,     \* pox-5's MAX_NUM_CYCLES
    None,
    \* Bounds of the exploration.
    MaxCap,      \* the admin raises the cap no further
    MaxCycle     \* reward cycle at which a behaviour ends

ASSUME OgAssumption ==
    /\ IsFiniteSet(Stakers)
    /\ {Wealth, InitialCap, MaxLock, MaxCap, MaxCycle} \subseteq Nat
    /\ None \notin Nat
    /\ None \notin [amount : Nat, unlock : Nat, signer : {"pool", "other"}]

VARIABLES
    cycle,      \* pox-5's current reward cycle
    prepare,    \* pox-5 is in the prepare phase at the end of the cycle
    info,       \* pox-5's staker-info; `unlock` is first-reward-cycle + num-cycles
    paused,     \* the pool's paused
    cap,        \* og-cap-ustx
    ogStakers,  \* og-stakers: the uSTX covered, or None without a seat
    ogSeats,    \* og-seats
    ogCovered   \* og-covered-ustx

chain == <<cycle, prepare, info>>
seats == <<ogStakers, ogSeats, ogCovered>>
ogVars == <<chain, paused, cap, seats>>

Signers == {"pool", "other"}

\* get-og-ustx
Cover(s) == IF ogStakers[s] = None THEN 0 ELSE ogStakers[s]

\* pox-5's get-staker-info is some.
Locked(s) == info[s] # None /\ info[s].unlock > cycle

\* og-staying
Staying(s) == Locked(s) /\ info[s].signer = "pool"

-----------------------------------------------------------------------------
OgInit ==
    /\ cycle = 0
    /\ prepare = FALSE
    /\ info = [s \in Stakers |-> None]
    /\ paused = FALSE
    /\ cap = InitialCap
    /\ ogStakers = [s \in Stakers |-> None]
    /\ ogSeats = 0
    /\ ogCovered = 0

\* Mutant: a stake of 0 keeps its seat.
ShrinkSeatToZero(s, amount) ==
    /\ amount < Cover(s)
    /\ ogCovered' = ogCovered - (Cover(s) - amount)
    /\ ogStakers' = [ogStakers EXCEPT ![s] = amount]
    /\ UNCHANGED ogSeats

\* take-og-seat when the stake is below the cover: the rest of the cover goes
\* back to the cap, and a stake of 0 gives up the seat.
ShrinkSeat(s, amount) ==
    /\ amount < Cover(s)
    /\ ogCovered' = ogCovered - (Cover(s) - amount)
    /\ IF amount = 0
       THEN /\ ogStakers' = [ogStakers EXCEPT ![s] = None]
            /\ ogSeats' = ogSeats - 1
       ELSE /\ ogStakers' = [ogStakers EXCEPT ![s] = amount]
            /\ UNCHANGED ogSeats

\* Mutant: the cap is asked, but not left as the limit.
GrowSeatPastCap(s, amount) ==
    LET want == amount - Cover(s) IN
    /\ amount >= Cover(s)
    /\ IF want > 0 /\ cap > ogCovered
       THEN /\ ogStakers' = [ogStakers EXCEPT ![s] = Cover(s) + want]
            /\ ogSeats' = IF Cover(s) = 0 THEN ogSeats + 1 ELSE ogSeats
            /\ ogCovered' = ogCovered + want
       ELSE UNCHANGED seats

\* take-og-seat otherwise: the cover grows by what the cap still has, and
\* nothing happens when that, or what is missing, is nothing.
GrowSeat(s, amount) ==
    LET left == cap - ogCovered
        want == amount - Cover(s)
        add  == IF want > left THEN left ELSE want IN
    /\ amount >= Cover(s)
    /\ IF add > 0
       THEN /\ ogStakers' = [ogStakers EXCEPT ![s] = Cover(s) + add]
            /\ ogSeats' = IF Cover(s) = 0 THEN ogSeats + 1 ELSE ogSeats
            /\ ogCovered' = ogCovered + add
       ELSE UNCHANGED seats

\* Mutant: a stake below the cover leaves it alone.
ValidateStakeGrowing(s, signer, amount) ==
    IF signer = "pool"
    THEN ~paused /\ IF amount > Cover(s) THEN GrowSeat(s, amount) ELSE UNCHANGED seats
    ELSE UNCHANGED seats

\* validate-stake!, if the stake names the pool.
ValidateStake(s, signer, amount) ==
    IF signer = "pool"
    THEN ~paused /\ (ShrinkSeat(s, amount) \/ GrowSeat(s, amount))
    ELSE UNCHANGED seats

\* pox-5's stake: not while locked, from the next cycle on.
Stake(s, signer, amount, cycles) ==
    /\ ~prepare
    /\ ~Locked(s)
    /\ cycles \in 1..MaxLock
    /\ amount <= Wealth
    /\ ValidateStake(s, signer, amount)
    /\ info' = [info EXCEPT ![s] = [amount |-> amount,
                                    unlock |-> cycle + 1 + cycles,
                                    signer |-> signer]]
    /\ UNCHANGED <<cycle, prepare, paused, cap>>

\* pox-5's stake-update: change the signer, extend the lock, raise the amount.
StakeUpdate(s, signer, extend, increase) ==
    /\ ~prepare
    /\ Locked(s)
    /\ info[s].unlock + extend - cycle - 1 \in 1..MaxLock
    /\ info[s].amount + increase <= Wealth
    /\ ValidateStake(s, signer, info[s].amount + increase)
    /\ info' = [info EXCEPT ![s] = [amount |-> @.amount + increase,
                                    unlock |-> @.unlock + extend,
                                    signer |-> signer]]
    /\ UNCHANGED <<cycle, prepare, paused, cap>>

\* pox-5's unstake: unlock at the end of the current cycle.  The pool is not
\* told.
Unstake(s) ==
    /\ ~prepare
    /\ Locked(s)
    /\ info' = [info EXCEPT ![s].unlock = cycle + 1]
    /\ UNCHANGED <<cycle, prepare, paused, cap, seats>>

-----------------------------------------------------------------------------
\* Mutant: a staker in the last cycle of the lock counts as gone.
EvictLeaving(s) ==
    /\ Cover(s) > 0
    /\ Staying(s) => info[s].unlock = cycle + 1
    /\ ogStakers' = [ogStakers EXCEPT ![s] = None]
    /\ ogSeats' = ogSeats - 1
    /\ ogCovered' = ogCovered - Cover(s)
    /\ UNCHANGED <<chain, paused, cap>>

\* Anyone: free the seat of a staker who left.
EvictOg(s) ==
    /\ Cover(s) > 0
    /\ ~Staying(s)
    /\ ogStakers' = [ogStakers EXCEPT ![s] = None]
    /\ ogSeats' = ogSeats - 1
    /\ ogCovered' = ogCovered - Cover(s)
    /\ UNCHANGED <<chain, paused, cap>>

\* Mutant: the cap may be set to anything that covers today's seats.
SetOgCap(newCap) ==
    /\ newCap >= ogCovered
    /\ cap' = newCap
    /\ UNCHANGED <<chain, paused, seats>>

\* The admin.
RaiseOgCap(newCap) ==
    /\ newCap > cap
    /\ cap' = newCap
    /\ UNCHANGED <<chain, paused, seats>>

SetPaused(p) ==
    /\ paused' = p
    /\ UNCHANGED <<chain, cap, seats>>

\* A cycle runs into its prepare phase, and that into the next cycle.
NextPhase ==
    /\ prepare => cycle < MaxCycle
    /\ prepare' = ~prepare
    /\ cycle' = IF prepare THEN cycle + 1 ELSE cycle
    /\ UNCHANGED <<info, paused, cap, seats>>

StakerMove(s) ==
    \/ \E signer \in Signers, amount \in 0..Wealth, cycles \in 1..MaxLock :
          Stake(s, signer, amount, cycles)
    \/ \E signer \in Signers, extend \in 0..MaxLock, increase \in 0..Wealth :
          StakeUpdate(s, signer, extend, increase)
    \/ Unstake(s)

SeatCall ==
    \/ \E s \in Stakers : StakerMove(s) \/ EvictOg(s)
    \/ \E newCap \in 1..MaxCap : RaiseOgCap(newCap)
    \/ \E p \in BOOLEAN : SetPaused(p)

OgNext == SeatCall \/ NextPhase

OgSpec == OgInit /\ [][OgNext]_ogVars

-----------------------------------------------------------------------------
\* Types: the counters of the OG cover never underflow.
OgTypeOK ==
    /\ cycle \in Nat
    /\ prepare \in BOOLEAN
    /\ info \in [Stakers -> [amount : Nat, unlock : Nat, signer : Signers]
                              \cup {None}]
    /\ paused \in BOOLEAN
    /\ cap \in Nat
    /\ ogStakers \in [Stakers -> Nat \cup {None}]
    /\ ogSeats \in Nat
    /\ ogCovered \in Nat

\* The counters agree with the seats: og-covered-ustx is the sum of the
\* covers, og-seats their number, and no seat covers nothing.
SeatsAddUp ==
    LET seated == {s \in Stakers : ogStakers[s] # None} IN
    /\ ogCovered = SumFunction([s \in Stakers |-> Cover(s)])
    /\ ogSeats = Cardinality(seated)
    /\ \A s \in seated : ogStakers[s] > 0

\* The covers never exceed the cap, so that what is left of it is never
\* negative (a negative difference would fail every later stake).
CoveredWithinCap == ogCovered <= cap

\* A staker who is locked with the pool is never covered for more than the
\* stake, whatever they did under another signer or before.
CoverWithinStake ==
    \A s \in Stakers : Staying(s) => Cover(s) <= info[s].amount

\* "A seat lasts while the staker stays": no step, their own or another's,
\* lowers the cover of a staker who is locked with the pool.
SeatLastsWhileStaying ==
    [][\A s \in Stakers : Staying(s) => Cover(s)' >= Cover(s)]_ogVars

\* The offer only gets better: a step lowers the room under the cap only by
\* covering somebody's stake.
OfferNeverShrinks ==
    [][cap' - ogCovered' < cap - ogCovered
          => \E s \in Stakers : Staying(s)' /\ Cover(s)' > Cover(s)]_ogVars
=============================================================================
