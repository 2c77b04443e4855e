------------------------------ MODULE JstxCore ------------------------------
(***************************************************************************)
(* The STX side of the liquid-staking protocol: core.clar (deposits and    *)
(* the three ways out), vault.clar, delegation.clar, allocation.clar, the  *)
(* STX of the stackers (stacker.clar, locked through pool.clar), and the   *)
(* receipts of redeem-stx-nft.clar (RedeemNft).                            *)
(*                                                                         *)
(* Time is kept relative to the PoX cycle: `phase` counts its burn blocks, *)
(* and pending-ustx-per-cycle is kept for the running cycle and the next,  *)
(* the two that are ever read or written.  Amounts a user deposits are net *)
(* of the deposit fee, which never reaches the vault; the fees of the two  *)
(* withdrawals leave the vault with the principal.  The registry, the      *)
(* settings of the admin and the set of authorized contracts are fixed,    *)
(* and the escape hatches that move STX past the books (vault.get-stx,     *)
(* stacker.stx-transfer-all) are not used.                                 *)
(***************************************************************************)
EXTENDS RedeemNft, Functions

CONSTANTS
    Stackers,
    Weight,            \* registry: delegate-allocation, in basis points
    SignerShare,       \* registry: signer-allocation, in basis points
    UserInfluence,     \* user-influence, in basis points
    CycleLength,
    PrepareBuffer,     \* prepare-buffer
    FinalizeBuffer,    \* finalize-buffer
    MaxStx          \* bound on the STX the protocol has, and on assignments

ASSUME StackersAssumption ==
    /\ IsFiniteSet(Stackers)
    /\ None \notin Stackers \cup [stacker : Stackers, amount : Nat]
    /\ Weight \in [Stackers -> Nat]
    /\ SignerShare \in [Stackers -> Nat]

ASSUME TimeAssumption ==
    /\ CycleLength \in Nat \ {0}
    /\ PrepareBuffer \in 0..CycleLength
    /\ FinalizeBuffer \in Nat
    /\ MaxStx \in Nat \ {0}
    /\ UserInfluence \in 0..10000

VARIABLES
    phase,             \* burn blocks since the cycle started
    pending,           \* pending-ustx-per-cycle: 0 this cycle, 1 the next
    vault,             \* STX balance of the vault
    reserved,          \* reserved-stx
    supply,            \* ft-get-supply of jstx-token
    jstx,              \* jSTX of each user
    coreJstx,          \* jSTX held by core since start-withdraw
    userAssign,        \* user-assign
    stackerTotal,      \* stacker-total
    totalAssigned,     \* total-assigned
    allocated,         \* stacker-allocated
    totalAllocated,    \* total-allocated
    held,              \* STX of each stacker contract
    locked             \* the part of it pox-4 has locked

calendar    == <<phase, pending>>
funds       == <<vault, reserved, supply, jstx, coreJstx>>
delegation  == <<userAssign, stackerTotal, totalAssigned>>
allocation  == <<allocated, totalAllocated>>
stackerStx  == <<held, locked>>
coreVars    == <<calendar, funds, delegation, allocation, stackerStx, nftVars>>

Precision == 10000

Floor0(n) == IF n > 0 THEN n ELSE 0

CoreInit ==
    /\ NftInit
    /\ phase = 0
    /\ pending = [c \in {0, 1} |-> 0]
    /\ vault = 0
    /\ reserved = 0
    /\ supply = 0
    /\ jstx = [u \in Users |-> 0]
    /\ coreJstx = 0
    /\ userAssign = [u \in Users |-> None]
    /\ stackerTotal = [s \in Stackers |-> 0]
    /\ totalAssigned = 0
    /\ allocated = [s \in Stackers |-> 0]
    /\ totalAllocated = 0
    /\ held = [s \in Stackers |-> 0]
    /\ locked = [s \in Stackers |-> 0]

-----------------------------------------------------------------------------
(* The calendar of core.                                                   *)

BeforePrepare == phase < CycleLength - PrepareBuffer

PendingCycle == IF BeforePrepare THEN 0 ELSE 1

\* Blocks to the unlock height of a withdrawal started now.
BlocksToUnlock ==
    (CycleLength - phase) + FinalizeBuffer
        + (IF BeforePrepare THEN 0 ELSE CycleLength)

-----------------------------------------------------------------------------
(* Delegation.                                                             *)

Assigned(u) == IF userAssign[u] = None THEN 0 ELSE userAssign[u].amount

AssignedTo(u, s) ==
    IF userAssign[u] # None /\ userAssign[u].stacker = s THEN Assigned(u) ELSE 0

\* The entry of u becomes `amount` with `choice`; both sums follow.
SetAssign(u, choice, amount) ==
    /\ userAssign' = [userAssign EXCEPT ![u] =
          IF choice = None \/ amount = 0 THEN None
                           ELSE [stacker |-> choice, amount |-> amount]]
    /\ stackerTotal' = [s \in Stackers |->
          stackerTotal[s] - AssignedTo(u, s) + IF choice = s THEN amount ELSE 0]
    /\ totalAssigned' =
          totalAssigned - Assigned(u) + IF choice = None THEN 0 ELSE amount

\* As Assign, keeping the sums of the stacker chosen before.
AssignAdding(u, choice, amount) ==
    /\ userAssign' = [userAssign EXCEPT ![u] =
          IF choice = None THEN None
          ELSE [stacker |-> choice, amount |-> Assigned(u) + amount]]
    /\ stackerTotal' = [s \in Stackers |->
          stackerTotal[s] + IF choice = s THEN amount ELSE 0]
    /\ totalAssigned' = totalAssigned + IF choice = None THEN 0 ELSE amount

\* What was assigned before moves along with a new choice, which must be
\* a registered signer; without one it is cleared.
Assign(u, choice, amount) ==
    /\ choice # None => SignerShare[choice] > 0
    /\ SetAssign(u, choice, Assigned(u) + amount)

Reduce(u, amount) ==
    IF userAssign[u] # None
    THEN SetAssign(u, userAssign[u].stacker, Floor0(Assigned(u) - amount))
    ELSE UNCHANGED delegation

-----------------------------------------------------------------------------
(* Allocation: what a stacker should hold.                                 *)

\* As Stackable, with what is promised to receipts.
StackableOfAll == vault + totalAllocated

Stackable == Floor0(vault + totalAllocated - reserved)

Target(s) ==
    LET unassigned == Floor0(Stackable - totalAssigned)
        share      == IF totalAssigned > 0
                      THEN (stackerTotal[s] * Precision) \div totalAssigned ELSE 0
        adminRate  == Precision - IF totalAssigned = 0 THEN 0 ELSE UserInfluence
        byAdmin    == (unassigned * adminRate) \div Precision
        byUsers    == unassigned - byAdmin
    IN  stackerTotal[s] + (byAdmin * Weight[s]) \div Precision
                        + (byUsers * share) \div Precision

Deficit(s) == Floor0(Target(s) - allocated[s])
Excess(s)  == Floor0(allocated[s] - Target(s))

-----------------------------------------------------------------------------
(* Core.                                                                   *)

\* All STX in the protocol.
StxHeld == vault + SumFunction(held)

\* Bounds: STX, and the assignments (some of which may be stale).
Deposit(u, amount, choice) ==
    /\ StxHeld + amount <= MaxStx
    /\ choice # None => totalAssigned + amount <= MaxStx
    /\ vault' = vault + amount
    /\ supply' = supply + amount
    /\ jstx' = [jstx EXCEPT ![u] = @ + amount]
    /\ Assign(u, choice, amount)
    /\ pending' = [pending EXCEPT ![PendingCycle] = @ + amount]
    /\ UNCHANGED <<phase, reserved, coreJstx, allocation, stackerStx, nftVars>>

\* As WithdrawPending, of any deposit.
WithdrawAnyCycle(u, amount) ==
    /\ jstx[u] >= amount
    /\ vault >= amount
    /\ pending' = [pending EXCEPT ![PendingCycle] = @ - amount]
    /\ supply' = supply - amount
    /\ jstx' = [jstx EXCEPT ![u] = @ - amount]
    /\ Reduce(u, amount)
    /\ vault' = vault - amount
    /\ UNCHANGED <<phase, reserved, coreJstx, allocation, stackerStx, nftVars>>

WithdrawPending(u, amount) ==
    /\ pending[PendingCycle] >= amount
    /\ jstx[u] >= amount
    /\ vault >= amount
    /\ pending' = [pending EXCEPT ![PendingCycle] = @ - amount]
    /\ supply' = supply - amount
    /\ jstx' = [jstx EXCEPT ![u] = @ - amount]
    /\ Reduce(u, amount)
    /\ vault' = vault - amount
    /\ UNCHANGED <<phase, reserved, coreJstx, allocation, stackerStx, nftVars>>

\* As StartWithdraw, leaving the STX free to be stacked.
StartWithdrawUnreserved(u, amount) ==
    /\ jstx[u] >= amount
    /\ Mint(u, amount, BlocksToUnlock)
    /\ jstx' = [jstx EXCEPT ![u] = @ - amount]
    /\ coreJstx' = coreJstx + amount
    /\ Reduce(u, amount)
    /\ UNCHANGED <<calendar, vault, reserved, supply, allocation, stackerStx>>

StartWithdraw(u, amount) ==
    /\ jstx[u] >= amount
    /\ Mint(u, amount, BlocksToUnlock)
    /\ jstx' = [jstx EXCEPT ![u] = @ - amount]
    /\ coreJstx' = coreJstx + amount
    /\ reserved' = reserved + amount
    /\ Reduce(u, amount)
    /\ UNCHANGED <<calendar, vault, supply, allocation, stackerStx>>

\* As FinalizeWithdraw, the jSTX of the receipt left in core.
FinalizeWithoutBurn(id) ==
    /\ owner[id] # None
    /\ wait[id] = 0
    /\ Burn(id)
    /\ reserved >= ustx[id]
    /\ reserved' = reserved - ustx[id]
    /\ vault >= ustx[id]
    /\ vault' = vault - ustx[id]
    /\ UNCHANGED <<calendar, supply, jstx, coreJstx, delegation, allocation,
                   stackerStx>>

\* By the owner of the receipt, who is paid.
FinalizeWithdraw(id) ==
    /\ owner[id] # None
    /\ wait[id] = 0
    /\ Burn(id)
    /\ coreJstx >= ustx[id]
    /\ coreJstx' = coreJstx - ustx[id]
    /\ supply' = supply - ustx[id]
    /\ reserved >= ustx[id]
    /\ reserved' = reserved - ustx[id]
    /\ vault >= ustx[id]
    /\ vault' = vault - ustx[id]
    /\ UNCHANGED <<calendar, jstx, delegation, allocation, stackerStx>>

\* jstx-token: a transfer tells nobody but the yield contract.
TransferJstx(u, v, amount) ==
    /\ u # v
    /\ jstx[u] >= amount
    /\ jstx' = [jstx EXCEPT ![u] = @ - amount, ![v] = @ + amount]
    /\ UNCHANGED <<calendar, vault, reserved, supply, coreJstx, delegation, allocation,
                   stackerStx, nftVars>>

\* delegation.reduce, by the user for oneself.
ReduceOwn(u, amount) ==
    /\ userAssign[u] # None
    /\ Reduce(u, amount)
    /\ UNCHANGED <<calendar, funds, allocation, stackerStx, nftVars>>

\* delegation.update, by a keeper.
Update(u) ==
    /\ Assigned(u) > jstx[u]
    /\ Reduce(u, Assigned(u) - jstx[u])
    /\ UNCHANGED <<calendar, funds, allocation, stackerStx, nftVars>>

-----------------------------------------------------------------------------
(* Stackers.                                                               *)

ExecuteAllocation(s) ==
    /\ Weight[s] > 0
    /\ Deficit(s) > 0
    /\ vault >= Deficit(s)
    /\ vault' = vault - Deficit(s)
    /\ held' = [held EXCEPT ![s] = @ + Deficit(s)]
    /\ allocated' = [allocated EXCEPT ![s] = @ + Deficit(s)]
    /\ totalAllocated' = totalAllocated + Deficit(s)
    /\ UNCHANGED <<calendar, reserved, supply, jstx, coreJstx, delegation, locked,
                   nftVars>>

ReturnExcess(s) ==
    /\ Excess(s) > 0
    /\ held[s] - locked[s] >= Excess(s)
    /\ held' = [held EXCEPT ![s] = @ - Excess(s)]
    /\ vault' = vault + Excess(s)
    /\ allocated' = [allocated EXCEPT ![s] = Target(s)]
    /\ totalAllocated' = totalAllocated - Excess(s)
    /\ UNCHANGED <<calendar, reserved, supply, jstx, coreJstx, delegation, locked,
                   nftVars>>

\* pool: lock-delegated-stx and increase-delegated-stx.
LockStx(s) ==
    /\ held[s] > locked[s]
    /\ locked' = [locked EXCEPT ![s] = held[s]]
    /\ UNCHANGED <<calendar, funds, delegation, allocation, held, nftVars>>

\* pox-4: a lock that was not extended ends with a cycle.
UnlockStx(s) ==
    /\ phase = 0
    /\ locked[s] > 0
    /\ locked' = [locked EXCEPT ![s] = 0]
    /\ UNCHANGED <<calendar, funds, delegation, allocation, held, nftVars>>

\* Anyone: STX sent straight to the vault, which reads its balance, or to a
\* stacker, whose balance is locked.
DonateToVault ==
    /\ StxHeld < MaxStx
    /\ vault' = vault + 1
    /\ UNCHANGED <<calendar, reserved, supply, jstx, coreJstx, delegation, allocation,
                   stackerStx, nftVars>>

DonateToStacker(s) ==
    /\ StxHeld < MaxStx
    /\ held' = [held EXCEPT ![s] = @ + 1]
    /\ UNCHANGED <<calendar, funds, delegation, allocation, locked, nftVars>>

\* A burn block, the first of a cycle after the last of another.
Tick ==
    /\ Mature
    /\ phase' = (phase + 1) % CycleLength
    /\ pending' = IF phase' = 0 THEN [c \in {0, 1} |-> IF c = 0 THEN pending[1] ELSE 0]
                  ELSE pending
    /\ UNCHANGED <<funds, delegation, allocation, stackerStx>>

-----------------------------------------------------------------------------
ReceiptStep ==
    /\ \E id \in Outstanding :
          \/ \E u \in Users : TransferReceipt(id, u) \/ BuyInUstx(id, u)
          \/ ListInUstx(id)
          \/ UnlistInUstx(id)
    /\ UNCHANGED <<calendar, funds, delegation, allocation, stackerStx>>

UserStep ==
    \E u \in Users, amount \in 1..MaxStx :
       \/ \E choice \in Stackers \cup {None} : Deposit(u, amount, choice)
       \/ WithdrawPending(u, amount)
       \/ StartWithdraw(u, amount)
       \/ ReduceOwn(u, amount)
       \/ \E v \in Users : TransferJstx(u, v, amount)

KeeperStep ==
    \/ \E u \in Users : Update(u)
    \/ \E s \in Stackers : ExecuteAllocation(s) \/ ReturnExcess(s)

Donation == DonateToVault \/ \E s \in Stackers : DonateToStacker(s)

CoreNext ==
    \/ ReceiptStep
    \/ UserStep
    \/ KeeperStep
    \/ \E id \in Ids : FinalizeWithdraw(id)
    \/ \E s \in Stackers : LockStx(s) \/ UnlockStx(s)
    \/ Donation
    \/ Tick

CoreSpec == CoreInit /\ [][CoreNext]_coreVars

\* The keeper corrects assignments and brings excess back in the windows when
\* it is unlocked, signers do not extend a lock for ever, and the owner of a
\* receipt asks again while the vault is short.
CoreFairness ==
    /\ WF_coreVars(Tick)
    /\ \A u \in Users : SF_coreVars(Update(u))
    /\ \A s \in Stackers : SF_coreVars(UnlockStx(s)) /\ SF_coreVars(ReturnExcess(s))
    /\ \A id \in Ids : SF_coreVars(FinalizeWithdraw(id))

FairCoreSpec == CoreSpec /\ CoreFairness

-----------------------------------------------------------------------------
(* Properties.                                                             *)

CoreTypeOK ==
    /\ phase \in 0..CycleLength - 1
    /\ pending \in [{0, 1} -> Nat]
    /\ vault \in Nat
    /\ reserved \in Nat
    /\ supply \in Nat
    /\ jstx \in [Users -> Nat]
    /\ coreJstx \in Nat
    /\ userAssign \in [Users -> [stacker : Stackers, amount : Nat \ {0}] \cup {None}]
    /\ stackerTotal \in [Stackers -> Nat]
    /\ totalAssigned \in Nat
    /\ allocated \in [Stackers -> Nat]
    /\ totalAllocated \in Nat
    /\ held \in [Stackers -> Nat]
    /\ locked \in [Stackers -> Nat]
    /\ \A s \in Stackers : locked[s] <= held[s]

\* Every jSTX in existence, those of pending withdrawals included, is backed by
\* one STX in the vault or at a stacker, and what a stacker was sent it still
\* holds, whatever is deposited, withdrawn, allocated, returned and donated,
\* although donations move the targets ("The 1:1 ratio is fixed", core.clar).
FullyBacked ==
    /\ vault + totalAllocated >= supply
    /\ \A s \in Stackers : allocated[s] <= held[s]

\* The earmark of the vault and the jSTX in core are the outstanding receipts,
\* so neither the unreserve nor the burn of a redemption can fail.
ReceiptsReserved ==
    /\ reserved = SumFunctionOnSet(ustx, Outstanding)
    /\ coreJstx = reserved

AssignmentsTo(s) == [u \in Users |-> AssignedTo(u, s)]

\* stacker-total, total-assigned and total-allocated are the sums of what they
\* count, through changes of mind, partial withdrawals and corrections, and the
\* supply is what users and core hold: none of their subtractions underflows.
BooksAddUp ==
    /\ \A s \in Stackers : stackerTotal[s] = SumFunction(AssignmentsTo(s))
    /\ totalAssigned = SumFunction(stackerTotal)
    /\ totalAllocated = SumFunction(allocated)
    /\ supply = SumFunction(jstx) + coreJstx

\* Every receipt is redeemed in the end, although its STX may be locked, sent
\* to another stacker, held by a stale assignment or taken by an instant
\* withdrawal meanwhile.
EveryReceiptIsPaid ==
    \A id \in Ids : owner[id] # None ~> owner[id] = None
=============================================================================
