--------------------------- MODULE JstxCoreProofs ---------------------------
(***************************************************************************)
(* Proofs about the STX side of the liquid-staking protocol, for any       *)
(* users, stackers, weights, amounts and calendar.  The first two parts    *)
(* take counters to be integers only; that none is negative follows in the *)
(* last, where each is shown to be the sum of what it counts.              *)
(***************************************************************************)
EXTENDS JstxCore, SumTheorems

-----------------------------------------------------------------------------
(* Receipts.                                                               *)

NftTypes ==
    /\ lastId \in 0..MaxReceipts
    /\ owner \in [Ids -> Users \cup {None}]
    /\ ustx \in [Ids -> Nat]
    /\ wait \in [Ids -> Nat]
    /\ count \in [Users -> Int]
    /\ listedBy \in [Ids -> Users \cup {None}]
    /\ \A id \in Ids : id > lastId => owner[id] = None

NftInv == NftTypes /\ ListedByOwner /\ CountsOwned

\* What any step may do to the terms of a receipt.
TermsKept ==
    \A id \in Ids : owner[id] # None /\ owner'[id] # None =>
        ustx'[id] = ustx[id] /\ wait'[id] <= wait[id]

\* A step of the receipts: a mint, a burn, a trade, the passing of a block or
\* none of them.
NftStep ==
    \/ \E u \in Users, amount \in Nat, blocks \in Nat : Mint(u, amount, blocks)
    \/ \E id \in Ids : Burn(id)
    \/ \E id \in Ids, u \in Users : TransferReceipt(id, u) \/ BuyInUstx(id, u)
    \/ \E id \in Ids : ListInUstx(id) \/ UnlistInUstx(id)
    \/ Mature
    \/ UNCHANGED nftVars

Having(f, v) == {i \in Ids : f[i] = v}

SameBut(f, g, id) == \A i \in Ids : i # id => g[i] = f[i]

\* When the owner of one id is replaced, how many ids a user owns changes by
\* one for the old and the new owner, and for nobody else.
LEMMA ReassignCounts ==
    ASSUME NEW f, NEW g, NEW id \in Ids, NEW v, SameBut(f, g, id)
    PROVE  /\ Cardinality(Having(f, v)) \in Nat
           /\ v = g[id] /\ v # f[id] =>
                 Cardinality(Having(g, v)) = Cardinality(Having(f, v)) + 1
           /\ v = f[id] /\ v # g[id] =>
                 Cardinality(Having(g, v)) = Cardinality(Having(f, v)) - 1
           /\ v # f[id] /\ v # g[id] =>
                 Cardinality(Having(g, v)) = Cardinality(Having(f, v))
<1>1. IsFiniteSet(Ids)
  BY ReceiptsAssumption, FS_Interval DEF Ids
<1>2. IsFiniteSet(Having(f, v))
  BY <1>1, FS_Subset DEF Having
<1>3. Cardinality(Having(f, v)) \in Nat
  BY <1>2, FS_CardinalityType
<1>4. ASSUME v = g[id] /\ v # f[id]
      PROVE  Cardinality(Having(g, v)) = Cardinality(Having(f, v)) + 1
  <2>1. Having(g, v) = Having(f, v) \cup {id} /\ id \notin Having(f, v)
    BY <1>4 DEF Having, SameBut
  <2>2. Cardinality(Having(f, v) \cup {id}) = Cardinality(Having(f, v)) + 1
    BY <2>1, <1>2, FS_AddElement, Zenon
  <2> QED BY <2>1, <2>2
<1>5. ASSUME v = f[id] /\ v # g[id]
      PROVE  Cardinality(Having(g, v)) = Cardinality(Having(f, v)) - 1
  <2>1. Having(g, v) = Having(f, v) \ {id} /\ id \in Having(f, v)
    BY <1>5 DEF Having, SameBut
  <2>2. Cardinality(Having(f, v) \ {id}) = Cardinality(Having(f, v)) - 1
    BY <2>1, <1>2, FS_RemoveElement, Zenon
  <2> QED BY <2>1, <2>2
<1>6. ASSUME v # f[id] /\ v # g[id]
      PROVE  Cardinality(Having(g, v)) = Cardinality(Having(f, v))
  <2>1. Having(g, v) = Having(f, v)
    BY <1>6 DEF Having, SameBut
  <2> QED BY <2>1
<1> QED BY <1>3, <1>4, <1>5, <1>6

LEMMA MintKeepsBooks ==
    ASSUME NftInv, NEW u \in Users, NEW amount \in Nat, NEW blocks \in Nat,
           Mint(u, amount, blocks)
    PROVE  NftInv' /\ TermsKept
<1> DEFINE id == lastId + 1
<1>1. id \in Ids /\ owner[id] = None
  BY ReceiptsAssumption DEF Mint, Ids, NftInv, NftTypes
<1>2. listedBy[id] = None
  BY <1>1 DEF NftInv, ListedByOwner
<1>3. NftTypes'
  BY <1>1 DEF Mint, NftInv, NftTypes, Ids
<1>4. ListedByOwner'
  BY <1>1, <1>2 DEF Mint, NftInv, NftTypes, ListedByOwner
<1>5. CountsOwned'
  <2> SUFFICES ASSUME NEW v \in Users
               PROVE  count'[v] = Cardinality(Having(owner', v))
    BY DEF CountsOwned, Owned, Having
  <2>1. count[v] = Cardinality(Having(owner, v))
    BY DEF NftInv, CountsOwned, Owned, Having
  <2>2. Cardinality(Having(owner', v))
          = Cardinality(Having(owner, v)) + (IF v = u THEN 1 ELSE 0)
    <3>1. owner \in [Ids -> Users \cup {None}] /\ owner[id] # u /\ owner[id] # v
      BY <1>1, UsersAssumption DEF NftInv, NftTypes
    <3>2. owner'[id] = u /\ SameBut(owner, owner', id)
      BY <1>1, <3>1 DEF Mint, SameBut
    <3> HIDE DEF id
    <3>3. Cardinality(Having(owner', v)) = Cardinality(Having(owner, v))
              + (IF v = owner'[id] THEN 1 ELSE IF v = owner[id] THEN -1 ELSE 0)
      BY <1>1, <3>1, <3>2, ReassignCounts
    <3> QED BY <3>1, <3>2, <3>3
  <2>3. count'[v] = count[v] + (IF v = u THEN 1 ELSE 0)
    BY DEF Mint, NftInv, NftTypes
  <2> QED BY <2>1, <2>2, <2>3
<1>6. TermsKept
  BY <1>1 DEF Mint, TermsKept, NftInv, NftTypes
<1> QED BY <1>3, <1>4, <1>5, <1>6 DEF NftInv

LEMMA BurnKeepsBooks ==
    ASSUME NftInv, NEW id \in Ids, Burn(id)
    PROVE  NftInv' /\ TermsKept
<1>1. owner[id] \in Users
  BY DEF Burn, NftInv, NftTypes
<1>2. NftTypes'
  BY <1>1 DEF Burn, NftInv, NftTypes
<1>3. ListedByOwner'
  BY DEF Burn, NftInv, NftTypes, ListedByOwner
<1>4. CountsOwned'
  <2> SUFFICES ASSUME NEW v \in Users
               PROVE  count'[v] = Cardinality(Having(owner', v))
    BY DEF CountsOwned, Owned, Having
  <2>1. count[v] = Cardinality(Having(owner, v))
    BY DEF NftInv, CountsOwned, Owned, Having
  <2>2. owner \in [Ids -> Users \cup {None}] /\ owner[id] # None /\ v # None
    BY <1>1, UsersAssumption DEF NftInv, NftTypes
  <2>3. owner'[id] = None /\ SameBut(owner, owner', id)
    BY <2>2 DEF Burn, SameBut
  <2>4. Cardinality(Having(owner', v)) = Cardinality(Having(owner, v))
              + (IF v = None THEN 1 ELSE IF v = owner[id] THEN -1 ELSE 0)
    BY <2>2, <2>3, ReassignCounts
  <2>5. count'[v] = count[v] + (IF v = owner[id] THEN -1 ELSE 0)
    BY <1>1 DEF Burn, NftInv, NftTypes
  <2> QED BY <2>1, <2>2, <2>3, <2>4, <2>5
<1>5. TermsKept
  BY DEF Burn, TermsKept, NftInv, NftTypes
<1> QED BY <1>2, <1>3, <1>4, <1>5 DEF NftInv

\* Handing a receipt over keeps the counts.
LEMMA HandOverKeepsCounts ==
    ASSUME NftInv, NEW id \in Ids, NEW u \in Users, HandOver(id, u)
    PROVE  /\ owner' \in [Ids -> Users \cup {None}]
           /\ count' \in [Users -> Int]
           /\ CountsOwned'
<1>1. owner[id] \in Users /\ owner[id] # u
  BY DEF HandOver, NftInv, NftTypes
<1>2. owner' = [owner EXCEPT ![id] = u]
      /\ count' = [count EXCEPT ![owner[id]] = @ - 1, ![u] = @ + 1]
  BY DEF HandOver
<1>3. owner \in [Ids -> Users \cup {None}] /\ count \in [Users -> Int]
  BY DEF NftInv, NftTypes
<1>4. CountsOwned'
  <2> SUFFICES ASSUME NEW v \in Users
               PROVE  count'[v] = Cardinality(Having(owner', v))
    BY DEF CountsOwned, Owned, Having
  <2>1. count[v] = Cardinality(Having(owner, v))
    BY DEF NftInv, CountsOwned, Owned, Having
  <2>2. Cardinality(Having(owner', v)) = Cardinality(Having(owner, v))
              + (IF v = u THEN 1 ELSE IF v = owner[id] THEN -1 ELSE 0)
    <3>1. owner'[id] = u /\ SameBut(owner, owner', id)
      BY <1>2, <1>3 DEF SameBut
    <3>2. Cardinality(Having(owner', v)) = Cardinality(Having(owner, v))
              + (IF v = owner'[id] THEN 1 ELSE IF v = owner[id] THEN -1 ELSE 0)
      BY <1>1, <3>1, ReassignCounts
    <3> QED BY <3>1, <3>2
  <2>3. count'[v] = count[v]
              + (IF v = u THEN 1 ELSE IF v = owner[id] THEN -1 ELSE 0)
    BY <1>1, <1>2, <1>3
  <2> QED BY <1>2, <2>1, <2>2, <2>3
<1> QED BY <1>1, <1>2, <1>3, <1>4

\* Every step of the receipts keeps their books and the terms of each.
LEMMA NftStepKeepsBooks ==
    ASSUME NftInv, NftStep
    PROVE  NftInv' /\ TermsKept
<1>1. CASE \E u \in Users, amount \in Nat, blocks \in Nat : Mint(u, amount, blocks)
  BY <1>1, MintKeepsBooks
<1>2. CASE \E id \in Ids : Burn(id)
  BY <1>2, BurnKeepsBooks
<1>3. ASSUME NEW id \in Ids, NEW u \in Users,
             TransferReceipt(id, u) \/ BuyInUstx(id, u)
      PROVE  NftInv' /\ TermsKept
  <2>1. HandOver(id, u)
    BY <1>3 DEF TransferReceipt, BuyInUstx
  <2>2. /\ owner' \in [Ids -> Users \cup {None}]
        /\ count' \in [Users -> Int]
        /\ CountsOwned'
    BY <2>1, HandOverKeepsCounts
  <2>3. \A i \in Ids : i # id => owner'[i] = owner[i]
    BY <2>1 DEF HandOver, NftInv, NftTypes
  <2>4. id <= lastId
    BY <2>1 DEF HandOver, NftInv, NftTypes, Ids
  <2>5. listedBy'[id] = None /\ \A i \in Ids : i # id => listedBy'[i] = listedBy[i]
    BY <1>3 DEF TransferReceipt, BuyInUstx, NftInv, NftTypes
  <2>6. UNCHANGED <<lastId, ustx, wait>>
        /\ listedBy' \in [Ids -> Users \cup {None}]
    BY <1>3 DEF TransferReceipt, BuyInUstx, NftInv, NftTypes
  <2>7. NftTypes'
    BY <2>2, <2>3, <2>4, <2>6 DEF NftInv, NftTypes, Ids
  <2>8. ListedByOwner'
    BY <2>3, <2>5 DEF NftInv, ListedByOwner
  <2> QED BY <2>2, <2>6, <2>7, <2>8 DEF NftInv, NftTypes, TermsKept
<1>4. ASSUME NEW id \in Ids, ListInUstx(id) \/ UnlistInUstx(id)
      PROVE  NftInv' /\ TermsKept
  <2>1. UNCHANGED <<lastId, owner, ustx, wait, count>>
    BY <1>4 DEF ListInUstx, UnlistInUstx
  <2>2. NftTypes'
    BY <1>4 DEF ListInUstx, UnlistInUstx, NftInv, NftTypes
  <2>3. ListedByOwner'
    BY <1>4 DEF ListInUstx, UnlistInUstx, NftInv, NftTypes, ListedByOwner
  <2>4. CountsOwned'
    BY <2>1 DEF NftInv, CountsOwned, Owned
  <2> QED BY <2>1, <2>2, <2>3, <2>4 DEF NftInv, NftTypes, TermsKept
<1>5. CASE Mature
  <2>1. NftTypes'
    BY <1>5 DEF Mature, NftInv, NftTypes
  <2>2. ListedByOwner' /\ CountsOwned'
    BY <1>5 DEF Mature, NftInv, ListedByOwner, CountsOwned, Owned
  <2>3. TermsKept
    BY <1>5 DEF Mature, NftInv, NftTypes, TermsKept
  <2> QED BY <2>1, <2>2, <2>3 DEF NftInv
<1>6. CASE UNCHANGED nftVars
  BY <1>6 DEF nftVars, NftInv, NftTypes, ListedByOwner, CountsOwned, Owned,
              TermsKept
<1> QED BY <1>1, <1>2, <1>3, <1>4, <1>5, <1>6 DEF NftStep

PhaseOK == phase \in 0..CycleLength - 1

\* The delay of a receipt is a number of blocks.
LEMMA UnlockIsLater == PhaseOK => BlocksToUnlock \in Nat
<1>1. /\ CycleLength \in Nat /\ PrepareBuffer \in Nat /\ FinalizeBuffer \in Nat
      /\ PrepareBuffer <= CycleLength
  BY TimeAssumption
<1>2. PhaseOK => phase \in Nat /\ phase < CycleLength
  BY <1>1 DEF PhaseOK
<1> QED BY <1>1, <1>2 DEF BlocksToUnlock, BeforePrepare

\* Every step of the protocol is at most one step of the receipts.
LEMMA NextIsNftStep ==
    ASSUME PhaseOK, [CoreNext]_coreVars
    PROVE  NftStep /\ PhaseOK'
<1> USE DEF NftStep
<1>1. CASE ReceiptStep
  BY <1>1 DEF ReceiptStep, Outstanding, calendar, PhaseOK
<1>2. CASE UserStep
  <2>1. ASSUME NEW u \in Users, NEW amount \in 1..MaxStx, StartWithdraw(u, amount)
        PROVE  NftStep /\ PhaseOK'
    <3>1. Mint(u, amount, BlocksToUnlock) /\ amount \in Nat
      BY <2>1 DEF StartWithdraw
    <3>2. PhaseOK'
      BY <2>1 DEF StartWithdraw, calendar, PhaseOK
    <3> QED BY <3>1, <3>2, UnlockIsLater
  <2>2. ASSUME NEW u \in Users, NEW amount \in 1..MaxStx,
               \/ \E choice \in Stackers \cup {None} : Deposit(u, amount, choice)
               \/ WithdrawPending(u, amount)
               \/ ReduceOwn(u, amount)
               \/ \E v \in Users : TransferJstx(u, v, amount)
        PROVE  UNCHANGED <<nftVars, phase>>
    BY <2>2 DEF Deposit, WithdrawPending, ReduceOwn, TransferJstx, calendar
  <2> QED BY <1>2, <2>1, <2>2 DEF UserStep, PhaseOK
<1>3. CASE KeeperStep
  BY <1>3 DEF KeeperStep, Update, ExecuteAllocation, ReturnExcess, calendar,
              PhaseOK
<1>4. CASE \E id \in Ids : FinalizeWithdraw(id)
  BY <1>4 DEF FinalizeWithdraw, calendar, PhaseOK
<1>5. CASE \E s \in Stackers : LockStx(s) \/ UnlockStx(s)
  BY <1>5 DEF LockStx, UnlockStx, calendar, PhaseOK
<1>8. CASE Donation
  BY <1>8 DEF Donation, DonateToVault, DonateToStacker, calendar, PhaseOK
<1>6. CASE Tick
  <2>1. Mature /\ phase' = (phase + 1) % CycleLength
    BY <1>6 DEF Tick
  <2>2. (phase + 1) % CycleLength \in 0..CycleLength - 1
    BY TimeAssumption DEF PhaseOK
  <2>3. PhaseOK'
    BY <2>1, <2>2 DEF PhaseOK
  <2> QED BY <2>1, <2>3
<1>7. CASE UNCHANGED coreVars
  BY <1>7 DEF coreVars, calendar, PhaseOK
<1> QED BY <1>1, <1>2, <1>3, <1>4, <1>5, <1>6, <1>7, <1>8 DEF CoreNext

LEMMA InitHasNoReceipts == CoreInit => NftInv /\ PhaseOK
<1> SUFFICES ASSUME CoreInit PROVE NftInv /\ PhaseOK
  OBVIOUS
<1>1. NftTypes /\ ListedByOwner /\ PhaseOK
  <2>1. NftInit /\ phase = 0
    BY DEF CoreInit
  <2>2. lastId = 0 /\ lastId \in 0..MaxReceipts
    BY <2>1, ReceiptsAssumption DEF NftInit
  <2>3. /\ owner \in [Ids -> Users \cup {None}]
        /\ listedBy \in [Ids -> Users \cup {None}]
        /\ ustx \in [Ids -> Nat] /\ wait \in [Ids -> Nat]
        /\ count \in [Users -> Int]
    BY <2>1 DEF NftInit
  <2>4. \A id \in Ids : owner[id] = None /\ listedBy[id] = None
    BY <2>1 DEF NftInit
  <2>5. PhaseOK
    BY <2>1, TimeAssumption DEF PhaseOK
  <2> QED BY <2>2, <2>3, <2>4, <2>5 DEF NftTypes, ListedByOwner
<1>2. CountsOwned
  <2>1. \A u \in Users : Owned(u) = {}
    BY UsersAssumption DEF CoreInit, NftInit, Owned
  <2> QED BY <2>1, FS_EmptySet DEF CoreInit, NftInit, CountsOwned
<1> QED BY <1>1, <1>2 DEF NftInv

\* However receipts are minted, listed, sold, sent and redeemed, a listing is
\* by the owner and token-count is how many each user owns: redeem-stx-nft.clar
\* keeps both in four functions.
THEOREM ReceiptBooks == CoreSpec => []ReceiptBooksAgree
<1>1. CoreInit => NftInv /\ PhaseOK
  BY InitHasNoReceipts
<1>2. NftInv /\ PhaseOK /\ [CoreNext]_coreVars => NftInv' /\ PhaseOK'
  BY NextIsNftStep, NftStepKeepsBooks
<1>3. NftInv => ReceiptBooksAgree
  BY DEF NftInv, ReceiptBooksAgree
<1> QED BY <1>1, <1>2, <1>3, PTL DEF CoreSpec

\* What a receipt pays never changes and its delay never grows, whoever buys
\* it and whatever the protocol does meanwhile.
THEOREM TermsStand == CoreSpec => [][TermsKept]_coreVars
<1>1. CoreInit => NftInv /\ PhaseOK
  BY InitHasNoReceipts
<1>2. NftInv /\ PhaseOK /\ [CoreNext]_coreVars => NftInv' /\ PhaseOK' /\ TermsKept
  BY NextIsNftStep, NftStepKeepsBooks
<1> QED BY <1>1, <1>2, PTL DEF CoreSpec

-----------------------------------------------------------------------------
(* The funds.                                                              *)

Assignments == [stacker : Stackers, amount : Nat] \cup {None}

DelegationTypes ==
    /\ userAssign \in [Users -> Assignments]
    /\ stackerTotal \in [Stackers -> Int]
    /\ totalAssigned \in Int

FundTypes ==
    /\ vault \in Int /\ reserved \in Int /\ supply \in Int /\ coreJstx \in Int
    /\ jstx \in [Users -> Int]
    /\ totalAllocated \in Int
    /\ allocated \in [Stackers -> Int]
    /\ held \in [Stackers -> Int]

FundsInv == DelegationTypes /\ FundTypes /\ FullyBacked /\ coreJstx = reserved

LEMMA Floor0Type == \A n \in Int : Floor0(n) \in Nat
BY DEF Floor0

LEMMA AssignedType ==
    ASSUME DelegationTypes
    PROVE  \A u \in Users : /\ Assigned(u) \in Nat
                            /\ \A s \in Stackers : AssignedTo(u, s) \in Nat
BY DEF Assigned, AssignedTo, DelegationTypes, Assignments

LEMMA SetAssignTypes ==
    ASSUME DelegationTypes, NEW u \in Users, NEW choice \in Stackers \cup {None},
           NEW amount \in Nat, SetAssign(u, choice, amount)
    PROVE  DelegationTypes'
<1>1. userAssign' \in [Users -> Assignments]
  BY DEF SetAssign, DelegationTypes, Assignments
<1>2. stackerTotal' \in [Stackers -> Int]
  BY AssignedType DEF SetAssign, DelegationTypes
<1>3. totalAssigned' \in Int
  BY AssignedType DEF SetAssign, DelegationTypes
<1> QED BY <1>1, <1>2, <1>3 DEF DelegationTypes

LEMMA ReduceTypes ==
    ASSUME DelegationTypes, NEW u \in Users, NEW amount \in Int, Reduce(u, amount)
    PROVE  DelegationTypes'
<1>1. CASE userAssign[u] # None
  <2>1. userAssign[u].stacker \in Stackers
    BY <1>1 DEF DelegationTypes, Assignments
  <2>2. Floor0(Assigned(u) - amount) \in Nat
    BY AssignedType, Floor0Type
  <2>3. SetAssign(u, userAssign[u].stacker, Floor0(Assigned(u) - amount))
    BY <1>1 DEF Reduce
  <2> QED BY <2>1, <2>2, <2>3, SetAssignTypes
<1>2. CASE userAssign[u] = None
  BY <1>2 DEF Reduce, delegation, DelegationTypes
<1> QED BY <1>1, <1>2

LEMMA TargetType ==
    ASSUME DelegationTypes, FundTypes, NEW s \in Stackers
    PROVE  Target(s) \in Int
<1> DEFINE unassigned == Floor0(Stackable - totalAssigned)
           share == IF totalAssigned > 0
                    THEN (stackerTotal[s] * Precision) \div totalAssigned ELSE 0
           adminRate == Precision - IF totalAssigned = 0 THEN 0 ELSE UserInfluence
           byAdmin == (unassigned * adminRate) \div Precision
           byUsers == unassigned - byAdmin
<1>1. unassigned \in Int
  BY Floor0Type DEF FundTypes, DelegationTypes, Stackable
<1>2. stackerTotal[s] \in Int /\ totalAssigned \in Int
  BY DEF DelegationTypes
<1>3. share \in Int
  BY <1>2 DEF Precision
<1>4. adminRate \in Int
  BY TimeAssumption DEF Precision
<1>5. Weight[s] \in Int
  BY StackersAssumption
<1>6. Target(s) = stackerTotal[s] + (byAdmin * Weight[s]) \div Precision
                        + (byUsers * share) \div Precision
  BY DEF Target
<1> HIDE DEF unassigned, share, adminRate
<1>7. byAdmin \in Int /\ byUsers \in Int
  BY <1>1, <1>4 DEF Precision
<1> HIDE DEF byAdmin, byUsers
<1> QED BY <1>2, <1>3, <1>5, <1>6, <1>7 DEF Precision

LEMMA UserStepKeepsFunds ==
    ASSUME FundsInv, UserStep
    PROVE  FundsInv'
<1>1. PICK u \in Users, amount \in 1..MaxStx :
         \/ \E choice \in Stackers \cup {None} : Deposit(u, amount, choice)
         \/ WithdrawPending(u, amount)
         \/ StartWithdraw(u, amount)
         \/ ReduceOwn(u, amount)
         \/ \E v \in Users : TransferJstx(u, v, amount)
  BY DEF UserStep
<1>2. amount \in Nat
  OBVIOUS
<1> USE DEF FundsInv, FundTypes, FullyBacked
<1>3. CASE \E choice \in Stackers \cup {None} : Deposit(u, amount, choice)
  <2>1. PICK choice \in Stackers \cup {None} : Deposit(u, amount, choice)
    BY <1>3
  <2>2. SetAssign(u, choice, Assigned(u) + amount) /\ Assigned(u) + amount \in Nat
    BY <2>1, <1>2, AssignedType DEF Deposit, Assign
  <2>3. DelegationTypes'
    BY <2>2, SetAssignTypes
  <2> QED BY <2>1, <2>3, <1>2 DEF Deposit, allocation, stackerStx
<1>4. CASE WithdrawPending(u, amount)
  <2>1. DelegationTypes'
    BY <1>4, <1>2, ReduceTypes DEF WithdrawPending
  <2> QED BY <1>4, <2>1, <1>2 DEF WithdrawPending, allocation, stackerStx
<1>5. CASE StartWithdraw(u, amount)
  <2>1. DelegationTypes'
    BY <1>5, <1>2, ReduceTypes DEF StartWithdraw
  <2> QED BY <1>5, <2>1, <1>2 DEF StartWithdraw, allocation, stackerStx
<1>6. CASE ReduceOwn(u, amount)
  <2>1. DelegationTypes'
    BY <1>6, <1>2, ReduceTypes DEF ReduceOwn
  <2> QED BY <1>6, <2>1 DEF ReduceOwn, funds, allocation, stackerStx
<1>7. CASE \E v \in Users : TransferJstx(u, v, amount)
  <2>1. DelegationTypes'
    BY <1>7 DEF TransferJstx, delegation, DelegationTypes
  <2> QED BY <1>7, <2>1, <1>2 DEF TransferJstx, allocation, stackerStx
<1> QED BY <1>1, <1>3, <1>4, <1>5, <1>6, <1>7

LEMMA KeeperStepKeepsFunds ==
    ASSUME FundsInv, KeeperStep
    PROVE  FundsInv'
<1> USE DEF FundsInv, FundTypes, FullyBacked
<1>1. ASSUME NEW u \in Users, Update(u)
      PROVE  FundsInv'
  <2>1. Assigned(u) - jstx[u] \in Int
    BY AssignedType
  <2>2. DelegationTypes'
    BY <1>1, <2>1, ReduceTypes DEF Update
  <2> QED BY <1>1, <2>2 DEF Update, funds, allocation, stackerStx
<1>2. ASSUME NEW s \in Stackers, ExecuteAllocation(s)
      PROVE  FundsInv'
  <2>1. Deficit(s) \in Int
    BY TargetType, Floor0Type DEF Deficit
  <2>2. DelegationTypes'
    BY <1>2 DEF ExecuteAllocation, delegation, DelegationTypes
  <2> QED BY <1>2, <2>1, <2>2 DEF ExecuteAllocation
<1>3. ASSUME NEW s \in Stackers, ReturnExcess(s)
      PROVE  FundsInv'
  <2>1. Target(s) \in Int
    BY TargetType
  <2>2. Excess(s) = allocated[s] - Target(s)
    BY <1>3, <2>1 DEF ReturnExcess, Excess, Floor0
  <2>3. DelegationTypes'
    BY <1>3 DEF ReturnExcess, delegation, DelegationTypes
  <2>4. Excess(s) \in Int /\ Target(s) <= held[s] - Excess(s)
    BY <2>1, <2>2
  <2>5. /\ \A t \in Stackers : allocated'[t] <= held'[t]
        /\ allocated' \in [Stackers -> Int] /\ held' \in [Stackers -> Int]
    BY <1>3, <2>1, <2>4 DEF ReturnExcess
  <2>6. vault' + totalAllocated' >= supply' /\ vault' \in Int /\ totalAllocated' \in Int
    BY <1>3, <2>4 DEF ReturnExcess
  <2> QED BY <1>3, <2>3, <2>5, <2>6 DEF ReturnExcess
<1> QED BY <1>1, <1>2, <1>3 DEF KeeperStep

LEMMA NextKeepsFunds ==
    ASSUME FundsInv, NftInv, [CoreNext]_coreVars
    PROVE  FundsInv'
<1> DEFINE Same == UNCHANGED <<funds, delegation, allocation, held>>
<1>1. ASSUME Same PROVE FundsInv'
  BY <1>1 DEF funds, delegation, allocation, FundsInv, FundTypes, DelegationTypes,
              FullyBacked
<1>2. CASE ReceiptStep
  BY <1>2, <1>1 DEF ReceiptStep, stackerStx
<1>3. CASE UserStep
  BY <1>3, UserStepKeepsFunds
<1>4. CASE KeeperStep
  BY <1>4, KeeperStepKeepsFunds
<1>5. ASSUME NEW id \in Ids, FinalizeWithdraw(id)
      PROVE  FundsInv'
  <2>1. ustx[id] \in Int
    BY DEF NftInv, NftTypes
  <2>2. DelegationTypes'
    BY <1>5 DEF FinalizeWithdraw, delegation, FundsInv, DelegationTypes
  <2> QED BY <1>5, <2>1, <2>2
          DEF FinalizeWithdraw, allocation, stackerStx, FundsInv, FundTypes,
              FullyBacked
<1>6. CASE \E s \in Stackers : LockStx(s) \/ UnlockStx(s)
  BY <1>6, <1>1 DEF LockStx, UnlockStx
<1>7. CASE Donation
  <2>1. DelegationTypes'
    BY <1>7 DEF Donation, DonateToVault, DonateToStacker, funds, delegation,
                FundsInv, DelegationTypes
  <2> QED BY <1>7, <2>1
          DEF Donation, DonateToVault, DonateToStacker, funds, allocation,
              stackerStx, FundsInv, FundTypes, FullyBacked
<1>8. CASE Tick
  BY <1>8, <1>1 DEF Tick, stackerStx
<1>9. CASE UNCHANGED coreVars
  BY <1>9, <1>1 DEF coreVars, stackerStx
<1> QED BY <1>2, <1>3, <1>4, <1>5, <1>6, <1>7, <1>8, <1>9 DEF CoreNext

\* Every jSTX is backed by one STX in the vault or counted as allocated, and
\* a stacker holds no less than what is counted for it, for any users, stackers,
\* weights, amounts, donations and times: core.clar's "The 1:1 ratio is fixed".
THEOREM Backed == CoreSpec => []FullyBacked
<1>1. CoreInit => FundsInv /\ NftInv /\ PhaseOK
  <2>1. CoreInit => FundsInv
    BY DEF CoreInit, FundsInv, FundTypes, DelegationTypes, FullyBacked, Assignments
  <2> QED BY <2>1, InitHasNoReceipts
<1>2. FundsInv /\ NftInv /\ PhaseOK /\ [CoreNext]_coreVars
        => FundsInv' /\ NftInv' /\ PhaseOK'
  BY NextKeepsFunds, NextIsNftStep, NftStepKeepsBooks
<1>3. FundsInv => FullyBacked
  BY DEF FundsInv
<1> QED BY <1>1, <1>2, <1>3, PTL DEF CoreSpec

-----------------------------------------------------------------------------
(* The sums.                                                               *)

\* What the counters of delegation.clar stand for.
DelegationBooks ==
    /\ \A s \in Stackers : stackerTotal[s] = SumFunction(AssignmentsTo(s))
    /\ totalAssigned = SumFunction(stackerTotal)

\* What a user assigned goes to one stacker.
LEMMA AssignedToOne ==
    ASSUME DelegationTypes, NEW u \in Users
    PROVE  SumFunctionOnSet([s \in Stackers |-> AssignedTo(u, s)], Stackers)
             = Assigned(u)
<1> DEFINE f == [s \in Stackers |-> AssignedTo(u, s)]
<1>1. \A s \in Stackers : f[s] \in Int
  BY AssignedType
<1>2. CASE userAssign[u] = None
  <2>1. \A s \in Stackers : f[s] = 0
    BY <1>2 DEF AssignedTo
  <2>2. Assigned(u) = 0
    BY <1>2 DEF Assigned
  <2> HIDE DEF f
  <2> QED BY <2>1, <2>2, SumZero, StackersAssumption DEF f
<1>3. CASE userAssign[u] # None
  <2> DEFINE c == userAssign[u].stacker
  <2>1. c \in Stackers
    BY <1>3 DEF DelegationTypes, Assignments
  <2>2. f[c] = Assigned(u) /\ \A s \in Stackers \ {c} : f[s] = 0
    BY <1>3, <2>1 DEF AssignedTo
  <2> HIDE DEF f, c
  <2>3. SumFunctionOnSet(f, Stackers) = f[c]
    BY <1>1, <2>1, <2>2, SumOfOne, StackersAssumption
  <2> QED BY <2>2, <2>3 DEF f
<1> QED BY <1>2, <1>3

\* What an assignment is after SetAssign.
LEMMA SetAssignEntry ==
    ASSUME DelegationTypes, NEW u \in Users, NEW choice \in Stackers \cup {None},
           NEW amount \in Nat, SetAssign(u, choice, amount), NEW s \in Stackers
    PROVE  /\ AssignedTo(u, s)' = IF choice = s THEN amount ELSE 0
           /\ \A v \in Users \ {u} : AssignedTo(v, s)' = AssignedTo(v, s)
<1>1. choice # None =>
        [stacker |-> choice, amount |-> amount] \in [stacker : Stackers, amount : Nat]
  OBVIOUS
<1>2. userAssign'[u] = IF choice = None \/ amount = 0 THEN None
                       ELSE [stacker |-> choice, amount |-> amount]
  BY DEF SetAssign, DelegationTypes
<1>3. \A v \in Users \ {u} : userAssign'[v] = userAssign[v]
  BY DEF SetAssign, DelegationTypes
<1>4. AssignedTo(u, s)' = IF choice = s THEN amount ELSE 0
  BY <1>1, <1>2, StackersAssumption DEF AssignedTo, Assigned
<1>5. \A v \in Users \ {u} : AssignedTo(v, s)' = AssignedTo(v, s)
  BY <1>3 DEF AssignedTo, Assigned
<1> QED BY <1>4, <1>5

LEMMA SetAssignKeepsBooks ==
    ASSUME DelegationTypes, DelegationBooks, NEW u \in Users,
           NEW choice \in Stackers \cup {None}, NEW amount \in Nat,
           SetAssign(u, choice, amount)
    PROVE  DelegationBooks'
<1> DEFINE New(s) == IF choice = s THEN amount ELSE 0
<1>1. ASSUME NEW s \in Stackers
      PROVE  stackerTotal'[s] = SumFunction(AssignmentsTo(s)')
  <2>1. /\ AssignedTo(u, s)' = New(s)
        /\ \A v \in Users \ {u} : AssignedTo(v, s)' = AssignedTo(v, s)
    BY SetAssignEntry
  <2> SUFFICES ASSUME NEW f, NEW g, f = AssignmentsTo(s), g = AssignmentsTo(s)'
               PROVE  stackerTotal'[s] = SumFunction(g)
    OBVIOUS
  <2>2. /\ IntegersOn(f, Users) /\ g[u] \in Int
        /\ f[u] = AssignedTo(u, s) /\ g[u] = New(s)
        /\ \A v \in Users \ {u} : g[v] = f[v]
        /\ DOMAIN f = Users /\ DOMAIN g = Users
    BY <2>1, AssignedType DEF AssignmentsTo, IntegersOn
  <2>3. SumFunctionOnSet(g, Users) = SumFunctionOnSet(f, Users) - f[u] + g[u]
    BY <2>2, SumChange, UsersAssumption
  <2>4. stackerTotal[s] = SumFunctionOnSet(f, Users)
    BY <2>2 DEF DelegationBooks, SumFunction
  <2>5. stackerTotal'[s] = stackerTotal[s] - AssignedTo(u, s) + New(s)
    BY DEF SetAssign
  <2> QED BY <2>2, <2>3, <2>4, <2>5 DEF SumFunction
<1>2. totalAssigned' = SumFunction(stackerTotal')
  <2> DEFINE t == [s \in Stackers |-> stackerTotal[s]]
             a == [s \in Stackers |-> AssignedTo(u, s)]
             m == [s \in Stackers |-> (-1) * a[s]]
             b == [s \in Stackers |-> New(s)]
             c == [s \in Stackers |-> t[s] + m[s]]
  <2>1. /\ IntegersOn(t, Stackers) /\ IntegersOn(a, Stackers)
        /\ IntegersOn(m, Stackers) /\ IntegersOn(b, Stackers)
        /\ IntegersOn(c, Stackers)
    BY AssignedType DEF IntegersOn, DelegationTypes
  <2>2. /\ \A s \in Stackers : m[s] = (-1) * a[s]
        /\ \A s \in Stackers : c[s] = t[s] + m[s]
        /\ \A s \in Stackers : stackerTotal'[s] = c[s] + b[s]
    BY AssignedType DEF SetAssign, DelegationTypes
  <2>3. SumFunctionOnSet(a, Stackers) = Assigned(u)
    BY AssignedToOne
  <2>4. SumFunctionOnSet(b, Stackers) = IF choice = None THEN 0 ELSE amount
    <3>1. CASE choice = None
      <4>1. \A s \in Stackers : b[s] = 0
        BY <3>1, StackersAssumption
      <4> HIDE DEF b
      <4> QED BY <3>1, <4>1, SumZero, StackersAssumption
    <3>2. CASE choice # None
      <4>1. choice \in Stackers /\ b[choice] = amount
            /\ \A s \in Stackers \ {choice} : b[s] = 0
        BY <3>2
      <4>2. b[choice] \in Int
        BY <4>1
      <4> HIDE DEF b
      <4>3. SumFunctionOnSet(b, Stackers) = b[choice]
        BY <4>1, <4>2, SumOfOne, StackersAssumption
      <4> QED BY <3>2, <4>1, <4>3
    <3> QED BY <3>1, <3>2
  <2>5. SumFunctionOnSet(t, Stackers) = totalAssigned
    BY DEF DelegationTypes, DelegationBooks, SumFunction
  <2>6. /\ totalAssigned' = totalAssigned - Assigned(u)
                              + IF choice = None THEN 0 ELSE amount
        /\ DOMAIN stackerTotal' = Stackers
        /\ Assigned(u) \in Int /\ totalAssigned \in Int
    BY AssignedType DEF SetAssign, DelegationTypes
  <2> HIDE DEF t, a, m, b, c
  <2>7. SumFunctionOnSet(m, Stackers) = (-1) * SumFunctionOnSet(a, Stackers)
    BY <2>1, <2>2, SumTimes, StackersAssumption
  <2>8. SumFunctionOnSet(c, Stackers)
          = SumFunctionOnSet(t, Stackers) + SumFunctionOnSet(m, Stackers)
    BY <2>1, <2>2, SumPlus, StackersAssumption
  <2>9. SumFunctionOnSet(stackerTotal', Stackers)
          = SumFunctionOnSet(c, Stackers) + SumFunctionOnSet(b, Stackers)
    BY <2>1, <2>2, SumPlus, StackersAssumption
  <2> QED BY <2>3, <2>4, <2>5, <2>6, <2>7, <2>8, <2>9 DEF SumFunction
<1> QED BY <1>1, <1>2 DEF DelegationBooks

LEMMA ReduceKeepsBooks ==
    ASSUME DelegationTypes, DelegationBooks, NEW u \in Users, NEW amount \in Int,
           Reduce(u, amount)
    PROVE  DelegationBooks'
<1>1. CASE userAssign[u] # None
  <2>1. userAssign[u].stacker \in Stackers
    BY <1>1 DEF DelegationTypes, Assignments
  <2>2. Floor0(Assigned(u) - amount) \in Nat
    BY AssignedType, Floor0Type
  <2>3. SetAssign(u, userAssign[u].stacker, Floor0(Assigned(u) - amount))
    BY <1>1 DEF Reduce
  <2> QED BY <2>1, <2>2, <2>3, SetAssignKeepsBooks
<1>2. CASE userAssign[u] = None
  BY <1>2 DEF Reduce, delegation, DelegationBooks, AssignmentsTo, AssignedTo,
              Assigned
<1> QED BY <1>1, <1>2

\* What total-allocated and the supply of jSTX stand for.
MoneyBooks ==
    /\ totalAllocated = SumFunction(allocated)
    /\ supply = SumFunction(jstx) + coreJstx

\* A change of what one user holds.
LEMMA HoldingChanges ==
    ASSUME FundTypes, NEW u \in Users, jstx' \in [Users -> Int],
           \A v \in Users \ {u} : jstx'[v] = jstx[v]
    PROVE  SumFunction(jstx') = SumFunction(jstx) - jstx[u] + jstx'[u]
<1>1. /\ IntegersOn(jstx, Users) /\ jstx'[u] \in Int
      /\ DOMAIN jstx = Users /\ DOMAIN jstx' = Users
  BY DEF FundTypes, IntegersOn
<1>2. SumFunctionOnSet(jstx', Users)
        = SumFunctionOnSet(jstx, Users) - jstx[u] + jstx'[u]
  BY <1>1, SumChange, UsersAssumption
<1> QED BY <1>1, <1>2 DEF SumFunction

\* A change of what one stacker is counted for.
LEMMA AllocationChanges ==
    ASSUME FundTypes, NEW s \in Stackers, allocated' \in [Stackers -> Int],
           \A t \in Stackers \ {s} : allocated'[t] = allocated[t]
    PROVE  SumFunction(allocated') = SumFunction(allocated) - allocated[s] + allocated'[s]
<1>1. /\ IntegersOn(allocated, Stackers) /\ allocated'[s] \in Int
      /\ DOMAIN allocated = Stackers /\ DOMAIN allocated' = Stackers
  BY DEF FundTypes, IntegersOn
<1>2. SumFunctionOnSet(allocated', Stackers)
        = SumFunctionOnSet(allocated, Stackers) - allocated[s] + allocated'[s]
  BY <1>1, SumChange, StackersAssumption
<1> QED BY <1>1, <1>2 DEF SumFunction

LEMMA SumsAreNumbers ==
    ASSUME FundTypes
    PROVE  SumFunction(jstx) \in Int /\ SumFunction(allocated) \in Int
<1>1. /\ IntegersOn(jstx, Users) /\ DOMAIN jstx = Users
      /\ IntegersOn(allocated, Stackers) /\ DOMAIN allocated = Stackers
  BY DEF FundTypes, IntegersOn
<1> QED BY <1>1, SumTake, UsersAssumption, StackersAssumption DEF SumFunction

LEMMA UserStepKeepsSums ==
    ASSUME FundsInv, DelegationBooks, MoneyBooks, UserStep
    PROVE  DelegationBooks' /\ MoneyBooks'
<1>1. PICK u \in Users, amount \in 1..MaxStx :
         \/ \E choice \in Stackers \cup {None} : Deposit(u, amount, choice)
         \/ WithdrawPending(u, amount)
         \/ StartWithdraw(u, amount)
         \/ ReduceOwn(u, amount)
         \/ \E v \in Users : TransferJstx(u, v, amount)
  BY DEF UserStep
<1>2. amount \in Nat
  OBVIOUS
<1>3. /\ DelegationTypes /\ FundTypes
      /\ SumFunction(jstx) \in Int /\ SumFunction(allocated) \in Int
      /\ jstx[u] \in Int /\ coreJstx \in Int /\ supply \in Int
  BY SumsAreNumbers DEF FundsInv, FundTypes
<1>4. CASE \E choice \in Stackers \cup {None} : Deposit(u, amount, choice)
  <2>1. PICK choice \in Stackers \cup {None} : Deposit(u, amount, choice)
    BY <1>4
  <2>2. SetAssign(u, choice, Assigned(u) + amount) /\ Assigned(u) + amount \in Nat
    BY <2>1, <1>2, <1>3, AssignedType DEF Deposit, Assign
  <2>3. DelegationBooks'
    BY <1>3, <2>2, SetAssignKeepsBooks
  <2>4. /\ jstx' \in [Users -> Int] /\ jstx'[u] = jstx[u] + amount
        /\ \A v \in Users \ {u} : jstx'[v] = jstx[v]
    BY <2>1, <1>2, <1>3 DEF Deposit, FundTypes
  <2>5. SumFunction(jstx') = SumFunction(jstx) - jstx[u] + jstx'[u]
    BY <1>3, <2>4, HoldingChanges
  <2>6. SumFunction(jstx') = SumFunction(jstx) + amount
    BY <1>2, <1>3, <2>4, <2>5
  <2>7. /\ supply' = supply + amount /\ coreJstx' = coreJstx
        /\ totalAllocated' = totalAllocated /\ allocated' = allocated
    BY <2>1 DEF Deposit, allocation
  <2> QED BY <1>2, <1>3, <2>3, <2>6, <2>7 DEF MoneyBooks
<1>5. CASE WithdrawPending(u, amount)
  <2>1. DelegationBooks'
    BY <1>5, <1>2, <1>3, ReduceKeepsBooks DEF WithdrawPending
  <2>2. /\ jstx' \in [Users -> Int] /\ jstx'[u] = jstx[u] - amount
        /\ \A v \in Users \ {u} : jstx'[v] = jstx[v]
    BY <1>5, <1>2, <1>3 DEF WithdrawPending, FundTypes
  <2>3. SumFunction(jstx') = SumFunction(jstx) - jstx[u] + jstx'[u]
    BY <1>3, <2>2, HoldingChanges
  <2>4. SumFunction(jstx') = SumFunction(jstx) - amount
    BY <1>2, <1>3, <2>2, <2>3
  <2>5. /\ supply' = supply - amount /\ coreJstx' = coreJstx
        /\ totalAllocated' = totalAllocated /\ allocated' = allocated
    BY <1>5 DEF WithdrawPending, allocation
  <2> QED BY <1>2, <1>3, <2>1, <2>4, <2>5 DEF MoneyBooks
<1>6. CASE StartWithdraw(u, amount)
  <2>1. DelegationBooks'
    BY <1>6, <1>2, <1>3, ReduceKeepsBooks DEF StartWithdraw
  <2>2. /\ jstx' \in [Users -> Int] /\ jstx'[u] = jstx[u] - amount
        /\ \A v \in Users \ {u} : jstx'[v] = jstx[v]
    BY <1>6, <1>2, <1>3 DEF StartWithdraw, FundTypes
  <2>3. SumFunction(jstx') = SumFunction(jstx) - jstx[u] + jstx'[u]
    BY <1>3, <2>2, HoldingChanges
  <2>4. SumFunction(jstx') = SumFunction(jstx) - amount
    BY <1>2, <1>3, <2>2, <2>3
  <2>5. /\ supply' = supply /\ coreJstx' = coreJstx + amount
        /\ totalAllocated' = totalAllocated /\ allocated' = allocated
    BY <1>6 DEF StartWithdraw, allocation
  <2> QED BY <1>2, <1>3, <2>1, <2>4, <2>5 DEF MoneyBooks
<1>7. CASE ReduceOwn(u, amount)
  <2>1. DelegationBooks'
    BY <1>7, <1>2, <1>3, ReduceKeepsBooks DEF ReduceOwn
  <2> QED BY <1>7, <2>1 DEF ReduceOwn, funds, allocation, MoneyBooks
<1>8. ASSUME NEW v \in Users, TransferJstx(u, v, amount)
      PROVE  DelegationBooks' /\ MoneyBooks'
  <2>1. DelegationBooks'
    BY <1>8 DEF TransferJstx, delegation, DelegationBooks, AssignmentsTo,
                AssignedTo, Assigned
  <2>2. /\ u # v
        /\ jstx' \in [Users -> Int]
        /\ jstx[u] + jstx[v] = jstx'[u] + jstx'[v]
        /\ \A w \in Users \ {u, v} : jstx'[w] = jstx[w]
    BY <1>8, <1>2, <1>3 DEF TransferJstx, FundTypes
  <2>3. /\ IntegersOn(jstx, Users) /\ IntegersOn(jstx', Users)
        /\ DOMAIN jstx = Users /\ DOMAIN jstx' = Users
    BY <1>3, <2>2 DEF IntegersOn, FundTypes
  <2>4. SumFunctionOnSet(jstx', Users) = SumFunctionOnSet(jstx, Users)
    BY <2>2, <2>3, SumMoved, UsersAssumption
  <2>5. UNCHANGED <<supply, coreJstx, allocation>>
    BY <1>8 DEF TransferJstx
  <2> QED BY <2>1, <2>3, <2>4, <2>5 DEF MoneyBooks, SumFunction, allocation
<1> QED BY <1>1, <1>4, <1>5, <1>6, <1>7, <1>8

LEMMA KeeperStepKeepsSums ==
    ASSUME FundsInv, DelegationBooks, MoneyBooks, KeeperStep
    PROVE  DelegationBooks' /\ MoneyBooks'
<1>1. /\ DelegationTypes /\ FundTypes
      /\ SumFunction(allocated) \in Int /\ totalAllocated \in Int
      /\ \A s \in Stackers : allocated[s] \in Int
  BY SumsAreNumbers DEF FundsInv, FundTypes
<1>2. ASSUME NEW u \in Users, Update(u)
      PROVE  DelegationBooks' /\ MoneyBooks'
  <2>1. Assigned(u) - jstx[u] \in Int
    BY <1>1, AssignedType DEF FundTypes
  <2>2. DelegationBooks'
    BY <1>1, <1>2, <2>1, ReduceKeepsBooks DEF Update
  <2> QED BY <1>2, <2>2 DEF Update, funds, allocation, MoneyBooks
<1>3. ASSUME NEW s \in Stackers, NEW n \in Int,
             UNCHANGED <<delegation, supply, jstx, coreJstx>>,
             totalAllocated' = totalAllocated + n,
             allocated' \in [Stackers -> Int], allocated'[s] = allocated[s] + n,
             \A t \in Stackers \ {s} : allocated'[t] = allocated[t]
      PROVE  DelegationBooks' /\ MoneyBooks'
  <2>1. DelegationBooks'
    BY <1>3 DEF delegation, DelegationBooks, AssignmentsTo, AssignedTo, Assigned
  <2>2. allocated' \in [Stackers -> Int]
        /\ \A t \in Stackers \ {s} : allocated'[t] = allocated[t]
    BY <1>3
  <2>3. SumFunction(allocated')
          = SumFunction(allocated) - allocated[s] + allocated'[s]
    BY <1>1, <2>2, AllocationChanges
  <2>4. SumFunction(allocated') = SumFunction(allocated) + n
    BY <1>1, <1>3, <2>3
  <2> QED BY <1>3, <2>1, <2>4 DEF MoneyBooks
<1>4. ASSUME NEW s \in Stackers, ExecuteAllocation(s)
      PROVE  DelegationBooks' /\ MoneyBooks'
  <2>1. Deficit(s) \in Int
    BY <1>1, TargetType, Floor0Type DEF Deficit
  <2>2. /\ UNCHANGED <<delegation, supply, jstx, coreJstx>>
        /\ totalAllocated' = totalAllocated + Deficit(s)
        /\ allocated' \in [Stackers -> Int]
        /\ allocated'[s] = allocated[s] + Deficit(s)
        /\ \A t \in Stackers \ {s} : allocated'[t] = allocated[t]
    BY <1>1, <1>4, <2>1 DEF ExecuteAllocation, FundTypes
  <2> QED BY <1>3, <2>1, <2>2
<1>5. ASSUME NEW s \in Stackers, ReturnExcess(s)
      PROVE  DelegationBooks' /\ MoneyBooks'
  <2>1. Target(s) \in Int
    BY <1>1, TargetType
  <2>2. Excess(s) = allocated[s] - Target(s)
    BY <1>1, <1>5, <2>1 DEF ReturnExcess, Excess, Floor0
  <2>3. -Excess(s) \in Int /\ Excess(s) \in Int
    BY <1>1, <2>1, <2>2
  <2>4. /\ UNCHANGED <<delegation, supply, jstx, coreJstx>>
        /\ totalAllocated' = totalAllocated + (-Excess(s))
        /\ allocated' \in [Stackers -> Int]
        /\ allocated'[s] = allocated[s] + (-Excess(s))
        /\ \A t \in Stackers \ {s} : allocated'[t] = allocated[t]
    <3>1. /\ UNCHANGED <<delegation, supply, jstx, coreJstx>>
          /\ totalAllocated' = totalAllocated - Excess(s)
          /\ allocated' = [allocated EXCEPT ![s] = Target(s)]
      BY <1>5 DEF ReturnExcess
    <3> QED BY <1>1, <2>1, <2>2, <2>3, <3>1 DEF FundTypes
  <2> QED BY <1>3, <2>3, <2>4
<1> QED BY <1>2, <1>4, <1>5 DEF KeeperStep

\* What the vault has earmarked.
Earmarked == reserved = SumFunctionOnSet(ustx, Outstanding)

LEMMA OutstandingIsFinite ==
    ASSUME NftInv
    PROVE  /\ IsFiniteSet(Outstanding)
           /\ IntegersOn(ustx, Outstanding)
           /\ SumFunctionOnSet(ustx, Outstanding) \in Int
<1>1. IsFiniteSet(Ids)
  BY ReceiptsAssumption, FS_Interval DEF Ids
<1>2. IsFiniteSet(Outstanding)
  BY <1>1, FS_Subset DEF Outstanding
<1>3. IntegersOn(ustx, Outstanding)
  BY DEF NftInv, NftTypes, Outstanding, IntegersOn
<1> QED BY <1>2, <1>3, SumTake

LEMMA MintAdds ==
    ASSUME NftInv, NEW u \in Users, NEW amount \in Nat, NEW blocks \in Nat,
           Mint(u, amount, blocks)
    PROVE  SumFunctionOnSet(ustx', Outstanding')
             = SumFunctionOnSet(ustx, Outstanding) + amount
<1> DEFINE id == lastId + 1
<1>1. id \in Ids /\ owner[id] = None
  BY ReceiptsAssumption DEF Mint, Ids, NftInv, NftTypes
<1>2. id \notin Outstanding /\ Outstanding' = Outstanding \cup {id}
  BY <1>1, UsersAssumption DEF Mint, Outstanding, NftInv, NftTypes
<1>3. ustx'[id] = amount /\ \A i \in Outstanding : ustx'[i] = ustx[i]
  BY <1>1, <1>2 DEF Mint, Outstanding, NftInv, NftTypes
<1> HIDE DEF id
<1>4. /\ IsFiniteSet(Outstanding)
      /\ IntegersOn(ustx, Outstanding)
      /\ SumFunctionOnSet(ustx, Outstanding) \in Int
  BY OutstandingIsFinite
<1>5. SumFunctionOnSet(ustx', Outstanding) = SumFunctionOnSet(ustx, Outstanding)
  BY <1>3, <1>4, SumSame
<1>6. IntegersOn(ustx', Outstanding \cup {id})
  BY <1>3, <1>4 DEF IntegersOn
<1>7. SumFunctionOnSet(ustx', Outstanding \cup {id})
        = SumFunctionOnSet(ustx', Outstanding) + ustx'[id]
  BY <1>2, <1>4, <1>6, SumAddElement
<1> QED BY <1>2, <1>3, <1>5, <1>7

LEMMA BurnTakes ==
    ASSUME NftInv, NEW id \in Ids, Burn(id)
    PROVE  SumFunctionOnSet(ustx', Outstanding')
             = SumFunctionOnSet(ustx, Outstanding) - ustx[id]
<1>1. id \in Outstanding /\ Outstanding' = Outstanding \ {id}
  BY DEF Burn, Outstanding, NftInv, NftTypes
<1>2. \A i \in Outstanding \ {id} : ustx'[i] = ustx[i]
  BY DEF Burn, Outstanding, NftInv, NftTypes
<1>3. /\ IsFiniteSet(Outstanding)
      /\ IntegersOn(ustx, Outstanding)
  BY OutstandingIsFinite
<1>4. IsFiniteSet(Outstanding \ {id}) /\ IntegersOn(ustx, Outstanding \ {id})
  BY <1>3, FS_Subset DEF IntegersOn
<1>5. SumFunctionOnSet(ustx', Outstanding \ {id})
        = SumFunctionOnSet(ustx, Outstanding \ {id})
  BY <1>2, <1>4, SumSame
<1>6. SumFunctionOnSet(ustx, Outstanding)
        = ustx[id] + SumFunctionOnSet(ustx, Outstanding \ {id})
  BY <1>1, <1>3, SumTake
<1>7. SumFunctionOnSet(ustx, Outstanding \ {id}) \in Int /\ ustx[id] \in Int
  BY <1>1, <1>3, <1>4, SumTake DEF IntegersOn
<1> QED BY <1>1, <1>5, <1>6, <1>7

\* Trades and the passing of blocks leave what receipts are redeemable for.
LEMMA TradeKeepsEarmark ==
    ASSUME NftInv, Earmarked, reserved' = reserved,
           \/ \E id \in Ids, u \in Users : TransferReceipt(id, u) \/ BuyInUstx(id, u)
           \/ \E id \in Ids : ListInUstx(id) \/ UnlistInUstx(id)
           \/ Mature
           \/ UNCHANGED nftVars
    PROVE  Earmarked'
<1>1. ustx' = ustx
  BY DEF TransferReceipt, BuyInUstx, ListInUstx, UnlistInUstx, Mature, nftVars
<1>2. Outstanding' = Outstanding
  <2>1. ASSUME NEW id \in Ids, NEW u \in Users, HandOver(id, u)
        PROVE  Outstanding' = Outstanding
    BY <2>1, UsersAssumption DEF HandOver, Outstanding, NftInv, NftTypes
  <2> QED BY <2>1 DEF TransferReceipt, BuyInUstx, ListInUstx, UnlistInUstx, Mature,
                      nftVars, Outstanding
<1> QED BY <1>1, <1>2 DEF Earmarked

LEMMA NextKeepsEarmark ==
    ASSUME FundsInv, NftInv, PhaseOK, Earmarked, [CoreNext]_coreVars
    PROVE  Earmarked'
<1>1. reserved \in Int /\ SumFunctionOnSet(ustx, Outstanding) \in Int
  BY OutstandingIsFinite DEF FundsInv, FundTypes
<1>2. CASE ReceiptStep
  BY <1>2, TradeKeepsEarmark DEF ReceiptStep, Outstanding, funds
<1>3. CASE UserStep
  <2>1. ASSUME NEW u \in Users, NEW amount \in 1..MaxStx, StartWithdraw(u, amount)
        PROVE  Earmarked'
    <3>1. Mint(u, amount, BlocksToUnlock) /\ amount \in Nat
      BY <2>1 DEF StartWithdraw
    <3>2. BlocksToUnlock \in Nat
      BY UnlockIsLater
    <3>3. SumFunctionOnSet(ustx', Outstanding')
             = SumFunctionOnSet(ustx, Outstanding) + amount
      BY <3>1, <3>2, MintAdds
    <3>4. reserved' = reserved + amount
      BY <2>1 DEF StartWithdraw
    <3> QED BY <3>3, <3>4 DEF Earmarked
  <2>2. ASSUME NEW u \in Users, NEW amount \in 1..MaxStx,
               \/ \E choice \in Stackers \cup {None} : Deposit(u, amount, choice)
               \/ WithdrawPending(u, amount)
               \/ ReduceOwn(u, amount)
               \/ \E v \in Users : TransferJstx(u, v, amount)
        PROVE  Earmarked'
    <3>1. UNCHANGED <<nftVars, reserved>>
      BY <2>2 DEF Deposit, WithdrawPending, ReduceOwn, TransferJstx, funds
    <3> QED BY <3>1, TradeKeepsEarmark
  <2> QED BY <1>3, <2>1, <2>2 DEF UserStep
<1>4. CASE KeeperStep
  <2>1. UNCHANGED <<nftVars, reserved>>
    BY <1>4 DEF KeeperStep, Update, ExecuteAllocation, ReturnExcess, funds
  <2> QED BY <2>1, TradeKeepsEarmark
<1>5. ASSUME NEW id \in Ids, FinalizeWithdraw(id)
      PROVE  Earmarked'
  <2>1. Burn(id) /\ reserved' = reserved - ustx[id]
    BY <1>5 DEF FinalizeWithdraw
  <2>2. SumFunctionOnSet(ustx', Outstanding')
          = SumFunctionOnSet(ustx, Outstanding) - ustx[id]
    BY <2>1, BurnTakes
  <2> QED BY <2>1, <2>2 DEF Earmarked
<1>6. CASE \E s \in Stackers : LockStx(s) \/ UnlockStx(s)
  <2>1. UNCHANGED <<nftVars, reserved>>
    BY <1>6 DEF LockStx, UnlockStx, funds
  <2> QED BY <2>1, TradeKeepsEarmark
<1>7. CASE Donation
  <2>1. UNCHANGED <<nftVars, reserved>>
    BY <1>7 DEF Donation, DonateToVault, DonateToStacker, funds
  <2> QED BY <2>1, TradeKeepsEarmark
<1>8. CASE Tick
  <2>1. Mature /\ reserved' = reserved
    BY <1>8 DEF Tick, funds
  <2> QED BY <2>1, TradeKeepsEarmark
<1>9. CASE UNCHANGED coreVars
  <2>1. UNCHANGED <<nftVars, reserved>>
    BY <1>9 DEF coreVars, funds
  <2> QED BY <2>1, TradeKeepsEarmark
<1> QED BY <1>2, <1>3, <1>4, <1>5, <1>6, <1>7, <1>8, <1>9 DEF CoreNext

LEMMA NextKeepsSums ==
    ASSUME FundsInv, NftInv, DelegationBooks, MoneyBooks, [CoreNext]_coreVars
    PROVE  DelegationBooks' /\ MoneyBooks'
<1>1. ASSUME UNCHANGED <<supply, jstx, coreJstx, delegation, allocation>>
      PROVE  DelegationBooks' /\ MoneyBooks'
  BY <1>1 DEF delegation, allocation, DelegationBooks, AssignmentsTo, AssignedTo,
              Assigned, MoneyBooks
<1>2. CASE ReceiptStep
  BY <1>2, <1>1 DEF ReceiptStep, funds
<1>3. CASE UserStep
  BY <1>3, UserStepKeepsSums
<1>4. CASE KeeperStep
  BY <1>4, KeeperStepKeepsSums
<1>5. ASSUME NEW id \in Ids, FinalizeWithdraw(id)
      PROVE  DelegationBooks' /\ MoneyBooks'
  <2>1. DelegationBooks'
    BY <1>5 DEF FinalizeWithdraw, delegation, DelegationBooks, AssignmentsTo,
                AssignedTo, Assigned
  <2>2. /\ SumFunction(jstx) \in Int /\ coreJstx \in Int /\ supply \in Int
        /\ ustx[id] \in Int
    BY SumsAreNumbers DEF FundsInv, FundTypes, NftInv, NftTypes
  <2>3. /\ supply' = supply - ustx[id] /\ coreJstx' = coreJstx - ustx[id]
        /\ UNCHANGED <<jstx, allocation>>
    BY <1>5 DEF FinalizeWithdraw
  <2> QED BY <2>1, <2>2, <2>3 DEF MoneyBooks, allocation
<1>6. CASE \E s \in Stackers : LockStx(s) \/ UnlockStx(s)
  BY <1>6, <1>1 DEF LockStx, UnlockStx, funds
<1>7. CASE Donation
  BY <1>7, <1>1 DEF Donation, DonateToVault, DonateToStacker, funds
<1>8. CASE Tick
  BY <1>8, <1>1 DEF Tick, funds
<1>9. CASE UNCHANGED coreVars
  BY <1>9, <1>1 DEF coreVars, funds
<1> QED BY <1>2, <1>3, <1>4, <1>5, <1>6, <1>7, <1>8, <1>9 DEF CoreNext

\* All that is known of the books.
CoreInv ==
    FundsInv /\ NftInv /\ PhaseOK /\ DelegationBooks /\ MoneyBooks /\ Earmarked

LEMMA InitBooks == CoreInit => CoreInv
<1> SUFFICES ASSUME CoreInit PROVE CoreInv
  OBVIOUS
<1>1. FundsInv
  BY DEF CoreInit, FundsInv, FundTypes, DelegationTypes, FullyBacked, Assignments
<1>2. NftInv /\ PhaseOK
  BY InitHasNoReceipts
<1>3. DelegationBooks
  <2>1. ASSUME NEW s \in Stackers PROVE SumFunction(AssignmentsTo(s)) = 0
    <3>1. /\ \A u \in Users : AssignmentsTo(s)[u] = 0
          /\ DOMAIN AssignmentsTo(s) = Users
      BY DEF CoreInit, AssignmentsTo, AssignedTo
    <3> QED BY <3>1, SumZero, UsersAssumption DEF SumFunction
  <2>2. SumFunction(stackerTotal) = 0
    <3>1. /\ \A s \in Stackers : stackerTotal[s] = 0
          /\ DOMAIN stackerTotal = Stackers
      BY DEF CoreInit
    <3> QED BY <3>1, SumZero, StackersAssumption DEF SumFunction
  <2>3. totalAssigned = 0 /\ \A s \in Stackers : stackerTotal[s] = 0
    BY DEF CoreInit
  <2> QED BY <2>1, <2>2, <2>3 DEF DelegationBooks
<1>4. MoneyBooks
  <2>1. SumFunction(allocated) = 0
    <3>1. /\ \A s \in Stackers : allocated[s] = 0
          /\ DOMAIN allocated = Stackers
      BY DEF CoreInit
    <3> QED BY <3>1, SumZero, StackersAssumption DEF SumFunction
  <2>2. SumFunction(jstx) = 0
    <3>1. /\ \A u \in Users : jstx[u] = 0
          /\ DOMAIN jstx = Users
      BY DEF CoreInit
    <3> QED BY <3>1, SumZero, UsersAssumption DEF SumFunction
  <2>3. totalAllocated = 0 /\ supply = 0 /\ coreJstx = 0
    BY DEF CoreInit
  <2> QED BY <2>1, <2>2, <2>3 DEF MoneyBooks
<1>5. Earmarked
  <2>1. Outstanding = {} /\ reserved = 0
    BY DEF CoreInit, NftInit, Outstanding
  <2> QED BY <2>1, SumEmpty DEF Earmarked
<1> QED BY <1>1, <1>2, <1>3, <1>4, <1>5 DEF CoreInv

\* The books of core, delegation, allocation and receipts hold together.
THEOREM CoreInvariant == CoreSpec => []CoreInv
<1>1. CoreInv /\ [CoreNext]_coreVars => CoreInv'
  BY NextKeepsFunds, NextIsNftStep, NftStepKeepsBooks, NextKeepsSums,
     NextKeepsEarmark DEF CoreInv
<1> QED BY <1>1, InitBooks, PTL DEF CoreSpec

\* What the vault earmarks and the jSTX core holds are the receipts that are
\* outstanding, however many there are and whoever owns them: the unreserve
\* and the burn of finalize-withdraw never fail.
THEOREM ReceiptsCovered == CoreSpec => []ReceiptsReserved
<1>1. CoreInv => ReceiptsReserved
  BY DEF CoreInv, FundsInv, Earmarked, ReceiptsReserved
<1> QED BY <1>1, CoreInvariant, PTL

\* The counters of delegation.clar and allocation.clar and the supply of the
\* token are the sums of what they count, for any users and stackers, whatever
\* users assign and keepers correct.
THEOREM CountersAreSums == CoreSpec => []BooksAddUp
<1>1. CoreInv => BooksAddUp
  BY DEF CoreInv, DelegationBooks, MoneyBooks, BooksAddUp
<1> QED BY <1>1, CoreInvariant, PTL

-----------------------------------------------------------------------------
(* Nothing is negative.                                                    *)

\* An assignment is of something, or deleted.
Entries == [stacker : Stackers, amount : Nat \ {0}] \cup {None}

\* The balances that the guards of the code keep from going below zero.
Guarded ==
    /\ pending \in [{0, 1} -> Nat]
    /\ vault \in Nat
    /\ jstx \in [Users -> Nat]
    /\ userAssign \in [Users -> Entries]
    /\ held \in [Stackers -> Nat]
    /\ locked \in [Stackers -> Nat]
    /\ \A s \in Stackers : locked[s] <= held[s]

LEMMA ReduceLeavesPositive ==
    ASSUME DelegationTypes, Guarded, NEW u \in Users, NEW amount \in Int,
           Reduce(u, amount)
    PROVE  userAssign' \in [Users -> Entries]
<1>1. CASE userAssign[u] # None
  <2> DEFINE left == Floor0(Assigned(u) - amount)
  <2>1. userAssign[u].stacker \in Stackers /\ left \in Nat
    BY <1>1, AssignedType, Floor0Type DEF Guarded, Entries
  <2>2. SetAssign(u, userAssign[u].stacker, left)
    BY <1>1 DEF Reduce
  <2> HIDE DEF left
  <2> QED BY <2>1, <2>2 DEF SetAssign, Guarded, Entries
<1>2. CASE userAssign[u] = None
  BY <1>2 DEF Reduce, delegation, Guarded
<1> QED BY <1>1, <1>2

LEMMA UserStepKeepsGuarded ==
    ASSUME DelegationTypes, Guarded, PhaseOK, UserStep
    PROVE  Guarded'
<1>1. PICK u \in Users, amount \in 1..MaxStx :
         \/ \E choice \in Stackers \cup {None} : Deposit(u, amount, choice)
         \/ WithdrawPending(u, amount)
         \/ StartWithdraw(u, amount)
         \/ ReduceOwn(u, amount)
         \/ \E v \in Users : TransferJstx(u, v, amount)
  BY DEF UserStep
<1>2. amount \in Nat \ {0} /\ PendingCycle \in {0, 1}
  BY DEF PendingCycle
<1>3. CASE \E choice \in Stackers \cup {None} : Deposit(u, amount, choice)
  <2>1. PICK choice \in Stackers \cup {None} : Deposit(u, amount, choice)
    BY <1>3
  <2>2. SetAssign(u, choice, Assigned(u) + amount) /\ Assigned(u) + amount \in Nat \ {0}
    BY <2>1, <1>2, AssignedType DEF Deposit, Assign
  <2>3. userAssign' \in [Users -> Entries]
    <3>1. \A n \in Nat \ {0} : SetAssign(u, choice, n) => userAssign' \in [Users -> Entries]
      BY DEF SetAssign, Guarded, Entries
    <3> QED BY <2>2, <3>1
  <2>4. /\ pending' \in [{0, 1} -> Nat]
        /\ vault' \in Nat
        /\ jstx' \in [Users -> Nat]
    BY <2>1, <1>2 DEF Deposit, Guarded
  <2> QED BY <2>1, <2>3, <2>4 DEF Deposit, stackerStx, Guarded
<1>4. CASE WithdrawPending(u, amount)
  <2>1. userAssign' \in [Users -> Entries]
    BY <1>4, <1>2, ReduceLeavesPositive DEF WithdrawPending
  <2>2. pending' \in [{0, 1} -> Nat]
    BY <1>4, <1>2 DEF WithdrawPending, Guarded
  <2>3. vault' \in Nat /\ jstx' \in [Users -> Nat]
    BY <1>4, <1>2 DEF WithdrawPending, Guarded
  <2> QED BY <1>4, <2>1, <2>2, <2>3 DEF WithdrawPending, stackerStx, Guarded
<1>5. CASE StartWithdraw(u, amount)
  <2>1. userAssign' \in [Users -> Entries]
    BY <1>5, <1>2, ReduceLeavesPositive DEF StartWithdraw
  <2>2. jstx' \in [Users -> Nat]
    BY <1>5, <1>2 DEF StartWithdraw, Guarded
  <2> QED BY <1>5, <2>1, <2>2 DEF StartWithdraw, calendar, stackerStx, Guarded
<1>6. CASE ReduceOwn(u, amount)
  <2>1. userAssign' \in [Users -> Entries]
    BY <1>6, <1>2, ReduceLeavesPositive DEF ReduceOwn
  <2> QED BY <1>6, <2>1 DEF ReduceOwn, calendar, funds, stackerStx, Guarded
<1>7. CASE \E v \in Users : TransferJstx(u, v, amount)
  BY <1>7, <1>2 DEF TransferJstx, calendar, delegation, stackerStx, Guarded
<1> QED BY <1>1, <1>3, <1>4, <1>5, <1>6, <1>7

LEMMA KeeperStepKeepsGuarded ==
    ASSUME FundsInv, Guarded, KeeperStep
    PROVE  Guarded'
<1>1. ASSUME NEW u \in Users, Update(u)
      PROVE  Guarded'
  <2>1. Assigned(u) - jstx[u] \in Int
    BY AssignedType DEF FundsInv, Guarded
  <2>2. userAssign' \in [Users -> Entries]
    BY <1>1, <2>1, ReduceLeavesPositive DEF Update, FundsInv
  <2> QED BY <1>1, <2>2 DEF Update, calendar, funds, stackerStx, Guarded
<1>2. ASSUME NEW s \in Stackers, ExecuteAllocation(s)
      PROVE  Guarded'
  <2>1. Deficit(s) \in Nat
    BY TargetType, Floor0Type DEF Deficit, FundsInv, FundTypes
  <2> QED BY <1>2, <2>1 DEF ExecuteAllocation, calendar, delegation, Guarded
<1>3. ASSUME NEW s \in Stackers, ReturnExcess(s)
      PROVE  Guarded'
  <2>1. Excess(s) \in Nat
    BY TargetType, Floor0Type DEF Excess, FundsInv, FundTypes
  <2> QED BY <1>3, <2>1 DEF ReturnExcess, calendar, delegation, Guarded
<1> QED BY <1>1, <1>2, <1>3 DEF KeeperStep

LEMMA NextKeepsGuarded ==
    ASSUME CoreInv, Guarded, [CoreNext]_coreVars
    PROVE  Guarded'
<1>1. CASE ReceiptStep
  BY <1>1 DEF ReceiptStep, calendar, funds, delegation, stackerStx, Guarded
<1>2. CASE UserStep
  BY <1>2, UserStepKeepsGuarded DEF CoreInv, FundsInv
<1>3. CASE KeeperStep
  BY <1>3, KeeperStepKeepsGuarded DEF CoreInv
<1>4. ASSUME NEW id \in Ids, FinalizeWithdraw(id)
      PROVE  Guarded'
  <2>1. ustx[id] \in Nat
    BY DEF CoreInv, NftInv, NftTypes
  <2> QED BY <1>4, <2>1 DEF FinalizeWithdraw, calendar, delegation, stackerStx, Guarded
<1>5. CASE \E s \in Stackers : LockStx(s) \/ UnlockStx(s)
  BY <1>5 DEF LockStx, UnlockStx, calendar, funds, delegation, Guarded
<1>6. CASE Donation
  BY <1>6 DEF Donation, DonateToVault, DonateToStacker, calendar, funds,
              delegation, stackerStx, Guarded
<1>7. CASE Tick
  BY <1>7 DEF Tick, funds, delegation, stackerStx, Guarded
<1>8. CASE UNCHANGED coreVars
  BY <1>8 DEF coreVars, calendar, funds, delegation, stackerStx, Guarded
<1> QED BY <1>1, <1>2, <1>3, <1>4, <1>5, <1>6, <1>7, <1>8 DEF CoreNext

\* The sums of assignments are of natural numbers.
LEMMA AssignmentsAreNat ==
    ASSUME CoreInv
    PROVE  stackerTotal \in [Stackers -> Nat] /\ totalAssigned \in Nat
<1>1. ASSUME NEW s \in Stackers PROVE stackerTotal[s] \in Nat
  <2>1. \A u \in Users : AssignmentsTo(s)[u] \in Nat
    BY AssignedType DEF CoreInv, FundsInv, AssignmentsTo
  <2>2. DOMAIN AssignmentsTo(s) = Users
    BY DEF AssignmentsTo
  <2>3. SumFunction(AssignmentsTo(s)) \in Nat
    BY <2>1, <2>2, SumNat, UsersAssumption DEF SumFunction
  <2> QED BY <2>3 DEF CoreInv, DelegationBooks
<1>2. stackerTotal \in [Stackers -> Nat]
  BY <1>1 DEF CoreInv, FundsInv, DelegationTypes
<1>3. totalAssigned \in Nat
  <2>1. SumFunctionOnSet(stackerTotal, Stackers) \in Nat
    BY <1>1, SumNat, StackersAssumption
  <2> QED BY <1>2, <2>1 DEF CoreInv, DelegationBooks, SumFunction
<1> QED BY <1>2, <1>3

\* A target is not negative: what is not assigned is split, never exceeded.
LEMMA TargetIsNat ==
    ASSUME DelegationTypes, FundTypes, NEW s \in Stackers,
           stackerTotal[s] \in Nat, totalAssigned \in Nat
    PROVE  Target(s) \in Nat
<1> DEFINE unassigned == Floor0(Stackable - totalAssigned)
           share == IF totalAssigned > 0
                    THEN (stackerTotal[s] * Precision) \div totalAssigned ELSE 0
           adminRate == Precision - IF totalAssigned = 0 THEN 0 ELSE UserInfluence
           byAdmin == (unassigned * adminRate) \div Precision
           byUsers == unassigned - byAdmin
<1>1. unassigned \in Nat
  BY Floor0Type DEF FundTypes, Stackable
<1>2. share \in Nat
  <2>1. stackerTotal[s] * Precision \in Nat
    BY DEF Precision
  <2>2. CASE totalAssigned > 0
    <3>1. totalAssigned \in Nat \ {0}
      BY <2>2
    <3>2. (stackerTotal[s] * Precision) \div totalAssigned \in Nat
      BY <2>1, <3>1, DivNat
    <3> QED BY <2>2, <3>2
  <2>3. CASE ~(totalAssigned > 0)
    BY <2>3
  <2> QED BY <2>2, <2>3
<1>3. adminRate \in Nat /\ adminRate <= Precision /\ Precision \in Nat \ {0}
  <2>1. UserInfluence \in 0..10000
    BY TimeAssumption
  <2>2. CASE totalAssigned = 0
    BY <2>2 DEF Precision
  <2>3. CASE totalAssigned # 0
    BY <2>1, <2>3 DEF Precision
  <2> QED BY <2>2, <2>3
<1>4. Weight[s] \in Nat
  BY StackersAssumption
<1>5. Target(s) = stackerTotal[s] + (byAdmin * Weight[s]) \div Precision
                        + (byUsers * share) \div Precision
  BY DEF Target
<1> HIDE DEF unassigned, share, adminRate
<1>6. byAdmin \in Nat /\ byUsers \in Nat
  <2>1. unassigned * adminRate \in Nat
    BY <1>1, <1>3
  <2>2. byAdmin \in Nat
    BY <1>3, <2>1, DivNat
  <2>3. byAdmin <= unassigned
    BY <1>1, <1>3, DivShare
  <2> QED BY <1>1, <2>2, <2>3
<1> HIDE DEF byAdmin, byUsers
<1>7. byAdmin * Weight[s] \in Nat /\ byUsers * share \in Nat
  BY <1>2, <1>4, <1>6
<1>8. /\ (byAdmin * Weight[s]) \div Precision \in Nat
      /\ (byUsers * share) \div Precision \in Nat
  BY <1>3, <1>7, DivNat
<1> QED BY <1>5, <1>8

LEMMA NextKeepsAllocated ==
    ASSUME CoreInv, allocated \in [Stackers -> Nat], [CoreNext]_coreVars
    PROVE  allocated' \in [Stackers -> Nat]
<1>1. ASSUME NEW s \in Stackers, ExecuteAllocation(s)
      PROVE  allocated' \in [Stackers -> Nat]
  <2>1. Deficit(s) \in Nat
    BY TargetType, Floor0Type DEF Deficit, CoreInv, FundsInv, FundTypes
  <2> QED BY <1>1, <2>1 DEF ExecuteAllocation
<1>2. ASSUME NEW s \in Stackers, ReturnExcess(s)
      PROVE  allocated' \in [Stackers -> Nat]
  <2>1. Target(s) \in Nat
    BY AssignmentsAreNat, TargetIsNat DEF CoreInv, FundsInv
  <2> QED BY <1>2, <2>1 DEF ReturnExcess
<1>3. CASE UNCHANGED allocation
  <2>1. allocated' = allocated
    BY <1>3 DEF allocation
  <2> QED BY <2>1
<1>4. ASSUME \/ ReceiptStep \/ UserStep \/ Tick \/ Donation
             \/ \E u \in Users : Update(u)
             \/ \E id \in Ids : FinalizeWithdraw(id)
             \/ \E s \in Stackers : LockStx(s) \/ UnlockStx(s)
             \/ UNCHANGED coreVars
      PROVE  UNCHANGED allocation
  BY <1>4
     DEF ReceiptStep, UserStep, Deposit, WithdrawPending, StartWithdraw, ReduceOwn,
         TransferJstx, Tick, Donation, DonateToVault, DonateToStacker, Update,
         FinalizeWithdraw, LockStx, UnlockStx, coreVars
<1>5. CoreNext => \/ ReceiptStep \/ UserStep \/ Tick \/ Donation
                  \/ \E u \in Users : Update(u)
                  \/ \E s \in Stackers : ExecuteAllocation(s) \/ ReturnExcess(s)
                  \/ \E id \in Ids : FinalizeWithdraw(id)
                  \/ \E s \in Stackers : LockStx(s) \/ UnlockStx(s)
  BY DEF CoreNext, KeeperStep
<1>6. \/ \E s \in Stackers : ExecuteAllocation(s) \/ ReturnExcess(s)
      \/ UNCHANGED allocation
  <2>1. CASE UNCHANGED coreVars
    BY <2>1, <1>4
  <2>2. CASE CoreNext
    BY <2>2, <1>4, <1>5
  <2> QED BY <2>1, <2>2
<1>7. CASE \E s \in Stackers : ExecuteAllocation(s) \/ ReturnExcess(s)
  BY <1>7, <1>1, <1>2
<1> QED BY <1>3, <1>6, <1>7

LEMMA BooksHaveTypes ==
    ASSUME CoreInv, Guarded, allocated \in [Stackers -> Nat]
    PROVE  CoreTypeOK
<1>2. stackerTotal \in [Stackers -> Nat] /\ totalAssigned \in Nat
  BY AssignmentsAreNat
<1>5. totalAllocated \in Nat
  <2>1. SumFunctionOnSet(allocated, Stackers) \in Nat
    BY SumNat, StackersAssumption
  <2> QED BY <2>1 DEF CoreInv, MoneyBooks, SumFunction
<1>6. reserved \in Nat /\ coreJstx = reserved
  <2>1. SumFunctionOnSet(ustx, Outstanding) \in Nat
    <3>1. IsFiniteSet(Outstanding) /\ \A id \in Outstanding : ustx[id] \in Nat
      BY OutstandingIsFinite DEF CoreInv, NftInv, NftTypes, Outstanding
    <3> QED BY <3>1, SumNat
  <2> QED BY <2>1 DEF CoreInv, Earmarked, FundsInv
<1>7. supply \in Nat
  <2>1. SumFunctionOnSet(jstx, Users) \in Nat
    BY SumNat, UsersAssumption DEF Guarded
  <2> QED BY <1>6, <2>1 DEF CoreInv, MoneyBooks, Guarded, SumFunction
<1> QED BY <1>2, <1>5, <1>6, <1>7
        DEF CoreTypeOK, CoreInv, PhaseOK, Guarded, Entries

\* No balance or counter of core, vault, delegation, allocation and stackers is
\* ever negative: on chain, where integers are unsigned, none of their
\* subtractions fails but those a guard refuses.
THEOREM CoreTypeCorrect == CoreSpec => []CoreTypeOK
<1> DEFINE AllocatedNat == allocated \in [Stackers -> Nat]
<1>1. CoreInit => Guarded /\ AllocatedNat
  BY DEF CoreInit, Guarded, Entries
<1>2. CoreInv /\ Guarded /\ AllocatedNat /\ [CoreNext]_coreVars
        => Guarded' /\ AllocatedNat'
  BY NextKeepsGuarded, NextKeepsAllocated
<1>3. CoreInv /\ Guarded /\ AllocatedNat => CoreTypeOK
  BY BooksHaveTypes
<1> QED BY <1>1, <1>2, <1>3, CoreInvariant, PTL DEF CoreSpec
=============================================================================
