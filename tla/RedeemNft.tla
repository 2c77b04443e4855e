------------------------------ MODULE RedeemNft ------------------------------
(***************************************************************************)
(* redeem-stx-nft.clar: the receipts of withdrawals in progress, and the   *)
(* market their owners may sell them on before they mature.                *)
(*                                                                         *)
(* What a receipt is redeemable for is `ustx`; its unlock height is kept   *)
(* in `wait`, the burn blocks still missing.  A listing keeps who made it, *)
(* not the price: the price is paid from buyer to owner, outside.          *)
(***************************************************************************)
EXTENDS Integers, FiniteSets

CONSTANTS
    Users,
    MaxReceipts,       \* bound on receipts ever minted
    None

ASSUME UsersAssumption == IsFiniteSet(Users) /\ None \notin Users

ASSUME ReceiptsAssumption == MaxReceipts \in Nat \ {0}

VARIABLES
    lastId,            \* last-id
    owner,             \* redeem-nft: id -> owner, None if not minted or burnt
    ustx,              \* receipt-data: id -> amount
    wait,              \* receipt-data: id -> unlock-height - burn-block-height
    count,             \* token-count
    listedBy           \* market: id -> who listed it

nftVars == <<lastId, owner, ustx, wait, count, listedBy>>

Ids == 1..MaxReceipts

Outstanding == {id \in Ids : owner[id] # None}

Owned(u) == {id \in Ids : owner[id] = u}

NftInit ==
    /\ lastId = 0
    /\ owner = [id \in Ids |-> None]
    /\ ustx = [id \in Ids |-> 0]
    /\ wait = [id \in Ids |-> 0]
    /\ count = [u \in Users |-> 0]
    /\ listedBy = [id \in Ids |-> None]

-----------------------------------------------------------------------------
Mint(u, amount, blocks) ==
    /\ lastId < MaxReceipts
    /\ lastId' = lastId + 1
    /\ owner' = [owner EXCEPT ![lastId + 1] = u]
    /\ ustx' = [ustx EXCEPT ![lastId + 1] = amount]
    /\ wait' = [wait EXCEPT ![lastId + 1] = blocks]
    /\ count' = [count EXCEPT ![u] = @ + 1]
    /\ UNCHANGED listedBy

\* As Burn, forgetting the count of the owner.
BurnUncounted(id) ==
    /\ owner[id] # None
    /\ owner' = [owner EXCEPT ![id] = None]
    /\ ustx' = [ustx EXCEPT ![id] = 0]
    /\ wait' = [wait EXCEPT ![id] = 0]
    /\ listedBy' = [listedBy EXCEPT ![id] = None]
    /\ UNCHANGED <<lastId, count>>

Burn(id) ==
    /\ owner[id] # None
    /\ owner' = [owner EXCEPT ![id] = None]
    /\ ustx' = [ustx EXCEPT ![id] = 0]
    /\ wait' = [wait EXCEPT ![id] = 0]
    /\ listedBy' = [listedBy EXCEPT ![id] = None]
    /\ count' = [count EXCEPT ![owner[id]] = @ - 1]
    /\ UNCHANGED lastId

\* trnsfr: who holds a receipt, and how many.  A transfer to oneself fails.
HandOver(id, u) ==
    /\ owner[id] # None
    /\ owner[id] # u
    /\ owner' = [owner EXCEPT ![id] = u]
    /\ count' = [count EXCEPT ![owner[id]] = @ - 1, ![u] = @ + 1]

\* As TransferReceipt, of a listed receipt too.
TransferListed(id, u) ==
    /\ HandOver(id, u)
    /\ UNCHANGED <<lastId, ustx, wait, listedBy>>

TransferReceipt(id, u) ==
    /\ listedBy[id] = None
    /\ HandOver(id, u)
    /\ UNCHANGED <<lastId, ustx, wait, listedBy>>

ListInUstx(id) ==
    /\ owner[id] # None
    /\ listedBy' = [listedBy EXCEPT ![id] = owner[id]]
    /\ UNCHANGED <<lastId, owner, ustx, wait, count>>

UnlistInUstx(id) ==
    /\ owner[id] # None
    /\ listedBy' = [listedBy EXCEPT ![id] = None]
    /\ UNCHANGED <<lastId, owner, ustx, wait, count>>

BuyInUstx(id, u) ==
    /\ listedBy[id] # None
    /\ HandOver(id, u)
    /\ listedBy' = [listedBy EXCEPT ![id] = None]
    /\ UNCHANGED <<lastId, ustx, wait>>

\* A burn block.
Mature ==
    /\ wait' = [id \in Ids |-> IF wait[id] > 0 THEN wait[id] - 1 ELSE 0]
    /\ UNCHANGED <<lastId, owner, ustx, count, listedBy>>

-----------------------------------------------------------------------------
\* A receipt on the market was put there by who owns it now: however receipts
\* are sold, sent and redeemed, nobody sells one for its previous owner (the
\* ERR_LISTED check of transfer and the deletions of buy-in-ustx and burn).
ListedByOwner ==
    \A id \in Ids : listedBy[id] # None => listedBy[id] = owner[id]

\* token-count is how many receipts a user owns, after any sales, transfers
\* and burns (four functions keep it): no subtraction of it underflows.
CountsOwned == \A u \in Users : count[u] = Cardinality(Owned(u))

\* Both at once: the books of the receipts agree with who owns them.
ReceiptBooksAgree == ListedByOwner /\ CountsOwned
=============================================================================
