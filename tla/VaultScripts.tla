---------------------------- MODULE VaultScripts ----------------------------
(***************************************************************************)
(* The simulation scripts about batches: claims, sales at the vault,       *)
(* finalization and recovery, payout, and the rotation to another vault.   *)
(*                                                                         *)
(* A fund of 100000 sats is 1000 here and a chunk of 50000 is 500; shares  *)
(* and covers are in units of 0.1 STX, fees in units of 50 basis points.   *)
(***************************************************************************)
EXTENDS PoolCalls

First(c) == [cycle |-> c, tranche |-> 0]

Anyone(fn, a) == Does("stranger", fn, a)
NotAnyone(fn, a) == Refuses("stranger", fn, a)
Admin(fn, a) == Does("deployer", fn, a)
NotAdmin(fn, a) == Refuses("deployer", fn, a)

WaitBlocks(n) == Anyone("advance", <<n>>)
Aged(n) == Admin("fixture age", <<"vault", n>>)
Places(live) == Anyone("jing-place", <<"vault", live>>)
Reclaims == Anyone("jing-reclaim", <<"vault">>)
Sells(sats) == Anyone("router-swap", <<"vault", sats>>)
CannotSell == NotAnyone("router-swap", <<"vault", None>>)
ChunksOf(sats) == Admin("set-vault-max-chunk-sats", <<"vault", sats>>)
Pays(who, b) == Anyone("pay-stx-stakers", <<who, b>>)
PaysSbtc(who, b) == Anyone("pay-recovered-sbtc-stakers", <<who, b>>)
InVault(sats) == Shows("vault sbtc", <<"vault">>, sats)
IsEmpty(want) == Shows("is-empty", <<"vault">>, want)
Pending(b) == Shows("get-pending-swap", <<>>, b)

\* A claim of a cycle whose rewards and shares a fixture put into pox-5.
ClaimsFor(c, sats, stakes) ==
    Does("pox-5", "fixture shares", <<c, stakes>>)
    \o Anyone("pox-claim-rewards", <<"vault", c, sats>>)
    \o Pending(First(c))

OneToThree == [ALICE |-> 1, BOB |-> 3]

\* The fixtures of pool-vault-fixes-stxer.mjs and _pool-vault-stxer.mjs call
\* validate-stake! with the shares, so both stakers have a seat that covers them.
SeatsForBoth ==
    Does("pox-5", "fixture cover", <<"ALICE", 1>>)
    \o Does("pox-5", "fixture cover", <<"BOB", 3>>)

Finalizes(c) ==
    Anyone("finalize-swap", <<"vault">>)
    \o Pending(None)
    \o Shows("is finalized", <<First(c)>>, TRUE)

-----------------------------------------------------------------------------
(* pool-accounting-stxer.mjs                                               *)

FeeTimelock ==
    Shows("get-fee-bips", <<>>, 9) \o Shows("get-pending-fee", <<>>, None)
    \o NotAdmin("propose-fee-bips", <<11>>)
    \o NotAnyone("propose-fee-bips", <<2>>)
    \o NotAdmin("confirm-fee-bips", <<>>)
    \o Admin("propose-fee-bips", <<6>>) \o Shows("get-pending-fee", <<>>, 6)
    \o NotAdmin("confirm-fee-bips", <<>>)
    \o NotAnyone("cancel-fee-bips", <<>>)
    \o Admin("cancel-fee-bips", <<>>)
    \o NotAdmin("confirm-fee-bips", <<>>)
    \o Admin("propose-fee-bips", <<10>>) \o WaitBlocks(144)
    \o NotAnyone("confirm-fee-bips", <<>>)
    \o Admin("confirm-fee-bips", <<>>) \o Shows("get-fee-bips", <<>>, 10)

\* A and B have 1000 STX of shares each, of which 500 of A's are covered; C
\* has so few that its pay rounds to nothing.
AccountingShares == [A |-> 10000, B |-> 10000, C |-> 1]

SellInTwoChunks ==
    Places(TRUE) \o ChunksOf(500) \o Aged(288) \o Reclaims
    \o Sells(500) \o WaitBlocks(1) \o Sells(500)

StxRound ==
    LET b == First(2) IN
    Shows("get-last-claim-dist-cycle", <<2>>, None)
    \o Shows("get-tranche-count", <<2>>, 0)
    \o ClaimsFor(2, 1000, AccountingShares)
    \o Shows("claimed this distribution", <<2>>, TRUE)
    \o Shows("get-tranche-count", <<2>>, 1)
    \o NotAnyone("pox-claim-rewards", <<"vault", 2, 1000>>)
    \o NotAnyone("pay-stx-stakers", <<{"A", "B"}, b>>)
    \o NotAdmin("sweep-tranche-dust", <<b>>)
    \o SellInTwoChunks \o Finalizes(2)
    \o Shows("pot", <<"stx", b>>, 1000)
    \o Shows("get-cycle-total-shares", <<2>>, 20001)
    \o NotAnyone("sweep-tranche-dust", <<b>>)
    \o NotAdmin("sweep-tranche-dust", <<b>>)
    \o Pays({"A", "B"}, b)
    \o Shows("paid", <<"stx", b, "A">>, 499 - 12)
    \o Shows("paid", <<"stx", b, "B">>, 499 - 24)
    \o Shows("paid-shares", <<"stx", b>>, 20000)
    \o Shows("fully-paid", <<"stx", b>>, FALSE)
    \o Pays({"A", "B"}, b)
    \o Shows("owed", <<"stx", b, "A">>, 0)
    \o Pays({"C"}, b)
    \o Shows("fully-paid", <<"stx", b>>, TRUE)
    \o Shows("residue", <<"stx", b>>, 2)
    \o Admin("sweep-tranche-dust", <<b>>)
    \o Shows("residue", <<"stx", b>>, 0)
    \o NotAdmin("sweep-tranche-dust", <<b>>)
    \o Shows("earned", <<"stx">>, 36)
    \o NotAdmin("withdraw-fees", <<1000000>>)
    \o NotAnyone("withdraw-fees", <<1>>)
    \o Admin("withdraw-fees", <<1>>)
    \o NotAnyone("withdraw-all-fees", <<>>)
    \o Admin("withdraw-all-fees", <<>>)
    \o Shows("earned", <<"stx">>, 0)

RecoveredRound ==
    LET b == First(1) IN
    ClaimsFor(1, 1000, AccountingShares) \o Places(TRUE)
    \o NotAnyone("pay-recovered-sbtc-stakers", <<{"A"}, First(2)>>)
    \o Aged(432) \o Anyone("emergency-recover", <<"vault">>)
    \o Shows("is-recovered-tranche", <<b>>, TRUE)
    \o Shows("pot", <<"sbtc", b>>, 1000)
    \o NotAdmin("sweep-recovered-sbtc-dust", <<b>>)
    \o PaysSbtc({"A", "B"}, b)
    \o Shows("paid", <<"sbtc", b, "A">>, 499 - 12)
    \o Shows("paid", <<"sbtc", b, "B">>, 499 - 24)
    \o PaysSbtc({"A", "B"}, b)
    \o Shows("fully-paid", <<"sbtc", b>>, FALSE)
    \o PaysSbtc({"C"}, b)
    \o Shows("paid-shares", <<"sbtc", b>>, 20001)
    \o Shows("fully-paid", <<"sbtc", b>>, TRUE)
    \o NotAnyone("sweep-recovered-sbtc-dust", <<b>>)
    \o Admin("sweep-recovered-sbtc-dust", <<b>>)
    \o Shows("residue", <<"sbtc", b>>, 0)
    \o Shows("earned", <<"sbtc">>, 36)
    \o NotAdmin("withdraw-sbtc-fees", <<1000000>>)
    \o NotAnyone("withdraw-sbtc-fees", <<1>>)
    \o Admin("withdraw-sbtc-fees", <<36>>)
    \o Shows("earned", <<"sbtc">>, 0)

Accounting ==
    NotAnyone("set-paused", <<TRUE>>)
    \o Admin("set-paused", <<TRUE>>) \o Shows("is-paused", <<>>, TRUE)
    \o Refuses("D", "stake", <<"pool", 5000, 1>>)
    \o Admin("set-paused", <<FALSE>>)
    \o Does("D", "stake", <<"pool", 5000, 1>>)
    \o FeeTimelock
    \o Does("A", "stake", <<"pool", 5000, 1>>)
    \o Shows("get-og-ustx", <<"A">>, 5000)
    \o StxRound \o RecoveredRound

\* pool-claim-guards-stxer.mjs: cycle 1 has nothing to claim, and cycle 2
\* waits for the swap of cycle 3.
ClaimGuards ==
    NotAnyone("pox-claim-rewards", <<"vault", 1, 0>>)
    \o Shows("get-last-claim-dist-cycle", <<1>>, None)
    \o ClaimsFor(3, 1000, OneToThree)
    \o NotAnyone("pox-claim-rewards", <<"vault", 2, 1000>>)
    \o Shows("get-last-claim-dist-cycle", <<2>>, None)
    \o Shows("get-tranche-count", <<2>>, 0)
    \o Pending(First(3))

-----------------------------------------------------------------------------
(* pool-vault-fixes-stxer.mjs: regressions of reviewed findings.           *)

\* #6: a batch of dust closes at once and is settled with nothing.
DustBatch ==
    ClaimsFor(5, 2, OneToThree) \o InVault(2) \o IsEmpty(TRUE)
    \o Anyone("close-batch", <<"vault">>)
    \o Shows("has a batch", <<"vault">>, FALSE)
    \o Shows("is-ready-to-finish", <<"vault">>, TRUE)
    \o Finalizes(5)
    \o Shows("pot", <<"stx", First(5)>>, 0)
    \o Shows("is-ready-to-finish", <<"vault">>, FALSE)
    \o InVault(2)
    \o Pays({"ALICE", "BOB"}, First(5))
    \o Shows("balance", <<"stx">>, 0)

\* L-2: the patience window is at most 288 blocks.
WindowCap ==
    LET Set(n) == <<"vault", n>> IN
    NotAdmin("set-vault-window-blocks", Set(289))
    \o NotAdmin("set-vault-window-blocks", Set(1008))
    \o Shows("window-blocks", <<"vault">>, 288)
    \o Admin("set-vault-window-blocks", Set(287))
    \o Shows("window-blocks", <<"vault">>, 287)
    \o Admin("set-vault-window-blocks", Set(288))

\* #6 and L-1: the next claim comes on top of the dust; a sale of 8 sats is
\* refused and leaves the cooldown as it was, one of 9 goes through.
SmallBatch ==
    ClaimsFor(4, 6, OneToThree) \o InVault(8)
    \o Aged(288) \o WaitBlocks(1)
    \o CannotSell \o InVault(8)
    \o Shows("last-router-swap", <<"vault">>, 0)
    \o Anyone("send 1 sat", <<"vault">>)
    \o Sells(9) \o InVault(0)
    \o Finalizes(4)

\* L-1: what a sale does not fill stays in the vault for the next one.
PartialSale ==
    ClaimsFor(3, 600, OneToThree) \o InVault(600)
    \o Aged(288) \o WaitBlocks(1)
    \o Sells(400) \o InVault(200)
    \o Shows("has a batch", <<"vault">>, TRUE)
    \o CannotSell
    \o WaitBlocks(1) \o Sells(199) \o CannotSell
    \o Shows("is-ready-to-finish", <<"vault">>, TRUE)
    \o Finalizes(3)

\* #7: a donated sat that is placed as a top-up of an ask stays in escrow when
\* the ask sells out; close-batch takes it home and closes at once.
OneSatOnMarket ==
    ClaimsFor(2, 100, OneToThree) \o InVault(101)
    \o Places(FALSE) \o Anyone("market settles", <<"vault">>)
    \o Anyone("send 1 sat", <<"vault">>) \o Places(FALSE)
    \o Anyone("market fills", <<"vault", 101>>)
    \o Shows("on the market", <<"vault">>, <<0, 0, 1>>)
    \o InVault(0) \o IsEmpty(FALSE)
    \o Shows("window-open", <<"vault">>, TRUE)
    \o Anyone("close-batch", <<"vault">>)
    \o Shows("on the market", <<"vault">>, <<0, 0, 0>>)
    \o InVault(1)
    \o Shows("is-ready-to-finish", <<"vault">>, TRUE)
    \o Finalizes(2)
    \o Shows("vault stx", <<"vault">>, 0)

VaultFixes ==
    SeatsForBoth \o DustBatch \o WindowCap \o SmallBatch \o PartialSale
    \o OneSatOnMarket
    \o ClaimsFor(1, 600, OneToThree) \o Aged(288) \o WaitBlocks(1) \o Sells(300)

-----------------------------------------------------------------------------
(* _pool-vault-stxer.mjs, by what sells the batch.                         *)

PlacedClaim ==
    SeatsForBoth \o ClaimsFor(1, 1000, OneToThree) \o InVault(1000)
    \o Places(TRUE)
    \o CannotSell
    \o NotAnyone("finalize-swap", <<"vault">>)

PaidOneToThree ==
    LET b == First(1)
        PaidInFull == Shows("paid", <<"stx", b, "ALICE">>, 250)
                      \o Shows("paid", <<"stx", b, "BOB">>, 750)
                      \o Shows("balance", <<"stx">>, 0) IN
    Finalizes(1)
    \o Pays({"ALICE", "BOB"}, b) \o PaidInFull
    \o Pays({"ALICE", "BOB"}, b) \o PaidInFull
    \o Shows("has a batch", <<"vault">>, FALSE)

\* The market fills the ask while the window is open.
SoldByMaker ==
    PlacedClaim \o Anyone("market fills", <<"vault", 1000>>)
    \o IsEmpty(TRUE) \o Shows("window-open", <<"vault">>, TRUE)
    \o Anyone("close-batch", <<"vault">>)
    \o PaidOneToThree

\* Two chunks are sold after the window, each by the step `sale`.
SoldInChunks(sale, refusedAfter) ==
    PlacedClaim \o ChunksOf(500) \o Aged(288)
    \o Shows("window-elapsed", <<"vault">>, TRUE)
    \o Reclaims
    \o sale \o InVault(500)
    \o refusedAfter
    \o NotAnyone("finalize-swap", <<"vault">>)
    \o WaitBlocks(1) \o sale \o IsEmpty(TRUE)
    \o PaidOneToThree

SoldByRouter == SoldInChunks(Sells(500), CannotSell)

\* jing-take does not use the router's cooldown.
SoldByTake ==
    SoldInChunks(Admin("jing-take", <<"vault", 500, 500>>), <<>>)

SoldBySplit ==
    SoldInChunks(Admin("router-swap-split", <<"vault", 500, 500, 2>>), CannotSell)

\* pool-autostake-e2e-stxer.mjs, as far as the pool goes: a third staker, whose
\* stake takes a seat, is paid half of the pot.
Autostake ==
    Does("SAFE", "stake", <<"pool", 20000, 1>>)
    \o ClaimsFor(1, 1000, [ALICE |-> 1, BOB |-> 3, SAFE |-> 4])
    \o SellInTwoChunks \o Finalizes(1)
    \o Pays({"ALICE", "BOB", "SAFE"}, First(1))
    \o Shows("paid", <<"stx", First(1), "SAFE">>, 500)

-----------------------------------------------------------------------------
(* Recovery.                                                               *)

RecoversAfterDelay ==
    LET Recover == <<"vault">> IN
    Refuses("ALICE", "emergency-recover", Recover)
    \o NotAdmin("emergency-recover", Recover)
    \o Aged(431) \o NotAdmin("emergency-recover", Recover)
    \o Aged(432) \o Admin("emergency-recover", Recover)
    \o Pending(None) \o IsEmpty(TRUE)
    \o Shows("has a batch", <<"vault">>, FALSE)
    \o NotAdmin("finalize-swap", Recover)
    \o NotAdmin("emergency-recover", Recover)

\* Both are paid their parts of the pots less the launch fee of 4.5%, "fixture
\* stakers hold no OG seat", and nothing when paid again: `left` are the fees of
\* all payouts so far.
PaidOnce(c, pots, left) ==
    LET both == <<{"ALICE", "BOB"}, First(c)>>
        NetOf(gross) == gross - (gross * 9) \div 200
        ForRecovered(steps) == IF "sbtc" \in DOMAIN pots THEN steps ELSE <<>>
        PayBoth ==
            Anyone("pay-stx-stakers", both)
            \o ForRecovered(Anyone("pay-recovered-sbtc-stakers", both))
        Parts(asset) ==
            Shows("paid", <<asset, First(c), "ALICE">>, NetOf(pots[asset] \div 4))
            \o Shows("paid", <<asset, First(c), "BOB">>, NetOf((3 * pots[asset]) \div 4))
        Paid ==
            Parts("stx") \o ForRecovered(Parts("sbtc"))
            \o Shows("balance", <<"stx">>, left.stx)
            \o Shows("balance", <<"sbtc">>, left.sbtc) IN
    PayBoth \o Paid \o PayBoth \o Paid

\* pool-vault-recovery-stxer.mjs: a recovered batch, one recovered half sold, a
\* sold one and a recovered one; each is paid while the next is in the vault.
Recovery ==
    LET Claims(c) == ClaimsFor(c, 1000, OneToThree) \o InVault(1000)
        InFlight(c) == Pending(First(c)) \o InVault(1000)
        Pots(c, sold, unsold) == Shows("pot", <<"stx", First(c)>>, sold)
                                 \o Shows("pot", <<"sbtc", First(c)>>, unsold) IN
    ChunksOf(500)
    \o Claims(4) \o Places(TRUE) \o RecoversAfterDelay \o Pots(4, 0, 1000)
    \o Claims(3)
    \o PaidOnce(4, [stx |-> 0, sbtc |-> 1000], [stx |-> 0, sbtc |-> 44])
    \o InFlight(3)
    \o Aged(288) \o Sells(500) \o RecoversAfterDelay \o Pots(3, 500, 500)
    \o Claims(2)
    \o PaidOnce(3, [stx |-> 500, sbtc |-> 500], [stx |-> 21, sbtc |-> 65])
    \o InFlight(2)
    \o Aged(288) \o WaitBlocks(1) \o Sells(500) \o WaitBlocks(1) \o Sells(500)
    \o Finalizes(2) \o Shows("pot", <<"stx", First(2)>>, 1000)
    \o Claims(1)
    \o PaidOnce(2, [stx |-> 1000], [stx |-> 65, sbtc |-> 65])
    \o InFlight(1)
    \o RecoversAfterDelay \o Pots(1, 0, 1000)
    \o PaidOnce(1, [stx |-> 0, sbtc |-> 1000], [stx |-> 65, sbtc |-> 109])
    \o IsEmpty(TRUE) \o Pending(None)

\* _vault-recovery-v6-3.mjs: recovery returns everything, wherever the market
\* holds it.
RecoveryOf(placing, position) ==
    Does("pox-5", "fixture cover", <<"PAYER", 1>>)
    \o ClaimsFor(1, 1000, [PAYER |-> 1]) \o InVault(1000)
    \o placing
    \o Shows("on the market", <<"vault">>, position)
    \o IsEmpty(FALSE)
    \o Aged(433) \o Anyone("emergency-recover", <<"vault">>)
    \o Shows("pot", <<"sbtc", First(1)>>,
              1000 + Len(SelectSeq(placing, LAMBDA step : step.fn = "send 1 sat")))
    \o Shows("on the market", <<"vault">>, <<0, 0, 0>>)
    \o InVault(0) \o IsEmpty(TRUE)

RecoveryUnplaced == RecoveryOf(<<>>, <<0, 0, 0>>)
RecoveryPending == RecoveryOf(Places(FALSE), <<0, 0, 1000>>)
RecoveryResting == RecoveryOf(Places(TRUE), <<1000, 0, 0>>)
RecoveryParked ==
    RecoveryOf(Places(TRUE) \o Anyone("market parks", <<"vault">>), <<0, 1000, 0>>)
RecoveryToppedUp ==
    RecoveryOf(Places(TRUE) \o Anyone("send 1 sat", <<"vault">>) \o Places(FALSE),
               <<1000, 0, 1>>)

-----------------------------------------------------------------------------
(* pool-vault-upgrade-stxer.mjs                                            *)

Proposes(v) == Admin("propose-swap-vault", <<v>>)
CannotPropose(v) == NotAdmin("propose-swap-vault", <<v>>)
Confirms == Admin("confirm-swap-vault", <<"vault", "next">>)
CannotConfirm == NotAdmin("confirm-swap-vault", <<"vault", "next">>)
FullNotice == Shows("blocks to notice", <<>>, 4032)

\* `step` while the vault has a running clock, a live or a parked ask.
WhileBusy(v, step) ==
    Admin("fixture position", <<v, 1, 0>>) \o step
    \o Admin("fixture position", <<v, 0, 1>>) \o step
    \o Admin("fixture position", <<v, 0, 0>>)

WhileRunning(v, step) ==
    Admin("fixture clock", <<v, TRUE>>) \o step
    \o Admin("fixture clock", <<v, FALSE>>)

\* Every call that names a vault refuses one that is not the active one.
RefusesVault(v) ==
    NotAnyone("pox-claim-rewards", <<v, 1, 1000>>)
    \o NotAnyone("finalize-swap", <<v>>)
    \o NotAnyone("emergency-recover", <<v>>)
    \o NotAdmin("refloor-vault", <<v>>)
    \o NotAdmin("set-vault-window-blocks", <<v, 1>>)
    \o NotAdmin("set-vault-max-chunk-sats", <<v, 1>>)
    \o NotAdmin("set-vault-router-cooldown", <<v, 1>>)
    \o NotAdmin("set-vault-pyth-fee-budget", <<v, 1>>)
    \o NotAdmin("jing-take", <<v, 1, None>>)
    \o NotAdmin("router-swap-split", <<v, 1, None, 2>>)
    \o NotAdmin("router-swap-split", <<v, 1, None, 0>>)

UpgradeProposal ==
    Shows("get-swap-vault", <<>>, "vault")
    \o CannotConfirm
    \o NotAnyone("propose-swap-vault", <<"next">>)
    \o NotAnyone("cancel-swap-vault-proposal", <<>>)
    \o NotAnyone("confirm-swap-vault", <<"vault", "next">>)
    \o CannotPropose("vault")
    \o WhileRunning("next", CannotPropose("next"))
    \o Anyone("send 1 sat", <<"vault">>) \o Anyone("send 1 sat", <<"next">>)
    \o WhileBusy("next", CannotPropose("next"))
    \o Proposes("next") \o FullNotice
    \o WaitBlocks(10) \o Proposes("next") \o FullNotice
    \o Admin("cancel-swap-vault-proposal", <<>>) \o CannotConfirm
    \o Proposes("next") \o WaitBlocks(4031) \o CannotConfirm \o WaitBlocks(1)

UpgradeConfirmation ==
    Admin("fixture pending", <<First(1)>>) \o CannotConfirm
    \o Admin("fixture pending", <<None>>)
    \o WhileRunning("vault", CannotConfirm)
    \o WhileRunning("next", CannotConfirm)
    \o NotAdmin("confirm-swap-vault", <<"next", "next">>)
    \o NotAdmin("confirm-swap-vault", <<"vault", "vault">>)
    \o WhileBusy("vault", CannotConfirm) \o WhileBusy("next", CannotConfirm)
    \o Confirms
    \o Shows("get-swap-vault", <<>>, "next")
    \o Shows("get-pending-swap-vault", <<>>, None)

Upgrade ==
    UpgradeProposal \o UpgradeConfirmation \o RefusesVault("vault")
    \o Admin("set-vault-window-blocks", <<"next", 0>>)
    \o Does("pox-5", "fixture shares", <<1, [PAYER |-> 1]>>)
    \o Does("pox-5", "fixture cover", <<"PAYER", 1>>)
    \o Anyone("pox-claim-rewards", <<"next", 1, 1000>>)
    \o Shows("vault sbtc", <<"next">>, 1001) \o InVault(1)
    \o Admin("router-swap-split", <<"next", 1001, 1001, 0>>)
    \o Anyone("finalize-swap", <<"next">>)
    \o Shows("pot", <<"stx", First(1)>>, 1001)
    \o Pays({"PAYER"}, First(1))
    \o Proposes("vault")
    \o NotAdmin("confirm-swap-vault", <<"next", "vault">>)
    \o Admin("cancel-swap-vault-proposal", <<>>)
=============================================================================
