----------------------------- MODULE SeatScripts -----------------------------
(***************************************************************************)
(* The simulation scripts about OG seats and the admin's hand-over.        *)
(* Amounts are in STX, fees in units of 50 basis points; a script's cycle  *)
(* C is cycle 0.                                                           *)
(***************************************************************************)
EXTENDS PoolCalls

NewCycle == Does("pox-5", "next phase", <<>>) \o Does("pox-5", "next phase", <<>>)

\* The rest of a cycle whose prepare phase has begun.
EndCycle == Does("pox-5", "next phase", <<>>)

Stakes(who, amount) == Does(who, "stake", <<"pool", amount, 96>>)
Unstakes(who) == Does(who, "unstake", <<>>)
Joins(who) == Does(who, "stake-update", <<"pool", 0, 0>>)
Leaves(who) == Does(who, "stake-update", <<"other", 0, 0>>)
TopsUp(who, increase) == Does(who, "stake-update", <<"pool", 0, increase>>)
Evicts(who) == Does("stranger", "evict-og", <<who>>)
CannotEvict(who) == Refuses("stranger", "evict-og", <<who>>)
Covered(who, ustx) == Shows("get-og-ustx", <<who>>, ustx)
StaysWithPool(who, want) == Shows("og-staying", <<who>>, want)
SignerIs(who, want) == Shows("signer of get-staker-info", <<who>>, want)
Status(n, covered) == Shows("get-og-status", <<>>, <<n, covered, 2100000>>)

\* Two stakers who are locked at other signers when the script begins.
Hoppers ==
    Does("HOP", "stake", <<"other", 200000, 12>>)
    \o Does("HOP2", "stake", <<"other", 509, 12>>)
    \o SignerIs("HOP", "other")
    \o SignerIs("HOP2", "other")
    \o StaysWithPool("HOP", FALSE)
    \o Status(0, 0)

-----------------------------------------------------------------------------
\* pool-og-cap-stxer.mjs: seats have no deadline, the cap is their only end.
\* (A cover fixture moves the covered total, and the seats are counted.)
OgCap ==
    Does("A", "stake", <<"pool", 400, 12>>)
    \o Shows("is-og", <<"A">>, TRUE)
    \o Does("pox-5", "next phase", <<>>)
    \o Refuses("PREP", "stake", <<"pool", 400, 96>>)
    \o Shows("is-og", <<"PREP">>, FALSE)
    \o EndCycle
    \o Stakes("B", 400)
    \o Shows("is-og", <<"B">>, TRUE)
    \o NewCycle
    \o Stakes("C", 400)
    \o Shows("is-og", <<"C">>, TRUE)
    \o Does("A", "stake-update", <<"pool", 5, 0>>)
    \o Covered("A", 400)
    \o Status(3, 1200)
    \o Does("deployer", "fixture covered", <<2100000 - 300>>)
    \o Stakes("D", 400)
    \o Covered("D", 300)
    \o Stakes("E", 300)
    \o Shows("is-og", <<"E">>, FALSE)
    \o Status(4, 2100000)
    \o Does("deployer", "raise-og-cap", <<2200000>>)
    \o TopsUp("E", 100)
    \o Covered("E", 400)
    \o Refuses("stranger", "raise-og-cap", <<2300000>>)
    \o Refuses("deployer", "raise-og-cap", <<2200000>>)
    \o Refuses("deployer", "raise-og-cap", <<2100000>>)
    \o Shows("get-og-status", <<>>, <<5, 2100400, 2200000>>)

\* pool-og-shrink-stxer.mjs: a lock that ended and a smaller stake give the
\* rest of a cover back; a stake of 0 gives the seat back.
OgShrink ==
    Hoppers
    \o Joins("HOP") \o Covered("HOP", 200000)
    \o Stakes("ZERO", 10) \o Status(2, 200010)
    \o Unstakes("HOP") \o Unstakes("ZERO")
    \o StaysWithPool("HOP", TRUE) \o CannotEvict("HOP")
    \o NewCycle
    \o SignerIs("HOP", None)
    \o StaysWithPool("HOP", FALSE)
    \o Covered("HOP", 200000)
    \o Stakes("HOP", 1)
    \o StaysWithPool("HOP", TRUE) \o CannotEvict("HOP")
    \o Covered("HOP", 1)
    \o Shows("is-og", <<"HOP">>, TRUE)
    \o Status(2, 11)
    \o Stakes("LATE", 1000) \o Covered("LATE", 1000) \o Status(3, 1011)
    \o Joins("HOP") \o Covered("HOP", 1)
    \o TopsUp("HOP", 5) \o Covered("HOP", 6) \o Status(3, 1016)
    \o StaysWithPool("ZERO", FALSE)
    \o Stakes("ZERO", 0)
    \o Shows("is-og", <<"ZERO">>, FALSE) \o Covered("ZERO", 0)
    \o Status(2, 1006)
    \o CannotEvict("ZERO")
    \o Status(2, 1006)

\* pool-og-evict-stxer.mjs: hopping in and out within a cycle, eviction in
\* the prepare phase, and after an unstake only once the lock has ended.
OgEvict ==
    Hoppers
    \o CannotEvict("PREP") \o CannotEvict("HOP")
    \o Joins("HOP") \o Covered("HOP", 200000)
    \o StaysWithPool("HOP", TRUE) \o Status(1, 200000)
    \o CannotEvict("HOP") \o Covered("HOP", 200000)
    \o Leaves("HOP") \o SignerIs("HOP", "other") \o StaysWithPool("HOP", FALSE)
    \o Shows("is-og", <<"HOP">>, TRUE)
    \o Evicts("HOP") \o Shows("is-og", <<"HOP">>, FALSE) \o Status(0, 0)
    \o CannotEvict("HOP")
    \o Joins("HOP") \o Covered("HOP", 200000) \o Status(1, 200000)
    \o Joins("HOP2") \o Covered("HOP2", 509)
    \o Leaves("HOP2") \o StaysWithPool("HOP2", FALSE)
    \o Stakes("UNS", 500) \o Covered("UNS", 500)
    \o Unstakes("UNS") \o SignerIs("UNS", "pool") \o StaysWithPool("UNS", TRUE)
    \o CannotEvict("UNS") \o Status(3, 201009)
    \o Does("pox-5", "next phase", <<>>)
    \o Refuses("HOP2", "stake-update", <<"pool", 0, 0>>)
    \o StaysWithPool("HOP2", FALSE)
    \o Evicts("HOP2") \o CannotEvict("HOP") \o CannotEvict("UNS")
    \o Status(2, 200500)
    \o EndCycle
    \o SignerIs("UNS", None) \o StaysWithPool("UNS", FALSE)
    \o Evicts("UNS") \o CannotEvict("HOP") \o Status(1, 200000)
    \o Stakes("UNS", 500) \o Covered("UNS", 500) \o StaysWithPool("UNS", TRUE)
    \o Status(2, 200500)

\* pool-og-seats-stxer.mjs: a top-up grows the seat, and a payout charges the
\* shares above it.
OgSeatsAndPay ==
    LET b == [cycle |-> 1, tranche |-> 0] IN
    Stakes("UNDER", 499) \o Shows("is-og", <<"UNDER">>, TRUE)
    \o Covered("UNDER", 499)
    \o TopsUp("UNDER", 100) \o Covered("UNDER", 599)
    \o Stakes("OG1", 600) \o Shows("is-og", <<"OG1">>, TRUE) \o Covered("OG1", 600)
    \o TopsUp("OG1", 100) \o Covered("OG1", 700)
    \o Status(2, 1299)
    \o Does("deployer", "propose-fee-bips", <<10>>)
    \o Does("stranger", "advance", <<144>>)
    \o Does("deployer", "confirm-fee-bips", <<>>)
    \o Does("pox-5", "fixture shares", <<1, [OG1 |-> 1000, PAYER |-> 1000]>>)
    \o Does("stranger", "pox-claim-rewards", <<"vault", 1, 1000>>)
    \o Does("stranger", "jing-place", <<"vault", TRUE>>)
    \o Does("deployer", "set-vault-max-chunk-sats", <<"vault", 500>>)
    \o Does("deployer", "fixture age", <<"vault", 288>>)
    \o Does("stranger", "jing-reclaim", <<"vault">>)
    \o Does("stranger", "router-swap", <<"vault", 500>>)
    \o Does("stranger", "advance", <<1>>)
    \o Does("stranger", "router-swap", <<"vault", 500>>)
    \o Does("stranger", "finalize-swap", <<"vault">>)
    \o Shows("owed", <<"stx", b, "OG1">>, 500 - (500 * 10 * 300) \div (200 * 1000))
    \o Shows("owed", <<"stx", b, "PAYER">>, 500 - (500 * 10) \div 200)
    \o Does("stranger", "pay-stx-stakers", <<{"OG1", "PAYER"}, b>>)
    \o Shows("paid", <<"stx", b, "OG1">>, 493)
    \o Shows("paid", <<"stx", b, "PAYER">>, 475)
    \o Shows("earned", <<"stx">>, 32)

-----------------------------------------------------------------------------
NotAccepted(who) == Refuses(who, "accept-admin", <<>>)
Blocks(n) == Does("stranger", "advance", <<n>>)

\* pool-admin-handover-stxer.mjs: a proposal that is replaced or cancelled
\* waits anew, only the nominee accepts, and the old admin is out.
AdminHandover ==
    NotAccepted("ALICE")
    \o Refuses("BOB", "propose-admin", <<"ALICE">>)
    \o Does("deployer", "propose-admin", <<"ALICE">>)
    \o Shows("get-admin", <<>>, "deployer")
    \o NotAccepted("ALICE") \o NotAccepted("BOB") \o NotAccepted("deployer")
    \o Refuses("ALICE", "set-paused", <<TRUE>>)
    \o Does("deployer", "set-paused", <<FALSE>>)
    \o Refuses("BOB", "cancel-admin-proposal", <<>>)
    \o Blocks(143) \o NotAccepted("ALICE")
    \o Does("deployer", "propose-admin", <<"BOB">>)
    \o Blocks(1) \o NotAccepted("ALICE") \o NotAccepted("BOB")
    \o Does("deployer", "cancel-admin-proposal", <<>>)
    \o Shows("get-pending-admin", <<>>, <<None, 0>>)
    \o NotAccepted("BOB")
    \o Shows("get-admin", <<>>, "deployer")
    \o Does("deployer", "propose-admin", <<"BOB">>)
    \o Blocks(143) \o NotAccepted("BOB")
    \o Blocks(1) \o Does("BOB", "accept-admin", <<>>)
    \o Shows("get-admin", <<>>, "BOB")
    \o Shows("get-pending-admin", <<>>, <<None, 0>>)
    \o NotAccepted("BOB")
    \o Refuses("deployer", "set-paused", <<TRUE>>)
    \o Refuses("deployer", "propose-admin", <<"ALICE">>)
    \o Refuses("deployer", "cancel-admin-proposal", <<>>)
    \o Does("BOB", "set-paused", <<TRUE>>)
    \o Shows("is-paused", <<>>, TRUE)
    \o Does("BOB", "set-paused", <<FALSE>>)
    \o Does("BOB", "propose-admin", <<"ALICE">>)
    \o Blocks(143) \o NotAccepted("ALICE")
    \o Blocks(1) \o Does("ALICE", "accept-admin", <<>>)
    \o Shows("get-admin", <<>>, "ALICE")
    \o Refuses("BOB", "set-paused", <<TRUE>>)
    \o Does("ALICE", "set-paused", <<FALSE>>)
=============================================================================
