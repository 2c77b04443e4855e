----------------------------- MODULE PayScripts -----------------------------
(***************************************************************************)
(* pool-pay-batches-stxer.mjs and pool-pay-fees-stxer.mjs: settled         *)
(* tranches paid in overlapping batches, next to a model of the payments   *)
(* that the scripts keep themselves.  That model takes a batch one list    *)
(* entry at a time, repetitions included, as the contract does, where      *)
(* TranchePayouts takes a set.                                             *)
(*                                                                         *)
(* Shares are in units of 0.1 STX, fees in units of 50 basis points.       *)
(***************************************************************************)
EXTENDS PoolCalls, SequencesExt

ShareOf == [S1 |-> 10000, S2 |-> 10000, S3 |-> 5000, S4 |-> 0, S5 |-> 1,
            S6 |-> 1235, S7 |-> 20000, S8 |-> 500]
CoverOf == [S1 |-> 10000, S2 |-> 3000, S8 |-> 50000]
PayTotal == 46736

\* The ledgers: STX of three tranches, sBTC of the third, which was recovered.
PotOf == (<<"stx", 0>> :> 8003) @@ (<<"stx", 1>> :> 1511)
            @@ (<<"stx", 2>> :> 67) @@ (<<"sbtc", 2>> :> 12345)
Books == DOMAIN PotOf

TrancheOf(book) == [cycle |-> 1, tranche |-> book[2]]

-----------------------------------------------------------------------------
(* The model of the scripts.                                               *)

FirstModel(books) ==
    [fee |-> 9, paid |-> {}, gross |-> [b \in Books |-> 0],
     shares |-> [b \in Books |-> 0], fees |-> [stx |-> 0, sbtc |-> 0],
     left |-> [a \in {"stx", "sbtc"} |->
                 MapThenSumSet(LAMBDA b : PotOf[b], {b \in books : b[1] = a})]]

PayEntry(m, book, k) ==
    LET owed  == (PotOf[book] * ShareOf[k]) \div PayTotal
        cover == IF k \in DOMAIN CoverOf THEN CoverOf[k] ELSE 0
        taxed == IF ShareOf[k] > cover THEN ShareOf[k] - cover ELSE 0
        fee   == IF taxed = 0 THEN 0
                 ELSE (owed * m.fee * taxed) \div (MaxBips * ShareOf[k])
    IN IF <<book, k>> \in m.paid \/ ShareOf[k] = 0
       THEN m
       ELSE [m EXCEPT !.paid = @ \cup {<<book, k>>}, !.gross[book] = @ + owed,
                      !.shares[book] = @ + ShareOf[k], !.fees[book[1]] = @ + fee,
                      !.left[book[1]] = @ - (owed - fee)]

ModelResidue(m, book) == PotOf[book] - m.gross[book]

\* What a step of a script does to the model.
Play(m, op) ==
    CASE op.is = "batch" ->
            FoldLeft(LAMBDA n, k : PayEntry(n, op.book, k), m, op.list)
      [] op.is = "sweep" ->
            [m EXCEPT !.gross[op.book] = PotOf[op.book],
                      !.left[op.book[1]] = @ - ModelResidue(m, op.book)]
      [] op.is = "withdraw" ->
            LET part == m.fees[op.asset] \div op.parts IN
            [m EXCEPT !.fees[op.asset] = @ - part, !.left[op.asset] = @ - part]
      [] op.is = "fee" -> [m EXCEPT !.fee = op.bips]
      [] OTHER -> m

Snapshot(m, book) ==
    [paid |-> m.gross[book], shares |-> m.shares[book],
     residue |-> ModelResidue(m, book), full |-> m.shares[book] >= PayTotal,
     fees |-> m.fees[book[1]], balance |-> m.left[book[1]]]

-----------------------------------------------------------------------------
(* The steps of a script, and what they must do given the model before.    *)

Batch(book, list) == <<[is |-> "batch", book |-> book, list |-> list]>>
EarlySweep(book) == <<[is |-> "early sweep", book |-> book]>>
SweepAll(book) == <<[is |-> "sweep", book |-> book]>>
Withdraw(asset, parts) == <<[is |-> "withdraw", asset |-> asset, parts |-> parts]>>
ChangeFee(bips) == <<[is |-> "fee", bips |-> bips]>>

PayFn(book) ==
    IF book[1] = "stx" THEN "pay-stx-stakers" ELSE "pay-recovered-sbtc-stakers"
SweepFn(book) ==
    IF book[1] = "stx" THEN "sweep-tranche-dust" ELSE "sweep-recovered-sbtc-dust"
WithdrawFn(asset) ==
    IF asset = "stx" THEN "withdraw-fees" ELSE "withdraw-sbtc-fees"

BatchSteps(op, m) ==
    Does("stranger", PayFn(op.book), <<ToSet(op.list), TrancheOf(op.book)>>)
    \o Shows("snapshot", <<op.book[1], TrancheOf(op.book)>>,
             Snapshot(Play(m, op), op.book))

SweepSteps(op, m) ==
    (IF ModelResidue(m, op.book) > 0
     THEN Does("deployer", SweepFn(op.book), <<TrancheOf(op.book)>>)
     ELSE <<>>)
    \o Shows("snapshot", <<op.book[1], TrancheOf(op.book)>>,
             Snapshot(Play(m, op), op.book))
    \o Refuses("deployer", SweepFn(op.book), <<TrancheOf(op.book)>>)

WithdrawSteps(op, m) ==
    Refuses("deployer", WithdrawFn(op.asset), <<m.fees[op.asset] + 1>>)
    \o Does("deployer", WithdrawFn(op.asset), <<m.fees[op.asset] \div op.parts>>)
    \o Shows("earned", <<op.asset>>, Play(m, op).fees[op.asset])

FeeSteps(op) ==
    Does("deployer", "propose-fee-bips", <<op.bips>>)
    \o Refuses("deployer", "confirm-fee-bips", <<>>)
    \o Does("stranger", "advance", <<145>>)
    \o Does("deployer", "confirm-fee-bips", <<>>)
    \o Shows("get-fee-bips", <<>>, op.bips)

StepsOf(op, m) ==
    CASE op.is = "batch" -> BatchSteps(op, m)
      [] op.is = "early sweep" ->
            Refuses("deployer", SweepFn(op.book), <<TrancheOf(op.book)>>)
      [] op.is = "sweep" -> SweepSteps(op, m)
      [] op.is = "withdraw" -> WithdrawSteps(op, m)
      [] op.is = "fee" -> FeeSteps(op)

ScriptOf(first, ops) ==
    FlattenSeq([i \in DOMAIN ops |->
                  StepsOf(ops[i], FoldLeft(Play, first, SubSeq(ops, 1, i - 1)))])

PayFixtures ==
    Does("pox-5", "fixture shares", <<1, ShareOf>>)
    \o Shows("get-cycle-total-shares", <<1>>, PayTotal)
    \o Shows("get-fee-bips", <<>>, 9)
    \o Does("deployer", "fixture cover", <<"S1", CoverOf.S1>>)
    \o Does("deployer", "fixture cover", <<"S2", CoverOf.S2>>)
    \o Does("deployer", "fixture cover", <<"S8", CoverOf.S8>>)
    \o Does("deployer", "fixture settled", <<TrancheOf(<<"stx", 0>>), 8003, None>>)
    \o Does("deployer", "fixture settled", <<TrancheOf(<<"stx", 1>>), 1511, None>>)

\* The first two batches of both scripts, for tranche 0.
FirstBatches ==
    Batch(<<"stx", 0>>, <<"S1", "S2", "S2", "S4">>)
    \o Batch(<<"stx", 0>>, <<"S2", "S3", "S1", "S5", "S3">>)

LastBatches ==
    Batch(<<"stx", 0>>, <<"S4", "S1">>)
    \o EarlySweep(<<"stx", 0>>)
    \o Batch(<<"stx", 0>>, <<"S6", "S7", "S8">>)
    \o SweepAll(<<"stx", 0>>)

WholeBatch ==
    Batch(<<"stx", 1>>, <<"S8", "S7", "S6", "S5", "S4", "S3", "S2", "S1", "S1", "S2">>)
    \o SweepAll(<<"stx", 1>>)

\* pool-pay-batches-stxer.mjs
PayBatches ==
    PayFixtures
    \o ScriptOf(FirstModel({<<"stx", 0>>, <<"stx", 1>>}),
         FirstBatches \o LastBatches \o Batch(<<"stx", 1>>, <<"S4">>) \o WholeBatch
         \o Withdraw("stx", 1))
    \o Shows("balance", <<"stx">>, 0)

\* pool-pay-fees-stxer.mjs: the fee changes twice between the batches, and
\* tranche 2 was recovered, so it is paid in both assets.
PayFees ==
    PayFixtures
    \o Does("deployer", "fixture settled", <<TrancheOf(<<"stx", 2>>), 67, 12345>>)
    \o Shows("is-recovered-tranche", <<TrancheOf(<<"stx", 1>>)>>, FALSE)
    \o Shows("is-recovered-tranche", <<TrancheOf(<<"stx", 2>>)>>, TRUE)
    \o Refuses("stranger", "pay-recovered-sbtc-stakers", <<{"S3"}, TrancheOf(<<"stx", 0>>)>>)
    \o ScriptOf(FirstModel(Books),
         FirstBatches \o Withdraw("stx", 3) \o ChangeFee(4) \o LastBatches
         \o WholeBatch
         \o Batch(<<"sbtc", 2>>, <<"S1", "S5", "S4">>)
         \o Batch(<<"sbtc", 2>>, <<"S2", "S3", "S2", "S1">>)
         \o Withdraw("sbtc", 2) \o EarlySweep(<<"sbtc", 2>>) \o ChangeFee(10)
         \o Batch(<<"sbtc", 2>>, <<"S4", "S5", "S1">>)
         \o Batch(<<"stx", 2>>, <<"S1", "S3", "S5", "S7">>)
         \o Batch(<<"sbtc", 2>>, <<"S8", "S7", "S6", "S3">>)
         \o Batch(<<"stx", 2>>, <<"S2", "S4", "S6", "S8", "S1">>)
         \o SweepAll(<<"sbtc", 2>>) \o SweepAll(<<"stx", 2>>)
         \o Withdraw("stx", 1) \o Withdraw("sbtc", 1))
    \o Shows("balance", <<"stx">>, 0)
    \o Shows("balance", <<"sbtc">>, 0)
=============================================================================
