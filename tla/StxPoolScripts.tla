--------------------------- MODULE StxPoolScripts ---------------------------
(***************************************************************************)
(* The simulation scripts of the earlier pool, replayed on JuicePoolStx.   *)
(*                                                                         *)
(* Amounts are scaled: a share is 1000 STX, a unit of reward is 100 sats,  *)
(* of which pox-5 keeps 15%; heights count from the start of reward cycle  *)
(* 140, which is cycle 0 here.                                             *)
(***************************************************************************)
EXTENDS JuicePoolStx, ScriptSteps, SequencesExt

VARIABLES
    script,  \* the script that is running
    line     \* its next step

stxScriptVars == <<stxPoolVars, script, line>>

\* The eight stakers of the scripts, and their stakes.
StakeOf == [s1 |-> 238, s2 |-> 113, s3 |-> 60, s4 |-> 60, s5 |-> 42,
            s6 |-> 26, s7 |-> 18, s8 |-> 10]
Eight == DOMAIN StakeOf
Everyone == <<"s1", "s2", "s3", "s4", "s5", "s6", "s7", "s8">>

\* The deployer is the admin; the friedgerpool account is staked elsewhere.
ScriptPrincipals == Eight \cup {"deployer", "friedger", "stranger"}

\* What pox-5 credits to the pool for an injection of 1 sBTC.
Pot == 850000

T0 == [cycle |-> 1, tranche |-> 0]
T1 == [cycle |-> 1, tranche |-> 1]
Unstaked == [cycle |-> 0, tranche |-> 0]

-----------------------------------------------------------------------------
(* Calls and readings.                                                     *)

Call(by, fn, a) ==
    \/ fn = "advance" /\ Advance(a[1])
    \/ fn = "stake" /\ Stake(by, a[1], LastCycle)
    \/ fn = "stake-elsewhere" /\ StakeElsewhere(by, LastCycle)
    \/ fn = "unstake" /\ Unstake(by)
    \/ fn = "calculate-rewards" /\ CalculateRewards(a[1])
    \/ fn = "pox-claim-rewards" /\ PoxClaimRewards(a[1])
    \/ fn = "pay-stx-stakers" /\ PayStxStakers(a[1], a[2])
    \/ fn = "sweep-tranche-dust" /\ SweepTrancheDust(by, a[1])
    \/ fn = "withdraw-fees" /\ WithdrawFees(by, a[1])
    \/ fn = "withdraw-all-fees" /\ WithdrawFees(by, earnedFees)
    \/ fn = "propose-fee-bips" /\ ProposeFeeBips(by, a[1])
    \/ fn = "confirm-fee-bips" /\ ConfirmFeeBips(by)
    \/ fn = "cancel-fee-bips" /\ CancelFeeBips(by)
    \/ fn = "set-og" /\ SetOg(by, a[1], a[2])
    \/ fn = "set-paused" /\ SetPaused(by, a[1])
    \/ fn = "set-admin" /\ SetAdmin(by, a[1])

Reading(fn, a) ==
    CASE fn = "current-pox-reward-cycle" -> CurrentCycle
      [] fn = "get-admin" -> admin
      [] fn = "is-paused" -> paused
      [] fn = "get-fee-bips" -> feeBips
      [] fn = "get-pending-fee" -> pendingFee
      [] fn = "get-earned-fees" -> earnedFees
      [] fn = "is-og" -> a[1] \in ogStakers
      [] fn = "get-effective-fee-bips" -> FeeOf(a[1])
      [] fn = "get-unclaimed-signer-rewards" -> unclaimed[a[1]]
      [] fn = "get-last-claim-dist-cycle" -> lastClaimDist[a[1]]
      [] fn = "get-tranche-count" -> trancheCount[a[1]]
      [] fn = "get-stx-pot" -> stxPot[a[1]]
      [] fn = "get-tranche-paid" -> tranchePaid[a[1]]
      [] fn = "get-tranche-paid-shares" -> tranchePaidShares[a[1]]
      [] fn = "get-tranche-residue" -> Residue(a[1])
      [] fn = "get-stx-paid" -> stxPaid[a[1]][a[2]]
      [] fn = "get-stx-owed" -> IF stxPaid[a[1]][a[2]] = None
                                THEN Owed(a[1], a[2]) - Fee(a[1], a[2])
                                ELSE 0
      [] fn = "is-tranche-fully-paid" -> FullyPaid(a[1])
      [] fn = "get-cycle-total-shares" -> TotalShares(a[1])
      [] fn = "get-staker-shares" -> shares[a[1]][a[2]]

-----------------------------------------------------------------------------
(* What most scripts start with: a 5% fee is proposed, three OGs are named *)
(* and the stakers stake; cycle 1 runs into its second half; the fee is    *)
(* confirmed and the first rewards are claimed as tranche 0.               *)

StakeAll(stakers) ==
    FlattenSeq([i \in DOMAIN stakers |->
                  Does(stakers[i], "stake", <<StakeOf[stakers[i]]>>)])

StakeInCycle0(stakers) ==
    Does("stranger", "advance", <<250>>)
    \o Does("deployer", "propose-fee-bips", <<500>>)
    \o Does("deployer", "set-og", <<"s1", TRUE>>)
    \o Does("deployer", "set-og", <<"s3", TRUE>>)
    \o Does("deployer", "set-og", <<"s6", TRUE>>)
    \o StakeAll(stakers)
    \o Does("friedger", "stake-elsewhere", <<>>)
    \o Refuses("friedger", "stake", <<1>>)

OpenTranche0 ==
    Does("stranger", "advance", <<2900>>)
    \o Shows("current-pox-reward-cycle", <<>>, 1)
    \o Does("deployer", "confirm-fee-bips", <<>>)
    \o Shows("get-fee-bips", <<>>, 500)
    \o Does("stranger", "calculate-rewards", <<Pot>>)
    \o Shows("get-unclaimed-signer-rewards", <<1>>, Pot)
    \o Does("stranger", "pox-claim-rewards", <<1>>)
    \o Shows("get-tranche-count", <<1>>, 1)
    \o Shows("get-stx-pot", <<T0>>, Pot)
    \o Shows("get-effective-fee-bips", <<"s2">>, 500)
    \o Shows("get-effective-fee-bips", <<"s1">>, 0)

\* All stakers but one are paid for tranche 0, so it cannot be swept.
PayAllButOne ==
    Does("stranger", "pay-stx-stakers", <<Eight \ {"s5"}, T0>>)
    \o Shows("is-tranche-fully-paid", <<T0>>, FALSE)
    \o Shows("get-stx-paid", <<T0, "s1">>, (Pot * 238) \div 567)
    \o Shows("get-stx-paid", <<T0, "s5">>, None)
    \o Refuses("deployer", "sweep-tranche-dust", <<T0>>)

\* pool-stx-signer-tranche-sim.mjs: the contract after deployment.
TrancheSim ==
    Does("stranger", "advance", <<250>>)
    \o Shows("get-admin", <<>>, "deployer")
    \o Shows("get-fee-bips", <<>>, 0)
    \o Shows("get-earned-fees", <<>>, 0)
    \o Shows("is-og", <<"deployer">>, FALSE)
    \o Shows("get-tranche-count", <<1>>, 0)
    \o Shows("get-stx-pot", <<T0>>, 0)
    \o Shows("get-tranche-paid", <<T0>>, 0)
    \o Shows("get-tranche-paid-shares", <<T0>>, 0)
    \o Shows("get-tranche-residue", <<T0>>, 0)
    \o Shows("get-stx-owed", <<T0, "deployer">>, 0)
    \o Does("deployer", "propose-fee-bips", <<500>>)
    \o Shows("get-pending-fee", <<>>, 500)
    \o Refuses("deployer", "confirm-fee-bips", <<>>)
    \o Refuses("deployer", "propose-fee-bips", <<2500>>)
    \o Shows("get-fee-bips", <<>>, 0)
    \o Does("deployer", "set-og", <<"deployer", TRUE>>)
    \o Shows("is-og", <<"deployer">>, TRUE)
    \o Shows("get-effective-fee-bips", <<"deployer">>, 0)
    \o Does("deployer", "set-og", <<"deployer", FALSE>>)
    \o Shows("is-og", <<"deployer">>, FALSE)
    \o Refuses("deployer", "pox-claim-rewards", <<1>>)
    \o Shows("get-tranche-count", <<1>>, 0)
    \o Does("deployer", "pay-stx-stakers", <<{}, T0>>)
    \o Does("deployer", "pay-stx-stakers", <<{"deployer"}, T0>>)
    \o Refuses("deployer", "withdraw-fees", <<1>>)
    \o Refuses("deployer", "sweep-tranche-dust", <<T0>>)
    \o Refuses("friedger", "propose-fee-bips", <<100>>)

\* pool-stx-signer-lifecycle-sim.mjs: a hole in tranche 0 does not harm tranche
\* 1 and is filled later.  The last step differs from its label ("ok u0"): a
\* withdrawal of 0 is a token transfer of 0, which fails.
LifecycleSim ==
    StakeInCycle0(Everyone) \o OpenTranche0 \o PayAllButOne
    \o Does("stranger", "advance", <<1050>>)
    \o Does("stranger", "calculate-rewards", <<Pot>>)
    \o Does("stranger", "pox-claim-rewards", <<1>>)
    \o Shows("get-tranche-count", <<1>>, 2)
    \o Shows("get-stx-pot", <<T1>>, Pot)
    \o Does("stranger", "pay-stx-stakers", <<Eight, T1>>)
    \o Shows("is-tranche-fully-paid", <<T1>>, TRUE)
    \o Shows("is-tranche-fully-paid", <<T0>>, FALSE)
    \o Does("stranger", "pay-stx-stakers", <<{"s5"}, T0>>)
    \o Shows("is-tranche-fully-paid", <<T0>>, TRUE)
    \o Does("stranger", "pay-stx-stakers", <<Eight, T0>>)
    \o Shows("get-tranche-paid-shares", <<T0>>, 567)
    \o Does("deployer", "sweep-tranche-dust", <<T0>>)
    \o Shows("get-tranche-residue", <<T0>>, 0)
    \o Refuses("deployer", "sweep-tranche-dust", <<T0>>)
    \o Does("deployer", "sweep-tranche-dust", <<T1>>)
    \o Refuses("deployer", "withdraw-fees", <<1000000>>)
    \o Does("deployer", "withdraw-all-fees", <<>>)
    \o Shows("get-earned-fees", <<>>, 0)
    \o Refuses("deployer", "withdraw-all-fees", <<>>)

\* pool-stx-signer-late-claim-sim.mjs: the second rewards of a cycle are
\* claimed and paid two cycles late.
LateClaimSim ==
    StakeInCycle0(Everyone) \o OpenTranche0 \o PayAllButOne
    \o Does("stranger", "advance", <<1050>>)
    \o Does("stranger", "calculate-rewards", <<Pot>>)
    \o Shows("get-unclaimed-signer-rewards", <<1>>, Pot)
    \o Shows("get-tranche-count", <<1>>, 1)
    \o Does("stranger", "advance", <<4200>>)
    \o Shows("current-pox-reward-cycle", <<>>, 4)
    \o Shows("get-unclaimed-signer-rewards", <<1>>, Pot)
    \o Shows("get-last-claim-dist-cycle", <<1>>, 3)
    \o Does("stranger", "pox-claim-rewards", <<1>>)
    \o Shows("get-tranche-count", <<1>>, 2)
    \o Shows("get-stx-pot", <<T1>>, Pot)
    \o Does("stranger", "pay-stx-stakers", <<Eight, T1>>)
    \o Shows("is-tranche-fully-paid", <<T1>>, TRUE)
    \o Shows("get-stx-paid", <<T1, "s1">>, (Pot * 238) \div 567)
    \o Shows("is-tranche-fully-paid", <<T0>>, FALSE)

\* pool-stx-signer-guards-sim.mjs: one tranche per distribution cycle, the
\* pause, and calls that are the admin's alone.
GuardsSim ==
    StakeInCycle0(SubSeq(Everyone, 1, 7)) \o OpenTranche0
    \o Shows("get-last-claim-dist-cycle", <<1>>, 3)
    \o Refuses("stranger", "pox-claim-rewards", <<1>>)
    \o Shows("get-tranche-count", <<1>>, 1)
    \o Shows("is-paused", <<>>, FALSE)
    \o Does("deployer", "set-paused", <<TRUE>>)
    \o Shows("is-paused", <<>>, TRUE)
    \o Refuses("s8", "stake", <<10>>)
    \o Shows("get-cycle-total-shares", <<2>>, 557)
    \o Does("deployer", "set-paused", <<FALSE>>)
    \o Does("s8", "stake", <<10>>)
    \o Refuses("friedger", "withdraw-fees", <<1>>)
    \o Refuses("friedger", "withdraw-all-fees", <<>>)
    \o Refuses("friedger", "sweep-tranche-dust", <<T0>>)
    \o Refuses("friedger", "set-og", <<"friedger", TRUE>>)
    \o Refuses("friedger", "set-paused", <<TRUE>>)
    \o Refuses("friedger", "set-admin", <<"friedger">>)
    \o Shows("get-admin", <<>>, "deployer")
    \o Shows("get-earned-fees", <<>>, 0)

\* pool-stx-signer-coverage-sim.mjs: a name listed twice or without shares, a
\* staker who leaves, a cancelled fee, a cycle nobody staked, a new admin.
CoverageSim ==
    StakeInCycle0(Everyone) \o OpenTranche0
    \o Shows("get-stx-paid", <<T0, "s1">>, None)
    \o Does("stranger", "pay-stx-stakers", <<{"s1", "stranger"}, T0>>)
    \o Shows("get-stx-paid", <<T0, "s1">>, (Pot * 238) \div 567)
    \o Shows("get-stx-paid", <<T0, "stranger">>, None)
    \o Shows("get-tranche-paid-shares", <<T0>>, 238)
    \o Shows("get-staker-shares", <<1, "s2">>, 113)
    \o Does("s2", "unstake", <<>>)
    \o Shows("get-staker-shares", <<1, "s2">>, 113)
    \o Shows("get-staker-shares", <<2, "s2">>, 0)
    \o Does("stranger", "pay-stx-stakers", <<{"s2"}, T0>>)
    \o Shows("get-tranche-paid-shares", <<T0>>, 238 + 113)
    \o Does("deployer", "propose-fee-bips", <<1000>>)
    \o Shows("get-pending-fee", <<>>, 1000)
    \o Does("deployer", "cancel-fee-bips", <<>>)
    \o Shows("get-pending-fee", <<>>, None)
    \o Refuses("deployer", "confirm-fee-bips", <<>>)
    \o Shows("get-fee-bips", <<>>, 500)
    \o Shows("get-cycle-total-shares", <<0>>, 0)
    \o Does("stranger", "pay-stx-stakers", <<{"s1"}, Unstaked>>)
    \o Shows("get-stx-paid", <<Unstaked, "s1">>, None)
    \o Does("deployer", "set-admin", <<"friedger">>)
    \o Shows("get-admin", <<>>, "friedger")
    \o Refuses("deployer", "set-og", <<"s1", TRUE>>)
    \o Does("friedger", "set-og", <<"s1", TRUE>>)
    \o Shows("is-og", <<"s1">>, TRUE)

StxScripts ==
    [tranche |-> TrancheSim, lifecycle |-> LifecycleSim,
     lateClaim |-> LateClaimSim, guards |-> GuardsSim, coverage |-> CoverageSim]

-----------------------------------------------------------------------------
StxScriptInit ==
    /\ StxPoolInit
    /\ script \in DOMAIN StxScripts \cup {None}
    /\ line = 1

Running == script # None /\ line \in DOMAIN StxScripts[script]

Step == StxScripts[script][line]

StxScriptNext ==
    /\ Running
    /\ line' = line + 1
    /\ UNCHANGED script
    /\ IF Step.kind = "does"
       THEN Call(Step.by, Step.fn, Step.args)
       ELSE UNCHANGED stxPoolVars

StxScriptSpec == StxScriptInit /\ [][StxScriptNext]_stxScriptVars

-----------------------------------------------------------------------------
\* The model does what the scripts found the contract to do: the calls they
\* expect to succeed are enabled, those they expect to fail are not, and the
\* readings have the values they expect.
StxScriptsAgree ==
    Running =>
        CASE Step.kind = "does"    -> ENABLED Call(Step.by, Step.fn, Step.args)
          [] Step.kind = "refuses" -> ~ENABLED Call(Step.by, Step.fn, Step.args)
          [] Step.kind = "shows"   -> Reading(Step.fn, Step.args) = Step.want
=============================================================================
