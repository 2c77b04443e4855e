------------------------------ MODULE PoolCalls ------------------------------
(***************************************************************************)
(* What the steps of the simulation scripts do to JuicePool and read from  *)
(* it: contract calls, the fixtures that set the storage of pool, vault or *)
(* pox-5, and readings.                                                    *)
(***************************************************************************)
EXTENDS JuicePool, ScriptSteps

\* pox-5's shares of a cycle.
SetShares(c, stakes) ==
    /\ shares' = [shares EXCEPT ![c] =
                    [s \in Stakers |-> IF s \in DOMAIN stakes THEN stakes[s] ELSE 0]]
    /\ UNCHANGED <<poolVars, seatVars, offices, receipt, paid, paidShares,
                   earned, balance, dust>>

\* A tranche that was settled before the script begins.
SetSettled(b, sold, recovered) ==
    LET sats == IF recovered = None THEN 0 ELSE recovered IN
    /\ trancheCount' = [trancheCount EXCEPT ![b.cycle] = b.tranche + 1]
    /\ finalized' = finalized \cup {b}
    /\ stxPot' = [stxPot EXCEPT ![b] = sold]
    /\ recoveredPot' = [recoveredPot EXCEPT ![b] = recovered]
    /\ poolStx' = poolStx + sold
    /\ poolSbtc' = poolSbtc + sats
    /\ balance' = [balance EXCEPT !["stx"] = @ + sold, !["sbtc"] = @ + sats]
    /\ UNCHANGED <<vaultVars, rotation, pendingSwap, lastClaimDist, seatVars,
                   offices, shares, receipt, paid, paidShares, earned, dust>>

\* The cover of a staker, or the total, without the stake behind it.
SetCover(s, ustx) ==
    /\ ogStakers' = [ogStakers EXCEPT ![s] = ustx]
    /\ UNCHANGED <<poolVars, cycle, prepare, info, paused, cap, ogSeats,
                   ogCovered, offices, accounts>>

SetCovered(ustx) ==
    /\ ogCovered' = ustx
    /\ UNCHANGED <<poolVars, cycle, prepare, info, paused, cap, ogSeats,
                   ogStakers, offices, accounts>>

\* A batch that was funded n blocks ago.
SetAge(v, n) ==
    /\ batchStart[v] # None
    /\ batchStart' = [batchStart EXCEPT ![v] = height - n]
    /\ UNCHANGED <<height, readyToFinish, lastRouterSwap, config, coins, market,
                   gift, rotation, ledger, seatVars, offices, accounts>>

\* A batch clock, a position on the market or a pending tranche that no call
\* put there.
SetRunning(v, running) ==
    /\ batchStart' = [batchStart EXCEPT ![v] = IF running THEN height ELSE None]
    /\ UNCHANGED <<height, readyToFinish, lastRouterSwap, config, coins, market,
                   gift, rotation, ledger, seatVars, offices, accounts>>

SetPosition(v, live, pushedOut) ==
    /\ resting' = [resting EXCEPT ![v] = live]
    /\ parked' = [parked EXCEPT ![v] = pushedOut]
    /\ UNCHANGED <<height, clock, lastRouterSwap, config, coins, escrow, gift,
                   rotation, ledger, seatVars, offices, accounts>>

SetPending(b) ==
    /\ pendingSwap' = b
    /\ UNCHANGED <<vaultVars, rotation, trancheCount, lastClaimDist, finalized,
                   stxPot, recoveredPot, poolStx, poolSbtc, seatVars, offices,
                   accounts>>

Fixture(fn, a) ==
    \/ fn = "fixture shares" /\ SetShares(a[1], a[2])
    \/ fn = "fixture settled" /\ SetSettled(a[1], a[2], a[3])
    \/ fn = "fixture cover" /\ SetCover(a[1], a[2])
    \/ fn = "fixture covered" /\ SetCovered(a[1])
    \/ fn = "fixture age" /\ SetAge(a[1], a[2])
    \/ fn = "fixture clock" /\ SetRunning(a[1], a[2])
    \/ fn = "fixture position" /\ SetPosition(a[1], a[2], a[3])
    \/ fn = "fixture pending" /\ SetPending(a[1])

Perform(by, fn, a) == Call(by, fn, a) \/ Fixture(fn, a)

-----------------------------------------------------------------------------
SeatReading(fn, a) ==
    CASE fn = "is-og" -> OG!Cover(a[1]) > 0
      [] fn = "get-og-ustx" -> OG!Cover(a[1])
      [] fn = "og-staying" -> OG!Staying(a[1])
      [] fn = "get-og-status" -> <<ogSeats, ogCovered, cap>>
      [] fn = "signer of get-staker-info" ->
            IF OG!Locked(a[1]) THEN info[a[1]].signer ELSE None

GovernanceReading(fn) ==
    CASE fn = "get-admin" -> admin
      [] fn = "get-pending-admin" -> <<pendingAdmin, pendingAdminHeight>>
      [] fn = "is-paused" -> paused
      [] fn = "get-fee-bips" -> feeBips
      [] fn = "get-pending-fee" -> pendingFee

TrancheReading(fn, a) ==
    CASE fn = "get-pending-swap" -> pendingSwap
      [] fn = "get-tranche-count" -> trancheCount[a[1]]
      [] fn = "claimed this distribution" -> lastClaimDist[a[1]] = CurrentDist
      [] fn = "get-last-claim-dist-cycle" -> lastClaimDist[a[1]]
      [] fn = "get-swap-vault" -> swapVault
      [] fn = "get-pending-swap-vault" -> pendingVault
      [] fn = "blocks to notice" -> pendingVaultHeight + VaultNotice - height
      [] fn = "is finalized" -> a[1] \in finalized

VaultReading(fn, v) ==
    CASE fn = "is-empty" -> EmptyWith(v, sbtc[v])
      [] fn = "is-ready-to-finish" -> readyToFinish[v]
      [] fn = "has a batch" -> batchStart[v] # None
      [] fn = "window-open" -> WindowOpen(v)
      [] fn = "window-blocks" -> window[v]
      [] fn = "last-router-swap" -> lastRouterSwap[v]
      [] fn = "window-elapsed" -> WindowElapsed(v)
      [] fn = "vault sbtc" -> sbtc[v]
      [] fn = "vault stx" -> stx[v]
      [] fn = "on the market" -> <<resting[v], parked[v], escrow[v]>>

\* The readings of the two payout ledgers.
PayoutReading(fn, a) ==
    CASE fn = "get-cycle-total-shares" -> Pay!TotalShares(a[1])
      [] fn = "pot" -> Pay!Pot(a[1], a[2])
      [] fn = "paid" -> receipt[a[1]][a[2]][a[3]]
      [] fn = "owed" -> IF receipt[a[1]][a[2]][a[3]] = None
                        THEN Pay!Net(a[1], a[2], a[3]) ELSE 0
      [] fn = "paid-shares" -> paidShares[a[1]][a[2]]
      [] fn = "residue" -> Pay!Residue(a[1], a[2])
      [] fn = "fully-paid" -> Pay!FullyPaid(a[1], a[2])
      [] fn = "is-recovered-tranche" -> Pay!IsRecovered(a[1])
      [] fn = "earned" -> earned[a[1]]
      [] fn = "balance" -> balance[a[1]]
      [] fn = "snapshot" ->
            [paid |-> paid[a[1]][a[2]], shares |-> paidShares[a[1]][a[2]],
             residue |-> Pay!Residue(a[1], a[2]),
             full |-> Pay!FullyPaid(a[1], a[2]), fees |-> earned[a[1]],
             balance |-> balance[a[1]]]

Reading(fn, a) ==
    CASE fn \in {"is-og", "get-og-ustx", "og-staying", "get-og-status",
                 "signer of get-staker-info"} -> SeatReading(fn, a)
      [] fn \in {"get-admin", "get-pending-admin", "is-paused", "get-fee-bips",
                 "get-pending-fee"} -> GovernanceReading(fn)
      [] fn \in {"get-pending-swap", "get-tranche-count",
                 "claimed this distribution", "get-last-claim-dist-cycle",
                 "get-swap-vault", "get-pending-swap-vault",
                 "blocks to notice", "is finalized"} ->
            TrancheReading(fn, a)
      [] fn \in {"is-empty", "is-ready-to-finish", "has a batch", "window-open",
                 "window-elapsed", "window-blocks", "last-router-swap",
                 "vault sbtc", "vault stx", "on the market"} ->
            VaultReading(fn, a[1])
      [] OTHER -> PayoutReading(fn, a)
=============================================================================
