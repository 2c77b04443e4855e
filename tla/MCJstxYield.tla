----------------------------- MODULE MCJstxYield -----------------------------
(***************************************************************************)
(* Two wallets and two cycles, with rewards that do not divide evenly.     *)
(***************************************************************************)
EXTENDS JstxYield, TLC

ReorderWallets == Permutations(Wallets)
=============================================================================
