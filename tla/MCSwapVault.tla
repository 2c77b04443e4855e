----------------------------- MODULE MCSwapVault -----------------------------
(***************************************************************************)
(* The swap vault alone, under a pool that calls it whenever it may.       *)
(***************************************************************************)
EXTENDS SwapVault

=============================================================================
