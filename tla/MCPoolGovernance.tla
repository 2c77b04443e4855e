-------------------------- MODULE MCPoolGovernance --------------------------
(***************************************************************************)
(* Three principals: the admin, a successor and an outsider.               *)
(***************************************************************************)
EXTENDS PoolGovernance
=============================================================================
