---------------------------- MODULE MCRewardPool ----------------------------
(***************************************************************************)
(* The pool with three vaults and two cycles, so that two rotations race   *)
(* claims and recovery.                                                    *)
(***************************************************************************)
EXTENDS RewardPool
=============================================================================
