------------------------------ MODULE MCOgSeats ------------------------------
(***************************************************************************)
(* Two stakers who compete for the cap, one of whom may leave and return.  *)
(***************************************************************************)
EXTENDS OgSeats, TLC

ReorderStakers == Permutations(Stakers)
=============================================================================
