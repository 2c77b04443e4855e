-------------------------- MODULE MCTranchePayouts --------------------------
(***************************************************************************)
(* Pots that do not divide evenly, one of them recovered, for stakers with *)
(* shares and without.                                                     *)
(***************************************************************************)
EXTENDS TranchePayouts

SoldOrRecovered ==
    {[stx |-> 10, sbtc |-> None], [stx |-> 3, sbtc |-> 7]}
=============================================================================
