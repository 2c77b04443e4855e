----------------------------- MODULE MCJstxCore -----------------------------
(***************************************************************************)
(* Two users, two stackers of equal weight and a single receipt.           *)
(***************************************************************************)
EXTENDS JstxCore

EqualWeight == [s \in Stackers |-> Precision \div Cardinality(Stackers)]
=============================================================================
