----------------------------- MODULE MCJuicePool -----------------------------
(***************************************************************************)
(* The whole contract, on the smallest instance in which its components    *)
(* still meet: one vault and one cycle that is paid for.                   *)
(***************************************************************************)
EXTENDS JuicePool
=============================================================================
