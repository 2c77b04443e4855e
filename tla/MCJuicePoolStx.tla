--------------------------- MODULE MCJuicePoolStx ---------------------------
(***************************************************************************)
(* The earlier pool with two principals, one of them the admin.            *)
(***************************************************************************)
EXTENDS JuicePoolStx
=============================================================================
