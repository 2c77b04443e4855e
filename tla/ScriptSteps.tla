----------------------------- MODULE ScriptSteps -----------------------------
(***************************************************************************)
(* The simulation scripts of simulations/ are sequences of steps run on a  *)
(* fork of the chain: contract calls that are expected to succeed or to    *)
(* fail, and readings that are expected to have a value.  Here a script is *)
(* a sequence of these records; the modules that hold the scripts say what *)
(* a call does to their model and what a reading reads.                    *)
(***************************************************************************)
EXTENDS Sequences

\* A call that is expected to return ok.
Does(by, fn, args) == <<[kind |-> "does", by |-> by, fn |-> fn, args |-> args]>>

\* A call that is expected to return an error.
Refuses(by, fn, args) ==
    <<[kind |-> "refuses", by |-> by, fn |-> fn, args |-> args]>>

\* A read-only call, or an expression evaluated in a contract.
Shows(fn, args, value) ==
    <<[kind |-> "shows", fn |-> fn, args |-> args, want |-> value]>>
=============================================================================
