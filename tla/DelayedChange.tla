---------------------------- MODULE DelayedChange ----------------------------
(***************************************************************************)
(* A setting that changes only after public notice: the promise behind the *)
(* pool's two-step changes of its admin, its fee and its swap vault.  A    *)
(* change takes effect only if it has been on offer, unchanged, for Delay  *)
(* blocks.  There are no block heights here, only the age of the offer.    *)
(***************************************************************************)
EXTENDS Integers

CONSTANTS Delay, NoOffer

VARIABLES
    value,  \* the setting
    offer,  \* the announced change, or NoOffer
    age     \* blocks since it was announced, counted up to Delay

changeVars == <<value, offer, age>>

ChangeInit == offer = NoOffer

Announce ==
    /\ offer' # NoOffer
    /\ age' = 0
    /\ UNCHANGED value

Adopt ==
    /\ offer # NoOffer
    /\ age = Delay
    /\ value' = offer
    /\ offer' = NoOffer

Withdraw ==
    /\ offer' = NoOffer
    /\ UNCHANGED value

Wait ==
    /\ age' = IF age = Delay THEN age ELSE age + 1
    /\ UNCHANGED <<value, offer>>

ChangeNext ==
    \/ Announce
    \/ Adopt
    \/ Withdraw
    \/ offer # NoOffer /\ Wait

ChangeSpec == ChangeInit /\ [][ChangeNext]_changeVars
=============================================================================
