--------------------------- MODULE PoolGovernance ---------------------------
(***************************************************************************)
(* The two-step changes of juice-pool-sbtc-signer.clar: its admin and its  *)
(* fee.  Every call names its caller, so that an admin who is about to be  *)
(* replaced, the successor and anyone else race each other.  (The third    *)
(* two-step change, of the swap vault, is in RewardPool.)                  *)
(***************************************************************************)
EXTENDS Integers

CONSTANTS
    Principals,
    FirstAdmin,     \* the deployer
    AdminCooldown,  \* ADMIN_COOLDOWN (144)
    FeeCooldown,    \* FEE_COOLDOWN (144)
    MaxBips,        \* MAX_BIPS
    MaxFeeBips,     \* MAX_FEE_BIPS (500)
    FirstFee,       \* fee-bips at deployment (450)
    NoOffer,        \* the Clarity value none
    FirstHeight,    \* burn height of the deployment
    MaxHeight       \* burn height at which a behaviour ends

ASSUME GovernanceAssumption ==
    /\ FirstAdmin \in Principals
    /\ NoOffer \notin Principals
    /\ NoOffer \notin Nat
    /\ {AdminCooldown, FeeCooldown, MaxBips, MaxFeeBips, FirstHeight,
          MaxHeight} \subseteq Nat
    /\ FirstFee \in 0..MaxFeeBips

VARIABLES
    height,              \* burn-block-height
    admin,
    pendingAdmin,        \* pending-admin, or none
    pendingAdminHeight,  \* pending-admin-height
    feeBips,             \* fee-bips
    pendingFee,          \* pending-fee, or none
    pendingFeeHeight     \* pending-fee-height

adminVars == <<admin, pendingAdmin, pendingAdminHeight>>
feeVars   == <<feeBips, pendingFee, pendingFeeHeight>>
governanceVars == <<height, adminVars, feeVars>>

-----------------------------------------------------------------------------
GovernanceInit ==
    /\ height = FirstHeight
    /\ admin = FirstAdmin
    /\ pendingAdmin = NoOffer
    /\ pendingAdminHeight = 0
    /\ feeBips = FirstFee
    /\ pendingFee = NoOffer
    /\ pendingFeeHeight = 0

\* assert-admin
IsAdmin(caller) == caller = admin

ProposeAdmin(caller, newAdmin) ==
    /\ IsAdmin(caller)
    /\ pendingAdmin' = newAdmin
    /\ pendingAdminHeight' = height
    /\ UNCHANGED <<height, admin, feeVars>>

\* Mutant: the hand-over waits for the fee's notice instead of its own.
AcceptAdminOnFeeNotice(caller) ==
    /\ pendingAdmin # NoOffer
    /\ caller = pendingAdmin
    /\ height >= pendingFeeHeight + AdminCooldown
    /\ admin' = pendingAdmin
    /\ pendingAdmin' = NoOffer
    /\ pendingAdminHeight' = 0
    /\ UNCHANGED <<height, feeVars>>

\* Only the successor may accept.
AcceptAdmin(caller) ==
    /\ pendingAdmin # NoOffer
    /\ caller = pendingAdmin
    /\ height >= pendingAdminHeight + AdminCooldown
    /\ admin' = pendingAdmin
    /\ pendingAdmin' = NoOffer
    /\ pendingAdminHeight' = 0
    /\ UNCHANGED <<height, feeVars>>

CancelAdminProposal(caller) ==
    /\ IsAdmin(caller)
    /\ pendingAdmin' = NoOffer
    /\ pendingAdminHeight' = 0
    /\ UNCHANGED <<height, admin, feeVars>>

\* Mutant: no maximum.
ProposeAnyFee(caller, newFee) ==
    /\ IsAdmin(caller)
    /\ pendingFee' = newFee
    /\ pendingFeeHeight' = height
    /\ UNCHANGED <<height, adminVars, feeBips>>

\* Mutant: the notice of a fee that replaces a pending one runs on.
ReplaceFeeBips(caller, newFee) ==
    /\ IsAdmin(caller)
    /\ newFee <= MaxFeeBips
    /\ pendingFee' = newFee
    /\ pendingFeeHeight' = IF pendingFee = NoOffer THEN height ELSE pendingFeeHeight
    /\ UNCHANGED <<height, adminVars, feeBips>>

ProposeFeeBips(caller, newFee) ==
    /\ IsAdmin(caller)
    /\ newFee <= MaxFeeBips
    /\ pendingFee' = newFee
    /\ pendingFeeHeight' = height
    /\ UNCHANGED <<height, adminVars, feeBips>>

ConfirmFeeBips(caller) ==
    /\ pendingFee # NoOffer
    /\ IsAdmin(caller)
    /\ height >= pendingFeeHeight + FeeCooldown
    /\ feeBips' = pendingFee
    /\ pendingFee' = NoOffer
    /\ UNCHANGED <<height, adminVars, pendingFeeHeight>>

CancelFeeBips(caller) ==
    /\ IsAdmin(caller)
    /\ pendingFee' = NoOffer
    /\ UNCHANGED <<height, adminVars, feeBips, pendingFeeHeight>>

NewBlock ==
    /\ height < MaxHeight
    /\ height' = height + 1
    /\ UNCHANGED <<adminVars, feeVars>>

GovernanceCall(caller) ==
    \/ \E newAdmin \in Principals : ProposeAdmin(caller, newAdmin)
    \/ AcceptAdmin(caller)
    \/ CancelAdminProposal(caller)
    \/ \E newFee \in 0..MaxBips : ProposeFeeBips(caller, newFee)
    \/ ConfirmFeeBips(caller)
    \/ CancelFeeBips(caller)

GovernanceNext == NewBlock \/ \E caller \in Principals : GovernanceCall(caller)

GovernanceSpec == GovernanceInit /\ [][GovernanceNext]_governanceVars

-----------------------------------------------------------------------------
\* Types: neither the fee nor a pending one exceeds MAX_FEE_BIPS, and no notice
\* starts in the future.
GovernanceTypeOK ==
    /\ height \in Nat
    /\ admin \in Principals
    /\ pendingAdmin \in Principals \cup {NoOffer}
    /\ pendingAdminHeight \in 0..height
    /\ feeBips \in 0..MaxFeeBips
    /\ pendingFee \in 0..MaxFeeBips \cup {NoOffer}
    /\ pendingFeeHeight \in 0..height

\* Blocks since `since`, counted up to `delay`.
Age(since, delay) == IF height >= since + delay THEN delay ELSE height - since

FeeChange == INSTANCE DelayedChange WITH
    Delay <- FeeCooldown,
    value <- feeBips,
    offer <- pendingFee,
    age <- Age(pendingFeeHeight, FeeCooldown)

AdminChange == INSTANCE DelayedChange WITH
    Delay <- AdminCooldown,
    value <- admin,
    offer <- pendingAdmin,
    age <- Age(pendingAdminHeight, AdminCooldown)

\* The fee changes only to one announced, unchanged, for FeeCooldown blocks:
\* neither a confirmed or cancelled proposal's old height nor a new admin
\* shortens the notice.
FeeChangesOnNotice == FeeChange!ChangeSpec

\* The admin changes only to one announced, unchanged, for AdminCooldown blocks.
AdminChangesOnNotice == AdminChange!ChangeSpec
=============================================================================
