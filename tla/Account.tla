------------------------------ MODULE Account ------------------------------
(***************************************************************************)
(* One user account as its credentials see it.  tokens_valid_after is the  *)
(* stamp of the last password change, in whole seconds; everything issued  *)
(* to the account carries the stamp of its time of issue (the credential   *)
(* epoch) and is refused once the two differ.                              *)
(***************************************************************************)
EXTENDS Integers

CONSTANTS
    MaxPasswords,  \* bound on the number of passwords
    MaxTime        \* bound on the clock

ASSUME AccountAssumption == MaxPasswords \in Nat /\ MaxTime \in Nat

VARIABLES
    pw,      \* the generation of the password
    epoch,   \* credential_epoch: the stamp of the last change, 0 for None
    clock,   \* in whole seconds
    active,  \* User.is_active
    forced   \* must_change_password

account == <<pw, epoch, clock, active, forced>>

AccountTypeOK == /\ pw \in Nat /\ epoch \in Nat /\ clock \in Nat
                 /\ active \in BOOLEAN /\ forced \in BOOLEAN

\* an account from before the stamps, or the administrator of the first start
\* (_ensure_default_admin), who must change the generated password
AccountInit ==
    /\ pw = 1 /\ clock = 1 /\ active = TRUE
    /\ \/ epoch = 0 /\ forced = FALSE
       \/ epoch = clock /\ forced = TRUE

\* variant: the stamp is the clock
StampClock(now, previous) == now

\* the stamp set_password writes: it is forced to advance
Stamp(now, previous) == IF now > previous THEN now ELSE previous + 1

\* User.set_password
SetPassword ==
    /\ pw < MaxPasswords
    /\ pw' = pw + 1
    /\ epoch' = Stamp(clock, epoch)
    /\ forced' = FALSE
    /\ UNCHANGED <<clock, active>>

\* security.edit_user without a new password: the account is disabled or enabled
SetActive ==
    /\ active' = ~active
    /\ UNCHANGED <<pw, epoch, clock, forced>>

Tick ==
    /\ clock < MaxTime
    /\ clock' = clock + 1
    /\ UNCHANGED <<pw, epoch, active, forced>>
=============================================================================
