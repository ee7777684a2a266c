--------------------------- MODULE MCAuthEngine ----------------------------
(* Instances of AuthEngine for TLC. *)
EXTENDS AuthEngine

Account(password, totp, passkeys, identities) ==
    [password |-> password, totp |-> totp,
     codes |-> IF totp THEN BackupCodes ELSE 0,
     passkeys |-> passkeys, identities |-> identities, blocked |-> FALSE,
     deletion |-> Null, reset |-> Null, change |-> Null]

PasswordOnly    == {Account(TRUE, FALSE, {}, {})}
PasswordTotp    == {Account(TRUE, TRUE, {}, {})}
MaybeTotp       == PasswordOnly \cup PasswordTotp
GoogleMaybeTotp == {Account(TRUE, t, {}, {"google"}) : t \in BOOLEAN}
ResetAsked      == {[row EXCEPT !.reset = RequestTTL] : row \in GoogleMaybeTotp}
PasswordGoogle  == {Account(TRUE, FALSE, {}, {"google"})}
GoogleOnly      == {Account(FALSE, FALSE, {}, {"google"})}
PasskeyOnly     == {Account(FALSE, FALSE, {k}, {}) : k \in Passkeys}
NoPassword      == GoogleOnly \cup PasskeyOnly
=============================================================================
