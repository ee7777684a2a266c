-------------------------- MODULE AuthCredentials --------------------------
(***************************************************************************)
(* Changes to what an account can sign in with: passwords and their reset  *)
(* (internal/authentication/account.go, mail.go), the change of address    *)
(* (mail.go), TOTP and backup codes (totp.go), passkeys (passkeys.go) and  *)
(* linked identities (identities.go).                                      *)
(***************************************************************************)
(* SignUp models which addresses are free and which mailbox answered; here *)
(* a change of address is what it does to an account's processes.          *)
(***************************************************************************)
EXTENDS AuthStore

\* The other sessions of the account that session s belongs to.
OtherSessions(s) == SessionsOf(sess[s].account) \ {s}

\* A credential change that revokes the proofs of account a, starting from
\* authentications ps, and ends sessions D.
Revoke(ps, a, D) ==
    /\ CredentialChange(a)
    /\ DeleteSessions(invalidate(ps, a), D)
    /\ CascadeSteps

\* Replaces the password, with a grant.  The same password again only spends
\* the grant.
SetPassword(p, same) ==
    LET a == proc[p].account
    IN  /\ Consumable(p, "passwordChange")
        /\ acct[a].password
        /\ IF same
           THEN /\ proc' = Consumed(proc, p)
                /\ UNCHANGED <<sess, step, request, epoch, proof>>
           ELSE /\ Revoke(Consumed(proc, p), a, OtherSessions(proc[p].session))
                /\ request' = WithSession(request)
        /\ UNCHANGED <<now, acct, flight>>

\* An account without a password gets its first one without a grant.
SetFirstPassword(s) ==
    LET a == sess[s].account
    IN  /\ checkPrincipal(s)
        /\ ~acct[a].password
        /\ acct' = [acct EXCEPT ![a].password = TRUE]
        /\ Revoke(proc, a, OtherSessions(s))
        /\ request' = WithSession(request)
        /\ UNCHANGED <<now, flight>>

\* The reset mail; a newer one replaces the older.
StartPasswordReset(a) ==
    /\ a \in Forgetful
    /\ acct[a] # Null /\ ~acct[a].blocked
    /\ acct' = [acct EXCEPT ![a].reset = now + RequestTTL]
    /\ UNCHANGED <<now, sess, proc, step, request, flight, epoch, proof>>

\* The mailed token sets a password and ends every session.
ConfirmPasswordReset(a) ==
    /\ acct[a] # Null /\ acct[a].reset # Null /\ acct[a].reset > now
    /\ acct' = [acct EXCEPT ![a].password = TRUE, ![a].reset = Null]
    /\ Revoke(proc, a, SessionsOf(a))
    /\ request' = WithSession(request)
    /\ UNCHANGED <<now, flight>>

\* Asks the mailbox on file.  An account has one such request, and an expired
\* one is in the way until Cleanup.
ChangeEmail(p) ==
    LET a == proc[p].account
    IN  /\ Consumable(p, "emailChange")
        /\ acct[a].change = Null
        /\ acct' = [acct EXCEPT ![a].change =
                      [stage |-> "old", exp |-> now + RequestTTL]]
        /\ proc' = Consumed(proc, p)
        /\ UNCHANGED <<now, sess, step, request, flight, epoch, proof>>

\* A mailed token asks for no session.  The first sends a token to the other
\* mailbox, the second replaces the address.
ConfirmEmail(a) ==
    /\ acct[a] # Null /\ acct[a].change # Null /\ acct[a].change.exp > now
    /\ \/ /\ acct[a].change.stage = "old"
          /\ acct' = [acct EXCEPT ![a].change =
                        [stage |-> "new", exp |-> now + RequestTTL]]
          /\ UNCHANGED <<sess, proc, step, epoch, proof>>
       \/ /\ acct[a].change.stage = "new"
          /\ acct' = [acct EXCEPT ![a].change = Null]
          /\ Revoke(proc, a, {})
    /\ UNCHANGED <<now, request, flight>>

-----------------------------------------------------------------------------
TotpRequests(a) ==
    {r \in Requests : /\ request[r] # Null
                      /\ request[r].kind = "totp"
                      /\ request[r].session \in SessionsOf(a)}

NewRequest(kind, s) ==
    [kind |-> kind, session |-> s, exp |-> now + RequestTTL]

\* Mutant: an older activation request is not replaced.
StartTotp_Insert(p) ==
    LET r == CHOOSE q \in FreeRequests : TRUE
    IN  /\ Consumable(p, "totpEnrollment")
        /\ ~acct[proc[p].account].totp
        /\ FreeRequests # {}
        /\ request' = [request EXCEPT ![r] = NewRequest("totp", proc[p].session)]
        /\ proc' = Consumed(proc, p)
        /\ UNCHANGED <<now, acct, sess, step, flight, epoch, proof>>

\* The account has one activation request: the latest.
StartTotp(p) ==
    LET a == proc[p].account
        ids == IF TotpRequests(a) = {} THEN FreeRequests ELSE TotpRequests(a)
        r == CHOOSE q \in ids : TRUE
    IN  /\ Consumable(p, "totpEnrollment")
        /\ ~acct[a].totp
        /\ ids # {}
        /\ request' = [request EXCEPT ![r] = NewRequest("totp", proc[p].session)]
        /\ proc' = Consumed(proc, p)
        /\ UNCHANGED <<now, acct, sess, step, flight, epoch, proof>>

\* Request r of session s is live.
Requested(s, r, kind) ==
    /\ request[r] # Null
    /\ request[r].kind = kind
    /\ request[r].session = s
    /\ request[r].exp > now

\* A valid code turns the requested secret into the account's TOTP.
ConfirmTotp(s, r) ==
    LET a == sess[s].account
    IN  /\ checkPrincipal(s)
        /\ Requested(s, r, "totp")
        /\ ~acct[a].totp
        /\ acct' = [acct EXCEPT ![a].totp = TRUE, ![a].codes = BackupCodes]
        /\ Revoke(proc, a, OtherSessions(s))
        /\ request' = WithSession([request EXCEPT ![r] = Null])
        /\ UNCHANGED <<now, flight>>

DeleteTotp(p) ==
    LET a == proc[p].account
    IN  /\ Consumable(p, "totpRemoval")
        /\ acct' = [acct EXCEPT ![a].totp = FALSE]
        /\ Revoke(Consumed(proc, p), a, {})
        /\ UNCHANGED <<now, request, flight>>

RotateBackupCodes(p) ==
    LET a == proc[p].account
    IN  /\ Consumable(p, "backupCodesRotation")
        /\ acct' = [acct EXCEPT ![a].codes = BackupCodes]
        /\ Revoke(Consumed(proc, p), a, {})
        /\ UNCHANGED <<now, request, flight>>

-----------------------------------------------------------------------------
StartPasskey(p) ==
    /\ "passkey" \in Configured
    /\ Consumable(p, "passkeyEnrollment")
    /\ FreeRequests # {}
    /\ LET r == CHOOSE q \in FreeRequests : TRUE
       IN  request' = [request EXCEPT ![r] = NewRequest("passkey", proc[p].session)]
    /\ proc' = Consumed(proc, p)
    /\ UNCHANGED <<now, acct, sess, step, flight, epoch, proof>>

RegisterPasskey(s, r, k) ==
    LET a == sess[s].account
    IN  /\ "passkey" \in Configured
        /\ checkPrincipal(s)
        /\ Requested(s, r, "passkey")
        /\ \A b \in Accounts : acct[b] = Null \/ k \notin acct[b].passkeys
        /\ acct' = [acct EXCEPT ![a].passkeys = @ \cup {k}]
        /\ Revoke(proc, a, {})
        /\ request' = [request EXCEPT ![r] = Null]
        /\ UNCHANGED <<now, flight>>

\* The ways left to sign in to account row.
HasSignInMethod(row) ==
    row.password \/ row.identities # {} \/ row.passkeys # {}

\* Mutant: the passkey itself is counted among the ways left.
DeletePasskey_CountsItself(p, k) ==
    LET a == proc[p].account
    IN  /\ Consumable(p, "passkeyRemoval")
        /\ HasSignInMethod(acct[a])
        /\ acct' = [acct EXCEPT ![a].passkeys = @ \ {k}]
        /\ Revoke(Consumed(proc, p), a, {})
        /\ UNCHANGED <<now, request, flight>>

DeletePasskey(p, k) ==
    LET a == proc[p].account
        left == [acct[a] EXCEPT !.passkeys = @ \ {k}]
    IN  /\ Consumable(p, "passkeyRemoval")
        /\ HasSignInMethod(left)
        /\ acct' = [acct EXCEPT ![a] = left]
        /\ Revoke(Consumed(proc, p), a, {})
        /\ UNCHANGED <<now, request, flight>>

-----------------------------------------------------------------------------
\* The OAuth state for linking, bound to the session.
PrepareIdentityOAuth(s, m) ==
    /\ m \in Providers
    /\ checkPrincipal(s)
    /\ FreeRequests # {}
    /\ LET r == CHOOSE q \in FreeRequests : TRUE
       IN  request' = [request EXCEPT ![r] = NewRequest(m, s)]
    /\ UNCHANGED <<now, acct, sess, proc, step, flight, epoch, proof>>

\* LinkIdentity, first transaction: the state is used up, the call starts.
BeginLink(s, r, m) ==
    /\ m \in Providers
    /\ checkPrincipal(s)
    /\ Requested(s, r, m)
    /\ FreeFlights # {}
    /\ LET f == CHOOSE g \in FreeFlights : TRUE
       IN  flight' = [flight EXCEPT ![f] =
             [stage |-> "link", proc |-> Null, step |-> Null, session |-> s,
              provider |-> m]]
    /\ request' = [request EXCEPT ![r] = Null]
    /\ UNCHANGED <<now, acct, sess, proc, step, epoch, proof>>

\* Second transaction: the grant is spent and the identity inserted.  The
\* identity that is linked already only spends the grant.
FinishLink(f, p) ==
    LET a == proc[p].account
        m == flight[f].provider
    IN  /\ flight[f] # Null /\ flight[f].stage = "link"
        /\ Consumable(p, "identityLink")
        /\ proc[p].session = flight[f].session
        /\ IF m \in acct[a].identities
           THEN /\ proc' = Consumed(proc, p)
                /\ UNCHANGED <<acct, sess, step, epoch, proof>>
           ELSE /\ acct' = [acct EXCEPT ![a].identities = @ \cup {m}]
                /\ Revoke(Consumed(proc, p), a, {})
        /\ flight' = [flight EXCEPT ![f] = Null]
        /\ UNCHANGED <<now, request>>

UnlinkIdentity(p, m) ==
    LET a == proc[p].account
        left == [acct[a] EXCEPT !.identities = @ \ {m}]
    IN  /\ Consumable(p, "identityUnlink")
        /\ HasSignInMethod(left)
        /\ acct' = [acct EXCEPT ![a] = left]
        /\ Revoke(Consumed(proc, p), a, {})
        /\ UNCHANGED <<now, request, flight>>

CredentialsNext ==
    \/ \E p \in Procs, same \in BOOLEAN : SetPassword(p, same)
    \/ \E a \in Accounts : StartPasswordReset(a) \/ ConfirmPasswordReset(a)
                           \/ ConfirmEmail(a)
    \/ \E s \in Sessions : SetFirstPassword(s)
    \/ \E p \in Procs : ChangeEmail(p) \/ StartTotp(p) \/ DeleteTotp(p)
                        \/ RotateBackupCodes(p) \/ StartPasskey(p)
    \/ \E s \in Sessions, r \in Requests : ConfirmTotp(s, r)
    \/ \E s \in Sessions, r \in Requests, k \in Passkeys :
         RegisterPasskey(s, r, k)
    \/ \E p \in Procs, k \in Passkeys : DeletePasskey(p, k)
    \/ \E s \in Sessions, m \in OAuth : PrepareIdentityOAuth(s, m)
    \/ \E s \in Sessions, r \in Requests, m \in OAuth : BeginLink(s, r, m)
    \/ \E f \in Flights, p \in Procs : FinishLink(f, p)
    \/ \E p \in Procs, m \in OAuth : UnlinkIdentity(p, m)
=============================================================================
