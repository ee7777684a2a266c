---------------------------- MODULE PrevAccounts ----------------------------
(***************************************************************************)
(* Requests of the previous service about one account: sign-up, activation *)
(* by code, passwords and their reset, names, linked identities.  A request*)
(* reads the account, decides, and writes in a later statement or          *)
(* transaction; only what the write checks again is checked under a lock.  *)
(***************************************************************************)
EXTENDS PrevApi

\* Session.SignUp: an activated or a blocked account answers as if it was new
\* and nothing happens.  Afterwards email.Verify reads the account again.
SignUp(c) ==
    /\ Arrives(c, "SignUp")
    /\ \E q \in SignUpInput :
           /\ \A u \in ByEmail(q.email) : ~users[u].activated /\ ~users[u].blocked
           /\ Begin(c, [op |-> "SignUp", email |-> q.email, password |-> q.password,
                        step |-> IF ByEmail(q.email) = {} THEN "create" ELSE "verify"])
           /\ UNCHANGED <<users, requests, activation, resets, mailVars, flowVars,
                          sessions, outbox, work, fresh, spent, restVars>>

\* createNewUserData
NewUserData(c) == addUsersRow(calls[c].email, calls[c].password, FALSE)

SignUpCreate(c) ==
    /\ At(c, "SignUp", "create")
    /\ LET row == NewUserData(c) IN
       \/ /\ \E u \in Users : CreateUser(u, row, {})
          /\ Goto(c, "verify")
       \/ /\ ByEmail(row.email) # {}
          /\ Return(c)
          /\ UNCHANGED <<users, activation, outbox, work>>
    /\ UNCHANGED <<requests, resets, mailVars, flowVars, sessions, fresh, spent,
                   restVars>>

\* Session.ActivateProfile: one UPDATE, without a look at the account.
ActivateProfile(c) ==
    /\ Arrives(c, "ActivateProfile") /\ Return(c)
    /\ \E q \in ActivateProfileInput :
           /\ q.code = q.user
           /\ users' = [users EXCEPT ![q.user].activated = TRUE]
    /\ UNCHANGED <<requests, activation, resets, mailVars, flowVars, sessions,
                   outbox, work, fresh, spent, restVars>>

-----------------------------------------------------------------------------
\* password.Change: the old password is compared with what was read; the new
\* one is written whatever the account has become.
ChangePassword(c) ==
    /\ Arrives(c, "ChangePassword")
    /\ \E q \in ChangePasswordInput :
           /\ Exists(q.user) /\ Changeable(AuthInfo(q.user))
           /\ users[q.user].password = q.old /\ q.new # q.old
           /\ Begin(c, [op |-> "ChangePassword", step |-> "write", user |-> q.user, new |-> q.new])
           /\ UNCHANGED <<users, requests, activation, resets, mailVars, flowVars,
                          sessions, outbox, work, fresh, spent, restVars>>

SetPassword(c) ==
    /\ At(c, "ChangePassword", "write")
    /\ users' = IF Exists(calls[c].user)
                THEN [users EXCEPT ![calls[c].user].password = calls[c].new]
                ELSE users
    /\ Return(c)
    /\ UNCHANGED <<requests, activation, resets, mailVars, flowVars, sessions,
                   outbox, work, fresh, spent, restVars>>

\* password.RequestReset: one answer for every account; the address the mail
\* will go to is the one read here.
RequestReset(c) ==
    /\ Arrives(c, "RequestReset")
    /\ \E q \in RequestPasswordResetInput : \E u \in ByIdentifiers(q) :
           /\ users[u].activated /\ Changeable(AuthInfo(u))
           /\ Begin(c, [op |-> "RequestReset", step |-> "clean", user |-> u,
                        email |-> users[u].email])
           /\ UNCHANGED <<users, requests, activation, resets, mailVars, flowVars,
                          sessions, outbox, work, fresh, spent, restVars>>

\* CreatePasswordResetRequest, three statements without a transaction.
RemoveOutdatedResets(c) ==
    /\ At(c, "RequestReset", "clean")
    /\ resets' = {r \in resets : r.user = calls[c].user => r.used \/ Live(r)}
    /\ Goto(c, "find")
    /\ UNCHANGED <<users, requests, activation, mailVars, flowVars, sessions,
                   outbox, work, fresh, spent, restVars>>

UnusedResets(u) == {r \in resets : r.user = u /\ ~r.used}

\* The mail leaves in a goroutine: it arrives or it is lost.
MailReset(code, e) ==
    \E arrives \in BOOLEAN :
        mailbox' = IF arrives
                   THEN mailbox \cup {[token |-> code, email |-> e, stage |-> "reset"]}
                   ELSE mailbox

FindReset(c) ==
    /\ At(c, "RequestReset", "find")
    /\ LET u == calls[c].user IN
       \/ /\ \E r \in UnusedResets(u) : MailReset(r.code, calls[c].email)
          /\ Return(c)
       \/ /\ UnusedResets(u) = {}
          /\ Goto(c, "insert")
          /\ UNCHANGED mailbox
    /\ UNCHANGED <<users, requests, activation, resets, bindings, deliveries,
                   flowVars, sessions, outbox, work, fresh, spent, restVars>>

InsertReset(c) ==
    /\ At(c, "RequestReset", "insert")
    /\ Draw
    /\ IF Exists(calls[c].user)
       THEN /\ resets' = resets \cup
                 {[code |-> fresh', user |-> calls[c].user, used |-> FALSE,
                   expires |-> now + Ttl]}
            /\ MailReset(fresh', calls[c].email)
       ELSE UNCHANGED <<resets, mailbox>>
    /\ Return(c)
    /\ UNCHANGED <<users, requests, activation, bindings, deliveries, flowVars,
                   sessions, outbox, work, spent, restVars>>

\* GetPasswordResetUser
GetPasswordResetUser(code) == {r.user : r \in {x \in resets : x.code = code /\ ~x.used /\ Live(x)}}

\* password.Reset: without an id the code finds the account; with one, a
\* blocked or a leaving account is refused before the code is looked at.
ResetPassword(c) ==
    /\ Arrives(c, "ResetPassword")
    /\ \E q \in ResetPasswordInput :
       \E u \in IF q.user = None THEN GetPasswordResetUser(q.code) ELSE {q.user} :
           /\ Exists(u) /\ Changeable(AuthInfo(u))
           /\ Begin(c, [op |-> "ResetPassword", step |-> "write", user |-> u,
                        code |-> q.code, new |-> q.new])
           /\ UNCHANGED <<users, requests, activation, resets, mailVars, flowVars,
                          sessions, outbox, work, fresh, spent, restVars>>

\* Mutant: the proof is not looked at again under the lock.
ResetPasswordTx_Stale(c) ==
    /\ At(c, "ResetPassword", "write")
    /\ LET u == calls[c].user
           proof == {r \in resets : r.user = u /\ r.code = calls[c].code}
       IN  IF Exists(u) /\ proof # {} /\ Changeable(AuthInfo(u))
           THEN /\ resets' = (resets \ proof) \cup {[r EXCEPT !.used = TRUE] : r \in proof}
                /\ users' = [users EXCEPT ![u].password = calls[c].new]
                /\ Spend(calls[c].code)
           ELSE UNCHANGED <<users, resets, spent>>
    /\ Return(c)
    /\ UNCHANGED <<requests, activation, mailVars, flowVars, sessions, outbox, work,
                   fresh, restVars>>

\* ResetPassword: under the lock of the user's row the proof, then the account;
\* other codes and the sessions stay.
ResetPasswordTx(c) ==
    /\ At(c, "ResetPassword", "write")
    /\ LET u == calls[c].user
           proof == {r \in resets : /\ r.user = u /\ r.code = calls[c].code
                                    /\ ~r.used /\ Live(r)}
       IN  IF Exists(u) /\ proof # {} /\ Changeable(AuthInfo(u))
           THEN /\ resets' = (resets \ proof) \cup {[r EXCEPT !.used = TRUE] : r \in proof}
                /\ users' = [users EXCEPT ![u].password = calls[c].new]
                /\ Spend(calls[c].code)
           ELSE UNCHANGED <<users, resets, spent>>
    /\ Return(c)
    /\ UNCHANGED <<requests, activation, mailVars, flowVars, sessions, outbox, work,
                   fresh, restVars>>

-----------------------------------------------------------------------------
\* username.Set and SetUsername: the UPDATE checks uniqueness and nothing else.
SetUsername(c) ==
    /\ Arrives(c, "SetUsername")
    /\ \E q \in SetUsernameInput :
           /\ Exists(q.user) /\ Changeable(AuthInfo(q.user)) /\ users[q.user].name # q.name
           /\ Begin(c, [op |-> "SetUsername", step |-> "write", user |-> q.user,
                        name |-> q.name])
           /\ UNCHANGED <<users, requests, activation, resets, mailVars, flowVars,
                          sessions, outbox, work, fresh, spent, restVars>>

SetUsernameRow(c) ==
    /\ At(c, "SetUsername", "write")
    /\ users' = IF Exists(calls[c].user) /\ ByName(calls[c].name) \subseteq {calls[c].user}
                THEN [users EXCEPT ![calls[c].user].name = calls[c].name]
                ELSE users
    /\ Return(c)
    /\ UNCHANGED <<requests, activation, resets, mailVars, flowVars, sessions,
                   outbox, work, fresh, spent, restVars>>

-----------------------------------------------------------------------------
\* hasMultipleSignInMethods
Methods(row) ==
    {p \in Providers : row.ids[p] # None}
        \cup (IF row.password # None THEN {"password"} ELSE {})

\* The accounts a behaviour begins with were made by this service.
ASSUME SceneAssumption ==
    \A scene \in Scenes :
        /\ scene.accounts \in [Users -> Row \cup {None}]
        /\ \A u \in Users : scene.accounts[u] # None => Methods(scene.accounts[u]) # {}

\* A first look at the account; the transaction decides.
Disconnectable(u, p) ==
    /\ Exists(u) /\ Changeable(AuthInfo(u))
    /\ users[u].ids[p] # None
    /\ Cardinality(Methods(users[u])) > 1

ToDisconnect(u, p) == [op |-> "Disconnect", step |-> "write", user |-> u, provider |-> p]

DeleteGoogleConnection(c) ==
    /\ Arrives(c, "Disconnect")
    /\ \E q \in DeleteGoogleConnectionInput :
           /\ Disconnectable(q.user, "google")
           /\ Begin(c, ToDisconnect(q.user, "google"))
           /\ UNCHANGED <<users, requests, activation, resets, mailVars, flowVars,
                          sessions, outbox, work, fresh, spent, restVars>>

DeleteVkConnection(c) ==
    /\ Arrives(c, "Disconnect")
    /\ \E q \in DeleteVkConnectionInput :
           /\ Disconnectable(q.user, "vk")
           /\ Begin(c, ToDisconnect(q.user, "vk"))
           /\ UNCHANGED <<users, requests, activation, resets, mailVars, flowVars,
                          sessions, outbox, work, fresh, spent, restVars>>

\* Mutant: the transaction trusts the first look.
DisconnectTx_Stale(c) ==
    /\ At(c, "Disconnect", "write")
    /\ LET u == calls[c].user IN
       users' = IF Exists(u) /\ Changeable(AuthInfo(u))
                THEN [users EXCEPT ![u].ids[calls[c].provider] = None]
                ELSE users
    /\ Return(c)
    /\ UNCHANGED <<requests, activation, resets, mailVars, flowVars, sessions,
                   outbox, work, fresh, spent, restVars>>

\* disconnectIdentity: without a password both providers must be linked.
DisconnectTx(c) ==
    /\ At(c, "Disconnect", "write")
    /\ LET u == calls[c].user IN
       users' = IF /\ Exists(u) /\ Changeable(AuthInfo(u))
                   /\ \/ users[u].password # None
                      \/ \A p \in Providers : users[u].ids[p] # None
                THEN [users EXCEPT ![u].ids[calls[c].provider] = None]
                ELSE users
    /\ Return(c)
    /\ UNCHANGED <<requests, activation, resets, mailVars, flowVars, sessions,
                   outbox, work, fresh, spent, restVars>>
=============================================================================
