----------------------------- MODULE PrevSessions ---------------------------
(***************************************************************************)
(* Sign-in, linked identities and sessions of the previous service         *)
(* (service/session, service/oauth).  A sign-in ends in CreateSession with *)
(* an account read earlier; goroutines that outlive the request trim the   *)
(* sessions and link Firebase.                                             *)
(***************************************************************************)
EXTENDS PrevOAuth

\* Which step follows when account u was found: it may not sign in, it has the
\* identity, or the identity is to be linked (not to an account that is leaving).
ExistingProfile(u, p, s) ==
    IF ~Available(AuthInfo(u)) THEN "refuse"
    ELSE IF users[u].ids[p] = s THEN "session"
    ELSE IF users[u].ids[p] = None /\ requests[u] # None THEN "refuse"
    ELSE "connect"

\* handleGoogleInfoResponse, and the same for VK: the account that has the
\* identity signs in; an identity nobody has is looked up by its address.
HandleInfo(c, p, info) ==
    LET found == BySubject(p, info.subject)
        call(step, u) == [op |-> "SignInProvider", step |-> step, user |-> u, provider |-> p,
                          subject |-> info.subject, email |-> info.email]
    IN  \/ \E u \in found :
             /\ ExistingProfile(u, p, info.subject) = "session"
             /\ Begin(c, call("session", u))
        \/ /\ found = {}
           /\ Begin(c, call("byEmail", None))

\* The provider did not answer, or refused the code.
ProviderFails(c) == Return(c)

SignInGoogle(c) ==
    /\ Arrives(c, "SignInProvider")
    /\ \E q \in SignInGoogleInput, info \in GoogleInfo :
           /\ GetUserInfoByCode(q.state, info)
           /\ HandleInfo(c, "google", info) \/ ProviderFails(c)
           /\ UNCHANGED <<users, requests, activation, resets, mailVars, proofs, issued,
                          sessions, outbox, work, fresh, restVars>>

SignInVk(c) ==
    /\ Arrives(c, "SignInProvider")
    /\ \E q \in SignInVkInput, info \in VkInfo :
           /\ GetVkAccessToken(q.state, info)
           /\ HandleInfo(c, "vk", info) \/ ProviderFails(c)
           /\ UNCHANGED <<users, requests, activation, resets, mailVars, proofs, issued,
                          sessions, outbox, work, fresh, restVars>>

\* SignInGoogleIdToken
SignInGoogleToken(c) ==
    /\ Arrives(c, "SignInProvider")
    /\ \E q \in SignInGoogleTokenInput : \E info \in GetUserInfoByIdToken(q.idToken) :
           /\ HandleInfo(c, "google", info)
           /\ UNCHANGED <<users, requests, activation, resets, mailVars, flowVars,
                          sessions, outbox, work, fresh, spent, restVars>>

\* The identity is new: the account with the provider's address, if there is
\* one, is to be linked; without an address there is no account to create.
ByEmailStep(c) ==
    /\ At(c, "SignInProvider", "byEmail")
    /\ LET found == ByEmail(calls[c].email)
           u == CHOOSE x \in found : TRUE
           next == IF calls[c].email = None THEN "refuse"
                   ELSE IF found = {} THEN "create"
                   ELSE ExistingProfile(u, calls[c].provider, calls[c].subject)
       IN  IF next = "refuse" THEN Return(c)
           ELSE calls' = [calls EXCEPT ![c].step = next,
                                       ![c].user = IF found = {} THEN None ELSE u]
    /\ UNCHANGED <<users, requests, activation, resets, mailVars, flowVars,
                   sessions, outbox, work, fresh, spent, restVars>>

\* connectIdentity: the account, then the identity it has, then the identity's
\* unique index.
CanConnect(u, p, s) ==
    /\ Exists(u) /\ Changeable(AuthInfo(u))
    /\ \/ users[u].ids[p] = s
       \/ users[u].ids[p] = None /\ BySubject(p, s) = {}

ConnectTx(c) ==
    /\ calls[c].op \in {"SignInProvider", "Connect"} /\ calls[c].step = "connect"
    /\ LET u == calls[c].user
           p == calls[c].provider
       IN  IF CanConnect(u, p, calls[c].subject)
           THEN /\ users' = [users EXCEPT ![u].ids[p] = calls[c].subject]
                /\ IF calls[c].op = "Connect" THEN Return(c) ELSE Goto(c, "session")
           ELSE UNCHANGED users /\ Return(c)
    /\ UNCHANGED <<requests, activation, resets, mailVars, flowVars, sessions,
                   outbox, work, fresh, spent, restVars>>

ToConnect(u, p, s) ==
    [op |-> "Connect", step |-> "connect", user |-> u, provider |-> p, subject |-> s]

\* oauth.ConnectGoogle of a signed-in owner
ConnectGoogle(c) ==
    /\ Arrives(c, "Connect")
    /\ \E q \in ConnectGoogleInput, info \in GoogleInfo :
           /\ q.state # None /\ Exists(q.user)
           /\ GetUserInfoByCode(q.state, info)
           /\ \/ Begin(c, ToConnect(q.user, "google", info.subject))
              \/ ProviderFails(c)
           /\ UNCHANGED <<users, requests, activation, resets, mailVars, proofs, issued,
                          sessions, outbox, work, fresh, restVars>>

ConnectGoogleToken(c) ==
    /\ Arrives(c, "Connect")
    /\ \E q \in ConnectGoogleInput :
           /\ q.idToken # None /\ Exists(q.user)
           /\ \E info \in GetUserInfoByIdToken(q.idToken) :
                Begin(c, ToConnect(q.user, "google", info.subject))
           /\ UNCHANGED <<users, requests, activation, resets, mailVars, flowVars,
                          sessions, outbox, work, fresh, spent, restVars>>

ConnectVk(c) ==
    /\ Arrives(c, "Connect")
    /\ \E q \in ConnectVkInput, info \in VkInfo :
           /\ Exists(q.user)
           /\ GetVkAccessToken(q.state, info)
           /\ \/ Begin(c, ToConnect(q.user, "vk", info.subject))
              \/ ProviderFails(c)
           /\ UNCHANGED <<users, requests, activation, resets, mailVars, proofs, issued,
                          sessions, outbox, work, fresh, restVars>>

Firebase(u, e) == [kind |-> "firebase", user |-> u, email |-> e]

\* What the provider says becomes the account: its address, its identity, no
\* password, activated.
ProviderRow(c) ==
    addOauthRow(addUsersRow(calls[c].email, None, TRUE), calls[c].provider, calls[c].subject)

\* signInGoogleWithProfileCreation, signInVkWithProfileCreation: a goroutine
\* looks for a Firebase profile afterwards.
CreateTx(c) ==
    /\ At(c, "SignInProvider", "create")
    /\ LET row == ProviderRow(c)
       IN  \/ \E u \in Users :
                /\ CreateUser(u, row, {Firebase(u, row.email)})
                /\ calls' = [calls EXCEPT ![c].step = "session", ![c].user = u]
           \/ /\ ~ \E u \in Users : ~Exists(u) /\ Free(u, row)
              /\ Return(c)
              /\ UNCHANGED <<users, activation, outbox, work>>
    /\ UNCHANGED <<requests, resets, mailVars, flowVars, sessions,
                   fresh, spent, restVars>>

-----------------------------------------------------------------------------
\* Session.SignIn: the password first, then the account's state.
SignIn(c) ==
    /\ Arrives(c, "SignIn")
    /\ \E q \in SignInInput : \E u \in ByIdentifiers(q) :
           /\ users[u].password = q.password /\ Available(AuthInfo(u))
           /\ Begin(c, [op |-> "SignIn", step |-> "session", user |-> u])
           /\ UNCHANGED <<users, requests, activation, resets, mailVars, flowVars,
                          sessions, outbox, work, fresh, spent, restVars>>

\* importFirebaseProfile: nobody has the address here, Firebase knows it and
\* the password, and no account is linked to that profile.
ImportFirebase(c) ==
    /\ Arrives(c, "SignIn")
    /\ \E q \in SignInInput :
           /\ q.email # None /\ ByIdentifiers(q) = {}
           /\ ~IsFirebaseProfileConnected(q.email)
           /\ Begin(c, [op |-> "SignIn", step |-> "import", email |-> q.email,
                        password |-> q.password])
           /\ UNCHANGED <<users, requests, activation, resets, mailVars, flowVars,
                          sessions, outbox, work, fresh, spent, restVars>>

ImportTx(c) ==
    /\ At(c, "SignIn", "import")
    /\ LET row == addUsersRow(calls[c].email, calls[c].password, TRUE) IN
       \/ \E u \in Users :
            /\ CreateUser(u, row, {Firebase(u, row.email)})
            /\ calls' = [calls EXCEPT ![c] = [op |-> "SignIn", step |-> "session", user |-> u]]
       \/ /\ ByEmail(row.email) # {}
          /\ Return(c)
          /\ UNCHANGED <<users, activation, outbox, work>>
    /\ UNCHANGED <<requests, resets, mailVars, flowVars, sessions,
                   fresh, spent, restVars>>

\* addOutboxProfileFirebaseImportMsg
Imported(u) == [type |-> "imported", user |-> u, shared |-> FALSE]

\* connectFirebaseProfile and ConnectFirebase, in a goroutine: the link (unique
\* on both sides) and the import event.
ConnectFirebase ==
    \E w \in work :
        /\ w.kind = "firebase"
        /\ LET u == w.user IN
           IF Exists(u) /\ users[u].firebase = None /\ ~IsFirebaseProfileConnected(w.email)
           THEN /\ users' = [users EXCEPT ![u].firebase = w.email]
                /\ outbox' = outbox \cup {Imported(u)}
                /\ work' = (work \ {w}) \cup {[kind |-> "publish", msg |-> Imported(u)]}
           ELSE work' = work \ {w} /\ UNCHANGED <<users, outbox>>
        /\ UNCHANGED <<requests, activation, resets, mailVars, flowVars, sessions,
                       calls, fresh, spent, restVars>>

-----------------------------------------------------------------------------
\* createSessionEntity; a session is known by the token it began with.
NewSession(u) == [id |-> fresh + 1, user |-> u, token |-> fresh + 1, expires |-> now + Ttl]

\* createSession and CreateSession: the account need only exist.
CreateSession(c) ==
    /\ calls[c].op \in {"SignIn", "SignInProvider"} /\ calls[c].step = "session"
    /\ Draw
    /\ IF Exists(calls[c].user)
       THEN /\ sessions' = sessions \cup {NewSession(calls[c].user)}
            /\ work' = work \cup {[kind |-> "trim", user |-> calls[c].user, id |-> fresh']}
       ELSE UNCHANGED <<sessions, work>>
    /\ Return(c)
    /\ UNCHANGED <<users, requests, activation, resets, mailVars, flowVars, outbox,
                   spent, restVars>>

SessionsOf(u) == {s \in sessions : s.user = u}

\* Mutant: one session too many is kept.
Newest_OneMore(u) ==
    {s \in SessionsOf(u) : Cardinality({o \in SessionsOf(u) : o.id > s.id}) <= MaxSessions}

\* The rows of ORDER BY created_at DESC LIMIT threshold.
Newest(u) ==
    {s \in SessionsOf(u) : Cardinality({o \in SessionsOf(u) : o.id > s.id}) < MaxSessions}

\* DeleteOutdatedSessions, in a goroutine
TrimSessions ==
    \E w \in work :
        /\ w.kind = "trim"
        /\ sessions' = (sessions \ SessionsOf(w.user)) \cup Newest(w.user)
        /\ work' = work \ {w}
        /\ UNCHANGED <<users, requests, activation, resets, mailVars, flowVars,
                       outbox, calls, fresh, spent, restVars>>

\* Session.Refresh: GetAuthInfoByRefreshToken; an expired session or one of a
\* blocked account is deleted, any other rotated, by a later statement.
Refresh(c) ==
    /\ Arrives(c, "Refresh")
    /\ \E q \in RefreshSessionInput : \E s \in ByRefreshToken(q.token) :
           /\ Begin(c, [op |-> "Refresh", token |-> s.token,
                        step |-> IF Live(s) /\ ~users[s.user].blocked THEN "rotate"
                                 ELSE "delete"])
           /\ UNCHANGED <<users, requests, activation, resets, mailVars, flowVars,
                          sessions, outbox, work, fresh, spent, restVars>>

\* UpdateSession: the row that still has the token and has not expired.
UpdateSession(c) ==
    /\ At(c, "Refresh", "rotate")
    /\ Draw
    /\ LET row == {s \in ByRefreshToken(calls[c].token) : Live(s)} IN
       IF row = {} THEN UNCHANGED <<sessions, spent>>
       ELSE /\ sessions' = (sessions \ row) \cup
                           {[s EXCEPT !.token = fresh', !.expires = now + Ttl] : s \in row}
            /\ Spend(calls[c].token)
    /\ Return(c)
    /\ UNCHANGED <<users, requests, activation, resets, mailVars, flowVars, outbox,
                   work, restVars>>

DeleteSession(c) ==
    /\ At(c, "Refresh", "delete")
    /\ sessions' = sessions \ ByRefreshToken(calls[c].token)
    /\ Return(c)
    /\ UNCHANGED <<users, requests, activation, resets, mailVars, flowVars, outbox,
                   work, fresh, spent, restVars>>

SignOut(c) ==
    /\ Arrives(c, "EndSessions") /\ Return(c)
    /\ \E q \in SignOutInput : sessions' = sessions \ ByRefreshToken(q.token)
    /\ UNCHANGED <<users, requests, activation, resets, mailVars, flowVars, outbox,
                   work, fresh, spent, restVars>>

DeleteSessions(u, ids) == sessions' = {s \in sessions : s.user = u => s.id \notin ids}

DeleteAllSessions(u) == sessions' = sessions \ SessionsOf(u)

\* DeleteMultiple
EndSessions(c) ==
    /\ Arrives(c, "EndSessions") /\ Return(c)
    /\ \E q \in EndSessionsInput :
         IF q.ids = {} THEN DeleteAllSessions(q.user) ELSE DeleteSessions(q.user, q.ids)
    /\ UNCHANGED <<users, requests, activation, resets, mailVars, flowVars, outbox,
                   work, fresh, spent, restVars>>
=============================================================================
