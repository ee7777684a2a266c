----------------------------- MODULE PrevDeletion ---------------------------
(***************************************************************************)
(* Re-authentication, profile deletion and its daemon, and the publication *)
(* of profile events by the previous service (service/reauthentication,    *)
(* service/profile_deletion, app/daemon, repository/amqp).                 *)
(***************************************************************************)
EXTENDS PrevOAuth

Sensitive == {"ChangeEmail", "RequestDeletion"}

\* The operations that ask for a proof of identity.
SensitiveRequests(c) ==
    (IF Arrives(c, "ChangeEmail") THEN ChangeEmailInput ELSE {})
        \cup (IF Arrives(c, "RequestDeletion") THEN DeleteProfileInput ELSE {})

\* Of the credentials only an id token is looked at again.
Checked(q, step, token) ==
    IF q.op = "ChangeEmail"
    THEN [op |-> q.op, step |-> step, user |-> q.user, email |-> q.email, token |-> token]
    ELSE [op |-> q.op, step |-> step, user |-> q.user, shared |-> q.shared, token |-> token]

\* reauthentication.Check of user u with credentials r: it reads the account
\* and compares with what it has ...
Check(u, r) ==
    /\ Exists(u) /\ ~users[u].blocked
    /\ CASE r.method = "password" -> r.password # None /\ users[u].password = r.password
         [] r.method = "google" -> users[u].ids["google"] = r.idToken.subject
         [] OTHER -> FALSE

\* ... the password ...
ReauthPassword(c) ==
    \E q \in SensitiveRequests(c) :
        /\ q.credentials.method = "password" /\ Check(q.user, q.credentials)
        /\ Begin(c, Checked(q, "read", None))
        /\ UNCHANGED <<users, requests, activation, resets, mailVars, flowVars,
                       sessions, outbox, work, fresh, spent, restVars>>

\* freshAuthentication
freshAuthentication(at) == at <= now + Skew /\ now <= at + FreshFor

\* ... or a recent id token of the linked Google identity ...
ReauthGoogle(c) ==
    \E q \in SensitiveRequests(c) :
        /\ q.credentials.method = "google" /\ Check(q.user, q.credentials)
        /\ freshAuthentication(q.credentials.idToken.at)
        /\ Begin(c, Checked(q, "consume", q.credentials.idToken.token))
        /\ UNCHANGED <<users, requests, activation, resets, mailVars, flowVars,
                       sessions, outbox, work, fresh, spent, restVars>>

\* ... which ConsumeReauthentication accepts once: its row stays for ProofTtl.
ConsumeReauthentication(c) ==
    /\ calls[c].op \in Sensitive /\ calls[c].step = "consume"
    /\ IF Exists(calls[c].user) /\ \A p \in proofs : p.token # calls[c].token
       THEN /\ proofs' = proofs \cup {[token |-> calls[c].token, user |-> calls[c].user,
                                      expires |-> now + ProofTtl]}
            /\ Spend(calls[c].token)
            /\ Goto(c, "read")
       ELSE Return(c) /\ UNCHANGED <<proofs, spent>>
    /\ UNCHANGED <<users, requests, activation, resets, mailVars, states, issued,
                   sessions, outbox, work, fresh, restVars>>

\* ... or a VK sign-in: the state is spent, and the identity compared with the
\* account as it was read.
ReauthVk(c) ==
    \E q \in SensitiveRequests(c), info \in VkInfo :
        /\ q.credentials.method = "vk" /\ Exists(q.user) /\ ~users[q.user].blocked
        /\ GetVkAccessToken(q.credentials.state, info)
        /\ IF users[q.user].ids["vk"] = info.subject
           THEN Begin(c, Checked(q, "read", None))
           ELSE Return(c)
        /\ UNCHANGED <<users, requests, activation, resets, mailVars, proofs, issued,
                       sessions, outbox, work, fresh, restVars>>

-----------------------------------------------------------------------------
Due(u) == requests[u] # None /\ requests[u].deadline <= now

\* profile_deletion.Request reads the account again: a due request is final.
RequestDeletion(c) ==
    /\ At(c, "RequestDeletion", "read")
    /\ IF Exists(calls[c].user) /\ ~Due(calls[c].user) THEN Goto(c, "write") ELSE Return(c)
    /\ UNCHANGED <<users, requests, activation, resets, mailVars, flowVars,
                   sessions, outbox, work, fresh, spent, restVars>>

lockDeletionUser(u) == Exists(u) /\ ~users[u].blocked

\* RequestDeleteProfile: user lock, then request lock; a request that exists is
\* answered as it is.
RequestDeletionTx(c) ==
    /\ At(c, "RequestDeletion", "write")
    /\ LET u == calls[c].user IN
       requests' = IF lockDeletionUser(u) /\ requests[u] = None
                   THEN [requests EXCEPT ![u] = [shared |-> calls[c].shared,
                                                 deadline |-> now + Offset]]
                   ELSE requests
    /\ Return(c)
    /\ UNCHANGED <<users, activation, resets, mailVars, flowVars, sessions, outbox,
                   work, fresh, spent, restVars>>

\* Update and Cancel look at the account, then take the locks; a request that
\* is due is refused, a missing one is no error for Cancel.
UpdateDeletion(c) ==
    /\ Arrives(c, "UpdateDeletion")
    /\ \E q \in UpdateProfileDeletionInput :
           /\ Exists(q.user) /\ ~users[q.user].blocked
           /\ Begin(c, [op |-> "UpdateDeletion", step |-> "write", user |-> q.user,
                        shared |-> q.shared])
           /\ UNCHANGED <<users, requests, activation, resets, mailVars, flowVars,
                          sessions, outbox, work, fresh, spent, restVars>>

CancelDeletion(c) ==
    /\ Arrives(c, "CancelDeletion")
    /\ \E q \in CancelProfileDeletionInput :
           /\ Exists(q.user) /\ ~users[q.user].blocked
           /\ Begin(c, [op |-> "CancelDeletion", step |-> "write", user |-> q.user])
           /\ UNCHANGED <<users, requests, activation, resets, mailVars, flowVars,
                          sessions, outbox, work, fresh, spent, restVars>>

\* Mutant: the deadline is not looked at again under the locks.
lockDeletion_Late(u) == lockDeletionUser(u) /\ requests[u] # None

\* lockDeletion, with the user's row locked before
lockDeletion(u) == lockDeletionUser(u) /\ requests[u] # None /\ ~Due(u)

UpdateDeletionTx(c) ==
    /\ At(c, "UpdateDeletion", "write")
    /\ LET u == calls[c].user IN
       requests' = IF lockDeletion(u) THEN [requests EXCEPT ![u].shared = calls[c].shared]
                   ELSE requests
    /\ Return(c)
    /\ UNCHANGED <<users, activation, resets, mailVars, flowVars, sessions, outbox,
                   work, fresh, spent, restVars>>

CancelDeletionTx(c) ==
    /\ At(c, "CancelDeletion", "write")
    /\ LET u == calls[c].user IN
       requests' = IF lockDeletion(u) THEN [requests EXCEPT ![u] = None] ELSE requests
    /\ Return(c)
    /\ UNCHANGED <<users, activation, resets, mailVars, flowVars, sessions, outbox,
                   work, fresh, spent, restVars>>

-----------------------------------------------------------------------------
GetProfilesToDelete == {u \in Users : Due(u)}

\* ExecuteAll lists what is due ...
ExecuteAll(r) ==
    /\ doomed[r] = {}
    /\ GetProfilesToDelete # {}
    /\ doomed' = [doomed EXCEPT ![r] = GetProfilesToDelete]
    /\ UNCHANGED <<users, requests, activation, resets, mailVars, flowVars,
                   sessions, outbox, work, calls, fresh, spent, menu, now, removed,
                   courier, handed>>

\* Mutant: the account must be usable.
Removable_Unblocked(u) == Exists(u) /\ Due(u) /\ ~users[u].blocked

\* DeleteUser looks again under the locks of user and request.
Removable(u) == Exists(u) /\ Due(u)

\* addOutboxProfileDeletedMsg, with what the request says now.
Deleted(u) == [type |-> "deleted", user |-> u, shared |-> requests[u].shared]

\* DeleteUser takes everything that refers to the user along.
DeleteUser(u) ==
    /\ users' = [users EXCEPT ![u] = None]
    /\ requests' = [requests EXCEPT ![u] = None]
    /\ activation' = activation \ {u}
    /\ resets' = {x \in resets : x.user # u}
    /\ bindings' = {x \in bindings : x.user # u}
    /\ deliveries' = {x \in deliveries : x.user # u}
    /\ proofs' = {x \in proofs : x.user # u}
    /\ sessions' = {x \in sessions : x.user # u}
    /\ removed' = removed \cup {u}
    /\ createOutboxMsg(Deleted(u), {})

\* ... and Execute removes one user of the list.
Execute(r) ==
    \E u \in doomed[r] :
        /\ doomed' = [doomed EXCEPT ![r] = @ \ {u}]
        /\ \A d \in {courier[q] : q \in Replicas} \ {None} : d.user # u
        /\ IF Removable(u) THEN DeleteUser(u)
           ELSE UNCHANGED <<users, requests, activation, resets, bindings, deliveries,
                            proofs, sessions, removed, outbox, work>>
        /\ UNCHANGED <<mailbox, states, issued, calls, fresh, spent, menu, now,
                       courier, handed>>

\* A removal that fails is logged; ExecuteAll goes on with the next one.
SkipDeletion(r) ==
    \E u \in doomed[r] :
        /\ "Faults" \in menu
        /\ doomed' = [doomed EXCEPT ![r] = @ \ {u}]
        /\ UNCHANGED <<users, requests, activation, resets, mailVars, flowVars,
                       sessions, outbox, work, calls, fresh, spent, menu, now, removed,
                       courier, handed>>

-----------------------------------------------------------------------------
\* Mutant: the query joins the events with their users.
ObserveOutbox_Joined ==
    /\ "Events" \in menu
    /\ \E msg \in outbox : Exists(msg.user) /\ [kind |-> "publish", msg |-> msg] \notin work
    /\ work' = work \cup {[kind |-> "publish", msg |-> msg] :
                             msg \in {m \in outbox : Exists(m.user)}}
    /\ UNCHANGED <<users, requests, activation, resets, mailVars, flowVars,
                   sessions, outbox, calls, fresh, spent, restVars>>

\* GetPendingMessages
PendingMessages == {[kind |-> "publish", msg |-> msg] : msg \in outbox}

\* observeOutbox lists the table every ten seconds.
ObserveOutbox ==
    /\ "Events" \in menu
    /\ ~ PendingMessages \subseteq work
    /\ work' = work \cup PendingMessages
    /\ UNCHANGED <<users, requests, activation, resets, mailVars, flowVars,
                   sessions, outbox, calls, fresh, spent, restVars>>

\* PublishProfilesMessage: the client library takes the message ...
Publish ==
    \E w \in work :
        /\ w.kind = "publish" /\ "Events" \in menu
        /\ handed' = handed \cup {w.msg}
        /\ work' = (work \ {w}) \cup {[kind |-> "mark", msg |-> w.msg]}
        /\ UNCHANGED <<users, requests, activation, resets, mailVars, flowVars,
                       sessions, outbox, calls, fresh, spent, menu, now, removed,
                       courier, doomed>>

\* ... and MarkMessageSent deletes the row.
MarkMessageSent ==
    \E w \in work :
        /\ w.kind = "mark"
        /\ outbox' = outbox \ {w.msg}
        /\ work' = work \ {w}
        /\ UNCHANGED <<users, requests, activation, resets, mailVars, flowVars,
                       sessions, calls, fresh, spent, restVars>>

\* A goroutine fails or dies with its process; nobody hears of it.
LoseWork ==
    \E w \in work :
        /\ "Faults" \in menu
        /\ work' = work \ {w}
        /\ UNCHANGED <<users, requests, activation, resets, mailVars, flowVars,
                       sessions, outbox, calls, fresh, spent, restVars>>
=============================================================================
