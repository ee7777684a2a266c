------------------------------ MODULE PrevEmail -----------------------------
(***************************************************************************)
(* Proofs of an address in the previous service (service/email,            *)
(* email_bindings.go): a verification, or a change that the old and then   *)
(* the new mailbox must confirm.  A proof is mailed by a worker that reads *)
(* email_deliveries and keeps the row locked while it talks to the mail    *)
(* server.                                                                 *)
(***************************************************************************)
EXTENDS PrevApi

OfPurpose(rows, u, stage) ==
    {b \in rows : b.user = u /\ Purpose(b.stage) = Purpose(stage)}

\* A statement that deletes deliveries waits for a worker that holds one.
Held == {courier[r] : r \in Replicas} \ {None}

NotSending(u, stage) == OfPurpose(Held, u, stage) = {}

\* Mutant: the mail of the replaced request stays queued.
queueBindingEmail_Keep(b) ==
    deliveries' = deliveries \cup
        {[token |-> b.token, user |-> b.user, stage |-> b.stage,
          email |-> IF b.stage = "old" THEN b.old ELSE b.email,
          expires |-> b.expires, next |-> now]}

\* queueBindingEmail replaces what is queued for the same purpose.
queueBindingEmail(b) ==
    /\ NotSending(b.user, b.stage)
    /\ deliveries' = (deliveries \ OfPurpose(deliveries, b.user, b.stage)) \cup
           {[token |-> b.token, user |-> b.user, stage |-> b.stage,
             email |-> IF b.stage = "old" THEN b.old ELSE b.email,
             expires |-> b.expires, next |-> now]}

\* The end of StartEmailBinding: one request per user and purpose.
Bind(u, stage, e, password) ==
    LET b == [token |-> fresh + 1, user |-> u, stage |-> stage,
              old |-> users[u].email, email |-> e, password |-> password,
              expires |-> now + Ttl]
    IN  /\ Draw
        /\ bindings' = (bindings \ OfPurpose(bindings, u, stage)) \cup {b}
        /\ queueBindingEmail(b)

\* email.Verify after a sign-up: it reads the account again.
Verify(c) ==
    /\ At(c, "SignUp", "verify")
    /\ LET found == {u \in ByEmail(calls[c].email) :
                        ~users[u].activated /\ ~users[u].blocked}
       IN  IF found = {} THEN Return(c)
           ELSE calls' = [calls EXCEPT ![c] =
                  [op |-> "SignUp", step |-> "bind", user |-> CHOOSE u \in found : TRUE,
                   email |-> @.email, password |-> @.password]]
    /\ UNCHANGED <<users, requests, activation, resets, mailVars, flowVars,
                   sessions, outbox, work, fresh, spent, restVars>>

\* StartEmailBinding with purpose "verify": the mail is asked for once more.
Resend(c) ==
    /\ Arrives(c, "Resend")
    /\ \E q \in VerifyEmailInput : \E u \in ByEmail(q.email) :
           /\ ~users[u].activated /\ ~users[u].blocked
           /\ Begin(c, [op |-> "Resend", step |-> "bind", user |-> u, email |-> q.email,
                        password |-> None])
           /\ UNCHANGED <<users, requests, activation, resets, mailVars, flowVars,
                          sessions, outbox, work, fresh, spent, restVars>>

\* A resend keeps the password that waits for the outstanding proof.
Staged(u) == {b.password : b \in {x \in OfPurpose(bindings, u, "verify") : Live(x)}}

VerifyTx(c) ==
    /\ calls[c].op \in {"SignUp", "Resend"} /\ calls[c].step = "bind"
    /\ LET u == calls[c].user
           password == IF calls[c].password # None \/ Staged(u) = {}
                       THEN calls[c].password
                       ELSE CHOOSE h \in Staged(u) : TRUE
       IN  IF /\ Exists(u) /\ ~users[u].activated /\ ~users[u].blocked
              /\ users[u].email = calls[c].email
           THEN Bind(u, "verify", calls[c].email, password)
           ELSE UNCHANGED <<bindings, deliveries, fresh>>
    /\ Return(c)
    /\ UNCHANGED <<users, requests, activation, resets, mailbox, flowVars,
                   sessions, outbox, work, spent, restVars>>

-----------------------------------------------------------------------------
\* email.Change, once the owner has proved who he is: it reads the account ...
ChangeEmail(c) ==
    /\ At(c, "ChangeEmail", "read")
    /\ LET u == calls[c].user IN
       IF Exists(u) /\ requests[u] = None /\ users[u].email # calls[c].email
       THEN calls' = [calls EXCEPT ![c] = [op |-> "ChangeEmail", step |-> "bind",
                        user |-> u, email |-> @.email, old |-> users[u].email]]
       ELSE Return(c)
    /\ UNCHANGED <<users, requests, activation, resets, mailVars, flowVars,
                   sessions, outbox, work, fresh, spent, restVars>>

\* ... and StartEmailBinding refuses an address that changed since, a leaving
\* account and a second change.
ChangeTx(c) ==
    /\ At(c, "ChangeEmail", "bind")
    /\ LET u == calls[c].user IN
       IF /\ Exists(u) /\ Changeable(AuthInfo(u))
          /\ users[u].email = calls[c].old
          /\ ~ \E b \in OfPurpose(bindings, u, "old") : Live(b)
       THEN Bind(u, "old", calls[c].email, None)
       ELSE UNCHANGED <<bindings, deliveries, fresh>>
    /\ Return(c)
    /\ UNCHANGED <<users, requests, activation, resets, mailbox, flowVars,
                   sessions, outbox, work, spent, restVars>>

-----------------------------------------------------------------------------
\* A proof that is finished takes every other proof of the account with it.
Finish(u, row) ==
    /\ users' = [users EXCEPT ![u] = row]
    /\ \A d \in Held : d.user # u
    /\ bindings' = {b \in bindings : b.user # u}
    /\ deliveries' = {d \in deliveries : d.user # u}
    /\ activation' = activation \ {u}

\* Mutant: the old mailbox's answer is enough.
ConfirmOld_Direct(b) ==
    /\ Finish(b.user, [users[b.user] EXCEPT !.email = b.email])
    /\ UNCHANGED <<fresh, resets>>

\* The stage "old": the request waits for the new mailbox, with a new token.
ConfirmOld(b) ==
    LET next == [b EXCEPT !.token = fresh + 1, !.stage = "new", !.expires = now + Ttl]
    IN  /\ Draw
        /\ bindings' = (bindings \ {b}) \cup {next}
        /\ queueBindingEmail(next)
        /\ UNCHANGED <<users, activation, resets>>

\* The stage "new": unless the address was taken meanwhile.  Reset codes go.
ConfirmNew(b) ==
    /\ ByEmail(b.email) = {}
    /\ Finish(b.user, [users[b.user] EXCEPT !.email = b.email])
    /\ resets' = {r \in resets : r.user # b.user}
    /\ UNCHANGED fresh

\* The stage "verify": the password staged with the proof becomes the password.
ConfirmVerify(b) ==
    /\ Finish(b.user, [users[b.user] EXCEPT
                         !.activated = TRUE,
                         !.password = IF b.password = None THEN @ ELSE b.password])
    /\ UNCHANGED <<fresh, resets>>

\* ConfirmEmailBinding: the token finds the user, whose row is locked before
\* the request is read again; the account must still have the old address.
ConfirmEmailBinding(c) ==
    /\ Arrives(c, "ConfirmEmailBinding") /\ Return(c)
    /\ \E q \in ConfirmEmailBindingInput : \E b \in bindings :
         /\ b.token = q.token /\ Live(b)
         /\ Changeable(AuthInfo(b.user))
         /\ users[b.user].email = b.old
         /\ CASE b.stage = "verify" -> ConfirmVerify(b)
              [] b.stage = "old" -> ConfirmOld(b)
              [] b.stage = "new" -> ConfirmNew(b)
         /\ Spend(b.token)
    /\ UNCHANGED <<requests, mailbox, flowVars, sessions, outbox, work, restVars>>

-----------------------------------------------------------------------------
\* SendEmailBinding: the mail that carries the token of a delivery.
Mail(d) == [token |-> d.token, email |-> d.email, stage |-> d.stage]

\* DeliverEmail takes the oldest delivery that is due and that no other
\* replica holds (FOR UPDATE SKIP LOCKED) ...
Claim(r) ==
    /\ courier[r] = None
    /\ LET due == {d \in deliveries \ Held : d.next <= now /\ Live(d)}
       IN  \E d \in due : /\ \A o \in due : d.token <= o.token
                          /\ courier' = [courier EXCEPT ![r] = d]
    /\ UNCHANGED <<users, requests, activation, resets, mailVars, flowVars,
                   sessions, outbox, work, calls, fresh, spent, menu, now,
                   removed, doomed, handed>>

\* ... and deletes it once the mail server took the mail.
Send(r) ==
    /\ courier[r] # None
    /\ mailbox' = mailbox \cup {Mail(courier[r])}
    /\ deliveries' = deliveries \ {courier[r]}
    /\ courier' = [courier EXCEPT ![r] = None]
    /\ UNCHANGED <<users, requests, activation, resets, bindings, flowVars,
                   sessions, outbox, work, calls, fresh, spent, menu, now,
                   removed, doomed, handed>>

\* The mail server refused: another attempt in a minute.
Postpone(r) ==
    /\ courier[r] # None /\ "Faults" \in menu
    /\ deliveries' = (deliveries \ {courier[r]})
                       \cup {[courier[r] EXCEPT !.next = now + 1]}
    /\ courier' = [courier EXCEPT ![r] = None]
    /\ UNCHANGED <<users, requests, activation, resets, bindings, mailbox, flowVars,
                   sessions, outbox, work, calls, fresh, spent, menu, now,
                   removed, doomed, handed>>

\* The process dies while it sends: the row is free again, the mail may have
\* arrived.
DropDelivery(r) ==
    /\ courier[r] # None /\ "Faults" \in menu
    /\ \E arrived \in BOOLEAN :
         mailbox' = IF arrived THEN mailbox \cup {Mail(courier[r])} ELSE mailbox
    /\ courier' = [courier EXCEPT ![r] = None]
    /\ UNCHANGED <<users, requests, activation, resets, bindings, deliveries,
                   flowVars, sessions, outbox, work, calls, fresh, spent, menu,
                   now, removed, doomed, handed>>

\* CleanupAuthWorkflows, the first thing Dispatch does: four deletes, each a
\* statement of its own; replicas do them side by side.
Cleanup(table) ==
    /\ \/ /\ table = "oauth_states"
          /\ states' = {s \in states : Live(s)}
          /\ UNCHANGED <<deliveries, bindings, proofs>>
       \/ /\ table = "email_deliveries"
          /\ \A d \in Held : Live(d)
          /\ deliveries' = {d \in deliveries : Live(d)}
          /\ UNCHANGED <<states, bindings, proofs>>
       \/ /\ table = "email_bindings"
          /\ bindings' = {b \in bindings : Live(b)}
          /\ UNCHANGED <<states, deliveries, proofs>>
       \/ /\ table = "reauthentication_proofs"
          /\ proofs' = {p \in proofs : Live(p)}
          /\ UNCHANGED <<states, deliveries, bindings>>
    /\ UNCHANGED <<users, requests, activation, resets, mailbox, issued, sessions,
                   outbox, work, calls, fresh, spent, restVars>>
=============================================================================
