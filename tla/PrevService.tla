----------------------------- MODULE PrevService ----------------------------
(***************************************************************************)
(* The previous service as a whole: its requests side by side, its mail    *)
(* workers and deletion daemons, the clock, and an operator who blocks     *)
(* accounts.                                                               *)
(***************************************************************************)
EXTENDS PrevAccounts, PrevEmail, PrevSessions, PrevDeletion

\* A request ends between two of its statements: its client is gone, a
\* statement failed or the process died.
Abandon(c) ==
    /\ calls[c] \notin {Idle, Done} /\ "Faults" \in menu
    /\ Return(c)
    /\ UNCHANGED <<users, requests, activation, resets, mailVars, flowVars,
                   sessions, outbox, work, fresh, spent, restVars>>

\* Nothing under src/ sets users.blocked; an operator does, in the database.
Block ==
    /\ "Block" \in menu
    /\ \E u \in Users : Exists(u) /\ users' = [users EXCEPT ![u].blocked = ~@]
    /\ UNCHANGED <<requests, activation, resets, mailVars, flowVars, sessions,
                   outbox, work, calls, fresh, spent, restVars>>

Tick ==
    /\ now < MaxTime
    /\ now' = now + 1
    /\ UNCHANGED <<users, requests, activation, resets, mailVars, flowVars,
                   sessions, outbox, work, calls, fresh, spent, menu, removed,
                   courier, doomed, handed>>

Serve(c) ==
    \/ SignUp(c) \/ SignUpCreate(c) \/ Verify(c) \/ Resend(c) \/ VerifyTx(c)
    \/ ActivateProfile(c) \/ ConfirmEmailBinding(c)
    \/ ChangePassword(c) \/ SetPassword(c)
    \/ RequestReset(c) \/ RemoveOutdatedResets(c) \/ FindReset(c) \/ InsertReset(c)
    \/ ResetPassword(c) \/ ResetPasswordTx(c)
    \/ SetUsername(c) \/ SetUsernameRow(c)
    \/ ConnectGoogle(c) \/ ConnectGoogleToken(c) \/ ConnectVk(c)
    \/ DeleteGoogleConnection(c) \/ DeleteVkConnection(c) \/ DisconnectTx(c)
    \/ ReauthPassword(c) \/ ReauthGoogle(c) \/ ConsumeReauthentication(c) \/ ReauthVk(c)
    \/ ChangeEmail(c) \/ ChangeTx(c)
    \/ RequestDeletion(c) \/ RequestDeletionTx(c)
    \/ UpdateDeletion(c) \/ UpdateDeletionTx(c) \/ CancelDeletion(c) \/ CancelDeletionTx(c)
    \/ RequestGoogleOAuth(c) \/ RequestVkOAuth(c)
    \/ SignInGoogle(c) \/ SignInVk(c) \/ SignInGoogleToken(c) \/ ByEmailStep(c)
    \/ ConnectTx(c) \/ CreateTx(c)
    \/ SignIn(c) \/ ImportFirebase(c) \/ ImportTx(c) \/ CreateSession(c)
    \/ Refresh(c) \/ UpdateSession(c) \/ DeleteSession(c) \/ SignOut(c) \/ EndSessions(c)
    \/ Abandon(c)

Background ==
    \/ ConnectFirebase \/ TrimSessions \/ ObserveOutbox \/ Publish \/ MarkMessageSent
    \/ LoseWork
    \/ \E r \in Replicas : \/ Claim(r) \/ Send(r) \/ Postpone(r) \/ DropDelivery(r)
                           \/ ExecuteAll(r) \/ Execute(r) \/ SkipDeletion(r)
    \/ \E table \in {"oauth_states", "email_deliveries", "email_bindings",
                     "reauthentication_proofs"} : Cleanup(table)

PrevNext == (\E c \in Callers : Serve(c)) \/ Background \/ GoogleIdToken \/ Block \/ Tick

PrevTypeOK ==
    /\ users \in [Users -> Row \cup {None}]
    /\ requests \in [Users -> Request \cup {None}]
    /\ activation \subseteq Users
    /\ bindings \subseteq Binding
    /\ spent \in [1 .. MaxTokens -> 0 .. 2]
    /\ now \in 0 .. MaxTime /\ fresh \in 0 .. MaxTokens

PrevSpec == PrevInit /\ [][PrevNext]_prevVars

\* Daemon, mail worker and observeOutbox run on tickers for as long as the
\* process lives; what fails is tried again, and does not fail every time.
PrevFairSpec ==
    /\ PrevSpec
    /\ \A r \in Replicas :
         /\ WF_prevVars(ExecuteAll(r)) /\ SF_prevVars(Execute(r))
         /\ WF_prevVars(Send(r) \/ Postpone(r) \/ DropDelivery(r))
    /\ WF_prevVars(ObserveOutbox) /\ SF_prevVars(Publish) /\ SF_prevVars(MarkMessageSent)
-----------------------------------------------------------------------------
\* An account always has a way in: no order of disconnects, connects, password
\* changes and sign-ups leaves an account without password and identity.
KeepsSignInMethod == \A u \in Users : Exists(u) => Methods(users[u]) # {}

\* The row that remembers an id token may be gone: it expired, for a request
\* that passed freshAuthentication and then stalled as long as that, or the user
\* it was accepted for was deleted.
MayBeForgotten(i) == now + Skew >= i.at + ProofTtl \/ removed # {}

\* What is good for one use is used once, however requests, expiry and the
\* cleanup overlap: reset codes, mailed proofs, refresh tokens, OAuth states, and
\* the id tokens of a re-authentication for as long as they are remembered.
OneTimeTokensSpentOnce ==
    \A t \in DOMAIN spent :
        spent[t] <= 1 \/ \E i \in issued : i.token = t /\ MayBeForgotten(i)

\* A mail that is still to be sent carries the proof its account waits for
\* (email_bindings.go:79, "so stale tokens aren't delivered later").
QueuedMailIsCurrent ==
    \A d \in deliveries : Live(d) => \E b \in bindings : b.token = d.token /\ b.user = d.user

\* Without faults an account has no more sessions than allowed, one more for
\* every trim that is still to run.
SessionsAreBounded ==
    "Faults" \notin menu =>
        \A u \in Users :
            Cardinality(SessionsOf(u)) <=
                MaxSessions + Cardinality({w \in work : w.kind = "trim" /\ w.user = u})

\* An account changes its address only once the proof mailed to the address it
\* has was used, and with the use of the proof mailed to the one it gets.
AddressProvedByBoth ==
    [][\A u \in Users :
          (Exists(u) /\ Exists(u)' /\ users'[u].email # users[u].email) =>
             /\ \E m \in mailbox : /\ m.stage = "old" /\ m.email = users[u].email
                                   /\ spent[m.token] = 1
             /\ \E m \in mailbox : /\ m.stage = "new" /\ m.email = users'[u].email
                                   /\ spent[m.token] = 0 /\ spent'[m.token] = 1]_prevVars

\* A deletion request that is due is final, whatever update, cancellation or
\* new request was under way: it stays as it is until the user disappears, which
\* happens for no other reason, and the event says what it says about shared data.
DueRequestIsFinal ==
    [][\A u \in Users :
          /\ (Exists(u) /\ ~Exists(u)') => Due(u)
          /\ (Due(u) /\ requests'[u] # requests[u]) =>
                /\ ~Exists(u)'
                /\ [type |-> "deleted", user |-> u, shared |-> requests[u].shared] \in outbox'
      ]_prevVars

\* A request that is due is carried out: no failed attempt, no other replica, no
\* block set meanwhile and no mail being sent keeps the account for ever.
DueProfilesAreRemoved == \A u \in Users : Due(u) ~> ~Exists(u)

ProfileEvents == [type : {"created", "imported", "deleted"}, user : Users, shared : BOOLEAN]

\* Every profile event is handed to the message queue, also when the goroutine
\* that should do it is lost and its user is gone by then.
EventsAreHanded == \A e \in ProfileEvents : e \in outbox ~> e \in handed
=============================================================================
