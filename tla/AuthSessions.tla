---------------------------- MODULE AuthSessions ---------------------------
(***************************************************************************)
(* Sessions (internal/authentication/sessions.go), the cleanup of expired  *)
(* rows (cleanup.go) and the life and death of accounts (account.go).      *)
(***************************************************************************)
EXTENDS AuthStore

\* Engine.issue refuses a blocked account and one whose deletion is due.
issue(a) ==
    /\ ~acct[a].blocked
    /\ acct[a].deletion # Null => acct[a].deletion > now

\* The grant of a sign-in buys one session.
CreateSession(p) ==
    /\ Consumable(p, "signIn")
    /\ issue(proc[p].account)
    /\ FreeSessions # {}
    /\ LET s == CHOOSE t \in FreeSessions : TRUE
       IN  sess' = [sess EXCEPT ![s] =
                      [account |-> proc[p].account, exp |-> now + SessionTTL]]
    /\ proc' = Consumed(proc, p)
    /\ UNCHANGED <<now, acct, step, request, flight, epoch, proof>>

\* The refresh token is exchanged for a new one and the session prolonged.
Refresh(s) ==
    /\ s \in Refreshing
    /\ checkSession(s)
    /\ issue(sess[s].account)
    /\ sess' = [sess EXCEPT ![s].exp = now + SessionTTL]
    /\ UNCHANGED <<now, acct, proc, step, request, flight, epoch, proof>>

EndSessions(D) ==
    /\ DeleteSessions(proc, D)
    /\ CascadeSteps
    /\ request' = WithSession(request)
    /\ UNCHANGED <<now, acct, flight, epoch>>

\* Session s ends session t of its account, or all of them (t = Null).
RevokeSessions(s, t) ==
    /\ checkSession(s)
    /\ EndSessions(IF t = Null THEN SessionsOf(sess[s].account)
                               ELSE SessionsOf(sess[s].account) \cap {t})

\* The holder of the refresh token ends the session, expired or not.
LogoutRefresh(s) ==
    /\ s \in Refreshing
    /\ sess[s] # Null
    /\ EndSessions({s})

-----------------------------------------------------------------------------
\* Mutant: a second request restarts the grace period.
RequestDeletion_Restart(p) ==
    /\ Consumable(p, "accountDeletion")
    /\ LET a == proc[p].account
       IN  /\ acct[a].deletion # Null => acct[a].deletion > now
           /\ acct' = [acct EXCEPT ![a].deletion = now + DeletionDelay]
    /\ proc' = Consumed(proc, p)
    /\ UNCHANGED <<now, sess, step, request, flight, epoch, proof>>

\* The account goes DeletionDelay after the first request.
RequestDeletion(p) ==
    /\ Consumable(p, "accountDeletion")
    /\ LET a == proc[p].account
       IN  \* A second request keeps the first deadline; a due one conflicts.
           /\ acct[a].deletion # Null => acct[a].deletion > now
           /\ acct' = [acct EXCEPT ![a].deletion =
                         IF @ = Null THEN now + DeletionDelay ELSE @]
    /\ proc' = Consumed(proc, p)
    /\ UNCHANGED <<now, sess, step, request, flight, epoch, proof>>

CancelDeletion(s) ==
    /\ checkRecoveryPrincipal(s)
    /\ LET a == sess[s].account
       IN  /\ acct[a].deletion # Null /\ acct[a].deletion > now
           /\ acct' = [acct EXCEPT ![a].deletion = Null]
    /\ UNCHANGED <<now, sess, proc, step, request, flight, epoch, proof>>

Due(a) ==
    acct[a] # Null /\ acct[a].deletion # Null /\ acct[a].deletion <= now

\* Mutant: a blocked account is skipped.
DeleteDueAccount_Unblocked(a) ==
    /\ Due(a) /\ ~acct[a].blocked
    /\ acct' = [acct EXCEPT ![a] = Null]
    /\ DeleteSessions([p \in Procs |->
                         IF proc[p] # Null /\ proc[p].account = a
                         THEN Null ELSE proc[p]], SessionsOf(a))
    /\ CascadeSteps
    /\ request' = WithSession(request)
    /\ UNCHANGED <<now, flight, epoch>>

\* The worker deletes the account that has been due longest, and everything
\* that refers to it.
DeleteDueAccount(a) ==
    /\ Due(a)
    /\ \A b \in Accounts : Due(b) => acct[a].deletion <= acct[b].deletion
    /\ acct' = [acct EXCEPT ![a] = Null]
    /\ DeleteSessions([p \in Procs |->
                         IF proc[p] # Null /\ proc[p].account = a
                         THEN Null ELSE proc[p]], SessionsOf(a))
    /\ CascadeSteps
    /\ request' = WithSession(request)
    /\ UNCHANGED <<now, flight, epoch>>

-----------------------------------------------------------------------------
\* Mutant: the reuse window of the proofs is forgotten.
Disposable_Reused(p) ==
    /\ proc[p] # Null
    /\ proc[p].exp < now
    /\ proc[p].grant = Null \/ proc[p].grant < now

\* authentications that Cleanup deletes.
Disposable(p) ==
    /\ proc[p] # Null
    /\ proc[p].exp < now
    /\ proc[p].done = Null \/ proc[p].done < now - ReuseTTL
    /\ proc[p].grant = Null \/ proc[p].grant < now

ExpiredSessions == {s \in Sessions : sess[s] # Null /\ sess[s].exp < now}

\* Account row row without its expired mailed tokens.
Pruned(row) ==
    [row EXCEPT !.reset = IF @ # Null /\ @ < now THEN Null ELSE @,
                !.change = IF @ # Null /\ @.exp < now THEN Null ELSE @]

\* Expired rows go.  The OAuth state of a step expires with its step, which
\* cannot be attempted then, so its removal changes nothing here.
Cleanup ==
    /\ acct' = [a \in Accounts |->
                  IF acct[a] = Null THEN Null ELSE Pruned(acct[a])]
    /\ DeleteSessions([p \in Procs |-> IF Disposable(p) THEN Null ELSE proc[p]],
                      ExpiredSessions)
    /\ CascadeSteps
    /\ request' = WithSession([r \in Requests |->
                    IF request[r] # Null /\ request[r].exp < now
                    THEN Null ELSE request[r]])
    /\ UNCHANGED <<now, flight, epoch>>

\* blocking_timestamp is set by operators, outside this program.
Block(a) ==
    /\ a \in Blockable
    /\ acct[a] # Null /\ ~acct[a].blocked
    /\ acct' = [acct EXCEPT ![a].blocked = TRUE]
    /\ UNCHANGED <<now, sess, proc, step, request, flight, epoch, proof>>

Tick ==
    /\ now < MaxTime
    /\ now' = now + 1
    /\ UNCHANGED <<acct, sess, proc, step, request, flight, epoch, proof>>

SessionsNext ==
    \/ \E p \in Procs : CreateSession(p) \/ RequestDeletion(p)
    \/ \E s \in Sessions :
         Refresh(s) \/ LogoutRefresh(s) \/ CancelDeletion(s)
    \/ \E s \in Sessions, t \in Sessions \cup {Null} : RevokeSessions(s, t)
    \/ \E a \in Accounts : DeleteDueAccount(a) \/ Block(a)
    \/ Cleanup
    \/ Tick
=============================================================================
