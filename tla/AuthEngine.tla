----------------------------- MODULE AuthEngine ----------------------------
(***************************************************************************)
(* The authentication engine: processes, sessions, credentials, account    *)
(* deletion and cleanup over one database, interleaved transaction by      *)
(* transaction, with provider calls outstanding between transactions.      *)
(***************************************************************************)
EXTENDS AuthProcess, AuthSessions, AuthCredentials

Next == ProcessNext \/ SessionsNext \/ CredentialsNext

Spec == Init /\ [][Next]_vars

\* runDeletions of app.go calls DeleteDueAccount again and again.
FairSpec == Spec /\ \A a \in Accounts : WF_vars(DeleteDueAccount(a))

-----------------------------------------------------------------------------
(* Invariants *)

\* No process outlives a credential change of its account: a process that
\* is bound to an account and not invalidated was bound in the account's
\* present credential epoch, so neither a grant, nor a half-finished sign-in,
\* nor reusable evidence from before the change is usable (invalidate is
\* called on every path that changes a credential).
EvidenceIsCurrent ==
    \A p \in Procs :
      proc[p] # Null /\ ~proc[p].invalid /\ proc[p].account # Null
        => proof[p].epoch = epoch[proc[p].account]

\* Every outstanding grant, whoever issued it and however long ago, rests on
\* a first factor and, if the account has TOTP now, on a second factor
\* (next, reusable and complete agree with invalidate).
GrantMeetsPolicy ==
    \A p \in Procs :
      proc[p] # Null /\ proc[p].grant # Null =>
        /\ proc[p].status = "completed" /\ ~proc[p].invalid
        /\ proc[p].account # Null
        /\ proof[p].first # Null
        /\ acct[proc[p].account].totp => proof[p].second # Null

\* The reuse window does not slide: a process completed from earlier proofs
\* was completed less than ReuseTTL after the moment the proofs were really
\* accepted, however many processes were derived in between (reusable asks for
\* steps, and derived completions have none).
TrustWindowIsFixed ==
    \A p \in Procs :
      proc[p] # Null /\ proc[p].status = "completed" /\ proof[p].derived =>
        /\ proof[p].first # Null
        /\ proc[p].done < proof[p].first + ReuseTTL
        /\ proc[p].grant # Null /\ acct[proc[p].account].totp
             => proc[p].done < proof[p].second + ReuseTTL

\* A sensitive process lives no longer than the session that started it and
\* stays with that session's account, whichever account a factor names
\* (the account checks of verify and attemptProvider, and the cascade).
SensitiveStaysWithPrincipal ==
    \A p \in Procs :
      proc[p] # Null /\ sensitive(proc[p].purpose) =>
        /\ proc[p].session # Null /\ sess[proc[p].session] # Null
        /\ sess[proc[p].session].account = proc[p].account

\* No sequence of enrolments and removals leaves an account that nobody can
\* sign in to (the counts of DeletePasskey and UnlinkIdentity).
AccountIsReachable ==
    \A a \in Accounts : acct[a] # Null => HasSignInMethod(acct[a])

\* An account has at most one TOTP activation request, and none beside an
\* active TOTP: a stale request cannot replace the secret (StartTotp,
\* ConfirmTotp).
OneTotpActivation ==
    \A a \in Accounts : acct[a] # Null =>
      /\ Cardinality(TotpRequests(a)) <= 1
      /\ acct[a].totp => TotpRequests(a) = {}

\* Every step still pending in a live pending process is one the process
\* would accept now, and no two of them are of one type: accepting a factor
\* closes its alternatives, and no later change reopens them
\* (cancelAlternatives, CreateChallenge, invalidate).
PendingStepsAreOffered ==
    \A c \in Steps :
      LET p == step[c].proc IN
      step[c] # Null /\ step[c].status = "pending"
          /\ proc[p].status = "pending" /\ ~proc[p].invalid =>
        /\ step[c].method \in next(proc[p], step, p)
        /\ \A d \in Steps :
             step[d] # Null /\ step[d].proc = p /\ step[d].status = "pending"
               /\ step[d].method = step[c].method => d = c

\* The failures counted on the steps of process p, one pair for each.
Mistakes(p) ==
    UNION {{c} \X (1 .. step[c].failures) :
             c \in {d \in Steps : step[d] # Null /\ step[d].proc = p}}

\* Failures counted on a process are the failures counted on its steps,
\* those of replaced steps included, and the process has failed exactly when
\* they reach MaxAttempts: asking for a new step does not buy new attempts,
\* and no wrong proof is left uncounted (Attempt, AttemptProvider).
BudgetIsDurable ==
    \A p \in Procs : proc[p] # Null =>
      /\ proc[p].failures = Cardinality(Mistakes(p))
      /\ proc[p].status = "failed" <=> proc[p].failures >= MaxAttempts

-----------------------------------------------------------------------------
(* Action properties *)

\* A grant is spent once: a process that ended stays as it ended, and a grant
\* that was spent or revoked never comes back, whatever is still in flight.
EndedStaysEnded ==
    [][\A p \in Procs :
         proc[p] # Null /\ proc'[p] # Null /\ proc[p].status # "pending" =>
           /\ proc'[p].status = proc[p].status
           /\ proc[p].grant = Null => proc'[p].grant = Null]_vars

\* Unless its session or account goes, a process row is removed only when it
\* can serve no more: the flow has expired, no grant is live and no proof is
\* inside the reuse window (Cleanup).
CleanupKeepsUsable ==
    [][\A p \in Procs :
         /\ proc[p] # Null /\ proc'[p] = Null
         /\ proc[p].account # Null => acct'[proc[p].account] # Null
         /\ proc[p].session # Null => sess'[proc[p].session] # Null
         => /\ proc[p].exp < now
            /\ proc[p].grant = Null \/ proc[p].grant < now
            /\ proc[p].status = "completed" => ~Recent(p, FirstFactors)]_vars

\* A deletion deadline never moves; before it the request can only be
\* withdrawn, and from it on the account can only go.  Nothing else removes
\* an account (RequestDeletion, CancelDeletion, DeleteDueAccount).
DeletionIsFirm ==
    [][\A a \in Accounts : acct[a] # Null =>
         IF acct'[a] = Null THEN Due(a)
         ELSE acct[a].deletion # Null =>
                \/ acct'[a].deletion = acct[a].deletion
                \/ acct'[a].deletion = Null /\ acct[a].deletion > now]_vars

\* The mailed token of a reset is used, and every session of a ends.
ResetByMail(a) ==
    acct[a].reset # Null /\ acct'[a].reset = Null /\ SessionsOf(a)' = {}

\* The token mailed to the new address of a is used.
AddressByMail(a) ==
    acct[a].change # Null /\ acct[a].change.stage = "new"
    /\ acct'[a].change = Null

\* While a deletion is pending, no session can change the credentials or begin
\* to: what is left is a mailed token, either of a password reset, which ends
\* all sessions, or the last one of a change of address that was begun before
\* the deletion was asked for (checkPrincipal; ConfirmPasswordReset and
\* ConfirmEmail do not look at the deletion).
PendingDeletionFreezesSessions ==
    [][\A a \in Accounts :
         acct[a] # Null /\ acct'[a] # Null /\ acct[a].deletion # Null =>
           /\ epoch'[a] # epoch[a] => ResetByMail(a) \/ AddressByMail(a)
           /\ acct[a].change = Null => acct'[a].change = Null]_vars

\* README.md's words: a pending deletion restricts account mutations to session
\* management and to the deletion itself, so credentials stay as they are.
PendingDeletionRestrictsMutations ==
    [][\A a \in Accounts :
         acct[a] # Null /\ acct'[a] # Null /\ acct[a].deletion # Null
           => epoch'[a] = epoch[a]]_vars

-----------------------------------------------------------------------------
(* Liveness *)

\* An account whose deletion is due is deleted, blocked or not, whatever the
\* clients do meanwhile.
DueAccountsGo == \A a \in Accounts : Due(a) ~> acct[a] = Null
=============================================================================
