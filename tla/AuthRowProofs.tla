--------------------------- MODULE AuthRowProofs ---------------------------
(***************************************************************************)
(* Proofs about the rows of AuthEngine: which steps stay pending, which    *)
(* enrolment requests an account has, when a process row may go, and what  *)
(* a pending deletion forbids.  They build on the invariant IInv of        *)
(* AuthEngineProofs and on its account of the withdrawing transactions.    *)
(***************************************************************************)
EXTENDS AuthEngineProofs, FiniteSetTheorems

-----------------------------------------------------------------------------
(* The invariant about steps *)

\* A process with an accepted first factor names its account.
FirstBinds ==
    \A c \in Steps :
      step[c] # Null /\ step[c].status = "completed" /\ step[c].method \in FirstFactors
        => proc[step[c].proc].account # Null

\* No step of a completed process was accepted after the completion.
StepsPrecedeCompletion ==
    \A c \in Steps :
      step[c] # Null /\ step[c].status = "completed"
        /\ proc[step[c].proc].status = "completed"
        => step[c].done <= proc[step[c].proc].done

StepInv == FirstBinds /\ StepsPrecedeCompletion /\ PendingStepsAreOffered

\* Every enrolment request belongs to an open session, an account has at
\* most one TOTP activation request, and none beside an active TOTP.
TotpAccount(r) == sess[request[r].session].account
IsTotp(r) == request[r] # Null /\ request[r].kind = "totp"

RequestsHaveSession ==
    \A r \in Requests : request[r] # Null => sess[request[r].session] # Null

TotpRequestsDiffer ==
    \A r, q \in Requests :
      IsTotp(r) /\ IsTotp(q) /\ TotpAccount(r) = TotpAccount(q) => r = q

RequestsPrecedeTotp ==
    \A r \in Requests : IsTotp(r) => ~acct[TotpAccount(r)].totp

RequestInv == RequestsHaveSession /\ TotpRequestsDiffer /\ RequestsPrecedeTotp

-----------------------------------------------------------------------------
(* What a transaction of AuthCredentials does to accounts and sessions *)

DeadlinesKept ==
    \A b \in Accounts : acct[b] # Null =>
      acct'[b] # Null /\ acct'[b].deletion = acct[b].deletion

TotpStep(a) == acct'[a] # Null /\ acct'[a].totp => acct[a].totp
NoNewTotp == \A b \in Accounts : acct[b] # Null => TotpStep(b)

UsesMailedToken(a, D) ==
    \/ acct[a].reset # Null /\ acct'[a].reset = Null /\ D = SessionsOf(a)
    \/ AddressByMail(a)

\* It spends at most a grant, or it changes the credentials of an account
\* that has no pending deletion, or it uses a mailed token: of a password
\* reset, or the last one of a change of address.
ChangesCredentials ==
    \/ Spent(proc') /\ UNCHANGED <<sess, step, epoch>>
    \/ \E a \in Accounts, D \in SUBSET Sessions : \E ps :
         /\ Spent(ps) /\ Revoke(ps, a, D)
         /\ acct[a].deletion # Null => UsesMailedToken(a, D)

\* An account whose row is replaced by one with the same deadline.
LEMMA RowKeepsDeadline ==
    ASSUME IInv, NEW a \in Accounts, NEW row \in AccountRow,
           row.deletion = acct[a].deletion, acct' = [acct EXCEPT ![a] = row]
    PROVE  DeadlinesKept /\ ((row.totp => acct[a].totp) => NoNewTotp)
  BY NullAssumption DEF IInv, TypeOK, DeadlinesKept, NoNewTotp, TotpStep

\* A grant other than that of a deletion is of no use while one is pending.
LEMMA GrantNeedsNoDeletion ==
    ASSUME IInv, NEW p \in Procs, NEW u, sensitive(u), u # "accountDeletion",
           Consumable(p, u)
    PROVE  /\ Spent(Consumed(proc, p))
           /\ proc[p].account \in Accounts
           /\ acct[proc[p].account] # Null
           /\ acct[proc[p].account] \in AccountRow
           /\ acct[proc[p].account].deletion = Null
<1>1. /\ proc[p] # Null /\ proc[p].account \in Accounts
      /\ acct[proc[p].account] # Null
      /\ acct[proc[p].account] \in AccountRow
      /\ sess[proc[p].session].account = proc[p].account
  BY ConsumableFacts
<1>2. checkPrincipal(proc[p].session)
  BY DEF Consumable, checkPurposePrincipal
<1>3. acct[proc[p].account].deletion = Null
  BY <1>1, <1>2 DEF checkPrincipal
<1>4. Spent(Consumed(proc, p))
  BY <1>1 DEF Spent
<1> QED BY <1>1, <1>3, <1>4

\* Nor is a session.
LEMMA PrincipalHasNoDeletion ==
    ASSUME IInv, NEW s \in Sessions, checkPrincipal(s)
    PROVE  /\ sess[s].account \in Accounts
           /\ acct[sess[s].account] # Null
           /\ acct[sess[s].account] \in AccountRow
           /\ acct[sess[s].account].deletion = Null
<1>1. sess[s] # Null /\ acct[sess[s].account].deletion = Null
  BY DEF checkPrincipal, checkRecoveryPrincipal, checkSession
<1> QED BY <1>1, SessionFacts

\* A change of account a, without a pending deletion, ending sessions D.
LEMMA ChangeIsShaped ==
    ASSUME IInv, NEW a \in Accounts, NEW D \in SUBSET Sessions, NEW ps, Spent(ps),
           Revoke(ps, a, D), acct[a].deletion = Null
    PROVE  ChangesCredentials
  BY DEF ChangesCredentials

\* Every transaction of AuthCredentials has this shape.
LEMMA CredentialsShape ==
    ASSUME IInv, CredentialsNext
    PROVE  /\ DeadlinesKept /\ ChangesCredentials
           /\ NoNewTotp \/ \E s \in Sessions, r \in Requests : ConfirmTotp(s, r)
<1> USE DEF sensitive
<1>a. /\ acct \in [Accounts -> AccountRow \cup {Null}]
      /\ now \in Nat
  BY DEF IInv, TypeOK, Time
<1>b. Spent(proc)
  BY DEF Spent
<1>c. ASSUME UNCHANGED acct PROVE DeadlinesKept /\ NoNewTotp
  BY <1>c DEF DeadlinesKept, NoNewTotp, TotpStep
<1>d. ASSUME Spent(proc'), UNCHANGED <<sess, step, epoch>>
      PROVE  ChangesCredentials
  BY <1>d DEF ChangesCredentials
<1>1. ASSUME NEW p \in Procs, NEW same \in BOOLEAN, SetPassword(p, same)
      PROVE  DeadlinesKept /\ NoNewTotp /\ ChangesCredentials
  <2>1. Consumable(p, "passwordChange") /\ UNCHANGED acct
    BY <1>1 DEF SetPassword
  <2>2. CASE same
    BY <1>1, <2>1, <2>2, <1>c, <1>d, GrantNeedsNoDeletion DEF SetPassword
  <2>3. CASE ~same
    <3>1. Revoke(Consumed(proc, p), proc[p].account, OtherSessions(proc[p].session))
      BY <1>1, <2>3 DEF SetPassword
    <3> QED BY <2>1, <3>1, <1>c, SessionSets, GrantNeedsNoDeletion, ChangeIsShaped
  <2> QED BY <2>2, <2>3
<1>2. ASSUME NEW s \in Sessions, SetFirstPassword(s)
      PROVE  DeadlinesKept /\ NoNewTotp /\ ChangesCredentials
  <2> DEFINE a == sess[s].account
             row == [acct[a] EXCEPT !.password = TRUE]
  <2>1. /\ checkPrincipal(s) /\ acct' = [acct EXCEPT ![a] = row]
        /\ Revoke(proc, a, OtherSessions(s))
    BY <1>2 DEF SetFirstPassword
  <2>2. /\ a \in Accounts /\ acct[a] \in AccountRow /\ acct[a].deletion = Null
    BY <2>1, PrincipalHasNoDeletion
  <2>3. /\ row \in AccountRow
        /\ row.deletion = acct[a].deletion
        /\ row.totp => acct[a].totp
    BY <2>2 DEF AccountRow
  <2> HIDE DEF a, row
  <2> QED BY <2>1, <2>2, <2>3, <1>b, SessionSets, RowKeepsDeadline, ChangeIsShaped
<1>3. ASSUME NEW a \in Accounts, StartPasswordReset(a)
      PROVE  DeadlinesKept /\ NoNewTotp /\ ChangesCredentials
  <2> DEFINE row == [acct[a] EXCEPT !.reset = now + RequestTTL]
  <2>1. /\ acct[a] # Null /\ acct' = [acct EXCEPT ![a] = row]
        /\ UNCHANGED <<sess, proc, step, epoch>>
    BY <1>3 DEF StartPasswordReset
  <2>2. /\ row \in AccountRow
        /\ row.deletion = acct[a].deletion
        /\ row.totp => acct[a].totp
    BY <2>1, <1>a, DurationAssumption DEF AccountRow, Time
  <2> HIDE DEF row
  <2> QED BY <2>1, <2>2, <1>b, <1>d, RowKeepsDeadline
<1>4. ASSUME NEW a \in Accounts, ConfirmPasswordReset(a)
      PROVE  DeadlinesKept /\ NoNewTotp /\ ChangesCredentials
  <2> DEFINE row == [acct[a] EXCEPT !.password = TRUE, !.reset = Null]
  <2>1. /\ acct[a] # Null /\ acct[a].reset # Null
        /\ acct' = [acct EXCEPT ![a].password = TRUE, ![a].reset = Null]
        /\ Revoke(proc, a, SessionsOf(a))
    BY <1>4 DEF ConfirmPasswordReset
  <2>2. acct[a] \in AccountRow
    BY <2>1, <1>a
  <2>3. /\ row \in AccountRow /\ row.reset = Null
        /\ row.deletion = acct[a].deletion
        /\ row.totp => acct[a].totp
    BY <2>2 DEF AccountRow
  <2>4. acct' = [acct EXCEPT ![a] = row]
    BY <2>1, <2>2, <1>a DEF AccountRow
  <2> HIDE DEF row
  <2>5. acct'[a].reset = Null /\ SessionsOf(a) \in SUBSET Sessions
    BY <2>3, <2>4, <1>a, SessionSets
  <2>6. ChangesCredentials
    BY <2>1, <2>5, <1>b DEF ChangesCredentials, UsesMailedToken
  <2> QED BY <2>3, <2>4, <2>6, RowKeepsDeadline
<1>5. ASSUME NEW p \in Procs, StartTotp(p) \/ StartPasskey(p)
      PROVE  DeadlinesKept /\ NoNewTotp /\ ChangesCredentials
  <2>1. /\ Consumable(p, "totpEnrollment") \/ Consumable(p, "passkeyEnrollment")
        /\ proc' = Consumed(proc, p) /\ UNCHANGED <<acct, sess, step, epoch>>
    BY <1>5 DEF StartTotp, StartPasskey
  <2> QED BY <2>1, <1>c, <1>d, GrantNeedsNoDeletion
<1>6. ASSUME NEW s \in Sessions, NEW r \in Requests, ConfirmTotp(s, r)
      PROVE  DeadlinesKept /\ ChangesCredentials
  <2> DEFINE a == sess[s].account
             row == [acct[a] EXCEPT !.totp = TRUE, !.codes = BackupCodes]
  <2>1. /\ checkPrincipal(s)
        /\ acct' = [acct EXCEPT ![a].totp = TRUE, ![a].codes = BackupCodes]
        /\ Revoke(proc, a, OtherSessions(s))
    BY <1>6 DEF ConfirmTotp
  <2>2. a \in Accounts /\ acct[a] \in AccountRow /\ acct[a].deletion = Null
    BY <2>1, PrincipalHasNoDeletion
  <2>3. /\ row \in AccountRow
        /\ row.deletion = acct[a].deletion
    BY <2>2, DurationAssumption DEF AccountRow
  <2>4. acct' = [acct EXCEPT ![a] = row]
    BY <2>1, <2>2, <1>a DEF AccountRow
  <2> HIDE DEF a, row
  <2> QED BY <2>1, <2>2, <2>3, <2>4, <1>b, SessionSets, RowKeepsDeadline, ChangeIsShaped
<1>e. ASSUME NEW p \in Procs, NEW u, sensitive(u), u # "accountDeletion",
             Consumable(p, u), NEW row \in AccountRow,
             row.deletion = acct[proc[p].account].deletion,
             row.totp => acct[proc[p].account].totp,
             acct' = [acct EXCEPT ![proc[p].account] = row],
             Revoke(Consumed(proc, p), proc[p].account, {})
      PROVE  DeadlinesKept /\ NoNewTotp /\ ChangesCredentials
  <2>1. /\ Spent(Consumed(proc, p)) /\ proc[p].account \in Accounts
        /\ acct[proc[p].account].deletion = Null
    BY <1>e, GrantNeedsNoDeletion
  <2>2. ChangesCredentials
    BY <1>e, <2>1, ChangeIsShaped
  <2> QED BY <1>e, <2>1, <2>2, RowKeepsDeadline
<1>7. ASSUME NEW p \in Procs, DeleteTotp(p)
      PROVE  DeadlinesKept /\ NoNewTotp /\ ChangesCredentials
  <2> DEFINE row == [acct[proc[p].account] EXCEPT !.totp = FALSE]
  <2>1. /\ Consumable(p, "totpRemoval")
        /\ acct' = [acct EXCEPT ![proc[p].account] = row]
        /\ Revoke(Consumed(proc, p), proc[p].account, {})
    BY <1>7 DEF DeleteTotp
  <2>2. /\ row \in AccountRow
        /\ row.deletion = acct[proc[p].account].deletion
        /\ row.totp => acct[proc[p].account].totp
    BY <2>1, GrantNeedsNoDeletion DEF AccountRow
  <2> HIDE DEF row
  <2> QED BY <2>1, <2>2, <1>e
<1>8. ASSUME NEW p \in Procs, RotateBackupCodes(p)
      PROVE  DeadlinesKept /\ NoNewTotp /\ ChangesCredentials
  <2> DEFINE row == [acct[proc[p].account] EXCEPT !.codes = BackupCodes]
  <2>1. /\ Consumable(p, "backupCodesRotation")
        /\ acct' = [acct EXCEPT ![proc[p].account] = row]
        /\ Revoke(Consumed(proc, p), proc[p].account, {})
    BY <1>8 DEF RotateBackupCodes
  <2>2. /\ row \in AccountRow
        /\ row.deletion = acct[proc[p].account].deletion
        /\ row.totp => acct[proc[p].account].totp
    BY <2>1, GrantNeedsNoDeletion, DurationAssumption DEF AccountRow
  <2> HIDE DEF row
  <2> QED BY <2>1, <2>2, <1>e
<1>9. ASSUME NEW s \in Sessions, NEW r \in Requests, NEW k \in Passkeys,
             RegisterPasskey(s, r, k)
      PROVE  DeadlinesKept /\ NoNewTotp /\ ChangesCredentials
  <2> DEFINE a == sess[s].account
             row == [acct[a] EXCEPT !.passkeys = @ \cup {k}]
  <2>1. /\ checkPrincipal(s) /\ acct' = [acct EXCEPT ![a] = row]
        /\ Revoke(proc, a, {})
    BY <1>9 DEF RegisterPasskey
  <2>2. a \in Accounts /\ acct[a] \in AccountRow /\ acct[a].deletion = Null
    BY <2>1, PrincipalHasNoDeletion
  <2>3. /\ row \in AccountRow
        /\ row.deletion = acct[a].deletion
        /\ row.totp => acct[a].totp
    BY <2>2 DEF AccountRow
  <2> HIDE DEF a, row
  <2> QED BY <2>1, <2>2, <2>3, <1>b, RowKeepsDeadline, ChangeIsShaped
<1>10. ASSUME NEW p \in Procs, NEW k \in Passkeys, DeletePasskey(p, k)
       PROVE  DeadlinesKept /\ NoNewTotp /\ ChangesCredentials
  <2> DEFINE row == [acct[proc[p].account] EXCEPT !.passkeys = @ \ {k}]
  <2>1. /\ Consumable(p, "passkeyRemoval")
        /\ acct' = [acct EXCEPT ![proc[p].account] = row]
        /\ Revoke(Consumed(proc, p), proc[p].account, {})
    BY <1>10 DEF DeletePasskey
  <2>2. /\ row \in AccountRow
        /\ row.deletion = acct[proc[p].account].deletion
        /\ row.totp => acct[proc[p].account].totp
    BY <2>1, GrantNeedsNoDeletion DEF AccountRow
  <2> HIDE DEF row
  <2> QED BY <2>1, <2>2, <1>e
<1>11. ASSUME NEW s \in Sessions, NEW m \in OAuth, PrepareIdentityOAuth(s, m)
       PROVE  DeadlinesKept /\ NoNewTotp /\ ChangesCredentials
  BY <1>11, <1>b, <1>c, <1>d DEF PrepareIdentityOAuth
<1>12. ASSUME NEW s \in Sessions, NEW r \in Requests, NEW m \in OAuth, BeginLink(s, r, m)
       PROVE  DeadlinesKept /\ NoNewTotp /\ ChangesCredentials
  BY <1>12, <1>b, <1>c, <1>d DEF BeginLink
<1>13. ASSUME NEW f \in Flights, NEW p \in Procs, FinishLink(f, p)
       PROVE  DeadlinesKept /\ NoNewTotp /\ ChangesCredentials
  <2> DEFINE m == flight[f].provider
             row == [acct[proc[p].account] EXCEPT !.identities = @ \cup {m}]
  <2>1. Consumable(p, "identityLink")
    BY <1>13 DEF FinishLink
  <2>2. CASE m \in acct[proc[p].account].identities
    BY <1>13, <2>1, <2>2, <1>c, <1>d, GrantNeedsNoDeletion DEF FinishLink
  <2>3. CASE m \notin acct[proc[p].account].identities
    <3>1. m \in OAuth
      BY <1>13 DEF FinishLink, IInv, TypeOK, FlightRow, AttemptCall, LinkCall
    <3>2. /\ row \in AccountRow
          /\ row.deletion = acct[proc[p].account].deletion
          /\ row.totp => acct[proc[p].account].totp
      BY <2>1, <3>1, GrantNeedsNoDeletion DEF AccountRow
    <3>3. /\ acct' = [acct EXCEPT ![proc[p].account] = row]
          /\ Revoke(Consumed(proc, p), proc[p].account, {})
      BY <1>13, <2>3 DEF FinishLink
    <3> HIDE DEF row
    <3> QED BY <2>1, <3>2, <3>3, <1>e
  <2> QED BY <2>2, <2>3
<1>14. ASSUME NEW p \in Procs, NEW m \in OAuth, UnlinkIdentity(p, m)
       PROVE  DeadlinesKept /\ NoNewTotp /\ ChangesCredentials
  <2> DEFINE row == [acct[proc[p].account] EXCEPT !.identities = @ \ {m}]
  <2>1. /\ Consumable(p, "identityUnlink")
        /\ acct' = [acct EXCEPT ![proc[p].account] = row]
        /\ Revoke(Consumed(proc, p), proc[p].account, {})
    BY <1>14 DEF UnlinkIdentity
  <2>2. /\ row \in AccountRow
        /\ row.deletion = acct[proc[p].account].deletion
        /\ row.totp => acct[proc[p].account].totp
    BY <2>1, GrantNeedsNoDeletion DEF AccountRow
  <2> HIDE DEF row
  <2> QED BY <2>1, <2>2, <1>e
<1>15. ASSUME NEW p \in Procs, ChangeEmail(p)
       PROVE  DeadlinesKept /\ NoNewTotp /\ ChangesCredentials
  <2> DEFINE a == proc[p].account
             row == [acct[a] EXCEPT !.change = [stage |-> "old", exp |-> now + RequestTTL]]
  <2>1. /\ Consumable(p, "emailChange") /\ acct' = [acct EXCEPT ![a] = row]
        /\ proc' = Consumed(proc, p) /\ UNCHANGED <<sess, step, epoch>>
    BY <1>15 DEF ChangeEmail
  <2>2. a \in Accounts /\ acct[a] \in AccountRow /\ Spent(proc')
    BY <2>1, GrantNeedsNoDeletion
  <2>3. /\ row \in AccountRow
        /\ row.deletion = acct[a].deletion
        /\ row.totp => acct[a].totp
    BY <2>2, <1>a, DurationAssumption DEF AccountRow, ChangeRow, Time
  <2> HIDE DEF a, row
  <2> QED BY <2>1, <2>2, <2>3, <1>d, RowKeepsDeadline
<1>16. ASSUME NEW a \in Accounts, ConfirmEmail(a)
       PROVE  DeadlinesKept /\ NoNewTotp /\ ChangesCredentials
  <2>1. acct[a] # Null /\ acct[a] \in AccountRow /\ acct[a].change # Null
    BY <1>16, <1>a DEF ConfirmEmail
  <2>2. CASE acct[a].change.stage = "old"
    <3> DEFINE row == [acct[a] EXCEPT !.change = [stage |-> "new", exp |-> now + RequestTTL]]
    <3>1. /\ acct' = [acct EXCEPT ![a] = row]
          /\ UNCHANGED <<sess, proc, step, epoch>>
      BY <1>16, <2>2 DEF ConfirmEmail
    <3>2. /\ row \in AccountRow
          /\ row.deletion = acct[a].deletion
          /\ row.totp => acct[a].totp
      BY <2>1, <1>a, DurationAssumption DEF AccountRow, ChangeRow, Time
    <3> HIDE DEF row
    <3> QED BY <3>1, <3>2, <1>b, <1>d, RowKeepsDeadline
  <2>3. CASE acct[a].change.stage = "new"
    <3> DEFINE row == [acct[a] EXCEPT !.change = Null]
    <3>1. acct' = [acct EXCEPT ![a] = row] /\ Revoke(proc, a, {})
      BY <1>16, <2>3 DEF ConfirmEmail
    <3>2. /\ row \in AccountRow /\ row.change = Null
          /\ row.deletion = acct[a].deletion
          /\ row.totp => acct[a].totp
      BY <2>1 DEF AccountRow
    <3> HIDE DEF row
    <3>3. AddressByMail(a)
      BY <2>1, <2>3, <3>1, <3>2, <1>a DEF AddressByMail
    <3>4. ChangesCredentials
      BY <3>1, <3>3, <1>b DEF ChangesCredentials, UsesMailedToken
    <3> QED BY <3>1, <3>2, <3>4, RowKeepsDeadline
  <2> QED BY <1>16, <2>2, <2>3 DEF ConfirmEmail
<1> QED BY <1>1, <1>2, <1>3, <1>4, <1>5, <1>6, <1>7, <1>8, <1>9, <1>10, <1>11,
           <1>12, <1>13, <1>14, <1>15, <1>16 DEF CredentialsNext

-----------------------------------------------------------------------------
(* Deletion deadlines *)

\* A transaction of AuthProcess at most spends a backup code.
LEMMA ProcessKeepsAccounts ==
    ASSUME IInv, ProcessNext
    PROVE  /\ UNCHANGED <<sess, request, epoch>>
           /\ now' = now
           /\ DeadlinesKept
           /\ \A a \in Accounts : acct[a] # Null => acct'[a].totp = acct[a].totp
<1>1. ASSUME NEW p \in Procs, NEW c \in Steps, NEW a \in Accounts, AttemptAccepted(p, c, a)
      PROVE  /\ UNCHANGED <<sess, request, epoch>>
             /\ now' = now
             /\ DeadlinesKept
             /\ \A b \in Accounts : acct[b] # Null => acct'[b].totp = acct[b].totp
  <2>1. /\ UNCHANGED <<sess, request, epoch>> /\ now' = now
        /\ SpendCode(step[c].method, a) /\ Verifiable(p, step[c].method, a)
    BY <1>1 DEF AttemptAccepted
  <2>2. CASE step[c].method = "backupCode"
    <3> DEFINE row == [acct[a] EXCEPT !.codes = @ - 1]
    <3>1. acct[a] \in AccountRow /\ acct[a].codes > 0
      BY <2>1, <2>2 DEF Verifiable, IInv, TypeOK, OAuth
    <3>2. row \in AccountRow /\ row.deletion = acct[a].deletion /\ row.totp = acct[a].totp
      BY <3>1 DEF AccountRow
    <3>3. acct' = [acct EXCEPT ![a] = row]
      BY <2>1, <2>2 DEF SpendCode
    <3> HIDE DEF row
    <3> QED BY <2>1, <3>2, <3>3, RowKeepsDeadline DEF IInv, TypeOK
  <2>3. CASE step[c].method # "backupCode"
    BY <2>1, <2>3 DEF SpendCode, DeadlinesKept
  <2> QED BY <2>2, <2>3
<1>2. ASSUME UNCHANGED <<acct, sess, request, epoch>>, now' = now
      PROVE  /\ UNCHANGED <<sess, request, epoch>>
             /\ now' = now
             /\ DeadlinesKept
             /\ \A b \in Accounts : acct[b] # Null => acct'[b].totp = acct[b].totp
  BY <1>2 DEF DeadlinesKept
<1>3. \/ \E p \in Procs, c \in Steps, a \in Accounts : AttemptAccepted(p, c, a)
      \/ UNCHANGED <<acct, sess, request, epoch>> /\ now' = now
  BY DEF ProcessNext, StartSignIn, StartSensitive, CreateChallenge, AttemptRejected,
         BeginExchange, BeginRejected, FinishExchange, ExchangeRefused,
         RejectExchange, FlightLost
<1> QED BY <1>1, <1>2, <1>3

\* What a transaction of AuthSessions does to the deadline of account a.
DeadlineStep(a) ==
    IF acct'[a] = Null THEN Due(a)
    ELSE acct[a].deletion # Null =>
           \/ acct'[a].deletion = acct[a].deletion
           \/ acct'[a].deletion = Null /\ acct[a].deletion > now

\* It moves no deadline and gives no account TOTP.
LEMMA SessionsKeepDeadlines ==
    ASSUME IInv, SessionsNext, NEW a \in Accounts, acct[a] # Null
    PROVE  DeadlineStep(a) /\ TotpStep(a)
<1>a. acct \in [Accounts -> AccountRow \cup {Null}] /\ now \in Nat
  BY DEF IInv, TypeOK, Time
<1>b. ASSUME DeadlinesKept, NoNewTotp PROVE DeadlineStep(a) /\ TotpStep(a)
  BY <1>b DEF DeadlinesKept, DeadlineStep, NoNewTotp, TotpStep
<1>c. ASSUME UNCHANGED acct PROVE DeadlineStep(a) /\ TotpStep(a)
  BY <1>c DEF DeadlineStep, TotpStep
<1>1. ASSUME NEW p \in Procs, RequestDeletion(p)
      PROVE  DeadlineStep(a) /\ TotpStep(a)
  <2> DEFINE b == proc[p].account
             row == [acct[b] EXCEPT !.deletion = IF @ = Null THEN now + DeletionDelay ELSE @]
  <2>1. Consumable(p, "accountDeletion") /\ acct' = [acct EXCEPT ![b] = row]
    BY <1>1 DEF RequestDeletion
  <2>2. b \in Accounts /\ acct[b] \in AccountRow
    BY <2>1, ConsumableFacts
  <2>3. /\ row \in AccountRow /\ row.totp = acct[b].totp
        /\ acct[b].deletion # Null => row.deletion = acct[b].deletion
    BY <2>2, <1>a, DurationAssumption DEF AccountRow, Time
  <2> HIDE DEF b, row
  <2> QED BY <2>1, <2>2, <2>3, <1>a, NullAssumption DEF DeadlineStep, TotpStep
<1>2. ASSUME NEW s \in Sessions, CancelDeletion(s)
      PROVE  DeadlineStep(a) /\ TotpStep(a)
  <2> DEFINE b == sess[s].account
             row == [acct[b] EXCEPT !.deletion = Null]
  <2>1. /\ sess[s] # Null /\ acct' = [acct EXCEPT ![b] = row]
        /\ acct[b].deletion > now
    BY <1>2 DEF CancelDeletion, checkRecoveryPrincipal, checkSession
  <2>2. b \in Accounts /\ acct[b] \in AccountRow
    BY <2>1, SessionFacts
  <2>3. row \in AccountRow /\ row.deletion = Null /\ row.totp = acct[b].totp
    BY <2>2 DEF AccountRow
  <2> HIDE DEF b, row
  <2> QED BY <2>1, <2>2, <2>3, <1>a, NullAssumption DEF DeadlineStep, TotpStep
<1>3. ASSUME NEW b \in Accounts, DeleteDueAccount(b)
      PROVE  DeadlineStep(a) /\ TotpStep(a)
  BY <1>3, <1>a DEF DeleteDueAccount, DeadlineStep, TotpStep
<1>4. ASSUME NEW b \in Accounts, Block(b)
      PROVE  DeadlineStep(a) /\ TotpStep(a)
  <2> DEFINE row == [acct[b] EXCEPT !.blocked = TRUE]
  <2>1. acct' = [acct EXCEPT ![b] = row] /\ acct[b] \in AccountRow
    BY <1>4, <1>a DEF Block
  <2>2. row \in AccountRow /\ row.deletion = acct[b].deletion /\ row.totp = acct[b].totp
    BY <2>1 DEF AccountRow
  <2> HIDE DEF row
  <2> QED BY <2>1, <2>2, <1>b, RowKeepsDeadline
<1>5. CASE Cleanup
  <2>1. acct'[a] = Pruned(acct[a])
    BY <1>5 DEF Cleanup
  <2>2. /\ Pruned(acct[a]) \in AccountRow
        /\ Pruned(acct[a]).deletion = acct[a].deletion
        /\ Pruned(acct[a]).totp = acct[a].totp
    BY <1>a DEF Pruned, AccountRow
  <2> QED BY <2>1, <2>2, NullAssumption DEF DeadlineStep, TotpStep
<1>6. \/ \E p \in Procs : RequestDeletion(p)
      \/ \E s \in Sessions : CancelDeletion(s)
      \/ \E b \in Accounts : DeleteDueAccount(b) \/ Block(b)
      \/ Cleanup
      \/ UNCHANGED acct
  BY DEF SessionsNext, CreateSession, Refresh, LogoutRefresh, RevokeSessions,
         EndSessions, Tick
<1> QED BY <1>1, <1>2, <1>3, <1>4, <1>5, <1>6, <1>c

\* A deletion deadline never moves: it can only be withdrawn in time, or
\* take the account with it.
THEOREM DeletionTheorem == Spec => DeletionIsFirm
<1> DEFINE Firm == \A a \in Accounts : acct[a] # Null => DeadlineStep(a)
<1>1. ASSUME IInv, [Next]_vars PROVE [Firm]_vars
  <2>1. CASE ProcessNext
    BY <1>1, <2>1, ProcessKeepsAccounts DEF DeadlinesKept, DeadlineStep
  <2>2. CASE SessionsNext
    BY <1>1, <2>2, SessionsKeepDeadlines
  <2>3. CASE CredentialsNext
    BY <1>1, <2>3, CredentialsShape DEF DeadlinesKept, DeadlineStep
  <2>4. CASE UNCHANGED vars
    BY <2>4
  <2> QED BY <1>1, <2>1, <2>2, <2>3, <2>4 DEF Next
<1> HIDE DEF Firm
<1>2. Spec => [][Firm]_vars
  BY <1>1, Invariance, PTL DEF Spec
<1> QED BY <1>2 DEF DeletionIsFirm, Firm, DeadlineStep

-----------------------------------------------------------------------------
(* Credentials during a pending deletion *)

\* Only transactions of AuthCredentials change credentials.
LEMMA SessionsKeepEpochs ==
    ASSUME SessionsNext
    PROVE  epoch' = epoch
  BY DEF SessionsNext, CreateSession, Refresh, LogoutRefresh, RevokeSessions,
         EndSessions, Tick, RequestDeletion, CancelDeletion, DeleteDueAccount,
         Block, Cleanup

\* While a deletion is pending, no change of address begins: ChangeEmail needs
\* a grant, and ConfirmEmail a request.
LEMMA NoChangeBegins ==
    ASSUME IInv, Next, NEW a \in Accounts, acct[a] # Null, acct'[a] # Null,
           acct[a].deletion # Null, acct[a].change = Null
    PROVE  acct'[a].change = Null
<1> USE DEF sensitive
<1>a. acct \in [Accounts -> AccountRow \cup {Null}] /\ acct[a] \in AccountRow
  BY DEF IInv, TypeOK
<1>b. ASSUME NEW p \in Procs, ChangeEmail(p)
      PROVE  acct'[a].change = Null
  <2>1. Consumable(p, "emailChange")
    BY <1>b DEF ChangeEmail
  <2>2. proc[p].account # a
    BY <2>1, GrantNeedsNoDeletion
  <2> QED BY <1>a, <1>b, <2>2 DEF ChangeEmail
<1>c. ASSUME NEW b \in Accounts, ConfirmEmail(b)
      PROVE  acct'[a].change = Null
  <2>1. b # a
    BY <1>c DEF ConfirmEmail
  <2> QED BY <1>a, <1>c, <2>1 DEF ConfirmEmail
<1>d. ASSUME NEW b, NEW row, acct' = [acct EXCEPT ![b] = row],
             row.change = acct[b].change
      PROVE  acct'[a].change = Null
  BY <1>a, <1>d
<1>e. ASSUME UNCHANGED acct PROVE acct'[a].change = Null
  BY <1>e
<1>f. ASSUME NEW b \in Accounts, acct[b] # Null
      PROVE  /\ \A v : [acct[b] EXCEPT !.password = v].change = acct[b].change
             /\ \A v : [acct[b] EXCEPT !.reset = v].change = acct[b].change
             /\ \A v : [acct[b] EXCEPT !.codes = v].change = acct[b].change
             /\ \A v : [acct[b] EXCEPT !.totp = v].change = acct[b].change
             /\ \A v : [acct[b] EXCEPT !.passkeys = v].change = acct[b].change
             /\ \A v : [acct[b] EXCEPT !.identities = v].change = acct[b].change
             /\ \A v : [acct[b] EXCEPT !.deletion = v].change = acct[b].change
             /\ \A v : [acct[b] EXCEPT !.blocked = v].change = acct[b].change
  <2>1. acct[b] \in AccountRow
    BY <1>a, <1>f
  <2> QED BY <2>1 DEF AccountRow
<1>g. ASSUME NEW p \in Procs, NEW u, Consumable(p, u)
      PROVE  proc[p].account \in Accounts /\ acct[proc[p].account] # Null
  BY <1>g, ConsumableFacts
<1>h. ASSUME NEW s \in Sessions, checkPrincipal(s)
      PROVE  sess[s].account \in Accounts /\ acct[sess[s].account] # Null
  BY <1>h, PrincipalHasNoDeletion
<1>1. CASE ProcessNext
  <2>1. ASSUME NEW p \in Procs, NEW c \in Steps, NEW b \in Accounts,
               AttemptAccepted(p, c, b)
        PROVE  acct'[a].change = Null
    BY <1>d, <1>e, <1>f, <2>1 DEF AttemptAccepted, SpendCode, Verifiable
  <2>2. \/ \E p \in Procs, c \in Steps, b \in Accounts : AttemptAccepted(p, c, b)
        \/ UNCHANGED acct
    BY <1>1 DEF ProcessNext, StartSignIn, StartSensitive, CreateChallenge,
           AttemptRejected, BeginExchange, BeginRejected, FinishExchange,
           ExchangeRefused, RejectExchange, FlightLost
  <2> QED BY <1>e, <2>1, <2>2
<1>2. CASE SessionsNext
  <2>1. ASSUME NEW p \in Procs, RequestDeletion(p)
        PROVE  acct'[a].change = Null
    BY <1>d, <1>f, <1>g, <2>1 DEF RequestDeletion
  <2>2. ASSUME NEW s \in Sessions, CancelDeletion(s)
        PROVE  acct'[a].change = Null
    <3>1. sess[s].account \in Accounts /\ acct[sess[s].account] # Null
      BY <2>2, SessionFacts DEF CancelDeletion, checkRecoveryPrincipal, checkSession
    <3> QED BY <1>d, <1>f, <2>2, <3>1 DEF CancelDeletion
  <2>3. ASSUME NEW b \in Accounts, DeleteDueAccount(b) \/ Block(b)
        PROVE  acct'[a].change = Null
    <3>1. CASE DeleteDueAccount(b)
      BY <1>a, <3>1 DEF DeleteDueAccount
    <3>2. CASE Block(b)
      BY <1>d, <1>f, <3>2 DEF Block
    <3> QED BY <2>3, <3>1, <3>2
  <2>4. CASE Cleanup
    BY <1>a, <2>4 DEF Cleanup, Pruned, AccountRow
  <2>5. \/ \E p \in Procs : RequestDeletion(p)
        \/ \E s \in Sessions : CancelDeletion(s)
        \/ \E b \in Accounts : DeleteDueAccount(b) \/ Block(b)
        \/ Cleanup
        \/ UNCHANGED acct
    BY <1>2 DEF SessionsNext, CreateSession, Refresh, LogoutRefresh, RevokeSessions,
           EndSessions, Tick
  <2> QED BY <1>e, <2>1, <2>2, <2>3, <2>4, <2>5
<1>3. CASE CredentialsNext
  <2>1. ASSUME NEW s \in Sessions, SetFirstPassword(s)
        PROVE  acct'[a].change = Null
    BY <1>d, <1>f, <1>h, <2>1 DEF SetFirstPassword
  <2>2. ASSUME NEW b \in Accounts, StartPasswordReset(b)
        PROVE  acct'[a].change = Null
    BY <1>d, <1>f, <2>2 DEF StartPasswordReset
  <2>3. ASSUME NEW b \in Accounts, ConfirmPasswordReset(b)
        PROVE  acct'[a].change = Null
    <3>1. /\ acct' = [acct EXCEPT ![b].password = TRUE, ![b].reset = Null]
          /\ acct[b] \in AccountRow
      BY <1>a, <2>3 DEF ConfirmPasswordReset
    <3> QED BY <1>a, <3>1 DEF AccountRow
  <2>4. ASSUME NEW s \in Sessions, NEW r \in Requests, ConfirmTotp(s, r)
        PROVE  acct'[a].change = Null
    <3> DEFINE b == sess[s].account
    <3>1. /\ acct' = [acct EXCEPT ![b].totp = TRUE, ![b].codes = BackupCodes]
          /\ b \in Accounts /\ acct[b] \in AccountRow
      BY <1>a, <1>h, <2>4 DEF ConfirmTotp
    <3> HIDE DEF b
    <3> QED BY <1>a, <3>1 DEF AccountRow
  <2>5. ASSUME NEW p \in Procs, DeleteTotp(p) \/ RotateBackupCodes(p)
        PROVE  acct'[a].change = Null
    <3>1. proc[p].account \in Accounts /\ acct[proc[p].account] # Null
      BY <1>g, <2>5 DEF DeleteTotp, RotateBackupCodes
    <3>2. CASE DeleteTotp(p)
      BY <1>d, <1>f, <3>1, <3>2 DEF DeleteTotp
    <3>3. CASE RotateBackupCodes(p)
      BY <1>d, <1>f, <3>1, <3>3 DEF RotateBackupCodes
    <3> QED BY <2>5, <3>2, <3>3
  <2>6. ASSUME NEW s \in Sessions, NEW r \in Requests, NEW k \in Passkeys,
               RegisterPasskey(s, r, k)
        PROVE  acct'[a].change = Null
    BY <1>d, <1>f, <1>h, <2>6 DEF RegisterPasskey
  <2>7. ASSUME NEW p \in Procs, NEW k \in Passkeys, DeletePasskey(p, k)
        PROVE  acct'[a].change = Null
    BY <1>d, <1>f, <1>g, <2>7 DEF DeletePasskey
  <2>8. ASSUME NEW f \in Flights, NEW p \in Procs, FinishLink(f, p)
        PROVE  acct'[a].change = Null
    <3> DEFINE b == proc[p].account
               row == [acct[b] EXCEPT !.identities = @ \cup {flight[f].provider}]
    <3>1. b \in Accounts /\ acct[b] # Null
      BY <1>g, <2>8 DEF FinishLink
    <3>2. row.change = acct[b].change
      BY <1>f, <3>1
    <3>3. acct' = [acct EXCEPT ![b] = row] \/ UNCHANGED acct
      BY <2>8 DEF FinishLink
    <3> HIDE DEF b, row
    <3> QED BY <1>d, <1>e, <3>2, <3>3
  <2>9. ASSUME NEW p \in Procs, NEW m \in OAuth, UnlinkIdentity(p, m)
        PROVE  acct'[a].change = Null
    BY <1>d, <1>f, <1>g, <2>9 DEF UnlinkIdentity
  <2>10. ASSUME NEW p \in Procs, NEW same \in BOOLEAN, SetPassword(p, same)
         PROVE  acct'[a].change = Null
    BY <1>e, <2>10 DEF SetPassword
  <2>11. ASSUME NEW p \in Procs, StartTotp(p) \/ StartPasskey(p)
         PROVE  acct'[a].change = Null
    BY <1>e, <2>11 DEF StartTotp, StartPasskey
  <2>12. ASSUME NEW s \in Sessions, NEW r \in Requests, NEW m \in OAuth,
                BeginLink(s, r, m)
         PROVE  acct'[a].change = Null
    BY <1>e, <2>12 DEF BeginLink
  <2>13. ASSUME NEW s \in Sessions, NEW m \in OAuth, PrepareIdentityOAuth(s, m)
         PROVE  acct'[a].change = Null
    BY <1>e, <2>13 DEF PrepareIdentityOAuth
  <2> QED BY <1>3, <1>b, <1>c, <2>1, <2>2, <2>3, <2>4, <2>5, <2>6, <2>7, <2>8, <2>9,
             <2>10, <2>11, <2>12, <2>13 DEF CredentialsNext
<1> QED BY <1>1, <1>2, <1>3 DEF Next

\* While a deletion is pending, the credentials change only by a mailed token:
\* of a password reset, which ends every session of the account, or the last
\* one of a change of address, and no such change begins.
THEOREM FreezeTheorem == Spec => PendingDeletionFreezesSessions
<1> DEFINE Frozen == \A a \in Accounts :
             acct[a] # Null /\ acct'[a] # Null /\ acct[a].deletion # Null =>
               /\ epoch'[a] # epoch[a] => ResetByMail(a) \/ AddressByMail(a)
               /\ acct[a].change = Null => acct'[a].change = Null
<1>1. ASSUME IInv, [Next]_vars PROVE [Frozen]_vars
  <2> SUFFICES ASSUME Next, NEW a \in Accounts, acct[a].deletion # Null, epoch'[a] # epoch[a]
               PROVE  ResetByMail(a) \/ AddressByMail(a)
    BY <1>1, NoChangeBegins
  <2>1. CASE ProcessNext
    BY <1>1, <2>1, ProcessKeepsAccounts
  <2>2. CASE SessionsNext
    BY <1>1, <2>2, SessionsKeepEpochs
  <2>3. CASE CredentialsNext
    <3>1. PICK b \in Accounts, D \in SUBSET Sessions : \E ps :
            /\ Spent(ps) /\ Revoke(ps, b, D)
            /\ acct[b].deletion # Null => UsesMailedToken(b, D)
      BY <1>1, <2>3, CredentialsShape DEF ChangesCredentials
    <3>2. b = a
      BY <1>1, <3>1 DEF Revoke, CredentialChange, IInv, TypeOK
    <3>3. CASE AddressByMail(a)
      BY <3>3
    <3>4. CASE ~AddressByMail(a)
      <4>1. /\ acct[a].reset # Null /\ acct'[a].reset = Null
            /\ sess' = [s \in Sessions |-> IF s \in SessionsOf(a) THEN Null ELSE sess[s]]
        BY <3>1, <3>2, <3>4 DEF UsesMailedToken, Revoke, DeleteSessions
      <4>2. SessionsOf(a)' = {}
        BY <4>1 DEF SessionsOf
      <4> QED BY <4>1, <4>2 DEF ResetByMail
    <3> QED BY <3>3, <3>4
  <2> QED BY <2>1, <2>2, <2>3 DEF Next
<1> HIDE DEF Frozen
<1>2. Spec => [][Frozen]_vars
  BY <1>1, Invariance, PTL DEF Spec
<1> QED BY <1>2 DEF PendingDeletionFreezesSessions, Frozen

-----------------------------------------------------------------------------
(* TOTP activation requests *)

\* Requests that stay as they are, go, or are of another kind preserve the
\* invariant, as long as no account gets TOTP.
LEMMA RequestsOnlyGo ==
    ASSUME IInv, RequestInv, IInv', NoNewTotp, SessionsWithdrawn,
           \A r \in Requests : request'[r] # Null =>
             /\ sess'[request'[r].session] # Null
             /\ request'[r] = request[r] \/ request'[r].kind # "totp"
    PROVE  RequestInv'
<1>1. RequestsHaveSession'
  BY DEF RequestsHaveSession
<1>2. ASSUME NEW r \in Requests, IsTotp(r)'
      PROVE  /\ IsTotp(r) /\ TotpAccount(r)' = TotpAccount(r)
             /\ TotpAccount(r) \in Accounts
             /\ acct[TotpAccount(r)] # Null /\ acct'[TotpAccount(r)] # Null
  <2>1. request'[r] = request[r] /\ IsTotp(r) /\ sess'[request[r].session] # Null
    BY <1>2 DEF IsTotp
  <2>2. request[r].session \in Sessions /\ sess[request[r].session] # Null
    BY <2>1 DEF IInv, TypeOK, RequestRow, IsTotp, RequestInv, RequestsHaveSession
  <2>3. sess'[request[r].session].account = sess[request[r].session].account
    BY <2>1, <2>2 DEF SessionsWithdrawn
  <2>4. /\ sess[request[r].session].account \in Accounts
        /\ acct[sess[request[r].session].account] # Null
    BY <2>2, SessionFacts
  <2>5. acct'[sess'[request[r].session].account] # Null
    BY <2>1, <2>2 DEF SessionsWithdrawn
  <2> QED BY <2>1, <2>3, <2>4, <2>5 DEF TotpAccount
<1>3. TotpRequestsDiffer'
  BY <1>2 DEF TotpRequestsDiffer, RequestInv
<1>4. RequestsPrecedeTotp'
  BY <1>2 DEF RequestsPrecedeTotp, RequestInv, NoNewTotp, TotpStep
<1> QED BY <1>1, <1>3, <1>4 DEF RequestInv

\* What CASCADE leaves of requests rq.
LEMMA WithSessionRows ==
    ASSUME NEW rq, request' = WithSession(rq)
    PROVE  \A r \in Requests : request'[r] # Null =>
             request'[r] = rq[r] /\ sess'[request'[r].session] # Null
  BY DEF WithSession

\* Starting an activation replaces the request the account has, if any.
LEMMA StartTotpPreserves ==
    ASSUME IInv, RequestInv, NEW p \in Procs, StartTotp(p)
    PROVE  RequestInv'
<1> USE DEF sensitive
<1> DEFINE a == proc[p].account
           ids == IF TotpRequests(a) = {} THEN FreeRequests ELSE TotpRequests(a)
           r == CHOOSE q \in ids : TRUE
           new == NewRequest("totp", proc[p].session)
<1>1. /\ Consumable(p, "totpEnrollment") /\ ~acct[a].totp /\ ids # {}
      /\ request' = [request EXCEPT ![r] = new] /\ UNCHANGED <<acct, sess>>
  BY DEF StartTotp
<1>2. /\ proc[p].session \in Sessions /\ sess[proc[p].session] # Null
      /\ sess[proc[p].session].account = a
  BY <1>1, ConsumableFacts
<1>3. /\ new # Null /\ new.kind = "totp" /\ new.session = proc[p].session
  <2>1. new \in RequestRow
    BY <1>2, DurationAssumption DEF NewRequest, RequestRow, IInv, TypeOK, Time
  <2> QED BY <2>1, NullAssumption DEF NewRequest
<1>4. r \in ids
  BY <1>1
<1>5. r \in Requests
  BY <1>4 DEF TotpRequests, FreeRequests
<1>6. ASSUME NEW q \in Requests, IsTotp(q), TotpAccount(q) = a
      PROVE  q = r
  <2>1. q \in TotpRequests(a)
    BY <1>6 DEF TotpRequests, SessionsOf, IsTotp, TotpAccount, RequestInv,
                RequestsHaveSession, IInv, TypeOK, RequestRow
  <2>2. r \in TotpRequests(a)
    BY <1>4, <2>1
  <2>3. IsTotp(r) /\ TotpAccount(r) = a
    BY <2>2 DEF TotpRequests, SessionsOf, IsTotp, TotpAccount
  <2> QED BY <1>5, <1>6, <2>3 DEF RequestInv, TotpRequestsDiffer
<1> HIDE DEF a, ids, r, new
<1>7. request \in [Requests -> RequestRow \cup {Null}]
  BY DEF IInv, TypeOK
<1>8. \A q \in Requests : request'[q] = IF q = r THEN new ELSE request[q]
  BY <1>1, <1>7
<1>9. ASSUME NEW q \in Requests, IsTotp(q)'
      PROVE  /\ TotpAccount(q)' = IF q = r THEN a ELSE TotpAccount(q)
             /\ q # r => IsTotp(q) /\ TotpAccount(q) # a
  BY <1>1, <1>2, <1>3, <1>6, <1>8, <1>9 DEF IsTotp, TotpAccount
<1>10. RequestsHaveSession'
  BY <1>1, <1>2, <1>3, <1>8 DEF RequestsHaveSession, RequestInv
<1>11. TotpRequestsDiffer'
  BY <1>9 DEF TotpRequestsDiffer, RequestInv
<1>12. RequestsPrecedeTotp'
  BY <1>1, <1>9 DEF RequestsPrecedeTotp, RequestInv
<1> QED BY <1>10, <1>11, <1>12 DEF RequestInv

\* Confirming the activation uses the account's only request up.
LEMMA ConfirmTotpPreserves ==
    ASSUME IInv, RequestInv, IInv', Withdraws,
           NEW s \in Sessions, NEW r \in Requests, ConfirmTotp(s, r)
    PROVE  RequestInv'
<1> DEFINE a == sess[s].account
           rq == [request EXCEPT ![r] = Null]
<1>1. /\ Requested(s, r, "totp")
      /\ acct' = [acct EXCEPT ![a].totp = TRUE, ![a].codes = BackupCodes]
      /\ request' = WithSession(rq)
  BY DEF ConfirmTotp
<1>2. IsTotp(r) /\ TotpAccount(r) = a
  BY <1>1 DEF Requested, IsTotp, TotpAccount
<1>3. \A q \in Requests : request'[q] # Null =>
        q # r /\ request'[q] = request[q] /\ sess'[request'[q].session] # Null
  <2>1. \A q \in Requests : rq[q] = IF q = r THEN Null ELSE request[q]
    BY DEF IInv, TypeOK
  <2> HIDE DEF rq
  <2> QED BY <1>1, <2>1, WithSessionRows
<1>4. \A b \in Accounts : b # a => acct'[b] = acct[b]
  BY <1>1 DEF IInv, TypeOK
<1> HIDE DEF a, rq
<1>5. ASSUME NEW q \in Requests, IsTotp(q)'
      PROVE  /\ IsTotp(q) /\ TotpAccount(q)' = TotpAccount(q)
             /\ TotpAccount(q) \in Accounts /\ TotpAccount(q) # a
  <2>1. q # r /\ request'[q] = request[q] /\ IsTotp(q) /\ sess'[request[q].session] # Null
    BY <1>3, <1>5 DEF IsTotp
  <2>2. request[q].session \in Sessions /\ sess[request[q].session] # Null
    BY <2>1 DEF IInv, TypeOK, RequestRow, IsTotp, RequestInv, RequestsHaveSession
  <2>3. sess'[request[q].session].account = sess[request[q].session].account
    BY <2>1, <2>2 DEF Withdraws, SessionsWithdrawn
  <2>4. TotpAccount(q) # a
    BY <1>2, <2>1 DEF RequestInv, TotpRequestsDiffer
  <2>5. sess[request[q].session].account \in Accounts
    BY <2>2, SessionFacts
  <2> QED BY <2>1, <2>3, <2>4, <2>5 DEF TotpAccount
<1>6. RequestsHaveSession'
  BY <1>3 DEF RequestsHaveSession
<1>7. TotpRequestsDiffer'
  BY <1>5 DEF TotpRequestsDiffer, RequestInv
<1>8. RequestsPrecedeTotp'
  BY <1>4, <1>5 DEF RequestsPrecedeTotp, RequestInv
<1> QED BY <1>6, <1>7, <1>8 DEF RequestInv

\* No transaction gives an account a second activation request, or one
\* beside its TOTP.
LEMMA RequestStep ==
    ASSUME IInv, RequestInv, [Next]_vars
    PROVE  RequestInv'
<1>a. IInv'
  BY InductiveStep
<1>b. \A r \in Requests : request[r] # Null =>
        request[r].session \in Sessions /\ sess[request[r].session] # Null
  BY DEF RequestInv, RequestsHaveSession, IInv, TypeOK, RequestRow
<1>c. request \in [Requests -> RequestRow \cup {Null}]
  BY DEF IInv, TypeOK
<1>1. CASE UNCHANGED <<request, sess>> /\ \A a \in Accounts : acct[a] # Null => TotpStep(a)
  <2>1. SessionsWithdrawn
    BY <1>1, <1>a DEF SessionsWithdrawn, IInv, ForeignKeys
  <2> QED BY <1>1, <2>1, <1>a, <1>b, RequestsOnlyGo DEF NoNewTotp
<1>2. CASE ProcessNext
  <2>1. \A a \in Accounts : acct[a] # Null => TotpStep(a)
    BY <1>2, ProcessKeepsAccounts DEF TotpStep
  <2> QED BY <1>1, <1>2, <2>1, ProcessKeepsAccounts
<1>3. CASE Tick \/ UNCHANGED vars
  BY <1>1, <1>3 DEF Tick, vars, TotpStep
<1>4. CASE SessionsNext /\ ~Tick
  <2>1. NoNewTotp
    BY <1>4, SessionsKeepDeadlines DEF NoNewTotp
  <2>2. SessionsWithdrawn
    BY <1>4, SessionsWithdraw DEF Withdraws
  <2>3. ASSUME UNCHANGED request, \A s \in Sessions : sess[s] # Null => sess'[s] # Null
        PROVE  RequestInv'
    BY <2>1, <2>2, <2>3, <1>a, <1>b, RequestsOnlyGo
  <2>4. ASSUME NEW rq, request' = WithSession(rq),
               \A r \in Requests : rq[r] # Null => rq[r] = request[r]
        PROVE  RequestInv'
    BY <2>1, <2>2, <2>4, <1>a, WithSessionRows, RequestsOnlyGo
  <2>5. ASSUME NEW p \in Procs, CreateSession(p)
        PROVE  RequestInv'
    <3> DEFINE s == CHOOSE t \in FreeSessions : TRUE
               row == [account |-> proc[p].account, exp |-> now + SessionTTL]
    <3>1. /\ UNCHANGED request /\ FreeSessions # {}
          /\ sess' = [sess EXCEPT ![s] = row]
      BY <2>5 DEF CreateSession
    <3>2. s \in Sessions /\ sess[s] = Null
      BY <3>1 DEF FreeSessions
    <3> HIDE DEF s, row
    <3>3. \A t \in Sessions : sess[t] # Null => sess'[t] # Null
      BY <3>1, <3>2 DEF IInv, TypeOK
    <3> QED BY <3>1, <3>3, <2>3
  <2>6. ASSUME NEW s \in Sessions, Refresh(s)
        PROVE  RequestInv'
    <3> DEFINE row == [sess[s] EXCEPT !.exp = now + SessionTTL]
    <3>1. UNCHANGED request /\ sess' = [sess EXCEPT ![s] = row] /\ sess[s] # Null
      BY <2>6 DEF Refresh, checkSession
    <3>2. row \in SessionRow
      BY <3>1, DurationAssumption DEF IInv, TypeOK, SessionRow, Time
    <3> HIDE DEF row
    <3>3. \A t \in Sessions : sess[t] # Null => sess'[t] # Null
      BY <3>1, <3>2, NullAssumption DEF IInv, TypeOK
    <3> QED BY <3>1, <3>3, <2>3
  <2>7. ASSUME NEW D, EndSessions(D)
        PROVE  RequestInv'
    BY <2>4, <2>7 DEF EndSessions
  <2>8. ASSUME NEW a \in Accounts, DeleteDueAccount(a)
        PROVE  RequestInv'
    BY <2>4, <2>8 DEF DeleteDueAccount
  <2>9. CASE Cleanup
    <3> DEFINE rq == [r \in Requests |->
                        IF request[r] # Null /\ request[r].exp < now
                        THEN Null ELSE request[r]]
    <3>1. request' = WithSession(rq)
      BY <2>9 DEF Cleanup
    <3>2. \A r \in Requests : rq[r] # Null => rq[r] = request[r]
      OBVIOUS
    <3> HIDE DEF rq
    <3> QED BY <3>1, <3>2, <2>4
  <2>10. ASSUME UNCHANGED <<request, sess>>
         PROVE  RequestInv'
    BY <2>3, <2>10
  <2> QED BY <1>4, <2>5, <2>6, <2>7, <2>8, <2>9, <2>10
          DEF SessionsNext, RequestDeletion, LogoutRefresh, CancelDeletion,
              RevokeSessions, Block
<1>5. CASE CredentialsNext
  <2>1. Withdraws
    BY <1>5, CredentialsWithdraw
  <2>2. ASSUME NEW s \in Sessions, NEW r \in Requests, ConfirmTotp(s, r)
        PROVE  RequestInv'
    BY <2>1, <2>2, <1>a, ConfirmTotpPreserves
  <2>3. CASE \A s \in Sessions, r \in Requests : ~ConfirmTotp(s, r)
    <3>1. NoNewTotp /\ SessionsWithdrawn
      BY <1>5, <2>1, <2>3, CredentialsShape DEF Withdraws
    <3>2. ASSUME request' = WithSession(request)
          PROVE  RequestInv'
      BY <3>1, <3>2, <1>a, WithSessionRows, RequestsOnlyGo
    <3>3. ASSUME \A s \in Sessions : sess[s] # Null => sess'[s] # Null,
                 \A r \in Requests : request'[r] # Null =>
                   \/ request'[r] = request[r]
                   \/ request'[r].kind # "totp" /\ request'[r].session \in Sessions
                      /\ sess[request'[r].session] # Null
          PROVE  RequestInv'
      BY <3>1, <3>3, <1>a, <1>b, RequestsOnlyGo
    <3>4. ASSUME NEW ps, NEW a, Revoke(ps, a, {})
          PROVE  \A s \in Sessions : sess[s] # Null => sess'[s] # Null
      BY <3>4 DEF Revoke, DeleteSessions
    <3>5. ASSUME NEW p \in Procs, NEW same \in BOOLEAN, SetPassword(p, same)
          PROVE  RequestInv'
      BY <3>2, <3>3, <3>5 DEF SetPassword
    <3>6. ASSUME NEW s \in Sessions, SetFirstPassword(s)
          PROVE  RequestInv'
      BY <3>2, <3>6 DEF SetFirstPassword
    <3>7. ASSUME NEW a \in Accounts, StartPasswordReset(a) \/ ConfirmPasswordReset(a)
          PROVE  RequestInv'
      BY <3>2, <3>3, <3>7 DEF StartPasswordReset, ConfirmPasswordReset
    <3>8. ASSUME NEW p \in Procs, DeleteTotp(p) \/ RotateBackupCodes(p)
          PROVE  RequestInv'
      BY <3>3, <3>4, <3>8 DEF DeleteTotp, RotateBackupCodes
    <3>9. ASSUME NEW kind \in {"passkey", "google", "vk"}, NEW s \in Sessions,
                 sess[s] # Null, FreeRequests # {}, UNCHANGED sess,
                 request' = [request EXCEPT ![CHOOSE q \in FreeRequests : TRUE] =
                               NewRequest(kind, s)]
          PROVE  RequestInv'
      <4> DEFINE r == CHOOSE q \in FreeRequests : TRUE
                 new == NewRequest(kind, s)
      <4>1. new.kind # "totp" /\ new.session = s
        BY <3>9 DEF NewRequest
      <4> HIDE DEF r, new
      <4>2. \A q \in Requests : request'[q] \in {new, request[q]}
        BY <3>9, <1>c DEF r, new
      <4> QED BY <3>3, <3>9, <4>1, <4>2
    <3>10. ASSUME NEW p \in Procs, StartPasskey(p)
           PROVE  RequestInv'
      <4>1. Consumable(p, "passkeyEnrollment")
        BY <3>10 DEF StartPasskey
      <4>2. proc[p].session \in Sessions /\ sess[proc[p].session] # Null
        BY <4>1, ConsumableFacts DEF sensitive
      <4> QED BY <3>9, <3>10, <4>2 DEF StartPasskey
    <3>11. ASSUME NEW s \in Sessions, NEW m \in OAuth, PrepareIdentityOAuth(s, m)
           PROVE  RequestInv'
      BY <3>9, <3>11 DEF PrepareIdentityOAuth, checkPrincipal, checkRecoveryPrincipal,
                         checkSession, OAuth
    <3>12. ASSUME NEW r \in Requests, request' = [request EXCEPT ![r] = Null],
                  \A s \in Sessions : sess[s] # Null => sess'[s] # Null
           PROVE  RequestInv'
      BY <3>3, <3>12, <1>c
    <3>13. ASSUME NEW s \in Sessions, NEW r \in Requests, NEW k \in Passkeys,
                  RegisterPasskey(s, r, k)
           PROVE  RequestInv'
      BY <3>4, <3>12, <3>13 DEF RegisterPasskey
    <3>14. ASSUME NEW s \in Sessions, NEW r \in Requests, NEW m \in OAuth,
                  BeginLink(s, r, m)
           PROVE  RequestInv'
      BY <3>12, <3>14 DEF BeginLink
    <3>15. ASSUME NEW p \in Procs, NEW k \in Passkeys, DeletePasskey(p, k)
           PROVE  RequestInv'
      BY <3>3, <3>4, <3>15 DEF DeletePasskey
    <3>16. ASSUME NEW f \in Flights, NEW p \in Procs, FinishLink(f, p)
           PROVE  RequestInv'
      BY <3>3, <3>4, <3>16 DEF FinishLink
    <3>17. ASSUME NEW p \in Procs, NEW m \in OAuth, UnlinkIdentity(p, m)
           PROVE  RequestInv'
      BY <3>3, <3>4, <3>17 DEF UnlinkIdentity
    <3>18. ASSUME NEW p \in Procs, ChangeEmail(p)
           PROVE  RequestInv'
      BY <3>3, <3>18 DEF ChangeEmail
    <3>19. ASSUME NEW a \in Accounts, ConfirmEmail(a)
           PROVE  RequestInv'
      BY <3>3, <3>4, <3>19 DEF ConfirmEmail
    <3> QED BY <1>5, <2>3, <3>5, <3>6, <3>7, <3>8, <3>10, <3>11, <3>13, <3>14, <3>15,
               <3>16, <3>17, <3>18, <3>19, StartTotpPreserves DEF CredentialsNext
  <2> QED BY <2>2, <2>3
<1> QED BY <1>2, <1>3, <1>4, <1>5 DEF Next

\* An account has at most one TOTP activation request, and none beside an
\* active TOTP.
THEOREM TotpActivationTheorem == Spec => []OneTotpActivation
<1>1. Init => RequestInv
  BY DEF Init, RequestInv, RequestsHaveSession, TotpRequestsDiffer,
         RequestsPrecedeTotp, IsTotp
<1>2. Spec => [](IInv /\ RequestInv)
  BY <1>1, InitInvariant, InductiveStep, RequestStep, PTL DEF Spec
<1>3. ASSUME IInv, RequestInv PROVE OneTotpActivation
  <2> SUFFICES ASSUME NEW a \in Accounts, acct[a] # Null
               PROVE  /\ Cardinality(TotpRequests(a)) <= 1
                      /\ acct[a].totp => TotpRequests(a) = {}
    BY DEF OneTotpActivation
  <2>1. \A r \in TotpRequests(a) : r \in Requests /\ IsTotp(r) /\ TotpAccount(r) = a
    BY DEF TotpRequests, SessionsOf, IsTotp, TotpAccount
  <2>2. acct[a].totp => TotpRequests(a) = {}
    BY <1>3, <2>1 DEF RequestInv, RequestsPrecedeTotp
  <2>3. CASE TotpRequests(a) = {}
    BY <2>2, <2>3, FS_EmptySet
  <2>4. CASE TotpRequests(a) # {}
    <3>1. PICK r \in TotpRequests(a) : TRUE
      BY <2>4
    <3>2. TotpRequests(a) = {r}
      BY <1>3, <2>1, <3>1 DEF RequestInv, TotpRequestsDiffer
    <3> QED BY <2>2, <3>2, FS_Singleton
  <2> QED BY <2>3, <2>4
<1> QED BY <1>2, <1>3, PTL

-----------------------------------------------------------------------------
(* Pending steps *)

\* Steps keep what they say, apart from a step that is no longer pending;
\* a completed step goes with its process only.
StepsKept ==
    /\ \A d \in Steps : step'[d] # Null =>
         /\ step[d] # Null
         /\ step'[d].proc = step[d].proc /\ step'[d].method = step[d].method
         /\ step'[d].done = step[d].done
         /\ step'[d].status \in {"pending", "completed"} => step'[d].status = step[d].status
    /\ \A d \in Steps :
         step[d] # Null /\ step[d].status = "completed" /\ proc'[step[d].proc] # Null
           => step'[d] # Null /\ step'[d].status = "completed"

\* Processes that have steps keep what they say, apart from their grant,
\* their validity and a failure, and their account keeps its policy as long
\* as they are valid.
OwnersKept ==
    \A d \in Steps :
      LET q == step[d].proc IN
      step[d] # Null /\ proc'[q] # Null =>
        /\ proc[q] # Null
        /\ proc'[q].account = proc[q].account /\ proc'[q].done = proc[q].done
        /\ proc'[q].status \in {"pending", "completed"} => proc'[q].status = proc[q].status
        /\ ~proc'[q].invalid =>
             /\ ~proc[q].invalid
             /\ proc[q].account # Null =>
                  acct'[proc[q].account].totp = acct[proc[q].account].totp

\* Such a transaction preserves the invariant about steps.
LEMMA KeptStepsPreserve ==
    ASSUME IInv, StepInv, IInv', StepsKept, OwnersKept
    PROVE  StepInv'
<1>a. ASSUME NEW d \in Steps, step'[d] # Null
      PROVE  /\ step[d] # Null /\ step'[d].proc = step[d].proc
             /\ step[d].proc \in Procs
             /\ proc'[step[d].proc] # Null
             /\ proc[step[d].proc] # Null
             /\ proc'[step[d].proc].account = proc[step[d].proc].account
             /\ proc'[step[d].proc].done = proc[step[d].proc].done
  <2>1. step[d] # Null /\ step'[d].proc = step[d].proc
    BY <1>a DEF StepsKept
  <2>2. step[d].proc \in Procs
    BY <2>1 DEF IInv, TypeOK, StepRow
  <2>3. proc'[step[d].proc] # Null
    BY <1>a, <2>1 DEF IInv, ForeignKeys
  <2> QED BY <2>1, <2>2, <2>3 DEF OwnersKept
<1>1. FirstBinds'
  BY <1>a DEF StepsKept, StepInv, FirstBinds
<1>2. StepsPrecedeCompletion'
  <2> SUFFICES ASSUME NEW c \in Steps, step'[c] # Null, step'[c].status = "completed",
                      proc'[step'[c].proc].status = "completed"
               PROVE  step'[c].done <= proc'[step'[c].proc].done
    BY DEF StepsPrecedeCompletion
  <2>1. /\ step[c] # Null /\ step[c].status = "completed" /\ step'[c].done = step[c].done
        /\ step'[c].proc = step[c].proc
    BY DEF StepsKept
  <2>2. proc[step[c].proc].status = "completed"
    BY <2>1, <1>a DEF OwnersKept
  <2> QED BY <2>1, <2>2, <1>a DEF StepInv, StepsPrecedeCompletion
<1>3. ASSUME NEW c \in Steps, step'[c] # Null, step'[c].status = "pending",
             proc'[step'[c].proc].status = "pending", ~proc'[step'[c].proc].invalid
      PROVE  /\ (step[c].method \in next(proc[step[c].proc], step, step[c].proc))'
             /\ \A d \in Steps :
                  step'[d] # Null /\ step'[d].proc = step'[c].proc
                    /\ step'[d].status = "pending" /\ step'[d].method = step'[c].method
                    => d = c
  <2> DEFINE q == step[c].proc
  <2>1. /\ step[c] # Null /\ step[c].status = "pending" /\ step'[c].proc = q
        /\ step'[c].method = step[c].method /\ q \in Procs /\ proc'[q] # Null
    BY <1>3, <1>a DEF StepsKept
  <2>2. /\ proc[q].status = "pending" /\ ~proc[q].invalid
        /\ proc'[q].account = proc[q].account
        /\ proc[q].account # Null =>
             acct'[proc[q].account].totp = acct[proc[q].account].totp
    BY <1>3, <2>1 DEF OwnersKept
  <2>3. /\ step[c].method \in next(proc[q], step, q)
        /\ \A d \in Steps :
             step[d] # Null /\ step[d].proc = q /\ step[d].status = "pending"
               /\ step[d].method = step[c].method => d = c
    BY <2>1, <2>2 DEF StepInv, PendingStepsAreOffered
  <2>4. ASSUME NEW F PROVE Proved(step', q, F) <=> Proved(step, q, F)
    BY <2>1 DEF StepsKept, Proved
  <2>5. Proved(step, q, FirstFactors) => proc[q].account # Null
    BY DEF Proved, StepInv, FirstBinds
  <2> HIDE DEF q
  <2>6. (step[c].method \in next(proc[step[c].proc], step, step[c].proc))'
    BY <1>3, <2>1, <2>2, <2>3, <2>4, <2>5 DEF next
  <2> QED BY <2>1, <2>3, <2>6 DEF StepsKept
<1>4. PendingStepsAreOffered'
  BY <1>3 DEF PendingStepsAreOffered
<1> QED BY <1>1, <1>2, <1>4 DEF StepInv

\* Transactions outside AuthProcess leave steps alone or delete those of
\* deleted processes.
LEMMA StepsCascade ==
    ASSUME SessionsNext \/ CredentialsNext
    PROVE  step' = step \/ CascadeSteps
<1>1. ASSUME SessionsNext PROVE step' = step \/ CascadeSteps
  BY <1>1 DEF SessionsNext, CreateSession, Refresh, LogoutRefresh, RevokeSessions,
         EndSessions, Tick, RequestDeletion, CancelDeletion, DeleteDueAccount,
         Block, Cleanup
<1>2. ASSUME CredentialsNext PROVE step' = step \/ CascadeSteps
  BY <1>2 DEF CredentialsNext, SetPassword, SetFirstPassword, StartPasswordReset,
         ConfirmPasswordReset, StartTotp, ConfirmTotp, DeleteTotp, RotateBackupCodes,
         StartPasskey, RegisterPasskey, DeletePasskey, PrepareIdentityOAuth,
         BeginLink, FinishLink, UnlinkIdentity, ChangeEmail, ConfirmEmail, Revoke
<1> QED BY <1>1, <1>2

\* A withdrawing transaction keeps steps and their owners.
LEMMA WithdrawalKeeps ==
    ASSUME IInv, Withdraws, step' = step \/ CascadeSteps
    PROVE  StepsKept /\ OwnersKept
<1>1. \A d \in Steps : step[d] # Null => step[d].proc \in Procs
  BY DEF IInv, TypeOK, StepRow
<1>2. StepsKept
  <2>1. \A d \in Steps : step'[d] # Null => step[d] # Null /\ step'[d] = step[d]
    BY DEF CascadeSteps
  <2>2. \A d \in Steps : step[d] # Null /\ proc'[step[d].proc] # Null => step'[d] = step[d]
    BY DEF CascadeSteps
  <2> QED BY <2>1, <2>2 DEF StepsKept
<1>3. OwnersKept
  <2> SUFFICES ASSUME NEW d \in Steps, step[d] # Null, proc'[step[d].proc] # Null
               PROVE  LET q == step[d].proc IN
                      /\ proc[q] # Null
                      /\ proc'[q].account = proc[q].account
                      /\ proc'[q].done = proc[q].done
                      /\ proc'[q].status \in {"pending", "completed"} =>
                           proc'[q].status = proc[q].status
                      /\ ~proc'[q].invalid =>
                           /\ ~proc[q].invalid
                           /\ proc[q].account # Null =>
                                acct'[proc[q].account].totp = acct[proc[q].account].totp
    BY DEF OwnersKept
  <2> DEFINE q == step[d].proc
  <2>1. q \in Procs
    BY <1>1
  <2> HIDE DEF q
  <2>2. /\ proc[q] # Null /\ proc'[q].account = proc[q].account
        /\ proc'[q].done = proc[q].done /\ proc'[q].status = proc[q].status
        /\ proc[q].invalid => proc'[q].invalid
        /\ proc[q].account # Null => acct'[proc[q].account] # Null
    BY <2>1 DEF Withdraws, ProcsWithdrawn, q
  <2>3. ASSUME ~proc'[q].invalid, proc[q].account # Null
        PROVE  acct'[proc[q].account].totp = acct[proc[q].account].totp
    <3>1. proc[q].account \in Accounts
      BY <2>1, <2>2, <2>3 DEF IInv, TypeOK, ProcRow
    <3>2. proc'[q] # Null
      BY DEF q
    <3> QED BY <2>1, <2>2, <2>3, <3>1, <3>2 DEF Withdraws, ChangesRevoke
  <2> QED BY <2>2, <2>3 DEF q
<1> QED BY <1>2, <1>3

\* A started process has no steps.
LEMMA StartKeeps ==
    ASSUME IInv, StartSignIn \/ \E s \in Sessions, u \in Purposes : StartSensitive(s, u)
    PROVE  StepsKept /\ OwnersKept
<1> DEFINE p == CHOOSE q \in FreeProcs : TRUE
<1>1. /\ \E row : proc' = [proc EXCEPT ![p] = row]
      /\ FreeProcs # {} /\ UNCHANGED <<step, acct>>
  BY DEF StartSignIn, StartSensitive
<1>2. p \in Procs /\ proc[p] = Null
  BY <1>1 DEF FreeProcs
<1> HIDE DEF p
<1>3. ASSUME NEW d \in Steps, step[d] # Null
      PROVE  step[d].proc \in Procs /\ proc[step[d].proc] # Null
             /\ proc'[step[d].proc] = proc[step[d].proc]
  BY <1>1, <1>2, <1>3 DEF IInv, TypeOK, ForeignKeys, StepRow
<1> QED BY <1>1, <1>3 DEF StepsKept, OwnersKept

\* A counted failure closes a step or the process, and opens nothing.
LEMMA FailureKeeps ==
    ASSUME IInv, NEW p \in Procs, NEW c \in Steps, load(p), proc[p].status = "pending",
           step[c] # Null, step[c].proc = p, step[c].status = "pending",
           CountFailure(p, c), UNCHANGED acct
    PROVE  StepsKept /\ OwnersKept
<1> DEFINE row == Failed(proc[p])
           new == Failed(step[c])
<1>1. proc' = [proc EXCEPT ![p] = row] /\ step' = [step EXCEPT ![c] = new]
  BY DEF CountFailure
<1>2. /\ proc[p] # Null /\ proc[p] \in ProcRow /\ step[c] \in StepRow
  BY PendingFacts
<1>3. /\ row.status \in {"pending", "failed"} /\ row.account = proc[p].account
      /\ row.invalid = proc[p].invalid
  BY <1>2, FailedProc
<1>4. new \in StepRow /\ new.status \in {"pending", "failed"} /\ new.proc = p
  BY <1>2, FailedStep
<1>5. row.done = proc[p].done
  BY <1>2 DEF Failed, ProcRow
<1>6. new.done = step[c].done /\ new.method = step[c].method
  BY <1>2 DEF Failed, StepRow
<1> HIDE DEF row, new
<1>7. /\ \A d \in Steps : step'[d] = IF d = c THEN new ELSE step[d]
      /\ \A q \in Procs : proc'[q] = IF q = p THEN row ELSE proc[q]
      /\ \A d \in Steps : step[d] # Null => step[d].proc \in Procs
  BY <1>1 DEF IInv, TypeOK, StepRow
<1>8. new # Null
  BY <1>4, NullAssumption
<1>9. StepsKept
  BY <1>4, <1>6, <1>7, <1>8 DEF StepsKept
<1>10. OwnersKept
  BY <1>2, <1>3, <1>5, <1>7 DEF OwnersKept
<1> QED BY <1>9, <1>10

\* Using a ticket up changes nothing else of the step.
LEMMA ExchangeKeeps ==
    ASSUME IInv, NEW p \in Procs, NEW c \in Steps, BeginExchange(p, c)
    PROVE  StepsKept /\ OwnersKept
<1> DEFINE new == [step[c] EXCEPT !.ticket = "none"]
<1>1. /\ step[c] # Null /\ UNCHANGED <<proc, acct>>
      /\ step' = step \/ step' = [step EXCEPT ![c] = new]
  BY DEF BeginExchange, Open
<1>2. step[c] \in StepRow
  BY <1>1 DEF IInv, TypeOK
<1>3. /\ new \in StepRow /\ new.proc = step[c].proc /\ new.method = step[c].method
      /\ new.done = step[c].done /\ new.status = step[c].status
  BY <1>2 DEF StepRow
<1> HIDE DEF new
<1>4. StepsKept
  BY <1>1, <1>3, NullAssumption DEF StepsKept, IInv, TypeOK
<1>5. OwnersKept
  BY <1>1 DEF OwnersKept
<1> QED BY <1>4, <1>5

\* A new step is one the process offers, and it replaces the step of its
\* method.
LEMMA ChallengeKeepsOffers ==
    ASSUME IInv, StepInv, NEW p \in Procs, NEW m \in Methods,
           NEW t \in {"none", "code", "idToken"}, CreateChallenge(p, m, t)
    PROVE  StepInv'
<1> DEFINE c == CHOOSE d \in FreeSteps : TRUE
           new == [proc |-> p, method |-> m, status |-> "pending",
                   exp |-> MinOf(now + ChallengeTTL, proc[p].exp),
                   failures |-> 0, done |-> Null, ticket |-> t]
<1>1. /\ load(p) /\ m \in next(proc[p], step, p) /\ FreeSteps # {}
      /\ step' = [d \in Steps |->
                    IF d = c THEN new
                    ELSE IF /\ step[d] # Null /\ step[d].proc = p
                            /\ step[d].method = m /\ step[d].status = "pending"
                         THEN [step[d] EXCEPT !.status = "cancelled"]
                         ELSE step[d]]
      /\ UNCHANGED <<acct, proc>>
  BY DEF CreateChallenge
<1>2. c \in Steps /\ step[c] = Null
  BY <1>1 DEF FreeSteps
<1>3. new.proc = p /\ new.method = m /\ new.status = "pending"
  OBVIOUS
<1> HIDE DEF c, new
<1>4. ASSUME NEW d \in Steps, d # c
      PROVE  /\ step'[d] # Null => step[d] # Null
             /\ step'[d] # step[d] =>
                  /\ step[d] # Null /\ step[d].proc = p /\ step[d].status = "pending"
                  /\ step'[d].status = "cancelled"
             /\ ~(/\ step'[d] # Null /\ step'[d].proc = p
                   /\ step'[d].method = m /\ step'[d].status = "pending")
  <2>1. CASE /\ step[d] # Null /\ step[d].proc = p
             /\ step[d].method = m /\ step[d].status = "pending"
    <3>1. step'[d] = [step[d] EXCEPT !.status = "cancelled"]
      BY <1>1, <1>4, <2>1
    <3>2. step'[d].status = "cancelled"
      BY <2>1, <3>1 DEF IInv, TypeOK, StepRow
    <3> QED BY <2>1, <3>2
  <2>2. CASE ~(/\ step[d] # Null /\ step[d].proc = p
               /\ step[d].method = m /\ step[d].status = "pending")
    BY <1>1, <1>4, <2>2
  <2> QED BY <2>1, <2>2
<1>5. step'[c] = new
  BY <1>1, <1>2
<1>6. ASSUME NEW d \in Steps
      PROVE  (step'[d] # Null /\ step'[d].status = "completed")
                <=> (step[d] # Null /\ step[d].status = "completed" /\ step'[d] = step[d])
  BY <1>2, <1>3, <1>4, <1>5
<1>7. ASSUME NEW d \in Steps, step[d] # Null, step[d].status = "completed"
      PROVE  step'[d] = step[d]
  BY <1>2, <1>4, <1>7
<1>8. \A q, F : Proved(step', q, F) <=> Proved(step, q, F)
  BY <1>6, <1>7 DEF Proved
<1>9. FirstBinds' /\ StepsPrecedeCompletion'
  BY <1>1, <1>6 DEF FirstBinds, StepsPrecedeCompletion, StepInv
<1>10. PendingStepsAreOffered'
  <2> SUFFICES ASSUME NEW d \in Steps, step'[d] # Null, step'[d].status = "pending",
                      proc[step'[d].proc].status = "pending",
                      ~proc[step'[d].proc].invalid
               PROVE  /\ (step[d].method \in next(proc[step[d].proc], step, step[d].proc))'
                      /\ \A e \in Steps :
                           step'[e] # Null /\ step'[e].proc = step'[d].proc
                             /\ step'[e].status = "pending"
                             /\ step'[e].method = step'[d].method => e = d
    BY <1>1 DEF PendingStepsAreOffered
  <2>1. CASE d = c
    <3>1. (step[d].method \in next(proc[step[d].proc], step, step[d].proc))'
      BY <1>1, <1>3, <1>5, <1>8, <2>1 DEF next
    <3> QED BY <1>3, <1>4, <1>5, <2>1, <3>1
  <2>2. CASE d # c
    <3>1. step[d] # Null /\ step'[d] = step[d] /\ step[d].proc \in Procs
      BY <1>4, <2>2 DEF IInv, TypeOK, StepRow
    <3>2. /\ step[d].method \in next(proc[step[d].proc], step, step[d].proc)
          /\ \A e \in Steps :
               step[e] # Null /\ step[e].proc = step[d].proc /\ step[e].status = "pending"
                 /\ step[e].method = step[d].method => e = d
      BY <3>1 DEF StepInv, PendingStepsAreOffered
    <3>3. (step[d].method \in next(proc[step[d].proc], step, step[d].proc))'
      BY <1>1, <1>8, <3>1, <3>2 DEF next
    <3>4. ASSUME NEW e \in Steps, step'[e] # Null, step'[e].proc = step'[d].proc,
                 step'[e].status = "pending", step'[e].method = step'[d].method
          PROVE  e = d
      <4>1. e # c
        BY <1>3, <1>4, <1>5, <2>2, <3>1, <3>4
      <4>2. step'[e] = step[e]
        BY <1>4, <4>1, <3>4
      <4> QED BY <3>1, <3>2, <3>4, <4>2
    <3> QED BY <3>3, <3>4
  <2> QED BY <2>1, <2>2
<1> QED BY <1>9, <1>10 DEF StepInv

\* An accepted step leaves its process without pending steps.
LEMMA AcceptKeepsOffers ==
    ASSUME IInv, StepInv, NEW p \in Procs, NEW c \in Steps, NEW a \in Accounts,
           Open(p, c), Accept(p, c, a),
           \A b \in Accounts : acct[b] # Null => acct'[b].totp = acct[b].totp
    PROVE  StepInv'
<1> DEFINE st == cancelAlternatives(p, c)
           row == [proc[p] EXCEPT !.account = a]
           new == IF next(row, st, p) = {} THEN complete(row) ELSE row
<1>1. step' = st /\ proc' = [proc EXCEPT ![p] = new]
  BY DEF Accept
<1>2. /\ load(p) /\ proc[p].status = "pending" /\ step[c] # Null /\ step[c].proc = p
      /\ step[c].status = "pending"
  BY DEF Open
<1>3. proc[p] \in ProcRow /\ step[c] \in StepRow
  BY <1>2, PendingFacts
<1>4. /\ step \in [Steps -> StepRow \cup {Null}] /\ now \in Nat /\ now # Null
      /\ \A d \in Steps : step[d] # Null => step[d].proc \in Procs
  BY NullAssumption DEF IInv, TypeOK, Time, StepRow
<1>5. ASSUME NEW d \in Steps
      PROVE  /\ d = c => /\ st[d].proc = p /\ st[d].status = "completed"
                         /\ st[d].done = now
             /\ d # c /\ st[d] # Null => step[d] # Null /\ st[d].proc = step[d].proc
             /\ d # c /\ step[d] # Null /\ step[d].proc = p /\ step[d].status = "pending" =>
                  st[d].status = "cancelled"
             /\ d # c /\ ~(step[d] # Null /\ step[d].proc = p /\ step[d].status = "pending")
                  => st[d] = step[d]
  <2>1. CASE d = c
    <3>1. st[d] = [step[c] EXCEPT !.status = "completed", !.done = now]
      BY <2>1 DEF cancelAlternatives
    <3> QED BY <2>1, <3>1, <1>2, <1>3 DEF StepRow
  <2>2. CASE d # c /\ step[d] # Null /\ step[d].proc = p /\ step[d].status = "pending"
    <3>1. st[d] = [step[d] EXCEPT !.status = "cancelled"]
      BY <2>2 DEF cancelAlternatives
    <3> QED BY <2>2, <3>1, <1>4 DEF StepRow
  <2>3. CASE d # c /\ ~(step[d] # Null /\ step[d].proc = p /\ step[d].status = "pending")
    BY <2>3 DEF cancelAlternatives
  <2> QED BY <2>1, <2>2, <2>3
<1>6. /\ new.account = a /\ (new.status = "completed" => new.done = now)
  <2>1. row.account = a /\ row.status = "pending"
    BY <1>2, <1>3 DEF ProcRow
  <2>2. row \in ProcRow
    BY <1>3 DEF ProcRow
  <2>3. CASE next(row, st, p) = {}
    <3>1. new = complete(row)
      BY <2>3
    <3> HIDE DEF row, new, st
    <3> QED BY <2>1, <2>2, <3>1 DEF complete, ProcRow
  <2>4. CASE next(row, st, p) # {}
    BY <2>1, <2>4
  <2> QED BY <2>3, <2>4
<1> HIDE DEF st, row, new
<1>7. /\ proc'[p] = new /\ a # Null
      /\ \A q \in Procs : q # p => proc'[q] = proc[q]
  BY <1>1, NullAssumption DEF IInv, TypeOK
<1>8. ASSUME NEW d \in Steps, st[d] # Null, st[d].proc # p
      PROVE  /\ step[d] # Null /\ st[d] = step[d] /\ step[d].proc \in Procs
             /\ proc'[step[d].proc] = proc[step[d].proc]
  BY <1>4, <1>5, <1>7, <1>8
<1>9. ASSUME NEW d \in Steps, step[d] # Null, step[d].proc # p
      PROVE  st[d] = step[d]
  BY <1>2, <1>5, <1>9
<1>10. FirstBinds'
  BY <1>1, <1>6, <1>7, <1>8 DEF FirstBinds, StepInv
<1>11. StepsPrecedeCompletion'
  <2> SUFFICES ASSUME NEW d \in Steps, st[d] # Null, st[d].status = "completed",
                      proc'[st[d].proc].status = "completed"
               PROVE  st[d].done <= proc'[st[d].proc].done
    BY <1>1 DEF StepsPrecedeCompletion
  <2>1. CASE st[d].proc = p
    <3>1. st[d].done <= now
      <4>1. CASE d = c
        BY <4>1, <1>4, <1>5
      <4>2. CASE d # c
        BY <4>2, <1>5 DEF IInv, StepsBackProofs
      <4> QED BY <4>1, <4>2
    <3> QED BY <2>1, <3>1, <1>6, <1>7
  <2>2. CASE st[d].proc # p
    BY <2>2, <1>8 DEF StepInv, StepsPrecedeCompletion
  <2> QED BY <2>1, <2>2
<1>12. PendingStepsAreOffered'
  <2> SUFFICES ASSUME NEW d \in Steps, step'[d] # Null, step'[d].status = "pending",
                      proc'[step'[d].proc].status = "pending",
                      ~proc'[step'[d].proc].invalid
               PROVE  /\ (step[d].method \in next(proc[step[d].proc], step, step[d].proc))'
                      /\ \A e \in Steps :
                           step'[e] # Null /\ step'[e].proc = step'[d].proc
                             /\ step'[e].status = "pending"
                             /\ step'[e].method = step'[d].method => e = d
    BY DEF PendingStepsAreOffered
  <2>1. st[d].proc # p
    BY <1>1, <1>5
  <2> DEFINE q == step[d].proc
  <2>2. /\ step[d] # Null /\ step'[d] = step[d] /\ q \in Procs
        /\ proc'[q] = proc[q] /\ q # p
    BY <1>1, <1>8, <2>1
  <2>3. /\ step[d].method \in next(proc[q], step, q)
        /\ \A e \in Steps :
             step[e] # Null /\ step[e].proc = q /\ step[e].status = "pending"
               /\ step[e].method = step[d].method => e = d
    BY <2>2 DEF StepInv, PendingStepsAreOffered
  <2>4. ASSUME NEW F PROVE Proved(step', q, F) <=> Proved(step, q, F)
    BY <1>1, <1>8, <1>9, <2>2 DEF Proved
  <2>5. Proved(step, q, FirstFactors) =>
          acct'[proc[q].account].totp = acct[proc[q].account].totp
    <3> SUFFICES ASSUME Proved(step, q, FirstFactors)
                 PROVE  acct'[proc[q].account].totp = acct[proc[q].account].totp
      OBVIOUS
    <3>1. proc[q].account # Null /\ proc[q] # Null
      BY <2>2 DEF Proved, StepInv, FirstBinds, IInv, ForeignKeys
    <3> QED BY <2>2, <3>1 DEF IInv, TypeOK, ProcRow, ForeignKeys
  <2>6. (step[d].method \in next(proc[step[d].proc], step, step[d].proc))'
    BY <2>2, <2>3, <2>4, <2>5 DEF next
  <2>7. ASSUME NEW e \in Steps, step'[e] # Null, step'[e].proc = q,
               step'[e].status = "pending", step'[e].method = step[d].method
        PROVE  e = d
    BY <1>1, <1>8, <2>2, <2>3, <2>7
  <2> QED BY <2>2, <2>6, <2>7
<1> QED BY <1>10, <1>11, <1>12 DEF StepInv

\* The invariant about steps is inductive relative to IInv.
LEMMA StepsStep ==
    ASSUME IInv, StepInv, [Next]_vars
    PROVE  StepInv'
<1>a. IInv'
  BY InductiveStep
<1>b. ASSUME StepsKept, OwnersKept PROVE StepInv'
  BY <1>a, <1>b, KeptStepsPreserve
<1>c. ASSUME UNCHANGED <<acct, proc, step>> PROVE StepInv'
  BY <1>b, <1>c DEF StepsKept, OwnersKept, IInv, ForeignKeys
<1>d. ASSUME NEW f \in Flights, flight[f] # Null, flight[f].stage \in {"exchange", "reject"}
      PROVE  flight[f].proc \in Procs /\ flight[f].step \in Steps
  BY <1>d DEF IInv, TypeOK, FlightRow, AttemptCall, LinkCall
<1>1. CASE SessionsNext /\ ~Tick
  BY <1>1, <1>b, SessionsWithdraw, StepsCascade, WithdrawalKeeps
<1>2. CASE CredentialsNext
  BY <1>2, <1>b, CredentialsWithdraw, StepsCascade, WithdrawalKeeps
<1>3. CASE Tick \/ UNCHANGED vars
  BY <1>3, <1>c DEF Tick, vars
<1>4. CASE ProcessNext
  <2>1. \A b \in Accounts : acct[b] # Null => acct'[b].totp = acct[b].totp
    BY <1>4, ProcessKeepsAccounts
  <2>2. ASSUME NEW p \in Procs, NEW c \in Steps, NEW a \in Accounts, AttemptAccepted(p, c, a)
        PROVE  StepInv'
    BY <2>1, <2>2, AcceptKeepsOffers DEF AttemptAccepted
  <2>3. ASSUME NEW f \in Flights, NEW a \in Accounts, FinishExchange(f, a)
        PROVE  StepInv'
    <3>1. flight[f].proc \in Procs /\ flight[f].step \in Steps
      BY <2>3, <1>d DEF FinishExchange
    <3> QED BY <2>1, <2>3, <3>1, AcceptKeepsOffers DEF FinishExchange
  <2>4. ASSUME NEW p \in Procs, NEW c \in Steps, AttemptRejected(p, c)
        PROVE  StepInv'
    BY <2>4, <1>b, FailureKeeps DEF AttemptRejected, Open
  <2>5. ASSUME NEW f \in Flights, RejectExchange(f)
        PROVE  StepInv'
    <3>1. flight[f].proc \in Procs /\ flight[f].step \in Steps
      BY <2>5, <1>d DEF RejectExchange
    <3> QED BY <2>5, <3>1, <1>b, FailureKeeps DEF RejectExchange
  <2>6. ASSUME NEW p \in Procs, NEW c \in Steps, BeginExchange(p, c) \/ BeginRejected(p, c)
        PROVE  StepInv'
    BY <2>6, <1>b, <1>c, ExchangeKeeps DEF BeginRejected
  <2>7. ASSUME NEW f \in Flights, ExchangeRefused(f) \/ FlightLost(f)
        PROVE  StepInv'
    BY <2>7, <1>c DEF ExchangeRefused, FlightLost
  <2>8. CASE StartSignIn \/ \E s \in Sessions, u \in Purposes : StartSensitive(s, u)
    BY <2>8, <1>b, StartKeeps
  <2> QED BY <1>4, <2>2, <2>3, <2>4, <2>5, <2>6, <2>7, <2>8, ChallengeKeepsOffers
          DEF ProcessNext
<1> QED BY <1>1, <1>2, <1>3, <1>4 DEF Next

\* The invariant about steps holds in every reachable state.
THEOREM StepInvariance == Spec => [](IInv /\ StepInv)
<1>1. Init => StepInv
  BY DEF Init, StepInv, FirstBinds, StepsPrecedeCompletion, PendingStepsAreOffered
<1> QED BY <1>1, InitInvariant, InductiveStep, StepsStep, PTL DEF Spec

\* Every pending step of a live process is one the process would accept, and
\* the only one of its method.
THEOREM OfferTheorem == Spec => []PendingStepsAreOffered
<1>1. StepInv => PendingStepsAreOffered
  BY DEF StepInv
<1> QED BY <1>1, StepInvariance, PTL

-----------------------------------------------------------------------------
(* Removal of processes *)

\* A process whose session is among those deleted.
LEMMA RemovedWithSession ==
    ASSUME IInv, NEW p \in Procs, proc[p] # Null, proc'[p] = Null,
           NEW D \in SUBSET Sessions, NEW ps, DeleteSessions(ps, D),
           ps[p] # Null, ps[p].session = proc[p].session
    PROVE  proc[p].session # Null /\ sess'[proc[p].session] = Null
<1>1. proc[p].session \in D
  BY DEF DeleteSessions, WithoutSessions
<1> QED BY <1>1, NullAssumption DEF DeleteSessions

\* A transaction of AuthProcess removes no process: the one it writes still
\* has the step it was about.
LEMMA ProcessKeepsRows ==
    ASSUME IInv, ProcessNext, NEW q \in Procs, proc[q] # Null
    PROVE  proc'[q] # Null
<1>a. IInv'
  BY InductiveStep DEF Next
<1>b. proc \in [Procs -> ProcRow \cup {Null}] /\ flight \in [Flights -> FlightRow \cup {Null}]
  BY DEF IInv, TypeOK
<1>c. ASSUME NEW p \in Procs, NEW c \in Steps, step'[c] # Null, step'[c].proc = p, NEW row,
             proc' = [proc EXCEPT ![p] = row]
      PROVE  proc'[q] # Null
  <2>1. proc'[p] # Null
    BY <1>a, <1>c DEF IInv, ForeignKeys
  <2> QED BY <2>1, <1>b, <1>c
<1>d. ASSUME NEW f \in Flights, flight[f] # Null, flight[f].stage \in {"exchange", "reject"}
      PROVE  flight[f].proc \in Procs /\ flight[f].step \in Steps
  BY <1>b, <1>d DEF FlightRow, AttemptCall, LinkCall
<1>1. CASE StartSignIn \/ \E s \in Sessions, u \in Purposes : StartSensitive(s, u)
  <2> DEFINE p == CHOOSE e \in FreeProcs : TRUE
  <2>1. FreeProcs # {} /\ \E row : proc' = [proc EXCEPT ![p] = row]
    BY <1>1 DEF StartSignIn, StartSensitive
  <2>2. p \in Procs /\ proc[p] = Null
    BY <2>1 DEF FreeProcs
  <2> HIDE DEF p
  <2> QED BY <2>1, <2>2, <1>b
<1>2. ASSUME NEW p \in Procs, NEW c \in Steps, NEW a, Open(p, c), Accept(p, c, a)
      PROVE  proc'[q] # Null
  <2> DEFINE new == [step[c] EXCEPT !.status = "completed", !.done = now]
  <2>1. step[c] \in StepRow /\ step[c].proc = p /\ now \in Nat
    BY <1>2 DEF Open, IInv, TypeOK, Time
  <2>2. step'[c] = new
    BY <1>2 DEF Accept, cancelAlternatives
  <2>3. new \in StepRow /\ new.proc = p
    BY <2>1 DEF StepRow, Time
  <2>4. \E row : proc' = [proc EXCEPT ![p] = row]
    BY <1>2 DEF Accept
  <2> HIDE DEF new
  <2> QED BY <2>2, <2>3, <2>4, <1>c, NullAssumption
<1>3. ASSUME NEW p \in Procs, NEW c \in Steps, step[c] # Null, step[c].proc = p,
             step[c].status = "pending", CountFailure(p, c)
      PROVE  proc'[q] # Null
  <2>1. /\ step'[c] = Failed(step[c]) /\ step[c] \in StepRow
        /\ proc' = [proc EXCEPT ![p] = Failed(proc[p])]
    BY <1>3 DEF CountFailure, IInv, TypeOK
  <2>2. Failed(step[c]) \in StepRow /\ Failed(step[c]).proc = p
    BY <1>3, <2>1, FailedStep
  <2> QED BY <2>1, <2>2, <1>c, NullAssumption
<1>4. ASSUME NEW p \in Procs, NEW c \in Steps, NEW a \in Accounts, AttemptAccepted(p, c, a)
      PROVE  proc'[q] # Null
  BY <1>2, <1>4 DEF AttemptAccepted
<1>5. ASSUME NEW f \in Flights, NEW a \in Accounts, FinishExchange(f, a)
      PROVE  proc'[q] # Null
  <2>1. flight[f].proc \in Procs /\ flight[f].step \in Steps
    BY <1>5, <1>d DEF FinishExchange
  <2> QED BY <1>2, <1>5, <2>1 DEF FinishExchange
<1>6. ASSUME NEW p \in Procs, NEW c \in Steps, AttemptRejected(p, c)
      PROVE  proc'[q] # Null
  BY <1>3, <1>6 DEF AttemptRejected, Open
<1>7. ASSUME NEW f \in Flights, RejectExchange(f)
      PROVE  proc'[q] # Null
  <2>1. flight[f].proc \in Procs /\ flight[f].step \in Steps
    BY <1>7, <1>d DEF RejectExchange
  <2> QED BY <1>3, <1>7, <2>1 DEF RejectExchange
<1>8. ASSUME proc' = proc PROVE proc'[q] # Null
  BY <1>8
<1> QED BY <1>1, <1>4, <1>5, <1>6, <1>7, <1>8
        DEF ProcessNext, CreateChallenge, BeginExchange, BeginRejected,
            ExchangeRefused, FlightLost

\* A process goes with its account, with its session, or because it is
\* disposable.
LEMMA RemovalCause ==
    ASSUME IInv, [Next]_vars, NEW p \in Procs, proc[p] # Null, proc'[p] = Null
    PROVE  \/ proc[p].account # Null /\ acct'[proc[p].account] = Null
           \/ proc[p].session # Null /\ sess'[proc[p].session] = Null
           \/ Disposable(p)
<1>a. ASSUME NEW ps, Spent(ps)
      PROVE  ps[p] # Null /\ ps[p].session = proc[p].session
  BY <1>a, SpentRows DEF IInv, SameButGrant
<1>b. ASSUME NEW D \in SUBSET Sessions, NEW ps, DeleteSessions(ps, D), ps[p] = proc[p]
      PROVE  proc[p].session # Null /\ sess'[proc[p].session] = Null
  BY <1>b, RemovedWithSession
<1>1. ~ProcessNext /\ proc' # proc
  BY ProcessKeepsRows
<1>2. CASE CredentialsNext
  <2>1. ~Spent(proc')
    BY <1>a
  <2>2. PICK a \in Accounts, D \in SUBSET Sessions : \E ps : Spent(ps) /\ Revoke(ps, a, D)
    BY <1>2, <2>1, CredentialsShape DEF ChangesCredentials
  <2>3. PICK ps : Spent(ps) /\ Revoke(ps, a, D)
    BY <2>2
  <2> DEFINE left == invalidate(ps, a)
  <2>4. left[p] # Null /\ left[p].session = proc[p].session
    <3>1. ps[p] \in ProcRow /\ ps[p].session = proc[p].session /\ ps[p] # Null
      BY <2>3, <1>a, SpentRows DEF IInv
    <3>2. left[p] \in {ps[p], [ps[p] EXCEPT !.invalid = TRUE, !.grant = Null]}
      BY DEF invalidate
    <3>3. /\ [ps[p] EXCEPT !.invalid = TRUE, !.grant = Null] \in ProcRow
          /\ [ps[p] EXCEPT !.invalid = TRUE, !.grant = Null].session = ps[p].session
      BY <3>1 DEF ProcRow
    <3> QED BY <3>1, <3>2, <3>3, NullAssumption
  <2>5. DeleteSessions(left, D)
    BY <2>3 DEF Revoke
  <2> HIDE DEF left
  <2> QED BY <2>4, <2>5, RemovedWithSession
<1>3. ASSUME NEW a \in Accounts, DeleteDueAccount(a)
      PROVE  \/ proc[p].account # Null /\ acct'[proc[p].account] = Null
             \/ proc[p].session # Null /\ sess'[proc[p].session] = Null
  <2> DEFINE ps == [q \in Procs |-> IF proc[q] # Null /\ proc[q].account = a
                                    THEN Null ELSE proc[q]]
  <2>1. DeleteSessions(ps, SessionsOf(a)) /\ acct' = [acct EXCEPT ![a] = Null]
    BY <1>3 DEF DeleteDueAccount
  <2>2. CASE proc[p].account = a
    BY <2>1, <2>2, NullAssumption DEF IInv, TypeOK
  <2>3. CASE proc[p].account # a
    <3>1. ps[p] = proc[p] /\ SessionsOf(a) \in SUBSET Sessions
      BY <2>3, SessionSets
    <3> HIDE DEF ps
    <3> QED BY <2>1, <3>1, <1>b
  <2> QED BY <2>2, <2>3
<1>4. CASE Cleanup
  <2> DEFINE ps == [q \in Procs |-> IF Disposable(q) THEN Null ELSE proc[q]]
  <2>1. DeleteSessions(ps, ExpiredSessions)
    BY <1>4 DEF Cleanup
  <2>2. CASE ~Disposable(p)
    <3>1. ps[p] = proc[p] /\ ExpiredSessions \in SUBSET Sessions
      BY <2>2 DEF ExpiredSessions
    <3> HIDE DEF ps
    <3> QED BY <2>1, <3>1, <1>b
  <2> QED BY <2>2
<1>5. ASSUME NEW D \in SUBSET Sessions, EndSessions(D)
      PROVE  proc[p].session # Null /\ sess'[proc[p].session] = Null
  BY <1>5, <1>b DEF EndSessions
<1>6. ASSUME NEW s \in Sessions, NEW t \in Sessions \cup {Null}, RevokeSessions(s, t)
      PROVE  proc[p].session # Null /\ sess'[proc[p].session] = Null
  <2>1. PICK D : EndSessions(D) /\ D \subseteq SessionsOf(sess[s].account)
    BY <1>6 DEF RevokeSessions
  <2> QED BY <2>1, <1>5, SessionSets
<1>7. ASSUME NEW s \in Sessions, LogoutRefresh(s)
      PROVE  proc[p].session # Null /\ sess'[proc[p].session] = Null
  BY <1>7, <1>5 DEF LogoutRefresh
<1>8. ASSUME NEW q \in Procs, CreateSession(q) \/ RequestDeletion(q)
      PROVE  FALSE
  <2>1. proc[q] # Null /\ proc' = Consumed(proc, q)
    BY <1>8 DEF CreateSession, RequestDeletion, Consumable
  <2> QED BY <2>1, <1>a DEF Spent
<1> QED BY <1>1, <1>2, <1>3, <1>4, <1>6, <1>7, <1>8
        DEF Next, SessionsNext, Refresh, CancelDeletion, Block, Tick, vars

\* Unless its session or account goes, a process is removed only when its
\* flow has expired, no grant is live and no proof can be reused.
THEOREM CleanupTheorem == Spec => CleanupKeepsUsable
<1> DEFINE Usable == \A p \in Procs :
             /\ proc[p] # Null /\ proc'[p] = Null
             /\ proc[p].account # Null => acct'[proc[p].account] # Null
             /\ proc[p].session # Null => sess'[proc[p].session] # Null
             => /\ proc[p].exp < now
                /\ proc[p].grant = Null \/ proc[p].grant < now
                /\ proc[p].status = "completed" => ~Recent(p, FirstFactors)
<1>1. ASSUME IInv /\ StepInv, [Next]_vars PROVE [Usable]_vars
  <2> SUFFICES ASSUME NEW p \in Procs, proc[p] # Null, proc'[p] = Null,
                      proc[p].account # Null => acct'[proc[p].account] # Null,
                      proc[p].session # Null => sess'[proc[p].session] # Null
               PROVE  /\ proc[p].exp < now
                      /\ proc[p].grant = Null \/ proc[p].grant < now
                      /\ proc[p].status = "completed" => ~Recent(p, FirstFactors)
    OBVIOUS
  <2>1. Disposable(p)
    BY <1>1, RemovalCause
  <2>2. ASSUME proc[p].status = "completed", Recent(p, FirstFactors)
        PROVE  FALSE
    <3>1. PICK c \in Steps : /\ step[c] # Null /\ step[c].proc = p
                             /\ step[c].status = "completed"
                             /\ step[c].done > now - ReuseTTL
      BY <2>2 DEF Recent
    <3>2. step[c].done <= proc[p].done
      BY <1>1, <2>2, <3>1 DEF StepInv, StepsPrecedeCompletion
    <3>3. proc[p].done # Null /\ step[c].done # Null
      BY <1>1, <2>2, <3>1 DEF IInv, ForeignKeys, StepsBackProofs
    <3>4. proc[p].done \in Nat /\ step[c].done \in Nat /\ now \in Nat
      BY <1>1, <3>1, <3>3 DEF IInv, TypeOK, ProcRow, StepRow, Time
    <3>5. proc[p].done < now - ReuseTTL
      BY <2>1, <3>3 DEF Disposable
    <3> QED BY <3>1, <3>2, <3>4, <3>5, DurationAssumption
  <2> QED BY <2>1, <2>2 DEF Disposable
<1> HIDE DEF Usable
<1>2. Spec => [][Usable]_vars
  BY <1>1, StepInvariance, PTL DEF Spec
<1> QED BY <1>2 DEF CleanupKeepsUsable, Usable

-----------------------------------------------------------------------------
(* The budget of failed attempts *)

\* What BudgetIsDurable says of process p; what is counted is finite.
BudgetOK(p) ==
    proc[p] # Null =>
      /\ IsFiniteSet(Mistakes(p))
      /\ proc[p].failures = Cardinality(Mistakes(p))
      /\ proc[p].status = "failed" <=> proc[p].failures >= MaxAttempts

BudgetInv == \A p \in Procs : BudgetOK(p)

\* The steps of p count as many failures as before: none is forgotten, and a
\* new step has none.
CountsKept(p) ==
    /\ \A c \in Steps : step[c] # Null /\ step[c].proc = p =>
         step'[c] # Null /\ step'[c].proc = p /\ step'[c].failures = step[c].failures
    /\ \A c \in Steps : step'[c] # Null /\ step'[c].proc = p =>
         (step[c] # Null /\ step[c].proc = p) \/ step'[c].failures = 0

\* The pairs Mistakes is made of.
LEMMA MistakePairs ==
    ASSUME NEW p, NEW c, NEW i
    PROVE  <<c, i>> \in Mistakes(p) <=>
             /\ c \in Steps /\ step[c] # Null /\ step[c].proc = p
             /\ i \in 1 .. step[c].failures
  BY DEF Mistakes

\* And there is nothing else in it.
LEMMA MistakesArePairs ==
    ASSUME NEW p, NEW x \in Mistakes(p)
    PROVE  \E c, i : x = <<c, i>>
  BY DEF Mistakes

\* The same after a step.
LEMMA MistakePairsNext ==
    ASSUME NEW p, NEW c, NEW i
    PROVE  <<c, i>> \in Mistakes(p)' <=>
             /\ c \in Steps /\ step'[c] # Null /\ step'[c].proc = p
             /\ i \in 1 .. step'[c].failures
  BY DEF Mistakes

\* The same after a step.
LEMMA MistakesArePairsNext ==
    ASSUME NEW p, NEW x \in Mistakes(p)'
    PROVE  \E c, i : x = <<c, i>>
  BY DEF Mistakes

\* Steps that count as before make the same mistakes.
LEMMA SameMistakes ==
    ASSUME NEW p, CountsKept(p)
    PROVE  Mistakes(p)' = Mistakes(p)
<1>1. ASSUME NEW c, NEW i PROVE <<c, i>> \in Mistakes(p)' <=> <<c, i>> \in Mistakes(p)
  <2>1. ASSUME <<c, i>> \in Mistakes(p) PROVE <<c, i>> \in Mistakes(p)'
    <3>1. /\ c \in Steps /\ step[c] # Null /\ step[c].proc = p
          /\ i \in 1 .. step[c].failures
      BY <2>1, MistakePairs
    <3> QED BY <3>1, MistakePairsNext DEF CountsKept
  <2>2. ASSUME <<c, i>> \in Mistakes(p)' PROVE <<c, i>> \in Mistakes(p)
    <3>1. /\ c \in Steps /\ step'[c] # Null /\ step'[c].proc = p
          /\ i \in 1 .. step'[c].failures
      BY <2>2, MistakePairsNext
    <3>2. step'[c].failures # 0
      BY <3>1
    <3> QED BY <3>1, <3>2, MistakePairs DEF CountsKept
  <2> QED BY <2>1, <2>2
<1> QED BY <1>1, MistakesArePairs, MistakesArePairsNext

\* A process whose count and steps stay as they are keeps its budget.
LEMMA BudgetKept ==
    ASSUME NEW p \in Procs, BudgetOK(p), CountsKept(p),
           proc'[p] # Null =>
             /\ proc[p] # Null /\ proc'[p].failures = proc[p].failures
             /\ proc'[p].status = "failed" <=> proc[p].status = "failed"
    PROVE  BudgetOK(p)'
<1>1. Mistakes(p)' = Mistakes(p)
  BY SameMistakes
<1> QED BY <1>1 DEF BudgetOK

\* A withdrawing transaction deletes the steps of deleted processes only.
LEMMA WithdrawalKeepsBudget ==
    ASSUME IInv, BudgetInv, Withdraws, step' = step \/ CascadeSteps
    PROVE  BudgetInv'
<1> SUFFICES ASSUME NEW p \in Procs, proc'[p] # Null PROVE BudgetOK(p)'
  BY DEF BudgetInv, BudgetOK
<1>1. CountsKept(p)
  BY DEF CountsKept, CascadeSteps
<1>2. /\ proc[p] # Null /\ proc'[p].failures = proc[p].failures
      /\ proc'[p].status = proc[p].status
  BY DEF Withdraws, ProcsWithdrawn
<1> QED BY <1>1, <1>2, BudgetKept DEF BudgetInv

\* A new process has failed in nothing.
LEMMA StartKeepsBudget ==
    ASSUME IInv, BudgetInv,
           StartSignIn \/ \E s \in Sessions, u \in Purposes : StartSensitive(s, u)
    PROVE  BudgetInv'
<1> DEFINE Fresh(row) == row.failures = 0 /\ row.status # "failed"
<1>0. ASSUME NEW u, NEW a, NEW s
      PROVE  Fresh(NewProc(u, a, s)) /\ Fresh(complete(NewProc(u, a, s)))
  BY DEF NewProc, complete
<1>1. PICK p \in FreeProcs :
        step' = step /\ \E row : Fresh(row) /\ proc' = [proc EXCEPT ![p] = row]
  <2> DEFINE q == CHOOSE r \in FreeProcs : TRUE
             Starts == /\ q \in FreeProcs /\ step' = step
                       /\ \E row : Fresh(row) /\ proc' = [proc EXCEPT ![q] = row]
  <2> HIDE DEF Fresh
  <2>1. CASE StartSignIn
    <3>1. Starts
      BY <1>0, <2>1 DEF StartSignIn
    <3> QED BY <3>1
  <2>2. ASSUME NEW s \in Sessions, NEW u \in Purposes, StartSensitive(s, u)
        PROVE  Starts
    BY <1>0, <2>2 DEF StartSensitive
  <2> QED BY <2>1, <2>2
<1>2. p \in Procs /\ proc[p] = Null
  BY <1>1 DEF FreeProcs
<1>3. ASSUME NEW q \in Procs, q # p PROVE BudgetOK(q)'
  <2>1. CountsKept(q)
    BY <1>1 DEF CountsKept
  <2>2. proc'[q] = proc[q]
    BY <1>1, <1>3 DEF IInv, TypeOK
  <2> QED BY <2>1, <2>2, BudgetKept DEF BudgetInv
<1>4. proc'[p].failures = 0 /\ proc'[p].status # "failed"
  BY <1>1, <1>2 DEF IInv, TypeOK
<1>5. Mistakes(p)' = {}
  <2>1. \A c \in Steps : step'[c] # Null => step'[c].proc # p
    BY <1>1, <1>2 DEF IInv, ForeignKeys
  <2>2. ASSUME NEW x \in Mistakes(p)' PROVE FALSE
    <3>1. PICK c, i : x = <<c, i>>
      BY <2>2, MistakesArePairsNext
    <3> QED BY <2>1, <2>2, <3>1, MistakePairsNext
  <2> QED BY <2>2
<1>6. BudgetOK(p)'
  <2>1. IsFiniteSet({}) /\ Cardinality({}) = 0
    BY FS_EmptySet
  <2>2. IsFiniteSet(Mistakes(p)') /\ Cardinality(Mistakes(p)') = 0
    BY <1>5, <2>1
  <2>3. MaxAttempts \in Nat \ {0}
    BY DurationAssumption
  <2> QED BY <1>4, <2>2, <2>3 DEF BudgetOK
<1> QED BY <1>3, <1>6 DEF BudgetInv

\* A new step begins without failures, and the one it replaces keeps its own.
LEMMA ChallengeKeepsBudget ==
    ASSUME IInv, BudgetInv, NEW p \in Procs, NEW m \in Methods,
           NEW t \in {"none", "code", "idToken"}, CreateChallenge(p, m, t)
    PROVE  BudgetInv'
<1> DEFINE c == CHOOSE d \in FreeSteps : TRUE
           new == [proc |-> p, method |-> m, status |-> "pending",
                   exp |-> MinOf(now + ChallengeTTL, proc[p].exp),
                   failures |-> 0, done |-> Null, ticket |-> t]
<1>1. /\ FreeSteps # {} /\ UNCHANGED proc
      /\ step' = [d \in Steps |->
                    IF d = c THEN new
                    ELSE IF /\ step[d] # Null /\ step[d].proc = p
                            /\ step[d].method = m /\ step[d].status = "pending"
                         THEN [step[d] EXCEPT !.status = "cancelled"]
                         ELSE step[d]]
  BY DEF CreateChallenge
<1>2. c \in Steps /\ step[c] = Null
  BY <1>1 DEF FreeSteps
<1>3. new.failures = 0
  OBVIOUS
<1> HIDE DEF c, new
<1>4. ASSUME NEW d \in Steps, d # c
      PROVE  /\ step'[d] # Null <=> step[d] # Null
             /\ step[d] # Null =>
                  step'[d].proc = step[d].proc /\ step'[d].failures = step[d].failures
  <2>1. CASE /\ step[d] # Null /\ step[d].proc = p
             /\ step[d].method = m /\ step[d].status = "pending"
    <3>1. step'[d] = [step[d] EXCEPT !.status = "cancelled"] /\ step[d] \in StepRow
      BY <1>1, <1>4, <2>1 DEF IInv, TypeOK
    <3>2. step'[d] \in StepRow
      BY <3>1 DEF StepRow
    <3> QED BY <2>1, <3>1, <3>2, NullAssumption DEF StepRow
  <2>2. CASE ~(/\ step[d] # Null /\ step[d].proc = p
               /\ step[d].method = m /\ step[d].status = "pending")
    BY <1>1, <1>4, <2>2
  <2> QED BY <2>1, <2>2
<1>5. step'[c] = new
  BY <1>1, <1>2
<1>6. ASSUME NEW q \in Procs PROVE BudgetOK(q)'
  <2>1. CountsKept(q)
    BY <1>2, <1>3, <1>4, <1>5 DEF CountsKept
  <2> QED BY <1>1, <2>1, BudgetKept DEF BudgetInv
<1> QED BY <1>6 DEF BudgetInv

\* An accepted proof counts nothing and forgives nothing.
LEMMA AcceptKeepsBudget ==
    ASSUME IInv, BudgetInv, NEW p \in Procs, NEW c \in Steps, NEW a \in Accounts,
           Open(p, c), Accept(p, c, a)
    PROVE  BudgetInv'
<1> DEFINE st == cancelAlternatives(p, c)
           row == [proc[p] EXCEPT !.account = a]
           new == IF next(row, st, p) = {} THEN complete(row) ELSE row
<1>1. step' = st /\ proc' = [proc EXCEPT ![p] = new]
  BY DEF Accept
<1>2. proc[p] # Null /\ proc[p] \in ProcRow /\ proc[p].status = "pending" /\ step[c] # Null
  BY PendingFacts DEF Open
<1>3. ASSUME NEW d \in Steps
      PROVE  /\ st[d] # Null <=> step[d] # Null
             /\ step[d] # Null =>
                  st[d].proc = step[d].proc /\ st[d].failures = step[d].failures
  <2>1. now \in Nat /\ (step[d] # Null => step[d] \in StepRow)
    BY DEF IInv, TypeOK, Time
  <2>2. CASE d = c
    <3>1. st[d] = [step[d] EXCEPT !.status = "completed", !.done = now] /\ step[d] \in StepRow
      BY <1>2, <2>1, <2>2 DEF cancelAlternatives
    <3>2. st[d] \in StepRow
      BY <2>1, <3>1 DEF StepRow, Time
    <3> QED BY <1>2, <2>2, <3>1, <3>2, NullAssumption DEF StepRow
  <2>3. CASE d # c /\ step[d] # Null /\ step[d].proc = p /\ step[d].status = "pending"
    <3>1. st[d] = [step[d] EXCEPT !.status = "cancelled"] /\ step[d] \in StepRow
      BY <2>1, <2>3 DEF cancelAlternatives
    <3>2. st[d] \in StepRow
      BY <3>1 DEF StepRow
    <3> QED BY <2>3, <3>1, <3>2, NullAssumption DEF StepRow
  <2>4. CASE d # c /\ ~(step[d] # Null /\ step[d].proc = p /\ step[d].status = "pending")
    BY <2>4 DEF cancelAlternatives
  <2> QED BY <2>2, <2>3, <2>4
<1>4. new.failures = proc[p].failures /\ new.status # "failed"
  <2>1. row.failures = proc[p].failures /\ row.status = "pending" /\ row \in ProcRow
    BY <1>2 DEF ProcRow
  <2>2. new \in {row, complete(row)}
    OBVIOUS
  <2> HIDE DEF row, new
  <2> QED BY <2>1, <2>2 DEF complete, ProcRow
<1> HIDE DEF st, row, new
<1>5. ASSUME NEW q \in Procs PROVE BudgetOK(q)'
  <2>1. CountsKept(q)
    BY <1>1, <1>3 DEF CountsKept
  <2>2. /\ proc'[p] = new
        /\ q # p => proc'[q] = proc[q]
    BY <1>1 DEF IInv, TypeOK
  <2>3. BudgetOK(q)
    BY DEF BudgetInv
  <2>4. CASE q = p
    BY <1>2, <1>4, <2>1, <2>2, <2>3, <2>4, BudgetKept
  <2>5. CASE q # p
    BY <2>1, <2>2, <2>3, <2>5, BudgetKept
  <2> QED BY <2>4, <2>5
<1> QED BY <1>5 DEF BudgetInv

\* A wrong proof is one more failure of the step and of the process.
LEMMA FailureKeepsBudget ==
    ASSUME IInv, BudgetInv, NEW p \in Procs, NEW c \in Steps, load(p),
           proc[p].status = "pending", step[c] # Null, step[c].proc = p,
           step[c].status = "pending", CountFailure(p, c)
    PROVE  BudgetInv'
<1> DEFINE row == Failed(proc[p])
           new == Failed(step[c])
           n == step[c].failures
<1>1. proc' = [proc EXCEPT ![p] = row] /\ step' = [step EXCEPT ![c] = new]
  BY DEF CountFailure
<1>2. proc[p] # Null /\ proc[p] \in ProcRow /\ step[c] \in StepRow /\ n \in Nat
  BY PendingFacts DEF StepRow
<1>3. /\ row.failures = proc[p].failures + 1 /\ proc[p].failures \in Nat
      /\ row.status = IF proc[p].failures + 1 >= MaxAttempts THEN "failed" ELSE "pending"
  BY <1>2 DEF Failed, ProcRow
<1>4. new \in StepRow /\ new # Null /\ new.proc = p /\ new.failures = n + 1
  <2>1. new \in StepRow /\ new.proc = p
    BY <1>2, FailedStep
  <2>2. new.failures = n + 1
    BY <1>2 DEF Failed, StepRow
  <2> QED BY <2>1, <2>2, NullAssumption
<1> HIDE DEF row, new
<1>5. /\ \A d \in Steps : step'[d] = IF d = c THEN new ELSE step[d]
      /\ \A q \in Procs : proc'[q] = IF q = p THEN row ELSE proc[q]
  BY <1>1 DEF IInv, TypeOK
<1>6. ASSUME NEW q \in Procs, q # p PROVE BudgetOK(q)'
  <2>1. CountsKept(q)
    BY <1>4, <1>5, <1>6 DEF CountsKept
  <2> QED BY <1>5, <1>6, <2>1, BudgetKept DEF BudgetInv
<1>7. BudgetOK(p)'
  <2>1. /\ IsFiniteSet(Mistakes(p)) /\ proc[p].failures = Cardinality(Mistakes(p))
    BY <1>2 DEF BudgetInv, BudgetOK
  <2>2. <<c, n + 1>> \notin Mistakes(p)
    BY <1>2, MistakePairs
  <2>3. ASSUME NEW d, NEW i
        PROVE  <<d, i>> \in Mistakes(p)' <=> <<d, i>> \in Mistakes(p) \cup {<<c, n + 1>>}
    <3> HIDE DEF n
    <3>1. CASE d = c
      <4>1. <<d, i>> \in Mistakes(p)' <=> i \in 1 .. n + 1
        BY <1>4, <1>5, <3>1, MistakePairsNext
      <4>2. <<d, i>> \in Mistakes(p) <=> i \in 1 .. n
        BY <3>1, MistakePairs DEF n
      <4>3. i \in 1 .. n + 1 <=> i \in 1 .. n \/ i = n + 1
        BY <1>2
      <4> QED BY <3>1, <4>1, <4>2, <4>3
    <3>2. CASE d # c
      BY <1>5, <3>2, MistakePairs, MistakePairsNext
    <3> QED BY <3>1, <3>2
  <2> HIDE DEF n
  <2>4. Mistakes(p)' = Mistakes(p) \cup {<<c, n + 1>>}
    BY <2>3, MistakesArePairs, MistakesArePairsNext
  <2>5. /\ IsFiniteSet(Mistakes(p)')
        /\ Cardinality(Mistakes(p)') = Cardinality(Mistakes(p)) + 1
    <3> DEFINE M == Mistakes(p)
               x == <<c, n + 1>>
    <3>1. IsFiniteSet(M) /\ x \notin M
      BY <2>1, <2>2
    <3> HIDE DEF M, x
    <3>2. IsFiniteSet(M \cup {x}) /\ Cardinality(M \cup {x}) = Cardinality(M) + 1
      BY <3>1, FS_AddElement
    <3> QED BY <2>4, <3>2 DEF M, x
  <2>6. proc'[p] = row
    BY <1>5
  <2> QED BY <1>3, <2>1, <2>5, <2>6, DurationAssumption DEF BudgetOK
<1> QED BY <1>6, <1>7 DEF BudgetInv

\* The budget is kept by every step.
LEMMA BudgetStep ==
    ASSUME IInv, BudgetInv, [Next]_vars
    PROVE  BudgetInv'
<1>a. ASSUME UNCHANGED proc,
             \A d \in Steps : /\ step'[d] # Null <=> step[d] # Null
                              /\ step[d] # Null => /\ step'[d].proc = step[d].proc
                                                   /\ step'[d].failures = step[d].failures
      PROVE  BudgetInv'
  <2>1. ASSUME NEW q \in Procs PROVE CountsKept(q)
    BY <1>a DEF CountsKept
  <2> QED BY <1>a, <2>1, BudgetKept DEF BudgetInv
<1>b. ASSUME UNCHANGED <<proc, step>> PROVE BudgetInv'
  BY <1>a, <1>b
<1>c. ASSUME NEW f \in Flights, flight[f] # Null, flight[f].stage \in {"exchange", "reject"}
      PROVE  flight[f].proc \in Procs /\ flight[f].step \in Steps
  BY <1>c DEF IInv, TypeOK, FlightRow, AttemptCall, LinkCall
<1>1. CASE SessionsNext /\ ~Tick
  BY <1>1, SessionsWithdraw, StepsCascade, WithdrawalKeepsBudget
<1>2. CASE CredentialsNext
  BY <1>2, CredentialsWithdraw, StepsCascade, WithdrawalKeepsBudget
<1>3. CASE Tick \/ UNCHANGED vars
  BY <1>3, <1>b DEF Tick, vars
<1>4. CASE ProcessNext
  <2>1. ASSUME NEW p \in Procs, NEW c \in Steps, NEW a \in Accounts, AttemptAccepted(p, c, a)
        PROVE  BudgetInv'
    BY <2>1, AcceptKeepsBudget DEF AttemptAccepted
  <2>2. ASSUME NEW f \in Flights, NEW a \in Accounts, FinishExchange(f, a)
        PROVE  BudgetInv'
    <3>1. flight[f].proc \in Procs /\ flight[f].step \in Steps
      BY <2>2, <1>c DEF FinishExchange
    <3> QED BY <2>2, <3>1, AcceptKeepsBudget DEF FinishExchange
  <2>3. ASSUME NEW p \in Procs, NEW c \in Steps, AttemptRejected(p, c)
        PROVE  BudgetInv'
    BY <2>3, FailureKeepsBudget DEF AttemptRejected, Open
  <2>4. ASSUME NEW f \in Flights, RejectExchange(f)
        PROVE  BudgetInv'
    <3>1. flight[f].proc \in Procs /\ flight[f].step \in Steps
      BY <2>4, <1>c DEF RejectExchange
    <3> QED BY <2>4, <3>1, FailureKeepsBudget DEF RejectExchange
  <2>5. ASSUME NEW p \in Procs, NEW c \in Steps, BeginExchange(p, c)
        PROVE  BudgetInv'
    <3> DEFINE new == [step[c] EXCEPT !.ticket = "none"]
    <3>1. /\ step[c] # Null /\ UNCHANGED proc
          /\ step' = step \/ step' = [step EXCEPT ![c] = new]
      BY <2>5 DEF BeginExchange, Open
    <3>2. step[c] \in StepRow
      BY <3>1 DEF IInv, TypeOK
    <3>3. new \in StepRow /\ new.proc = step[c].proc /\ new.failures = step[c].failures
      BY <3>2 DEF StepRow
    <3> HIDE DEF new
    <3>4. new # Null
      BY <3>3, NullAssumption
    <3> QED BY <3>1, <3>3, <3>4, <1>a DEF IInv, TypeOK
  <2>6. ASSUME NEW p \in Procs, NEW c \in Steps, BeginRejected(p, c)
        PROVE  BudgetInv'
    BY <2>6, <1>b DEF BeginRejected
  <2>7. ASSUME NEW f \in Flights, ExchangeRefused(f) \/ FlightLost(f)
        PROVE  BudgetInv'
    BY <2>7, <1>b DEF ExchangeRefused, FlightLost
  <2>8. CASE StartSignIn \/ \E s \in Sessions, u \in Purposes : StartSensitive(s, u)
    BY <2>8, StartKeepsBudget
  <2> QED BY <1>4, <2>1, <2>2, <2>3, <2>4, <2>5, <2>6, <2>7, <2>8, ChallengeKeepsBudget
          DEF ProcessNext
<1> QED BY <1>1, <1>2, <1>3, <1>4 DEF Next

\* Failures are counted once each and against the process, so neither a new
\* step nor a provider call that is late buys attempts beyond MaxAttempts
\* (Attempt, AttemptProvider).
THEOREM BudgetTheorem == Spec => []BudgetIsDurable
<1>1. Init => BudgetInv
  BY DEF Init, BudgetInv, BudgetOK
<1>2. BudgetInv => BudgetIsDurable
  BY DEF BudgetInv, BudgetOK, BudgetIsDurable
<1> QED BY <1>1, <1>2, InitInvariant, InductiveStep, BudgetStep, PTL DEF Spec
=============================================================================
