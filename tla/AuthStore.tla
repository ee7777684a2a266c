----------------------------- MODULE AuthStore -----------------------------
(***************************************************************************)
(* The PostgreSQL tables behind the authentication engine                  *)
(* (schema/initial.sql) and the checks every transaction shares            *)
(* (internal/authentication/process.go, sessions.go, account.go).          *)
(*                                                                         *)
(* Engine.begin takes one advisory lock for the whole transaction, so a    *)
(* transaction of the engine is one action of the model.  A transaction    *)
(* that returns an error is rolled back and changes nothing: it is a       *)
(* stuttering step.  A secret (flow token, grant, OAuth state) is          *)
(* unguessable, so it is represented by the row that stores its hash.      *)
(***************************************************************************)
EXTENDS Integers, FiniteSets

CONSTANTS
    Accounts,       \* account ids
    Sessions,       \* session ids
    Procs,          \* authentication (process) ids
    Steps,          \* authentication step (challenge) ids
    Requests,       \* ids of enrolment requests (TOTP, passkey, identity link)
    Flights,        \* provider calls that can be outstanding at once
    Passkeys,       \* passkey credentials a user can register
    Configured,     \* the optional factors the deployment configures
    Purposes,       \* the purposes clients ask for
    Initial,        \* the account rows that exist at the start
    Opened,         \* the sessions that are open at the start
    Forgetful,      \* accounts whose owners ask for a password reset
    Blockable,      \* accounts an operator may block
    Refreshing,     \* sessions whose clients refresh them
    Null            \* SQL NULL, and "no such row"

CONSTANTS
    FlowTTL, ChallengeTTL, GrantTTL, ReuseTTL,  \* Engine's durations
    SessionTTL,     \* lifetime of a refresh token
    RequestTTL,     \* lifetime of an enrolment request or a mailed token
    DeletionDelay,  \* grace period of an account deletion
    MaxAttempts,    \* failed proofs that end a process or a step
    BackupCodes     \* codes generated at once

CONSTANTS
    MaxTime,        \* bound: the clock stops here
    MaxChanges      \* bound: credential changes of one account

FirstFactors  == {"password", "google", "vk", "passkey"}
SecondFactors == {"totp", "backupCode", "passkey"}
Methods       == FirstFactors \cup SecondFactors
OAuth         == {"google", "vk"}
Providers     == Configured \cap OAuth

SensitivePurposes ==
    {"passwordChange", "accountDeletion", "totpEnrollment", "totpRemoval",
     "passkeyEnrollment", "passkeyRemoval", "backupCodesRotation",
     "identityLink", "identityUnlink", "emailChange"}

Time == Nat

\* email_change_requests: the mailbox whose answer is awaited, the previous
\* one ("old") and then the one asked for ("new").
ChangeRow == [stage : {"old", "new"}, exp : Time]

(***************************************************************************)
(* A row of accounts, joined with the tables that have at most one row per *)
(* account: totp, account_deletion_requests, password_reset_requests,      *)
(* email_change_requests, and with its passkeys, identities and the number *)
(* of its backup codes.                                                    *)
(***************************************************************************)
AccountRow ==
    [password : BOOLEAN, totp : BOOLEAN, codes : Nat,
     passkeys : SUBSET Passkeys, identities : SUBSET OAuth,
     blocked : BOOLEAN, deletion : Time \cup {Null}, reset : Time \cup {Null},
     change : ChangeRow \cup {Null}]

SessionRow == [account : Accounts, exp : Time]

\* grant is confirmation_expiration_timestamp, NULL together with the token.
ProcRow ==
    [purpose : Purposes, status : {"pending", "completed", "failed"},
     account : Accounts \cup {Null}, session : Sessions \cup {Null},
     exp : Time, failures : Nat, done : Time \cup {Null},
     grant : Time \cup {Null}, invalid : BOOLEAN]

\* ticket is the one-time OAuth state ("code") or the reusable nonce
\* ("idToken") that CreateChallenge stored for a provider step.
StepRow ==
    [proc : Procs, method : Methods,
     status : {"pending", "completed", "failed", "cancelled"},
     exp : Time, failures : Nat, done : Time \cup {Null},
     ticket : {"none", "code", "idToken"}]

\* totp_activation_requests, passkey_registration_requests and the
\* oauth_requests of a session.
RequestRow ==
    [kind : {"totp", "passkey", "google", "vk"}, session : Sessions, exp : Time]

\* A provider call under way, outside every transaction: the attempt of a
\* step ("exchange", then "reject" once the proof is known to be wrong), or
\* the linking of an identity by a session ("link").
AttemptCall ==
    [stage : {"exchange", "reject"}, proc : Procs, step : Steps,
     session : {Null}, provider : OAuth]
LinkCall ==
    [stage : {"link"}, proc : {Null}, step : {Null}, session : Sessions,
     provider : OAuth]
FlightRow == AttemptCall \cup LinkCall

\* Ghost: what a process really rests on.  epoch is the account's credential
\* epoch when the process started (sensitive) or took its first factor; first
\* and second are the times of the proofs; derived says that they were given
\* to another process.
Proof ==
    [epoch : Nat, first : Time \cup {Null}, second : Time \cup {Null},
     derived : BOOLEAN]

ASSUME NullAssumption ==
    /\ Null \notin Accounts /\ Null \notin Sessions /\ Null \notin Procs
    /\ Null \notin Steps
    /\ Null \notin Nat
    /\ Null \notin AccountRow /\ Null \notin SessionRow /\ Null \notin ProcRow
    /\ Null \notin StepRow /\ Null \notin RequestRow /\ Null \notin FlightRow
    /\ Null \notin ChangeRow

ASSUME ConfigAssumption ==
    /\ Configured \subseteq {"google", "vk", "passkey"}
    /\ Purposes \subseteq SensitivePurposes \cup {"signIn"}
    /\ Initial \subseteq AccountRow
    /\ \A r \in Initial :
         r.password \/ r.passkeys # {} \/ r.identities # {}

ASSUME DurationAssumption ==
    /\ FlowTTL \in Nat /\ ChallengeTTL \in Nat /\ GrantTTL \in Nat
    /\ ReuseTTL \in Nat /\ SessionTTL \in Nat /\ RequestTTL \in Nat
    /\ DeletionDelay \in Nat /\ MaxAttempts \in Nat \ {0}
    /\ BackupCodes \in Nat /\ MaxTime \in Nat /\ MaxChanges \in Nat

VARIABLES
    now,        \* Engine.Now
    acct,       \* accounts
    sess,       \* sessions
    proc,       \* authentications
    step,       \* authentication_steps and the ticket of a provider step
    request,    \* enrolment requests
    flight,     \* provider calls under way (not in the database)
    epoch,      \* ghost: credential changes of each account so far
    proof       \* ghost: what each process rests on

vars == <<now, acct, sess, proc, step, request, flight, epoch, proof>>

NoProof == [epoch |-> 0, first |-> Null, second |-> Null, derived |-> FALSE]

\* Every row is one of its table; the number of backup codes left is never
\* negative, so verify accepts no code after the last was deleted.
TypeOK ==
    /\ now \in Time
    /\ acct \in [Accounts -> AccountRow \cup {Null}]
    /\ sess \in [Sessions -> SessionRow \cup {Null}]
    /\ proc \in [Procs -> ProcRow \cup {Null}]
    /\ step \in [Steps -> StepRow \cup {Null}]
    /\ request \in [Requests -> RequestRow \cup {Null}]
    /\ flight \in [Flights -> FlightRow \cup {Null}]
    /\ epoch \in [Accounts -> Nat]
    /\ proof \in [Procs -> Proof]

Init ==
    /\ now = 0
    /\ acct \in [Accounts -> Initial]
    /\ \A a, b \in Accounts :
         a # b => acct[a].passkeys \cap acct[b].passkeys = {}
    /\ sess \in [Sessions -> {Null} \cup
                   [account : Accounts, exp : {SessionTTL}]]
    /\ \A s \in Sessions : sess[s] # Null <=> s \in Opened
    /\ proc = [p \in Procs |-> Null]
    /\ step = [c \in Steps |-> Null]
    /\ request = [r \in Requests |-> Null]
    /\ flight = [f \in Flights |-> Null]
    /\ epoch = [a \in Accounts |-> 0]
    /\ proof = [p \in Procs |-> NoProof]

-----------------------------------------------------------------------------
(***************************************************************************)
(* Fresh identifiers.  The database and uuid.New never repeat one, so an   *)
(* identifier a provider call still holds is not given out again.          *)
(***************************************************************************)
FreeProcs ==
    {p \in Procs : proc[p] = Null
                   /\ \A f \in Flights : flight[f] = Null \/ flight[f].proc # p}
FreeSteps ==
    {c \in Steps : step[c] = Null
                   /\ \A f \in Flights : flight[f] = Null \/ flight[f].step # c}
FreeSessions ==
    {s \in Sessions : sess[s] = Null
                   /\ \A f \in Flights : flight[f] = Null \/ flight[f].session # s}
FreeRequests == {r \in Requests : request[r] = Null}
FreeFlights  == {f \in Flights : flight[f] = Null}

-----------------------------------------------------------------------------
sensitive(u) == u # "signIn"

checkSession(s) == sess[s] # Null /\ sess[s].exp > now

checkRecoveryPrincipal(s) == checkSession(s) /\ ~acct[sess[s].account].blocked

\* Mutant: a pending deletion does not restrict the session.
checkPrincipal_Deleting(s) == checkRecoveryPrincipal(s)

checkPrincipal(s) ==
    checkRecoveryPrincipal(s) /\ acct[sess[s].account].deletion = Null

checkPurposePrincipal(s, u) ==
    IF u = "accountDeletion" THEN checkRecoveryPrincipal(s)
                             ELSE checkPrincipal(s)

\* The row a client that holds the flow token (and, for a sensitive purpose,
\* acts in the session that started it) can load.
load(p) ==
    /\ proc[p] # Null
    /\ ~proc[p].invalid
    /\ proc[p].exp > now
    /\ sensitive(proc[p].purpose) =>
         /\ checkPurposePrincipal(proc[p].session, proc[p].purpose)
         /\ sess[proc[p].session].account = proc[p].account

\* Some step of p among methods F is completed in step table st.
Proved(st, p, F) ==
    \E c \in Steps : /\ st[c] # Null
                     /\ st[c].proc = p
                     /\ st[c].status = "completed"
                     /\ st[c].method \in F

\* Mutant: only a sign-in asks for the second factor.
next_SignInTotp(row, st, p) ==
    IF row.status # "pending" THEN {}
    ELSE IF ~Proved(st, p, FirstFactors) THEN {"password"} \cup Configured
    ELSE IF /\ row.purpose = "signIn" /\ acct[row.account].totp
            /\ ~Proved(st, p, SecondFactors)
         THEN {"totp", "backupCode"}
         ELSE {}

\* The methods that process p, with row row, accepts next.
next(row, st, p) ==
    IF row.status # "pending" THEN {}
    ELSE IF ~Proved(st, p, FirstFactors) THEN {"password"} \cup Configured
    ELSE IF acct[row.account].totp /\ ~Proved(st, p, SecondFactors)
         THEN {"totp", "backupCode"}
         ELSE {}

\* A completed step of process q among F is inside the reuse window.
Recent(q, F) ==
    \E c \in Steps : /\ step[c] # Null
                     /\ step[c].proc = q
                     /\ step[c].status = "completed"
                     /\ step[c].method \in F
                     /\ step[c].done > now - ReuseTTL

\* Mutant: the age of the process counts, not the age of its proofs.
reusable_Sliding(a, s) ==
    {q \in Procs : /\ proc[q] # Null
                   /\ proc[q].account = a
                   /\ proc[q].session = s
                   /\ proc[q].status = "completed"
                   /\ ~proc[q].invalid
                   /\ proc[q].done > now - ReuseTTL}

\* The processes whose proofs session s of account a may reuse.
reusable(a, s) ==
    {q \in Procs : /\ proc[q] # Null
                   /\ proc[q].account = a
                   /\ proc[q].session = s
                   /\ proc[q].status = "completed"
                   /\ ~proc[q].invalid
                   /\ Recent(q, FirstFactors)
                   /\ ~acct[a].totp \/ Recent(q, SecondFactors)}

\* The row after Engine.complete: a grant is issued.
complete(row) ==
    [row EXCEPT !.status = "completed", !.done = now, !.grant = now + GrantTTL]

\* The grant of p authorises purpose u.
Consumable(p, u) ==
    /\ proc[p] # Null
    /\ proc[p].purpose = u
    /\ proc[p].status = "completed"
    /\ ~proc[p].invalid
    /\ proc[p].grant # Null
    /\ proc[p].grant > now
    /\ sensitive(u) =>
         /\ checkPurposePrincipal(proc[p].session, u)
         /\ sess[proc[p].session].account = proc[p].account
    /\ ~acct[proc[p].account].blocked

\* authentications after ConsumeGrant took p's grant.
Consumed(ps, p) == [ps EXCEPT ![p].grant = Null]

\* Mutant: processes that are still pending are forgotten.
invalidate_Completed(ps, a) ==
    [p \in Procs |->
        IF ps[p] # Null /\ ps[p].account = a /\ ps[p].status = "completed"
        THEN [ps[p] EXCEPT !.invalid = TRUE, !.grant = Null]
        ELSE ps[p]]

\* authentications after Engine.invalidate(a).
invalidate(ps, a) ==
    [p \in Procs |->
        IF ps[p] # Null /\ ps[p].account = a /\ ~ps[p].invalid
        THEN [ps[p] EXCEPT !.invalid = TRUE, !.grant = Null]
        ELSE ps[p]]

-----------------------------------------------------------------------------
(***************************************************************************)
(* ON DELETE CASCADE.                                                      *)
(***************************************************************************)
SessionsOf(a) == {s \in Sessions : sess[s] # Null /\ sess[s].account = a}

WithoutSessions(ps, D) ==
    [p \in Procs |-> IF ps[p] # Null /\ ps[p].session \in D
                     THEN Null ELSE ps[p]]

\* Deletes sessions D and what refers to them; ps is the authentications
\* table the transaction has reached so far.
DeleteSessions(ps, D) ==
    /\ sess' = [s \in Sessions |-> IF s \in D THEN Null ELSE sess[s]]
    /\ proc' = WithoutSessions(ps, D)

\* Steps follow their process, and ghosts forget a deleted one.
CascadeSteps ==
    /\ step' = [c \in Steps |->
                  IF step[c] # Null /\ proc'[step[c].proc] = Null
                  THEN Null ELSE step[c]]
    /\ proof' = [p \in Procs |-> IF proc'[p] = Null THEN NoProof ELSE proof[p]]

\* Requests rq after those of a deleted session are gone.
WithSession(rq) ==
    [r \in Requests |-> IF rq[r] # Null /\ sess'[rq[r].session] = Null
                        THEN Null ELSE rq[r]]

\* Ghost: the credentials of account a change.
CredentialChange(a) ==
    /\ epoch[a] < MaxChanges
    /\ epoch' = [epoch EXCEPT ![a] = @ + 1]
=============================================================================
