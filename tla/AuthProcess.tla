---------------------------- MODULE AuthProcess ----------------------------
(***************************************************************************)
(* Authentication processes and their steps: Engine.Start,                 *)
(* CreateChallenge, Attempt and AttemptProvider                            *)
(* (internal/authentication/process.go, challenge.go, steps.go, oauth.go). *)
(***************************************************************************)
EXTENDS AuthStore

-----------------------------------------------------------------------------
NewProc(u, a, s) ==
    [purpose |-> u, status |-> "pending", account |-> a, session |-> s,
     exp |-> now + FlowTTL, failures |-> 0, done |-> Null, grant |-> Null,
     invalid |-> FALSE]

\* An anonymous client starts a sign-in.
StartSignIn ==
    /\ "signIn" \in Purposes
    /\ FreeProcs # {}
    /\ LET p == CHOOSE q \in FreeProcs : TRUE
       IN  /\ proc' = [proc EXCEPT ![p] = NewProc("signIn", Null, Null)]
           /\ proof' = [proof EXCEPT ![p] = NoProof]
    /\ UNCHANGED <<now, acct, sess, step, request, flight, epoch>>

\* Session s starts a sensitive process; a recent proof given in the same
\* session completes it at once.
StartSensitive(s, u) ==
    /\ u \in Purposes /\ sensitive(u)
    /\ checkPurposePrincipal(s, u)
    /\ FreeProcs # {}
    /\ LET p == CHOOSE q \in FreeProcs : TRUE
           a == sess[s].account
           row == NewProc(u, a, s)
           q == CHOOSE e \in reusable(a, s) : TRUE
       IN  IF reusable(a, s) = {}
           THEN /\ proc' = [proc EXCEPT ![p] = row]
                /\ proof' = [proof EXCEPT ![p] = [NoProof EXCEPT !.epoch = epoch[a]]]
           ELSE /\ proc' = [proc EXCEPT ![p] = complete(row)]
                /\ proof' = [proof EXCEPT ![p] = [proof[q] EXCEPT !.derived = TRUE]]
    /\ UNCHANGED <<now, acct, sess, step, request, flight, epoch>>

-----------------------------------------------------------------------------
\* The tickets CreateChallenge can store with a step of method m.
Tickets(m) ==
    IF m = "google" THEN {"code", "idToken"}
    ELSE IF m = "vk" THEN {"code"} ELSE {"none"}

MinOf(x, y) == IF x <= y THEN x ELSE y

\* A new step of method m cancels the pending one of the same type.
CreateChallenge(p, m, ticket) ==
    /\ load(p)
    /\ proc[p].status = "pending"
    /\ m \in next(proc[p], step, p)
    /\ ticket \in Tickets(m)
    /\ FreeSteps # {}
    /\ LET c == CHOOSE d \in FreeSteps : TRUE
           new == [proc |-> p, method |-> m, status |-> "pending",
                   exp |-> MinOf(now + ChallengeTTL, proc[p].exp),
                   failures |-> 0, done |-> Null, ticket |-> ticket]
       IN  step' = [d \in Steps |->
                      IF d = c THEN new
                      ELSE IF /\ step[d] # Null /\ step[d].proc = p
                              /\ step[d].method = m /\ step[d].status = "pending"
                           THEN [step[d] EXCEPT !.status = "cancelled"]
                           ELSE step[d]]
    /\ UNCHANGED <<now, acct, sess, proc, request, flight, epoch, proof>>

-----------------------------------------------------------------------------
\* Step c of process p may be attempted now.
Open(p, c) ==
    /\ load(p)
    /\ proc[p].status = "pending"
    /\ step[c] # Null
    /\ step[c].proc = p
    /\ step[c].status = "pending"
    /\ step[c].exp > now
    /\ step[c].method \in next(proc[p], step, p)

\* Mutant: the alternatives stay pending.
cancelAlternatives_Kept(p, c) ==
    [step EXCEPT ![c].status = "completed", ![c].done = now]

\* The steps of p after c is accepted: its alternatives are cancelled.
cancelAlternatives(p, c) ==
    [d \in Steps |->
       IF d = c THEN [step[d] EXCEPT !.status = "completed", !.done = now]
       ELSE IF step[d] # Null /\ step[d].proc = p /\ step[d].status = "pending"
            THEN [step[d] EXCEPT !.status = "cancelled"]
            ELSE step[d]]

\* Step c proves account a to process p; the last factor completes it.
Accept(p, c, a) ==
    LET m   == step[c].method
        st  == cancelAlternatives(p, c)
        row == [proc[p] EXCEPT !.account = a]
    IN  /\ step' = st
        /\ proc' = [proc EXCEPT ![p] =
                      IF next(row, st, p) = {} THEN complete(row) ELSE row]
        /\ proof' = [proof EXCEPT ![p] =
             [epoch   |-> IF m \in FirstFactors THEN epoch[a] ELSE @.epoch,
              first   |-> IF m \in FirstFactors THEN now ELSE @.first,
              second  |-> IF m \in SecondFactors THEN now ELSE @.second,
              derived |-> FALSE]]

\* Mutant: a first factor of any account will do.
Verifiable_AnyAccount(p, m, a) ==
    /\ acct[a] # Null
    /\ m \notin FirstFactors => proc[p].account = a
    /\ \/ m = "password" /\ acct[a].password /\ ~acct[a].blocked
       \/ m = "passkey" /\ acct[a].passkeys # {} /\ ~acct[a].blocked
       \/ m = "totp" /\ acct[a].totp
       \/ m = "backupCode" /\ acct[a].codes > 0
       \/ m \in OAuth /\ m \in acct[a].identities /\ ~acct[a].blocked

\* Mutant: a backup code is accepted though none is left to delete.
Verifiable_SpentCode(p, m, a) ==
    /\ acct[a] # Null
    /\ sensitive(proc[p].purpose) \/ m \notin FirstFactors => proc[p].account = a
    /\ \/ m = "password" /\ acct[a].password /\ ~acct[a].blocked
       \/ m = "passkey" /\ acct[a].passkeys # {} /\ ~acct[a].blocked
       \/ m \in {"totp", "backupCode"} /\ acct[a].totp
       \/ m \in OAuth /\ m \in acct[a].identities /\ ~acct[a].blocked

\* Account a can pass method m in process p.  A sensitive process accepts its
\* own account only; a second factor is looked up for the account already
\* proved.
Verifiable(p, m, a) ==
    /\ acct[a] # Null
    /\ sensitive(proc[p].purpose) \/ m \notin FirstFactors => proc[p].account = a
    /\ \/ m = "password" /\ acct[a].password /\ ~acct[a].blocked
       \/ m = "passkey" /\ acct[a].passkeys # {} /\ ~acct[a].blocked
       \/ m = "totp" /\ acct[a].totp
       \/ m = "backupCode" /\ acct[a].codes > 0
       \/ m \in OAuth /\ m \in acct[a].identities /\ ~acct[a].blocked

\* A backup code is deleted when it is accepted.
SpendCode(m, a) ==
    acct' = IF m = "backupCode" THEN [acct EXCEPT ![a].codes = @ - 1] ELSE acct

\* Engine.Attempt with a valid proof.
AttemptAccepted(p, c, a) ==
    /\ Open(p, c)
    /\ step[c].method \notin OAuth
    /\ Verifiable(p, step[c].method, a)
    /\ Accept(p, c, a)
    /\ SpendCode(step[c].method, a)
    /\ UNCHANGED <<now, sess, request, flight, epoch>>

\* Mutant: one attempt too many.
Failed_Late(row) ==
    [row EXCEPT !.failures = @ + 1,
                !.status = IF row.failures >= MaxAttempts THEN "failed" ELSE @]

\* A row of either table after one more failure.
Failed(row) ==
    [row EXCEPT !.failures = @ + 1,
                !.status = IF row.failures + 1 >= MaxAttempts THEN "failed" ELSE @]

\* A wrong proof is counted on the process and on the step.
CountFailure(p, c) ==
    /\ proc' = [proc EXCEPT ![p] = Failed(proc[p])]
    /\ step' = [step EXCEPT ![c] = Failed(step[c])]

\* Engine.Attempt with a wrong proof (ErrCredentials).
AttemptRejected(p, c) ==
    /\ Open(p, c)
    /\ step[c].method \notin OAuth
    /\ CountFailure(p, c)
    /\ UNCHANGED <<now, acct, sess, request, flight, epoch, proof>>

-----------------------------------------------------------------------------
(***************************************************************************)
(* AttemptProvider is three transactions with the provider's network call  *)
(* between the first and the second.                                       *)
(***************************************************************************)
Takeoff(stage, p, c) ==
    LET f == CHOOSE g \in FreeFlights : TRUE
    IN  flight' = [flight EXCEPT ![f] =
          [stage |-> stage, proc |-> p, step |-> c, session |-> Null,
           provider |-> step[c].method]]

\* First transaction: an OAuth state is deleted, an ID token's nonce is read.
BeginExchange(p, c) ==
    /\ Open(p, c)
    /\ step[c].method \in Providers
    /\ step[c].ticket # "none"
    /\ FreeFlights # {}
    /\ Takeoff("exchange", p, c)
    /\ step' = IF step[c].ticket = "code"
               THEN [step EXCEPT ![c].ticket = "none"] ELSE step
    /\ UNCHANGED <<now, acct, sess, proc, request, epoch, proof>>

\* First transaction with a state that is unknown or already used.
BeginRejected(p, c) ==
    /\ Open(p, c)
    /\ step[c].method \in Providers
    /\ FreeFlights # {}
    /\ Takeoff("reject", p, c)
    /\ UNCHANGED <<now, acct, sess, proc, step, request, epoch, proof>>

\* Second transaction: everything is checked again, then accepted.  The
\* account is the one the provider's subject is linked to by then.  A
\* sensitive purpose needs a fresh auth_time, which VK never asserts; with a
\* stale one of Google's the call ends as in FlightLost.
FinishExchange(f, a) ==
    /\ flight[f] # Null /\ flight[f].stage = "exchange"
    /\ Open(flight[f].proc, flight[f].step)
    /\ sensitive(proc[flight[f].proc].purpose) => flight[f].provider # "vk"
    /\ Verifiable(flight[f].proc, step[flight[f].step].method, a)
    /\ Accept(flight[f].proc, flight[f].step, a)
    /\ flight' = [flight EXCEPT ![f] = Null]
    /\ UNCHANGED <<now, acct, sess, request, epoch>>

\* The provider's answer is no proof: wrong nonce, no linked account.
ExchangeRefused(f) ==
    /\ flight[f] # Null /\ flight[f].stage = "exchange"
    /\ flight' = [flight EXCEPT ![f].stage = "reject"]
    /\ UNCHANGED <<now, acct, sess, proc, step, request, epoch, proof>>

\* Mutant: the failure is counted whatever became of the process meanwhile.
RejectExchange_Unchecked(f) ==
    /\ flight[f] # Null /\ flight[f].stage = "reject"
    /\ LET p == flight[f].proc
           c == flight[f].step
       IN  /\ load(p)
           /\ step[c] # Null /\ step[c].proc = p
           /\ CountFailure(p, c)
    /\ flight' = [flight EXCEPT ![f] = Null]
    /\ UNCHANGED <<now, acct, sess, request, epoch, proof>>

\* Third transaction: the failure is counted if process and step are still
\* pending.  It does not ask whether the step expired meanwhile.
RejectExchange(f) ==
    /\ flight[f] # Null /\ flight[f].stage = "reject"
    /\ LET p == flight[f].proc
           c == flight[f].step
       IN  /\ load(p) /\ proc[p].status = "pending"
           /\ step[c] # Null /\ step[c].proc = p /\ step[c].status = "pending"
           /\ CountFailure(p, c)
    /\ flight' = [flight EXCEPT ![f] = Null]
    /\ UNCHANGED <<now, acct, sess, request, epoch, proof>>

\* The call ends without a further transaction: the provider fails, a check
\* of the second or third transaction refuses, or the server crashes.
FlightLost(f) ==
    /\ flight[f] # Null
    /\ flight' = [flight EXCEPT ![f] = Null]
    /\ UNCHANGED <<now, acct, sess, proc, step, request, epoch, proof>>

ProcessNext ==
    \/ StartSignIn
    \/ \E s \in Sessions, u \in Purposes : StartSensitive(s, u)
    \/ \E p \in Procs, m \in Methods, t \in {"none", "code", "idToken"} :
         CreateChallenge(p, m, t)
    \/ \E p \in Procs, c \in Steps, a \in Accounts : AttemptAccepted(p, c, a)
    \/ \E p \in Procs, c \in Steps :
         AttemptRejected(p, c) \/ BeginExchange(p, c) \/ BeginRejected(p, c)
    \/ \E f \in Flights, a \in Accounts : FinishExchange(f, a)
    \/ \E f \in Flights :
         ExchangeRefused(f) \/ RejectExchange(f) \/ FlightLost(f)
=============================================================================
