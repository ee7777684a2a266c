------------------------------- MODULE SignUp ------------------------------
(***************************************************************************)
(* Who owns an e-mail address: sign-up (the signUp purpose of process.go,  *)
(* challenge.go and steps.go) and the two-stage change of an account's     *)
(* address (mail.go), over the accounts they compete for.                  *)
(*                                                                         *)
(* As in AuthStore, a transaction of the engine is one action and a        *)
(* refused one changes nothing.  A step that was replaced is cancelled for *)
(* ever, so of each type only the latest step of a flow is kept.           *)
(***************************************************************************)
EXTENDS Integers

CONSTANTS
    Accounts,       \* account ids
    Emails,         \* addresses, normalised and valid
    Flows,          \* authentication ids of sign-ups
    Owned,          \* the accounts that exist at the start, with their addresses
    Null,           \* SQL NULL, and "no such row"
    FlowTTL, ChallengeTTL, GrantTTL, ReuseTTL, RequestTTL,
    MaxAttempts,    \* failed proofs that end a process or a step
    MaxTime         \* bound: the clock stops here

SignUpMethods == {"registration", "email", "passwordSetup"}
Time == Nat

FlowRow ==
    [status : {"pending", "completed", "failed"}, exp : Time, failures : Nat,
     account : Accounts \cup {Null}, done : Time \cup {Null},
     grant : Time \cup {Null}]

\* registrations.
Registration == [email : Emails, password : BOOLEAN]

\* authentication_steps with email_authentication_steps: to is the mailbox
\* that the code was sent to.
SignUpStep ==
    [status : {"pending", "completed", "failed", "cancelled"}, exp : Time,
     failures : Nat, to : Emails \cup {Null}]

\* email_change_requests.
ChangeRow ==
    [previous : Emails, email : Emails,
     stage : {"awaiting_previous_email", "awaiting_new_email"}, exp : Time]

ASSUME SignUpAssumption ==
    /\ Null \notin Accounts /\ Null \notin Emails /\ Null \notin Nat
    /\ Null \notin FlowRow /\ Null \notin Registration
    /\ Null \notin SignUpStep /\ Null \notin ChangeRow
    /\ Owned \in [Accounts -> Emails \cup {Null}]
    /\ \A a, b \in Accounts : Owned[a] = Owned[b] /\ Owned[a] # Null => a = b
    /\ FlowTTL \in Nat /\ ChallengeTTL \in Nat /\ GrantTTL \in Nat
    /\ ReuseTTL \in Nat /\ RequestTTL \in Nat /\ MaxTime \in Nat
    /\ MaxAttempts \in Nat \ {0}

VARIABLES
    now,
    email,      \* accounts.email, Null without a row
    flow,       \* authentications of purpose signUp
    reg,        \* registrations
    step,       \* the latest step of each flow and type
    change,     \* email_change_requests
    born,       \* ghost: account ids that were ever used
    answered,   \* ghost: mailboxes whose code was entered in a flow
    proved,     \* ghost: mailboxes that were answered to get account a's address
    confirmed   \* ghost: mailboxes that have answered a's change request

signUpVars ==
    <<now, email, flow, reg, step, change, born, answered, proved, confirmed>>

SignUpTypeOK ==
    /\ now \in Time
    /\ email \in [Accounts -> Emails \cup {Null}]
    /\ flow \in [Flows -> FlowRow \cup {Null}]
    /\ reg \in [Flows -> Registration \cup {Null}]
    /\ step \in [Flows -> [SignUpMethods -> SignUpStep \cup {Null}]]
    /\ change \in [Accounts -> ChangeRow \cup {Null}]
    /\ born \in SUBSET Accounts
    /\ answered \in [Flows -> SUBSET Emails]
    /\ proved \in [Accounts -> SUBSET Emails]
    /\ confirmed \in [Accounts -> SUBSET Emails]

NoSteps == [m \in SignUpMethods |-> Null]

SignUpInit ==
    /\ now = 0
    /\ email = Owned
    /\ flow = [p \in Flows |-> Null]
    /\ reg = [p \in Flows |-> Null]
    /\ step = [p \in Flows |-> NoSteps]
    /\ change = [a \in Accounts |-> Null]
    /\ born = {a \in Accounts : Owned[a] # Null}
    /\ answered = [p \in Flows |-> {}]
    /\ proved = [a \in Accounts |-> {Owned[a]} \ {Null}]
    /\ confirmed = [a \in Accounts |-> {}]

-----------------------------------------------------------------------------
\* An anonymous client starts a sign-up; only the purpose is given.
Start(p) ==
    /\ flow[p] = Null
    /\ flow' = [flow EXCEPT ![p] =
         [status |-> "pending", exp |-> now + FlowTTL, failures |-> 0,
          account |-> Null, done |-> Null, grant |-> Null]]
    /\ answered' = [answered EXCEPT ![p] = {}]
    /\ UNCHANGED <<now, email, reg, step, change, born, proved, confirmed>>

Done(p, m) == step[p][m] # Null /\ step[p][m].status = "completed"

\* The one step a sign-up accepts next.
next(p) ==
    IF flow[p].status # "pending" THEN {}
    ELSE IF reg[p] = Null THEN {"registration"}
    ELSE IF ~Done(p, "email") THEN {"email"}
    ELSE IF ~Done(p, "passwordSetup") THEN {"passwordSetup"} ELSE {}

load(p) == flow[p] # Null /\ flow[p].exp > now

EarlierOf(x, y) == IF x <= y THEN x ELSE y

\* A new step replaces the pending one of its type.  The code goes to the
\* address of the registration.
CreateChallenge(p, m) ==
    /\ load(p)
    /\ m \in next(p)
    /\ step' = [step EXCEPT ![p][m] =
         [status |-> "pending", exp |-> EarlierOf(now + ChallengeTTL, flow[p].exp),
          failures |-> 0, to |-> IF m = "email" THEN reg[p].email ELSE Null]]
    /\ UNCHANGED <<now, email, flow, reg, change, born, answered, proved, confirmed>>

Open(p, m) ==
    /\ load(p)
    /\ m \in next(p)
    /\ step[p][m] # Null
    /\ step[p][m].status = "pending"
    /\ step[p][m].exp > now

\* Steps of p after the one of type m is accepted: the others are cancelled.
Accepted(p, m) ==
    [step EXCEPT ![p] = [n \in SignUpMethods |->
       IF n = m THEN [step[p][n] EXCEPT !.status = "completed"]
       ELSE IF step[p][n] # Null /\ step[p][n].status = "pending"
            THEN [step[p][n] EXCEPT !.status = "cancelled"]
            ELSE step[p][n]]]

\* registrationAvailable, and the check of register.
Taken(e) == \E a \in Accounts : email[a] = e

\* The sign-up ends and its registration rg forgets the password.
failRegistration(p, rg) ==
    /\ flow' = [flow EXCEPT ![p].status = "failed"]
    /\ reg' = [rg EXCEPT ![p].password = FALSE]

\* Mutant: whether the address is taken shows before it is proved.
AttemptRegistration_Discloses(p, e) ==
    /\ Open(p, "registration")
    /\ LET rg == [reg EXCEPT ![p] = [email |-> e, password |-> FALSE]]
       IN  IF Taken(e) THEN failRegistration(p, rg)
                       ELSE reg' = rg /\ UNCHANGED flow
    /\ step' = Accepted(p, "registration")
    /\ UNCHANGED <<now, email, change, born, answered, proved, confirmed>>

AttemptRegistration(p, e) ==
    /\ Open(p, "registration")
    /\ reg' = [reg EXCEPT ![p] = [email |-> e, password |-> FALSE]]
    /\ step' = Accepted(p, "registration")
    /\ UNCHANGED <<now, email, flow, change, born, answered, proved, confirmed>>

\* The mailed code proves the address; if it has an account, that is told now
\* and the sign-up ends.
AttemptEmail(p) ==
    /\ Open(p, "email")
    /\ step' = Accepted(p, "email")
    /\ answered' = [answered EXCEPT ![p] = @ \cup {step[p]["email"].to}]
    /\ IF Taken(reg[p].email) THEN failRegistration(p, reg)
                              ELSE UNCHANGED <<flow, reg>>
    /\ UNCHANGED <<now, email, change, born, proved, confirmed>>

\* A row of either table after one more failure.
Failed(row) ==
    [row EXCEPT !.failures = @ + 1,
                !.status = IF row.failures + 1 >= MaxAttempts THEN "failed" ELSE @]

\* A wrong code is counted on the process and on the step.
AttemptRejected(p) ==
    /\ Open(p, "email")
    /\ flow' = [flow EXCEPT ![p] = Failed(flow[p])]
    /\ step' = [step EXCEPT ![p]["email"] = Failed(step[p]["email"])]
    /\ UNCHANGED <<now, email, reg, change, born, answered, proved, confirmed>>

\* Engine.register and complete: the account, its password and the grant come
\* together, and the registration goes.
register(p, a) ==
    /\ a \notin born
    /\ email' = [email EXCEPT ![a] = reg[p].email]
    /\ born' = born \cup {a}
    /\ proved' = [proved EXCEPT ![a] = answered[p]]
    /\ reg' = [reg EXCEPT ![p] = Null]
    /\ flow' = [flow EXCEPT ![p].status = "completed", ![p].account = a,
                            ![p].done = now, ![p].grant = now + GrantTTL]

\* Mutant: the address is not checked again.
AttemptPassword_Unchecked(p, a) ==
    /\ Open(p, "passwordSetup")
    /\ step' = Accepted(p, "passwordSetup")
    /\ register(p, a)
    /\ UNCHANGED <<now, change, answered, confirmed>>

\* The password finishes the sign-up, unless the address was taken meanwhile.
AttemptPassword(p, a) ==
    /\ Open(p, "passwordSetup")
    /\ step' = Accepted(p, "passwordSetup")
    /\ IF Taken(reg[p].email)
       THEN /\ failRegistration(p, [reg EXCEPT ![p].password = TRUE])
            /\ UNCHANGED <<email, born, proved>>
       ELSE register(p, a)
    /\ UNCHANGED <<now, change, answered, confirmed>>

\* The grant of a finished sign-up buys one session.
CreateSession(p) ==
    /\ flow[p] # Null
    /\ flow[p].status = "completed"
    /\ flow[p].grant # Null /\ flow[p].grant > now
    /\ flow' = [flow EXCEPT ![p].grant = Null]
    /\ UNCHANGED <<now, email, reg, step, change, born, answered, proved, confirmed>>

-----------------------------------------------------------------------------
\* Mutant: the new address alone confirms.
ChangeEmail_New(a, e) ==
    /\ email[a] # Null /\ email[a] # e
    /\ change[a] = Null
    /\ change' = [change EXCEPT ![a] =
         [previous |-> email[a], email |-> e, stage |-> "awaiting_new_email",
          exp |-> now + RequestTTL]]
    /\ confirmed' = [confirmed EXCEPT ![a] = {}]
    /\ UNCHANGED <<now, email, flow, reg, step, born, answered, proved>>

\* Asked for with a grant of purpose emailChange.  A request that is there,
\* even an expired one, is in the way.  Nobody asks whether e is taken.
ChangeEmail(a, e) ==
    /\ email[a] # Null /\ email[a] # e
    /\ change[a] = Null
    /\ change' = [change EXCEPT ![a] =
         [previous |-> email[a], email |-> e, stage |-> "awaiting_previous_email",
          exp |-> now + RequestTTL]]
    /\ confirmed' = [confirmed EXCEPT ![a] = {}]
    /\ UNCHANGED <<now, email, flow, reg, step, born, answered, proved>>

\* Mutant: the previous address alone confirms.
ConfirmPrevious_Direct(a) ==
    /\ change[a] # Null
    /\ change[a].stage = "awaiting_previous_email"
    /\ change[a].exp > now
    /\ ~Taken(change[a].email)
    /\ email' = [email EXCEPT ![a] = change[a].email]
    /\ change' = [change EXCEPT ![a] = Null]
    /\ confirmed' = [confirmed EXCEPT ![a] = @ \cup {change[a].previous}]
    /\ proved' = [proved EXCEPT ![a] = confirmed'[a]]
    /\ UNCHANGED <<now, flow, reg, step, born, answered>>

\* The token mailed to the previous address: a new one goes to the new address.
ConfirmPrevious(a) ==
    /\ change[a] # Null
    /\ change[a].stage = "awaiting_previous_email"
    /\ change[a].exp > now
    /\ change' = [change EXCEPT ![a].stage = "awaiting_new_email",
                                ![a].exp = now + RequestTTL]
    /\ confirmed' = [confirmed EXCEPT ![a] = @ \cup {change[a].previous}]
    /\ UNCHANGED <<now, email, flow, reg, step, born, answered, proved>>

\* The token mailed to the new address: unless it was taken meanwhile the
\* account gets it, and the proofs of the account are invalidated.
ConfirmNew(a) ==
    /\ change[a] # Null
    /\ change[a].stage = "awaiting_new_email"
    /\ change[a].exp > now
    /\ email[a] = change[a].previous
    /\ ~Taken(change[a].email)
    /\ email' = [email EXCEPT ![a] = change[a].email]
    /\ change' = [change EXCEPT ![a] = Null]
    /\ flow' = [p \in Flows |-> IF flow[p] # Null /\ flow[p].account = a
                                THEN [flow[p] EXCEPT !.grant = Null] ELSE flow[p]]
    /\ confirmed' = [confirmed EXCEPT ![a] = @ \cup {change[a].email}]
    /\ proved' = [proved EXCEPT ![a] = confirmed'[a]]
    /\ UNCHANGED <<now, reg, step, born, answered>>

-----------------------------------------------------------------------------
\* Flows D go, and with them what refers to them.
DropFlows(D) ==
    /\ flow' = [p \in Flows |-> IF p \in D THEN Null ELSE flow[p]]
    /\ reg' = [p \in Flows |-> IF p \in D THEN Null ELSE reg[p]]
    /\ step' = [p \in Flows |-> IF p \in D THEN NoSteps ELSE step[p]]

\* An account goes (its deadline is AuthSessions' matter) and frees its address.
DeleteAccount(a) ==
    /\ email[a] # Null
    /\ email' = [email EXCEPT ![a] = Null]
    /\ change' = [change EXCEPT ![a] = Null]
    /\ DropFlows({p \in Flows : flow[p] # Null /\ flow[p].account = a})
    /\ UNCHANGED <<now, born, answered, proved, confirmed>>

Stale(a) == change[a] # Null /\ change[a].exp < now

\* Mutant: change requests are forgotten.
Cleanup_Keeps ==
    /\ DropFlows({p \in Flows : flow[p] # Null /\ flow[p].exp < now
         /\ (flow[p].done = Null \/ flow[p].done < now - ReuseTTL)
         /\ (flow[p].grant = Null \/ flow[p].grant < now)})
    /\ UNCHANGED <<now, email, change, born, answered, proved, confirmed>>

Cleanup ==
    /\ change' = [a \in Accounts |-> IF Stale(a) THEN Null ELSE change[a]]
    /\ DropFlows({p \in Flows : flow[p] # Null /\ flow[p].exp < now
         /\ (flow[p].done = Null \/ flow[p].done < now - ReuseTTL)
         /\ (flow[p].grant = Null \/ flow[p].grant < now)})
    /\ UNCHANGED <<now, email, born, answered, proved, confirmed>>

Tick ==
    /\ now < MaxTime
    /\ now' = now + 1
    /\ UNCHANGED <<email, flow, reg, step, change, born, answered, proved, confirmed>>

SignUpNext ==
    \/ \E p \in Flows :
         \/ Start(p) \/ AttemptEmail(p) \/ AttemptRejected(p) \/ CreateSession(p)
         \/ \E m \in SignUpMethods : CreateChallenge(p, m)
         \/ \E e \in Emails : AttemptRegistration(p, e)
         \/ \E a \in Accounts : AttemptPassword(p, a)
    \/ \E a \in Accounts :
         \/ ConfirmPrevious(a) \/ ConfirmNew(a) \/ DeleteAccount(a)
         \/ \E e \in Emails : ChangeEmail(a, e)
    \/ Cleanup
    \/ Tick

SignUpSpec == SignUpInit /\ [][SignUpNext]_signUpVars

\* The ticker of app.go calls Cleanup every minute.
SignUpFairSpec == SignUpSpec /\ WF_signUpVars(Cleanup)

-----------------------------------------------------------------------------
(* Properties *)

\* An address belongs to one account, however sign-ups and changes that want
\* it interleave (the checks of register and ConfirmEmail at the last step).
OneOwner ==
    \A a, b \in Accounts : email[a] # Null /\ email[a] = email[b] => a = b

\* Whoever got an account its address has answered mail sent to that address,
\* in the same sign-up or for the same change request.
AddressIsProved ==
    \A a \in Accounts : email[a] # Null => email[a] \in proved[a]

\* A sign-up that ends because its address has an account has proved the
\* address first: what happens before does not depend on whether it is taken.
\* Otherwise only an exhausted budget ends a sign-up.
DisclosedAfterProof ==
    \A p \in Flows : flow[p] # Null /\ flow[p].status = "failed" =>
      \/ flow[p].failures >= MaxAttempts
      \/ reg[p] # Null /\ reg[p].email \in answered[p]

\* Between transactions no registration holds a password: it goes to the
\* account or, when the race for the address is lost, nowhere.
NoPasswordAtRest == \A p \in Flows : reg[p] # Null => ~reg[p].password

\* A pending change was asked for from the address the account still has, so
\* the last confirmation never overwrites another change.
ChangeIsCurrent ==
    \A a \in Accounts : change[a] # Null => change[a].previous = email[a]

\* The address of an account changes only after both mailboxes have answered
\* the same request; no sign-up moves or removes it.
BothAddressesConfirm ==
    [][\A a \in Accounts :
         email[a] # Null /\ email'[a] # email[a] /\ email'[a] # Null =>
           {email[a], email'[a]} \subseteq confirmed'[a]]_signUpVars

\* A change request that expired is not in the way of a new one for ever.
StaleChangeGoes == \A a \in Accounts : Stale(a) ~> ~Stale(a)
=============================================================================
