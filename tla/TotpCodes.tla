------------------------------ MODULE TotpCodes ----------------------------
(***************************************************************************)
(* One-time codes: which codes totpStep accepts (secrets.go), how the last *)
(* moving factor is kept across enrolment, sign-ins and removal (totp.go,  *)
(* challenge.go), and the limiter that counts attempts to confirm an       *)
(* enrolment in the memory of each replica (limiter.go).                   *)
(*                                                                         *)
(* Sessions, grants and processes are AuthEngine's matter: here a code is  *)
(* entered whenever one may be.                                            *)
(***************************************************************************)
EXTENDS Integers, FiniteSets, Sequences

CONSTANTS
    Accounts, Replicas,
    Secrets,        \* TOTP secrets, never drawn twice
    Codes, Hotp,    \* Hotp[s][k]: the code of secret s at moving factor k
    Null,
    Period,         \* length of a moving factor (30 s)
    RequestTTL,     \* lifetime of an enrolment (5 min)
    Window, Budget, \* the limiter: attempts in a window (10 in 5 min)
    Capacity,       \* and the accounts it can hold (10000)
    MaxTime         \* bound: the clock stops here

Time == 0 .. MaxTime
Factors == 0 .. (MaxTime \div Period + 1)

\* totp, with last_used_step.
TotpRow == [secret : Secrets, last : Factors]

\* totp_activation_requests.
EnrolmentRow == [secret : Secrets, exp : Nat]

\* attemptWindow.
WindowRow == [start : Time, count : Nat]

ASSUME TotpAssumption ==
    /\ Period \in Nat \ {0} /\ RequestTTL \in Nat /\ MaxTime \in Nat
    /\ Window \in Nat \ {0} /\ Budget \in Nat \ {0} /\ Capacity \in Nat \ {0}
    /\ Null \notin TotpRow /\ Null \notin EnrolmentRow /\ Null \notin WindowRow
    /\ IsFiniteSet(Accounts)
    /\ Hotp \in [Secrets -> [Factors -> Codes]]

VARIABLES
    now,
    totp,       \* the factor of each account, or Null
    request,    \* its pending enrolment, or Null
    window,     \* activationLimiter.windows of each replica
    waiting,    \* calls of ConfirmTotp that passed the limiter of a replica
    drawn,      \* ghost: secrets that were ever drawn
    uses,       \* ghost: how often the code of a moving factor was accepted
    passed      \* ghost: when a replica let calls pass since it started

totpVars == <<now, totp, request, window, waiting, drawn, uses, passed>>

TotpTypeOK ==
    /\ now \in Time
    /\ totp \in [Accounts -> TotpRow \cup {Null}]
    /\ request \in [Accounts -> EnrolmentRow \cup {Null}]
    /\ window \in [Replicas -> [Accounts -> WindowRow \cup {Null}]]
    /\ waiting \in [Replicas -> [Accounts -> Nat]]
    /\ drawn \in SUBSET Secrets
    /\ uses \in [Secrets -> [Factors -> Nat]]
    /\ passed \in [Replicas -> [Accounts -> Seq(Time)]]

NoWindows == [a \in Accounts |-> Null]
NoCalls == [a \in Accounts |-> 0]
NonePassed == [a \in Accounts |-> << >>]

TotpInit ==
    /\ now = 0
    /\ totp = [a \in Accounts |-> Null]
    /\ request = [a \in Accounts |-> Null]
    /\ window = [r \in Replicas |-> NoWindows]
    /\ waiting = [r \in Replicas |-> NoCalls]
    /\ drawn = {}
    /\ uses = [s \in Secrets |-> [k \in Factors |-> 0]]
    /\ passed = [r \in Replicas |-> NonePassed]

-----------------------------------------------------------------------------
\* The moving factors around the present one that are still unused and have
\* code c.
Candidates(s, c, last) ==
    LET current == now \div Period
    IN  {k \in {current - 1, current, current + 1} :
           k > last /\ k >= 0 /\ Hotp[s][k] = c}

\* The accepted moving factor: the present one first, then the one before, then
\* the one after.
totpStep(s, c, last) ==
    LET current == now \div Period
        K == Candidates(s, c, last)
    IN  IF current \in K THEN current
        ELSE IF current - 1 \in K THEN current - 1 ELSE current + 1

\* Ghost: the code of factor k of secret s was accepted once more.
Used(s, k) == uses' = [uses EXCEPT ![s] = [uses[s] EXCEPT ![k] = @ + 1]]

\* A new secret replaces a pending one, and its deadline.
StartTotp(a, s) ==
    /\ totp[a] = Null
    /\ s \notin drawn
    /\ drawn' = drawn \cup {s}
    /\ request' = [request EXCEPT ![a] = [secret |-> s, exp |-> now + RequestTTL]]
    /\ UNCHANGED <<now, totp, window, waiting, uses, passed>>

\* The transaction of a call that passed the limiter takes the call.
TakeCall(r, a) ==
    /\ waiting[r][a] > 0
    /\ waiting' = [waiting EXCEPT ![r] = [waiting[r] EXCEPT ![a] = @ - 1]]

\* Mutant: the factor that confirmed the enrolment is not remembered.
ConfirmTotp_Forgets(r, a, c) ==
    /\ TakeCall(r, a)
    /\ request[a] # Null /\ request[a].exp > now
    /\ totp[a] = Null
    /\ Candidates(request[a].secret, c, -1) # {}
    /\ LET s == request[a].secret
       IN  totp' = [totp EXCEPT ![a] = [secret |-> s, last |-> 0]]
           /\ Used(s, totpStep(s, c, -1))
    /\ request' = [request EXCEPT ![a] = Null]
    /\ UNCHANGED <<now, window, drawn, passed>>

\* A code of the new secret confirms the enrolment, and is used up by it.
ConfirmTotp(r, a, c) ==
    /\ TakeCall(r, a)
    /\ request[a] # Null /\ request[a].exp > now
    /\ totp[a] = Null
    /\ Candidates(request[a].secret, c, -1) # {}
    /\ LET s == request[a].secret
           k == totpStep(s, c, -1)
       IN  totp' = [totp EXCEPT ![a] = [secret |-> s, last |-> k]] /\ Used(s, k)
    /\ request' = [request EXCEPT ![a] = Null]
    /\ UNCHANGED <<now, window, drawn, passed>>

\* No enrolment, a wrong code, or no transaction at all.
ConfirmRefused(r, a) ==
    /\ TakeCall(r, a)
    /\ UNCHANGED <<now, totp, request, window, drawn, uses, passed>>

\* A totp step of some process of the account accepts a code.
AttemptTotp(a, c) ==
    /\ totp[a] # Null
    /\ Candidates(totp[a].secret, c, totp[a].last) # {}
    /\ LET s == totp[a].secret
           k == totpStep(s, c, totp[a].last)
       IN  totp' = [totp EXCEPT ![a] = [secret |-> s, last |-> k]] /\ Used(s, k)
    /\ UNCHANGED <<now, request, window, waiting, drawn, passed>>

DeleteTotp(a) ==
    /\ totp[a] # Null
    /\ totp' = [totp EXCEPT ![a] = Null]
    /\ UNCHANGED <<now, request, window, waiting, drawn, uses, passed>>

Cleanup ==
    /\ request' = [a \in Accounts |->
         IF request[a] # Null /\ request[a].exp < now THEN Null ELSE request[a]]
    /\ UNCHANGED <<now, totp, window, waiting, drawn, uses, passed>>

-----------------------------------------------------------------------------
Held(w) == {a \in Accounts : w[a] # Null}
Over(w) == w # Null /\ now - w.start >= Window

\* Mutant: a full limiter forgets everybody.
Swept_All(w) == IF Cardinality(Held(w)) >= Capacity THEN NoWindows ELSE w

\* A full limiter drops the windows that are over.
Swept(w) ==
    IF Cardinality(Held(w)) >= Capacity
    THEN [a \in Accounts |-> IF Over(w[a]) THEN Null ELSE w[a]]
    ELSE w

\* The entry of account a that the call is counted in.
Entry(w, a) ==
    IF w[a] = Null \/ Over(w[a]) THEN [start |-> now, count |-> 0] ELSE w[a]

Admits(w, a) ==
    /\ w[a] # Null \/ Cardinality(Held(w)) < Capacity
    /\ Entry(w, a).count < Budget

\* activationLimiter.allow at the head of ConfirmTotp.
Allow(r, a) ==
    LET w == Swept(window[r])
        e == Entry(w, a)
    IN  /\ Admits(w, a)
        /\ window' = [window EXCEPT ![r] =
             [w EXCEPT ![a] = [start |-> e.start, count |-> e.count + 1]]]
        /\ waiting' = [waiting EXCEPT ![r] = [waiting[r] EXCEPT ![a] = @ + 1]]
        /\ passed' = [passed EXCEPT ![r] =
             [passed[r] EXCEPT ![a] = Append(@, now)]]
        /\ UNCHANGED <<now, totp, request, drawn, uses>>

\* A call is turned away (ErrAttempts); the sweep stays.
Deny(r, a) ==
    LET w == Swept(window[r])
    IN  /\ ~Admits(w, a)
        /\ window' = [window EXCEPT ![r] = w]
        /\ UNCHANGED <<now, totp, request, waiting, drawn, uses, passed>>

\* A replica starts again, with an empty limiter and no calls.
Restart(r) ==
    /\ window' = [window EXCEPT ![r] = NoWindows]
    /\ waiting' = [waiting EXCEPT ![r] = NoCalls]
    /\ passed' = [passed EXCEPT ![r] = NonePassed]
    /\ UNCHANGED <<now, totp, request, drawn, uses>>

Tick ==
    /\ now < MaxTime
    /\ now' = now + 1
    /\ UNCHANGED <<totp, request, window, waiting, drawn, uses, passed>>

TotpNext ==
    \/ \E a \in Accounts :
         \/ \E s \in Secrets : StartTotp(a, s)
         \/ \E c \in Codes : AttemptTotp(a, c)
         \/ DeleteTotp(a)
         \/ \E r \in Replicas :
              \/ Allow(r, a) \/ Deny(r, a) \/ ConfirmRefused(r, a)
              \/ \E c \in Codes : ConfirmTotp(r, a, c)
    \/ \E r \in Replicas : Restart(r)
    \/ Cleanup
    \/ Tick

TotpSpec == TotpInit /\ [][TotpNext]_totpVars

-----------------------------------------------------------------------------
(* Properties *)

\* No code is accepted twice for the same moving factor of a secret: not by two
\* processes, not at enrolment and again at sign-in, not after the clock has
\* moved on (last_used_step, and the strict comparison of totpStep).
NoReplay == \A s \in Secrets, k \in Factors : uses[s][k] <= 1

\* A replica lets fewer than twice Budget calls of an account pass within any
\* span as long as a window, whatever other accounts do to a full limiter: of
\* 2 * Budget calls in a row the last comes a window or more after the first.
BurstIsBounded ==
    \A r \in Replicas, a \in Accounts :
      \A i, j \in DOMAIN passed[r][a] :
        j = i + 2 * Budget - 1 => passed[r][a][j] - passed[r][a][i] >= Window

\* The limiter never holds more accounts than its capacity.
LimiterIsBounded == \A r \in Replicas : Cardinality(Held(window[r])) <= Capacity
=============================================================================
