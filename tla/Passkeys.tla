------------------------------ MODULE Passkeys -----------------------------
(***************************************************************************)
(* Passkey ceremonies (passkeys.go, pkg/passkey): challenges that are kept *)
(* in the database, answers that authenticators sign and clients deliver   *)
(* late, twice or to the wrong account, and the sign counters by which a   *)
(* copied device-bound key shows.                                          *)
(*                                                                         *)
(* Sessions, grants and failure budgets are AuthEngine's matter: here a    *)
(* ceremony begins whenever one may.                                       *)
(***************************************************************************)
EXTENDS Integers, FiniteSets

CONSTANTS
    Users, Nobody,
    Credentials,    \* key pairs authenticators can make, each once
    Kinds,          \* of keys: synced (backup-eligible, copies are meant), counting
    Devices,
    Ceremonies,     \* challenges in the order they are drawn, never drawn twice
    CeremonyTTL,    \* five minutes
    MaxSigns,       \* bound: signatures of one key on one device
    MaxClock        \* bound: the clock stops here

ASSUME PasskeyAssumption ==
    /\ Kinds \subseteq [synced : BOOLEAN, counts : BOOLEAN]
    /\ Nobody \notin Users /\ Ceremonies \subseteq Nat
    /\ CeremonyTTL \in Nat \ {0} /\ MaxSigns \in Nat /\ MaxClock \in Nat

VARIABLES
    clock,
    blocked,        \* users an operator has blocked
    passkeys,       \* the row of each credential id: its user and sign_count
    enrolments,     \* passkey_registration_requests
    steps,          \* passkey_authentication_steps, with their process
    kind,           \* of each key
    keys,           \* keys[d][c]: the counter of key c on device d, -1 without it
    answers,        \* what authenticators have signed, for ever in somebody's hands
    enroller,       \* ghost: whose session enrolled a credential
    accepted        \* ghost: how often count n of a credential was accepted

passkeyVars ==
    <<clock, blocked, passkeys, enrolments, steps, kind, keys, answers, enroller, accepted>>

Counts == 0 .. MaxSigns

NoRow == [user |-> Nobody, count |-> 0]

PasskeyRow == {NoRow} \cup [user : Users, count : Counts]

NotDrawn == [user |-> Nobody, exp |-> 0, status |-> "none", by |-> {}]

\* status: a ceremony is open, or was used, or ended otherwise.  by: the
\* credential whose answer was accepted.
CeremonyRow ==
    [user : Users \cup {Nobody}, exp : 0 .. MaxClock + CeremonyTTL,
     status : {"none", "open", "used", "ended"}, by : SUBSET Credentials]

PasskeyTypeOK ==
    /\ clock \in 0 .. MaxClock /\ blocked \subseteq Users
    /\ passkeys \in [Credentials -> PasskeyRow]
    /\ enrolments \in [Ceremonies -> CeremonyRow] /\ steps \in [Ceremonies -> CeremonyRow]
    /\ kind \in [Credentials -> Kinds]
    /\ keys \in [Devices -> [Credentials -> Counts \cup {-1}]]
    /\ enroller \in [Credentials -> Users \cup {Nobody}]
    /\ accepted \in [Credentials -> [Counts -> 0 .. 2]]

PasskeyInit ==
    /\ clock = 0 /\ blocked = {}
    /\ passkeys = [c \in Credentials |-> NoRow]
    /\ enrolments = [t \in Ceremonies |-> NotDrawn]
    /\ steps = [t \in Ceremonies |-> NotDrawn]
    /\ kind \in [Credentials -> Kinds]
    /\ keys = [d \in Devices |-> [c \in Credentials |-> -1]]
    /\ answers = {}
    /\ enroller = [c \in Credentials |-> Nobody]
    /\ accepted = [c \in Credentials |-> [n \in Counts |-> 0]]

-----------------------------------------------------------------------------
(* Ceremonies *)

Open(row) == row.status = "open" /\ row.exp > clock

\* ceremony: a random challenge, kept with its deadline.
Drawn(u) == [user |-> u, exp |-> clock + CeremonyTTL, status |-> "open", by |-> {}]

\* A challenge nobody has seen.
Fresh(t) ==
    /\ enrolments[t] = NotDrawn /\ steps[t] = NotDrawn
    /\ \A s \in Ceremonies : s < t => enrolments[s] # NotDrawn \/ steps[s] # NotDrawn

\* passkeyAccount: an account that is not blocked, with its credentials.
passkeyAccount(u) ==
    [ok |-> u \notin blocked, credentials |-> {c \in Credentials : passkeys[c].user = u}]

\* BeginRegistration
StartPasskey(u, t) ==
    /\ Fresh(t) /\ passkeyAccount(u).ok
    /\ enrolments' = [enrolments EXCEPT ![t] = Drawn(u)]
    /\ UNCHANGED <<clock, blocked, passkeys, steps, kind, keys, answers, enroller, accepted>>

\* BeginAuthentication, for a sign-in (of nobody yet) or a sensitive process.
CreateChallenge(u, t) ==
    /\ Fresh(t)
    /\ steps' = [steps EXCEPT ![t] = Drawn(u)]
    /\ UNCHANGED <<clock, blocked, passkeys, enrolments, kind, keys, answers, enroller, accepted>>

\* invalidate: the pending processes of an account end with its credentials.
invalidate(u) ==
    steps' = [t \in Ceremonies |->
                IF steps[t].user = u /\ steps[t].status = "open"
                THEN [steps[t] EXCEPT !.status = "ended"] ELSE steps[t]]

\* VerifyRegistration: the challenge is this one's, in time, and the account
\* does not have the credential yet.
VerifyRegistration(t, a) ==
    /\ a.kind = "create" /\ a.challenge = t
    /\ a.key \notin passkeyAccount(enrolments[t].user).credentials

\* Mutant: the request is not deleted.
RegisterPasskey_Keeps(t, a) ==
    LET u == enrolments[t].user
    IN  /\ Open(enrolments[t]) /\ passkeyAccount(u).ok
        /\ VerifyRegistration(t, a) /\ passkeys[a.key] = NoRow
        /\ passkeys' = [passkeys EXCEPT ![a.key] = [user |-> u, count |-> a.count]]
        /\ enroller' = [enroller EXCEPT ![a.key] = u]
        /\ invalidate(u)
        /\ UNCHANGED <<clock, blocked, enrolments, kind, keys, answers, accepted>>

\* One transaction: credential_id is unique over all accounts, and the request
\* goes with its use.
RegisterPasskey(t, a) ==
    LET u == enrolments[t].user
    IN  /\ Open(enrolments[t]) /\ passkeyAccount(u).ok
        /\ VerifyRegistration(t, a) /\ passkeys[a.key] = NoRow
        /\ passkeys' = [passkeys EXCEPT ![a.key] = [user |-> u, count |-> a.count]]
        /\ enroller' = [enroller EXCEPT ![a.key] = u]
        /\ enrolments' = [enrolments EXCEPT ![t].status = "used"]
        /\ invalidate(u)
        /\ UNCHANGED <<clock, blocked, kind, keys, answers, accepted>>

\* Pending processes end even when the account has no such passkey.  Whether
\* something else is left to sign in with is AuthEngine's matter.
DeletePasskey(u, c) ==
    /\ passkeys' = [passkeys EXCEPT ![c] = IF @.user = u THEN NoRow ELSE @]
    /\ invalidate(u)
    /\ UNCHANGED <<clock, blocked, enrolments, kind, keys, answers, enroller, accepted>>

-----------------------------------------------------------------------------
(* Verification *)

\* Mutant: a counter that is always zero stands still.
CloneWarning_Zero(c, n) == n <= passkeys[c].count

\* go-webauthn: a counter that does not advance, unless there is none.
CloneWarning(c, n) == n <= passkeys[c].count /\ (n # 0 \/ passkeys[c].count # 0)

\* Mutant: any credential may speak for the account the answer names.
Candidate_Any(a, u) == passkeys[a.key] # NoRow

\* The credential is one of the account the answer names.
Candidate(a, u) == a.key \in passkeyAccount(u).credentials

\* Mutant: a counter that stands still is a warning only.
VerifyAuthentication_Warns(t, a, u) ==
    /\ a.kind = "get" /\ a.challenge = t
    /\ Candidate(a, u)

\* The challenge is this one's; a device-bound key must count on.
VerifyAuthentication(t, a, u) ==
    /\ a.kind = "get" /\ a.challenge = t
    /\ Candidate(a, u)
    /\ ~(CloneWarning(a.key, a.count) /\ ~kind[a.key].synced)

\* The account u is the one the user handle beside the signature names
\* (AssertionIdentity); a sensitive process must be about it already.  The
\* process is bound to it and the counter kept, unless it goes backwards.
verifyPasskey(t, a, u) ==
    /\ steps[t].user \in {Nobody, u}
    /\ passkeyAccount(u).ok
    /\ VerifyAuthentication(t, a, u)
    /\ passkeys' = IF CloneWarning(a.key, a.count) THEN passkeys
                   ELSE [passkeys EXCEPT ![a.key].count = a.count]
    /\ steps' = [steps EXCEPT ![t].user = u, ![t].status = "used", ![t].by = {a.key}]

\* Attempt with an answer that is right; one that is wrong is counted and
\* leaves passkeys and step alone.
Attempt(t, a, u) ==
    /\ Open(steps[t])
    /\ verifyPasskey(t, a, u)
    /\ accepted' = [accepted EXCEPT ![a.key][a.count] = IF @ < 2 THEN @ + 1 ELSE @]
    /\ UNCHANGED <<clock, blocked, enrolments, kind, keys, answers, enroller>>

\* Expired rows go.
CleanupPasskeys ==
    LET swept(row) == IF row.status = "open" /\ row.exp < clock
                      THEN [row EXCEPT !.status = "ended"] ELSE row
    IN  /\ enrolments' = [t \in Ceremonies |-> swept(enrolments[t])]
        /\ steps' = [t \in Ceremonies |-> swept(steps[t])]
        /\ UNCHANGED <<clock, blocked, passkeys, kind, keys, answers, enroller, accepted>>

-----------------------------------------------------------------------------
(* Authenticators, clients and operators *)

\* An authenticator makes a key for an enrolment that is not over ...
Make(d, c, t) ==
    /\ enrolments[t].status = "open"
    /\ \A e \in Devices : keys[e][c] = -1
    /\ keys' = [keys EXCEPT ![d][c] = 0]
    /\ answers' = answers \cup
         {[kind |-> "create", key |-> c, challenge |-> t, count |-> 0]}
    /\ UNCHANGED <<clock, blocked, passkeys, enrolments, steps, kind, enroller, accepted>>

\* ... and signs the challenge of a step that is not over.
Sign(d, c, t) ==
    /\ steps[t].status = "open"
    /\ keys[d][c] \in 0 .. MaxSigns - 1
    /\ LET n == IF kind[c].counts THEN keys[d][c] + 1 ELSE 0
       IN  /\ keys' = [keys EXCEPT ![d][c] = n]
           /\ answers' = answers \cup
                {[kind |-> "get", key |-> c, challenge |-> t, count |-> n]}
    /\ UNCHANGED <<clock, blocked, passkeys, enrolments, steps, kind, enroller, accepted>>

\* A key is synced to another device, or copied although it is device-bound.
Copy(d, e, c) ==
    /\ keys[d][c] # -1 /\ keys[e][c] = -1
    /\ keys' = [keys EXCEPT ![e][c] = keys[d][c]]
    /\ UNCHANGED <<clock, blocked, passkeys, enrolments, steps, kind, answers, enroller, accepted>>

Block(u) ==
    /\ u \notin blocked
    /\ blocked' = blocked \cup {u}
    /\ UNCHANGED <<clock, passkeys, enrolments, steps, kind, keys, answers, enroller, accepted>>

Elapse ==
    /\ clock < MaxClock
    /\ clock' = clock + 1
    /\ UNCHANGED <<blocked, passkeys, enrolments, steps, kind, keys, answers, enroller, accepted>>

PasskeyNext ==
    \/ \E u \in Users, t \in Ceremonies : StartPasskey(u, t) \/ CreateChallenge(u, t)
    \/ \E t \in Ceremonies : CreateChallenge(Nobody, t)
    \/ \E t \in Ceremonies, a \in answers :
         RegisterPasskey(t, a) \/ \E u \in Users : Attempt(t, a, u)
    \/ \E u \in Users, c \in Credentials : DeletePasskey(u, c)
    \/ \E d \in Devices, c \in Credentials, t \in Ceremonies :
         Make(d, c, t) \/ Sign(d, c, t)
    \/ \E d, e \in Devices, c \in Credentials : Copy(d, e, c)
    \/ \E u \in Users : Block(u)
    \/ CleanupPasskeys \/ Elapse

PasskeySpec == PasskeyInit /\ [][PasskeyNext]_passkeyVars

-----------------------------------------------------------------------------
(* Properties *)

\* A passkey speaks only for the account that enrolled it, whatever account is
\* named beside its answer and whatever was removed or enrolled since the challenge was
\* drawn (AssertionIdentity: "UNTRUSTED lookup hints").
SpeaksForEnroller ==
    \A t \in Ceremonies, c \in Credentials :
        c \in steps[t].by => enroller[c] = steps[t].user

\* Of the copies of a device-bound key that counts, no two are accepted with
\* the same count: where both sign in, the one that is behind is turned away
\* (verifier.go: "Device-bound nonzero counters indicating a clone are rejected").
CopiesAreNoticed ==
    \A c \in Credentials, n \in Counts \ {0} : kind[c].synced \/ accepted[c][n] <= 1

\* The answer is its key's last signature, and no other device has the key.
LastOfSoleKey(a) ==
    \E d \in Devices : /\ a.count = keys[d][a.key]
                       /\ \A e \in Devices \ {d} : keys[e][a.key] = -1

\* Nobody is locked out by the check of counters: while its challenge is open,
\* an enrolled key passes if it is synced, or has no counter, or was never
\* copied and has signed nothing since; whichever of its signatures arrived
\* before, and in which order (verifier.go: "Synced credentials may have
\* non-monotonic counters").
HonestKeysPass ==
    \A t \in Ceremonies, a \in answers :
        /\ Open(steps[t]) /\ a.kind = "get" /\ a.challenge = t
        /\ passkeys[a.key] # NoRow
        /\ kind[a.key].synced \/ ~kind[a.key].counts \/ LastOfSoleKey(a)
        => VerifyAuthentication(t, a, passkeys[a.key].user)

\* A passkey that was removed does not come back: no answer of the ceremony
\* that enrolled it is good for a second enrolment.
RemovedStaysRemoved ==
    [][\A c \in Credentials :
          (enroller[c] # Nobody /\ passkeys[c] = NoRow) => passkeys'[c] = NoRow]_passkeyVars
=============================================================================
