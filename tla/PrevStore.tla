------------------------------ MODULE PrevStore -----------------------------
(***************************************************************************)
(* The tables of the previous service (internal/repository/postgres), the  *)
(* reads its requests make and the transaction that creates a user.  The   *)
(* current service reads the same tables through transactions that one     *)
(* advisory lock serialises; here every statement outside a transaction    *)
(* is a step of its own, and a request acts later on what it read earlier. *)
(***************************************************************************)
EXTENDS Naturals, FiniteSets

CONSTANTS
    Users, Emails, Names, Passwords,
    Providers,      \* "google", "vk"
    Subjects,       \* what a provider calls one of its accounts
    Callers,        \* requests, numbered in the order they arrive
    InFlight,       \* bound: requests served at the same time
    Replicas,       \* processes: each has a mail worker and a deletion daemon
    Scenes,         \* where a behaviour begins: accounts, and what clients ask for
    None,
    Offset,         \* profileDeleteOffset, in ticks
    Ttl,            \* life of a mailed proof, a reset code, a session, a state
    FreshFor, Skew, \* how old, how early a provider's sign-in may be
    ProofTtl,       \* how long a used id token is remembered
    MaxSessions,    \* maxSessionsCount
    MaxTime,        \* bound: ticks of the clock
    MaxTokens       \* bound: tokens and codes drawn

ASSUME PrevAssumption ==
    /\ Offset \in Nat \ {0} /\ Ttl \in Nat \ {0} /\ MaxSessions \in Nat \ {0}
    /\ FreshFor \in Nat /\ Skew \in Nat /\ ProofTtl \in Nat
    /\ ProofTtl > FreshFor + Skew       \* one hour, 300 and 30 seconds
    /\ Offset > FreshFor + Skew         \* days
    /\ Callers \subseteq Nat /\ MaxTime \in Nat /\ MaxTokens \in Nat /\ InFlight \in Nat
    /\ None \notin Users \cup Emails \cup Names \cup Passwords \cup Subjects

VARIABLES
    users,          \* users, oauth and firebase rows, or None
    requests,       \* delete_profile_requests
    activation,     \* users with a row in activation_codes
    resets,         \* password_resets
    bindings,       \* email_bindings
    deliveries,     \* email_deliveries
    states,         \* oauth_states
    proofs,         \* reauthentication_proofs
    sessions,
    outbox,         \* outbox rows of profile events
    calls,          \* what each request in flight has read so far
    mailbox,        \* proofs and codes that arrived, with their address
    issued,         \* Google id tokens handed to clients
    menu,           \* the operations and faults of this behaviour
    now, fresh,     \* clock; the last token drawn
    courier,        \* the delivery whose row a replica's mail worker holds
    doomed,         \* what is left of a deletion daemon's list
    work,           \* goroutines that outlive their request
    handed,         \* profile events the message queue accepted
    spent,          \* ghost: how often a one-time token was accepted
    removed         \* ghost: users whose row was deleted

mailVars == <<bindings, deliveries, mailbox>>
flowVars == <<states, proofs, issued>>
restVars == <<menu, now, removed, courier, doomed, handed>>
prevVars == <<users, requests, activation, resets, mailVars, flowVars, sessions,
              outbox, work, calls, fresh, spent, restVars>>

Idle == [op |-> "idle"]

Done == [op |-> "done"]

Row == [email : Emails, name : Names \cup {None}, password : Passwords \cup {None},
        activated : BOOLEAN, blocked : BOOLEAN,
        ids : [Providers -> Subjects \cup {None}],
        firebase : Emails \cup {None}]     \* the Firebase profile of an address

Request == [shared : BOOLEAN, deadline : 0 .. MaxTime + Offset]

Binding == [token : 1 .. MaxTokens, user : Users, stage : {"verify", "old", "new"},
            old : Emails, email : Emails, password : Passwords \cup {None},
            expires : 0 .. MaxTime + Ttl]

\* A missing row is told from every row; both providers are configured.
ASSUME RowAssumption ==
    /\ None \notin Row /\ None \notin Request /\ None # "google"
    /\ {"google", "vk"} \subseteq Providers

Exists(u) == users[u] # None

\* email_bindings.purpose: 'verify' or 'change', by the stage.
Purpose(stage) == IF stage = "verify" THEN "verify" ELSE "change"

Live(t) == t.expires > now

\* getAuthInfoByCondition: users joined with oauth and the deletion request.
AuthInfo(u) == [row |-> users[u], deletion |-> requests[u]]

ByEmail(e) == {u \in Users : Exists(u) /\ users[u].email = e}

ByName(n) == {u \in Users : n # None /\ Exists(u) /\ users[u].name = n}

BySubject(p, s) == {u \in Users : Exists(u) /\ users[u].ids[p] = s}

\* GetAuthInfoByIdentifiers: by address if one was given and is found, then by
\* name.
ByIdentifiers(who) == IF ByEmail(who.email) # {} THEN ByEmail(who.email) ELSE ByName(who.name)

\* GetAuthInfoByRefreshToken, the session it finds
ByRefreshToken(t) == {s \in sessions : s.token = t}

\* IsFirebaseProfileConnected; a Firebase profile is known by its address.
IsFirebaseProfileConnected(e) == \E u \in Users : Exists(u) /\ users[u].firebase = e

\* checkProfileAvailability
Available(info) == info.row.activated /\ ~info.row.blocked

\* An account the owner may change: not blocked, no deletion requested.
Changeable(info) == ~info.row.blocked /\ info.deletion = None

-----------------------------------------------------------------------------
PrevInit ==
    /\ \E scene \in Scenes :
         /\ users = scene.accounts /\ menu = scene.menu
         /\ calls = [c \in Callers |-> IF c \in scene.callers THEN Idle ELSE Done]
    /\ requests = [u \in Users |-> None]
    /\ activation = {} /\ resets = {} /\ bindings = {} /\ deliveries = {}
    /\ states = {} /\ proofs = {} /\ sessions = {} /\ outbox = {}
    /\ mailbox = {} /\ issued = {}
    /\ now = 0 /\ fresh = 0 /\ removed = {}
    /\ spent = [t \in 1 .. MaxTokens |-> 0]
    /\ courier = [r \in Replicas |-> None] /\ doomed = [r \in Replicas |-> {}]
    /\ work = {} /\ handed = {}

Arrives(c, op) ==
    /\ calls[c] = Idle /\ op \in menu
    /\ \A d \in Callers : d < c => calls[d] # Idle
    /\ Cardinality({d \in Callers : calls[d] \notin {Idle, Done}}) < InFlight

\* A request arrives with its arguments; its first read comes with it.
Begin(c, call) == calls' = [calls EXCEPT ![c] = call]

Goto(c, step) == calls' = [calls EXCEPT ![c].step = step]

Return(c) == calls' = [calls EXCEPT ![c] = Done]

\* opaqueToken, uuid.New, CreateRefresh: a value nobody has seen before.
Draw == fresh < MaxTokens /\ fresh' = fresh + 1

\* The ghost counts acceptances up to 2: one too many is enough to know.
Spend(t) == spent' = [spent EXCEPT ![t] = IF @ < 2 THEN @ + 1 ELSE @]

At(c, op, step) == calls[c].op = op /\ calls[c].step = step

\* addOutboxProfileCreatedMsg
Created(u) == [type |-> "created", user |-> u, shared |-> FALSE]

-----------------------------------------------------------------------------
Free(u, row) ==
    \A v \in Users \ {u} : Exists(v) =>
        /\ users[v].email # row.email
        /\ \A p \in Providers : row.ids[p] # None => users[v].ids[p] # row.ids[p]

\* addUsersRow: an account without an activation code begins activated.
addUsersRow(e, password, activated) ==
    [email |-> e, name |-> None, password |-> password, activated |-> activated,
     blocked |-> FALSE, ids |-> [p \in Providers |-> None], firebase |-> None]

addOauthRow(row, p, s) == [row EXCEPT !.ids[p] = s]

addActivationCodeRow(u, row) ==
    activation' = IF row.activated THEN activation ELSE activation \cup {u}

\* createOutboxMsg; the goroutine that publishes the event is started when its
\* transaction has committed.
createOutboxMsg(msg, goroutines) ==
    /\ outbox' = outbox \cup {msg}
    /\ work' = work \cup goroutines \cup {[kind |-> "publish", msg |-> msg]}

\* CreateUser: the users, oauth and activation_codes rows and the event are one
\* transaction; a unique index that refuses one of them undoes them all.  The
\* goroutines are the ones its caller starts afterwards.
CreateUser(u, row, goroutines) ==
    /\ ~Exists(u) /\ u \notin removed
    /\ Free(u, row)
    /\ users' = [users EXCEPT ![u] = row]
    /\ addActivationCodeRow(u, row)
    /\ createOutboxMsg(Created(u), goroutines)
=============================================================================
