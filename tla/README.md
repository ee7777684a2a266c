# Verification of ChefBook Auth

TLA+ models of the authentication service: the engine of
`src/internal/authentication` with its PostgreSQL tables
(`src/schema/initial.sql`), the event outbox (`src/internal/outbox`), the
process that runs them (`src/internal/app`), and the previous implementation
that is still in the repository (`src/internal/service`,
`src/internal/repository`). They are checked with TLC on small instances and,
for the results that matter most, proved with TLAPS for every value of the
constants. Paths below are relative to the repository's root
unless they begin with `tla/`.

## 1. The system

One service, any number of replicas, one database, one message broker.

| Part | State | Operations | Where it is hard |
|---|---|---|---|
| Authentication processes (`process.go`, `challenge.go`, `steps.go`, `oauth.go`) | `authentications`, `authentication_steps`, `oauth_requests`, `google_authentication_steps` | `Start`, `CreateChallenge`, `Attempt`, `AttemptProvider`, `ConsumeGrant` | several processes and steps at once; provider calls between transactions; evidence reused inside a window; expiry at every point |
| Sign-up (`process.go`, `challenge.go`, `steps.go`) | `registrations`, `email_authentication_steps`, `accounts.email` | registration, email and passwordSetup steps, `failRegistration`, `register` | several sign-ups and changes race for one address; the address is checked only at the end |
| Email change (`mail.go`) | `email_change_requests` | `ChangeEmail`, `ConfirmEmail` in two stages | the address is lost between the stages; a stale request |
| TOTP codes and the activation limiter (`secrets.go`, `limiter.go`) | `totp.last_used_step`; a map in the memory of each replica | `totpStep`, `allow` | replay across enrolment, sign-ins and the clock; a full limiter |
| Sessions (`sessions.go`) | `sessions` | `CreateSession`, `Refresh`, `RevokeSessions`, `LogoutRefresh` | a session ends under a pending process, grant or enrolment |
| Credentials (`account.go`, `mail.go`, `totp.go`, `passkeys.go`, `identities.go`) | `accounts`, `totp`, `backup_codes`, `passkeys`, `identities`, the request tables | password, reset and change of address by mail, TOTP, backup codes, passkeys, linked identities | a change must reach every piece of evidence given before it |
| Account lifecycle (`account.go`) | `account_deletion_requests` | `RequestDeletion`, `CancelDeletion`, `DeleteDueAccount` | requests and withdrawals around the deadline; the cascade |
| Cleanup (`cleanup.go`) | all temporary rows | `Cleanup`, once a minute in each replica | must not remove what can still be used |
| Outbox (`internal/outbox/worker.go`) | `outbox`, the broker's answers | `Run`, `runConnection`, `one` | crashes between publication, confirm and commit; several workers |
| Passkey ceremonies (`passkeys.go`, `pkg/passkey`) | `passkeys.sign_count`, challenges with their deadlines | `BeginRegistration`, `VerifyRegistration`, `VerifyAuthentication` | answers arrive late, twice or with another account's handle; copied keys |
| Transport (`internal/transport/authenticationgrpc`) | none | one handler per engine operation, and reads for other services | a read between request, withdrawal, renaming and deletion |
| Process (`cmd`, `internal/app`, `schema`) | health status, contexts | start with its checks, health monitor, shutdown | late answers during shutdown; calls that do not end |
| Previous service: accounts, passwords, identities (`internal/service`, `internal/repository/postgres`, `pkg/oauth`) | `users`, `oauth`, `activation_codes`, `password_resets`, `oauth_states` | sign-up, sign-in by password, provider and Firebase, connections, passwords, resets, usernames | no common lock: a request acts in one transaction on what it read in another |
| Previous service: email | `email_bindings`, `email_deliveries` | verify, resend, change in two stages, a dispatcher on each replica | a proof is replaced while its mail is queued or being sent |
| Previous service: sessions | `sessions` | creation, refresh, ending, trimming in a goroutine | overlapping sign-ins, trims and refreshes |
| Previous service: deletion, profile events | `delete_profile_requests`, `outbox` | re-authentication, request, update, cancel, daemon, publication | the deadline passes inside a request; goroutines are lost |
| Mail templates, logging, generated code | none | | |

`internal/app/app.go` does not construct the previous service any more. It is
modelled because it is kept, tested code whose concurrency is harder than the
engine's: nothing serialises its transactions.

How the parts interact: a transport handler calls one engine operation. The
operation opens a transaction and takes one advisory lock for all of the
database (`transaction.go`), so engine transactions are serial across replicas;
an error rolls the transaction back. Two operations, `AttemptProvider` and
`LinkIdentity`, call a provider *between* transactions. A password, TOTP,
passkey or provider proof completes a step; completed steps complete a process;
a completed process carries a one-time grant; an operation consumes the grant
in its own transaction. Operations queue events in `outbox` in the same
transaction; workers publish them outside the advisory lock, under row locks.

What makes each part correct:

* a grant stands for factors that are required *now*, proved by the account and
  session that use it, is used once, and never outlives a credential change;
* failures are counted once each, whatever is in flight;
* reuse of evidence does not extend itself;
* an address has one account, which proved it; nobody learns that it is taken
  before proving it; it moves only when both mailboxes agree;
* a one-time code is accepted once, and guesses are bounded per replica;
* an account keeps a way to sign in, and goes only at a firm deadline;
* cleanup takes nothing that could still serve;
* an event is removed only after it was routed, duplicates have a cause, and
  every event leaves;
* a passkey speaks for the account that enrolled it, copies of a device-bound
  key are noticed while no honest key is turned away, and a removed key stays
  removed;
* a process that is told to stop stops, without drawing traffic;
* a service that is told that an account it knows is gone can rely on it;
* in the previous service: an account keeps a way in although methods are
  counted before they are removed, a token is spent once, an address moves on
  two proofs, and a deletion that is due is final and happens.

The hazards behind these, line by line, are in `PROJECT.json` (`hazards`).

## 2. Modules

| Module | Models | Notes |
|---|---|---|
| `AuthStore` | tables, constants, shared checks | rows are records; `Null` is SQL NULL and "no row" |
| `AuthProcess` | `Start`, `CreateChallenge`, `Attempt`, `AttemptProvider` | a provider call is a `flight` |
| `AuthSessions` | sessions, deletion, cleanup, time | |
| `AuthCredentials` | every change of a credential | a change ends in `Revoke`: the code's `invalidate` and session deletions. Of a change of address it has the stages, the tokens and their effect; the addresses themselves are `SignUp`'s |
| `AuthEngine` | the composition `Next`, `Spec`, `FairSpec` and all properties | |
| `MCAuthEngine` | instances for TLC | |
| `AuthEngineProofs`, `AuthRowProofs` | the theorems about `AuthEngine`: evidence and grants; deadlines, steps, requests and failures | the second extends the first and builds on its invariant |
| `SignUp` | the `signUp` purpose, `CreateSession` from it, `ChangeEmail`, `ConfirmEmail`, and what ends them (account deletion, cleanup) | the accounts' addresses are the shared state |
| `MCSignUp`, `SignUpProofs` | instances; the theorems about `SignUp` | |
| `TotpCodes` | `totpStep`, `last_used_step`, `activationLimiter` | |
| `Passkeys` | ceremonies, the verifier's checks, sign counters; authenticators, copies and clients around them | |
| `MCFactors`, `TotpProofs`, `PasskeyProofs` | instances of `TotpCodes` and `Passkeys`; the theorems about each | the two share no row: a behaviour is about one of them |
| `AtLeastOnce` | what the outbox promises | abstract |
| `Outbox` | workers, row locks and broker | implements `AtLeastOnce` |
| `MCOutbox`, `OutboxProofs` | instance; refinement theorem | |
| `Server` | the process: schema, flags, health, shutdown, workers, reads of other services | extends `Outbox`: its workers are `Outbox`'s |
| `MCServer`, `ServerProofs` | instance; the theorems about `Server` | |
| `PrevStore` | tables of the previous service, its reads, `CreateUser` | |
| `PrevMessages`, `PrevApi` | request messages; handlers with their validators | what a client can send, and what gets past the handler |
| `PrevOAuth` | OAuth states, provider answers | |
| `PrevAccounts`, `PrevEmail`, `PrevSessions`, `PrevDeletion` | its requests and background work | one action per statement or transaction |
| `PrevService` | the composition, fairness and all properties | |
| `MCPrevService`, `PrevProofs` | scenes for TLC; the theorems about `PrevService` | |

### Correspondence with the code

*One engine transaction is one action.* The advisory lock of `Engine.begin`
serialises them, and an operation that fails leaves no trace; a lock timeout
(`ErrUnavailable`) is such a failure. `Attempt` with a wrong proof is the
exception the code makes on purpose (it commits the failure count), and is
`AttemptRejected`.

*Operations that are several transactions are several actions.*
`AttemptProvider` is `BeginExchange` (the OAuth state is used up) or
`BeginRejected`, then the call outside the lock, then `FinishExchange`, or
`ExchangeRefused` and `RejectExchange` (the separate failure transaction).
`LinkIdentity` is `BeginLink` and `FinishLink`. Between them anything may
happen, and `FlightLost` ends a call at any point: provider error, timeout,
refusal by a later check, crash of the replica.

*Rows.* A row of `accounts` is joined with the tables that hold at most one row
per account, its passkeys, identities and number of backup codes. A secret is
unguessable, so it is represented by the row that stores its hash; a `grant`
is its expiry, `Null` when the token is. `ticket` is the OAuth state or nonce
of a step. Foreign keys with ON DELETE CASCADE are `DeleteSessions`,
`CascadeSteps` and `WithSession`. Free identifiers exclude the ones a call in
flight still names, because the database never reuses one.

*Ghosts.* `epoch` counts credential changes of an account; `proof` records for
each process the epoch it was bound in, the times its factors were really
proved, and whether it was completed from another process's proofs. No guard
reads them, except that `CredentialChange` bounds `epoch` by `MaxChanges`.

*Sign-up.* A step that was replaced is cancelled for ever, so of each type only
the latest step of a flow is kept. `email` holds the address of each account and
`Null` without a row. The lost race in `AttemptPassword` fails the process and
clears the registration, as `failRegistration` does. A change of address begins
with a grant and a session, which are `AuthEngine`'s matter: here `ChangeEmail`
may happen whenever the account exists, which is more than the code allows. The
ghosts `answered`, `proved` and `confirmed` record whose mailbox entered a code
in a sign-up, to get an account its address, and for a change request; `born`
keeps account ids from being used twice.

*TOTP codes.* The limiter runs before the transaction and outside the advisory
lock, so `Allow` and the transaction of `ConfirmTotp` are two actions, and
`waiting` counts the calls between them; a replica that restarts loses both
(`Restart`). `Hotp` is a constant function: nothing is assumed of it, codes of
different moving factors may be equal. `uses` counts acceptances and `passed`
holds, for each replica and account, when calls were let through, in their
order; no guard reads them.

*Passkeys.* A key pair is made once and answers carry key, challenge and count;
they stay in somebody's hands for ever and can be delivered to any ceremony
with any account named beside them, because the user handle is not signed. A
ceremony's row keeps its end (`used`, `ended`) so that a challenge is never
drawn twice. What go-webauthn verifies (signature, challenge, origin) is taken
for correct, and its counter rule is `CloneWarning`. `enroller` and `accepted`
are ghosts.

*Process.* `phase` follows `Run`: checks, configuration, serving, the cancelled
context, draining, waiting for workers. `Signal` cancels the context, after
which no worker begins a new piece of work but one in the middle still ends;
`StopNow` is the five-second limit. `ping` is what the monitor learned and has
not set yet, so that its answer can come after `Shutdown`. A deployment (`dep`)
is a configuration with the calls and faults of its behaviours; `dep.valid`
says whether `configureEngine` accepts it, and `StartupFailed` is the exit when
it does not. `columns` are the account's address and name, which `ConfirmEmail`
and `SetUsername` replace. `GetAuthInfo` ANDs a predicate for each of id,
address and name that a request gives (`Matches`), so a read by an address or
name the account no longer has answers "not found" for a living account, and
`GoneIsFinal` is about reads by id alone. `told` is a ghost: the last answer
another service got, whether it knew the account and whether it asked by id.

*Previous service.* There is no advisory lock. A request is a record in `calls`
that carries what it read to its next statement, and other requests run in
between. Within a transaction `SELECT ... FOR UPDATE` makes the rest one step;
a statement that would wait for a row another transaction holds (a delivery
being sent) is not enabled meanwhile. Goroutines the code starts are records in
`work`, which `LoseWork` may drop. A message is any record a client that has its
tokens and mails can send, with `Refused` for text that a parser or validator
rejects. `spent` counts the uses of each token; no guard reads it. An id
token is the one proof that can be accepted twice, and `MayBeForgotten` says when:
a request passes `freshAuthentication` (`service/reauthentication/service.go:50`)
and stalls until the row that remembers the token has expired and was cleaned
(`repository/postgres/oauth_state.go:59`), or the row went with its user (ON DELETE
CASCADE, `migrations/sql/000004_account_workflows.up.sql:36`) and a new account of
the same Google subject uses the token while it is fresh. `menu`
selects what clients and the environment do in a scene.

*Time* is a natural number that `Tick` advances; every duration of the code is
a constant. Strict and non-strict comparisons are the code's: a row is usable
while `exp > now` and cleaned while `exp < now`.

*Outbox.* An event is a number, ordered as `creation_timestamp, message_id`
orders rows; `creation_timestamp` is the start of the transaction, so events
may become visible out of order, but an event's `Causes` were committed before
it began. A worker holds at most one row (`job`) from `Claim` to `Remove` or
`Disconnect`. `stray` are publications whose connection was lost before the
answer: the broker may still route them.

## 3. Runs

| Run | Instance | Shows |
|---|---|---|
| `StepUp` | 2 processes, 2 sessions, 2 changes of TOTP, 1 backup code, window 3, clock to 4 | `TypeOK`: a spent backup code is not accepted by a later process; `OneTotpActivation`, `GrantMeetsPolicy` while TOTP goes on and off; `TrustWindowIsFixed`, `CleanupKeepsUsable` |
| `Providers` | 1 process, 3 steps, 2 calls in flight, budget 2, challenge 1, flow 2, with or without TOTP, a reset already mailed | `EvidenceIsCurrent`: the reset kills half-finished sign-ins and grants, whatever call is outstanding; `BudgetIsDurable`, `PendingStepsAreOffered`, `EndedStaysEnded` |
| `Enrolment` | an account with one factor, 4 purposes, 1 call in flight | `AccountIsReachable` |
| `Principals` | 2 accounts with password and identity, one of which may be blocked, 2 sessions, deletion after 2 ticks, clock to 2, resets, changes of password and of address | `SensitiveStaysWithPrincipal`, `DeletionIsFirm`, `PendingDeletionFreezesSessions`, and `DueAccountsGo` under `FairSpec` |
| `DeletingMutations` | 1 account, 2 processes, a change of address and a deletion | `PendingDeletionRestrictsMutations` **fails**: see findings |
| `SignUpRace` | 2 sign-ups, 2 addresses, one of which has an account at first, 2 accounts, requests live 1 of 2 ticks | `OneOwner`, `AddressIsProved`, `DisclosedAfterProof`, `BothAddressesConfirm` while sign-ups, changes and deletions compete, and `StaleChangeGoes` under `SignUpFairSpec` |
| `Factors` | codes: 2 accounts, 2 secrets, 5 moving factors of which every second has the same code, room for 1 account, 2 calls in a window of 2; passkeys: 2 users, a key of each of 3 kinds, 2 devices, 3 ceremonies | `NoReplay`, `BurstIsBounded`; `SpeaksForEnroller`, `CopiesAreNoticed`, `HonestKeysPass`, `RemovedStaysRemoved` |
| `OutboxReplicas` | 2 workers, 3 events | `DuplicatesNeedFailure`, `ImplementsAtLeastOnce` |
| `OutboxOrder` | 2 workers, 3 events | `OldestFirst` **fails**: see findings |
| `Server` | 1 process, restarted at will, 3 events, 2 addresses, 1 name, 9 deployments | `NoTrafficOnceShutDown`, `GoneIsFinal`, `OneReplicaKeepsOrder`, and `QueuedEventsLeave`, `StopsInTime` under `ServerFairSpec` |
| `PrevWorkflows` | 12 scenes, up to 4 requests, 2 at a time, 2 users, 2 addresses, 1 session allowed, clock to 2 | `KeepsSignInMethod`, `OneTimeTokensSpentOnce`, `QueuedMailIsCurrent`, `SessionsAreBounded`, `AddressProvedByBoth` |
| `PrevDeletion` | 4 scenes, 2 requests, 2 replicas, deadline after 2 of 3 ticks | `DueRequestIsFinal`, and `DueProfilesAreRemoved`, `EventsAreHanded` under `PrevFairSpec` |

All runs check deadlock but `Server`, `PrevWorkflows` and `PrevDeletion`, whose
behaviours end when the clients of a deployment or scene have nothing left to
do. Each property of a passing run has a mutant in `PROJECT.json`: a
plausible slip in the code (a dropped check, an off-by-one, a lock forgotten)
under which TLC finds the property violated.

### Bounds

The code's minutes are 1 to 4 ticks here. What matters is their order, and each
run keeps the order its question needs: a challenge expires no later than its
flow, the reuse window is longer than a grant, a session outlives both, and the
clock runs past the expiry of what the run is about. Two processes are enough
for evidence to pass from one to another, and for a chain of derived
completions when the clock runs long enough for cleanup to free the first
(`StepUp`); two steps are one per factor, three add a replaced step;
two flights race each other. `MaxChanges` bounds
credential changes: two let TOTP go on, off and on. `MaxAttempts` is 1 where
failures are not the question and 2 where they are. `MaxCount` saturates the
outbox's ghost counters: `routed` saturates one above `lost`, so
`DuplicatesNeedFailure` is exact for the first duplicate.

Two addresses and two accounts let a sign-up and a change both win and lose.
Five moving factors are more than the three `totpStep` looks at. Two accounts
overfill a limiter with room for one. The bound of `BurstIsBounded` is tight:
with a fixed window that starts at its first call, `2 * Budget - 1` calls do fit
in a span of its length. Three ceremonies are an enrolment and two sign-ins, or
two enrolments and a sign-in; two devices hold a key and its copy, which sign
twice each. `Factors` gives every secret the same codes, so secrets and
accounts, and the users of passkeys, are interchangeable; it checks safety only,
for which the symmetry is sound.

`Server` has one process: a second one adds only what `OutboxReplicas` and the
theorems of section 4, which hold for any number, are about. A deployment
combines the calls and faults that touch the same state. A scene of the
previous service does the same for requests, because four unrelated requests
would multiply states without meeting; `InFlight` is 2 since every race here is
between a request and one other, and the third and fourth request prepare
tokens or come after. `MaxTokens` is what the longest scene draws. The clock
runs to 2 so that the memory of an id token can expire inside a request.

`Forgetful`, `Blockable`, `Refreshing` and `Purposes` select what clients do in
a run; between the runs everything is done.

### Fairness

`FairSpec` has weak fairness on `DeleteDueAccount(a)`: `runDeletions`
(`internal/app/app.go`) calls it until it finds nothing due, then again at the
next tick; the account served is the one due longest. Nothing is assumed of
clients, and the clock need not advance.

`SignUpFairSpec` has weak fairness on `Cleanup`, which a ticker goroutine of
`internal/app/app.go` calls every minute.

`ServerFairSpec` has weak fairness on the steps of start and stop, which wait
for nobody but the five-second timer, and on handling a refusal; and strong
fairness on configuring, connecting, claiming, publishing, routing and removing.
The strong fairness says that a stage which is tried again and again
(`Worker.Run` and `runConnection` are loops) does not fail, and its process is
not stopped, every time: consumers are bound in the end, broker and database
come back. Without it the property cannot hold, since the code keeps an event
for as long as it has no consumer. No fairness is assumed of calls: `StopsInTime`
holds although a call may never end.

`PrevFairSpec` has weak fairness on the tickers of daemon, mail dispatcher and
outbox observer, and strong fairness on a deletion, a publication and its mark:
each is tried again by the next tick, and does not fail every time.

## 4. Proofs

`AuthEngineProofs` proves for `Spec`, for all values of the constants that
satisfy the assumptions of `AuthStore` (identifiers are not `Null`, durations
are naturals, the initial accounts have a way to sign in):

* `TypeCorrect`: `[]TypeOK`;
* `EvidenceTheorem`: `[]EvidenceIsCurrent`;
* `GrantTheorem`: `[]GrantMeetsPolicy`;
* `TrustTheorem`: `[]TrustWindowIsFixed`;
* `PrincipalTheorem`: `[]SensitiveStaysWithPrincipal`;
* `ReachableTheorem`: `[]AccountIsReachable`;
* `GrantSpentOnce`: the action property `EndedStaysEnded`.

None of the five safety properties is inductive as it stands. The inductive
invariant `IInv` (theorem `Invariance`) adds what the tables always satisfy but
no single operation establishes: a row refers only to rows that exist (the
cascades), a completed process has an account and a completion time
(`ForeignKeys`), and a completed step is reflected in the ghost proof of its
process (`StepsBackProofs`). `GrantMeetsPolicy` then needs `EvidenceIsCurrent`'s
mechanism: TOTP is switched on only by an action that invalidates every process
of the account, so a grant that exists was completed under the same setting.
The step proof has one part per action. Most actions only take authority away;
`Withdraws` says so in terms of the tables, `RevocationPreserves` shows once that
this preserves `IInv`, and each such action is shown to be one. Actions that
change one process row share `OneProcess`.

`AuthRowProofs` goes on from `IInv` and proves, under the same assumptions:

* `DeletionTheorem` (`DeletionIsFirm`) and `FreezeTheorem`
  (`PendingDeletionFreezesSessions`), from what a transaction of
  `AuthCredentials` can do: it spends a grant, or changes the credentials of an
  account without a pending deletion, or uses a mailed token
  (`ChangesCredentials`). A mailed token is that of a reset, after which the
  account has no session, or the last of a change of address; and no change of
  address begins;
* `TotpActivationTheorem` (`OneTotpActivation`), from `RequestInv`: a request
  belongs to an open session, two TOTP requests are of different accounts, and
  none is beside an active TOTP. It needs the sessions because a request has no
  account of its own: its account is its session's, so a session that goes must
  take its requests along;
* `OfferTheorem` (`PendingStepsAreOffered`) and `CleanupTheorem`
  (`CleanupKeepsUsable`), from `StepInv`: a completed first factor has bound its
  process to an account, and no step is completed after its process. The first
  makes what `next` offers change only where steps are cancelled; the second
  makes the completion time `Cleanup` looks at an upper bound for the steps
  `reusable` looks at;
* `BudgetTheorem` (`BudgetIsDurable`), from `BudgetInv`, which adds that the
  failures of a process are finitely many. They are counted as a set of pairs
  of a step and a number, so that one failure more is one element more.

`SignUpProofs` proves for `SignUpSpec`: `SignUpTypeCorrect`, `OneOwnerTheorem`,
`AddressIsProvedTheorem`, `DisclosureTheorem`, `NoPasswordTheorem`,
`ChangeIsCurrentTheorem` and, as an action property, `ChangeTheorem`
(`BothAddressesConfirm`). `SignUpInv` adds to the properties what ties an
address to its proof over several steps: a code exists only after an address
was given and was sent to that very address, a completed email step means that
its mailbox answered, a flow without a row has no registration and no steps, an
account with an address used up its id, and a request in its second stage was
confirmed from the first mailbox. The proof goes flow by flow and account by
account, with frame lemmas for the rows an action leaves alone.

`TotpProofs` proves `NoReplayTheorem` and `LimiterTheorem` for any secrets,
codes and `Hotp`. `ReplayInv`: no moving factor after `last` was used, a pending
secret was never used, and no two rows hold the same secret. `BurstTheorem`
(`BurstIsBounded`) holds for any capacity, window and number of accounts.
`BurstInv`: the entry of an account counts the last calls that passed, the first
of them opened it, and before an entry is opened the last `Budget` calls are a
window old or there are fewer. So the calls of an entry and the `Budget` before
them, at most `2 * Budget` together, never lie within a window. The sweep of a
full limiter removes only entries that are over, which is where the argument
would break (the mutant of the property).

`PasskeyProofs` proves `EnrollerTheorem` (`SpeaksForEnroller`), `CopiesTheorem`
(`CopiesAreNoticed`), `RemovalTheorem` (`RemovedStaysRemoved`) and
`HonestTheorem` (`HonestKeysPass`) for any users, keys, devices and ceremonies.
The core of `PasskeyInv` is that a key is made once (`KeysAreMadeOnce`: all its
registration answers carry one challenge), that its ceremony is used up by the enrolment (`EnrolmentIsSpent`), so a credential
never gets a second row, and that the stored counter is at least every count
that was accepted (`CounterIsLatest`), so of two copies the one behind is
noticed. `HonestInv` is the other half: a stored counter was signed for a
challenge that is used up (`CounterWasSigned`), some device has counted that far
(`CountsAreSigned`), and a device that alone has the key never signs a count
twice (`SoleKeysCountOn`), so its last signature is ahead of the counter.

`OutboxProofs` proves `OutboxIsAtLeastOnce`, `OutboxSpec =>
ImplementsAtLeastOnce`, for any workers and events: every step of workers,
broker and failures is a step of `AtLeastOnce` or changes none of its
variables. The invariant it needs: a claimed row is in the outbox and claimed
by one worker only (so no one else removes it), an acknowledged event was
routed, and a stray publication is of a queued event. `DuplicatesHaveACause`
proves `DuplicatesNeedFailure` with a balance for each event: it was routed no
more often than it was lost, one more while it is settled, where settled means
acknowledged by the worker that holds it or gone from the outbox.

`ServerProofs` proves `ServerImplementsOutbox`, `ServerSpec => OutboxSpec`: what
processes do around their workers is a step of `Outbox` or leaves it alone. So
`ServerIsAtLeastOnce` follows, and every theorem about the outbox holds for the
service. `HealthIsFinal` (`NoTrafficOnceShutDown`) and `GoneAnswersAreFinal`
(`GoneIsFinal`) are proved for any number of replicas and any deployments. The
last needs the invariant that a
client which knows the account got its event, that only queued events are
delivered, and that events are never taken out of `queued`. `OneReplicaTheorem`
(`OneReplicaKeepsOrder`) is about one replica: `OrderInv` says that no cause of
an event that is held, or whose publication may still be routed, is left in the
outbox. A single worker claims the oldest row of all, which has no cause there;
a second worker may claim another, which is the finding below.

`PrevProofs` proves for `PrevSpec`, for any users, scenes, callers and replicas
that satisfy the assumptions of `PrevStore` and `PrevAccounts` (rows are not
`None`, the accounts a scene begins with have a way in, and the durations are
ordered as in the code: a proof is remembered for longer than an id token is
fresh, and a deletion waits for longer than that):

* `PrevTypeTheorem`: `[]TypeInv`, with the record that each kind of request
  carries from one statement to the next;
* `SignInMethodTheorem` (`KeepsSignInMethod`), `DueRequestTheorem`
  (`DueRequestIsFinal`);
* `OneTimeTheorem` (`OneTimeTokensSpentOnce`), from `TokenInv` (what was not
  drawn is nowhere, a token means one thing, what can still be used was not
  used) and `AcceptedIsRemembered` for id tokens;
* `QueuedMailTheorem` (`QueuedMailIsCurrent`) and `BothMailboxesTheorem`
  (`AddressProvedByBoth`), from `MailInv`: a dispatcher holds what is in the
  table and alone, a mail goes to the mailbox its proof asks, and a change in
  its second stage was answered from the old mailbox;
* `SessionBoundTheorem` (`SessionsAreBounded`), from `SessionInv`: sessions and
  trims are finite and known by the token they began with, so a new session
  brings a trim of its own, and a trim leaves the newest `MaxSessions`.

Requests alone are more than fifty actions. `StepEffects` reduces them once to
16 effects on the tables, each stated without the request that causes it; every
invariant is then shown for the effects that touch its tables, with frame lemmas
for the others.

Not in a run but proved as parts of the invariants above: `NoPasswordAtRest`
(`NoPasswordTheorem`), `ChangeIsCurrent` (`ChangeIsCurrentTheorem`),
`LimiterIsBounded` (`LimiterTheorem`).

Every invariant and action property of a passing run is stated by a theorem.
Only model-checked: liveness (`DueAccountsGo`, `StaleChangeGoes`,
`QueuedEventsLeave`, `StopsInTime`, `DueProfilesAreRemoved`, `EventsAreHanded`),
whose fairness the prover does not reach.

## 5. Findings

`OutboxOrder`: `README.md` line 15 promises "oldest-first" publication. Every
replica runs a worker, and `FOR UPDATE SKIP LOCKED` gives a second worker the
oldest row that is not locked. So `profile.deleted` can be published while
another worker still holds `profile.created` of the same account. With one
replica the order holds (`OneReplicaKeepsOrder`, run `Server` and
`OneReplicaTheorem`).

`DeletingMutations`: `README.md` lines 36-38 say that a "pending account deletion
restricts account mutations while retaining session management and deletion
cancellation/policy updates". `ConfirmEmail` (`internal/authentication/mail.go`)
needs a mailed token and looks at no deletion, so a change of address that was
begun before the deletion was requested can be completed while it is pending,
and so can a password reset. What does hold, and is proved, is
`PendingDeletionFreezesSessions`: no session changes credentials meanwhile.

## 6. What is not modelled

* Present service: rotation of refresh tokens (a refresh token is here either
  right or wrong), the choice of the signing key (`configureEngine` demands a
  configured one in production), passkey names, `PatchDeletion` and the
  `delete_shared_data` flag, which nothing reads but the body of an event. The
  grant of a change of address is in `AuthCredentials` and its addresses are in
  `SignUp`; the two are not joined.
* That a provider subject, and a username, belongs to one account: unique keys.
* Handlers that only read, in both services, but the two reads in `Server`.
* Previous service: mails that only tell of a change, and the location of a
  client, which no transition reads. Known races that no property is about,
  because nothing in the repository says how they should end: a provider
  sign-in connects the identity to the account that had the address when it
  looked (`service/session/oauth.go`); a password change overwrites a
  concurrent reset, and a reset code is mailed to the address read before
  (`service/password/service.go`); five failing messages end a round of
  `observeOutbox` before younger ones are tried (`repository/amqp/repository.go`),
  which takes more events than the runs have; two accounts that take each
  other's address wait for each other inside the database, which aborts one of
  them; `GetInfo` answers "deleted" on any failed read
  (`service/profile_deletion/service.go`).
* Mail bodies and templates, cryptography, what go-webauthn verifies, provider
  HTTP beyond its outcomes, parsing of flags and URLs, logging.
* Generated code, apart from the request messages and the method table of the
  previous service: response messages, client stubs, descriptors and the
  messages of the present service carry no logic of this program.

## 7. Plan

Done, in this order: `AuthStore`, `AuthProcess`, `AuthSessions`,
`AuthCredentials`, `AuthEngine`; `AtLeastOnce`, `Outbox`; `SignUp`; `TotpCodes`;
`Server`; the modules of the previous service; `Passkeys`; their runs and the
proofs above.

Next:

1. Safety lemmas that the liveness arguments rest on: which step of the outbox,
   of the shutdown and of a deletion is enabled in each state, stated as
   invariants about the guards.
2. Shorter proofs: the parts of `PrevProofs` that treat requests alike, and the
   frame lemmas that `AuthEngineProofs` and `AuthRowProofs` share.
