------------------------------- MODULE Server ------------------------------
(***************************************************************************)
(* The process around engine and outbox worker (cmd, internal/app, schema) *)
(* and the reads other services make (legacy_reads.go).  A replica checks  *)
(* the schema, configures its engine, serves, and on a signal withdraws    *)
(* its health, lets calls end for five seconds and waits for its workers.  *)
(* Its outbox worker is the one of module Outbox.                          *)
(***************************************************************************)
EXTENDS Outbox, FiniteSets

CONSTANTS
    Deployments,    \* configurations a behaviour may begin with
    Created,        \* the event of the transaction that inserts the account
    Deleted,        \* the event of the transaction that deletes it
    Emails,         \* addresses an account may have
    Usernames       \* names it may have

ASSUME ServerAssumption ==
    /\ {Created, Deleted} \subseteq Events /\ Created \in Causes[Deleted]
    /\ IsFiniteSet(Workers)

VARIABLES
    dep,        \* what flags and environment of the processes say
    database,   \* "up" or "down"
    tables,     \* "none", "initial", or "other": what the schema holds
    phase,      \* where replica r is in Run
    rpc,        \* the call replica r serves
    health,     \* what its health service answers
    ping,       \* what monitorHealthChecking learned and has not set yet
    columns,    \* email and username of the account
    pending,    \* the account has a deletion request
    told        \* ghost: the last answer a consumer got about the account

storeVars == <<database, tables, columns, pending>>
processVars == <<phase, rpc, health, ping>>
serverVars == <<dep, storeVars, processVars, told>>
allVars == <<outboxVars, serverVars>>

None == "none"

Calls == {"SignUp", "RequestDeletion", "CancelDeletion", "Mail",
          "ConfirmEmail", "SetUsername", "GetProfileDeletionStatus", "GetAuthInfo"}

\* What a read names the account by: its id, an address, a name, or several
\* of them.
Asked ==
    {q \in [id : BOOLEAN, email : Emails \cup {None}, username : Usernames \cup {None}] :
       q.id \/ q.email # None \/ q.username # None}
ById == [id |-> TRUE, email |-> None, username |-> None]

\* What else may happen to a process.
Happenings == {"Signal", "Crash", "Database"}

\* The flags of cmd/app, as far as a property tells them apart: valid says
\* that configureEngine accepts the keys, URLs and origins among them.  And
\* what the environment does: the address of the sign-up, the events and calls
\* there are, and what reads name the account by.
Deployment ==
    [valid : BOOLEAN, broker : BOOLEAN, tables : {"none", "initial", "other"},
     email : Emails, events : SUBSET Events, menu : SUBSET (Calls \cup Happenings),
     asks : SUBSET Asked]

ServerTypeOK ==
    /\ dep \in Deployment
    /\ database \in {"up", "down"} /\ tables \in {"none", "initial", "other"}
    /\ phase \in [Workers -> {"down", "checked", "serving", "signalled", "draining", "waiting"}]
    /\ health \in [Workers -> {None, "SERVING", "NOT_SERVING"}]
    /\ columns \in [email : Emails, username : Usernames \cup {None}]
    /\ pending \in BOOLEAN

ServerInit ==
    /\ OutboxInit
    /\ dep \in Deployments
    /\ database = "up" /\ tables = dep.tables /\ pending = FALSE
    /\ columns = [email |-> dep.email, username |-> None]
    /\ phase = [r \in Workers |-> "down"]
    /\ rpc = [r \in Workers |-> [call |-> None]]
    /\ health = [r \in Workers |-> None] /\ ping = [r \in Workers |-> None]
    /\ told = [knew |-> FALSE, byId |-> FALSE, answer |-> None]

-----------------------------------------------------------------------------
(* The database *)

\* cmd/migrations and Initialize: one transaction behind an advisory lock, and
\* only into a schema without tables.
Initialize ==
    /\ database = "up" /\ tables = "none"
    /\ tables' = "initial"
    /\ UNCHANGED <<outboxVars, dep, database, columns, pending, processVars, told>>

\* The database stops answering, or answers again.
Toggle ==
    /\ "Database" \in dep.menu
    /\ database' = IF database = "up" THEN "down" ELSE "up"
    /\ UNCHANGED <<outboxVars, dep, tables, columns, pending, processVars, told>>

AccountRow == Created \in queued /\ Deleted \notin queued

-----------------------------------------------------------------------------
(* One process *)

\* Run: the database answers and schema.Check finds the columns it expects.
Check(r) ==
    /\ phase[r] = "down"
    /\ database = "up" /\ tables = "initial"
    /\ phase' = [phase EXCEPT ![r] = "checked"]
    /\ UNCHANGED <<outboxVars, dep, storeVars, rpc, health, ping, told>>

Gone(r) ==
    /\ phase' = [phase EXCEPT ![r] = "down"]
    /\ rpc' = [rpc EXCEPT ![r] = [call |-> None]]
    /\ health' = [health EXCEPT ![r] = None] /\ ping' = [ping EXCEPT ![r] = None]
    /\ UNCHANGED <<dep, storeVars, told>>

\* configureEngine, the registrations and Listen: the process serves.
Configure(r) ==
    /\ phase[r] = "checked" /\ dep.valid
    /\ phase' = [phase EXCEPT ![r] = "serving"]
    /\ health' = [health EXCEPT ![r] = "SERVING"]
    /\ UNCHANGED <<outboxVars, dep, storeVars, rpc, ping, told>>

\* configureEngine refuses the flags: the process exits.
StartupFailed(r) ==
    /\ phase[r] = "checked" /\ ~dep.valid
    /\ Gone(r)
    /\ UNCHANGED outboxVars

\* SIGTERM, or Serve failed: the context of the workers is cancelled.
Signal(r) ==
    /\ phase[r] = "serving" /\ "Signal" \in dep.menu
    /\ phase' = [phase EXCEPT ![r] = "signalled"]
    /\ UNCHANGED <<outboxVars, dep, storeVars, rpc, health, ping, told>>

ShutDown(r) == phase[r] \in {"draining", "waiting"}

\* healthServer.Shutdown; GracefulStop begins.
Shutdown(r) ==
    /\ phase[r] = "signalled"
    /\ phase' = [phase EXCEPT ![r] = "draining"]
    /\ health' = [health EXCEPT ![r] = "NOT_SERVING"]
    /\ UNCHANGED <<outboxVars, dep, storeVars, rpc, ping, told>>

\* GracefulStop returned: no call is left.
Drained(r) ==
    /\ phase[r] = "draining" /\ rpc[r].call = None
    /\ phase' = [phase EXCEPT ![r] = "waiting"]
    /\ UNCHANGED <<outboxVars, dep, storeVars, rpc, health, ping, told>>

\* Mutant: only GracefulStop ends the calls.
StopNow_Graceful(r) ==
    /\ phase[r] = "draining" /\ rpc[r].call = None
    /\ phase' = [phase EXCEPT ![r] = "waiting"]
    /\ UNCHANGED <<outboxVars, dep, storeVars, rpc, health, ping, told>>

\* Five seconds are over: Stop.  Handlers are not waited for.
StopNow(r) ==
    /\ phase[r] = "draining"
    /\ phase' = [phase EXCEPT ![r] = "waiting"]
    /\ UNCHANGED <<outboxVars, dep, storeVars, rpc, health, ping, told>>

\* workers.Wait returned: worker and monitor have ended.
Exit(r) ==
    /\ phase[r] = "waiting"
    /\ pc[r] = "down" /\ ping[r] = None
    /\ Gone(r)
    /\ UNCHANGED outboxVars

\* The process dies, or a step of its start fails.
Crash(r) ==
    /\ "Crash" \in dep.menu /\ phase[r] # "down"
    /\ Gone(r)
    /\ IF pc[r] = "down" THEN UNCHANGED outboxVars ELSE Fail(r)

-----------------------------------------------------------------------------
(* Health *)

\* monitorHealthChecking asks the database once a minute ...
Ping(r) ==
    /\ phase[r] = "serving" /\ ping[r] = None /\ "Database" \in dep.menu
    /\ ping' = [ping EXCEPT ![r] = IF database = "up" THEN "SERVING" ELSE "NOT_SERVING"]
    /\ UNCHANGED <<outboxVars, dep, storeVars, phase, rpc, health, told>>

\* Mutant: shutting down is one more status.
setHealthStatus_Always(r) ==
    /\ ping[r] # None
    /\ health' = [health EXCEPT ![r] = ping[r]]
    /\ ping' = [ping EXCEPT ![r] = None]
    /\ UNCHANGED <<outboxVars, dep, storeVars, phase, rpc, told>>

\* ... and sets what it found; after Shutdown the health service ignores it.
setHealthStatus(r) ==
    /\ ping[r] # None
    /\ health' = IF ShutDown(r) THEN health ELSE [health EXCEPT ![r] = ping[r]]
    /\ ping' = [ping EXCEPT ![r] = None]
    /\ UNCHANGED <<outboxVars, dep, storeVars, phase, rpc, told>>

-----------------------------------------------------------------------------
(* Calls *)

\* The client knows of the account when its event reached the client.  A
\* request that names the account by nothing is Refused.
Arrive(r) ==
    /\ phase[r] \in {"serving", "signalled"} /\ rpc[r].call = None
    /\ \E c \in Calls \cap dep.menu, q \in {ById} \cup dep.asks :
         /\ c # "GetAuthInfo" => q = ById
         /\ rpc' = [rpc EXCEPT ![r] =
                      [call |-> c, asks |-> q, knows |-> Created \in delivered]]
    /\ UNCHANGED <<outboxVars, dep, storeVars, phase, health, ping, told>>

Finish(r) == rpc' = [rpc EXCEPT ![r] = [call |-> None]]

\* A call that fails, is cancelled or is refused changes nothing.
Refused(r) ==
    /\ rpc[r].call # None
    /\ Finish(r)
    /\ UNCHANGED <<outboxVars, dep, storeVars, phase, health, ping, told>>

\* The transactions that queue events of an account: the one that creates it,
\* and a mail.
Commit(r, e) ==
    /\ rpc[r].call = IF e = Created THEN "SignUp" ELSE "Mail"
    /\ database = "up" /\ e \in dep.events \ {Deleted}
    /\ Queue(e)
    /\ Finish(r)
    /\ UNCHANGED <<dep, storeVars, phase, health, ping, told>>

\* The last confirmation of a change of address; a pending deletion does not
\* stop it.
ConfirmEmail(r) ==
    /\ rpc[r].call = "ConfirmEmail" /\ database = "up" /\ AccountRow
    /\ \E m \in Emails : columns' = [columns EXCEPT !.email = m]
    /\ Finish(r)
    /\ UNCHANGED <<outboxVars, dep, database, tables, pending, phase, health, ping, told>>

\* The username, and mail e about it in the outbox.
SetUsername(r, e) ==
    /\ rpc[r].call = "SetUsername" /\ database = "up" /\ AccountRow /\ ~pending
    /\ e \in dep.events \ {Created, Deleted}
    /\ \E n \in Usernames \ {columns.username} :
         columns' = [columns EXCEPT !.username = n]
    /\ Queue(e)
    /\ Finish(r)
    /\ UNCHANGED <<dep, database, tables, pending, phase, health, ping, told>>

\* The mail that tells of a request is one of call "Mail".
ManageDeletion(r) ==
    /\ rpc[r].call \in {"RequestDeletion", "CancelDeletion"}
    /\ database = "up" /\ AccountRow
    /\ pending' = (rpc[r].call = "RequestDeletion")
    /\ Finish(r)
    /\ UNCHANGED <<outboxVars, dep, database, tables, columns, phase, health, ping, told>>

\* runDeletions, in a process whose context is not cancelled.
DeleteDueAccount(r) ==
    /\ phase[r] = "serving" /\ database = "up"
    /\ pending /\ Deleted \in dep.events
    /\ pending' = FALSE
    /\ Queue(Deleted)
    /\ UNCHANGED <<dep, database, tables, columns, processVars, told>>

\* Mutant: the query joins the account with its deletion request.
GetProfileDeletionStatus_Inner ==
    IF ~(AccountRow /\ pending) THEN "deleted" ELSE "pending"

\* No account row is the answer "deleted".
GetProfileDeletionStatus ==
    IF ~AccountRow THEN "deleted" ELSE IF pending THEN "pending" ELSE "present"

\* All that the request names must be the account's.
Matches(q) ==
    /\ AccountRow
    /\ q.email # None => q.email = columns.email
    /\ q.username # None => q.username = columns.username

GetAuthInfo(q) ==
    IF ~Matches(q) THEN "not_found" ELSE IF pending THEN "pending" ELSE "present"

LegacyRead(r) ==
    /\ rpc[r].call \in {"GetProfileDeletionStatus", "GetAuthInfo"} /\ database = "up"
    /\ told' = [knew |-> rpc[r].knows, byId |-> (rpc[r].asks = ById),
                answer |-> IF rpc[r].call = "GetAuthInfo" THEN GetAuthInfo(rpc[r].asks)
                           ELSE GetProfileDeletionStatus]
    /\ Finish(r)
    /\ UNCHANGED <<outboxVars, dep, storeVars, phase, health, ping>>

-----------------------------------------------------------------------------
(* The outbox worker of a process *)

WorkerStep(A) == dep.broker /\ A /\ UNCHANGED serverVars

\* A cancelled context lets nothing begin.
Begins(r, A) == phase[r] = "serving" /\ WorkerStep(A)

\* The context is cancelled: transaction and connection end.
StopWorker(r) ==
    /\ phase[r] \notin {"down", "checked", "serving"}
    /\ Fail(r)
    /\ UNCHANGED serverVars

Stray == \E e \in Events : (RouteStray(e) \/ DropStray(e)) /\ UNCHANGED serverVars

ServerNext ==
    \/ Initialize \/ Toggle \/ Stray
    \/ \E r \in Workers :
         \/ Check(r) \/ Configure(r) \/ StartupFailed(r)
         \/ Signal(r) \/ Shutdown(r) \/ Drained(r) \/ StopNow(r) \/ Exit(r) \/ Crash(r)
         \/ Ping(r) \/ setHealthStatus(r)
         \/ Arrive(r) \/ Refused(r) \/ ConfirmEmail(r) \/ ManageDeletion(r)
         \/ DeleteDueAccount(r) \/ LegacyRead(r)
         \/ \E e \in Events : Commit(r, e) \/ SetUsername(r, e)
         \/ Begins(r, Connect(r)) \/ Begins(r, Claim(r))
         \/ WorkerStep(Publish(r)) \/ WorkerStep(Route(r)) \/ WorkerStep(Remove(r))
         \/ WorkerStep(Reject(r)) \/ WorkerStep(Fail(r))
         \/ \E a \in {"return", "nack"} : WorkerStep(Refuse(r, a))
         \/ StopWorker(r)

ServerSpec == ServerInit /\ [][ServerNext]_allVars

\* The steps of start and stop, which wait for nobody but the timeout.
Lifecycle(r) ==
    \/ Check(r) \/ Configure(r) \/ StartupFailed(r) \/ Shutdown(r) \/ StopNow(r)
    \/ StopWorker(r) \/ setHealthStatus(r) \/ Exit(r)

\* outbox.Run retries for ever, and no stage of a publication fails every time
\* it is tried: consumers are bound in the end, broker and database come back,
\* and a process is not stopped every time before it has done some work.
ServerFairSpec ==
    /\ ServerSpec
    /\ \A r \in Workers :
         /\ WF_allVars(Lifecycle(r)) /\ WF_allVars(WorkerStep(Reject(r)))
         /\ SF_allVars(Configure(r)) /\ SF_allVars(Begins(r, Connect(r)))
         /\ SF_allVars(Begins(r, Claim(r))) /\ SF_allVars(WorkerStep(Publish(r)))
         /\ SF_allVars(WorkerStep(Route(r))) /\ SF_allVars(WorkerStep(Remove(r)))

-----------------------------------------------------------------------------
(* Properties *)

\* Once a process shuts down no late answer of the health monitor brings
\* traffic back to it (healthServer.Shutdown before GracefulStop).
NoTrafficOnceShutDown == \A r \in Workers : ShutDown(r) => health[r] # "SERVING"

\* A service that learned of an account from its event, asks for it by its id
\* alone and is told that the account is deleted or not found, can forget it:
\* the deletion has committed, whatever was requested, withdrawn or renamed
\* meanwhile (GetProfileDeletionStatus, GetAuthInfo).  A read that names an
\* address or a username as well is not found once they have changed.
GoneIsFinal ==
    told.knew /\ told.byId /\ told.answer \in {"deleted", "not_found"}
        => Deleted \in queued

\* With one replica events arrive oldest first, across crashes and restarts.
OneReplicaKeepsOrder ==
    [][Cardinality(Workers) = 1 =>
          \A e \in delivered' \ delivered : Causes[e] \subseteq delivered]_allVars

\* With a broker every event leaves the outbox, although workers fail and
\* processes stop and start.
QueuedEventsLeave == \A e \in Events : (dep.broker /\ e \in outbox) ~> e \notin outbox

\* A process that was told to stop stops, whatever its calls and its worker do.
StopsInTime == \A r \in Workers : phase[r] = "signalled" ~> phase[r] = "down"
=============================================================================
