------------------------------- MODULE Outbox ------------------------------
(***************************************************************************)
(* The outbox table, the workers that publish it (internal/outbox) and the *)
(* broker behind them.  Every replica of the service runs one worker; a    *)
(* worker publishes one event at a time, inside a database transaction     *)
(* that holds the event's row lock.                                        *)
(***************************************************************************)
EXTENDS Integers

CONSTANTS
    Events,     \* message ids, numbered by creation_timestamp, message_id
    Causes,     \* the events queued and committed before e's transaction began
    Workers,
    Null,       \* no event
    MaxCount    \* bound: the ghost counters saturate here

ASSUME OutboxAssumption ==
    /\ Events \subseteq Nat
    /\ Causes \in [Events -> SUBSET Events]
    /\ \A e \in Events : \A c \in Causes[e] : c < e
    /\ Null \notin Events
    /\ MaxCount \in Nat

VARIABLES
    queued,     \* ghost: events whose transaction has committed
    outbox,     \* rows of the table
    delivered,  \* events the broker has routed to a queue
    pc,         \* where worker w is in runConnection and one
    job,        \* the row worker w has locked
    answer,     \* the broker's answer to w's publication
    stray,      \* publications of lost connections that may still be routed
    routed,     \* ghost: times an event was routed
    lost        \* ghost: publications of an event that did not remove it

outboxVars ==
    <<queued, outbox, delivered, pc, job, answer, stray, routed, lost>>

OutboxTypeOK ==
    /\ queued \in SUBSET Events /\ outbox \in SUBSET Events
    /\ delivered \in SUBSET Events /\ stray \in SUBSET Events
    /\ pc \in [Workers -> {"down", "idle", "claimed", "published"}]
    /\ job \in [Workers -> Events \cup {Null}]
    /\ answer \in [Workers -> {"none", "ack", "return", "nack"}]
    /\ routed \in [Events -> 0 .. MaxCount + 1]
    /\ lost \in [Events -> 0 .. MaxCount]

OutboxInit ==
    /\ queued = {} /\ outbox = {} /\ delivered = {} /\ stray = {}
    /\ pc = [w \in Workers |-> "down"]
    /\ job = [w \in Workers |-> Null]
    /\ answer = [w \in Workers |-> "none"]
    /\ routed = [e \in Events |-> 0]
    /\ lost = [e \in Events |-> 0]

-----------------------------------------------------------------------------
Count(n, max) == IF n < max THEN n + 1 ELSE n

\* A transaction of the engine that inserts e commits.  creation_timestamp is
\* the start of the transaction, so events need not become visible in order;
\* but an event's causes were committed before its transaction began.
Queue(e) ==
    /\ e \notin queued
    /\ Causes[e] \subseteq queued
    /\ queued' = queued \cup {e}
    /\ outbox' = outbox \cup {e}
    /\ UNCHANGED <<delivered, pc, job, answer, stray, routed, lost>>

-----------------------------------------------------------------------------
\* Mutant: a worker whose publication was refused gives up.
Connect_Once(w) ==
    /\ pc[w] = "down"
    /\ answer[w] \notin {"return", "nack"}
    /\ pc' = [pc EXCEPT ![w] = "idle"]
    /\ UNCHANGED <<queued, outbox, delivered, job, answer, stray, routed, lost>>

\* Run and runConnection: dial, declare the exchanges, ask for confirms.
Connect(w) ==
    /\ pc[w] = "down"
    /\ pc' = [pc EXCEPT ![w] = "idle"]
    /\ UNCHANGED <<queued, outbox, delivered, job, answer, stray, routed, lost>>

\* Mutant: the row lock is forgotten.
Unlocked_All == outbox

\* FOR UPDATE SKIP LOCKED.
Unlocked == {e \in outbox : \A w \in Workers : job[w] # e}

\* Mutant: newest first.
Oldest_Desc(S) == {e \in S : \A d \in S : d <= e}

\* ORDER BY creation_timestamp, message_id LIMIT 1.
Oldest(S) == {e \in S : \A d \in S : e <= d}

\* The oldest row that no other transaction has locked.
Claim(w) ==
    /\ pc[w] = "idle"
    /\ \E e \in Oldest(Unlocked) : job' = [job EXCEPT ![w] = e]
    /\ pc' = [pc EXCEPT ![w] = "claimed"]
    /\ UNCHANGED <<queued, outbox, delivered, answer, stray, routed, lost>>

Publish(w) ==
    /\ pc[w] = "claimed"
    /\ pc' = [pc EXCEPT ![w] = "published"]
    /\ answer' = [answer EXCEPT ![w] = "none"]
    /\ UNCHANGED <<queued, outbox, delivered, job, stray, routed, lost>>

\* The broker confirms a publication it has routed to a bound queue.
Route(w) ==
    /\ pc[w] = "published" /\ answer[w] = "none"
    /\ delivered' = delivered \cup {job[w]}
    /\ routed' = [routed EXCEPT ![job[w]] = Count(@, MaxCount + 1)]
    /\ answer' = [answer EXCEPT ![w] = "ack"]
    /\ UNCHANGED <<queued, outbox, pc, job, stray, lost>>

\* Without a bound queue it returns the mandatory message, then acks; it may
\* also refuse it.
Refuse(w, a) ==
    /\ pc[w] = "published" /\ answer[w] = "none"
    /\ a \in {"return", "nack"}
    /\ answer' = [answer EXCEPT ![w] = a]
    /\ UNCHANGED <<queued, outbox, delivered, pc, job, stray, routed, lost>>

\* Mutant: basic.return is not looked at.
Remove_Unrouted(w) ==
    /\ pc[w] = "published" /\ answer[w] \in {"ack", "return"}
    /\ outbox' = outbox \ {job[w]}
    /\ pc' = [pc EXCEPT ![w] = "idle"]
    /\ job' = [job EXCEPT ![w] = Null]
    /\ UNCHANGED <<queued, delivered, answer, stray, routed, lost>>

\* Acked and not returned: the row is deleted and the transaction commits.
Remove(w) ==
    /\ pc[w] = "published" /\ answer[w] = "ack"
    /\ outbox' = outbox \ {job[w]}
    /\ pc' = [pc EXCEPT ![w] = "idle"]
    /\ job' = [job EXCEPT ![w] = Null]
    /\ UNCHANGED <<queued, delivered, answer, stray, routed, lost>>

\* The transaction of w is rolled back and its connection closed.
Disconnect(w) ==
    /\ pc' = [pc EXCEPT ![w] = "down"]
    /\ job' = [job EXCEPT ![w] = Null]
    /\ lost' = IF pc[w] = "published"
               THEN [lost EXCEPT ![job[w]] = Count(@, MaxCount)] ELSE lost
    /\ UNCHANGED <<queued, outbox, delivered, answer, routed>>

\* Returned or refused: an error, so the worker reconnects.
Reject(w) ==
    /\ pc[w] = "published" /\ answer[w] \in {"return", "nack"}
    /\ Disconnect(w)
    /\ UNCHANGED stray

\* At any moment the broker, the database or the process fails, or the 15
\* seconds of one are over.  A publication without an answer may still be
\* routed afterwards; of several for one event, one is remembered.
Fail(w) ==
    /\ pc[w] # "down"
    /\ Disconnect(w)
    /\ stray' = IF pc[w] = "published" /\ answer[w] = "none"
                THEN stray \cup {job[w]} ELSE stray

RouteStray(e) ==
    /\ e \in stray
    /\ stray' = stray \ {e}
    /\ delivered' = delivered \cup {e}
    /\ routed' = [routed EXCEPT ![e] = Count(@, MaxCount + 1)]
    /\ UNCHANGED <<queued, outbox, pc, job, answer, lost>>

DropStray(e) ==
    /\ e \in stray
    /\ stray' = stray \ {e}
    /\ UNCHANGED <<queued, outbox, delivered, pc, job, answer, routed, lost>>

OutboxNext ==
    \/ \E e \in Events : Queue(e) \/ RouteStray(e) \/ DropStray(e)
    \/ \E w \in Workers :
         \/ Connect(w) \/ Claim(w) \/ Publish(w) \/ Route(w)
         \/ \E a \in {"return", "nack"} : Refuse(w, a)
         \/ Remove(w) \/ Reject(w) \/ Fail(w)

OutboxSpec == OutboxInit /\ [][OutboxNext]_outboxVars

-----------------------------------------------------------------------------
(* Properties *)

Promise == INSTANCE AtLeastOnce
             WITH Events <- Events, queued <- queued, outbox <- outbox,
                  delivered <- delivered

\* The workers implement at-least-once delivery: whatever fails, and in
\* whatever order publications, answers and reconnections come, a row leaves
\* the outbox only after the broker routed its event, and only once (worker.go:
\* "no event is removed before a mandatory, persistent publish was routed").
ImplementsAtLeastOnce == Promise!AbstractSpec

\* A duplicate has a cause: an event is routed once more than publications of
\* it were lost at most, so replicas never publish one event side by side
\* (FOR UPDATE SKIP LOCKED, held until the row is deleted).
DuplicatesNeedFailure == \A e \in Events : routed[e] <= 1 + lost[e]

\* Oldest-first publication: an event reaches its consumers after the events
\* that were committed before its transaction began, as profile.created
\* comes before profile.deleted of one account (ORDER BY in one).
OldestFirst ==
    [][\A e \in delivered' \ delivered : Causes[e] \subseteq delivered]_outboxVars
=============================================================================
