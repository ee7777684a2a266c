---------------------------- MODULE ServerProofs ---------------------------
(***************************************************************************)
(* The composition of processes and outbox, for any number of replicas,    *)
(* any configuration and any outbox: it implements the outbox, and what    *)
(* other services see of replicas and accounts can be relied upon.         *)
(***************************************************************************)
EXTENDS Server, OutboxProofs, FiniteSetTheorems

\* Every step of the server leaves the outbox alone or is a step of it.
LEMMA ServerStepsOutbox == [ServerNext]_allVars => [OutboxNext]_outboxVars
<1> SUFFICES ASSUME [ServerNext]_allVars PROVE [OutboxNext]_outboxVars
  OBVIOUS
<1>1. CASE UNCHANGED allVars
  BY <1>1 DEF allVars
<1>2. CASE Initialize \/ Toggle
  BY <1>2 DEF Initialize, Toggle
<1>3. CASE Stray
  BY <1>3 DEF Stray, OutboxNext
<1>4. ASSUME NEW r \in Workers,
             \/ Check(r) \/ Configure(r) \/ StartupFailed(r) \/ Signal(r) \/ Shutdown(r)
             \/ Drained(r) \/ StopNow(r) \/ Exit(r) \/ Ping(r) \/ setHealthStatus(r)
             \/ Arrive(r) \/ Refused(r) \/ ConfirmEmail(r) \/ ManageDeletion(r) \/ LegacyRead(r)
      PROVE  UNCHANGED outboxVars
  BY <1>4 DEF Check, Configure, StartupFailed, Signal, Shutdown, Drained, StopNow, Exit,
              Ping, setHealthStatus, Arrive, Refused, ConfirmEmail, ManageDeletion, LegacyRead
<1>5. ASSUME NEW r \in Workers, Crash(r) PROVE [OutboxNext]_outboxVars
  BY <1>5 DEF Crash, OutboxNext
<1>6. ASSUME NEW r \in Workers, DeleteDueAccount(r) PROVE OutboxNext
  BY <1>6, ServerAssumption DEF DeleteDueAccount, OutboxNext
<1>7. ASSUME NEW r \in Workers, NEW e \in Events, Commit(r, e) \/ SetUsername(r, e)
      PROVE  OutboxNext
  BY <1>7 DEF Commit, SetUsername, OutboxNext
<1>8. ASSUME NEW r \in Workers,
             \/ Begins(r, Connect(r)) \/ Begins(r, Claim(r))
             \/ WorkerStep(Publish(r)) \/ WorkerStep(Route(r)) \/ WorkerStep(Remove(r))
             \/ WorkerStep(Reject(r)) \/ WorkerStep(Fail(r))
             \/ \E a \in {"return", "nack"} : WorkerStep(Refuse(r, a))
             \/ StopWorker(r)
      PROVE  OutboxNext
  BY <1>8 DEF Begins, WorkerStep, StopWorker, OutboxNext
<1> QED BY <1>1, <1>2, <1>3, <1>4, <1>5, <1>6, <1>7, <1>8 DEF ServerNext

\* The composition implements its component: processes that start, stop and
\* crash around the workers add nothing to what Outbox allows.
THEOREM ServerImplementsOutbox == ServerSpec => OutboxSpec
<1>1. ServerInit => OutboxInit
  BY DEF ServerInit
<1> QED BY <1>1, ServerStepsOutbox, PTL DEF ServerSpec, OutboxSpec

\* At-least-once delivery therefore holds of the whole service.
THEOREM ServerIsAtLeastOnce == ServerSpec => ImplementsAtLeastOnce
BY ServerImplementsOutbox, OutboxIsAtLeastOnce, PTL

-----------------------------------------------------------------------------
Phases == {"down", "checked", "serving", "signalled", "draining", "waiting"}

\* The parts of the state the properties speak of.
ProcessOK ==
    /\ phase \in [Workers -> Phases]
    /\ health \in [Workers -> {None, "SERVING", "NOT_SERVING"}]
    /\ ping \in [Workers -> {None, "SERVING", "NOT_SERVING"}]
    /\ NoTrafficOnceShutDown

\* The empty fleet satisfies it.
LEMMA ProcessInit == ServerInit => ProcessOK
BY DEF ServerInit, ProcessOK, Phases, NoTrafficOnceShutDown, ShutDown

\* Steps that touch neither phase, health nor ping keep it.
LEMMA ProcessRest ==
    ASSUME ProcessOK, UNCHANGED <<phase, health, ping>>
    PROVE  ProcessOK'
BY DEF ProcessOK, NoTrafficOnceShutDown, ShutDown

\* It is inductive: only Configure and setHealthStatus answer SERVING, the one
\* before, the other never after Shutdown.
LEMMA ProcessStep == ProcessOK /\ [ServerNext]_allVars => ProcessOK'
<1> SUFFICES ASSUME ProcessOK, [ServerNext]_allVars PROVE ProcessOK'
  OBVIOUS
<1>1. ASSUME UNCHANGED <<phase, health, ping>> PROVE ProcessOK'
  BY <1>1, ProcessRest
<1>2. CASE UNCHANGED allVars
  BY <1>1, <1>2 DEF allVars, serverVars, processVars
<1>3. CASE Initialize \/ Toggle \/ Stray
  BY <1>1, <1>3 DEF Initialize, Toggle, Stray, serverVars, processVars
<1> USE DEF ProcessOK, NoTrafficOnceShutDown, ShutDown, Phases, None
<1>4. ASSUME NEW r \in Workers,
             Check(r) \/ Signal(r) \/ Drained(r) \/ StopNow(r)
      PROVE  ProcessOK'
  BY <1>4 DEF Check, Signal, Drained, StopNow
<1>5. ASSUME NEW r \in Workers, Configure(r) \/ Shutdown(r) PROVE ProcessOK'
  BY <1>5 DEF Configure, Shutdown
<1>6. ASSUME NEW r \in Workers, StartupFailed(r) \/ Exit(r) \/ Crash(r) PROVE ProcessOK'
  BY <1>6 DEF StartupFailed, Exit, Crash, Gone
<1>7. ASSUME NEW r \in Workers, Ping(r) PROVE ProcessOK'
  BY <1>7 DEF Ping
<1>8. ASSUME NEW r \in Workers, setHealthStatus(r) PROVE ProcessOK'
  BY <1>8 DEF setHealthStatus
<1>9. ASSUME NEW r \in Workers,
             \/ Arrive(r) \/ Refused(r) \/ ConfirmEmail(r) \/ ManageDeletion(r)
             \/ DeleteDueAccount(r) \/ LegacyRead(r) \/ StopWorker(r)
             \/ \E e \in Events : Commit(r, e) \/ SetUsername(r, e)
      PROVE  UNCHANGED <<phase, health, ping>>
  BY <1>9 DEF Arrive, Refused, ConfirmEmail, ManageDeletion, DeleteDueAccount,
              LegacyRead, StopWorker, Commit, SetUsername, serverVars, processVars
<1>10. ASSUME NEW r \in Workers,
             \/ Begins(r, Connect(r)) \/ Begins(r, Claim(r))
             \/ WorkerStep(Publish(r)) \/ WorkerStep(Route(r)) \/ WorkerStep(Remove(r))
             \/ WorkerStep(Reject(r)) \/ WorkerStep(Fail(r))
             \/ \E a \in {"return", "nack"} : WorkerStep(Refuse(r, a))
      PROVE  UNCHANGED <<phase, health, ping>>
  BY <1>10 DEF Begins, WorkerStep, serverVars, processVars
<1> QED BY <1>1, <1>2, <1>3, <1>4, <1>5, <1>6, <1>7, <1>8, <1>9, <1>10 DEF ServerNext

\* After Shutdown no late answer of the health monitor brings traffic back
\* (healthServer.Shutdown, setHealthStatus), however many replicas there are.
THEOREM HealthIsFinal == ServerSpec => []NoTrafficOnceShutDown
<1>1. ProcessOK => NoTrafficOnceShutDown
  BY DEF ProcessOK
<1> QED BY <1>1, ProcessInit, ProcessStep, PTL DEF ServerSpec

-----------------------------------------------------------------------------
\* What reached a client was committed.
LEMMA DeliveredStep ==
    OutboxInv /\ delivered \subseteq queued /\ [OutboxNext]_outboxVars
        => (delivered \subseteq queued)' /\ queued \subseteq queued'
<1> SUFFICES ASSUME OutboxInv, delivered \subseteq queued, [OutboxNext]_outboxVars
             PROVE  (delivered \subseteq queued)' /\ queued \subseteq queued'
  OBVIOUS
<1>1. ASSUME NEW w \in Workers, Route(w)
      PROVE  (delivered \subseteq queued)' /\ queued \subseteq queued'
  <2>1. job[w] \in queued
    BY <1>1 DEF Route, OutboxInv, WorkerOK
  <2> QED BY <1>1, <2>1 DEF Route
<1>2. ASSUME NEW e \in Events, RouteStray(e)
      PROVE  (delivered \subseteq queued)' /\ queued \subseteq queued'
  BY <1>2 DEF RouteStray, OutboxInv
<1>3. ASSUME NEW e \in Events, Queue(e) \/ DropStray(e)
      PROVE  (delivered \subseteq queued)' /\ queued \subseteq queued'
  BY <1>3 DEF Queue, DropStray
<1>4. ASSUME NEW w \in Workers,
             \/ Connect(w) \/ Claim(w) \/ Publish(w) \/ Remove(w) \/ Reject(w) \/ Fail(w)
             \/ \E a \in {"return", "nack"} : Refuse(w, a)
      PROVE  UNCHANGED <<queued, delivered>>
  BY <1>4 DEF Connect, Claim, Publish, Remove, Reject, Fail, Refuse, Disconnect
<1>5. CASE UNCHANGED outboxVars
  BY <1>5 DEF outboxVars
<1> QED BY <1>1, <1>2, <1>3, <1>4, <1>5 DEF OutboxNext

\* A caller that knows of the account knows it from a committed event.
CallsOK ==
    /\ rpc = [r \in Workers |-> rpc[r]]
    /\ \A r \in Workers : (rpc[r].call # None /\ rpc[r].knows) => Created \in queued
    /\ GoneIsFinal

\* Events are never forgotten, so calls and answers stay as good as they were.
LEMMA CallsRest ==
    ASSUME CallsOK, queued \subseteq queued', UNCHANGED <<rpc, told>>
    PROVE  CallsOK'
BY DEF CallsOK, GoneIsFinal

\* A call that ends leaves its replica free.
LEMMA CallsFinish ==
    ASSUME CallsOK, queued \subseteq queued', NEW r \in Workers,
           rpc' = [rpc EXCEPT ![r] = [call |-> None]], UNCHANGED told
    PROVE  CallsOK'
BY DEF CallsOK, GoneIsFinal

\* It is inductive, given what the outbox guarantees.
LEMMA CallsStep ==
    CallsOK /\ delivered \subseteq queued /\ queued \subseteq queued' /\ [ServerNext]_allVars
        => CallsOK'
<1> SUFFICES ASSUME CallsOK, delivered \subseteq queued, queued \subseteq queued',
                    [ServerNext]_allVars
             PROVE  CallsOK'
  OBVIOUS
<1>1. ASSUME UNCHANGED <<rpc, told>> PROVE CallsOK'
  BY <1>1, CallsRest
<1>2. CASE UNCHANGED allVars
  BY <1>1, <1>2 DEF allVars, serverVars, processVars
<1>3. CASE Initialize \/ Toggle \/ Stray
  BY <1>1, <1>3 DEF Initialize, Toggle, Stray, serverVars, processVars
<1>4. ASSUME NEW r \in Workers, Arrive(r) PROVE CallsOK'
  <2>1. PICK c \in Calls \cap dep.menu : \E q \in {ById} \cup dep.asks :
          rpc' = [rpc EXCEPT ![r] = [call |-> c, asks |-> q, knows |-> Created \in delivered]]
    BY <1>4 DEF Arrive
  <2>. PICK q \in {ById} \cup dep.asks :
          rpc' = [rpc EXCEPT ![r] = [call |-> c, asks |-> q, knows |-> Created \in delivered]]
    BY <2>1
  <2>2. told' = told
    BY <1>4 DEF Arrive
  <2>3. PICK k \in BOOLEAN : k <=> Created \in delivered
    OBVIOUS
  <2>4. rpc' = [rpc EXCEPT ![r] = [call |-> c, asks |-> q, knows |-> k]]
    BY <2>3, Zenon
  <2>5. rpc' = [s \in Workers |-> rpc'[s]]
    BY <2>4 DEF CallsOK
  <2>6. ASSUME NEW s \in Workers, rpc'[s].call # None, rpc'[s].knows
        PROVE  Created \in queued'
    BY <2>3, <2>4, <2>6 DEF CallsOK
  <2>7. GoneIsFinal'
    BY <2>2 DEF CallsOK, GoneIsFinal
  <2> QED BY <2>5, <2>6, <2>7 DEF CallsOK
<1>5. ASSUME NEW r \in Workers,
             \/ Refused(r) \/ ConfirmEmail(r) \/ ManageDeletion(r)
             \/ StartupFailed(r) \/ Exit(r) \/ Crash(r)
             \/ \E e \in Events : Commit(r, e) \/ SetUsername(r, e)
      PROVE  CallsOK'
  <2>1. rpc' = [rpc EXCEPT ![r] = [call |-> None]] /\ told' = told
    BY <1>5 DEF Refused, ConfirmEmail, ManageDeletion, StartupFailed, Exit, Crash, Gone,
                Commit, SetUsername, Finish
  <2> QED BY <2>1, CallsFinish
<1>6. ASSUME NEW r \in Workers, LegacyRead(r) PROVE CallsOK'
  <2>1. rpc' = [rpc EXCEPT ![r] = [call |-> None]]
    BY <1>6 DEF LegacyRead, Finish
  <2>2. rpc[r].call # None
    BY <1>6 DEF LegacyRead, None
  <2>3. ASSUME told'.knew, told'.byId, told'.answer \in {"deleted", "not_found"}
        PROVE  Deleted \in queued
    <3>1. rpc[r].knows /\ rpc[r].asks = ById
      BY <1>6, <2>3 DEF LegacyRead
    <3>2. Matches(ById) <=> AccountRow
      BY DEF Matches, ById
    <3>3. ~AccountRow
      BY <1>6, <2>3, <3>1, <3>2 DEF LegacyRead, GetProfileDeletionStatus, GetAuthInfo
    <3> QED BY <2>2, <3>1, <3>3 DEF CallsOK, AccountRow
  <2>4. GoneIsFinal'
    BY <2>3 DEF GoneIsFinal
  <2> QED BY <2>1, <2>4 DEF CallsOK
<1>7. ASSUME NEW r \in Workers,
             \/ Check(r) \/ Configure(r) \/ Signal(r) \/ Drained(r) \/ StopNow(r)
             \/ Shutdown(r) \/ Ping(r) \/ setHealthStatus(r)
             \/ DeleteDueAccount(r) \/ StopWorker(r)
      PROVE  UNCHANGED <<rpc, told>>
  BY <1>7 DEF Check, Configure, Signal, Drained, StopNow, Shutdown, Ping,
              setHealthStatus, DeleteDueAccount, StopWorker, serverVars, processVars
<1>8. ASSUME NEW r \in Workers,
             \/ Begins(r, Connect(r)) \/ Begins(r, Claim(r))
             \/ WorkerStep(Publish(r)) \/ WorkerStep(Route(r)) \/ WorkerStep(Remove(r))
             \/ WorkerStep(Reject(r)) \/ WorkerStep(Fail(r))
             \/ \E a \in {"return", "nack"} : WorkerStep(Refuse(r, a))
      PROVE  UNCHANGED <<rpc, told>>
  BY <1>8 DEF Begins, WorkerStep, serverVars, processVars
<1> QED BY <1>1, <1>2, <1>3, <1>4, <1>5, <1>6, <1>7, <1>8 DEF ServerNext

\* A service that learned of an account from its event, asks for it by its id
\* alone and is told that it is deleted or not found (GetProfileDeletionStatus,
\* GetAuthInfo), can forget it: the deletion has committed.  What the account
\* has been renamed to meanwhile does not matter.
THEOREM GoneAnswersAreFinal == ServerSpec => []GoneIsFinal
<1>1. ServerInit => OutboxInv /\ delivered \subseteq queued /\ CallsOK
  <2>1. ServerInit => OutboxInv /\ delivered \subseteq queued
    BY OutboxInitInv DEF ServerInit, OutboxInit
  <2>2. ServerInit => CallsOK
    BY DEF ServerInit, CallsOK, GoneIsFinal, None
  <2> QED BY <2>1, <2>2
<1>2. /\ OutboxInv /\ delivered \subseteq queued /\ CallsOK
      /\ [ServerNext]_allVars
      => (OutboxInv /\ delivered \subseteq queued /\ CallsOK)'
  BY ServerStepsOutbox, OutboxStep, DeliveredStep, CallsStep
<1>3. CallsOK => GoneIsFinal
  BY DEF CallsOK
<1> QED BY <1>1, <1>2, <1>3, PTL DEF ServerSpec

-----------------------------------------------------------------------------
(* The order of events with one worker *)

\* What is left to publish waits for nothing: no cause of an event that is
\* held, or whose publication may still be routed, is in the outbox.
OrderInv ==
    /\ queued \subseteq outbox \cup delivered
    /\ \A e \in queued : Causes[e] \subseteq queued
    /\ \A w \in Workers : job[w] # Null => Causes[job[w]] \cap outbox = {}
    /\ \A e \in stray : Causes[e] \cap outbox = {}

\* Events are routed after their causes.
InOrder == \A e \in delivered' \ delivered : Causes[e] \subseteq delivered

\* It is inductive for a single worker, which claims the oldest row of all,
\* and what such a worker or a stray publication routes comes in order.
LEMMA OrderStep ==
    ASSUME NEW v, Workers = {v}, OutboxInv, OrderInv, [OutboxNext]_outboxVars
    PROVE  OrderInv' /\ InOrder
<1> USE DEF OutboxInv, OutboxTypeOK, OrderInv, InOrder
<1>a. /\ Null \notin Events /\ Events \subseteq Nat
      /\ Causes \in [Events -> SUBSET Events]
      /\ \A e \in Events : \A c \in Causes[e] : c < e
  BY OutboxAssumption
<1>b. ASSUME NEW w \in Workers, job[w] # Null
      PROVE  /\ job[w] \in Events /\ job[w] \in outbox /\ job[w] \in queued
             /\ Causes[job[w]] \subseteq delivered
  <2>1. job[w] \in Events /\ job[w] \in outbox /\ job[w] \in queued
    BY <1>b DEF WorkerOK
  <2> QED BY <1>b, <2>1
<1>c. \A e \in stray : Causes[e] \subseteq delivered
  OBVIOUS
<1>1. ASSUME NEW e \in Events, Queue(e) PROVE OrderInv' /\ InOrder
  <2>1. \A d \in queued : e \notin Causes[d]
    BY <1>1 DEF Queue
  <2>2. \A w \in Workers : job'[w] # Null => Causes[job'[w]] \cap outbox' = {}
    BY <1>1, <1>b, <2>1 DEF Queue
  <2>3. \A d \in stray' : Causes[d] \cap outbox' = {}
    BY <1>1, <2>1 DEF Queue
  <2> QED BY <1>1, <2>2, <2>3 DEF Queue
<1>2. ASSUME NEW e \in Events, RouteStray(e) PROVE OrderInv' /\ InOrder
  BY <1>2, <1>c DEF RouteStray
<1>3. ASSUME NEW e \in Events, DropStray(e) PROVE OrderInv' /\ InOrder
  BY <1>3 DEF DropStray
<1>4. ASSUME NEW w \in Workers, Claim(w) PROVE OrderInv' /\ InOrder
  <2>1. PICK e \in Oldest(Unlocked) : job' = [job EXCEPT ![w] = e]
    BY <1>4 DEF Claim
  <2>2. \A u \in Workers : job[u] = Null
    BY <1>4 DEF Claim, WorkerOK
  <2>3. Unlocked = outbox
    BY <1>a, <2>2 DEF Unlocked
  <2>4. e \in outbox /\ e \in Events /\ \A d \in outbox : e <= d
    BY <2>1, <2>3 DEF Oldest
  <2>5. ASSUME NEW c \in Causes[e], c \in outbox PROVE FALSE
    <3>1. c \in Nat /\ e \in Nat /\ c < e /\ e <= c
      BY <1>a, <2>4, <2>5
    <3> QED BY <3>1
  <2> QED BY <1>4, <2>1, <2>2, <2>5 DEF Claim
<1>5. ASSUME NEW w \in Workers, Route(w) PROVE OrderInv' /\ InOrder
  <2>1. job[w] \in outbox
    BY <1>5 DEF Route, WorkerOK
  <2>2. job[w] # Null
    BY <2>1, <1>a
  <2> QED BY <1>5, <1>b, <2>2 DEF Route
<1>6. ASSUME NEW w \in Workers, Remove(w) PROVE OrderInv' /\ InOrder
  <2>1. job[w] \in delivered
    BY <1>6 DEF Remove, WorkerOK
  <2> QED BY <1>6, <2>1 DEF Remove
<1>7. ASSUME NEW w \in Workers, Reject(w) \/ Fail(w) PROVE OrderInv' /\ InOrder
  <2>1. UNCHANGED <<queued, outbox, delivered>> /\ job' = [job EXCEPT ![w] = Null]
    BY <1>7 DEF Reject, Fail, Disconnect
  <2>2. ASSUME NEW e \in stray' PROVE Causes[e] \cap outbox = {}
    <3>1. CASE e \in stray
      BY <3>1
    <3>2. CASE e \notin stray
      <4>1. pc[w] = "published" /\ e = job[w]
        BY <1>7, <2>2, <3>2 DEF Reject, Fail
      <4>2. job[w] # Null
        BY <4>1, <1>a DEF WorkerOK
      <4> QED BY <4>1, <4>2
    <3> QED BY <3>1, <3>2
  <2> QED BY <2>1, <2>2
<1>8. ASSUME NEW w \in Workers,
             \/ Connect(w) \/ Publish(w) \/ \E a \in {"return", "nack"} : Refuse(w, a)
      PROVE  OrderInv' /\ InOrder
  BY <1>8 DEF Connect, Publish, Refuse
<1>9. CASE UNCHANGED outboxVars
  BY <1>9 DEF outboxVars
<1> QED BY <1>1, <1>2, <1>3, <1>4, <1>5, <1>6, <1>7, <1>8, <1>9 DEF OutboxNext

\* With one replica events arrive oldest first: ORDER BY in one chooses the
\* oldest row, and no crash, restart or late answer of the broker lets a
\* younger event pass.  With two replicas this is false (run OutboxOrder).
THEOREM OneReplicaTheorem == ServerSpec => OneReplicaKeepsOrder
<1> DEFINE Ordered == Cardinality(Workers) = 1 => OrderInv
<1>1. ServerInit => OutboxInv /\ Ordered
  <2>1. ServerInit => OutboxInv
    BY OutboxInitInv DEF ServerInit
  <2>2. ServerInit => Ordered
    BY DEF ServerInit, OutboxInit, OrderInv
  <2> QED BY <2>1, <2>2
<1>2. ASSUME OutboxInv, Ordered, [ServerNext]_allVars
      PROVE  Ordered' /\ (Cardinality(Workers) = 1 => InOrder)
  <2> SUFFICES ASSUME Cardinality(Workers) = 1 PROVE OrderInv' /\ InOrder
    OBVIOUS
  <2>1. PICK v : Workers = {v}
    BY ServerAssumption, FS_Singleton
  <2> QED BY <1>2, <2>1, ServerStepsOutbox, OrderStep
<1>3. OutboxInv /\ Ordered /\ [ServerNext]_allVars => (OutboxInv /\ Ordered)'
  BY <1>2, ServerStepsOutbox, OutboxStep
<1>4. OutboxInv /\ Ordered /\ [ServerNext]_allVars
        => [Cardinality(Workers) = 1 =>
              \A e \in delivered' \ delivered : Causes[e] \subseteq delivered]_allVars
  BY <1>2 DEF InOrder
<1> QED BY <1>1, <1>3, <1>4, PTL DEF ServerSpec, OneReplicaKeepsOrder
=============================================================================
