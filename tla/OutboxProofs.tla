---------------------------- MODULE OutboxProofs ---------------------------
(***************************************************************************)
(* The outbox implements at-least-once delivery, for any number of events  *)
(* and workers.                                                            *)
(***************************************************************************)
EXTENDS Outbox, TLAPS

\* What a worker holds: a row of the table, alone, and once the broker has
\* acknowledged it, a delivered event.
WorkerOK(w) ==
    /\ pc[w] \in {"claimed", "published"} => job[w] \in outbox
    /\ pc[w] \in {"down", "idle"} => job[w] = Null
    /\ pc[w] = "published" /\ answer[w] = "ack" => job[w] \in delivered

OutboxInv ==
    /\ OutboxTypeOK
    /\ outbox \subseteq queued
    /\ stray \subseteq queued
    /\ \A w \in Workers : WorkerOK(w)
    /\ \A v, w \in Workers : job[v] = job[w] /\ job[v] # Null => v = w

\* A saturating counter stays within its bound.
LEMMA CountRange ==
    ASSUME NEW max \in Nat, NEW n \in 0 .. max
    PROVE  Count(n, max) \in 0 .. max
BY DEF Count

\* The empty outbox satisfies the invariant.
LEMMA OutboxInitInv == OutboxInit => OutboxInv
BY OutboxAssumption DEF OutboxInit, OutboxInv, OutboxTypeOK, WorkerOK

\* The invariant is inductive.
LEMMA OutboxStep == OutboxInv /\ [OutboxNext]_outboxVars => OutboxInv'
<1> SUFFICES ASSUME OutboxInv, [OutboxNext]_outboxVars PROVE OutboxInv'
  OBVIOUS
<1> USE DEF OutboxInv, OutboxTypeOK
<1>a. MaxCount \in Nat /\ MaxCount + 1 \in Nat /\ Null \notin Events
  BY OutboxAssumption
<1>b. ASSUME NEW w \in Workers, pc[w] \in {"claimed", "published"}
      PROVE  job[w] \in Events /\ job[w] \in outbox /\ job[w] # Null /\ job[w] \in queued
  BY <1>a, <1>b DEF WorkerOK
<1>1. ASSUME NEW e \in Events, Queue(e) PROVE OutboxInv'
  BY <1>1 DEF Queue, WorkerOK
<1>2. ASSUME NEW e \in Events, RouteStray(e) PROVE OutboxInv'
  <2>1. routed' \in [Events -> 0 .. MaxCount + 1]
    BY <1>2, <1>a, CountRange DEF RouteStray
  <2> QED BY <1>2, <2>1 DEF RouteStray, WorkerOK
<1>3. ASSUME NEW e \in Events, DropStray(e) PROVE OutboxInv'
  BY <1>3 DEF DropStray, WorkerOK
<1>4. ASSUME NEW w \in Workers, Connect(w) PROVE OutboxInv'
  BY <1>4 DEF Connect, WorkerOK
<1>5. ASSUME NEW w \in Workers, Claim(w) PROVE OutboxInv'
  <2>1. PICK e \in Oldest(Unlocked) : job' = [job EXCEPT ![w] = e]
    BY <1>5 DEF Claim
  <2>2. e \in outbox /\ \A v \in Workers : job[v] # e
    BY <2>1 DEF Oldest, Unlocked
  <2> QED BY <1>5, <1>a, <2>1, <2>2 DEF Claim, WorkerOK
<1>6. ASSUME NEW w \in Workers, Publish(w) PROVE OutboxInv'
  BY <1>6 DEF Publish, WorkerOK
<1>7. ASSUME NEW w \in Workers, Route(w) PROVE OutboxInv'
  <2>1. job[w] \in Events
    BY <1>7, <1>b DEF Route
  <2>2. routed' \in [Events -> 0 .. MaxCount + 1]
    BY <1>7, <1>a, <2>1, CountRange DEF Route
  <2> QED BY <1>7, <2>1, <2>2 DEF Route, WorkerOK
<1>8. ASSUME NEW w \in Workers, NEW a \in {"return", "nack"}, Refuse(w, a) PROVE OutboxInv'
  BY <1>8 DEF Refuse, WorkerOK
<1>9. ASSUME NEW w \in Workers, Remove(w) PROVE OutboxInv'
  <2>1. job[w] \in Events /\ job[w] # Null
    BY <1>9, <1>b DEF Remove
  <2>2. \A v \in Workers : WorkerOK(v)'
    BY <1>9, <2>1 DEF Remove, WorkerOK
  <2> QED BY <1>9, <2>2 DEF Remove
<1>10. ASSUME NEW w \in Workers, Disconnect(w), stray' \in SUBSET queued PROVE OutboxInv'
  <2>1. lost' \in [Events -> 0 .. MaxCount]
    BY <1>10, <1>a, <1>b, CountRange DEF Disconnect
  <2>2. \A v \in Workers : WorkerOK(v)'
    BY <1>10 DEF Disconnect, WorkerOK
  <2> QED BY <1>10, <2>1, <2>2 DEF Disconnect
<1>11. ASSUME NEW w \in Workers, Reject(w) PROVE OutboxInv'
  BY <1>10, <1>11 DEF Reject
<1>12. ASSUME NEW w \in Workers, Fail(w) PROVE OutboxInv'
  BY <1>10, <1>12, <1>b DEF Fail
<1>13. CASE UNCHANGED outboxVars
  BY <1>13 DEF outboxVars, WorkerOK
<1> QED BY <1>1, <1>2, <1>3, <1>4, <1>5, <1>6, <1>7, <1>8, <1>9, <1>11, <1>12, <1>13
        DEF OutboxNext

\* A row leaves the outbox only after the broker has routed its event: every
\* step of workers, broker and failures is a step of AtLeastOnce or none.
THEOREM OutboxIsAtLeastOnce == OutboxSpec => ImplementsAtLeastOnce
<1>1. OutboxInit => Promise!AbstractInit
  BY DEF OutboxInit, Promise!AbstractInit
<1>2. ASSUME OutboxInv, [OutboxNext]_outboxVars
      PROVE  [Promise!AbstractNext]_(Promise!abstractVars)
  <2> USE DEF OutboxInv, OutboxTypeOK, Promise!AbstractNext, Promise!abstractVars
  <2>1. ASSUME NEW e \in Events, Queue(e)
        PROVE  Promise!AbstractNext
    BY <2>1 DEF Queue, Promise!Accepts
  <2>2. ASSUME NEW e \in Events, RouteStray(e)
        PROVE  Promise!AbstractNext
    BY <1>2, <2>2 DEF RouteStray, Promise!Delivers
  <2>3. ASSUME NEW w \in Workers, Route(w)
        PROVE  Promise!AbstractNext
    <3>1. job[w] \in Events /\ job[w] \in queued
      BY <1>2, <2>3, OutboxAssumption DEF Route, WorkerOK
    <3> QED BY <2>3, <3>1 DEF Route, Promise!Delivers
  <2>4. ASSUME NEW w \in Workers, Remove(w)
        PROVE  Promise!AbstractNext
    <3>1. job[w] \in outbox /\ job[w] \in delivered /\ job[w] \in Events
      BY <1>2, <2>4, OutboxAssumption DEF Remove, WorkerOK
    <3> QED BY <2>4, <3>1 DEF Remove, Promise!Removes
  <2>5. ASSUME NEW w \in Workers,
               \/ Connect(w) \/ Claim(w) \/ Publish(w) \/ Reject(w) \/ Fail(w)
               \/ \E a \in {"return", "nack"} : Refuse(w, a)
        PROVE  UNCHANGED <<queued, outbox, delivered>>
    BY <2>5 DEF Connect, Claim, Publish, Reject, Fail, Refuse, Disconnect
  <2>6. ASSUME NEW e \in Events, DropStray(e)
        PROVE  UNCHANGED <<queued, outbox, delivered>>
    BY <2>6 DEF DropStray
  <2>7. CASE UNCHANGED outboxVars
    BY <2>7 DEF outboxVars
  <2> QED BY <1>2, <2>1, <2>2, <2>3, <2>4, <2>5, <2>6, <2>7 DEF OutboxNext
<1> QED BY <1>1, <1>2, OutboxInitInv, OutboxStep, PTL
        DEF OutboxSpec, ImplementsAtLeastOnce, Promise!AbstractSpec

-----------------------------------------------------------------------------
\* The broker has acknowledged e and nobody has given the row up since.
Settled(e) ==
    \/ e \notin outbox
    \/ \E w \in Workers : job[w] = e /\ pc[w] = "published" /\ answer[w] = "ack"

One(condition) == IF condition THEN 1 ELSE 0

\* While the counters are exact: a stray publication may still be routed, and
\* an event that is not settled was routed only by publications that were lost.
Balance(e) ==
    lost[e] < MaxCount => routed[e] + One(e \in stray) <= lost[e] + One(Settled(e))

DuplicatesInv ==
    /\ \A e \in Events : Balance(e)
    /\ \A e \in Events \ queued : routed[e] = 0

\* A step that leaves an event's counters and rows alone keeps its balance.
LEMMA BalanceKept ==
    ASSUME NEW e \in Events, Balance(e), lost'[e] = lost[e], routed'[e] = routed[e],
           (e \in stray)' => e \in stray, Settled(e) => Settled(e)',
           lost[e] \in Nat, routed[e] \in Nat
    PROVE  Balance(e)'
BY DEF Balance, One

\* The balance is inductive.
LEMMA DuplicatesStep ==
    OutboxInv /\ DuplicatesInv /\ [OutboxNext]_outboxVars => DuplicatesInv'
<1> SUFFICES ASSUME OutboxInv, DuplicatesInv, [OutboxNext]_outboxVars
             PROVE  DuplicatesInv'
  OBVIOUS
<1>a. /\ MaxCount \in Nat /\ Null \notin Events
      /\ \A e \in Events : lost[e] \in 0 .. MaxCount /\ routed[e] \in 0 .. MaxCount + 1
  BY OutboxAssumption DEF OutboxInv, OutboxTypeOK
<1>b. \A e \in Events : lost[e] \in Nat /\ routed[e] \in Nat
  BY <1>a
<1>1. ASSUME NEW e \in Events, Queue(e) PROVE DuplicatesInv'
  <2>1. ASSUME NEW d \in Events, d # e PROVE Balance(d)'
    <3>1. Settled(d) => Settled(d)'
      BY <1>1, <2>1 DEF Queue, Settled
    <3> QED BY <1>1, <1>b, <3>1, BalanceKept DEF Queue, DuplicatesInv
  <2>2. Balance(e)'
    <3>1. routed[e] = 0 /\ e \notin stray
      BY <1>1 DEF Queue, DuplicatesInv, OutboxInv
    <3>2. One(Settled(e))' \in Nat /\ One(e \in stray)' = 0
      BY <1>1, <3>1 DEF Queue, One
    <3> QED BY <1>1, <1>b, <3>1, <3>2 DEF Queue, Balance
  <2> QED BY <1>1, <2>1, <2>2 DEF Queue, DuplicatesInv
<1>2. ASSUME NEW e \in Events, RouteStray(e) PROVE DuplicatesInv'
  <2>1. ASSUME NEW d \in Events, d # e PROVE Balance(d)'
    <3>1. Settled(d) => Settled(d)'
      BY <1>2 DEF RouteStray, Settled
    <3>2. routed'[d] = routed[d]
      BY <1>2, <2>1 DEF RouteStray, OutboxInv, OutboxTypeOK
    <3> QED BY <1>2, <1>b, <3>1, <3>2, BalanceKept DEF RouteStray, DuplicatesInv
  <2>2. Balance(e)'
    <3>1. Settled(e)' <=> Settled(e)
      BY <1>2 DEF RouteStray, Settled
    <3>2. routed'[e] \in Nat /\ routed'[e] <= routed[e] + 1
      BY <1>2, <1>a DEF RouteStray, Count, OutboxInv, OutboxTypeOK
    <3>3. One(e \in stray) = 1 /\ One(e \in stray)' = 0
      BY <1>2 DEF RouteStray, One
    <3>4. One(Settled(e))' = One(Settled(e)) /\ One(Settled(e)) \in Nat
      BY <3>1 DEF One
    <3> QED BY <1>2, <1>b, <3>2, <3>3, <3>4 DEF RouteStray, Balance, DuplicatesInv
  <2>3. e \in queued
    BY <1>2 DEF RouteStray, OutboxInv
  <2> QED BY <1>2, <2>1, <2>2, <2>3 DEF RouteStray, DuplicatesInv, OutboxInv, OutboxTypeOK
<1>3. ASSUME NEW e \in Events, DropStray(e) PROVE DuplicatesInv'
  <2>1. ASSUME NEW d \in Events PROVE Settled(d) => Settled(d)'
    BY <1>3 DEF DropStray, Settled
  <2> QED BY <1>3, <1>b, <2>1, BalanceKept DEF DropStray, DuplicatesInv
<1>4. ASSUME NEW w \in Workers,
             Connect(w) \/ Claim(w) \/ Publish(w) \/ \E a \in {"return", "nack"} : Refuse(w, a)
      PROVE  DuplicatesInv'
  <2>1. ASSUME NEW d \in Events PROVE Settled(d) => Settled(d)'
    BY <1>4 DEF Connect, Claim, Publish, Refuse, Settled, OutboxInv, OutboxTypeOK
  <2>2. UNCHANGED <<lost, routed, stray, queued>>
    BY <1>4 DEF Connect, Claim, Publish, Refuse
  <2> QED BY <1>b, <2>1, <2>2, BalanceKept DEF DuplicatesInv
<1>5. ASSUME NEW w \in Workers, Route(w) PROVE DuplicatesInv'
  <2>0. job[w] \in Events /\ job[w] \in outbox /\ job[w] \in queued
    BY <1>5, <1>a DEF Route, OutboxInv, OutboxTypeOK, WorkerOK
  <2>1. ASSUME NEW d \in Events, d # job[w] PROVE Balance(d)'
    <3>1. Settled(d) => Settled(d)'
      BY <1>5, <2>1 DEF Route, Settled, OutboxInv, OutboxTypeOK
    <3>2. routed'[d] = routed[d]
      BY <1>5, <2>1 DEF Route, OutboxInv, OutboxTypeOK
    <3> QED BY <1>5, <1>b, <3>1, <3>2, BalanceKept DEF Route, DuplicatesInv
  <2>2. Balance(job[w])'
    <3> DEFINE e == job[w]
    <3>1. ~Settled(e)
      BY <1>5, <2>0, <1>a DEF Route, Settled, OutboxInv
    <3>2. routed'[e] \in Nat /\ routed'[e] <= routed[e] + 1
      BY <1>5, <1>a, <2>0 DEF Route, Count, OutboxInv, OutboxTypeOK
    <3>3. One(Settled(e)) = 0
      BY <3>1 DEF One
    <3>4. Settled(e)'
      BY <1>5 DEF Route, Settled, OutboxInv, OutboxTypeOK
    <3>5. One(Settled(e))' = 1
      BY <3>4 DEF One
    <3>6. One(e \in stray)' = One(e \in stray) /\ One(e \in stray) \in Nat
      BY <1>5 DEF Route, One
    <3>7. Balance(e) /\ lost' = lost /\ e' = e
      BY <1>5, <2>0 DEF Route, DuplicatesInv
    <3> QED BY <1>b, <2>0, <3>2, <3>3, <3>5, <3>6, <3>7 DEF Balance
  <2> QED BY <1>5, <2>0, <2>1, <2>2 DEF Route, DuplicatesInv, OutboxInv, OutboxTypeOK
<1>6. ASSUME NEW w \in Workers, Remove(w) PROVE DuplicatesInv'
  <2>1. ASSUME NEW d \in Events PROVE Settled(d) => Settled(d)'
    BY <1>6 DEF Remove, Settled, OutboxInv, OutboxTypeOK
  <2> QED BY <1>6, <1>b, <2>1, BalanceKept DEF Remove, DuplicatesInv
<1>7. ASSUME NEW w \in Workers, Disconnect(w),
             stray' = IF pc[w] = "published" /\ answer[w] = "none"
                      THEN stray \cup {job[w]} ELSE stray
      PROVE  DuplicatesInv'
  <2>0. pc[w] = "published" => job[w] \in Events /\ job[w] \in outbox
    BY <1>a DEF OutboxInv, OutboxTypeOK, WorkerOK
  <2>1. ASSUME NEW d \in Events, pc[w] = "published" => d # job[w] PROVE Balance(d)'
    <3>1. Settled(d) => Settled(d)'
      BY <1>7, <2>1 DEF Disconnect, Settled, OutboxInv, OutboxTypeOK
    <3>2. routed'[d] = routed[d] /\ lost'[d] = lost[d] /\ ((d \in stray)' => d \in stray)
      BY <1>7, <2>1 DEF Disconnect, OutboxInv, OutboxTypeOK
    <3> QED BY <1>b, <3>1, <3>2, BalanceKept DEF DuplicatesInv
  <2>2. ASSUME NEW e \in Events, pc[w] = "published", e = job[w] PROVE Balance(e)'
    <3>1. lost'[e] = Count(lost[e], MaxCount) /\ routed'[e] = routed[e]
      BY <1>7, <2>2 DEF Disconnect, OutboxInv, OutboxTypeOK
    <3>2. lost'[e] < MaxCount => lost[e] < MaxCount /\ lost'[e] = lost[e] + 1
      BY <1>a, <3>1 DEF Count
    <3>3. /\ One(e \in stray) \in {0, 1} /\ One(e \in stray)' \in {0, 1}
          /\ One(Settled(e)) \in {0, 1} /\ One(Settled(e))' \in {0, 1}
      BY DEF One
    <3>4. CASE answer[w] = "none"
      <4>1. One(Settled(e)) = 0
        BY <2>0, <2>2, <3>4, <1>a DEF Settled, OutboxInv, One
      <4> QED BY <1>b, <3>1, <3>2, <3>3, <4>1 DEF Balance, DuplicatesInv
    <3>5. CASE answer[w] # "none"
      <4>1. One(e \in stray)' = One(e \in stray)
        BY <1>7, <3>5 DEF One
      <4> QED BY <1>b, <3>1, <3>2, <3>3, <4>1 DEF Balance, DuplicatesInv
    <3> QED BY <3>4, <3>5
  <2>3. \A d \in Events : Balance(d)'
    BY <2>0, <2>1, <2>2
  <2> QED BY <1>7, <2>3 DEF Disconnect, DuplicatesInv
<1>8. ASSUME NEW w \in Workers, Fail(w) \/ Reject(w) PROVE DuplicatesInv'
  BY <1>7, <1>8 DEF Fail, Reject
<1>9. CASE UNCHANGED outboxVars
  <2>1. ASSUME NEW d \in Events PROVE Settled(d) => Settled(d)'
    BY <1>9 DEF outboxVars, Settled
  <2> QED BY <1>9, <1>b, <2>1, BalanceKept DEF outboxVars, DuplicatesInv
<1> QED BY <1>1, <1>2, <1>3, <1>4, <1>5, <1>6, <1>8, <1>9 DEF OutboxNext

\* A duplicate has a cause (FOR UPDATE SKIP LOCKED, held until the row is
\* deleted): for any number of replicas an event is routed at most once more
\* than publications of it were lost.
THEOREM DuplicatesHaveACause == OutboxSpec => []DuplicatesNeedFailure
<1>1. OutboxInit => DuplicatesInv
  <2>1. ASSUME OutboxInit, NEW e \in Events PROVE Balance(e)
    BY <2>1, OutboxAssumption DEF OutboxInit, Balance, Settled, One
  <2> QED BY <2>1 DEF OutboxInit, DuplicatesInv
<1>2. OutboxInv /\ DuplicatesInv => DuplicatesNeedFailure
  <2>1. ASSUME OutboxInv, DuplicatesInv, NEW e \in Events PROVE routed[e] <= 1 + lost[e]
    <3>1. One(e \in stray) \in {0, 1} /\ One(Settled(e)) \in {0, 1}
      BY DEF One
    <3>2. lost[e] \in 0 .. MaxCount /\ routed[e] \in 0 .. MaxCount + 1 /\ MaxCount \in Nat
      BY <2>1, OutboxAssumption DEF OutboxInv, OutboxTypeOK
    <3> QED BY <2>1, <3>1, <3>2 DEF DuplicatesInv, Balance
  <2> QED BY <2>1 DEF DuplicatesNeedFailure
<1> QED BY <1>1, <1>2, OutboxInitInv, OutboxStep, DuplicatesStep, PTL DEF OutboxSpec
=============================================================================
