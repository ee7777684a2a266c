----------------------------- MODULE TotpProofs ----------------------------
(***************************************************************************)
(* Proofs about TotpCodes for any number of accounts, replicas and secrets *)
(* and any period, with codes that may collide.                            *)
(***************************************************************************)
EXTENDS TotpCodes, FiniteSetTheorems, TLAPS

\* What the database and the ghosts look like; the limiter does not matter here.
CodesTypeOK ==
    /\ totp \in [Accounts -> TotpRow \cup {Null}]
    /\ request \in [Accounts -> EnrolmentRow \cup {Null}]
    /\ drawn \in SUBSET Secrets
    /\ uses \in [Secrets -> [Factors -> Nat]]

ClockOK == now \in Time

\* Of the secret in force no factor after last_used_step was accepted.
FactorOK(a) ==
    totp[a] # Null =>
      /\ totp[a].secret \in drawn
      /\ \A k \in Factors : k > totp[a].last => uses[totp[a].secret][k] = 0

\* A pending secret has confirmed nothing.
PendingOK(a) ==
    request[a] # Null =>
      /\ request[a].secret \in drawn
      /\ \A k \in Factors : uses[request[a].secret][k] = 0

\* No two rows hold the same secret.
Apart(a, b) ==
    /\ totp[a] # Null /\ totp[b] # Null /\ totp[a].secret = totp[b].secret => a = b
    /\ request[a] # Null /\ request[b] # Null /\ request[a].secret = request[b].secret => a = b
    /\ totp[a] # Null /\ request[b] # Null => totp[a].secret # request[b].secret

ReplayInv ==
    /\ CodesTypeOK
    /\ \A a \in Accounts : FactorOK(a) /\ PendingOK(a)
    /\ \A a, b \in Accounts : Apart(a, b)
    /\ \A s \in Secrets \ drawn, k \in Factors : uses[s][k] = 0
    /\ NoReplay

\* totpStep returns one of the candidates: a factor after the last one.
LEMMA StepIsCandidate ==
    ASSUME NEW s, NEW c, NEW last \in Int, now \in Time, Candidates(s, c, last) # {}
    PROVE  /\ totpStep(s, c, last) \in Factors
           /\ totpStep(s, c, last) > last
<1> DEFINE current == now \div Period
           K == Candidates(s, c, last)
<1>1. current \in Nat /\ current <= MaxTime \div Period /\ MaxTime \div Period \in Nat
  BY TotpAssumption DEF Time
<1>2. \A k \in K : k \in {current - 1, current, current + 1} /\ k > last /\ k >= 0
  BY DEF Candidates
<1>3. totpStep(s, c, last) \in K
  <2>1. totpStep(s, c, last) =
          IF current \in K THEN current
          ELSE IF current - 1 \in K THEN current - 1 ELSE current + 1
        BY DEF totpStep
  <2> QED BY <1>2, <2>1
<1> HIDE DEF K, current
<1> QED BY <1>1, <1>2, <1>3 DEF Factors

\* Accepting factor k of account a's own secret s, none after which was used.
LEMMA Acceptance ==
    ASSUME ReplayInv, NEW a \in Accounts, NEW s \in Secrets, NEW k \in Factors,
           \A j \in Factors : j >= k => uses[s][j] = 0,
           \/ totp[a] # Null /\ totp[a].secret = s /\ request' = request
           \/ request[a] # Null /\ request[a].secret = s
              /\ request' = [request EXCEPT ![a] = Null],
           totp' = [totp EXCEPT ![a] = [secret |-> s, last |-> k]],
           Used(s, k), drawn' = drawn
    PROVE  ReplayInv'
<1> DEFINE row == [secret |-> s, last |-> k]
<1>a. row \in TotpRow /\ row # Null /\ row.secret = s /\ row.last = k /\ k \in Int
  BY TotpAssumption DEF TotpRow, Factors
<1>b. totp' = [totp EXCEPT ![a] = row]
  OBVIOUS
<1> HIDE DEF row
<1>c. CodesTypeOK
  BY DEF ReplayInv
<1>d. /\ \A x \in Secrets \ {s} : uses'[x] = uses[x]
      /\ \A j \in Factors \ {k} : uses'[s][j] = uses[s][j]
      /\ uses'[s][k] = uses[s][k] + 1
      /\ uses' \in [Secrets -> [Factors -> Nat]]
  BY <1>c DEF Used, CodesTypeOK
<1>e. s \in drawn
  BY DEF ReplayInv, FactorOK, PendingOK
<1>f. \A b \in Accounts : request'[b] # Null => request'[b] = request[b]
  BY <1>c DEF CodesTypeOK
<1>g. uses[s][k] = 0
  BY <1>a
<1>h. /\ totp'[a] = row /\ \A b \in Accounts \ {a} : totp'[b] = totp[b]
  BY <1>b, <1>c DEF CodesTypeOK
<1>1. CodesTypeOK'
  BY <1>a, <1>b, <1>c, <1>d DEF CodesTypeOK
<1>2. ASSUME NEW b \in Accounts
      PROVE  Apart(a, b) /\ Apart(b, a) /\ FactorOK(b) /\ PendingOK(b)
  BY DEF ReplayInv
<1>3. ASSUME NEW b \in Accounts
      PROVE  FactorOK(b)'
  <2>1. CASE b = a
    <3>1. \A j \in Factors : j > k => uses'[s][j] = 0
          BY <1>a, <1>d DEF Factors
    <3> QED BY <1>a, <1>e, <1>h, <2>1, <3>1 DEF FactorOK
  <2>2. CASE b # a
    <3>1. totp[b] # Null => totp[b].secret # s
          BY <1>2, <2>2 DEF Apart
    <3>2. totp[b] # Null => totp[b].secret \in Secrets
          BY <1>c DEF CodesTypeOK, TotpRow
    <3> QED BY <1>2, <1>d, <1>h, <2>2, <3>1, <3>2 DEF FactorOK
  <2> QED BY <2>1, <2>2
<1>4. ASSUME NEW b \in Accounts
      PROVE  PendingOK(b)'
  <2>1. SUFFICES ASSUME request'[b] # Null PROVE PendingOK(b)'
        BY DEF PendingOK
  <2>2. request'[b] = request[b]
        BY <1>f, <2>1
  <2>3. request[b].secret # s
        BY <1>2, <2>1, <2>2, <1>c DEF Apart, CodesTypeOK
  <2>4. request[b].secret \in Secrets
        BY <1>c, <2>1, <2>2 DEF CodesTypeOK, EnrolmentRow
  <2> QED BY <1>2, <1>d, <2>1, <2>2, <2>3, <2>4 DEF PendingOK
<1>5. ASSUME NEW b \in Accounts, NEW d \in Accounts
      PROVE  Apart(b, d)'
  <2>1. Apart(b, d)
        BY DEF ReplayInv
  <2>2. \A x \in Accounts \ {a} : totp[x] # Null => totp[x].secret # s
        BY <1>2 DEF Apart
  <2>3. \A x \in Accounts : request'[x] # Null => request[x].secret # s
        BY <1>2, <1>f, <1>c DEF Apart, CodesTypeOK
  <2> QED BY <1>a, <1>f, <1>h, <2>1, <2>2, <2>3 DEF Apart
<1>6. \A x \in Secrets \ drawn', j \in Factors : uses'[x][j] = 0
  BY <1>d, <1>e DEF ReplayInv
<1>7. NoReplay'
  <2> SUFFICES ASSUME NEW x \in Secrets, NEW j \in Factors PROVE uses'[x][j] <= 1
      BY DEF NoReplay
  <2>1. uses[x][j] <= 1
        BY DEF ReplayInv, NoReplay
  <2> QED BY <1>d, <1>g, <2>1
<1> QED BY <1>1, <1>3, <1>4, <1>5, <1>6, <1>7 DEF ReplayInv

\* Steps that only remove rows keep the invariant.
LEMMA Removal ==
    ASSUME ReplayInv, UNCHANGED <<drawn, uses>>, CodesTypeOK',
           \A a \in Accounts : totp'[a] = Null \/ totp'[a] = totp[a],
           \A a \in Accounts : request'[a] = Null \/ request'[a] = request[a]
    PROVE  ReplayInv'
<1>1. \A a \in Accounts : FactorOK(a)' /\ PendingOK(a)'
  BY DEF ReplayInv, FactorOK, PendingOK
<1>2. \A a, b \in Accounts : Apart(a, b)'
  BY DEF ReplayInv, Apart
<1> QED BY <1>1, <1>2 DEF ReplayInv, NoReplay

\* Every step keeps the invariant (the clock stays typed by itself).
LEMMA ReplayStep ==
    ReplayInv /\ ClockOK /\ [TotpNext]_totpVars => ReplayInv' /\ ClockOK'
<1> USE DEF ClockOK
<1> SUFFICES ASSUME ReplayInv, now \in Time, [TotpNext]_totpVars
             PROVE  ReplayInv' /\ now' \in Time
    OBVIOUS
<1>a. CodesTypeOK
  BY DEF ReplayInv
<1>b. UNCHANGED <<totp, request, drawn, uses>> => ReplayInv'
  BY <1>a, Removal DEF CodesTypeOK
<1>1. ASSUME NEW a \in Accounts, NEW s \in Secrets, StartTotp(a, s)
      PROVE  ReplayInv' /\ now' \in Time
  <2> DEFINE row == [secret |-> s, exp |-> now + RequestTTL]
  <2>1. row \in EnrolmentRow /\ row # Null /\ row.secret = s
        BY TotpAssumption DEF EnrolmentRow, Time
  <2>2. /\ request' = [request EXCEPT ![a] = row] /\ drawn' = drawn \cup {s}
        /\ s \notin drawn /\ UNCHANGED <<now, totp, uses>>
        BY <1>1 DEF StartTotp
  <2> HIDE DEF row
  <2>3. CodesTypeOK'
        BY <1>a, <2>1, <2>2 DEF CodesTypeOK
  <2>4. request'[a] = row /\ \A b \in Accounts \ {a} : request'[b] = request[b]
        BY <1>a, <2>2 DEF CodesTypeOK
  <2>5. \A b \in Accounts : /\ totp[b] # Null => totp[b].secret # s
                            /\ request[b] # Null => request[b].secret # s
        BY <2>2 DEF ReplayInv, FactorOK, PendingOK
  <2>6. \A k \in Factors : uses[s][k] = 0
        BY <2>2 DEF ReplayInv
  <2>7. \A b \in Accounts : FactorOK(b)' /\ PendingOK(b)'
        BY <2>1, <2>2, <2>4, <2>6 DEF ReplayInv, FactorOK, PendingOK
  <2>8. ASSUME NEW b \in Accounts, NEW d \in Accounts
        PROVE  Apart(b, d)'
    <3>1. Apart(b, d)
          BY DEF ReplayInv
    <3> QED BY <2>1, <2>2, <2>4, <2>5, <3>1 DEF Apart
  <2> QED BY <2>2, <2>3, <2>7, <2>8 DEF ReplayInv, NoReplay
<1>2. ASSUME NEW a \in Accounts, NEW c \in Codes, AttemptTotp(a, c)
      PROVE  ReplayInv' /\ now' \in Time
  <2> DEFINE s == totp[a].secret
             k == totpStep(s, c, totp[a].last)
  <2>1. /\ totp[a] # Null /\ Candidates(s, c, totp[a].last) # {}
        /\ totp' = [totp EXCEPT ![a] = [secret |-> s, last |-> k]] /\ Used(s, k)
        /\ UNCHANGED <<now, request, drawn>>
        BY <1>2 DEF AttemptTotp
  <2>2. totp[a] \in TotpRow
        BY <1>a, <2>1 DEF CodesTypeOK
  <2>3. s \in Secrets /\ totp[a].last \in Int
        BY <2>2 DEF TotpRow, Factors
  <2>4. k \in Factors /\ k > totp[a].last
        BY <2>1, <2>3, StepIsCandidate
  <2>5. \A j \in Factors : j >= k => uses[s][j] = 0
    <3>1. \A j \in Factors : j > totp[a].last => uses[s][j] = 0
          BY <2>1 DEF ReplayInv, FactorOK
    <3> HIDE DEF s, k
    <3> QED BY <2>3, <2>4, <3>1 DEF Factors
  <2>6. totp[a].secret = s
        OBVIOUS
  <2> HIDE DEF s, k
  <2>7. ReplayInv'
        BY <2>1, <2>3, <2>4, <2>5, <2>6, Acceptance
  <2> QED BY <2>1, <2>7
<1>3. ASSUME NEW a \in Accounts, DeleteTotp(a)
      PROVE  ReplayInv' /\ now' \in Time
  <2>1. /\ CodesTypeOK' /\ UNCHANGED <<now, request, drawn, uses>>
        /\ \A b \in Accounts : totp'[b] = Null \/ totp'[b] = totp[b]
        BY <1>3, <1>a DEF DeleteTotp, CodesTypeOK
  <2> QED BY <2>1, Removal
<1>4. ASSUME NEW r \in Replicas, NEW a \in Accounts, NEW c \in Codes, ConfirmTotp(r, a, c)
      PROVE  ReplayInv' /\ now' \in Time
  <2> DEFINE s == request[a].secret
             k == totpStep(s, c, -1)
  <2>1. /\ request[a] # Null /\ Candidates(s, c, -1) # {}
        /\ totp' = [totp EXCEPT ![a] = [secret |-> s, last |-> k]] /\ Used(s, k)
        /\ request' = [request EXCEPT ![a] = Null] /\ UNCHANGED <<now, drawn>>
        BY <1>4 DEF ConfirmTotp
  <2>2. s \in Secrets
        BY <1>a, <2>1 DEF CodesTypeOK, EnrolmentRow
  <2>3. k \in Factors
        BY <2>1, StepIsCandidate
  <2>4. \A j \in Factors : j >= k => uses[s][j] = 0
        BY <2>1 DEF ReplayInv, PendingOK
  <2>5. request[a].secret = s
        OBVIOUS
  <2> HIDE DEF s, k
  <2>6. ReplayInv'
        BY <2>1, <2>2, <2>3, <2>4, <2>5, Acceptance
  <2> QED BY <2>1, <2>6
<1>5. ASSUME NEW r \in Replicas, NEW a \in Accounts,
             Allow(r, a) \/ Deny(r, a) \/ ConfirmRefused(r, a)
      PROVE  ReplayInv' /\ now' \in Time
  BY <1>5, <1>b DEF Allow, Deny, ConfirmRefused
<1>6. ASSUME NEW r \in Replicas, Restart(r)
      PROVE  ReplayInv' /\ now' \in Time
  BY <1>6, <1>b DEF Restart
<1>7. CASE Cleanup
  <2>1. /\ CodesTypeOK' /\ UNCHANGED <<now, totp, drawn, uses>>
        /\ \A b \in Accounts : request'[b] = Null \/ request'[b] = request[b]
        BY <1>7, <1>a DEF Cleanup, CodesTypeOK
  <2> QED BY <2>1, Removal
<1>8. CASE Tick
  BY <1>8, <1>b, TotpAssumption DEF Tick, Time
<1>9. CASE UNCHANGED totpVars
  BY <1>9, <1>b DEF totpVars
<1> QED BY <1>1, <1>2, <1>3, <1>4, <1>5, <1>6, <1>7, <1>8, <1>9 DEF TotpNext

\* totpStep and last_used_step never accept a code twice for a moving factor,
\* through enrolment, sign-ins, removal and re-enrolment.
THEOREM NoReplayTheorem == TotpSpec => []NoReplay
<1>1. TotpInit => ReplayInv /\ ClockOK
  BY TotpAssumption DEF TotpInit, ReplayInv, CodesTypeOK, FactorOK, PendingOK, Apart,
     NoReplay, ClockOK, Time
<1>2. ReplayInv => NoReplay
  BY DEF ReplayInv
<1> QED BY <1>1, <1>2, ReplayStep, PTL DEF TotpSpec

-----------------------------------------------------------------------------
LimiterTypeOK == window \in [Replicas -> [Accounts -> WindowRow \cup {Null}]]

LimiterInv == LimiterTypeOK /\ ClockOK /\ LimiterIsBounded

\* A sweep only drops entries.
LEMMA SweepDrops ==
    ASSUME NEW w \in [Accounts -> WindowRow \cup {Null}]
    PROVE  /\ Swept(w) \in [Accounts -> WindowRow \cup {Null}]
           /\ Held(Swept(w)) \subseteq Held(w)
           /\ IsFiniteSet(Held(w)) /\ IsFiniteSet(Held(Swept(w)))
           /\ Cardinality(Held(Swept(w))) <= Cardinality(Held(w))
           /\ Cardinality(Held(w)) \in Nat /\ Cardinality(Held(Swept(w))) \in Nat
<1>1. Swept(w) \in [Accounts -> WindowRow \cup {Null}]
  BY DEF Swept
<1>2. Held(Swept(w)) \subseteq Held(w)
  BY DEF Swept, Held, Over
<1>3. IsFiniteSet(Held(w))
  BY TotpAssumption, FS_Subset DEF Held
<1> QED BY <1>1, <1>2, <1>3, FS_Subset, FS_CardinalityType

\* allow adds an account only while there is room, and nothing else adds one.
THEOREM LimiterTheorem == TotpSpec => []LimiterIsBounded
<1>1. TotpInit => LimiterInv
  <2> SUFFICES ASSUME TotpInit PROVE LimiterInv
      OBVIOUS
  <2>1. Held(NoWindows) = {}
        BY DEF Held, NoWindows
  <2>2. Cardinality(Held(NoWindows)) = 0
        BY <2>1, FS_EmptySet
  <2> QED BY <2>2, TotpAssumption
          DEF TotpInit, LimiterInv, LimiterTypeOK, ClockOK, LimiterIsBounded, NoWindows, Time
<1>2. LimiterInv /\ [TotpNext]_totpVars => LimiterInv'
  <2> SUFFICES ASSUME LimiterInv, [TotpNext]_totpVars PROVE LimiterInv'
      OBVIOUS
  <2>a. /\ window \in [Replicas -> [Accounts -> WindowRow \cup {Null}]] /\ now \in Time
        /\ \A q \in Replicas : Cardinality(Held(window[q])) <= Capacity
        BY DEF LimiterInv, LimiterTypeOK, ClockOK, LimiterIsBounded
  <2>b. ASSUME NEW r \in Replicas, NEW v \in [Accounts -> WindowRow \cup {Null}],
               window' = [window EXCEPT ![r] = v], Cardinality(Held(v)) <= Capacity, now' = now
        PROVE  LimiterInv'
        BY <2>a, <2>b DEF LimiterInv, LimiterTypeOK, ClockOK, LimiterIsBounded
  <2>1. ASSUME NEW r \in Replicas, NEW a \in Accounts, Allow(r, a)
        PROVE  LimiterInv'
    <3> DEFINE w == Swept(window[r])
               e == Entry(w, a)
               n == [start |-> e.start, count |-> e.count + 1]
               v == [w EXCEPT ![a] = n]
    <3>1. /\ w \in [Accounts -> WindowRow \cup {Null}] /\ IsFiniteSet(Held(w))
          /\ Cardinality(Held(w)) <= Capacity /\ Cardinality(Held(w)) \in Nat
          BY <2>a, SweepDrops, TotpAssumption
    <3>2. Admits(w, a) /\ window' = [window EXCEPT ![r] = v] /\ now' = now
          BY <2>1 DEF Allow
    <3> HIDE DEF w
    <3>3. n \in WindowRow
          BY <2>a, <3>1 DEF Entry, WindowRow
    <3> HIDE DEF n, e
    <3>4. v \in [Accounts -> WindowRow \cup {Null}] /\ Held(v) = Held(w) \cup {a}
          BY <3>1, <3>3, TotpAssumption DEF Held
    <3>5. Cardinality(Held(v)) <= Capacity
      <4>1. CASE a \in Held(w)
        <5>1. Held(v) = Held(w)
              BY <3>4, <4>1
        <5> QED BY <3>1, <5>1
      <4>2. CASE a \notin Held(w)
        <5>1. Cardinality(Held(v)) = Cardinality(Held(w)) + 1
              BY <3>1, <3>4, <4>2, FS_AddElement
        <5>2. Cardinality(Held(w)) < Capacity
              BY <3>2, <4>2 DEF Admits, Held
        <5> QED BY <3>1, <5>1, <5>2, TotpAssumption
      <4> QED BY <4>1, <4>2
    <3> HIDE DEF v
    <3> QED BY <2>b, <3>2, <3>4, <3>5
  <2>2. ASSUME NEW r \in Replicas, NEW a \in Accounts, Deny(r, a)
        PROVE  LimiterInv'
    <3> DEFINE w == Swept(window[r])
    <3>1. /\ w \in [Accounts -> WindowRow \cup {Null}] /\ Cardinality(Held(w)) <= Capacity
          BY <2>a, SweepDrops, TotpAssumption
    <3>2. window' = [window EXCEPT ![r] = w] /\ now' = now
          BY <2>2 DEF Deny
    <3> HIDE DEF w
    <3> QED BY <2>b, <3>1, <3>2
  <2>3. ASSUME NEW r \in Replicas, Restart(r)
        PROVE  LimiterInv'
    <3>1. Held(NoWindows) = {} /\ NoWindows \in [Accounts -> WindowRow \cup {Null}]
          BY DEF Held, NoWindows
    <3>2. Cardinality(Held(NoWindows)) <= Capacity
          BY <3>1, FS_EmptySet, TotpAssumption
    <3> QED BY <2>b, <2>3, <3>1, <3>2 DEF Restart
  <2>4. ASSUME window' = window, now' \in Time
        PROVE  LimiterInv'
        BY <2>a, <2>4 DEF LimiterInv, LimiterTypeOK, ClockOK, LimiterIsBounded
  <2>5. CASE Tick
        BY <2>4, <2>5, <2>a, TotpAssumption DEF Tick, Time
  <2> QED BY <2>1, <2>2, <2>3, <2>4, <2>5, <2>a
          DEF TotpNext, StartTotp, AttemptTotp, DeleteTotp, ConfirmRefused, ConfirmTotp,
              Cleanup, totpVars
<1>3. LimiterInv => LimiterIsBounded
  BY DEF LimiterInv
<1> QED BY <1>1, <1>2, <1>3, PTL DEF TotpSpec

-----------------------------------------------------------------------------
(* How many calls the limiter lets pass *)

\* Calls are recorded in order and none is ahead of the clock; the last of
\* 2 * Budget calls comes a window after the first.
LogOK(log, t) ==
    /\ log \in Seq(Time)
    /\ \A i \in 1 .. Len(log) : log[i] <= t
    /\ \A i, j \in 1 .. Len(log) : i <= j => log[i] <= log[j]
    /\ \A i, j \in 1 .. Len(log) : j = i + 2 * Budget - 1 => log[j] - log[i] >= Window

\* Of the first n calls, the last Budget ones began a window or more before t:
\* at t a new window may be opened.
Quiet(log, n, t) == n >= Budget => log[n - Budget + 1] <= t - Window

\* An entry counts the last calls, the first of which opened it when those
\* before were quiet.  Without an entry all are quiet.
SpanOK(log, row, t) ==
    IF row = Null THEN Quiet(log, Len(log), t)
    ELSE /\ row.count \in 1 .. Budget /\ row.count <= Len(log)
         /\ log[Len(log) - row.count + 1] = row.start
         /\ Quiet(log, Len(log) - row.count, row.start)

BurstInv ==
    /\ ClockOK /\ LimiterTypeOK
    /\ passed \in [Replicas -> [Accounts -> Seq(Time)]]
    /\ \A r \in Replicas, a \in Accounts :
         LogOK(passed[r][a], now) /\ SpanOK(passed[r][a], window[r][a], now)

\* An entry that is over leaves its calls quiet.
LEMMA OverIsQuiet ==
    ASSUME NEW t \in Time, NEW log, LogOK(log, t), NEW row \in WindowRow,
           SpanOK(log, row, t), t - row.start >= Window
    PROVE  Quiet(log, Len(log), t)
<1> DEFINE n == Len(log)
           m == n - row.count
<1>1. /\ row.count \in 1 .. Budget /\ row.count <= n /\ log[m + 1] = row.start
      /\ row.start \in Time /\ n \in Nat /\ log \in Seq(Time)
  BY TotpAssumption DEF SpanOK, LogOK, WindowRow
<1>2. SUFFICES ASSUME n >= Budget PROVE log[n - Budget + 1] <= t - Window
  BY DEF Quiet
<1>3. /\ n - Budget + 1 \in 1 .. n /\ m + 1 \in 1 .. n /\ n - Budget + 1 <= m + 1
      /\ Budget \in Nat /\ Window \in Nat
  BY <1>1, <1>2, TotpAssumption
<1>4. log[n - Budget + 1] <= log[m + 1] /\ log[n - Budget + 1] \in Time
  <2>1. \A i, j \in 1 .. n : i <= j => log[i] <= log[j]
    BY DEF LogOK
  <2> QED BY <1>1, <1>3, <2>1
<1> HIDE DEF n, m
<1> QED BY <1>1, <1>3, <1>4, TotpAssumption DEF Time

\* The clock may move on.
LEMMA SpanLater ==
    ASSUME NEW t \in Time, NEW u \in Time, t <= u, NEW log, NEW row,
           LogOK(log, t), SpanOK(log, row, t)
    PROVE  LogOK(log, u) /\ SpanOK(log, row, u)
<1>1. log \in Seq(Time) /\ Len(log) \in Nat /\ \A i \in 1 .. Len(log) : log[i] \in Time
  BY DEF LogOK
<1>2. LogOK(log, u)
  <2>1. \A i \in 1 .. Len(log) : log[i] <= u
    BY <1>1 DEF LogOK, Time
  <2> QED BY <2>1 DEF LogOK
<1>3. CASE row = Null
  <2>1. Quiet(log, Len(log), t)
    BY <1>3 DEF SpanOK
  <2>2. Quiet(log, Len(log), u)
    <3> SUFFICES ASSUME Len(log) >= Budget PROVE log[Len(log) - Budget + 1] <= u - Window
      BY DEF Quiet
    <3>1. Len(log) - Budget + 1 \in 1 .. Len(log) /\ Window \in Nat
      BY <1>1, TotpAssumption
    <3> QED BY <1>1, <2>1, <3>1 DEF Quiet, Time
  <2> QED BY <1>2, <1>3, <2>2 DEF SpanOK
<1>4. CASE row # Null
  BY <1>2, <1>4 DEF SpanOK
<1> QED BY <1>3, <1>4

\* One more call in an entry that still has room, or in a new one: the
\* 2 * Budget - 1 calls before it reach back to calls that were quiet when the
\* entry was opened.
LEMMA OneMoreCall ==
    ASSUME NEW t \in Time, NEW log, LogOK(log, t), NEW k \in 0 .. Budget - 1, NEW s \in Time,
           k <= Len(log), s <= t, k = 0 => s = t, k > 0 => log[Len(log) - k + 1] = s,
           Quiet(log, Len(log) - k, s)
    PROVE  /\ LogOK(Append(log, t), t)
           /\ SpanOK(Append(log, t), [start |-> s, count |-> k + 1], t)
<1> DEFINE n == Len(log)
           new == Append(log, t)
           row == [start |-> s, count |-> k + 1]
<1>1. /\ log \in Seq(Time) /\ n \in Nat /\ \A i \in 1 .. n : log[i] \in Time
      /\ \A i \in 1 .. n : log[i] <= t
      /\ \A i, j \in 1 .. n : i <= j => log[i] <= log[j]
      /\ \A i, j \in 1 .. n : j = i + 2 * Budget - 1 => log[j] - log[i] >= Window
  BY DEF LogOK
<1>2. /\ new \in Seq(Time) /\ Len(new) = n + 1 /\ new[n + 1] = t
      /\ \A i \in 1 .. n : new[i] = log[i]
  BY <1>1
<1>3. /\ Budget \in Nat \ {0} /\ Window \in Nat /\ Time \subseteq Nat
  BY TotpAssumption DEF Time
<1>4. Quiet(log, n - k, s)
  OBVIOUS
<1>5. k \in Nat /\ k <= n /\ k < Budget
  BY <1>3
<1>6. row # Null /\ row.start = s /\ row.count = k + 1
  <2>1. row \in WindowRow
    BY <1>5 DEF WindowRow
  <2> QED BY <2>1, TotpAssumption
<1>7. /\ k = 0 => s = t
      /\ k > 0 => log[n - k + 1] = s
  OBVIOUS
<1> HIDE DEF n, new, row
<1>8. \A i \in 1 .. n + 1 : new[i] <= t
  BY <1>1, <1>2, <1>3
<1>9. \A i, j \in 1 .. n + 1 : i <= j => new[i] <= new[j]
  BY <1>1, <1>2, <1>3
<1>10. ASSUME NEW i \in 1 .. n + 1, NEW j \in 1 .. n + 1, j = i + 2 * Budget - 1
       PROVE  new[j] - new[i] >= Window
  <2>1. CASE j <= n
    <3>1. i \in 1 .. n /\ j \in 1 .. n
      BY <1>1, <1>3, <1>10, <2>1
    <3> QED BY <1>1, <1>2, <1>10, <3>1
  <2>2. CASE j = n + 1
    <3> DEFINE e == n - k - Budget + 1
    <3>1. n - k >= Budget /\ e \in 1 .. n /\ i \in 1 .. n /\ i <= e
      BY <1>1, <1>3, <1>5, <1>10, <2>2
    <3>2. log[e] <= s - Window
      BY <1>4, <3>1 DEF Quiet
    <3> HIDE DEF e
    <3>3. log[i] <= log[e] /\ log[i] \in Nat /\ log[e] \in Nat
      BY <1>1, <1>3, <3>1
    <3>4. new[j] = t /\ new[i] = log[i]
      BY <1>2, <2>2, <3>1
    <3> QED BY <1>3, <3>2, <3>3, <3>4
  <2> QED BY <1>1, <1>10, <2>1, <2>2
<1>11. LogOK(new, t)
  BY <1>2, <1>8, <1>9, <1>10 DEF LogOK
<1>12. SpanOK(new, row, t)
  <2>1. row.count \in 1 .. Budget /\ row.count <= Len(new) /\ Len(new) - row.count = n - k
    BY <1>1, <1>2, <1>3, <1>5, <1>6
  <2>2. new[n - k + 1] = s
    <3>1. CASE k = 0
      BY <1>1, <1>2, <1>7, <3>1
    <3>2. CASE k > 0
      <4>1. n - k + 1 \in 1 .. n
        BY <1>1, <1>5, <3>2
      <4> QED BY <1>2, <1>7, <3>2, <4>1
    <3> QED BY <1>5, <3>1, <3>2
  <2>3. Quiet(new, n - k, s)
    <3> SUFFICES ASSUME n - k >= Budget PROVE new[n - k - Budget + 1] <= s - Window
      BY DEF Quiet
    <3>1. n - k - Budget + 1 \in 1 .. n
      BY <1>1, <1>3, <1>5
    <3> QED BY <1>2, <1>4, <3>1 DEF Quiet
  <2> QED BY <1>6, <2>1, <2>2, <2>3 DEF SpanOK
<1> QED BY <1>11, <1>12 DEF new, row

\* A sweep forgets entries that are over.
LEMMA SweepSpan ==
    ASSUME NEW w \in [Accounts -> WindowRow \cup {Null}], NEW a \in Accounts, NEW log,
           now \in Time, LogOK(log, now), SpanOK(log, w[a], now)
    PROVE  SpanOK(log, Swept(w)[a], now)
<1>1. CASE Swept(w)[a] = w[a]
  BY <1>1
<1>2. CASE Swept(w)[a] # w[a]
  <2>1. Swept(w)[a] = Null /\ Over(w[a])
    BY <1>2 DEF Swept
  <2>2. w[a] \in WindowRow /\ now - w[a].start >= Window
    BY <2>1 DEF Over
  <2>3. Quiet(log, Len(log), now)
    BY <2>2, OverIsQuiet
  <2> QED BY <2>1, <2>3 DEF SpanOK
<1> QED BY <1>1, <1>2

\* What allow writes when it lets a call pass.
LEMMA AllowSpan ==
    ASSUME NEW w \in [Accounts -> WindowRow \cup {Null}], NEW a \in Accounts, NEW log,
           now \in Time, LogOK(log, now), SpanOK(log, w[a], now), Admits(w, a)
    PROVE  LET e == Entry(w, a)
               n == [start |-> e.start, count |-> e.count + 1]
           IN  n \in WindowRow /\ LogOK(Append(log, now), now) /\ SpanOK(Append(log, now), n, now)
<1> DEFINE e == Entry(w, a)
<1>0. e.count < Budget /\ Len(log) \in Nat /\ Budget \in Nat \ {0}
  BY TotpAssumption DEF Admits, LogOK
<1>1. CASE w[a] = Null \/ Over(w[a])
  <2>1. e.start = now /\ e.count = 0
    BY <1>1 DEF Entry
  <2>2. Quiet(log, Len(log), now)
    <3>1. CASE w[a] = Null
      BY <3>1 DEF SpanOK
    <3>2. CASE w[a] # Null
      <4>1. w[a] \in WindowRow /\ now - w[a].start >= Window
        BY <1>1, <3>2 DEF Over
      <4> QED BY <4>1, OverIsQuiet
    <3> QED BY <3>1, <3>2
  <2>3. Len(log) - 0 = Len(log) /\ 0 \in 0 .. Budget - 1 /\ now <= now
    BY <1>0 DEF Time
  <2>4. /\ LogOK(Append(log, now), now)
        /\ SpanOK(Append(log, now), [start |-> now, count |-> 0 + 1], now)
    BY <1>0, <2>2, <2>3, OneMoreCall
  <2> HIDE DEF e
  <2> QED BY <2>1, <2>4 DEF WindowRow, e
<1>2. CASE w[a] # Null /\ ~Over(w[a])
  <2>1. e = w[a] /\ w[a] \in WindowRow
    BY <1>2 DEF Entry
  <2>2. e.count \in 1 .. Budget /\ e.count <= Len(log) /\ e.start \in Time
    BY <1>2, <2>1 DEF SpanOK, WindowRow
  <2>3. log[Len(log) - e.count + 1] = e.start /\ Quiet(log, Len(log) - e.count, e.start)
    BY <1>2, <2>1 DEF SpanOK
  <2>4. e.start <= now
    <3>1. Len(log) - e.count + 1 \in 1 .. Len(log)
      BY <1>0, <2>2
    <3> QED BY <2>3, <3>1 DEF LogOK
  <2> HIDE DEF e
  <2>5. e.count \in 0 .. Budget - 1 /\ e.count # 0
    BY <1>0, <2>2
  <2>6. /\ LogOK(Append(log, now), now)
        /\ SpanOK(Append(log, now), [start |-> e.start, count |-> e.count + 1], now)
    BY <2>2, <2>3, <2>4, <2>5, OneMoreCall
  <2> QED BY <2>2, <2>6 DEF WindowRow, e
<1> QED BY <1>1, <1>2

\* The empty limiter satisfies the invariant.
LEMMA NothingPassed == ASSUME NEW t \in Time PROVE LogOK(<< >>, t) /\ SpanOK(<< >>, Null, t)
BY TotpAssumption DEF LogOK, SpanOK, Quiet

\* Every step keeps it.
LEMMA BurstStep == BurstInv /\ [TotpNext]_totpVars => BurstInv'
<1> SUFFICES ASSUME BurstInv, [TotpNext]_totpVars PROVE BurstInv'
  OBVIOUS
<1>a. /\ now \in Time /\ window \in [Replicas -> [Accounts -> WindowRow \cup {Null}]]
      /\ passed \in [Replicas -> [Accounts -> Seq(Time)]]
      /\ \A r \in Replicas, a \in Accounts :
           LogOK(passed[r][a], now) /\ SpanOK(passed[r][a], window[r][a], now)
  BY DEF BurstInv, ClockOK, LimiterTypeOK
<1>b. ASSUME NEW r \in Replicas,
             NEW w \in [Accounts -> WindowRow \cup {Null}], window' = [window EXCEPT ![r] = w],
             NEW p \in [Accounts -> Seq(Time)], passed' = [passed EXCEPT ![r] = p],
             now' = now,
             \A a \in Accounts : LogOK(p[a], now) /\ SpanOK(p[a], w[a], now)
      PROVE  BurstInv'
  <2>1. window' \in [Replicas -> [Accounts -> WindowRow \cup {Null}]]
        /\ passed' \in [Replicas -> [Accounts -> Seq(Time)]]
    BY <1>a, <1>b
  <2>2. ASSUME NEW q \in Replicas, NEW a \in Accounts
        PROVE  LogOK(passed'[q][a], now) /\ SpanOK(passed'[q][a], window'[q][a], now)
    <3>1. CASE q = r
      <4>1. passed'[q] = p /\ window'[q] = w
        BY <1>a, <1>b, <3>1
      <4> QED BY <1>b, <4>1
    <3>2. CASE q # r
      <4>1. passed'[q] = passed[q] /\ window'[q] = window[q]
        BY <1>a, <1>b, <3>2
      <4> QED BY <1>a, <4>1
    <3> QED BY <3>1, <3>2
  <2> QED BY <1>a, <1>b, <2>1, <2>2 DEF BurstInv, ClockOK, LimiterTypeOK
<1>c. ASSUME NEW r \in Replicas
      PROVE  LET w == Swept(window[r]) IN
             /\ w \in [Accounts -> WindowRow \cup {Null}]
             /\ \A b \in Accounts : SpanOK(passed[r][b], w[b], now)
  <2>1. window[r] \in [Accounts -> WindowRow \cup {Null}]
    BY <1>a
  <2> QED BY <1>a, <2>1, SweepDrops, SweepSpan
<1>1. ASSUME NEW r \in Replicas, NEW a \in Accounts, Allow(r, a) PROVE BurstInv'
  <2> DEFINE w == Swept(window[r])
             e == Entry(w, a)
             n == [start |-> e.start, count |-> e.count + 1]
             log == Append(passed[r][a], now)
             v == [w EXCEPT ![a] = n]
             p == [passed[r] EXCEPT ![a] = log]
  <2>1. Admits(w, a) /\ window' = [window EXCEPT ![r] = v] /\ now' = now
    BY <1>1 DEF Allow
  <2>2. passed' = [passed EXCEPT ![r] = p]
    BY <1>1, <1>a DEF Allow
  <2>3. /\ w \in [Accounts -> WindowRow \cup {Null}]
        /\ \A b \in Accounts : SpanOK(passed[r][b], w[b], now)
    BY <1>c
  <2>4. n \in WindowRow /\ LogOK(log, now) /\ SpanOK(log, n, now)
    <3> HIDE DEF w
    <3> QED BY <1>a, <2>1, <2>3, AllowSpan
  <2> HIDE DEF w, n, log
  <2>5. log \in Seq(Time)
    BY <2>4 DEF LogOK
  <2>6. v \in [Accounts -> WindowRow \cup {Null}] /\ p \in [Accounts -> Seq(Time)]
    BY <1>a, <2>3, <2>4, <2>5
  <2>7. ASSUME NEW b \in Accounts PROVE LogOK(p[b], now) /\ SpanOK(p[b], v[b], now)
    <3>1. CASE b = a
      <4>1. p[b] = log /\ v[b] = n
        BY <1>a, <2>3, <3>1
      <4> QED BY <2>4, <4>1
    <3>2. CASE b # a
      <4>1. p[b] = passed[r][b] /\ v[b] = w[b]
        BY <1>a, <2>3, <3>2
      <4> QED BY <1>a, <2>3, <4>1
    <3> QED BY <3>1, <3>2
  <2> HIDE DEF v, p
  <2> QED BY <1>b, <2>1, <2>2, <2>6, <2>7
<1>2. ASSUME NEW r \in Replicas, NEW a \in Accounts, Deny(r, a) PROVE BurstInv'
  <2> DEFINE w == Swept(window[r])
  <2>1. window' = [window EXCEPT ![r] = w] /\ now' = now /\ passed' = passed
    BY <1>2 DEF Deny
  <2>2. /\ w \in [Accounts -> WindowRow \cup {Null}]
        /\ \A b \in Accounts : SpanOK(passed[r][b], w[b], now)
    BY <1>c
  <2> HIDE DEF w
  <2>3. passed' = [passed EXCEPT ![r] = passed[r]] /\ passed[r] \in [Accounts -> Seq(Time)]
    BY <1>a, <2>1
  <2> QED BY <1>a, <1>b, <2>1, <2>2, <2>3
<1>3. ASSUME NEW r \in Replicas, Restart(r) PROVE BurstInv'
  <2>1. /\ NoWindows \in [Accounts -> WindowRow \cup {Null}]
        /\ NonePassed \in [Accounts -> Seq(Time)]
        /\ \A a \in Accounts : NoWindows[a] = Null /\ NonePassed[a] = << >>
    BY DEF NoWindows, NonePassed
  <2>2. \A a \in Accounts : LogOK(NonePassed[a], now) /\ SpanOK(NonePassed[a], NoWindows[a], now)
    BY <1>a, <2>1, NothingPassed
  <2> QED BY <1>3, <1>b, <2>1, <2>2 DEF Restart
<1>4. ASSUME UNCHANGED <<window, passed>>, now' \in Time, now <= now' PROVE BurstInv'
  <2>1. ASSUME NEW r \in Replicas, NEW a \in Accounts
        PROVE  LogOK(passed[r][a], now') /\ SpanOK(passed[r][a], window[r][a], now')
    BY <1>a, <1>4, SpanLater
  <2> QED BY <1>a, <1>4, <2>1 DEF BurstInv, ClockOK, LimiterTypeOK
<1>5. now <= now
  BY <1>a DEF Time
<1>6. CASE Tick
  BY <1>4, <1>6, <1>a, TotpAssumption DEF Tick, Time
<1> QED BY <1>1, <1>2, <1>3, <1>4, <1>5, <1>6, <1>a
        DEF TotpNext, StartTotp, AttemptTotp, DeleteTotp, ConfirmRefused, ConfirmTotp,
            Cleanup, totpVars

\* A replica never lets 2 * Budget calls of an account to ConfirmTotp pass
\* within the length of a window (allow), however many accounts fill and sweep
\* the limiter meanwhile.
THEOREM BurstTheorem == TotpSpec => []BurstIsBounded
<1>1. TotpInit => BurstInv
  <2> SUFFICES ASSUME TotpInit PROVE BurstInv
    OBVIOUS
  <2>1. now \in Time /\ now = 0
    BY TotpAssumption DEF TotpInit, Time
  <2>2. \A r \in Replicas, a \in Accounts : window[r][a] = Null /\ passed[r][a] = << >>
    BY DEF TotpInit, NoWindows, NonePassed
  <2>3. /\ window \in [Replicas -> [Accounts -> WindowRow \cup {Null}]]
        /\ passed \in [Replicas -> [Accounts -> Seq(Time)]]
    BY DEF TotpInit, NoWindows, NonePassed
  <2> QED BY <2>1, <2>2, <2>3, NothingPassed DEF BurstInv, ClockOK, LimiterTypeOK
<1>2. BurstInv => BurstIsBounded
  <2> SUFFICES ASSUME BurstInv, NEW r \in Replicas, NEW a \in Accounts,
                      NEW i \in DOMAIN passed[r][a], NEW j \in DOMAIN passed[r][a],
                      j = i + 2 * Budget - 1
               PROVE  passed[r][a][j] - passed[r][a][i] >= Window
    BY DEF BurstIsBounded
  <2>1. LogOK(passed[r][a], now)
    BY DEF BurstInv
  <2>2. DOMAIN passed[r][a] = 1 .. Len(passed[r][a])
    BY <2>1 DEF LogOK
  <2> QED BY <2>1, <2>2 DEF LogOK
<1> QED BY <1>1, <1>2, BurstStep, PTL DEF TotpSpec
=============================================================================
