-------------------------- MODULE AuthEngineProofs --------------------------
(***************************************************************************)
(* Proofs about AuthEngine, for every set of accounts, sessions, processes *)
(* and steps and for every choice of the durations.                        *)
(***************************************************************************)
EXTENDS AuthEngine, TLAPS

-----------------------------------------------------------------------------
(* The inductive invariant *)

\* Foreign keys of the schema, and its CHECK that a completed process names
\* its account.
ForeignKeys ==
    /\ \A s \in Sessions : sess[s] # Null => acct[sess[s].account] # Null
    /\ \A p \in Procs : proc[p] # Null =>
         /\ proc[p].account # Null => acct[proc[p].account] # Null
         /\ proc[p].status = "completed" =>
              proc[p].account # Null /\ proc[p].done # Null
    /\ \A c \in Steps : step[c] # Null => proc[step[c].proc] # Null

\* The ghost of a process is at least as recent as the steps it completed.
StepsBackProofs ==
    \A c \in Steps : step[c] # Null /\ step[c].status = "completed" =>
      /\ step[c].done # Null /\ step[c].done <= now
      /\ step[c].method \in FirstFactors =>
           /\ proof[step[c].proc].first # Null
           /\ step[c].done <= proof[step[c].proc].first
      /\ step[c].method \in SecondFactors =>
           /\ proof[step[c].proc].second # Null
           /\ step[c].done <= proof[step[c].proc].second

IInv ==
    /\ TypeOK
    /\ ForeignKeys
    /\ StepsBackProofs
    /\ EvidenceIsCurrent
    /\ GrantMeetsPolicy
    /\ TrustWindowIsFixed
    /\ SensitiveStaysWithPrincipal
    /\ AccountIsReachable

-----------------------------------------------------------------------------
(***************************************************************************)
(* Most transactions only take authority away: they spend grants,          *)
(* invalidate or delete processes, delete sessions.  Withdraws says so, in *)
(* terms of the tables alone; RevocationPreserves shows once that such a   *)
(* transaction preserves the invariant, and every such action is shown to  *)
(* be one.                                                                 *)
(***************************************************************************)
Typed ==
    /\ now' = now
    /\ acct' \in [Accounts -> AccountRow \cup {Null}]
    /\ sess' \in [Sessions -> SessionRow \cup {Null}]
    /\ proc' \in [Procs -> ProcRow \cup {Null}]
    /\ step' \in [Steps -> StepRow \cup {Null}]
    /\ request' \in [Requests -> RequestRow \cup {Null}]
    /\ flight' \in [Flights -> FlightRow \cup {Null}]
    /\ epoch' \in [Accounts -> Nat]
    /\ proof' \in [Procs -> Proof]

\* A surviving session keeps its account, which survives.
SessionsWithdrawn ==
    \A s \in Sessions : sess'[s] # Null =>
      /\ acct'[sess'[s].account] # Null
      /\ sess[s] # Null => sess'[s].account = sess[s].account

\* A surviving process at most loses its grant or its validity.
ProcsWithdrawn ==
    \A p \in Procs : proc'[p] # Null =>
      /\ proc[p] # Null
      /\ proc'[p].purpose = proc[p].purpose
      /\ proc'[p].status = proc[p].status
      /\ proc'[p].account = proc[p].account
      /\ proc'[p].session = proc[p].session
      /\ proc'[p].done = proc[p].done /\ proc'[p].failures = proc[p].failures
      /\ proc'[p].grant \in {Null, proc[p].grant}
      /\ proc[p].invalid => proc'[p].invalid
      /\ proc'[p].grant # Null => proc'[p].invalid = proc[p].invalid
      /\ sensitive(proc[p].purpose) => sess'[proc[p].session] # Null
      /\ proc[p].account # Null => acct'[proc[p].account] # Null

StepsFollow ==
    /\ \A c \in Steps : step'[c] # Null =>
         step'[c] = step[c] /\ proc'[step[c].proc] # Null
    /\ \A p \in Procs : proc'[p] # Null => proof'[p] = proof[p]

\* If an account's credentials change, none of its processes stays valid.
ChangesRevoke ==
    \A a \in Accounts : acct'[a] # Null =>
      /\ acct[a] # Null
      /\ HasSignInMethod(acct'[a])
      /\ epoch'[a] # epoch[a] \/ acct'[a].totp # acct[a].totp =>
           \A p \in Procs : proc'[p] # Null /\ proc'[p].account = a
                             => proc'[p].invalid /\ proc'[p].grant = Null

Withdraws ==
    Typed /\ SessionsWithdrawn /\ ProcsWithdrawn /\ StepsFollow /\ ChangesRevoke

\* A step that only withdraws authority preserves the invariant.
LEMMA RevocationPreserves ==
    ASSUME IInv, Withdraws
    PROVE  IInv'
<1> USE DEF Withdraws, Typed
<1>1. TypeOK'
  BY DEF IInv, TypeOK, Time
<1>2. ForeignKeys'
  <2>1. \A s \in Sessions : sess'[s] # Null => acct'[sess'[s].account] # Null
    BY DEF SessionsWithdrawn
  <2>2. \A p \in Procs : proc'[p] # Null =>
          /\ proc'[p].account # Null => acct'[proc'[p].account] # Null
          /\ proc'[p].status = "completed" =>
               proc'[p].account # Null /\ proc'[p].done # Null
    BY DEF IInv, ForeignKeys, ProcsWithdrawn
  <2>3. \A c \in Steps : step'[c] # Null => proc'[step'[c].proc] # Null
    BY DEF StepsFollow
  <2> QED BY <2>1, <2>2, <2>3 DEF ForeignKeys
<1>3. StepsBackProofs'
  <2> SUFFICES ASSUME NEW c \in Steps, step'[c] # Null, step'[c].status = "completed"
               PROVE  /\ step'[c].done # Null /\ step'[c].done <= now'
                      /\ step'[c].method \in FirstFactors =>
                           /\ proof'[step'[c].proc].first # Null
                           /\ step'[c].done <= proof'[step'[c].proc].first
                      /\ step'[c].method \in SecondFactors =>
                           /\ proof'[step'[c].proc].second # Null
                           /\ step'[c].done <= proof'[step'[c].proc].second
    BY DEF StepsBackProofs
  <2>1. step'[c] = step[c] /\ proc'[step[c].proc] # Null /\ step[c] \in StepRow
    BY DEF StepsFollow, IInv, TypeOK
  <2>2. step[c].proc \in Procs
    BY <2>1 DEF StepRow
  <2>3. proof'[step[c].proc] = proof[step[c].proc]
    BY <2>1, <2>2 DEF StepsFollow
  <2> QED BY <2>1, <2>2, <2>3 DEF IInv, StepsBackProofs
<1>4. EvidenceIsCurrent'
  <2> SUFFICES ASSUME NEW p \in Procs, proc'[p] # Null, ~proc'[p].invalid,
                      proc'[p].account # Null
               PROVE  proof'[p].epoch = epoch'[proc'[p].account]
    BY DEF EvidenceIsCurrent
  <2>1. /\ proc[p] # Null /\ ~proc[p].invalid /\ proc[p].account = proc'[p].account
        /\ acct'[proc[p].account] # Null /\ proof'[p] = proof[p]
    BY DEF ProcsWithdrawn, StepsFollow
  <2>2. proc[p].account \in Accounts
    BY <2>1 DEF IInv, TypeOK, ProcRow
  <2>3. epoch'[proc[p].account] = epoch[proc[p].account]
    BY <2>1, <2>2 DEF ChangesRevoke
  <2> QED BY <2>1, <2>3 DEF IInv, EvidenceIsCurrent
<1>5. GrantMeetsPolicy' /\ TrustWindowIsFixed'
  <2>1. ASSUME NEW p \in Procs, proc'[p] # Null, proc'[p].grant # Null
        PROVE  /\ proc'[p].status = "completed" /\ ~proc'[p].invalid
               /\ proc'[p].account # Null
               /\ proof'[p] = proof[p] /\ proof[p].first # Null
               /\ proc[p] # Null /\ proc[p].grant # Null
               /\ acct'[proc'[p].account].totp = acct[proc[p].account].totp
               /\ acct[proc[p].account].totp => proof[p].second # Null
    <3>1. /\ proc[p] # Null /\ proc[p].grant # Null
          /\ proc'[p].status = proc[p].status /\ proc'[p].invalid = proc[p].invalid
          /\ proc'[p].account = proc[p].account /\ proof'[p] = proof[p]
      BY <2>1 DEF ProcsWithdrawn, StepsFollow
    <3>2. /\ proc[p].status = "completed" /\ ~proc[p].invalid
          /\ proc[p].account # Null /\ proof[p].first # Null
          /\ acct[proc[p].account].totp => proof[p].second # Null
      BY <3>1 DEF IInv, GrantMeetsPolicy
    <3>3. proc[p].account \in Accounts /\ acct'[proc[p].account] # Null
      BY <2>1, <3>1, <3>2 DEF IInv, TypeOK, ProcRow, ProcsWithdrawn
    <3>4. acct'[proc[p].account].totp = acct[proc[p].account].totp
      BY <2>1, <3>1, <3>3 DEF ChangesRevoke
    <3> QED BY <3>1, <3>2, <3>4
  <2>2. GrantMeetsPolicy'
    BY <2>1 DEF GrantMeetsPolicy
  <2>3. TrustWindowIsFixed'
    BY <2>1 DEF TrustWindowIsFixed, IInv, ProcsWithdrawn, StepsFollow
  <2> QED BY <2>2, <2>3
<1>6. SensitiveStaysWithPrincipal'
  <2> SUFFICES ASSUME NEW p \in Procs, proc'[p] # Null, sensitive(proc'[p].purpose)
               PROVE  /\ proc'[p].session # Null /\ sess'[proc'[p].session] # Null
                      /\ sess'[proc'[p].session].account = proc'[p].account
    BY DEF SensitiveStaysWithPrincipal
  <2>1. /\ proc[p] # Null /\ sensitive(proc[p].purpose)
        /\ proc'[p].session = proc[p].session /\ proc'[p].account = proc[p].account
        /\ sess'[proc[p].session] # Null
    BY DEF ProcsWithdrawn
  <2>2. /\ proc[p].session # Null /\ sess[proc[p].session] # Null
        /\ sess[proc[p].session].account = proc[p].account
    BY <2>1 DEF IInv, SensitiveStaysWithPrincipal
  <2>3. proc[p].session \in Sessions
    BY <2>1, <2>2 DEF IInv, TypeOK, ProcRow
  <2> QED BY <2>1, <2>2, <2>3 DEF SessionsWithdrawn
<1>7. AccountIsReachable'
  BY DEF ChangesRevoke, AccountIsReachable
<1> QED BY <1>1, <1>2, <1>3, <1>4, <1>5, <1>6, <1>7 DEF IInv

-----------------------------------------------------------------------------
(* The parts such transactions are made of *)

\* ps is the authentications table, with at most one grant spent.
Spent(ps) ==
    ps = proc \/ \E p \in Procs : proc[p] # Null /\ ps = Consumed(proc, p)

\* Row new is row old, possibly without its grant.
SameButGrant(new, old) ==
    /\ new \in ProcRow
    /\ new.purpose = old.purpose /\ new.status = old.status
    /\ new.account = old.account /\ new.session = old.session
    /\ new.done = old.done /\ new.invalid = old.invalid
    /\ new.failures = old.failures
    /\ new.grant \in {Null, old.grant}

\* Spending a grant changes nothing else.
LEMMA SpentRows ==
    ASSUME TypeOK, NEW ps, Spent(ps)
    PROVE  /\ ps \in [Procs -> ProcRow \cup {Null}]
           /\ \A q \in Procs : ps[q] # Null <=> proc[q] # Null
           /\ \A q \in Procs : ps[q] # Null => SameButGrant(ps[q], proc[q])
<1>1. CASE ps = proc
  BY <1>1 DEF TypeOK, SameButGrant
<1>2. ASSUME NEW p \in Procs, proc[p] # Null, ps = Consumed(proc, p)
      PROVE  /\ ps \in [Procs -> ProcRow \cup {Null}]
             /\ \A q \in Procs : ps[q] # Null <=> proc[q] # Null
             /\ \A q \in Procs : ps[q] # Null => SameButGrant(ps[q], proc[q])
  <2>1. proc[p] \in ProcRow
    BY <1>2 DEF TypeOK
  <2>2. ps = [proc EXCEPT ![p] = [proc[p] EXCEPT !.grant = Null]]
    BY <1>2 DEF Consumed
  <2>3. /\ [proc[p] EXCEPT !.grant = Null] \in ProcRow
        /\ SameButGrant([proc[p] EXCEPT !.grant = Null], proc[p])
    BY <2>1 DEF ProcRow, SameButGrant
  <2>4. [proc[p] EXCEPT !.grant = Null] # Null
    BY <2>3, NullAssumption
  <2> QED BY <1>2, <2>1, <2>2, <2>3, <2>4 DEF TypeOK, SameButGrant
<1> QED BY <1>1, <1>2 DEF Spent

\* What a live grant says of the tables.
LEMMA ConsumableFacts ==
    ASSUME IInv, NEW p \in Procs, NEW u, Consumable(p, u)
    PROVE  /\ proc[p] # Null /\ proc[p] \in ProcRow
           /\ proc[p].account \in Accounts
           /\ acct[proc[p].account] # Null
           /\ acct[proc[p].account] \in AccountRow
           /\ sensitive(u) => /\ proc[p].session \in Sessions
                              /\ sess[proc[p].session] # Null
                              /\ sess[proc[p].session] \in SessionRow
                              /\ sess[proc[p].session].account = proc[p].account
<1>1. proc[p] # Null /\ proc[p] \in ProcRow /\ proc[p].purpose = u
      /\ proc[p].status = "completed"
  BY DEF Consumable, IInv, TypeOK
<1>2. proc[p].account # Null /\ acct[proc[p].account] # Null
  BY <1>1 DEF IInv, ForeignKeys
<1>3. proc[p].account \in Accounts
  BY <1>1, <1>2 DEF ProcRow
<1>4. acct[proc[p].account] \in AccountRow
  BY <1>2, <1>3 DEF IInv, TypeOK
<1>5. ASSUME sensitive(u)
      PROVE  /\ proc[p].session \in Sessions
             /\ sess[proc[p].session] # Null
             /\ sess[proc[p].session] \in SessionRow
             /\ sess[proc[p].session].account = proc[p].account
  BY <1>1, <1>5 DEF IInv, SensitiveStaysWithPrincipal, TypeOK, ProcRow
<1> QED BY <1>1, <1>2, <1>3, <1>4, <1>5

\* What a live session says of the tables.
LEMMA SessionFacts ==
    ASSUME IInv, NEW s \in Sessions, sess[s] # Null
    PROVE  /\ sess[s] \in SessionRow
           /\ sess[s].account \in Accounts
           /\ acct[sess[s].account] # Null
           /\ acct[sess[s].account] \in AccountRow
<1>1. sess[s] \in SessionRow /\ acct[sess[s].account] # Null
  BY DEF IInv, TypeOK, ForeignKeys
<1>2. sess[s].account \in Accounts
  BY <1>1 DEF SessionRow
<1> QED BY <1>1, <1>2 DEF IInv, TypeOK

\* A transaction that deletes sessions D and drops processes: what is left
\* is ps without the processes of D.
LEMMA DeletionWithdraws ==
    ASSUME IInv, NEW ps \in [Procs -> ProcRow \cup {Null}], NEW D \in SUBSET Sessions,
           DeleteSessions(ps, D), CascadeSteps
    PROVE  /\ sess' \in [Sessions -> SessionRow \cup {Null}]
           /\ proc' \in [Procs -> ProcRow \cup {Null}]
           /\ step' \in [Steps -> StepRow \cup {Null}]
           /\ proof' \in [Procs -> Proof]
           /\ \A s \in Sessions : sess'[s] = IF s \in D THEN Null ELSE sess[s]
           /\ \A p \in Procs : proc'[p] # Null =>
                proc'[p] = ps[p] /\ ps[p].session \notin D
           /\ StepsFollow
<1>1. sess' \in [Sessions -> SessionRow \cup {Null}]
      /\ \A s \in Sessions : sess'[s] = IF s \in D THEN Null ELSE sess[s]
  BY DEF DeleteSessions, IInv, TypeOK
<1>2. proc' = WithoutSessions(ps, D)
  BY DEF DeleteSessions
<1>3. /\ proc' \in [Procs -> ProcRow \cup {Null}]
      /\ \A p \in Procs : proc'[p] # Null =>
           proc'[p] = ps[p] /\ ps[p].session \notin D
  BY <1>2 DEF WithoutSessions
<1>4. NoProof \in Proof
  BY DEF NoProof, Proof, Time
<1>5. step' \in [Steps -> StepRow \cup {Null}] /\ proof' \in [Procs -> Proof]
  BY <1>4 DEF CascadeSteps, IInv, TypeOK
<1>6. StepsFollow
  BY DEF CascadeSteps, StepsFollow
<1> QED BY <1>1, <1>3, <1>5, <1>6

\* Every request table the engine writes is well typed.
LEMMA WithSessionType ==
    ASSUME NEW rq \in [Requests -> RequestRow \cup {Null}]
    PROVE  WithSession(rq) \in [Requests -> RequestRow \cup {Null}]
  BY DEF WithSession

\* A credential change of account a withdraws authority, whatever row the
\* account gets, as long as it can still be signed in to.
LEMMA RevokeWithdraws ==
    ASSUME IInv, NEW ps, Spent(ps), NEW a \in Accounts, acct[a] # Null,
           NEW D \in SUBSET Sessions, Revoke(ps, a, D),
           NEW row \in AccountRow, HasSignInMethod(row),
           acct' = [acct EXCEPT ![a] = row],
           request' \in [Requests -> RequestRow \cup {Null}],
           flight' \in [Flights -> FlightRow \cup {Null}],
           now' = now
    PROVE  Withdraws
<1> DEFINE inv == invalidate(ps, a)
<1>1. /\ ps \in [Procs -> ProcRow \cup {Null}]
      /\ \A q \in Procs : ps[q] # Null <=> proc[q] # Null
      /\ \A q \in Procs : ps[q] # Null => SameButGrant(ps[q], proc[q])
  BY SpentRows DEF IInv
<1>2. ASSUME NEW q \in Procs, inv[q] # Null
      PROVE  /\ ps[q] # Null /\ proc[q] # Null /\ inv[q] \in ProcRow
             /\ inv[q].purpose = proc[q].purpose /\ inv[q].status = proc[q].status
             /\ inv[q].account = proc[q].account /\ inv[q].session = proc[q].session
             /\ inv[q].done = proc[q].done /\ inv[q].failures = proc[q].failures
             /\ inv[q].grant \in {Null, proc[q].grant}
             /\ proc[q].invalid => inv[q].invalid
             /\ inv[q].grant # Null => inv[q].invalid = proc[q].invalid
             /\ inv[q].account = a => inv[q].invalid /\ inv[q].grant = Null
  <2>1. inv[q] = IF ps[q] # Null /\ ps[q].account = a /\ ~ps[q].invalid
                 THEN [ps[q] EXCEPT !.invalid = TRUE, !.grant = Null]
                 ELSE ps[q]
    BY DEF invalidate
  <2>2. ps[q] # Null /\ proc[q] # Null
    BY <1>1, <1>2, <2>1
  <2>3. ps[q] \in ProcRow /\ proc[q] \in ProcRow /\ SameButGrant(ps[q], proc[q])
    BY <1>1, <2>2 DEF IInv, TypeOK
  <2>4. CASE ps[q].account = a /\ ~ps[q].invalid
    BY <2>1, <2>2, <2>3, <2>4 DEF ProcRow, SameButGrant
  <2>5. CASE ps[q].account # a
    BY <2>1, <2>2, <2>3, <2>5 DEF SameButGrant
  <2>6. CASE ps[q].account = a /\ ps[q].invalid
    <3>1. proc[q].grant = Null
      BY <2>2, <2>3, <2>6 DEF IInv, GrantMeetsPolicy, SameButGrant
    <3> QED BY <2>1, <2>2, <2>3, <2>6, <3>1 DEF SameButGrant
  <2> QED BY <2>4, <2>5, <2>6
<1>3. inv \in [Procs -> ProcRow \cup {Null}]
  BY <1>2 DEF invalidate
<1>4. DeleteSessions(inv, D) /\ CascadeSteps /\ CredentialChange(a)
  BY DEF Revoke
<1> HIDE DEF inv
<1>5. /\ sess' \in [Sessions -> SessionRow \cup {Null}]
      /\ proc' \in [Procs -> ProcRow \cup {Null}]
      /\ step' \in [Steps -> StepRow \cup {Null}]
      /\ proof' \in [Procs -> Proof]
      /\ \A s \in Sessions : sess'[s] = IF s \in D THEN Null ELSE sess[s]
      /\ \A p \in Procs : proc'[p] # Null =>
           proc'[p] = inv[p] /\ inv[p].session \notin D
      /\ StepsFollow
  BY <1>3, <1>4, DeletionWithdraws
<1>6. /\ acct' \in [Accounts -> AccountRow \cup {Null}]
      /\ \A b \in Accounts : acct'[b] # Null <=> acct[b] # Null
      /\ \A b \in Accounts : b # a => acct'[b] = acct[b]
      /\ acct'[a] = row
  BY NullAssumption DEF IInv, TypeOK
<1>7. epoch' \in [Accounts -> Nat] /\ \A b \in Accounts : b # a => epoch'[b] = epoch[b]
  BY <1>4 DEF CredentialChange, IInv, TypeOK
<1>8. Typed
  BY <1>5, <1>6, <1>7 DEF Typed
<1>9. SessionsWithdrawn
  BY <1>5, <1>6, SessionFacts DEF SessionsWithdrawn
<1>10. ProcsWithdrawn
  <2> SUFFICES ASSUME NEW p \in Procs, proc'[p] # Null
               PROVE  /\ proc[p] # Null
                      /\ proc'[p].purpose = proc[p].purpose
                      /\ proc'[p].status = proc[p].status
                      /\ proc'[p].account = proc[p].account
                      /\ proc'[p].session = proc[p].session
                      /\ proc'[p].done = proc[p].done /\ proc'[p].failures = proc[p].failures
                      /\ proc'[p].grant \in {Null, proc[p].grant}
                      /\ proc[p].invalid => proc'[p].invalid
                      /\ proc'[p].grant # Null => proc'[p].invalid = proc[p].invalid
                      /\ sensitive(proc[p].purpose) => sess'[proc[p].session] # Null
                      /\ proc[p].account # Null => acct'[proc[p].account] # Null
    BY DEF ProcsWithdrawn
  <2>1. proc'[p] = inv[p] /\ inv[p].session \notin D
    BY <1>5
  <2>2. proc[p] # Null /\ inv[p].session = proc[p].session
    BY <1>2, <2>1
  <2>3. ASSUME sensitive(proc[p].purpose) PROVE sess'[proc[p].session] # Null
    BY <1>5, <2>1, <2>2, <2>3 DEF IInv, SensitiveStaysWithPrincipal, TypeOK, ProcRow
  <2>4. ASSUME proc[p].account # Null PROVE acct'[proc[p].account] # Null
    BY <1>6, <2>2, <2>4 DEF IInv, ForeignKeys, TypeOK, ProcRow
  <2> QED BY <1>2, <2>1, <2>2, <2>3, <2>4
<1>11. ChangesRevoke
  <2>1. \A b \in Accounts : acct'[b] # Null => acct[b] # Null /\ HasSignInMethod(acct'[b])
    BY <1>6 DEF IInv, AccountIsReachable
  <2>2. \A p \in Procs : proc'[p] # Null /\ proc'[p].account = a
                          => proc'[p].invalid /\ proc'[p].grant = Null
    BY <1>2, <1>5
  <2> QED BY <1>6, <1>7, <2>1, <2>2 DEF ChangesRevoke
<1> QED BY <1>5, <1>8, <1>9, <1>10, <1>11 DEF Withdraws

\* A transaction that at most spends a grant and changes accounts apart from
\* their credentials.
LEMMA SpendWithdraws ==
    ASSUME IInv, Spent(proc'), UNCHANGED <<now, step, epoch, proof>>,
           sess' \in [Sessions -> SessionRow \cup {Null}],
           \A s \in Sessions : sess[s] # Null =>
             sess'[s] # Null /\ sess'[s].account = sess[s].account,
           \A s \in Sessions : sess'[s] # Null => acct'[sess'[s].account] # Null,
           acct' \in [Accounts -> AccountRow \cup {Null}],
           \A a \in Accounts : acct'[a] # Null <=> acct[a] # Null,
           \A a \in Accounts : acct[a] # Null =>
             HasSignInMethod(acct'[a]) /\ acct'[a].totp = acct[a].totp,
           request' \in [Requests -> RequestRow \cup {Null}],
           flight' \in [Flights -> FlightRow \cup {Null}]
    PROVE  Withdraws
<1>1. /\ proc' \in [Procs -> ProcRow \cup {Null}]
      /\ \A q \in Procs : proc'[q] # Null <=> proc[q] # Null
      /\ \A q \in Procs : proc'[q] # Null => SameButGrant(proc'[q], proc[q])
  BY SpentRows DEF IInv
<1>2. Typed
  BY <1>1 DEF Typed, IInv, TypeOK
<1>3. SessionsWithdrawn
  BY DEF SessionsWithdrawn
<1>4. ProcsWithdrawn
  <2>1. \A p \in Procs : proc[p] # Null /\ sensitive(proc[p].purpose)
                          => sess'[proc[p].session] # Null
    BY DEF IInv, SensitiveStaysWithPrincipal, TypeOK, ProcRow
  <2>2. \A p \in Procs : proc[p] # Null /\ proc[p].account # Null
                          => acct'[proc[p].account] # Null
    BY DEF IInv, ForeignKeys, TypeOK, ProcRow
  <2> QED BY <1>1, <2>1, <2>2 DEF ProcsWithdrawn, SameButGrant
<1>5. StepsFollow
  BY <1>1 DEF StepsFollow, IInv, ForeignKeys, TypeOK, StepRow
<1>6. ChangesRevoke
  BY DEF ChangesRevoke
<1> QED BY <1>2, <1>3, <1>4, <1>5, <1>6 DEF Withdraws

-----------------------------------------------------------------------------
(* Credentials *)

\* Other sessions and an account's sessions are sessions.
LEMMA SessionSets ==
    /\ \A a : SessionsOf(a) \in SUBSET Sessions
    /\ \A s : OtherSessions(s) \in SUBSET Sessions
  BY DEF SessionsOf, OtherSessions

\* A change of credentials authorised by a grant, ending no session.
LEMMA GrantedChange ==
    ASSUME IInv, NEW p \in Procs, NEW u, Consumable(p, u),
           NEW row \in AccountRow, HasSignInMethod(row),
           acct' = [acct EXCEPT ![proc[p].account] = row],
           Revoke(Consumed(proc, p), proc[p].account, {}),
           flight' \in [Flights -> FlightRow \cup {Null}],
           UNCHANGED <<now, request>>
    PROVE  Withdraws
<1>1. /\ proc[p] # Null /\ proc[p].account \in Accounts
      /\ acct[proc[p].account] # Null
  BY ConsumableFacts
<1>2. Spent(Consumed(proc, p))
  BY <1>1 DEF Spent
<1>3. request' \in [Requests -> RequestRow \cup {Null}] /\ now' = now
  BY DEF IInv, TypeOK
<1> DEFINE ps == Consumed(proc, p)
           a == proc[p].account
           D == {}
<1>4. /\ Spent(ps) /\ a \in Accounts /\ acct[a] # Null /\ D \in SUBSET Sessions
      /\ Revoke(ps, a, D) /\ acct' = [acct EXCEPT ![a] = row]
  BY <1>1, <1>2
<1> HIDE DEF ps, a, D
<1> QED BY <1>3, <1>4, RevokeWithdraws

\* A transaction that spends at most a grant and touches only requests and
\* provider calls.
LEMMA RequestWithdraws ==
    ASSUME IInv, Spent(proc'), UNCHANGED <<now, acct, sess, step, epoch, proof>>,
           request' \in [Requests -> RequestRow \cup {Null}],
           flight' \in [Flights -> FlightRow \cup {Null}]
    PROVE  Withdraws
<1>1. /\ sess \in [Sessions -> SessionRow \cup {Null}]
      /\ acct \in [Accounts -> AccountRow \cup {Null}]
  BY DEF IInv, TypeOK
<1>2. /\ \A s \in Sessions : sess[s] # Null => acct[sess[s].account] # Null
      /\ \A a \in Accounts : acct[a] # Null => HasSignInMethod(acct[a])
  BY SessionFacts DEF IInv, AccountIsReachable
<1> QED BY <1>1, <1>2, SpendWithdraws

\* An account row changes apart from its credentials, at most a grant is
\* spent.
LEMMA AccountFlagWithdraws ==
    ASSUME IInv, Spent(proc'), NEW a \in Accounts, acct[a] # Null, NEW row \in AccountRow,
           HasSignInMethod(row), row.totp = acct[a].totp,
           acct' = [acct EXCEPT ![a] = row],
           UNCHANGED <<now, sess, step, request, flight, epoch, proof>>
    PROVE  Withdraws
<1>1. acct \in [Accounts -> AccountRow \cup {Null}]
      /\ \A b \in Accounts : acct[b] # Null => HasSignInMethod(acct[b])
  BY DEF IInv, TypeOK, AccountIsReachable
<1>2. /\ acct' \in [Accounts -> AccountRow \cup {Null}]
      /\ \A b \in Accounts : acct'[b] # Null <=> acct[b] # Null
      /\ \A b \in Accounts : acct[b] # Null =>
           HasSignInMethod(acct'[b]) /\ acct'[b].totp = acct[b].totp
  BY <1>1, NullAssumption
<1>3. \A s \in Sessions : sess'[s] # Null => acct'[sess'[s].account] # Null
  BY <1>2, SessionFacts
<1>4. /\ sess' \in [Sessions -> SessionRow \cup {Null}]
      /\ request' \in [Requests -> RequestRow \cup {Null}]
      /\ flight' \in [Flights -> FlightRow \cup {Null}]
  BY DEF IInv, TypeOK
<1> QED BY <1>2, <1>3, <1>4, SpendWithdraws

\* Every transaction of AuthCredentials withdraws authority.
LEMMA CredentialsWithdraw ==
    ASSUME IInv, CredentialsNext
    PROVE  Withdraws
<1> USE DEF sensitive
<1>a. request \in [Requests -> RequestRow \cup {Null}]
      /\ flight \in [Flights -> FlightRow \cup {Null}]
      /\ now \in Nat
      /\ acct \in [Accounts -> AccountRow \cup {Null}]
  BY DEF IInv, TypeOK, Time
<1>b. Spent(proc)
  BY DEF Spent
<1>c. ASSUME NEW p \in Procs, NEW u, Consumable(p, u)
      PROVE  Spent(Consumed(proc, p))
  BY <1>c, ConsumableFacts DEF Spent
<1>d. \A a \in Accounts : acct[a] # Null => HasSignInMethod(acct[a])
  BY DEF IInv, AccountIsReachable
<1>e. \A s \in Sessions : sess[s] # Null => acct[sess[s].account] # Null
  BY SessionFacts
<1>f. sess \in [Sessions -> SessionRow \cup {Null}]
  BY DEF IInv, TypeOK
<1>g. ASSUME NEW kind \in {"totp", "passkey", "google", "vk"}, NEW s \in Sessions
      PROVE  NewRequest(kind, s) \in RequestRow
  BY <1>a, <1>g, DurationAssumption DEF NewRequest, RequestRow, Time
<1>1. ASSUME NEW p \in Procs, NEW same \in BOOLEAN, SetPassword(p, same)
      PROVE  Withdraws
  <2> DEFINE a == proc[p].account
             D == OtherSessions(proc[p].session)
  <2>1. Consumable(p, "passwordChange") /\ acct[a].password
    BY <1>1 DEF SetPassword
  <2>2. /\ a \in Accounts /\ acct[a] # Null /\ acct[a] \in AccountRow
        /\ HasSignInMethod(acct[a])
    BY <2>1, <1>d, ConsumableFacts
  <2>3. CASE same
    <3>1. proc' = Consumed(proc, p) /\ UNCHANGED <<now, acct, sess, step, request, flight, epoch, proof>>
      BY <1>1, <2>3 DEF SetPassword
    <3> QED BY <3>1, <2>1, <1>a, <1>c, <1>d, <1>e, <1>f, SpendWithdraws
  <2>4. CASE ~same
    <3>1. /\ Revoke(Consumed(proc, p), a, D)
          /\ request' = WithSession(request)
          /\ UNCHANGED <<now, acct, flight>>
      BY <1>1, <2>4 DEF SetPassword
    <3>2. acct' = [acct EXCEPT ![a] = acct[a]]
      BY <3>1, <2>2, <1>a
    <3>3. D \in SUBSET Sessions /\ Spent(Consumed(proc, p))
      BY <2>1, <1>c, SessionSets
    <3> HIDE DEF a, D
    <3> QED BY <3>1, <3>2, <3>3, <2>2, <1>a, WithSessionType, RevokeWithdraws
  <2> QED BY <2>3, <2>4
<1>2. ASSUME NEW s \in Sessions, SetFirstPassword(s)
      PROVE  Withdraws
  <2> DEFINE a == sess[s].account
             D == OtherSessions(s)
             row == [acct[a] EXCEPT !.password = TRUE]
  <2>1. sess[s] # Null
    BY <1>2 DEF SetFirstPassword, checkPrincipal, checkRecoveryPrincipal, checkSession
  <2>2. a \in Accounts /\ acct[a] # Null /\ acct[a] \in AccountRow
    BY <2>1, SessionFacts
  <2>3. row \in AccountRow /\ HasSignInMethod(row)
    BY <2>2 DEF AccountRow, HasSignInMethod
  <2>4. /\ Revoke(proc, a, D)
        /\ request' = WithSession(request)
        /\ UNCHANGED <<now, flight>>
        /\ acct' = [acct EXCEPT ![a] = row]
    BY <1>2 DEF SetFirstPassword
  <2>5. D \in SUBSET Sessions
    BY SessionSets
  <2> HIDE DEF a, D, row
  <2> QED BY <2>2, <2>3, <2>4, <2>5, <1>a, <1>b, WithSessionType, RevokeWithdraws
<1>3. ASSUME NEW a \in Accounts, StartPasswordReset(a)
      PROVE  Withdraws
  <2> DEFINE row == [acct[a] EXCEPT !.reset = now + RequestTTL]
  <2>1. /\ acct[a] # Null /\ acct' = [acct EXCEPT ![a] = row]
        /\ UNCHANGED <<now, sess, proc, step, request, flight, epoch, proof>>
    BY <1>3 DEF StartPasswordReset
  <2>2. acct[a] \in AccountRow /\ HasSignInMethod(acct[a])
    BY <2>1, <1>a, <1>d
  <2>3. /\ row \in AccountRow /\ HasSignInMethod(row)
        /\ row.totp = acct[a].totp
    BY <2>2, <1>a, DurationAssumption DEF AccountRow, HasSignInMethod, Time
  <2>4. Spent(proc')
    BY <2>1 DEF Spent
  <2> HIDE DEF row
  <2> QED BY <2>1, <2>3, <2>4, AccountFlagWithdraws
<1>4. ASSUME NEW a \in Accounts, ConfirmPasswordReset(a)
      PROVE  Withdraws
  <2> DEFINE row == [acct[a] EXCEPT !.password = TRUE, !.reset = Null]
             D == SessionsOf(a)
  <2>1. /\ acct[a] # Null
        /\ acct' = [acct EXCEPT ![a].password = TRUE, ![a].reset = Null]
        /\ Revoke(proc, a, D)
        /\ request' = WithSession(request)
        /\ UNCHANGED <<now, flight>>
    BY <1>4 DEF ConfirmPasswordReset
  <2>2. acct[a] \in AccountRow
    BY <2>1, <1>a
  <2>3. row \in AccountRow /\ HasSignInMethod(row)
    BY <2>2 DEF AccountRow, HasSignInMethod
  <2>4. acct' = [acct EXCEPT ![a] = row]
    BY <2>1, <2>2, <1>a DEF AccountRow
  <2>5. D \in SUBSET Sessions
    BY SessionSets
  <2> HIDE DEF row, D
  <2> QED BY <2>1, <2>3, <2>4, <2>5, <1>a, <1>b, WithSessionType, RevokeWithdraws
<1>5. ASSUME NEW p \in Procs, StartTotp(p)
      PROVE  Withdraws
  <2> DEFINE a == proc[p].account
             ids == IF TotpRequests(a) = {} THEN FreeRequests ELSE TotpRequests(a)
             r == CHOOSE q \in ids : TRUE
             new == NewRequest("totp", proc[p].session)
  <2>1. /\ Consumable(p, "totpEnrollment") /\ ids # {}
        /\ request' = [request EXCEPT ![r] = new]
        /\ proc' = Consumed(proc, p)
        /\ UNCHANGED <<now, acct, sess, step, flight, epoch, proof>>
    BY <1>5 DEF StartTotp
  <2>2. proc[p].session \in Sessions /\ Spent(proc')
    BY <2>1, <1>c, ConsumableFacts
  <2>3. new \in RequestRow
    BY <2>2, <1>g
  <2>4. request' \in [Requests -> RequestRow \cup {Null}]
    <3> HIDE DEF r, new
    <3> QED BY <2>1, <2>3, <1>a
  <2> QED BY <2>1, <2>2, <2>4, <1>a, RequestWithdraws
<1>6. ASSUME NEW s \in Sessions, NEW r \in Requests, ConfirmTotp(s, r)
      PROVE  Withdraws
  <2> DEFINE a == sess[s].account
             D == OtherSessions(s)
             row == [acct[a] EXCEPT !.totp = TRUE, !.codes = BackupCodes]
  <2>1. sess[s] # Null
    BY <1>6 DEF ConfirmTotp, checkPrincipal, checkRecoveryPrincipal, checkSession
  <2>2. /\ a \in Accounts /\ acct[a] # Null /\ acct[a] \in AccountRow
        /\ HasSignInMethod(acct[a])
    BY <2>1, <1>d, SessionFacts
  <2>3. row \in AccountRow /\ HasSignInMethod(row)
    BY <2>2, DurationAssumption DEF AccountRow, HasSignInMethod
  <2>4. /\ Revoke(proc, a, D)
        /\ request' = WithSession([request EXCEPT ![r] = Null])
        /\ UNCHANGED <<now, flight>>
        /\ acct' = [acct EXCEPT ![a].totp = TRUE, ![a].codes = BackupCodes]
    BY <1>6 DEF ConfirmTotp
  <2>5. acct' = [acct EXCEPT ![a] = row]
    BY <2>2, <2>4, <1>a DEF AccountRow
  <2>6. D \in SUBSET Sessions
    BY SessionSets
  <2>7. request' \in [Requests -> RequestRow \cup {Null}]
    BY <2>4, <1>a, WithSessionType
  <2> HIDE DEF a, D, row
  <2> QED BY <2>2, <2>3, <2>4, <2>5, <2>6, <2>7, <1>a, <1>b, RevokeWithdraws
<1>7. ASSUME NEW p \in Procs, DeleteTotp(p)
      PROVE  Withdraws
  <2> DEFINE row == [acct[proc[p].account] EXCEPT !.totp = FALSE]
  <2>1. /\ Consumable(p, "totpRemoval")
        /\ acct' = [acct EXCEPT ![proc[p].account] = row]
        /\ Revoke(Consumed(proc, p), proc[p].account, {})
        /\ UNCHANGED <<now, request, flight>>
    BY <1>7 DEF DeleteTotp
  <2>2. row \in AccountRow /\ HasSignInMethod(row)
    BY <2>1, <1>d, ConsumableFacts DEF AccountRow, HasSignInMethod
  <2> HIDE DEF row
  <2> QED BY <2>1, <2>2, <1>a, GrantedChange
<1>8. ASSUME NEW p \in Procs, RotateBackupCodes(p)
      PROVE  Withdraws
  <2> DEFINE row == [acct[proc[p].account] EXCEPT !.codes = BackupCodes]
  <2>1. /\ Consumable(p, "backupCodesRotation")
        /\ acct' = [acct EXCEPT ![proc[p].account] = row]
        /\ Revoke(Consumed(proc, p), proc[p].account, {})
        /\ UNCHANGED <<now, request, flight>>
    BY <1>8 DEF RotateBackupCodes
  <2>2. row \in AccountRow /\ HasSignInMethod(row)
    BY <2>1, <1>d, ConsumableFacts, DurationAssumption DEF AccountRow, HasSignInMethod
  <2> HIDE DEF row
  <2> QED BY <2>1, <2>2, <1>a, GrantedChange
<1>9. ASSUME NEW p \in Procs, StartPasskey(p)
      PROVE  Withdraws
  <2> DEFINE r == CHOOSE q \in FreeRequests : TRUE
             new == NewRequest("passkey", proc[p].session)
  <2>1. /\ Consumable(p, "passkeyEnrollment")
        /\ request' = [request EXCEPT ![r] = new]
        /\ proc' = Consumed(proc, p)
        /\ UNCHANGED <<now, acct, sess, step, flight, epoch, proof>>
    BY <1>9 DEF StartPasskey
  <2>2. proc[p].session \in Sessions /\ Spent(proc')
    BY <2>1, <1>c, ConsumableFacts
  <2>3. new \in RequestRow
    BY <2>2, <1>g
  <2> HIDE DEF r, new
  <2>4. request' \in [Requests -> RequestRow \cup {Null}]
    BY <2>1, <2>3, <1>a
  <2> QED BY <2>1, <2>2, <2>4, <1>a, RequestWithdraws
<1>10. ASSUME NEW s \in Sessions, NEW r \in Requests, NEW k \in Passkeys,
              RegisterPasskey(s, r, k)
       PROVE  Withdraws
  <2> DEFINE a == sess[s].account
             row == [acct[a] EXCEPT !.passkeys = @ \cup {k}]
  <2>1. sess[s] # Null
    BY <1>10 DEF RegisterPasskey, checkPrincipal, checkRecoveryPrincipal, checkSession
  <2>2. a \in Accounts /\ acct[a] # Null /\ acct[a] \in AccountRow
    BY <2>1, SessionFacts
  <2>3. row \in AccountRow /\ HasSignInMethod(row)
    BY <2>2 DEF AccountRow, HasSignInMethod
  <2>4. /\ Revoke(proc, a, {})
        /\ request' = [request EXCEPT ![r] = Null]
        /\ UNCHANGED <<now, flight>>
        /\ acct' = [acct EXCEPT ![a] = row]
    BY <1>10 DEF RegisterPasskey
  <2>5. request' \in [Requests -> RequestRow \cup {Null}]
    BY <2>4, <1>a
  <2> HIDE DEF a, row
  <2> QED BY <2>2, <2>3, <2>4, <2>5, <1>a, <1>b, RevokeWithdraws
<1>11. ASSUME NEW p \in Procs, NEW k \in Passkeys, DeletePasskey(p, k)
       PROVE  Withdraws
  <2> DEFINE row == [acct[proc[p].account] EXCEPT !.passkeys = @ \ {k}]
  <2>1. /\ Consumable(p, "passkeyRemoval")
        /\ HasSignInMethod(row)
        /\ acct' = [acct EXCEPT ![proc[p].account] = row]
        /\ Revoke(Consumed(proc, p), proc[p].account, {})
        /\ UNCHANGED <<now, request, flight>>
    BY <1>11 DEF DeletePasskey
  <2>2. row \in AccountRow
    BY <2>1, ConsumableFacts DEF AccountRow
  <2> HIDE DEF row
  <2> QED BY <2>1, <2>2, <1>a, GrantedChange
<1>12. ASSUME NEW s \in Sessions, NEW m \in OAuth, PrepareIdentityOAuth(s, m)
       PROVE  Withdraws
  <2> DEFINE r == CHOOSE q \in FreeRequests : TRUE
             new == NewRequest(m, s)
  <2>1. /\ request' = [request EXCEPT ![r] = new]
        /\ UNCHANGED <<now, acct, sess, proc, step, flight, epoch, proof>>
    BY <1>12 DEF PrepareIdentityOAuth
  <2>2. new \in RequestRow
    BY <1>g DEF OAuth
  <2> HIDE DEF r, new
  <2>3. request' \in [Requests -> RequestRow \cup {Null}]
    BY <2>1, <2>2, <1>a
  <2>4. Spent(proc')
    BY <2>1, <1>b
  <2> QED BY <2>1, <2>3, <2>4, <1>a, RequestWithdraws
<1>13. ASSUME NEW s \in Sessions, NEW r \in Requests, NEW m \in OAuth, BeginLink(s, r, m)
       PROVE  Withdraws
  <2> DEFINE f == CHOOSE g \in FreeFlights : TRUE
             new == [stage |-> "link", proc |-> Null, step |-> Null,
                     session |-> s, provider |-> m]
  <2>1. /\ flight' = [flight EXCEPT ![f] = new]
        /\ request' = [request EXCEPT ![r] = Null]
        /\ UNCHANGED <<now, acct, sess, proc, step, epoch, proof>>
    BY <1>13 DEF BeginLink
  <2>2. new \in FlightRow
    BY DEF FlightRow, LinkCall
  <2> HIDE DEF f, new
  <2>3. /\ request' \in [Requests -> RequestRow \cup {Null}]
        /\ flight' \in [Flights -> FlightRow \cup {Null}]
    BY <2>1, <2>2, <1>a
  <2>4. Spent(proc')
    BY <2>1, <1>b
  <2> QED BY <2>1, <2>3, <2>4, RequestWithdraws
<1>14. ASSUME NEW f \in Flights, NEW p \in Procs, FinishLink(f, p)
       PROVE  Withdraws
  <2> DEFINE a == proc[p].account
             m == flight[f].provider
             row == [acct[a] EXCEPT !.identities = @ \cup {m}]
  <2>1. /\ Consumable(p, "identityLink")
        /\ flight[f] # Null
        /\ flight' = [flight EXCEPT ![f] = Null]
        /\ UNCHANGED <<now, request>>
    BY <1>14 DEF FinishLink
  <2>2. flight' \in [Flights -> FlightRow \cup {Null}] /\ m \in OAuth
    BY <2>1, <1>a DEF FlightRow, AttemptCall, LinkCall
  <2>3. CASE m \in acct[a].identities
    <3>1. proc' = Consumed(proc, p) /\ UNCHANGED <<acct, sess, step, epoch, proof>>
      BY <1>14, <2>3 DEF FinishLink
    <3>2. Spent(proc')
      BY <3>1, <2>1, <1>c
    <3> QED BY <2>1, <2>2, <3>1, <3>2, <1>a, RequestWithdraws
  <2>4. CASE m \notin acct[a].identities
    <3>1. acct' = [acct EXCEPT ![a] = row] /\ Revoke(Consumed(proc, p), a, {})
      BY <1>14, <2>4 DEF FinishLink
    <3>2. row \in AccountRow /\ HasSignInMethod(row)
      BY <2>1, <2>2, ConsumableFacts DEF AccountRow, HasSignInMethod
    <3> HIDE DEF row
    <3> QED BY <2>1, <2>2, <3>1, <3>2, GrantedChange
  <2> QED BY <2>3, <2>4
<1>15. ASSUME NEW p \in Procs, NEW m \in OAuth, UnlinkIdentity(p, m)
       PROVE  Withdraws
  <2> DEFINE row == [acct[proc[p].account] EXCEPT !.identities = @ \ {m}]
  <2>1. /\ Consumable(p, "identityUnlink")
        /\ HasSignInMethod(row)
        /\ acct' = [acct EXCEPT ![proc[p].account] = row]
        /\ Revoke(Consumed(proc, p), proc[p].account, {})
        /\ UNCHANGED <<now, request, flight>>
    BY <1>15 DEF UnlinkIdentity
  <2>2. row \in AccountRow
    BY <2>1, ConsumableFacts DEF AccountRow
  <2> HIDE DEF row
  <2> QED BY <2>1, <2>2, <1>a, GrantedChange
<1>16. ASSUME NEW p \in Procs, ChangeEmail(p)
       PROVE  Withdraws
  <2> DEFINE a == proc[p].account
             row == [acct[a] EXCEPT !.change = [stage |-> "old", exp |-> now + RequestTTL]]
  <2>1. /\ Consumable(p, "emailChange")
        /\ acct' = [acct EXCEPT ![a] = row]
        /\ proc' = Consumed(proc, p)
        /\ UNCHANGED <<now, sess, step, request, flight, epoch, proof>>
    BY <1>16 DEF ChangeEmail
  <2>2. a \in Accounts /\ acct[a] # Null /\ acct[a] \in AccountRow /\ HasSignInMethod(acct[a])
    BY <2>1, <1>d, ConsumableFacts
  <2>3. row \in AccountRow /\ HasSignInMethod(row) /\ row.totp = acct[a].totp
    BY <2>2, <1>a, DurationAssumption DEF AccountRow, ChangeRow, HasSignInMethod, Time
  <2>4. Spent(proc')
    BY <2>1, <1>c
  <2> HIDE DEF a, row
  <2> QED BY <2>1, <2>2, <2>3, <2>4, AccountFlagWithdraws
<1>17. ASSUME NEW a \in Accounts, ConfirmEmail(a)
       PROVE  Withdraws
  <2>1. /\ acct[a] # Null /\ acct[a] \in AccountRow /\ HasSignInMethod(acct[a])
        /\ UNCHANGED <<now, request, flight>>
    BY <1>17, <1>a, <1>d DEF ConfirmEmail
  <2>2. CASE acct[a].change.stage = "old"
    <3> DEFINE row == [acct[a] EXCEPT !.change = [stage |-> "new", exp |-> now + RequestTTL]]
    <3>1. /\ acct' = [acct EXCEPT ![a] = row]
          /\ UNCHANGED <<sess, proc, step, epoch, proof>>
      BY <1>17, <2>2 DEF ConfirmEmail
    <3>2. row \in AccountRow /\ HasSignInMethod(row) /\ row.totp = acct[a].totp
      BY <2>1, <1>a, DurationAssumption DEF AccountRow, ChangeRow, HasSignInMethod, Time
    <3>3. Spent(proc')
      BY <3>1 DEF Spent
    <3> HIDE DEF row
    <3> QED BY <2>1, <3>1, <3>2, <3>3, AccountFlagWithdraws
  <2>3. CASE acct[a].change.stage = "new"
    <3> DEFINE row == [acct[a] EXCEPT !.change = Null]
    <3>1. acct' = [acct EXCEPT ![a] = row] /\ Revoke(proc, a, {})
      BY <1>17, <2>3 DEF ConfirmEmail
    <3>2. row \in AccountRow /\ HasSignInMethod(row)
      BY <2>1 DEF AccountRow, HasSignInMethod
    <3> HIDE DEF row
    <3> QED BY <2>1, <3>1, <3>2, <1>a, <1>b, RevokeWithdraws
  <2> QED BY <1>17, <2>2, <2>3 DEF ConfirmEmail
<1> QED BY <1>1, <1>2, <1>3, <1>4, <1>5, <1>6, <1>7, <1>8, <1>9, <1>10, <1>11,
           <1>12, <1>13, <1>14, <1>15, <1>16, <1>17 DEF CredentialsNext

-----------------------------------------------------------------------------
(* Sessions, deletion, cleanup *)

\* A transaction that deletes processes, sessions and accounts together with
\* what refers to them, and changes no credentials.
LEMMA RowDeletionWithdraws ==
    ASSUME IInv, NEW ps \in [Procs -> ProcRow \cup {Null}], NEW D \in SUBSET Sessions,
           \A q \in Procs : ps[q] # Null => ps[q] = proc[q],
           DeleteSessions(ps, D), CascadeSteps, UNCHANGED <<now, epoch, flight>>,
           request' \in [Requests -> RequestRow \cup {Null}],
           acct' \in [Accounts -> AccountRow \cup {Null}],
           \A a \in Accounts : acct'[a] # Null =>
             /\ acct[a] # Null
             /\ HasSignInMethod(acct'[a])
             /\ acct'[a].totp = acct[a].totp,
           \A s \in Sessions : sess[s] # Null /\ s \notin D => acct'[sess[s].account] # Null,
           \A q \in Procs : ps[q] # Null /\ ps[q].account # Null
                               => acct'[ps[q].account] # Null
    PROVE  Withdraws
<1>1. /\ sess' \in [Sessions -> SessionRow \cup {Null}]
      /\ proc' \in [Procs -> ProcRow \cup {Null}]
      /\ step' \in [Steps -> StepRow \cup {Null}]
      /\ proof' \in [Procs -> Proof]
      /\ \A s \in Sessions : sess'[s] = IF s \in D THEN Null ELSE sess[s]
      /\ \A p \in Procs : proc'[p] # Null =>
           proc'[p] = ps[p] /\ ps[p].session \notin D
      /\ StepsFollow
  BY DeletionWithdraws
<1>2. Typed
  BY <1>1 DEF Typed, IInv, TypeOK
<1>3. SessionsWithdrawn
  BY <1>1 DEF SessionsWithdrawn
<1>4. ProcsWithdrawn
  <2> SUFFICES ASSUME NEW p \in Procs, proc'[p] # Null
               PROVE  /\ proc[p] # Null /\ proc'[p] = proc[p]
                      /\ sensitive(proc[p].purpose) => sess'[proc[p].session] # Null
                      /\ proc[p].account # Null => acct'[proc[p].account] # Null
    BY DEF ProcsWithdrawn
  <2>1. proc[p] # Null /\ proc'[p] = proc[p] /\ ps[p] = proc[p] /\ proc[p].session \notin D
    BY <1>1
  <2>2. ASSUME sensitive(proc[p].purpose) PROVE sess'[proc[p].session] # Null
    BY <1>1, <2>1, <2>2 DEF IInv, SensitiveStaysWithPrincipal, TypeOK, ProcRow
  <2> QED BY <2>1, <2>2
<1>5. ChangesRevoke
  BY DEF ChangesRevoke
<1> QED BY <1>1, <1>2, <1>3, <1>4, <1>5 DEF Withdraws

\* Ending sessions withdraws authority.
LEMMA EndSessionsWithdraws ==
    ASSUME IInv, NEW D \in SUBSET Sessions, EndSessions(D)
    PROVE  Withdraws
<1>1. /\ DeleteSessions(proc, D) /\ CascadeSteps
      /\ request' = WithSession(request)
      /\ UNCHANGED <<now, acct, flight, epoch>>
  BY DEF EndSessions
<1>2. /\ proc \in [Procs -> ProcRow \cup {Null}]
      /\ acct \in [Accounts -> AccountRow \cup {Null}]
      /\ request' \in [Requests -> RequestRow \cup {Null}]
  BY <1>1, WithSessionType DEF IInv, TypeOK
<1>3. /\ \A a \in Accounts : acct[a] # Null => HasSignInMethod(acct[a])
      /\ \A s \in Sessions : sess[s] # Null => acct[sess[s].account] # Null
      /\ \A q \in Procs : proc[q] # Null /\ proc[q].account # Null
                           => acct[proc[q].account] # Null
  BY DEF IInv, AccountIsReachable, ForeignKeys
<1> QED BY <1>1, <1>2, <1>3, RowDeletionWithdraws

\* Every transaction of AuthSessions withdraws authority; a new session is
\* bought with a grant.
LEMMA SessionsWithdraw ==
    ASSUME IInv, SessionsNext, ~Tick
    PROVE  Withdraws
<1>a. /\ now \in Nat
      /\ acct \in [Accounts -> AccountRow \cup {Null}]
      /\ sess \in [Sessions -> SessionRow \cup {Null}]
      /\ proc \in [Procs -> ProcRow \cup {Null}]
      /\ request \in [Requests -> RequestRow \cup {Null}]
      /\ flight \in [Flights -> FlightRow \cup {Null}]
  BY DEF IInv, TypeOK, Time
<1>b. \A a \in Accounts : acct[a] # Null => HasSignInMethod(acct[a])
  BY DEF IInv, AccountIsReachable
<1>c. /\ \A s \in Sessions : sess[s] # Null => acct[sess[s].account] # Null
      /\ \A q \in Procs : proc[q] # Null /\ proc[q].account # Null
                           => acct[proc[q].account] # Null
  BY DEF IInv, ForeignKeys
<1>d. Spent(proc)
  BY DEF Spent
<1>e. ASSUME NEW p \in Procs, NEW u, Consumable(p, u)
      PROVE  Spent(Consumed(proc, p))
  BY <1>e, ConsumableFacts DEF Spent
<1>1. ASSUME NEW p \in Procs, CreateSession(p)
      PROVE  Withdraws
  <2> DEFINE s == CHOOSE t \in FreeSessions : TRUE
             new == [account |-> proc[p].account, exp |-> now + SessionTTL]
  <2>1. /\ Consumable(p, "signIn") /\ FreeSessions # {}
        /\ sess' = [sess EXCEPT ![s] = new]
        /\ proc' = Consumed(proc, p)
        /\ UNCHANGED <<now, acct, step, request, flight, epoch, proof>>
    BY <1>1 DEF CreateSession
  <2>2. s \in Sessions /\ sess[s] = Null
    BY <2>1 DEF FreeSessions
  <2>3. /\ new \in SessionRow /\ acct[new.account] # Null
    BY <2>1, <1>a, ConsumableFacts, DurationAssumption DEF SessionRow, Time
  <2> HIDE DEF s, new
  <2>4. /\ sess' \in [Sessions -> SessionRow \cup {Null}]
        /\ \A t \in Sessions : sess[t] # Null =>
             sess'[t] # Null /\ sess'[t].account = sess[t].account
        /\ \A t \in Sessions : sess'[t] # Null => acct[sess'[t].account] # Null
    BY <2>1, <2>2, <2>3, <1>a, <1>c
  <2> QED BY <2>1, <2>4, <1>a, <1>b, <1>e, SpendWithdraws
<1>2. ASSUME NEW p \in Procs, RequestDeletion(p)
      PROVE  Withdraws
  <2> DEFINE a == proc[p].account
             row == [acct[a] EXCEPT !.deletion =
                       IF @ = Null THEN now + DeletionDelay ELSE @]
  <2>1. /\ Consumable(p, "accountDeletion")
        /\ acct' = [acct EXCEPT ![a] = row]
        /\ proc' = Consumed(proc, p)
        /\ UNCHANGED <<now, sess, step, request, flight, epoch, proof>>
    BY <1>2 DEF RequestDeletion
  <2>2. a \in Accounts /\ acct[a] # Null /\ acct[a] \in AccountRow /\ HasSignInMethod(acct[a])
    BY <2>1, <1>b, ConsumableFacts
  <2>3. row \in AccountRow /\ HasSignInMethod(row) /\ row.totp = acct[a].totp
    BY <2>2, <1>a, DurationAssumption DEF AccountRow, HasSignInMethod, Time
  <2> HIDE DEF a, row
  <2> QED BY <2>1, <2>2, <2>3, <1>e, AccountFlagWithdraws
<1>3. ASSUME NEW s \in Sessions, Refresh(s)
      PROVE  Withdraws
  <2> DEFINE new == [sess[s] EXCEPT !.exp = now + SessionTTL]
  <2>1. /\ sess[s] # Null
        /\ sess' = [sess EXCEPT ![s] = new]
        /\ UNCHANGED <<now, acct, proc, step, request, flight, epoch, proof>>
    BY <1>3 DEF Refresh, checkSession
  <2>2. new \in SessionRow /\ new.account = sess[s].account
    BY <2>1, <1>a, DurationAssumption DEF SessionRow, Time
  <2> HIDE DEF new
  <2>3. /\ sess' \in [Sessions -> SessionRow \cup {Null}]
        /\ \A t \in Sessions : sess[t] # Null =>
             sess'[t] # Null /\ sess'[t].account = sess[t].account
        /\ \A t \in Sessions : sess'[t] # Null => acct[sess'[t].account] # Null
    BY <2>1, <2>2, <1>a, <1>c, NullAssumption
  <2>4. Spent(proc')
    BY <2>1, <1>d
  <2> QED BY <2>1, <2>3, <2>4, <1>a, <1>b, SpendWithdraws
<1>4. ASSUME NEW s \in Sessions, LogoutRefresh(s)
      PROVE  Withdraws
  BY <1>4, EndSessionsWithdraws DEF LogoutRefresh
<1>5. ASSUME NEW s \in Sessions, CancelDeletion(s)
      PROVE  Withdraws
  <2> DEFINE a == sess[s].account
             row == [acct[a] EXCEPT !.deletion = Null]
  <2>1. /\ sess[s] # Null
        /\ acct' = [acct EXCEPT ![a] = row]
        /\ UNCHANGED <<now, sess, proc, step, request, flight, epoch, proof>>
    BY <1>5 DEF CancelDeletion, checkRecoveryPrincipal, checkSession
  <2>2. a \in Accounts /\ acct[a] # Null /\ acct[a] \in AccountRow /\ HasSignInMethod(acct[a])
    BY <2>1, <1>b, SessionFacts
  <2>3. row \in AccountRow /\ HasSignInMethod(row) /\ row.totp = acct[a].totp
    BY <2>2 DEF AccountRow, HasSignInMethod
  <2>4. Spent(proc')
    BY <2>1, <1>d
  <2> HIDE DEF a, row
  <2> QED BY <2>1, <2>2, <2>3, <2>4, AccountFlagWithdraws
<1>6. ASSUME NEW s \in Sessions, NEW t \in Sessions \cup {Null}, RevokeSessions(s, t)
      PROVE  Withdraws
  <2> DEFINE D == IF t = Null THEN SessionsOf(sess[s].account)
                              ELSE SessionsOf(sess[s].account) \cap {t}
  <2>1. D \in SUBSET Sessions
    BY DEF SessionsOf
  <2>2. EndSessions(D)
    BY <1>6 DEF RevokeSessions
  <2> HIDE DEF D
  <2> QED BY <2>1, <2>2, EndSessionsWithdraws
<1>7. ASSUME NEW a \in Accounts, DeleteDueAccount(a)
      PROVE  Withdraws
  <2> DEFINE ps == [p \in Procs |-> IF proc[p] # Null /\ proc[p].account = a
                                    THEN Null ELSE proc[p]]
             D == SessionsOf(a)
  <2>1. /\ acct' = [acct EXCEPT ![a] = Null]
        /\ DeleteSessions(ps, D) /\ CascadeSteps
        /\ request' = WithSession(request)
        /\ UNCHANGED <<now, flight, epoch>>
    BY <1>7 DEF DeleteDueAccount
  <2>2. /\ ps \in [Procs -> ProcRow \cup {Null}] /\ D \in SUBSET Sessions
        /\ \A q \in Procs : ps[q] # Null => ps[q] = proc[q] /\ proc[q].account # a
    BY <1>a DEF SessionsOf
  <2>3. \A s \in Sessions : sess[s] # Null /\ s \notin D => sess[s].account # a
    BY DEF SessionsOf
  <2>4. /\ acct' \in [Accounts -> AccountRow \cup {Null}]
        /\ \A b \in Accounts : b # a => acct'[b] = acct[b]
        /\ acct'[a] = Null
    BY <2>1, <1>a
  <2>5. request' \in [Requests -> RequestRow \cup {Null}]
    BY <2>1, <1>a, WithSessionType
  <2>6. \A s \in Sessions : sess[s] # Null /\ s \notin D => acct'[sess[s].account] # Null
    BY <2>3, <2>4, <1>c, SessionFacts
  <2>7. \A q \in Procs : ps[q] # Null /\ ps[q].account # Null => acct'[ps[q].account] # Null
    BY <2>2, <2>4, <1>a, <1>c DEF ProcRow
  <2>8. \A b \in Accounts : acct'[b] # Null =>
          /\ acct[b] # Null
          /\ HasSignInMethod(acct'[b])
          /\ acct'[b].totp = acct[b].totp
    BY <2>4, <1>b
  <2> HIDE DEF ps, D
  <2> QED BY <2>1, <2>2, <2>4, <2>5, <2>6, <2>7, <2>8, RowDeletionWithdraws
<1>8. ASSUME NEW a \in Accounts, Block(a)
      PROVE  Withdraws
  <2> DEFINE row == [acct[a] EXCEPT !.blocked = TRUE]
  <2>1. /\ acct[a] # Null
        /\ acct' = [acct EXCEPT ![a] = row]
        /\ UNCHANGED <<now, sess, proc, step, request, flight, epoch, proof>>
    BY <1>8 DEF Block
  <2>2. acct[a] \in AccountRow /\ HasSignInMethod(acct[a])
    BY <2>1, <1>a, <1>b
  <2>3. row \in AccountRow /\ HasSignInMethod(row) /\ row.totp = acct[a].totp
    BY <2>2 DEF AccountRow, HasSignInMethod
  <2>4. Spent(proc')
    BY <2>1, <1>d
  <2> HIDE DEF row
  <2> QED BY <2>1, <2>3, <2>4, AccountFlagWithdraws
<1>9. ASSUME Cleanup
      PROVE  Withdraws
  <2> DEFINE ps == [p \in Procs |-> IF Disposable(p) THEN Null ELSE proc[p]]
             D == ExpiredSessions
             rq == [r \in Requests |-> IF request[r] # Null /\ request[r].exp < now
                                       THEN Null ELSE request[r]]
  <2>1. /\ DeleteSessions(ps, D) /\ CascadeSteps
        /\ request' = WithSession(rq)
        /\ UNCHANGED <<now, flight, epoch>>
        /\ acct' = [a \in Accounts |->
              IF acct[a] = Null THEN Null ELSE Pruned(acct[a])]
    BY <1>9 DEF Cleanup
  <2>2. /\ ps \in [Procs -> ProcRow \cup {Null}] /\ D \in SUBSET Sessions
        /\ \A q \in Procs : ps[q] # Null => ps[q] = proc[q]
    BY <1>a DEF ExpiredSessions
  <2>3. rq \in [Requests -> RequestRow \cup {Null}]
    BY <1>a
  <2>4. request' \in [Requests -> RequestRow \cup {Null}]
    BY <2>1, <2>3, WithSessionType
  <2>5. ASSUME NEW a \in Accounts, acct[a] # Null
        PROVE  /\ acct'[a] \in AccountRow
               /\ HasSignInMethod(acct'[a])
               /\ acct'[a].totp = acct[a].totp
    <3>1. acct[a] \in AccountRow /\ HasSignInMethod(acct[a])
      BY <2>5, <1>a, <1>b
    <3>2. acct'[a] = Pruned(acct[a])
      BY <2>1, <2>5
    <3> QED BY <3>1, <3>2 DEF Pruned, AccountRow, HasSignInMethod
  <2>6. \A a \in Accounts : acct[a] = Null => acct'[a] = Null
    BY <2>1
  <2>7. \A a \in Accounts : acct'[a] # Null <=> acct[a] # Null
    BY <2>5, <2>6, NullAssumption
  <2>8. acct' \in [Accounts -> AccountRow \cup {Null}]
    <3>1. DOMAIN acct' = Accounts /\ acct' = [a \in Accounts |-> acct'[a]]
      BY <2>1
    <3> QED BY <3>1, <2>5, <2>6
  <2>9. \A s \in Sessions : sess[s] # Null /\ s \notin D => acct'[sess[s].account] # Null
    BY <2>7, <1>c, SessionFacts
  <2>10. \A q \in Procs : ps[q] # Null /\ ps[q].account # Null => acct'[ps[q].account] # Null
    BY <2>2, <2>7, <1>a, <1>c DEF ProcRow
  <2> HIDE DEF ps, D, rq
  <2> QED BY <2>1, <2>2, <2>4, <2>5, <2>7, <2>8, <2>9, <2>10, RowDeletionWithdraws
<1> QED BY <1>1, <1>2, <1>3, <1>4, <1>5, <1>6, <1>7, <1>8, <1>9 DEF SessionsNext

-----------------------------------------------------------------------------
(***************************************************************************)
(* The transactions that give authority write one process each.  row is    *)
(* what process p becomes and g what it then rests on.                     *)
(***************************************************************************)

\* Row row is one that the invariant allows a process to have.
Sound(row, g) ==
    /\ row.account # Null => acct[row.account] # Null
    /\ row.status = "completed" => row.account # Null /\ row.done # Null
    /\ ~row.invalid /\ row.account # Null => g.epoch = epoch[row.account]
    /\ row.grant # Null =>
         /\ row.status = "completed" /\ ~row.invalid
         /\ row.account # Null
         /\ g.first # Null
         /\ acct[row.account].totp => g.second # Null
    /\ row.status = "completed" /\ g.derived =>
         /\ g.first # Null
         /\ row.done < g.first + ReuseTTL
         /\ row.grant # Null /\ acct[row.account].totp
              => row.done < g.second + ReuseTTL
    /\ sensitive(row.purpose) =>
         /\ row.session # Null /\ sess[row.session] # Null
         /\ sess[row.session].account = row.account

\* Writing one sound process preserves the invariant.
LEMMA OneProcess ==
    ASSUME IInv, NEW p \in Procs, NEW row \in ProcRow, NEW g \in Proof,
           Sound(row, g),
           proc' = [proc EXCEPT ![p] = row],
           proof' = [proof EXCEPT ![p] = g],
           step' \in [Steps -> StepRow \cup {Null}],
           \A c \in Steps : step'[c] # Null =>
             step'[c].proc = p \/ proc[step'[c].proc] # Null,
           StepsBackProofs',
           flight' \in [Flights -> FlightRow \cup {Null}],
           acct' \in [Accounts -> AccountRow \cup {Null}],
           \A a \in Accounts : acct'[a] # Null <=> acct[a] # Null,
           \A a \in Accounts : acct[a] # Null =>
             HasSignInMethod(acct'[a]) /\ acct'[a].totp = acct[a].totp,
           UNCHANGED <<now, sess, request, epoch>>
    PROVE  IInv'
<1>1. /\ proc \in [Procs -> ProcRow \cup {Null}]
      /\ sess \in [Sessions -> SessionRow \cup {Null}]
      /\ proof \in [Procs -> Proof]
      /\ \A q \in Procs : proc'[q] = IF q = p THEN row ELSE proc[q]
      /\ \A q \in Procs : proof'[q] = IF q = p THEN g ELSE proof[q]
      /\ row # Null
  BY NullAssumption DEF IInv, TypeOK
<1>2. \A q \in Procs : proc'[q] # Null =>
        Sound(proc'[q], proof'[q]) /\ proc'[q] \in ProcRow
  <2> SUFFICES ASSUME NEW q \in Procs, q # p, proc[q] # Null
               PROVE  Sound(proc[q], proof[q]) /\ proc[q] \in ProcRow
    BY <1>1
  <2> QED BY <1>1 DEF Sound, IInv, ForeignKeys, EvidenceIsCurrent,
                 GrantMeetsPolicy, TrustWindowIsFixed, SensitiveStaysWithPrincipal
<1>3. \A r \in ProcRow : r.account # Null => r.account \in Accounts
  BY DEF ProcRow
<1>4. TypeOK'
  BY <1>1 DEF IInv, TypeOK
<1>5. ForeignKeys'
  <2>1. \A s \in Sessions : sess'[s] # Null => acct'[sess'[s].account] # Null
    BY SessionFacts DEF IInv, ForeignKeys
  <2>2. \A c \in Steps : step'[c] # Null => proc'[step'[c].proc] # Null
    <3> SUFFICES ASSUME NEW c \in Steps, step'[c] # Null
                 PROVE  proc'[step'[c].proc] # Null
      OBVIOUS
    <3>1. step'[c].proc \in Procs
      BY DEF StepRow
    <3> QED BY <3>1, <1>1
  <2> QED BY <1>2, <1>3, <2>1, <2>2 DEF ForeignKeys, Sound
<1>6. EvidenceIsCurrent'
  BY <1>2, <1>3 DEF EvidenceIsCurrent, Sound
<1>7. ASSUME NEW q \in Procs, proc'[q] # Null, proc'[q].account # Null
      PROVE  acct'[proc'[q].account].totp = acct[proc'[q].account].totp
  BY <1>7, <1>2, <1>3 DEF Sound
<1>8. GrantMeetsPolicy'
  BY <1>2, <1>7 DEF GrantMeetsPolicy, Sound
<1>9. TrustWindowIsFixed'
  BY <1>2, <1>7 DEF TrustWindowIsFixed, Sound
<1>10. SensitiveStaysWithPrincipal'
  BY <1>2 DEF SensitiveStaysWithPrincipal, Sound
<1>11. AccountIsReachable'
  BY DEF AccountIsReachable
<1> QED BY <1>4, <1>5, <1>6, <1>8, <1>9, <1>10, <1>11 DEF IInv

\* The invariant makes every present process sound.
LEMMA PresentIsSound ==
    ASSUME IInv, NEW p \in Procs, proc[p] # Null
    PROVE  /\ proc[p] \in ProcRow /\ proof[p] \in Proof
           /\ Sound(proc[p], proof[p])
           /\ proc = [proc EXCEPT ![p] = proc[p]]
           /\ proof = [proof EXCEPT ![p] = proof[p]]
<1>1. proc[p] \in ProcRow /\ proof[p] \in Proof
      /\ proc = [proc EXCEPT ![p] = proc[p]]
      /\ proof = [proof EXCEPT ![p] = proof[p]]
  BY DEF IInv, TypeOK
<1> QED BY <1>1 DEF Sound, IInv, ForeignKeys, EvidenceIsCurrent,
               GrantMeetsPolicy, TrustWindowIsFixed, SensitiveStaysWithPrincipal

\* A started process is sound and no step refers to it yet.
LEMMA StartPreserves ==
    ASSUME IInv,
           StartSignIn \/ \E s \in Sessions, u \in Purposes : StartSensitive(s, u)
    PROVE  IInv'
<1> DEFINE p == CHOOSE q \in FreeProcs : TRUE
<1>a. now \in Nat /\ now + FlowTTL \in Nat /\ now + GrantTTL \in Nat /\ ReuseTTL \in Nat
  BY DurationAssumption DEF IInv, TypeOK, Time
<1>b. /\ acct \in [Accounts -> AccountRow \cup {Null}]
      /\ step \in [Steps -> StepRow \cup {Null}]
      /\ flight \in [Flights -> FlightRow \cup {Null}]
      /\ epoch \in [Accounts -> Nat]
      /\ \A a \in Accounts : acct[a] # Null => HasSignInMethod(acct[a])
      /\ \A c \in Steps : step[c] # Null => proc[step[c].proc] # Null
  BY DEF IInv, TypeOK, AccountIsReachable, ForeignKeys
<1>c. NoProof \in Proof /\ ~NoProof.derived
  BY DEF NoProof, Proof, Time
<1>1. ASSUME FreeProcs # {}, NEW row \in ProcRow, NEW g \in Proof, Sound(row, g),
             proc' = [proc EXCEPT ![p] = row], proof' = [proof EXCEPT ![p] = g],
             UNCHANGED <<now, acct, sess, step, request, flight, epoch>>
      PROVE  IInv'
  <2>1. p \in Procs /\ proc[p] = Null
    BY <1>1 DEF FreeProcs
  <2> HIDE DEF p
  <2>2. \A c \in Steps : step[c] # Null => step[c].proc # p /\ step[c].proc \in Procs
    BY <1>b, <2>1 DEF StepRow
  <2>3. \A q \in Procs : q # p => proof'[q] = proof[q]
    BY <1>1 DEF IInv, TypeOK
  <2>4. StepsBackProofs'
    BY <1>1, <2>2, <2>3 DEF StepsBackProofs, IInv
  <2> QED BY <1>1, <1>b, <2>1, <2>4, OneProcess
<1>2. ASSUME StartSignIn PROVE IInv'
  <2> DEFINE row == NewProc("signIn", Null, Null)
  <2>1. /\ "signIn" \in Purposes /\ FreeProcs # {}
        /\ proc' = [proc EXCEPT ![p] = row] /\ proof' = [proof EXCEPT ![p] = NoProof]
        /\ UNCHANGED <<now, acct, sess, step, request, flight, epoch>>
    BY <1>2 DEF StartSignIn
  <2>2. row \in ProcRow
    BY <2>1, <1>a DEF NewProc, ProcRow, Time
  <2>3. Sound(row, NoProof)
    BY DEF Sound, NewProc, sensitive
  <2> HIDE DEF row, p
  <2> QED BY <2>1, <2>2, <2>3, <1>c, <1>1
<1>3. ASSUME NEW s \in Sessions, NEW u \in Purposes, StartSensitive(s, u) PROVE IInv'
  <2> DEFINE a == sess[s].account
             row == NewProc(u, a, s)
             q == CHOOSE e \in reusable(a, s) : TRUE
  <2>1. /\ checkPurposePrincipal(s, u) /\ FreeProcs # {}
        /\ UNCHANGED <<now, acct, sess, step, request, flight, epoch>>
    BY <1>3 DEF StartSensitive
  <2>2. sess[s] # Null
    BY <2>1 DEF checkPurposePrincipal, checkPrincipal, checkRecoveryPrincipal, checkSession
  <2>3. a \in Accounts /\ acct[a] # Null
    BY <2>2, SessionFacts
  <2>4. row \in ProcRow /\ row.account = a /\ row.session = s /\ row.status = "pending"
        /\ row.grant = Null /\ ~row.invalid
    BY <2>3, <1>a DEF NewProc, ProcRow, Time
  <2>5. s # Null /\ a # Null
    BY <2>3, NullAssumption
  <2> HIDE DEF row
  <2>6. CASE reusable(a, s) = {}
    <3> DEFINE g == [NoProof EXCEPT !.epoch = epoch[a]]
    <3>1. proc' = [proc EXCEPT ![p] = row] /\ proof' = [proof EXCEPT ![p] = g]
      BY <1>3, <2>6 DEF StartSensitive, row
    <3>2. g \in Proof /\ g.epoch = epoch[a]
      BY <1>b, <2>3 DEF NoProof, Proof, Time
    <3> HIDE DEF g
    <3>3. Sound(row, g)
      BY <2>2, <2>3, <2>4, <2>5, <3>2 DEF Sound
    <3> HIDE DEF p
    <3> QED BY <2>1, <2>4, <3>1, <3>2, <3>3, <1>1
  <2>7. CASE reusable(a, s) # {}
    <3> DEFINE g == [proof[q] EXCEPT !.derived = TRUE]
               new == complete(row)
    <3>1. proc' = [proc EXCEPT ![p] = new] /\ proof' = [proof EXCEPT ![p] = g]
      BY <1>3, <2>7 DEF StartSensitive, row
    <3>2. q \in reusable(a, s)
      BY <2>7
    <3> HIDE DEF q
    <3>3. /\ q \in Procs /\ proc[q] # Null /\ proc[q].account = a
          /\ ~proc[q].invalid /\ Recent(q, FirstFactors)
          /\ acct[a].totp => Recent(q, SecondFactors)
      BY <3>2 DEF reusable
    <3>4. proof[q] \in Proof /\ proof[q].epoch = epoch[a]
      BY <3>3, <2>5 DEF IInv, TypeOK, EvidenceIsCurrent
    <3>5. proof[q].first # Null /\ now < proof[q].first + ReuseTTL
      <4>1. PICK c \in Steps : /\ step[c] # Null /\ step[c].proc = q
                               /\ step[c].status = "completed"
                               /\ step[c].method \in FirstFactors
                               /\ step[c].done > now - ReuseTTL
        BY <3>3 DEF Recent
      <4>2. /\ step[c].done # Null /\ proof[q].first # Null
            /\ step[c].done <= proof[q].first
        BY <4>1 DEF IInv, StepsBackProofs
      <4>3. step[c].done \in Nat /\ proof[q].first \in Nat
        BY <4>1, <4>2, <3>4, <1>b DEF StepRow, Proof, Time
      <4> QED BY <4>1, <4>2, <4>3, <1>a
    <3>6. ASSUME acct[a].totp
          PROVE  proof[q].second # Null /\ now < proof[q].second + ReuseTTL
      <4>1. PICK c \in Steps : /\ step[c] # Null /\ step[c].proc = q
                               /\ step[c].status = "completed"
                               /\ step[c].method \in SecondFactors
                               /\ step[c].done > now - ReuseTTL
        BY <3>3, <3>6 DEF Recent
      <4>2. /\ step[c].done # Null /\ proof[q].second # Null
            /\ step[c].done <= proof[q].second
        BY <4>1 DEF IInv, StepsBackProofs
      <4>3. step[c].done \in Nat /\ proof[q].second \in Nat
        BY <4>1, <4>2, <3>4, <1>b DEF StepRow, Proof, Time
      <4> QED BY <4>1, <4>2, <4>3, <1>a
    <3>7. g \in Proof /\ g.epoch = epoch[a] /\ g.first = proof[q].first
          /\ g.second = proof[q].second
      BY <3>4 DEF Proof
    <3>8. /\ new \in ProcRow /\ new.account = a /\ new.session = s
          /\ new.done = now /\ new.status = "completed" /\ ~new.invalid
      BY <2>4, <1>a DEF complete, ProcRow, Time
    <3>9. now # Null
      BY <1>a, NullAssumption
    <3> HIDE DEF g, new
    <3>10. Sound(new, g)
      BY <2>2, <2>3, <2>5, <3>5, <3>6, <3>7, <3>8, <3>9 DEF Sound
    <3> HIDE DEF p
    <3> QED BY <2>1, <3>1, <3>7, <3>8, <3>10, <1>1
  <2> QED BY <2>6, <2>7
<1> QED BY <1>2, <1>3

\* A step that completes no step and proves nothing new, and writes at most
\* process p, which stays without a grant.
LEMMA PendingPreserves ==
    ASSUME IInv, NEW p \in Procs, proc[p] # Null,
           NEW row \in ProcRow, Sound(row, proof[p]),
           proc' = [proc EXCEPT ![p] = row],
           step' \in [Steps -> StepRow \cup {Null}],
           \A c \in Steps : step'[c] # Null =>
             /\ step'[c].proc = p \/ proc[step'[c].proc] # Null
             /\ step'[c].status = "completed" =>
                  /\ step[c] # Null /\ step[c].status = "completed"
                  /\ step'[c].proc = step[c].proc /\ step'[c].method = step[c].method
                  /\ step'[c].done = step[c].done,
           flight' \in [Flights -> FlightRow \cup {Null}],
           UNCHANGED <<now, acct, sess, request, epoch, proof>>
    PROVE  IInv'
<1>1. StepsBackProofs'
  BY DEF StepsBackProofs, IInv
<1>2. /\ proof' = [proof EXCEPT ![p] = proof[p]] /\ proof[p] \in Proof
      /\ acct' \in [Accounts -> AccountRow \cup {Null}]
      /\ \A a \in Accounts : acct[a] # Null => HasSignInMethod(acct[a])
  BY PresentIsSound DEF IInv, TypeOK, AccountIsReachable
<1> QED BY <1>1, <1>2, OneProcess

\* What Open and load say of process p and step c.
LEMMA PendingFacts ==
    ASSUME IInv, NEW p \in Procs, NEW c \in Steps, load(p), proc[p].status = "pending",
           step[c] # Null, step[c].proc = p, step[c].status = "pending"
    PROVE  /\ proc[p] # Null /\ proc[p] \in ProcRow /\ proof[p] \in Proof
           /\ ~proc[p].invalid /\ proc[p].grant = Null
           /\ step[c] \in StepRow
<1>1. proc[p] # Null /\ ~proc[p].invalid /\ step[c] \in StepRow
  BY DEF load, IInv, TypeOK
<1>2. proc[p] \in ProcRow /\ proof[p] \in Proof
  BY <1>1, PresentIsSound
<1> QED BY <1>1, <1>2 DEF IInv, GrantMeetsPolicy

\* A new step is pending, and replacing one completes none.
LEMMA ChallengePreserves ==
    ASSUME IInv, NEW p \in Procs, NEW m \in Methods,
           NEW t \in {"none", "code", "idToken"}, CreateChallenge(p, m, t)
    PROVE  IInv'
<1> DEFINE c == CHOOSE d \in FreeSteps : TRUE
           new == [proc |-> p, method |-> m, status |-> "pending",
                   exp |-> MinOf(now + ChallengeTTL, proc[p].exp),
                   failures |-> 0, done |-> Null, ticket |-> t]
<1>1. /\ load(p) /\ FreeSteps # {}
      /\ step' = [d \in Steps |->
                    IF d = c THEN new
                    ELSE IF /\ step[d] # Null /\ step[d].proc = p
                            /\ step[d].method = m /\ step[d].status = "pending"
                         THEN [step[d] EXCEPT !.status = "cancelled"]
                         ELSE step[d]]
      /\ UNCHANGED <<now, acct, sess, proc, request, flight, epoch, proof>>
  BY DEF CreateChallenge
<1>2. proc[p] # Null
  BY <1>1 DEF load
<1>3. /\ proc[p] \in ProcRow /\ Sound(proc[p], proof[p])
      /\ proc = [proc EXCEPT ![p] = proc[p]]
  BY <1>2, PresentIsSound
<1>4. /\ step \in [Steps -> StepRow \cup {Null}]
      /\ flight \in [Flights -> FlightRow \cup {Null}] /\ now \in Nat
      /\ \A d \in Steps : step[d] # Null => proc[step[d].proc] # Null
  BY DEF IInv, TypeOK, ForeignKeys, Time
<1>5. new \in StepRow /\ new.status = "pending" /\ new.proc = p
  BY <1>3, <1>4, DurationAssumption DEF StepRow, ProcRow, Time, MinOf
<1> HIDE DEF new, c
<1>6. ASSUME NEW d \in Steps
      PROVE  /\ step'[d] \in StepRow \cup {Null}
             /\ step'[d] # Null =>
                  /\ step'[d].proc = p \/ proc[step'[d].proc] # Null
                  /\ step'[d].status = "completed" => step[d] # Null /\ step'[d] = step[d]
  <2>1. CASE d = c
    BY <1>1, <1>5, <2>1
  <2>2. CASE d # c /\ step'[d] = step[d]
    BY <1>4, <2>2
  <2>3. CASE /\ d # c /\ step[d] # Null /\ step[d].proc = p
             /\ step'[d] = [step[d] EXCEPT !.status = "cancelled"]
    BY <1>4, <2>3 DEF StepRow
  <2> QED BY <1>1, <2>1, <2>2, <2>3
<1>7. step' \in [Steps -> StepRow \cup {Null}]
  BY <1>1, <1>6
<1> QED BY <1>1, <1>2, <1>3, <1>4, <1>6, <1>7, PendingPreserves

\* What Failed does to a pending process.
LEMMA FailedProc ==
    ASSUME NEW r \in ProcRow, r.status = "pending"
    PROVE  /\ Failed(r) \in ProcRow /\ Failed(r).status \in {"pending", "failed"}
           /\ Failed(r).purpose = r.purpose /\ Failed(r).account = r.account
           /\ Failed(r).session = r.session /\ Failed(r).grant = r.grant
           /\ Failed(r).invalid = r.invalid
<1> DEFINE x == IF r.failures + 1 >= MaxAttempts THEN "failed" ELSE r.status
<1>1. Failed(r) = [r EXCEPT !.failures = r.failures + 1, !.status = x]
  BY DEF Failed
<1>2. x \in {"pending", "failed"}
  OBVIOUS
<1> HIDE DEF x
<1>3. r.failures + 1 \in Nat
  BY DEF ProcRow
<1> QED BY <1>1, <1>2, <1>3 DEF ProcRow

\* What Failed does to a pending step.
LEMMA FailedStep ==
    ASSUME NEW r \in StepRow, r.status = "pending"
    PROVE  /\ Failed(r) \in StepRow /\ Failed(r).status \in {"pending", "failed"}
           /\ Failed(r).proc = r.proc
<1> DEFINE x == IF r.failures + 1 >= MaxAttempts THEN "failed" ELSE r.status
<1>1. Failed(r) = [r EXCEPT !.failures = r.failures + 1, !.status = x]
  BY DEF Failed
<1>2. x \in {"pending", "failed"}
  OBVIOUS
<1> HIDE DEF x
<1>3. r.failures + 1 \in Nat
  BY DEF StepRow
<1> QED BY <1>1, <1>2, <1>3 DEF StepRow

\* A counted failure completes nothing.
LEMMA FailurePreserves ==
    ASSUME IInv, NEW p \in Procs, NEW c \in Steps, load(p), proc[p].status = "pending",
           step[c] # Null, step[c].proc = p, step[c].status = "pending",
           CountFailure(p, c),
           flight' \in [Flights -> FlightRow \cup {Null}],
           UNCHANGED <<now, acct, sess, request, epoch, proof>>
    PROVE  IInv'
<1> DEFINE row == Failed(proc[p])
           new == Failed(step[c])
<1>1. proc' = [proc EXCEPT ![p] = row] /\ step' = [step EXCEPT ![c] = new]
  BY DEF CountFailure
<1>2. /\ proc[p] # Null /\ proc[p] \in ProcRow /\ ~proc[p].invalid /\ proc[p].grant = Null
      /\ step[c] \in StepRow /\ Sound(proc[p], proof[p])
  BY PendingFacts, PresentIsSound
<1>3. /\ row \in ProcRow /\ row.status \in {"pending", "failed"}
      /\ row.purpose = proc[p].purpose /\ row.account = proc[p].account
      /\ row.session = proc[p].session /\ row.grant = Null /\ row.invalid = proc[p].invalid
  BY <1>2, FailedProc
<1>4. new \in StepRow /\ new.status \in {"pending", "failed"} /\ new.proc = p
  BY <1>2, FailedStep
<1> HIDE DEF row, new
<1>5. Sound(row, proof[p])
  BY <1>2, <1>3 DEF Sound
<1>6. /\ step \in [Steps -> StepRow \cup {Null}]
      /\ \A d \in Steps : step[d] # Null => proc[step[d].proc] # Null
  BY DEF IInv, TypeOK, ForeignKeys
<1>7. /\ step' \in [Steps -> StepRow \cup {Null}]
      /\ \A d \in Steps : step'[d] # Null =>
           /\ step'[d].proc = p \/ proc[step'[d].proc] # Null
           /\ step'[d].status = "completed" => step[d] # Null /\ step'[d] = step[d]
  BY <1>1, <1>4, <1>6
<1> QED BY <1>1, <1>2, <1>3, <1>5, <1>7, PendingPreserves

\* An accepted proof makes the process sound: the steps of the process back
\* its ghost, and next leaves nothing to prove only when they suffice.
LEMMA AcceptPreserves ==
    ASSUME IInv, NEW p \in Procs, NEW c \in Steps, NEW a \in Accounts,
           Open(p, c), Verifiable(p, step[c].method, a), Accept(p, c, a),
           acct' = acct \/ SpendCode(step[c].method, a),
           flight' \in [Flights -> FlightRow \cup {Null}],
           UNCHANGED <<now, sess, request, epoch>>
    PROVE  IInv'
<1> DEFINE m == step[c].method
           st == cancelAlternatives(p, c)
           row == [proc[p] EXCEPT !.account = a]
           new == IF next(row, st, p) = {} THEN complete(row) ELSE row
           g == [epoch   |-> IF m \in FirstFactors THEN epoch[a] ELSE proof[p].epoch,
                 first   |-> IF m \in FirstFactors THEN now ELSE proof[p].first,
                 second  |-> IF m \in SecondFactors THEN now ELSE proof[p].second,
                 derived |-> FALSE]
<1>1. step' = st /\ proc' = [proc EXCEPT ![p] = new] /\ proof' = [proof EXCEPT ![p] = g]
  BY DEF Accept, IInv, TypeOK
<1>2. /\ load(p) /\ proc[p].status = "pending" /\ step[c] # Null /\ step[c].proc = p
      /\ step[c].status = "pending"
  BY DEF Open
<1>3. /\ proc[p] # Null /\ proc[p] \in ProcRow /\ proof[p] \in Proof
      /\ ~proc[p].invalid /\ proc[p].grant = Null /\ step[c] \in StepRow
      /\ Sound(proc[p], proof[p])
  BY <1>2, PendingFacts, PresentIsSound
<1>4. /\ acct[a] # Null /\ a # Null
      /\ sensitive(proc[p].purpose) \/ m \notin FirstFactors => proc[p].account = a
      /\ m = "backupCode" => acct[a].codes > 0
  BY NullAssumption DEF Verifiable, FirstFactors, OAuth
<1>5. /\ step \in [Steps -> StepRow \cup {Null}] /\ now \in Nat /\ now # Null
      /\ epoch \in [Accounts -> Nat]
      /\ acct \in [Accounts -> AccountRow \cup {Null}]
      /\ \A d \in Steps : step[d] # Null => proc[step[d].proc] # Null
      /\ \A b \in Accounts : acct[b] # Null => HasSignInMethod(acct[b])
  BY NullAssumption DEF IInv, TypeOK, ForeignKeys, AccountIsReachable, Time
<1>6. /\ row \in ProcRow /\ row.account = a /\ row.status = "pending" /\ row.grant = Null
      /\ ~row.invalid /\ row.purpose = proc[p].purpose /\ row.session = proc[p].session
  BY <1>2, <1>3 DEF ProcRow
<1>7. g \in Proof
  BY <1>3, <1>5 DEF Proof, Time
<1>8. ASSUME NEW d \in Steps
      PROVE  /\ st[d] \in StepRow \cup {Null}
             /\ d = c => /\ st[d] # Null /\ st[d].proc = p /\ st[d].method = m
                         /\ st[d].status = "completed" /\ st[d].done = now
             /\ d # c /\ st[d] # Null =>
                  /\ step[d] # Null /\ st[d].proc = step[d].proc
                  /\ st[d].status = "completed" => st[d] = step[d]
  <2>1. CASE d = c
    <3>1. st[d] = [step[c] EXCEPT !.status = "completed", !.done = now]
      BY <2>1 DEF cancelAlternatives
    <3>2. /\ st[d] \in StepRow /\ st[d].proc = p /\ st[d].method = m
          /\ st[d].status = "completed" /\ st[d].done = now
      BY <3>1, <1>2, <1>3, <1>5 DEF StepRow, Time
    <3> QED BY <2>1, <3>2, NullAssumption
  <2>2. CASE d # c /\ st[d] = step[d]
    BY <1>5, <2>2
  <2>3. CASE d # c /\ step[d] # Null /\ st[d] = [step[d] EXCEPT !.status = "cancelled"]
    BY <1>5, <2>3 DEF StepRow
  <2> QED BY <2>1, <2>2, <2>3 DEF cancelAlternatives
<1>9. st \in [Steps -> StepRow \cup {Null}]
  BY <1>8 DEF cancelAlternatives
<1> HIDE DEF st, m
<1>10. /\ g.epoch = IF m \in FirstFactors THEN epoch[a] ELSE proof[p].epoch
       /\ g.first = IF m \in FirstFactors THEN now ELSE proof[p].first
       /\ g.second = IF m \in SecondFactors THEN now ELSE proof[p].second
       /\ ~g.derived
  OBVIOUS
<1> HIDE DEF g, row
<1>11. ASSUME NEW d \in Steps, st[d] # Null, st[d].status = "completed", st[d].proc = p
       PROVE  /\ st[d].done # Null /\ st[d].done <= now
              /\ st[d].method \in FirstFactors => g.first # Null /\ st[d].done <= g.first
              /\ st[d].method \in SecondFactors => g.second # Null /\ st[d].done <= g.second
  <2>1. CASE d = c
    BY <2>1, <1>5, <1>8, <1>10, <1>11
  <2>2. CASE d # c
    <3>1. st[d] = step[d] /\ step[d] # Null
      BY <2>2, <1>8, <1>11
    <3>2. /\ st[d].done # Null /\ st[d].done <= now
          /\ st[d].method \in FirstFactors =>
               proof[p].first # Null /\ st[d].done <= proof[p].first
          /\ st[d].method \in SecondFactors =>
               proof[p].second # Null /\ st[d].done <= proof[p].second
      BY <3>1, <1>11 DEF IInv, StepsBackProofs
    <3> QED BY <3>2, <1>5, <1>10
  <2> QED BY <2>1, <2>2
<1>12. StepsBackProofs'
  <2> SUFFICES ASSUME NEW d \in Steps, st[d] # Null, st[d].status = "completed"
               PROVE  /\ st[d].done # Null /\ st[d].done <= now
                      /\ st[d].method \in FirstFactors =>
                           /\ proof'[st[d].proc].first # Null
                           /\ st[d].done <= proof'[st[d].proc].first
                      /\ st[d].method \in SecondFactors =>
                           /\ proof'[st[d].proc].second # Null
                           /\ st[d].done <= proof'[st[d].proc].second
    BY <1>1 DEF StepsBackProofs
  <2>1. CASE st[d].proc = p
    <3>1. proof'[p] = g
      BY <1>1 DEF IInv, TypeOK
    <3> QED BY <2>1, <3>1, <1>11
  <2>2. CASE st[d].proc # p
    <3>1. st[d] = step[d] /\ step[d] # Null /\ step[d] \in StepRow
      BY <2>2, <1>5, <1>8
    <3>2. proof'[st[d].proc] = proof[st[d].proc]
      BY <2>2, <3>1, <1>1 DEF IInv, TypeOK, StepRow
    <3> QED BY <3>1, <3>2 DEF IInv, StepsBackProofs
  <2> QED BY <2>1, <2>2
<1>13. g.epoch = epoch[a]
  BY <1>3, <1>4, <1>10 DEF Sound
<1>14. ASSUME next(row, st, p) = {}
       PROVE  g.first # Null /\ (acct[a].totp => g.second # Null)
  <2>1. Proved(st, p, FirstFactors) /\ (acct[a].totp => Proved(st, p, SecondFactors))
    BY <1>14, <1>6 DEF next
  <2> QED BY <2>1, <1>11 DEF Proved
<1>15. new \in ProcRow /\ Sound(new, g)
  <2>1. /\ sensitive(row.purpose) =>
             /\ row.session # Null /\ sess[row.session] # Null
             /\ sess[row.session].account = row.account
    BY <1>3, <1>4, <1>6 DEF Sound
  <2>2. CASE next(row, st, p) = {}
    <3>1. /\ new \in ProcRow /\ new.account = a /\ new.purpose = row.purpose
          /\ new.session = row.session /\ new.status = "completed" /\ new.done = now
          /\ ~new.invalid
      <4>1. new = [row EXCEPT !.status = "completed", !.done = now,
                              !.grant = now + GrantTTL]
        BY <2>2 DEF complete
      <4>2. now + GrantTTL \in Nat
        BY <1>5, DurationAssumption
      <4> HIDE DEF new
      <4> QED BY <4>1, <4>2, <1>5, <1>6 DEF ProcRow, Time
    <3> HIDE DEF new
    <3> QED BY <2>1, <2>2, <3>1, <1>4, <1>5, <1>6, <1>10, <1>13, <1>14 DEF Sound
  <2>3. CASE next(row, st, p) # {}
    <3>1. new = row
      BY <2>3
    <3> HIDE DEF new
    <3> QED BY <2>1, <3>1, <1>4, <1>6, <1>10, <1>13 DEF Sound
  <2> QED BY <2>2, <2>3
<1>16. /\ acct' \in [Accounts -> AccountRow \cup {Null}]
       /\ \A b \in Accounts : acct'[b] # Null <=> acct[b] # Null
       /\ \A b \in Accounts : acct[b] # Null =>
            HasSignInMethod(acct'[b]) /\ acct'[b].totp = acct[b].totp
  <2>1. CASE acct' = acct
    BY <2>1, <1>5
  <2>2. CASE m = "backupCode" /\ SpendCode(m, a)
    <3> DEFINE left == [acct[a] EXCEPT !.codes = @ - 1]
    <3>1. acct' = [acct EXCEPT ![a] = left]
      BY <2>2 DEF SpendCode, m
    <3>2. acct[a] \in AccountRow /\ HasSignInMethod(acct[a])
      BY <1>4, <1>5
    <3>3. left \in AccountRow /\ left.totp = acct[a].totp /\ HasSignInMethod(left)
      BY <2>2, <3>2, <1>4 DEF AccountRow, HasSignInMethod
    <3> HIDE DEF left
    <3> QED BY <3>1, <3>3, <1>4, <1>5, NullAssumption
  <2> QED BY <2>1, <2>2 DEF SpendCode, m
<1>17. \A d \in Steps : st[d] # Null => st[d].proc = p \/ proc[st[d].proc] # Null
  BY <1>5, <1>8
<1> HIDE DEF new
<1> QED BY <1>1, <1>7, <1>9, <1>12, <1>15, <1>16, <1>17, OneProcess

\* A provider call takes off with the row of its step.
LEMMA TakeoffType ==
    ASSUME IInv, NEW p \in Procs, NEW c \in Steps, NEW stage \in {"exchange", "reject"},
           step[c].method \in Providers, FreeFlights # {}, Takeoff(stage, p, c)
    PROVE  flight' \in [Flights -> FlightRow \cup {Null}]
<1> DEFINE f == CHOOSE g \in FreeFlights : TRUE
           call == [stage |-> stage, proc |-> p, step |-> c, session |-> Null,
                    provider |-> step[c].method]
<1>1. call \in FlightRow
  BY DEF Providers, FlightRow, AttemptCall
<1>2. flight' = [flight EXCEPT ![f] = call]
  BY DEF Takeoff
<1> HIDE DEF call, f
<1> QED BY <1>1, <1>2 DEF IInv, TypeOK

\* Every transaction of AuthProcess preserves the invariant.
LEMMA ProcessPreserves ==
    ASSUME IInv, ProcessNext
    PROVE  IInv'
<1>a. /\ step \in [Steps -> StepRow \cup {Null}]
      /\ request \in [Requests -> RequestRow \cup {Null}]
      /\ flight \in [Flights -> FlightRow \cup {Null}]
      /\ \A f \in Flights, x \in FlightRow \cup {Null} :
           [flight EXCEPT ![f] = x] \in [Flights -> FlightRow \cup {Null}]
  BY DEF IInv, TypeOK
<1>b. ASSUME UNCHANGED <<now, acct, sess, proc, step, request, epoch, proof>>,
             flight' \in [Flights -> FlightRow \cup {Null}]
      PROVE  IInv'
  <2>1. Spent(proc')
    BY <1>b DEF Spent
  <2>2. request' \in [Requests -> RequestRow \cup {Null}]
    BY <1>a, <1>b
  <2>3. Withdraws
    BY <1>b, <2>1, <2>2, RequestWithdraws
  <2> QED BY <2>3, RevocationPreserves
<1>c. ASSUME NEW f \in Flights, flight[f] # Null, flight[f].stage \in {"exchange", "reject"}
      PROVE  flight[f].proc \in Procs /\ flight[f].step \in Steps
  BY <1>a, <1>c DEF FlightRow, AttemptCall, LinkCall
<1>1. ASSUME NEW p \in Procs, NEW c \in Steps, NEW a \in Accounts, AttemptAccepted(p, c, a)
      PROVE  IInv'
  <2>1. /\ Open(p, c) /\ Verifiable(p, step[c].method, a) /\ Accept(p, c, a)
        /\ SpendCode(step[c].method, a)
        /\ UNCHANGED <<now, sess, request, epoch>>
        /\ flight' \in [Flights -> FlightRow \cup {Null}]
    BY <1>1, <1>a DEF AttemptAccepted
  <2> QED BY <2>1, AcceptPreserves
<1>2. ASSUME NEW p \in Procs, NEW c \in Steps, AttemptRejected(p, c)
      PROVE  IInv'
  <2>1. /\ load(p) /\ proc[p].status = "pending"
        /\ step[c] # Null /\ step[c].proc = p /\ step[c].status = "pending"
        /\ CountFailure(p, c)
        /\ UNCHANGED <<now, acct, sess, request, epoch, proof>>
        /\ flight' \in [Flights -> FlightRow \cup {Null}]
    BY <1>2, <1>a DEF AttemptRejected, Open
  <2> QED BY <2>1, FailurePreserves
<1>3. ASSUME NEW p \in Procs, NEW c \in Steps, BeginExchange(p, c)
      PROVE  IInv'
  <2>1. /\ load(p) /\ proc[p].status = "pending"
        /\ step[c] # Null /\ step[c].proc = p /\ step[c].status = "pending"
        /\ step[c].method \in Providers /\ FreeFlights # {} /\ Takeoff("exchange", p, c)
        /\ step' = step \/ step' = [step EXCEPT ![c].ticket = "none"]
        /\ UNCHANGED <<now, acct, sess, proc, request, epoch, proof>>
    BY <1>3 DEF BeginExchange, Open
  <2>2. flight' \in [Flights -> FlightRow \cup {Null}]
    BY <2>1, TakeoffType
  <2>3. /\ proc[p] # Null /\ proc[p] \in ProcRow /\ Sound(proc[p], proof[p])
        /\ proc' = [proc EXCEPT ![p] = proc[p]]
        /\ step[c] \in StepRow
    BY <2>1, PendingFacts, PresentIsSound
  <2>4. \A d \in Steps : step[d] # Null => proc[step[d].proc] # Null
    BY DEF IInv, ForeignKeys
  <2> DEFINE new == [step[c] EXCEPT !.ticket = "none"]
  <2>5. new \in StepRow /\ new.proc = p /\ new.status = "pending"
    BY <2>1, <2>3 DEF StepRow
  <2>6. step' = step \/ step' = [step EXCEPT ![c] = new]
    BY <2>1
  <2> HIDE DEF new
  <2>7. /\ step' \in [Steps -> StepRow \cup {Null}]
        /\ \A d \in Steps : step'[d] # Null =>
             /\ step'[d].proc = p \/ proc[step'[d].proc] # Null
             /\ step'[d].status = "completed" => step[d] # Null /\ step'[d] = step[d]
    BY <1>a, <2>4, <2>5, <2>6
  <2> QED BY <2>1, <2>2, <2>3, <2>7, PendingPreserves
<1>4. ASSUME NEW p \in Procs, NEW c \in Steps, BeginRejected(p, c)
      PROVE  IInv'
  <2>1. /\ step[c].method \in Providers /\ FreeFlights # {} /\ Takeoff("reject", p, c)
        /\ UNCHANGED <<now, acct, sess, proc, step, request, epoch, proof>>
    BY <1>4 DEF BeginRejected
  <2>2. flight' \in [Flights -> FlightRow \cup {Null}]
    BY <2>1, TakeoffType
  <2> QED BY <2>1, <2>2, <1>b
<1>5. ASSUME NEW f \in Flights, NEW a \in Accounts, FinishExchange(f, a)
      PROVE  IInv'
  <2> DEFINE p == flight[f].proc
             c == flight[f].step
  <2>1. /\ Open(p, c) /\ Verifiable(p, step[c].method, a) /\ Accept(p, c, a)
        /\ UNCHANGED <<now, acct, sess, request, epoch>>
        /\ flight' = [flight EXCEPT ![f] = Null]
    BY <1>5 DEF FinishExchange
  <2>2. p \in Procs /\ c \in Steps
    BY <1>5, <1>c DEF FinishExchange
  <2>3. flight' \in [Flights -> FlightRow \cup {Null}]
    BY <2>1, <1>a
  <2> HIDE DEF p, c
  <2> QED BY <2>1, <2>2, <2>3, AcceptPreserves
<1>6. ASSUME NEW f \in Flights, ExchangeRefused(f)
      PROVE  IInv'
  <2> DEFINE call == [flight[f] EXCEPT !.stage = "reject"]
  <2>1. call \in FlightRow
    BY <1>6, <1>a DEF ExchangeRefused, FlightRow, AttemptCall, LinkCall
  <2>2. flight' = [flight EXCEPT ![f] = call]
        /\ UNCHANGED <<now, acct, sess, proc, step, request, epoch, proof>>
    BY <1>6 DEF ExchangeRefused
  <2> HIDE DEF call
  <2> QED BY <2>1, <2>2, <1>a, <1>b
<1>7. ASSUME NEW f \in Flights, RejectExchange(f)
      PROVE  IInv'
  <2> DEFINE p == flight[f].proc
             c == flight[f].step
  <2>1. /\ load(p) /\ proc[p].status = "pending"
        /\ step[c] # Null /\ step[c].proc = p /\ step[c].status = "pending"
        /\ CountFailure(p, c)
        /\ UNCHANGED <<now, acct, sess, request, epoch, proof>>
        /\ flight' = [flight EXCEPT ![f] = Null]
    BY <1>7 DEF RejectExchange
  <2>2. p \in Procs /\ c \in Steps
    BY <1>7, <1>c DEF RejectExchange
  <2>3. flight' \in [Flights -> FlightRow \cup {Null}]
    BY <2>1, <1>a
  <2> HIDE DEF p, c
  <2> QED BY <2>1, <2>2, <2>3, FailurePreserves
<1>8. ASSUME NEW f \in Flights, FlightLost(f)
      PROVE  IInv'
  BY <1>8, <1>a, <1>b DEF FlightLost
<1> QED BY <1>1, <1>2, <1>3, <1>4, <1>5, <1>6, <1>7, <1>8,
           StartPreserves, ChallengePreserves DEF ProcessNext

\* The passing of time disturbs nothing: only the age of proofs depends on
\* the clock.
LEMMA TickPreserves ==
    ASSUME IInv, Tick
    PROVE  IInv'
<1>1. now \in Nat /\ now' = now + 1
      /\ UNCHANGED <<acct, sess, proc, step, request, flight, epoch, proof>>
  BY DEF IInv, TypeOK, Time, Tick
<1>2. \A c \in Steps : step[c] # Null /\ step[c].done # Null => step[c].done \in Nat
  BY DEF IInv, TypeOK, StepRow, Time
<1>3. StepsBackProofs'
  BY <1>1, <1>2 DEF IInv, StepsBackProofs
<1>4. TypeOK' /\ ForeignKeys'
  BY <1>1 DEF IInv, TypeOK, ForeignKeys, Time
<1>5. /\ EvidenceIsCurrent' /\ GrantMeetsPolicy' /\ TrustWindowIsFixed'
      /\ SensitiveStaysWithPrincipal' /\ AccountIsReachable'
  BY <1>1 DEF IInv, EvidenceIsCurrent, GrantMeetsPolicy, TrustWindowIsFixed,
              SensitiveStaysWithPrincipal, AccountIsReachable
<1> QED BY <1>3, <1>4, <1>5 DEF IInv

-----------------------------------------------------------------------------
(* Theorems *)

\* The invariant holds of the empty database.
LEMMA InitInvariant == Init => IInv
<1> SUFFICES ASSUME Init PROVE IInv
  OBVIOUS
<1>1. TypeOK
  <2>1. acct \in [Accounts -> AccountRow]
    BY ConfigAssumption DEF Init
  <2>2. sess \in [Sessions -> SessionRow \cup {Null}]
    <3>1. [account : Accounts, exp : {SessionTTL}] \subseteq SessionRow
      BY DurationAssumption DEF SessionRow, Time
    <3> QED BY <3>1 DEF Init
  <2>3. NoProof \in Proof
    BY DEF NoProof, Proof, Time
  <2> QED BY <2>1, <2>2, <2>3 DEF Init, TypeOK, Time
<1>2. \A a \in Accounts : acct[a] # Null /\ HasSignInMethod(acct[a])
  BY ConfigAssumption, NullAssumption DEF Init, HasSignInMethod
<1>3. \A s \in Sessions : sess[s] # Null => sess[s].account \in Accounts
  BY <1>1 DEF TypeOK, SessionRow
<1>4. ForeignKeys /\ StepsBackProofs
  BY <1>2, <1>3 DEF Init, ForeignKeys, StepsBackProofs
<1>5. /\ EvidenceIsCurrent /\ GrantMeetsPolicy /\ TrustWindowIsFixed
      /\ SensitiveStaysWithPrincipal /\ AccountIsReachable
  BY <1>2 DEF Init, EvidenceIsCurrent, GrantMeetsPolicy, TrustWindowIsFixed,
              SensitiveStaysWithPrincipal, AccountIsReachable
<1> QED BY <1>1, <1>4, <1>5 DEF IInv

\* IInv is inductive.
LEMMA InductiveStep == IInv /\ [Next]_vars => IInv'
<1> SUFFICES ASSUME IInv, [Next]_vars PROVE IInv'
  OBVIOUS
<1>1. CASE ProcessNext
  BY <1>1, ProcessPreserves
<1>2. CASE Tick
  BY <1>2, TickPreserves
<1>3. CASE SessionsNext /\ ~Tick
  BY <1>3, SessionsWithdraw, RevocationPreserves
<1>4. CASE CredentialsNext
  BY <1>4, CredentialsWithdraw, RevocationPreserves
<1>5. CASE UNCHANGED vars
  <2> USE <1>5 DEF vars
  <2>1. TypeOK' /\ ForeignKeys' /\ StepsBackProofs'
    BY DEF IInv, TypeOK, ForeignKeys, StepsBackProofs
  <2>2. /\ EvidenceIsCurrent' /\ GrantMeetsPolicy' /\ TrustWindowIsFixed'
        /\ SensitiveStaysWithPrincipal' /\ AccountIsReachable'
    BY DEF IInv, EvidenceIsCurrent, GrantMeetsPolicy, TrustWindowIsFixed,
           SensitiveStaysWithPrincipal, AccountIsReachable
  <2> QED BY <2>1, <2>2 DEF IInv
<1> QED BY <1>1, <1>2, <1>3, <1>4, <1>5 DEF Next

\* The inductive invariant holds in every reachable state.
THEOREM Invariance == Spec => []IInv
BY InitInvariant, InductiveStep, PTL DEF Spec

\* The tables, the provider calls and the ghosts keep their types.
THEOREM TypeCorrect == Spec => []TypeOK
<1>1. IInv => TypeOK
  BY DEF IInv
<1> QED BY <1>1, Invariance, PTL

\* No evidence of an account survives a change of its credentials.
THEOREM EvidenceTheorem == Spec => []EvidenceIsCurrent
<1>1. IInv => EvidenceIsCurrent
  BY DEF IInv
<1> QED BY <1>1, Invariance, PTL

\* Every outstanding grant rests on the factors the account asks for now.
THEOREM GrantTheorem == Spec => []GrantMeetsPolicy
<1>1. IInv => GrantMeetsPolicy
  BY DEF IInv
<1> QED BY <1>1, Invariance, PTL

\* Reused proofs are never older than the reuse window.
THEOREM TrustTheorem == Spec => []TrustWindowIsFixed
<1>1. IInv => TrustWindowIsFixed
  BY DEF IInv
<1> QED BY <1>1, Invariance, PTL

\* A sensitive process belongs to the account of a session that exists.
THEOREM PrincipalTheorem == Spec => []SensitiveStaysWithPrincipal
<1>1. IInv => SensitiveStaysWithPrincipal
  BY DEF IInv
<1> QED BY <1>1, Invariance, PTL

\* Every account can be signed in to.
THEOREM ReachableTheorem == Spec => []AccountIsReachable
<1>1. IInv => AccountIsReachable
  BY DEF IInv
<1> QED BY <1>1, Invariance, PTL

-----------------------------------------------------------------------------
(* A grant is spent once *)

\* A transaction of AuthProcess writes a pending process or a new one only.
LEMMA ProcessKeepsEnded ==
    ASSUME IInv, ProcessNext, NEW q \in Procs, proc[q] # Null, proc[q].status # "pending"
    PROVE  proc'[q] = proc[q]
<1>a. proc \in [Procs -> ProcRow \cup {Null}] /\ flight \in [Flights -> FlightRow \cup {Null}]
  BY DEF IInv, TypeOK
<1>b. ASSUME NEW p \in Procs, proc[p] = Null \/ proc[p].status = "pending", NEW row,
             proc' = [proc EXCEPT ![p] = row]
      PROVE  proc'[q] = proc[q]
  BY <1>a, <1>b
<1>c. ASSUME NEW f \in Flights, flight[f] # Null, flight[f].stage \in {"exchange", "reject"}
      PROVE  flight[f].proc \in Procs
  BY <1>a, <1>c DEF FlightRow, AttemptCall, LinkCall
<1>1. CASE StartSignIn
  <2> DEFINE p == CHOOSE e \in FreeProcs : TRUE
  <2>1. p \in Procs /\ proc[p] = Null
    BY <1>1 DEF StartSignIn, FreeProcs
  <2>2. \E row : proc' = [proc EXCEPT ![p] = row]
    BY <1>1 DEF StartSignIn
  <2> HIDE DEF p
  <2> QED BY <2>1, <2>2, <1>b
<1>2. ASSUME NEW s \in Sessions, NEW u \in Purposes, StartSensitive(s, u)
      PROVE  proc'[q] = proc[q]
  <2> DEFINE p == CHOOSE e \in FreeProcs : TRUE
  <2>1. p \in Procs /\ proc[p] = Null
    BY <1>2 DEF StartSensitive, FreeProcs
  <2>2. \E row : proc' = [proc EXCEPT ![p] = row]
    BY <1>2 DEF StartSensitive
  <2> HIDE DEF p
  <2> QED BY <2>1, <2>2, <1>b
<1>3. ASSUME NEW p \in Procs, NEW c \in Steps, NEW a, Open(p, c), Accept(p, c, a)
      PROVE  proc'[q] = proc[q]
  <2>1. proc[p].status = "pending"
    BY <1>3 DEF Open
  <2>2. \E row : proc' = [proc EXCEPT ![p] = row]
    BY <1>3 DEF Accept
  <2> QED BY <2>1, <2>2, <1>b
<1>4. ASSUME NEW p \in Procs, NEW c, proc[p].status = "pending", CountFailure(p, c)
      PROVE  proc'[q] = proc[q]
  BY <1>4, <1>b DEF CountFailure
<1>5. ASSUME NEW p \in Procs, NEW m \in Methods, NEW t \in {"none", "code", "idToken"},
             CreateChallenge(p, m, t)
      PROVE  proc'[q] = proc[q]
  BY <1>5 DEF CreateChallenge
<1>6. ASSUME NEW p \in Procs, NEW c \in Steps, NEW a \in Accounts, AttemptAccepted(p, c, a)
      PROVE  proc'[q] = proc[q]
  BY <1>3, <1>6 DEF AttemptAccepted
<1>7. ASSUME NEW p \in Procs, NEW c \in Steps,
             AttemptRejected(p, c) \/ BeginExchange(p, c) \/ BeginRejected(p, c)
      PROVE  proc'[q] = proc[q]
  BY <1>4, <1>7 DEF AttemptRejected, BeginExchange, BeginRejected, Open
<1>8. ASSUME NEW f \in Flights, NEW a \in Accounts, FinishExchange(f, a)
      PROVE  proc'[q] = proc[q]
  <2>1. flight[f].proc \in Procs
    BY <1>8, <1>c DEF FinishExchange
  <2>2. proc[flight[f].proc].status = "pending"
    BY <1>8 DEF FinishExchange, Open
  <2>3. \E row : proc' = [proc EXCEPT ![flight[f].proc] = row]
    BY <1>8 DEF FinishExchange, Accept
  <2> QED BY <2>1, <2>2, <2>3, <1>b
<1>9. ASSUME NEW f \in Flights, ExchangeRefused(f) \/ RejectExchange(f) \/ FlightLost(f)
      PROVE  proc'[q] = proc[q]
  <2>1. CASE RejectExchange(f)
    <3>1. /\ flight[f].proc \in Procs /\ proc[flight[f].proc].status = "pending"
          /\ CountFailure(flight[f].proc, flight[f].step)
      BY <2>1, <1>c DEF RejectExchange
    <3> QED BY <3>1, <1>4
  <2> QED BY <1>9, <2>1 DEF ExchangeRefused, FlightLost
<1> QED BY <1>1, <1>2, <1>5, <1>6, <1>7, <1>8, <1>9 DEF ProcessNext

\* A grant buys one thing: once spent or revoked it never comes back, and a
\* process that completed or failed is never reopened, whatever provider
\* calls are still under way.
THEOREM GrantSpentOnce == Spec => EndedStaysEnded
<1> DEFINE Kept == \A p \in Procs :
             proc[p] # Null /\ proc'[p] # Null /\ proc[p].status # "pending" =>
               /\ proc'[p].status = proc[p].status
               /\ proc[p].grant = Null => proc'[p].grant = Null
<1>1. ASSUME IInv, [Next]_vars PROVE [Kept]_vars
  <2>1. CASE Withdraws
    BY <2>1 DEF Withdraws, ProcsWithdrawn
  <2>2. CASE ProcessNext
    BY <1>1, <2>2, ProcessKeepsEnded
  <2>3. CASE Tick
    BY <2>3 DEF Tick
  <2>4. CASE UNCHANGED vars
    BY <2>4
  <2> QED BY <1>1, <2>1, <2>2, <2>3, <2>4, SessionsWithdraw, CredentialsWithdraw DEF Next
<1> HIDE DEF Kept
<1>2. Spec => [][Kept]_vars
  BY <1>1, Invariance, PTL DEF Spec
<1> QED BY <1>2 DEF EndedStaysEnded, Kept
=============================================================================
