---------------------------- MODULE SignUpProofs ---------------------------
(***************************************************************************)
(* Proofs about SignUp for any number of accounts, addresses and flows and *)
(* any lifetimes.                                                          *)
(***************************************************************************)
EXTENDS SignUp, TLAPS

\* A flow that is gone has left nothing behind (the cascades of the schema).
GoneIsEmpty(p) == flow[p] = Null => reg[p] = Null /\ step[p] = NoSteps

\* No code is sent before the registration names an address ...
CodeNeedsAddress(p) ==
    flow[p] # Null /\ flow[p].status = "pending" /\ reg[p] = Null =>
      step[p]["email"] = Null

\* ... and then it goes to that address.
CodeGoesToAddress(p) ==
    reg[p] # Null /\ step[p]["email"] # Null => step[p]["email"].to = reg[p].email

\* A completed email step means that its mailbox answered.
CompletedIsAnswered(p) ==
    reg[p] # Null /\ Done(p, "email") => reg[p].email \in answered[p]

\* DisclosedAfterProof and NoPasswordAtRest of one flow.
EndIsJustified(p) ==
    flow[p] # Null /\ flow[p].status = "failed" =>
      \/ flow[p].failures >= MaxAttempts
      \/ reg[p] # Null /\ reg[p].email \in answered[p]

HoldsNoPassword(p) == reg[p] # Null => ~reg[p].password

FlowOK(p) ==
    /\ GoneIsEmpty(p)
    /\ CodeNeedsAddress(p)
    /\ CodeGoesToAddress(p)
    /\ CompletedIsAnswered(p)
    /\ EndIsJustified(p)
    /\ HoldsNoPassword(p)

FlowInv == \A p \in Flows : FlowOK(p)

\* Only accounts that were created have an address.
OwnersWereBorn == \A a \in Accounts : email[a] # Null => a \in born

\* The second stage of a change is reached through the previous mailbox.
SecondStageIsConfirmed ==
    \A a \in Accounts : change[a] # Null /\ change[a].stage = "awaiting_new_email" =>
      change[a].previous \in confirmed[a]

AccountInv ==
    /\ OwnersWereBorn
    /\ OneOwner
    /\ AddressIsProved
    /\ ChangeIsCurrent
    /\ SecondStageIsConfirmed

SignUpInv == SignUpTypeOK /\ FlowInv /\ AccountInv

-----------------------------------------------------------------------------
\* One more failure leaves a row well typed.
LEMMA FailedIsTyped ==
    /\ \A row \in FlowRow : Failed(row) \in FlowRow
    /\ \A row \in SignUpStep : Failed(row) \in SignUpStep
<1>1. ASSUME NEW row \in FlowRow
      PROVE  Failed(row) \in FlowRow
  <2> DEFINE x == IF row.failures + 1 >= MaxAttempts THEN "failed" ELSE row.status
  <2>1. x \in {"pending", "completed", "failed"} /\ row.failures + 1 \in Nat
        BY DEF FlowRow
  <2>2. Failed(row) = [row EXCEPT !.failures = row.failures + 1, !.status = x]
        BY DEF Failed
  <2> HIDE DEF x
  <2> QED BY <2>1, <2>2 DEF FlowRow
<1>2. ASSUME NEW row \in SignUpStep
      PROVE  Failed(row) \in SignUpStep
  <2> DEFINE x == IF row.failures + 1 >= MaxAttempts THEN "failed" ELSE row.status
  <2>1. x \in {"pending", "completed", "failed", "cancelled"} /\ row.failures + 1 \in Nat
        BY DEF SignUpStep
  <2>2. Failed(row) = [row EXCEPT !.failures = row.failures + 1, !.status = x]
        BY DEF Failed
  <2> HIDE DEF x
  <2> QED BY <2>1, <2>2 DEF SignUpStep
<1> QED BY <1>1, <1>2

\* So do the completion of a sign-up ...
LEMMA CompletedIsTyped ==
    ASSUME NEW row \in FlowRow, NEW a \in Accounts, NEW t \in Time, NEW g \in Time
    PROVE  [row EXCEPT !.status = "completed", !.account = a, !.done = t, !.grant = g]
             \in FlowRow
BY DEF FlowRow

\* ... and the second stage of a change.
LEMMA AdvancedIsTyped ==
    ASSUME NEW row \in ChangeRow, NEW t \in Time
    PROVE  /\ [row EXCEPT !.stage = "awaiting_new_email", !.exp = t] \in ChangeRow
           /\ row.previous \in Emails
BY DEF ChangeRow

\* A sign-up that ends without an account leaves its rows well typed.
LEMMA EndedIsTyped ==
    ASSUME NEW p \in Flows, NEW rg \in [Flows -> Registration \cup {Null}],
           rg[p] \in Registration, flow \in [Flows -> FlowRow \cup {Null}],
           flow[p] \in FlowRow, failRegistration(p, rg)
    PROVE  /\ flow' \in [Flows -> FlowRow \cup {Null}]
           /\ reg' \in [Flows -> Registration \cup {Null}]
<1>1. [flow[p] EXCEPT !.status = "failed"] \in FlowRow
  BY DEF FlowRow
<1>2. [rg[p] EXCEPT !.password = FALSE] \in Registration
  BY DEF Registration
<1> QED BY <1>1, <1>2 DEF failRegistration

\* Every step keeps the rows of SignUp well typed.
LEMMA TypeStep ==
    SignUpTypeOK /\ FlowInv /\ [SignUpNext]_signUpVars => SignUpTypeOK'
<1> SUFFICES ASSUME SignUpTypeOK, FlowInv, [SignUpNext]_signUpVars
             PROVE  SignUpTypeOK'
    OBVIOUS
<1> USE SignUpAssumption DEF SignUpTypeOK, Time, SignUpMethods
<1>1. ASSUME NEW p \in Flows, Start(p)
      PROVE  SignUpTypeOK'
      BY <1>1 DEF Start, FlowRow
<1>2. ASSUME NEW p \in Flows, NEW m \in SignUpMethods, CreateChallenge(p, m)
      PROVE  SignUpTypeOK'
  <2>1. flow[p] \in FlowRow
        BY <1>2 DEF CreateChallenge, load
  <2>2. EarlierOf(now + ChallengeTTL, flow[p].exp) \in Nat
        BY <2>1 DEF EarlierOf, FlowRow
  <2>3. (IF m = "email" THEN reg[p].email ELSE Null) \in Emails \cup {Null}
        BY <1>2 DEF CreateChallenge, next, Registration
  <2> DEFINE s == [status |-> "pending",
                   exp |-> EarlierOf(now + ChallengeTTL, flow[p].exp), failures |-> 0,
                   to |-> IF m = "email" THEN reg[p].email ELSE Null]
  <2>4. s \in SignUpStep
        BY <2>2, <2>3 DEF SignUpStep
  <2> HIDE DEF s
  <2>5. step' = [step EXCEPT ![p][m] = s]
        BY <1>2 DEF CreateChallenge, s
  <2>6. step' \in [Flows -> [SignUpMethods -> SignUpStep \cup {Null}]]
        BY <2>4, <2>5
  <2> QED BY <1>2, <2>6 DEF CreateChallenge
<1>3. ASSUME NEW p \in Flows, NEW m \in SignUpMethods, Open(p, m)
      PROVE  /\ Accepted(p, m) \in [Flows -> [SignUpMethods -> SignUpStep \cup {Null}]]
             /\ flow[p] \in FlowRow
  <2>1. step[p][m] \in SignUpStep /\ flow[p] \in FlowRow
        BY <1>3 DEF Open, load
  <2>2. [step[p][m] EXCEPT !.status = "completed"] \in SignUpStep
        BY <2>1 DEF SignUpStep
  <2>3. ASSUME NEW n \in SignUpMethods, step[p][n] # Null
        PROVE  [step[p][n] EXCEPT !.status = "cancelled"] \in SignUpStep
        BY <2>3 DEF SignUpStep
  <2> QED BY <2>1, <2>2, <2>3 DEF Accepted
<1>4. ASSUME NEW p \in Flows, NEW e \in Emails, AttemptRegistration(p, e)
      PROVE  SignUpTypeOK'
      BY <1>3, <1>4 DEF AttemptRegistration, Registration
<1>5. ASSUME NEW p \in Flows, AttemptEmail(p)
      PROVE  SignUpTypeOK'
  <2>1. /\ step' \in [Flows -> [SignUpMethods -> SignUpStep \cup {Null}]]
        /\ flow[p] \in FlowRow
        BY <1>3, <1>5 DEF AttemptEmail
  <2>2. reg[p] \in Registration
        BY <1>5 DEF AttemptEmail, Open, next
  <2>3. step[p]["email"].to \in Emails
        BY <1>5, <2>2 DEF AttemptEmail, Open, FlowInv, FlowOK, CodeGoesToAddress, Registration
  <2>4. answered' \in [Flows -> SUBSET Emails]
        BY <1>5, <2>3 DEF AttemptEmail
  <2>5. flow' \in [Flows -> FlowRow \cup {Null}] /\ reg' \in [Flows -> Registration \cup {Null}]
        BY <1>5, <2>1, <2>2, EndedIsTyped DEF AttemptEmail
  <2> QED BY <1>5, <2>1, <2>4, <2>5 DEF AttemptEmail
<1>6. ASSUME NEW p \in Flows, AttemptRejected(p)
      PROVE  SignUpTypeOK'
  <2>1. flow[p] \in FlowRow /\ step[p]["email"] \in SignUpStep
        BY <1>6 DEF AttemptRejected, Open, load
  <2>2. Failed(flow[p]) \in FlowRow /\ Failed(step[p]["email"]) \in SignUpStep
        BY <2>1, FailedIsTyped
  <2> QED BY <1>6, <2>2 DEF AttemptRejected
<1>7. ASSUME NEW p \in Flows, NEW a \in Accounts, AttemptPassword(p, a)
      PROVE  SignUpTypeOK'
  <2>1. /\ step' \in [Flows -> [SignUpMethods -> SignUpStep \cup {Null}]]
        /\ flow[p] \in FlowRow
        BY <1>3, <1>7 DEF AttemptPassword
  <2>2. reg[p] \in Registration
        BY <1>7 DEF AttemptPassword, Open, next
  <2>3. CASE Taken(reg[p].email)
    <3> DEFINE rg == [reg EXCEPT ![p].password = TRUE]
    <3>1. /\ rg \in [Flows -> Registration \cup {Null}] /\ rg[p] \in Registration
          /\ failRegistration(p, rg)
          BY <1>7, <2>2, <2>3 DEF AttemptPassword, Registration
    <3> HIDE DEF rg
    <3>2. flow' \in [Flows -> FlowRow \cup {Null}] /\ reg' \in [Flows -> Registration \cup {Null}]
          BY <2>1, <3>1, EndedIsTyped
    <3> QED BY <1>7, <2>1, <2>3, <3>2 DEF AttemptPassword
  <2>4. CASE ~Taken(reg[p].email)
    <3> DEFINE row == [flow[p] EXCEPT !.status = "completed", !.account = a,
                                      !.done = now, !.grant = now + GrantTTL]
    <3>1. row \in FlowRow
      <4>1. now + GrantTTL \in Time /\ now \in Time
            OBVIOUS
      <4> QED BY <2>1, <4>1, CompletedIsTyped
    <3>2. flow' = [flow EXCEPT ![p] = row]
          BY <1>7, <2>1, <2>4 DEF AttemptPassword, register, FlowRow
    <3> HIDE DEF row
    <3>3. flow' \in [Flows -> FlowRow \cup {Null}]
          BY <3>1, <3>2
    <3>4. reg[p].email \in Emails
          BY <2>2 DEF Registration
    <3>5. /\ email' = [email EXCEPT ![a] = reg[p].email] /\ born' = born \cup {a}
          /\ proved' = [proved EXCEPT ![a] = answered[p]]
          /\ reg' = [reg EXCEPT ![p] = Null]
          /\ UNCHANGED <<now, change, answered, confirmed>>
          BY <1>7, <2>4 DEF AttemptPassword, register
    <3> QED BY <2>1, <3>3, <3>4, <3>5
  <2> QED BY <2>3, <2>4
<1>8. ASSUME NEW p \in Flows, CreateSession(p)
      PROVE  SignUpTypeOK'
  <2>1. flow[p] \in FlowRow
        BY <1>8 DEF CreateSession
  <2>2. [flow[p] EXCEPT !.grant = Null] \in FlowRow
        BY <2>1 DEF FlowRow
  <2>3. flow' = [flow EXCEPT ![p] = [flow[p] EXCEPT !.grant = Null]]
        BY <1>8 DEF CreateSession
  <2> QED BY <1>8, <2>2, <2>3 DEF CreateSession
<1>9. ASSUME NEW a \in Accounts, NEW e \in Emails, ChangeEmail(a, e)
      PROVE  SignUpTypeOK'
      BY <1>9 DEF ChangeEmail, ChangeRow
<1>10. ASSUME NEW a \in Accounts, ConfirmPrevious(a)
       PROVE  SignUpTypeOK'
  <2> DEFINE row == [change[a] EXCEPT !.stage = "awaiting_new_email", !.exp = now + RequestTTL]
  <2>1. change[a] \in ChangeRow
        BY <1>10 DEF ConfirmPrevious
  <2>2. row \in ChangeRow /\ change[a].previous \in Emails
    <3>1. now + RequestTTL \in Time
          OBVIOUS
    <3> QED BY <2>1, <3>1, AdvancedIsTyped
  <2>3. change' = [change EXCEPT ![a] = row]
        BY <1>10, <2>1 DEF ConfirmPrevious, ChangeRow
  <2> HIDE DEF row
  <2>4. change' \in [Accounts -> ChangeRow \cup {Null}]
        BY <2>2, <2>3
  <2>5. confirmed[a] \cup {change[a].previous} \in SUBSET Emails
        BY <2>2
  <2>6. confirmed' \in [Accounts -> SUBSET Emails]
        BY <1>10, <2>5 DEF ConfirmPrevious
  <2> QED BY <1>10, <2>4, <2>6 DEF ConfirmPrevious
<1>11. ASSUME NEW a \in Accounts, ConfirmNew(a)
       PROVE  SignUpTypeOK'
  <2>1. change[a].email \in Emails
        BY <1>11 DEF ConfirmNew, ChangeRow
  <2>2. ASSUME NEW p \in Flows, flow[p] # Null
        PROVE  [flow[p] EXCEPT !.grant = Null] \in FlowRow
    <3>1. flow[p] \in FlowRow
          BY <2>2
    <3> QED BY <3>1 DEF FlowRow
  <2>3. flow' \in [Flows -> FlowRow \cup {Null}]
        BY <1>11, <2>2 DEF ConfirmNew
  <2>4. confirmed' \in [Accounts -> SUBSET Emails] /\ email' \in [Accounts -> Emails \cup {Null}]
        BY <1>11, <2>1 DEF ConfirmNew
  <2>5. proved' \in [Accounts -> SUBSET Emails] /\ change' \in [Accounts -> ChangeRow \cup {Null}]
        BY <1>11, <2>4 DEF ConfirmNew
  <2> QED BY <1>11, <2>3, <2>4, <2>5 DEF ConfirmNew
<1>12. ASSUME NEW a \in Accounts, DeleteAccount(a)
       PROVE  SignUpTypeOK'
       BY <1>12 DEF DeleteAccount, DropFlows, NoSteps
<1>13. CASE Cleanup
       BY <1>13 DEF Cleanup, DropFlows, NoSteps
<1>14. CASE Tick
       BY <1>14 DEF Tick
<1>15. CASE UNCHANGED signUpVars
       BY <1>15 DEF signUpVars
<1> QED BY <1>1, <1>2, <1>4, <1>5, <1>6, <1>7, <1>8, <1>9, <1>10, <1>11, <1>12,
           <1>13, <1>14, <1>15 DEF SignUpNext

\* A flow whose rows a step leaves alone stays as it was.
LEMMA FlowFrame ==
    ASSUME NEW q \in Flows, FlowOK(q), flow'[q] = flow[q], reg'[q] = reg[q],
           step'[q] = step[q], answered'[q] = answered[q]
    PROVE  FlowOK(q)'
BY DEF FlowOK, GoneIsEmpty, CodeNeedsAddress, CodeGoesToAddress, CompletedIsAnswered,
       EndIsJustified, HoldsNoPassword, Done

\* A flow that goes takes its rows with it.
LEMMA FlowDropped ==
    ASSUME NEW q \in Flows, FlowOK(q), NEW D \in SUBSET Flows, DropFlows(D),
           answered' = answered
    PROVE  FlowOK(q)'
<1>1. CASE q \in D
  <2>1. flow'[q] = Null /\ reg'[q] = Null /\ step'[q] = NoSteps
        BY <1>1 DEF DropFlows
  <2> QED BY <2>1 DEF FlowOK, GoneIsEmpty, CodeNeedsAddress, CodeGoesToAddress,
             CompletedIsAnswered, EndIsJustified, HoldsNoPassword
<1>2. CASE q \notin D
  <2>1. flow'[q] = flow[q] /\ reg'[q] = reg[q] /\ step'[q] = step[q]
        BY <1>2 DEF DropFlows
  <2> QED BY <2>1, FlowFrame
<1> QED BY <1>1, <1>2

\* What an attempt finds: the process is pending and the step before it is done.
LEMMA OpenFacts ==
    ASSUME SignUpTypeOK, NEW p \in Flows, NEW m \in SignUpMethods, Open(p, m)
    PROVE  /\ flow[p] \in FlowRow /\ flow[p] # Null /\ flow[p].status = "pending"
           /\ step[p][m] \in SignUpStep /\ step[p][m] # Null
           /\ m = "registration" => reg[p] = Null
           /\ m # "registration" => reg[p] # Null /\ reg[p] \in Registration
           /\ m = "passwordSetup" => Done(p, "email")
<1>1. flow[p] \in FlowRow /\ flow[p] # Null /\ step[p][m] \in SignUpStep /\ step[p][m] # Null
  BY DEF SignUpTypeOK, Open, load
<1>2. flow[p].status = "pending"
  BY DEF Open, next
<1>3. /\ m = "registration" => reg[p] = Null
      /\ m # "registration" => reg[p] # Null
      /\ m = "passwordSetup" => Done(p, "email")
  BY DEF Open, next
<1> QED BY <1>1, <1>2, <1>3 DEF SignUpTypeOK

\* Accepting a step of type m changes the steps of its own flow only, and not
\* where the code went.
LEMMA AcceptedFacts ==
    ASSUME SignUpTypeOK, NEW p \in Flows, NEW m \in SignUpMethods, Open(p, m),
           step' = Accepted(p, m)
    PROVE  /\ \A q \in Flows \ {p} : step'[q] = step[q]
           /\ (step'[p]["email"] = Null) <=> (step[p]["email"] = Null)
           /\ step[p]["email"] # Null => step'[p]["email"].to = step[p]["email"].to
           /\ m # "email" => (Done(p, "email")' <=> Done(p, "email"))
<1> DEFINE s == step[p]["email"]
           n == step'[p]["email"]
<1>1. "email" \in SignUpMethods /\ s \in SignUpStep \cup {Null}
  BY DEF SignUpTypeOK, SignUpMethods
<1>2. \A q \in Flows \ {p} : step'[q] = step[q]
  BY DEF Accepted, SignUpTypeOK
<1>3. n = IF "email" = m THEN [s EXCEPT !.status = "completed"]
          ELSE IF s # Null /\ s.status = "pending"
               THEN [s EXCEPT !.status = "cancelled"] ELSE s
  BY <1>1 DEF Accepted, SignUpTypeOK
<1>4. m = "email" => s # Null
  BY DEF Open
<1>5. s # Null => /\ [s EXCEPT !.status = "completed"] \in SignUpStep
                  /\ [s EXCEPT !.status = "cancelled"] \in SignUpStep
                  /\ [s EXCEPT !.status = "completed"].to = s.to
                  /\ [s EXCEPT !.status = "cancelled"].to = s.to
                  /\ [s EXCEPT !.status = "cancelled"].status = "cancelled"
  BY <1>1 DEF SignUpStep
<1>6. Null \notin SignUpStep
  BY SignUpAssumption
<1>7. Done(p, "email") <=> s # Null /\ s.status = "completed"
  BY DEF Done
<1>8. Done(p, "email")' <=> n # Null /\ n.status = "completed"
  BY DEF Done
<1> HIDE DEF s, n
<1>9. (n = Null <=> s = Null) /\ (s # Null => n.to = s.to)
  BY <1>1, <1>3, <1>4, <1>5, <1>6
<1>10. m # "email" => (Done(p, "email")' <=> Done(p, "email"))
  BY <1>1, <1>3, <1>4, <1>5, <1>6, <1>7, <1>8
<1> QED BY <1>2, <1>9, <1>10 DEF s, n

\* Every step keeps what is known of the flows.
LEMMA FlowStep ==
    SignUpTypeOK /\ SignUpTypeOK' /\ FlowInv /\ [SignUpNext]_signUpVars => FlowInv'
<1> SUFFICES ASSUME SignUpTypeOK, SignUpTypeOK', FlowInv, [SignUpNext]_signUpVars,
                    NEW q \in Flows
             PROVE  FlowOK(q)'
    BY DEF FlowInv
<1>a. FlowOK(q)
  BY DEF FlowInv
<1>b. "email" \in SignUpMethods /\ "registration" \in SignUpMethods
      /\ "passwordSetup" \in SignUpMethods
  BY DEF SignUpMethods
<1>c. Null \notin FlowRow /\ Null \notin SignUpStep /\ Null \notin Registration
  BY SignUpAssumption
<1> DEFINE Same == /\ flow'[q] = flow[q] /\ reg'[q] = reg[q]
                   /\ step'[q] = step[q] /\ answered'[q] = answered[q]
<1>d. Same => FlowOK(q)'
  BY <1>a, FlowFrame
<1>1. ASSUME NEW p \in Flows, Start(p)
      PROVE  FlowOK(q)'
  <2>1. CASE q # p
        BY <1>1, <1>d, <2>1 DEF Start, SignUpTypeOK
  <2>2. CASE q = p
    <3>1. reg'[p] = Null /\ step'[p] = NoSteps
          BY <1>1, <1>a, <2>2 DEF Start, FlowOK, GoneIsEmpty
    <3>2. flow'[p].status = "pending" /\ flow'[p] # Null
      <4> DEFINE row == [status |-> "pending", exp |-> now + FlowTTL, failures |-> 0,
                         account |-> Null, done |-> Null, grant |-> Null]
      <4>1. flow'[p] = row
            BY <1>1 DEF Start, SignUpTypeOK
      <4>2. now + FlowTTL \in Time
            BY SignUpAssumption DEF SignUpTypeOK, Time
      <4>3. row \in FlowRow
            BY <4>2 DEF FlowRow
      <4> QED BY <1>c, <4>1, <4>3
    <3> QED BY <1>b, <2>2, <3>1, <3>2 DEF FlowOK, GoneIsEmpty, CodeNeedsAddress, NoSteps,
            CodeGoesToAddress, CompletedIsAnswered, EndIsJustified, HoldsNoPassword
  <2> QED BY <2>1, <2>2
<1>2. ASSUME NEW p \in Flows, NEW m \in SignUpMethods, CreateChallenge(p, m)
      PROVE  FlowOK(q)'
  <2>1. CASE q # p
        BY <1>2, <1>d, <2>1 DEF CreateChallenge, SignUpTypeOK
  <2>2. CASE q = p
    <3>1. /\ flow' = flow /\ reg' = reg /\ answered' = answered
          /\ flow[p] # Null /\ m \in next(p)
          BY <1>2 DEF CreateChallenge, load
    <3>2. CASE m # "email"
      <4>1. step'[p]["email"] = step[p]["email"]
            BY <1>2, <1>b, <3>2 DEF CreateChallenge, SignUpTypeOK
      <4> QED BY <1>a, <2>2, <3>1, <4>1 DEF FlowOK, GoneIsEmpty, CodeNeedsAddress, Done,
              CodeGoesToAddress, CompletedIsAnswered, EndIsJustified, HoldsNoPassword
    <3>3. CASE m = "email"
      <4>1. reg[p] # Null
            BY <3>1, <3>3 DEF next
      <4>2. step'[p]["email"].status = "pending" /\ step'[p]["email"].to = reg[p].email
            BY <1>2, <1>b, <3>3 DEF CreateChallenge, SignUpTypeOK
      <4> QED BY <1>a, <2>2, <3>1, <4>1, <4>2 DEF FlowOK, GoneIsEmpty, CodeNeedsAddress, Done,
              CodeGoesToAddress, CompletedIsAnswered, EndIsJustified, HoldsNoPassword
    <3> QED BY <3>2, <3>3
  <2> QED BY <2>1, <2>2
<1>3. ASSUME NEW p \in Flows, NEW e \in Emails, AttemptRegistration(p, e)
      PROVE  FlowOK(q)'
  <2>1. Open(p, "registration") /\ step' = Accepted(p, "registration")
        BY <1>3 DEF AttemptRegistration
  <2>2. CASE q # p
        BY <1>3, <1>b, <1>d, <2>1, <2>2, AcceptedFacts DEF AttemptRegistration, SignUpTypeOK
  <2>3. CASE q = p
    <3>1. flow[p] # Null /\ flow[p].status = "pending" /\ reg[p] = Null
          BY <1>b, <2>1, OpenFacts
    <3>2. step'[p]["email"] = Null
          BY <1>a, <1>b, <2>1, <2>3, <3>1, AcceptedFacts DEF FlowOK, CodeNeedsAddress
    <3>3. flow' = flow /\ ~reg'[p].password
          BY <1>3 DEF AttemptRegistration, SignUpTypeOK
    <3> QED BY <2>3, <3>1, <3>2, <3>3 DEF FlowOK, GoneIsEmpty, CodeNeedsAddress, Done,
            CodeGoesToAddress, CompletedIsAnswered, EndIsJustified, HoldsNoPassword
  <2> QED BY <2>2, <2>3
<1>4. ASSUME NEW p \in Flows, AttemptEmail(p)
      PROVE  FlowOK(q)'
  <2>1. Open(p, "email") /\ step' = Accepted(p, "email")
        BY <1>4 DEF AttemptEmail
  <2>2. CASE q # p
        BY <1>4, <1>b, <1>d, <2>1, <2>2, AcceptedFacts
           DEF AttemptEmail, failRegistration, SignUpTypeOK
  <2>3. CASE q = p
    <3>1. flow[p] # Null /\ reg[p] # Null /\ reg[p] \in Registration
          /\ step[p]["email"] # Null /\ flow[p] \in FlowRow /\ flow[p].status = "pending"
          BY <1>b, <2>1, OpenFacts
    <3>2. step[p]["email"].to = reg[p].email
          BY <1>a, <2>3, <3>1 DEF FlowOK, CodeGoesToAddress
    <3>3. step'[p]["email"].to = reg[p].email
          BY <1>b, <2>1, <3>1, <3>2, AcceptedFacts
    <3>4. reg[p].email \in answered'[p]
          BY <1>4, <3>2 DEF AttemptEmail, SignUpTypeOK
    <3>5. /\ reg'[p] # Null /\ reg'[p].email = reg[p].email /\ ~reg'[p].password
          /\ flow'[p] # Null
      <4>1. CASE Taken(reg[p].email)
        <5>1. reg'[p] = [reg[p] EXCEPT !.password = FALSE]
              /\ flow'[p] = [flow[p] EXCEPT !.status = "failed"]
              BY <1>4, <4>1 DEF AttemptEmail, failRegistration, SignUpTypeOK
        <5>2. reg'[p] \in Registration /\ flow'[p] \in FlowRow
              BY <3>1, <5>1 DEF Registration, FlowRow
        <5> QED BY <1>c, <3>1, <5>1, <5>2 DEF Registration
      <4>2. CASE ~Taken(reg[p].email)
            BY <1>4, <1>a, <2>3, <3>1, <4>2 DEF AttemptEmail, FlowOK, HoldsNoPassword
      <4> QED BY <4>1, <4>2
    <3> QED BY <2>3, <3>3, <3>4, <3>5 DEF FlowOK, GoneIsEmpty, CodeNeedsAddress, Done,
            CodeGoesToAddress, CompletedIsAnswered, EndIsJustified, HoldsNoPassword
  <2> QED BY <2>2, <2>3
<1>5. ASSUME NEW p \in Flows, AttemptRejected(p)
      PROVE  FlowOK(q)'
  <2>1. CASE q # p
        BY <1>5, <1>d, <2>1 DEF AttemptRejected, SignUpTypeOK
  <2>2. CASE q = p
    <3> DEFINE f == flow[p]
               s == step[p]["email"]
    <3>1. f # Null /\ f \in FlowRow /\ f.status = "pending"
          /\ s # Null /\ s \in SignUpStep /\ s.status = "pending"
          /\ reg[p] # Null
          BY <1>5, <1>b, OpenFacts DEF AttemptRejected, Open
    <3>2. flow'[p] = Failed(f) /\ step'[p]["email"] = Failed(s)
          /\ reg' = reg /\ answered' = answered
          BY <1>5, <1>b DEF AttemptRejected, SignUpTypeOK
    <3> HIDE DEF f, s
    <3>3. Failed(f) \in FlowRow /\ Failed(s) \in SignUpStep
          BY <3>1, FailedIsTyped
    <3>4. Failed(s).to = s.to /\ Failed(s).status # "completed"
          BY <3>1 DEF Failed, SignUpStep
    <3>5. Failed(f).status = "failed" => Failed(f).failures >= MaxAttempts
          BY <3>1 DEF Failed, FlowRow
    <3>6. s.to = reg[p].email /\ ~reg[p].password
          BY <1>a, <2>2, <3>1 DEF FlowOK, CodeGoesToAddress, HoldsNoPassword, s
    <3> QED BY <1>c, <2>2, <3>1, <3>2, <3>3, <3>4, <3>5, <3>6
            DEF FlowOK, GoneIsEmpty, CodeNeedsAddress, Done,
            CodeGoesToAddress, CompletedIsAnswered, EndIsJustified, HoldsNoPassword
  <2> QED BY <2>1, <2>2
<1>6. ASSUME NEW p \in Flows, NEW a \in Accounts, AttemptPassword(p, a)
      PROVE  FlowOK(q)'
  <2>1. Open(p, "passwordSetup") /\ step' = Accepted(p, "passwordSetup")
        BY <1>6 DEF AttemptPassword
  <2>2. CASE q # p
        BY <1>6, <1>b, <1>d, <2>1, <2>2, AcceptedFacts
           DEF AttemptPassword, failRegistration, register, SignUpTypeOK
  <2>3. CASE q = p
    <3>1. flow[p] # Null /\ flow[p] \in FlowRow /\ reg[p] # Null /\ reg[p] \in Registration
          /\ Done(p, "email")
          BY <1>b, <2>1, OpenFacts
    <3>2. step[p]["email"] # Null
          BY <3>1 DEF Done
    <3>3. step[p]["email"].to = reg[p].email /\ reg[p].email \in answered[p]
          BY <1>a, <2>3, <3>1, <3>2 DEF FlowOK, CodeGoesToAddress, CompletedIsAnswered
    <3>4. step'[p]["email"].to = reg[p].email
          BY <1>b, <2>1, <3>2, <3>3, AcceptedFacts
    <3>5. answered' = answered
          BY <1>6 DEF AttemptPassword
    <3>6. CASE Taken(reg[p].email)
      <4>1. reg'[p] = [[reg[p] EXCEPT !.password = TRUE] EXCEPT !.password = FALSE]
            /\ flow'[p] = [flow[p] EXCEPT !.status = "failed"]
            BY <1>6, <3>6 DEF AttemptPassword, failRegistration, SignUpTypeOK
      <4>2. /\ reg'[p] \in Registration /\ flow'[p] \in FlowRow
            /\ reg'[p].email = reg[p].email /\ ~reg'[p].password
            BY <3>1, <4>1 DEF Registration, FlowRow
      <4> QED BY <1>c, <2>3, <3>3, <3>4, <3>5, <4>2
              DEF FlowOK, GoneIsEmpty, CodeNeedsAddress, Done,
              CodeGoesToAddress, CompletedIsAnswered, EndIsJustified, HoldsNoPassword
    <3>7. CASE ~Taken(reg[p].email)
      <4>1. reg'[p] = Null
            BY <1>6, <3>7 DEF AttemptPassword, register, SignUpTypeOK
      <4>2. flow'[p] = [flow[p] EXCEPT !.status = "completed", !.account = a,
                                       !.done = now, !.grant = now + GrantTTL]
            BY <1>6, <3>7 DEF AttemptPassword, register, SignUpTypeOK
      <4>3. flow'[p].status = "completed" /\ flow'[p] \in FlowRow
        <5>1. now \in Time /\ now + GrantTTL \in Time
              BY SignUpAssumption DEF SignUpTypeOK, Time
        <5>2. flow'[p] \in FlowRow
          <6>1. [flow[p] EXCEPT !.status = "completed", !.account = a, !.done = now,
                                !.grant = now + GrantTTL] \in FlowRow
                BY <3>1, <5>1, CompletedIsTyped
          <6> QED BY <4>2, <6>1
        <5>3. flow'[p].status = "completed"
              BY <3>1, <4>2 DEF FlowRow
        <5> QED BY <5>2, <5>3
      <4> QED BY <1>c, <2>3, <4>1, <4>3
              DEF FlowOK, GoneIsEmpty, CodeNeedsAddress, Done,
              CodeGoesToAddress, CompletedIsAnswered, EndIsJustified, HoldsNoPassword
    <3> QED BY <3>6, <3>7
  <2> QED BY <2>2, <2>3
<1>7. ASSUME NEW p \in Flows, CreateSession(p)
      PROVE  FlowOK(q)'
  <2>1. CASE q # p
        BY <1>7, <1>d, <2>1 DEF CreateSession, SignUpTypeOK
  <2>2. CASE q = p
    <3>1. flow[p] # Null /\ flow[p] \in FlowRow /\ flow[p].status = "completed"
          /\ flow'[p] = [flow[p] EXCEPT !.grant = Null]
          /\ reg' = reg /\ step' = step /\ answered' = answered
          BY <1>7 DEF CreateSession, SignUpTypeOK
    <3>2. flow'[p] \in FlowRow /\ flow'[p].status = "completed"
          BY <3>1 DEF FlowRow
    <3> QED BY <1>a, <1>c, <2>2, <3>1, <3>2
            DEF FlowOK, GoneIsEmpty, CodeNeedsAddress, Done,
            CodeGoesToAddress, CompletedIsAnswered, EndIsJustified, HoldsNoPassword
  <2> QED BY <2>1, <2>2
<1>8. ASSUME NEW a \in Accounts, NEW e \in Emails, ChangeEmail(a, e)
      PROVE  FlowOK(q)'
  BY <1>8, <1>d DEF ChangeEmail
<1>9. ASSUME NEW a \in Accounts, ConfirmPrevious(a)
      PROVE  FlowOK(q)'
  BY <1>9, <1>d DEF ConfirmPrevious
<1>10. ASSUME NEW a \in Accounts, ConfirmNew(a)
       PROVE  FlowOK(q)'
  <2>1. reg' = reg /\ step' = step /\ answered' = answered
        BY <1>10 DEF ConfirmNew
  <2>2. CASE flow'[q] = flow[q]
        BY <1>d, <2>1, <2>2
  <2>3. CASE flow'[q] # flow[q]
    <3>1. flow[q] # Null /\ flow[q] \in FlowRow /\ flow'[q] = [flow[q] EXCEPT !.grant = Null]
          BY <1>10, <2>3 DEF ConfirmNew, SignUpTypeOK
    <3>2. /\ flow'[q] \in FlowRow /\ flow'[q].status = flow[q].status
          /\ flow'[q].failures = flow[q].failures
          BY <3>1 DEF FlowRow
    <3> QED BY <1>a, <1>c, <2>1, <3>1, <3>2
            DEF FlowOK, GoneIsEmpty, CodeNeedsAddress, Done,
            CodeGoesToAddress, CompletedIsAnswered, EndIsJustified, HoldsNoPassword
  <2> QED BY <2>2, <2>3
<1>11. ASSUME NEW a \in Accounts, DeleteAccount(a)
       PROVE  FlowOK(q)'
  <2> DEFINE D == {p \in Flows : flow[p] # Null /\ flow[p].account = a}
  <2>1. DropFlows(D) /\ answered' = answered /\ D \in SUBSET Flows
        BY <1>11 DEF DeleteAccount
  <2> HIDE DEF D
  <2> QED BY <1>a, <2>1, FlowDropped
<1>12. CASE Cleanup
  <2> DEFINE D == {p \in Flows : flow[p] # Null /\ flow[p].exp < now
                    /\ (flow[p].done = Null \/ flow[p].done < now - ReuseTTL)
                    /\ (flow[p].grant = Null \/ flow[p].grant < now)}
  <2>1. DropFlows(D) /\ answered' = answered /\ D \in SUBSET Flows
        BY <1>12 DEF Cleanup
  <2> HIDE DEF D
  <2> QED BY <1>a, <2>1, FlowDropped
<1>13. CASE Tick
  BY <1>13, <1>d DEF Tick
<1>14. CASE UNCHANGED signUpVars
  BY <1>14, <1>d DEF signUpVars
<1> QED BY <1>1, <1>2, <1>3, <1>4, <1>5, <1>6, <1>7, <1>8, <1>9, <1>10, <1>11, <1>12,
           <1>13, <1>14 DEF SignUpNext

-----------------------------------------------------------------------------
\* Accounts that a step leaves alone stay as they were.
LEMMA AccountFrame ==
    ASSUME AccountInv, UNCHANGED <<email, change, born, proved, confirmed>>
    PROVE  AccountInv'
BY DEF AccountInv, OwnersWereBorn, OneOwner, AddressIsProved, ChangeIsCurrent,
       SecondStageIsConfirmed

\* Every step keeps what is known of the accounts.
LEMMA AccountStep ==
    SignUpInv /\ SignUpTypeOK' /\ [SignUpNext]_signUpVars => AccountInv'
<1> SUFFICES ASSUME SignUpInv, SignUpTypeOK', [SignUpNext]_signUpVars
             PROVE  AccountInv'
    OBVIOUS
<1> USE DEF SignUpInv
<1>a. SignUpTypeOK /\ FlowInv /\ AccountInv
  OBVIOUS
<1>b. Null \notin Emails /\ Null \notin ChangeRow
  BY SignUpAssumption
<1>1. ASSUME NEW p \in Flows, NEW a \in Accounts, AttemptPassword(p, a)
      PROVE  AccountInv'
  <2>1. CASE Taken(reg[p].email)
        BY <1>1, <2>1, AccountFrame DEF AttemptPassword
  <2>2. CASE ~Taken(reg[p].email)
    <3>1. /\ a \notin born /\ email' = [email EXCEPT ![a] = reg[p].email]
          /\ born' = born \cup {a} /\ proved' = [proved EXCEPT ![a] = answered[p]]
          /\ change' = change /\ confirmed' = confirmed
          BY <1>1, <2>2 DEF AttemptPassword, register
    <3>2. reg[p].email \in answered[p]
      <4>1. "passwordSetup" \in SignUpMethods /\ Open(p, "passwordSetup")
            BY <1>1 DEF AttemptPassword, SignUpMethods
      <4>2. reg[p] # Null /\ Done(p, "email")
            BY <4>1, OpenFacts
      <4> QED BY <4>2 DEF FlowInv, FlowOK, CompletedIsAnswered
    <3>3. email[a] = Null
          BY <3>1 DEF AccountInv, OwnersWereBorn
    <3>4. change[a] = Null
      <4>1. SUFFICES ASSUME change[a] # Null PROVE FALSE
            OBVIOUS
      <4>2. change[a] \in ChangeRow /\ change[a].previous = email[a]
            BY <4>1 DEF SignUpTypeOK, AccountInv, ChangeIsCurrent
      <4> QED BY <1>b, <3>3, <4>2 DEF ChangeRow
    <3>5. OwnersWereBorn'
          BY <3>1 DEF AccountInv, OwnersWereBorn, SignUpTypeOK
    <3>6. OneOwner'
          BY <2>2, <3>1 DEF AccountInv, OneOwner, Taken, SignUpTypeOK
    <3>7. AddressIsProved'
          BY <3>1, <3>2 DEF AccountInv, AddressIsProved, SignUpTypeOK
    <3>8. ChangeIsCurrent' /\ SecondStageIsConfirmed'
          BY <3>1, <3>4 DEF AccountInv, ChangeIsCurrent, SecondStageIsConfirmed, SignUpTypeOK
    <3> QED BY <3>5, <3>6, <3>7, <3>8 DEF AccountInv
  <2> QED BY <2>1, <2>2
<1>2. ASSUME NEW a \in Accounts, NEW e \in Emails, ChangeEmail(a, e)
      PROVE  AccountInv'
  <2>1. UNCHANGED <<email, born, proved>>
        BY <1>2 DEF ChangeEmail
  <2>2. OwnersWereBorn' /\ OneOwner' /\ AddressIsProved'
        BY <2>1 DEF AccountInv, OwnersWereBorn, OneOwner, AddressIsProved
  <2>3. /\ change'[a].previous = email[a] /\ change'[a].stage = "awaiting_previous_email"
        /\ \A b \in Accounts \ {a} : change'[b] = change[b] /\ confirmed'[b] = confirmed[b]
        BY <1>2 DEF ChangeEmail, SignUpTypeOK
  <2> QED BY <2>1, <2>2, <2>3 DEF AccountInv, ChangeIsCurrent, SecondStageIsConfirmed
<1>3. ASSUME NEW a \in Accounts, ConfirmPrevious(a)
      PROVE  AccountInv'
  <2>1. UNCHANGED <<email, born, proved>>
        BY <1>3 DEF ConfirmPrevious
  <2>2. OwnersWereBorn' /\ OneOwner' /\ AddressIsProved'
        BY <2>1 DEF AccountInv, OwnersWereBorn, OneOwner, AddressIsProved
  <2>3. /\ change[a] # Null
        /\ change' = [change EXCEPT ![a].stage = "awaiting_new_email",
                                     ![a].exp = now + RequestTTL]
        /\ confirmed' = [confirmed EXCEPT ![a] = @ \cup {change[a].previous}]
        BY <1>3 DEF ConfirmPrevious
  <2>4. /\ change'[a].previous = change[a].previous /\ change[a].previous \in confirmed'[a]
        /\ \A b \in Accounts \ {a} : change'[b] = change[b] /\ confirmed'[b] = confirmed[b]
        BY <2>3 DEF SignUpTypeOK, ChangeRow
  <2> QED BY <2>1, <2>2, <2>3, <2>4 DEF AccountInv, ChangeIsCurrent, SecondStageIsConfirmed
<1>4. ASSUME NEW a \in Accounts, ConfirmNew(a)
      PROVE  AccountInv'
  <2> DEFINE e == change[a].email
  <2>1. /\ change[a] # Null /\ email[a] = change[a].previous /\ ~Taken(e)
        /\ email' = [email EXCEPT ![a] = e] /\ change' = [change EXCEPT ![a] = Null]
        /\ confirmed' = [confirmed EXCEPT ![a] = @ \cup {e}]
        /\ proved' = [proved EXCEPT ![a] = confirmed'[a]] /\ born' = born
        BY <1>4 DEF ConfirmNew
  <2>2. email[a] # Null
        BY <1>b, <2>1 DEF SignUpTypeOK, ChangeRow
  <2> HIDE DEF e
  <2>3. OwnersWereBorn'
        BY <2>1, <2>2 DEF AccountInv, OwnersWereBorn, SignUpTypeOK
  <2>4. OneOwner'
        BY <2>1 DEF AccountInv, OneOwner, Taken, SignUpTypeOK
  <2>5. AddressIsProved'
        BY <2>1 DEF AccountInv, AddressIsProved, SignUpTypeOK
  <2>6. ChangeIsCurrent' /\ SecondStageIsConfirmed'
        BY <2>1 DEF AccountInv, ChangeIsCurrent, SecondStageIsConfirmed, SignUpTypeOK
  <2> QED BY <2>3, <2>4, <2>5, <2>6 DEF AccountInv
<1>5. ASSUME NEW a \in Accounts, DeleteAccount(a)
      PROVE  AccountInv'
  <2>1. /\ email' = [email EXCEPT ![a] = Null] /\ change' = [change EXCEPT ![a] = Null]
        /\ UNCHANGED <<born, proved, confirmed>>
        BY <1>5 DEF DeleteAccount
  <2> QED BY <2>1 DEF AccountInv, OwnersWereBorn, OneOwner, AddressIsProved, ChangeIsCurrent,
             SecondStageIsConfirmed, SignUpTypeOK
<1>6. CASE Cleanup
  <2>1. /\ UNCHANGED <<email, born, proved, confirmed>>
        /\ \A a \in Accounts : change'[a] = Null \/ change'[a] = change[a]
        BY <1>6 DEF Cleanup
  <2> QED BY <2>1 DEF AccountInv, OwnersWereBorn, OneOwner, AddressIsProved, ChangeIsCurrent,
             SecondStageIsConfirmed, SignUpTypeOK
<1>7. ASSUME UNCHANGED <<email, change, born, proved, confirmed>>
      PROVE  AccountInv'
  BY <1>7, AccountFrame
<1> QED BY <1>1, <1>2, <1>3, <1>4, <1>5, <1>6, <1>7
        DEF SignUpNext, Start, CreateChallenge, AttemptRegistration, AttemptEmail,
            AttemptRejected, CreateSession, Tick, signUpVars

-----------------------------------------------------------------------------
\* The invariant holds at first and every step keeps it.
LEMMA SignUpInductive ==
    /\ SignUpInit => SignUpInv
    /\ SignUpInv /\ [SignUpNext]_signUpVars => SignUpInv'
<1>1. ASSUME SignUpInit PROVE SignUpInv
  <2>1. SignUpTypeOK
        BY <1>1, SignUpAssumption DEF SignUpInit, SignUpTypeOK, Time, NoSteps
  <2>2. FlowInv
        BY <1>1 DEF SignUpInit, FlowInv, FlowOK, GoneIsEmpty, CodeNeedsAddress,
           CodeGoesToAddress, CompletedIsAnswered, EndIsJustified, HoldsNoPassword
  <2>3. AccountInv
        BY <1>1, SignUpAssumption DEF SignUpInit, AccountInv, OwnersWereBorn, OneOwner,
           AddressIsProved, ChangeIsCurrent, SecondStageIsConfirmed
  <2> QED BY <2>1, <2>2, <2>3 DEF SignUpInv
<1>2. ASSUME SignUpInv, [SignUpNext]_signUpVars PROVE SignUpInv'
  <2>1. SignUpTypeOK'
        BY <1>2, TypeStep DEF SignUpInv
  <2> QED BY <1>2, <2>1, FlowStep, AccountStep DEF SignUpInv
<1> QED BY <1>1, <1>2

LEMMA SignUpInvariant == SignUpSpec => []SignUpInv
BY SignUpInductive, PTL DEF SignUpSpec

\* The rows of sign-ups and changes are well typed in every reachable state.
THEOREM SignUpTypeCorrect == SignUpSpec => []SignUpTypeOK
<1>1. SignUpInv => SignUpTypeOK
  BY DEF SignUpInv
<1> QED BY <1>1, SignUpInvariant, PTL

\* Whatever the interleaving of sign-ups and changes, register and ConfirmEmail
\* never give one address to two accounts.
THEOREM OneOwnerTheorem == SignUpSpec => []OneOwner
<1>1. SignUpInv => OneOwner
  BY DEF SignUpInv, AccountInv
<1> QED BY <1>1, SignUpInvariant, PTL

\* No account gets an address that did not answer: the order of the steps in
\* Engine.next and the two stages of ConfirmEmail guarantee it.
THEOREM AddressIsProvedTheorem == SignUpSpec => []AddressIsProved
<1>1. SignUpInv => AddressIsProved
  BY DEF SignUpInv, AccountInv
<1> QED BY <1>1, SignUpInvariant, PTL

\* Attempt ends a sign-up for a taken address only after its proof.
THEOREM DisclosureTheorem == SignUpSpec => []DisclosedAfterProof
<1>1. SignUpInv => DisclosedAfterProof
  BY DEF SignUpInv, FlowInv, FlowOK, EndIsJustified, DisclosedAfterProof
<1> QED BY <1>1, SignUpInvariant, PTL

\* No transaction leaves a password in registrations.
THEOREM NoPasswordTheorem == SignUpSpec => []NoPasswordAtRest
<1>1. SignUpInv => NoPasswordAtRest
  BY DEF SignUpInv, FlowInv, FlowOK, HoldsNoPassword, NoPasswordAtRest
<1> QED BY <1>1, SignUpInvariant, PTL

\* The request that ConfirmEmail finds was made from the present address.
THEOREM ChangeIsCurrentTheorem == SignUpSpec => []ChangeIsCurrent
<1>1. SignUpInv => ChangeIsCurrent
  BY DEF SignUpInv, AccountInv
<1> QED BY <1>1, SignUpInvariant, PTL

\* ConfirmEmail moves an account to a new address only when both mailboxes have
\* answered, and no other operation moves it.
THEOREM ChangeTheorem == SignUpSpec => BothAddressesConfirm
<1> DEFINE Moved(a) == email[a] # Null /\ email'[a] # email[a] /\ email'[a] # Null
           Confirmed(a) == {email[a], email'[a]} \subseteq confirmed'[a]
<1>1. SignUpInv /\ [SignUpNext]_signUpVars =>
        [\A a \in Accounts : Moved(a) => Confirmed(a)]_signUpVars
  <2> SUFFICES ASSUME SignUpInv, SignUpNext, NEW b \in Accounts, Moved(b)
               PROVE  Confirmed(b)
      OBVIOUS
  <2>a. SignUpTypeOK /\ AccountInv
    BY DEF SignUpInv
  <2>1. ASSUME NEW a \in Accounts, ConfirmNew(a)
        PROVE  Confirmed(b)
    <3>1. b = a
          BY <2>1 DEF ConfirmNew, SignUpTypeOK, SignUpInv
    <3>2. /\ email[a] = change[a].previous /\ email'[a] = change[a].email
          /\ confirmed'[a] = confirmed[a] \cup {change[a].email}
          BY <2>1, <2>a DEF ConfirmNew, SignUpTypeOK
    <3>3. change[a].previous \in confirmed[a]
          BY <2>1, <2>a DEF ConfirmNew, AccountInv, SecondStageIsConfirmed
    <3> QED BY <3>1, <3>2, <3>3
  <2>2. ASSUME NEW p \in Flows, NEW a \in Accounts, AttemptPassword(p, a)
        PROVE  FALSE
    <3>1. email' = [email EXCEPT ![a] = reg[p].email] /\ a \notin born
          BY <2>2 DEF AttemptPassword, register
    <3>2. b # a
          BY <2>a, <3>1 DEF AccountInv, OwnersWereBorn
    <3> QED BY <2>a, <3>1, <3>2 DEF SignUpTypeOK
  <2>3. ASSUME NEW a \in Accounts, DeleteAccount(a)
        PROVE  FALSE
    BY <2>3, <2>a DEF DeleteAccount, SignUpTypeOK
  <2>4. email' # email
    OBVIOUS
  <2> QED BY <2>1, <2>2, <2>3, <2>4
          DEF SignUpNext, Start, CreateChallenge, AttemptRegistration, AttemptEmail,
              AttemptRejected, CreateSession, ChangeEmail, ConfirmPrevious, Cleanup, Tick
<1> QED BY <1>1, SignUpInvariant, PTL DEF SignUpSpec, BothAddressesConfirm
=============================================================================
