---------------------------- MODULE PasskeyProofs ---------------------------
(***************************************************************************)
(* Proofs about Passkeys, for every number of users, credentials, devices  *)
(* and ceremonies, every mixture of kinds of keys and every lifetime.      *)
(***************************************************************************)
EXTENDS Passkeys, TLAPS

-----------------------------------------------------------------------------
(* The inductive invariant *)

Answer ==
    [kind : {"create", "get"}, key : Credentials, challenge : Ceremonies, count : Counts]

Made(c) == \E d \in Devices : keys[d][c] # -1

\* A key is made once, for one ceremony: what an authenticator signed when it
\* made a key is the only answer that can enrol it.
KeysAreMadeOnce ==
    /\ \A a \in answers : a.kind = "create" =>
         Made(a.key) /\ enrolments[a.challenge].status # "none"
    /\ \A a, b \in answers : a.kind = "create" /\ b.kind = "create" /\ a.key = b.key
         => a.challenge = b.challenge

\* ... and once it has enrolled it, its ceremony is used up.
EnrolmentIsSpent ==
    /\ \A c \in Credentials : enroller[c] # Nobody => Made(c)
    /\ \A a \in answers : a.kind = "create" /\ enroller[a.key] # Nobody
         => enrolments[a.challenge].status = "used"

\* Only users enrol.
EnrolmentsAreOwned ==
    \A t \in Ceremonies : enrolments[t].status # "none" => enrolments[t].user \in Users

\* A row belongs to the user who enrolled its credential.
RowsAreOwned ==
    \A c \in Credentials : passkeys[c] # NoRow => enroller[c] = passkeys[c].user

\* A credential that speaks for a process was enrolled.
SpeakersAreEnrolled ==
    \A t \in Ceremonies, c \in Credentials : c \in steps[t].by => enroller[c] # Nobody

\* The stored counter is at least every count that was accepted.
CounterIsLatest ==
    \A c \in Credentials, n \in Counts \ {0} : accepted[c][n] # 0 =>
      /\ enroller[c] # Nobody
      /\ passkeys[c] # NoRow /\ ~kind[c].synced => n <= passkeys[c].count

PasskeyInv ==
    /\ PasskeyTypeOK
    /\ answers \subseteq Answer
    /\ KeysAreMadeOnce
    /\ EnrolmentIsSpent
    /\ EnrolmentsAreOwned
    /\ RowsAreOwned
    /\ SpeakersAreEnrolled
    /\ SpeaksForEnroller
    /\ CounterIsLatest
    /\ CopiesAreNoticed

-----------------------------------------------------------------------------
(* Types *)

\* The rows of the tables, and the rows that are not there.
LEMMA RowTypes ==
    /\ NoRow \in PasskeyRow
    /\ NoRow.user = Nobody
    /\ \A u \in Users, n \in Counts :
         /\ [user |-> u, count |-> n] \in PasskeyRow
         /\ [user |-> u, count |-> n] # NoRow
    /\ \A r \in PasskeyRow : /\ r.count \in Counts
                             /\ r.user \in Users \cup {Nobody}
                             /\ r # NoRow <=> r.user \in Users
    /\ NotDrawn \in CeremonyRow
    /\ NotDrawn.status = "none" /\ NotDrawn.by = {}
  BY PasskeyAssumption DEF NoRow, PasskeyRow, Counts, NotDrawn, CeremonyRow

\* Changing the status of a ceremony leaves the rest of its row.
LEMMA StatusChange ==
    ASSUME NEW row \in CeremonyRow, NEW st \in {"none", "open", "used", "ended"}
    PROVE  /\ [row EXCEPT !.status = st] \in CeremonyRow
           /\ [row EXCEPT !.status = st].status = st
           /\ [row EXCEPT !.status = st].user = row.user
           /\ [row EXCEPT !.status = st].by = row.by
           /\ [row EXCEPT !.status = st].exp = row.exp
  BY DEF CeremonyRow

\* A drawn challenge is a row of either table of ceremonies.
LEMMA DrawnType ==
    ASSUME PasskeyTypeOK, NEW u \in Users \cup {Nobody}
    PROVE  /\ Drawn(u) \in CeremonyRow
           /\ Drawn(u).status = "open" /\ Drawn(u).by = {} /\ Drawn(u).user = u
  BY PasskeyAssumption DEF PasskeyTypeOK, Drawn, CeremonyRow

\* invalidate ends ceremonies and changes nothing else.
LEMMA InvalidateType ==
    ASSUME PasskeyTypeOK, NEW u, invalidate(u)
    PROVE  /\ steps' \in [Ceremonies -> CeremonyRow]
           /\ \A t \in Ceremonies : /\ steps'[t].user = steps[t].user
                                    /\ steps'[t].by = steps[t].by
<1>1. \A t \in Ceremonies : steps[t] \in CeremonyRow
  BY DEF PasskeyTypeOK
<1> QED BY <1>1, StatusChange DEF invalidate

-----------------------------------------------------------------------------
(* Steps that leave rows and enrollers alone *)

\* Nothing is enrolled, removed or accepted; a ceremony is drawn or ends.
Settled ==
    /\ UNCHANGED <<passkeys, kind, enroller, accepted>>
    /\ \A t \in Ceremonies : steps'[t].by # {} =>
         steps'[t].by = steps[t].by /\ steps'[t].user = steps[t].user

\* Such a step preserves what is said of rows and processes.
LEMMA SettledKeeps ==
    ASSUME PasskeyInv, Settled
    PROVE  /\ RowsAreOwned' /\ SpeakersAreEnrolled' /\ SpeaksForEnroller'
           /\ CounterIsLatest' /\ CopiesAreNoticed'
<1>1. RowsAreOwned' /\ CounterIsLatest' /\ CopiesAreNoticed'
  BY DEF PasskeyInv, Settled, RowsAreOwned, CounterIsLatest, CopiesAreNoticed, NoRow
<1>2. ASSUME NEW t \in Ceremonies, NEW c \in Credentials, c \in steps'[t].by
      PROVE  enroller'[c] # Nobody /\ enroller'[c] = steps'[t].user
  BY <1>2 DEF PasskeyInv, Settled, SpeakersAreEnrolled, SpeaksForEnroller
<1> QED BY <1>1, <1>2 DEF SpeakersAreEnrolled, SpeaksForEnroller

\* The status of an enrolment is set once, to "open", and never back.
EnrolmentsProceed ==
    \A t \in Ceremonies :
      /\ enrolments[t].status # "none" => enrolments'[t].status # "none"
      /\ enrolments[t].status = "used" => enrolments'[t].status = "used"
      /\ enrolments'[t].status # "none" =>
           \/ enrolments'[t].user \in Users
           \/ /\ enrolments[t].status # "none"
              /\ enrolments'[t].user = enrolments[t].user

\* What is said of answers holds on while none is added and no key is lost.
LEMMA AnswersKeep ==
    ASSUME PasskeyInv, UNCHANGED <<answers, enroller>>, EnrolmentsProceed,
           \A c \in Credentials : Made(c) => Made(c)'
    PROVE  KeysAreMadeOnce' /\ EnrolmentIsSpent' /\ EnrolmentsAreOwned'
<1>1. \A a \in answers : a.key \in Credentials /\ a.challenge \in Ceremonies
  BY DEF PasskeyInv, Answer
<1>2. KeysAreMadeOnce'
  BY <1>1 DEF PasskeyInv, KeysAreMadeOnce, EnrolmentsProceed
<1>3. EnrolmentIsSpent'
  BY <1>1 DEF PasskeyInv, KeysAreMadeOnce, EnrolmentIsSpent, EnrolmentsProceed
<1>4. EnrolmentsAreOwned'
  BY DEF PasskeyInv, EnrolmentsAreOwned, EnrolmentsProceed
<1> QED BY <1>2, <1>3, <1>4

\* A ceremony begins.
LEMMA DrawKeeps ==
    ASSUME PasskeyInv, NEW u \in Users \cup {Nobody}, NEW t \in Ceremonies,
           CreateChallenge(u, t) \/ (u \in Users /\ StartPasskey(u, t))
    PROVE  PasskeyInv'
<1>1. PasskeyTypeOK
  BY DEF PasskeyInv
<1>2. Drawn(u) \in CeremonyRow /\ Drawn(u).status = "open" /\ Drawn(u).by = {} /\ Drawn(u).user = u
  BY <1>1, DrawnType
<1>3. enrolments[t].status = "none" /\ steps[t].by = {}
  BY RowTypes DEF Fresh, CreateChallenge, StartPasskey
<1>4. CASE CreateChallenge(u, t)
  <2>1. PasskeyTypeOK' /\ (answers \subseteq Answer)'
    BY <1>1, <1>2, <1>4 DEF PasskeyInv, PasskeyTypeOK, CreateChallenge
  <2>2. Settled
    BY <1>1, <1>2, <1>4 DEF CreateChallenge, Settled, PasskeyTypeOK
  <2>3. EnrolmentsProceed /\ UNCHANGED <<answers, enroller, keys>>
    BY <1>4 DEF CreateChallenge, EnrolmentsProceed
  <2>4. KeysAreMadeOnce' /\ EnrolmentIsSpent' /\ EnrolmentsAreOwned'
    BY <2>3, AnswersKeep DEF Made
  <2> QED BY <2>1, <2>2, <2>4, SettledKeeps DEF PasskeyInv
<1>5. CASE u \in Users /\ StartPasskey(u, t)
  <2>1. PasskeyTypeOK' /\ (answers \subseteq Answer)'
    BY <1>1, <1>2, <1>5 DEF PasskeyInv, PasskeyTypeOK, StartPasskey
  <2>2. Settled
    BY <1>5 DEF StartPasskey, Settled
  <2>3. EnrolmentsProceed /\ UNCHANGED <<answers, enroller, keys>>
    BY <1>1, <1>2, <1>3, <1>5 DEF StartPasskey, EnrolmentsProceed, PasskeyTypeOK
  <2>4. KeysAreMadeOnce' /\ EnrolmentIsSpent' /\ EnrolmentsAreOwned'
    BY <2>3, AnswersKeep DEF Made
  <2> QED BY <2>1, <2>2, <2>4, SettledKeeps DEF PasskeyInv
<1> QED BY <1>4, <1>5

\* Expired ceremonies end.
LEMMA CleanupKeeps ==
    ASSUME PasskeyInv, CleanupPasskeys
    PROVE  PasskeyInv'
<1> DEFINE swept(row) == IF row.status = "open" /\ row.exp < clock
                         THEN [row EXCEPT !.status = "ended"] ELSE row
<1>1. PasskeyTypeOK
  BY DEF PasskeyInv
<1>2. ASSUME NEW row \in CeremonyRow
      PROVE  /\ swept(row) \in CeremonyRow
             /\ swept(row).by = row.by /\ swept(row).user = row.user
             /\ row.status # "none" <=> swept(row).status # "none"
             /\ row.status = "used" => swept(row).status = "used"
  BY <1>2, StatusChange
<1>3. /\ enrolments' = [t \in Ceremonies |-> swept(enrolments[t])]
      /\ steps' = [t \in Ceremonies |-> swept(steps[t])]
      /\ UNCHANGED <<clock, blocked, passkeys, kind, keys, answers, enroller, accepted>>
  BY DEF CleanupPasskeys
<1> HIDE DEF swept
<1>4. \A t \in Ceremonies : enrolments[t] \in CeremonyRow /\ steps[t] \in CeremonyRow
  BY <1>1 DEF PasskeyTypeOK
<1>5. PasskeyTypeOK' /\ (answers \subseteq Answer)'
  BY <1>1, <1>2, <1>3, <1>4 DEF PasskeyInv, PasskeyTypeOK
<1>6. Settled
  BY <1>2, <1>3, <1>4 DEF Settled
<1>7. EnrolmentsProceed
  BY <1>2, <1>3, <1>4 DEF EnrolmentsProceed
<1>8. KeysAreMadeOnce' /\ EnrolmentIsSpent' /\ EnrolmentsAreOwned'
  BY <1>3, <1>7, AnswersKeep DEF Made
<1> QED BY <1>5, <1>6, <1>8, SettledKeeps DEF PasskeyInv

\* Copies of keys, blocked users and the clock change no row.
LEMMA OutsideKeeps ==
    ASSUME PasskeyInv,
           \/ \E d, e \in Devices, c \in Credentials : Copy(d, e, c)
           \/ \E u \in Users : Block(u)
           \/ Elapse
           \/ UNCHANGED passkeyVars
    PROVE  PasskeyInv'
<1>1. PasskeyTypeOK
  BY DEF PasskeyInv
<1>2. CASE \E d, e \in Devices, c \in Credentials : Copy(d, e, c)
  <2>1. PICK d \in Devices, e \in Devices, c \in Credentials : Copy(d, e, c)
    BY <1>2
  <2>2. /\ keys' \in [Devices -> [Credentials -> Counts \cup {-1}]]
        /\ \A x \in Credentials : Made(x) => Made(x)'
    BY <1>1, <2>1 DEF Copy, PasskeyTypeOK, Made
  <2>3. PasskeyTypeOK' /\ (answers \subseteq Answer)'
    BY <1>1, <2>1, <2>2 DEF PasskeyInv, PasskeyTypeOK, Copy
  <2>4. Settled /\ EnrolmentsProceed /\ UNCHANGED <<answers, enroller>>
    BY <2>1 DEF Copy, Settled, EnrolmentsProceed
  <2>5. KeysAreMadeOnce' /\ EnrolmentIsSpent' /\ EnrolmentsAreOwned'
    BY <2>2, <2>4, AnswersKeep
  <2> QED BY <2>3, <2>4, <2>5, SettledKeeps DEF PasskeyInv
<1>3. CASE (\E u \in Users : Block(u)) \/ Elapse \/ UNCHANGED passkeyVars
  <2>1. PasskeyTypeOK' /\ (answers \subseteq Answer)'
    BY <1>1, <1>3, PasskeyAssumption DEF PasskeyInv, PasskeyTypeOK, Block, Elapse, passkeyVars
  <2>2. Settled /\ EnrolmentsProceed /\ UNCHANGED <<answers, enroller, keys>>
    BY <1>3 DEF Block, Elapse, passkeyVars, Settled, EnrolmentsProceed
  <2>3. KeysAreMadeOnce' /\ EnrolmentIsSpent' /\ EnrolmentsAreOwned'
    BY <2>2, AnswersKeep DEF Made
  <2> QED BY <2>1, <2>2, <2>3, SettledKeeps DEF PasskeyInv
<1> QED BY <1>2, <1>3

-----------------------------------------------------------------------------
(* Authenticators *)

\* A new key has no enroller and no answer yet.
LEMMA MakeKeeps ==
    ASSUME PasskeyInv, NEW d \in Devices, NEW c \in Credentials, NEW t \in Ceremonies,
           Make(d, c, t)
    PROVE  PasskeyInv'
<1> DEFINE new == [kind |-> "create", key |-> c, challenge |-> t, count |-> 0]
<1>1. PasskeyTypeOK
  BY DEF PasskeyInv
<1>2. /\ answers' = answers \cup {new} /\ keys' = [keys EXCEPT ![d][c] = 0]
      /\ ~Made(c) /\ enrolments[t].status = "open"
      /\ UNCHANGED <<clock, blocked, passkeys, enrolments, steps, kind, enroller, accepted>>
  BY DEF Make, Made
<1>3. 0 \in Counts
  BY PasskeyAssumption DEF Counts
<1>4. new \in Answer
  BY <1>3 DEF Answer
<1>5. /\ keys' \in [Devices -> [Credentials -> Counts \cup {-1}]]
      /\ Made(c)' /\ \A x \in Credentials : Made(x) => Made(x)'
  BY <1>1, <1>2, <1>3 DEF PasskeyTypeOK, Made
<1>6. PasskeyTypeOK' /\ (answers \subseteq Answer)'
  BY <1>1, <1>2, <1>4, <1>5 DEF PasskeyInv, PasskeyTypeOK
<1>7. Settled
  BY <1>2 DEF Settled
<1>8. /\ \A a \in answers : a.key \in Credentials /\ a.challenge \in Ceremonies
      /\ \A a \in answers : a.kind = "create" => a.key # c
      /\ enroller[c] = Nobody
  BY <1>2 DEF PasskeyInv, Answer, KeysAreMadeOnce, EnrolmentIsSpent
<1>9. KeysAreMadeOnce'
  BY <1>2, <1>5, <1>8 DEF PasskeyInv, KeysAreMadeOnce
<1>10. EnrolmentIsSpent'
  BY <1>2, <1>5, <1>8 DEF PasskeyInv, EnrolmentIsSpent
<1>11. EnrolmentsAreOwned'
  BY <1>2 DEF PasskeyInv, EnrolmentsAreOwned
<1> QED BY <1>6, <1>7, <1>9, <1>10, <1>11, SettledKeeps DEF PasskeyInv

\* A signature adds an answer that enrols nothing.
LEMMA SignKeeps ==
    ASSUME PasskeyInv, NEW d \in Devices, NEW c \in Credentials, NEW t \in Ceremonies,
           Sign(d, c, t)
    PROVE  PasskeyInv'
<1> DEFINE n == IF kind[c].counts THEN keys[d][c] + 1 ELSE 0
           new == [kind |-> "get", key |-> c, challenge |-> t, count |-> n]
<1>1. PasskeyTypeOK
  BY DEF PasskeyInv
<1>2. /\ answers' = answers \cup {new} /\ keys' = [keys EXCEPT ![d][c] = n]
      /\ keys[d][c] \in 0 .. MaxSigns - 1
      /\ UNCHANGED <<clock, blocked, passkeys, enrolments, steps, kind, enroller, accepted>>
  BY DEF Sign
<1>3. n \in Counts
  BY <1>2, PasskeyAssumption DEF Counts
<1> HIDE DEF n
<1>4. new \in Answer /\ new.kind = "get"
  BY <1>3 DEF Answer
<1>5. n # -1
  BY <1>3, PasskeyAssumption DEF Counts
<1>6. /\ keys' \in [Devices -> [Credentials -> Counts \cup {-1}]]
      /\ \A x \in Credentials : Made(x) => Made(x)'
  BY <1>1, <1>2, <1>3, <1>5 DEF PasskeyTypeOK, Made
<1>7. PasskeyTypeOK' /\ (answers \subseteq Answer)'
  BY <1>1, <1>2, <1>4, <1>6 DEF PasskeyInv, PasskeyTypeOK
<1>8. Settled
  BY <1>2 DEF Settled
<1>9. \A a \in answers : a.key \in Credentials
  BY DEF PasskeyInv, Answer
<1>10. KeysAreMadeOnce'
  BY <1>2, <1>4, <1>6, <1>9 DEF PasskeyInv, KeysAreMadeOnce
<1>11. EnrolmentIsSpent'
  BY <1>2, <1>4, <1>6 DEF PasskeyInv, EnrolmentIsSpent
<1>12. EnrolmentsAreOwned'
  BY <1>2 DEF PasskeyInv, EnrolmentsAreOwned
<1> QED BY <1>7, <1>8, <1>10, <1>11, <1>12, SettledKeeps DEF PasskeyInv

-----------------------------------------------------------------------------
(* Registration, removal and use *)

\* What RegisterPasskey may rely on: the credential was never enrolled.
LEMMA RegistersOnce ==
    ASSUME PasskeyInv, NEW t \in Ceremonies, NEW a \in answers, RegisterPasskey(t, a)
    PROVE  /\ a \in Answer /\ a.key \in Credentials /\ a.count \in Counts
           /\ a.kind = "create" /\ a.challenge = t
           /\ enroller[a.key] = Nobody /\ passkeys[a.key] = NoRow
           /\ enrolments[t].user \in Users /\ enrolments[t] \in CeremonyRow
<1>1. a \in Answer /\ a.key \in Credentials /\ a.count \in Counts
  BY DEF PasskeyInv, Answer
<1>2. /\ a.kind = "create" /\ a.challenge = t /\ passkeys[a.key] = NoRow
      /\ enrolments[t].status = "open"
  BY DEF RegisterPasskey, VerifyRegistration, Open
<1>3. enroller[a.key] = Nobody
  BY <1>2 DEF PasskeyInv, EnrolmentIsSpent
<1> QED BY <1>1, <1>2, <1>3 DEF PasskeyInv, PasskeyTypeOK, EnrolmentsAreOwned

\* RegisterPasskey gives a credential its first and only enroller.
LEMMA RegisterKeeps ==
    ASSUME PasskeyInv, NEW t \in Ceremonies, NEW a \in answers, RegisterPasskey(t, a)
    PROVE  PasskeyInv'
<1> DEFINE u == enrolments[t].user
           c == a.key
<1>1. PasskeyTypeOK
  BY DEF PasskeyInv
<1>2. /\ a \in Answer /\ c \in Credentials /\ a.count \in Counts
      /\ a.kind = "create" /\ a.challenge = t
      /\ enroller[c] = Nobody /\ passkeys[c] = NoRow
      /\ u \in Users /\ enrolments[t] \in CeremonyRow
  BY RegistersOnce
<1>3. /\ passkeys' = [passkeys EXCEPT ![c] = [user |-> u, count |-> a.count]]
      /\ enroller' = [enroller EXCEPT ![c] = u]
      /\ enrolments' = [enrolments EXCEPT ![t].status = "used"]
      /\ invalidate(u)
      /\ UNCHANGED <<clock, blocked, kind, keys, answers, accepted>>
  BY DEF RegisterPasskey
<1> HIDE DEF u, c
<1>4. /\ [user |-> u, count |-> a.count] \in PasskeyRow
      /\ [enrolments[t] EXCEPT !.status = "used"] \in CeremonyRow
      /\ [enrolments[t] EXCEPT !.status = "used"].status = "used"
      /\ [enrolments[t] EXCEPT !.status = "used"].user = u
  BY <1>2, RowTypes, StatusChange DEF u
<1>5. /\ steps' \in [Ceremonies -> CeremonyRow]
      /\ \A s \in Ceremonies : steps'[s].user = steps[s].user /\ steps'[s].by = steps[s].by
  BY <1>1, <1>3, InvalidateType
<1>6. PasskeyTypeOK' /\ (answers \subseteq Answer)'
  BY <1>1, <1>2, <1>3, <1>4, <1>5 DEF PasskeyInv, PasskeyTypeOK
<1>7. EnrolmentsProceed
  BY <1>1, <1>2, <1>3, <1>4 DEF PasskeyTypeOK, EnrolmentsProceed
<1>8. /\ enroller'[c] = u /\ u # Nobody
      /\ \A x \in Credentials : x # c => enroller'[x] = enroller[x]
  BY <1>1, <1>2, <1>3, PasskeyAssumption DEF PasskeyTypeOK
<1>9. \A b \in answers : b.key \in Credentials /\ b.challenge \in Ceremonies
  BY DEF PasskeyInv, Answer
<1>10. KeysAreMadeOnce' /\ EnrolmentsAreOwned'
  <2>1. \A x \in Credentials : Made(x)' <=> Made(x)
    BY <1>3 DEF Made
  <2> QED BY <1>3, <1>7, <1>9, <2>1
          DEF PasskeyInv, KeysAreMadeOnce, EnrolmentsAreOwned, EnrolmentsProceed
<1>11. EnrolmentIsSpent'
  <2>1. \A x \in Credentials : enroller'[x] # Nobody => Made(x)'
    BY <1>2, <1>3, <1>8 DEF PasskeyInv, EnrolmentIsSpent, KeysAreMadeOnce, Made, c
  <2>2. ASSUME NEW b \in answers, b.kind = "create", enroller'[b.key] # Nobody
        PROVE  enrolments'[b.challenge].status = "used"
    <3>1. CASE b.key = c
      <4>1. b.challenge = t
        BY <1>2, <2>2, <3>1 DEF PasskeyInv, KeysAreMadeOnce, c
      <4> QED BY <1>1, <1>3, <1>4, <4>1 DEF PasskeyTypeOK
    <3>2. CASE b.key # c
      BY <1>7, <1>8, <1>9, <2>2, <3>2 DEF PasskeyInv, EnrolmentIsSpent, EnrolmentsProceed
    <3> QED BY <3>1, <3>2
  <2> QED BY <1>3, <2>1, <2>2 DEF EnrolmentIsSpent
<1>12. RowsAreOwned'
  BY <1>1, <1>2, <1>3, <1>8 DEF PasskeyInv, PasskeyTypeOK, RowsAreOwned, NoRow
<1>13. SpeakersAreEnrolled' /\ SpeaksForEnroller'
  BY <1>2, <1>5, <1>8 DEF PasskeyInv, SpeakersAreEnrolled, SpeaksForEnroller
<1>14. CounterIsLatest' /\ CopiesAreNoticed'
  BY <1>1, <1>2, <1>3, <1>8
  DEF PasskeyInv, PasskeyTypeOK, CounterIsLatest, CopiesAreNoticed, NoRow
<1> QED BY <1>6, <1>10, <1>11, <1>12, <1>13, <1>14 DEF PasskeyInv

\* DeletePasskey takes a row away; its enroller is remembered.
LEMMA DeleteKeeps ==
    ASSUME PasskeyInv, NEW u \in Users, NEW c \in Credentials, DeletePasskey(u, c)
    PROVE  PasskeyInv'
<1>1. PasskeyTypeOK
  BY DEF PasskeyInv
<1>2. /\ passkeys' = [passkeys EXCEPT ![c] = IF @.user = u THEN NoRow ELSE @]
      /\ invalidate(u)
      /\ UNCHANGED <<clock, blocked, enrolments, kind, keys, answers, enroller, accepted>>
  BY DEF DeletePasskey
<1>3. /\ steps' \in [Ceremonies -> CeremonyRow]
      /\ \A s \in Ceremonies : steps'[s].user = steps[s].user /\ steps'[s].by = steps[s].by
  BY <1>1, <1>2, InvalidateType
<1>4. /\ passkeys' \in [Credentials -> PasskeyRow]
      /\ \A x \in Credentials : passkeys'[x] \in {NoRow, passkeys[x]}
  BY <1>1, <1>2, RowTypes DEF PasskeyTypeOK
<1>5. PasskeyTypeOK' /\ (answers \subseteq Answer)'
  BY <1>1, <1>2, <1>3, <1>4 DEF PasskeyInv, PasskeyTypeOK
<1>6. KeysAreMadeOnce' /\ EnrolmentIsSpent' /\ EnrolmentsAreOwned'
  BY <1>2, AnswersKeep DEF EnrolmentsProceed, Made
<1>7. RowsAreOwned' /\ CounterIsLatest' /\ CopiesAreNoticed'
  BY <1>2, <1>4 DEF PasskeyInv, RowsAreOwned, CounterIsLatest, CopiesAreNoticed, NoRow
<1>8. SpeakersAreEnrolled' /\ SpeaksForEnroller'
  BY <1>2, <1>3 DEF PasskeyInv, SpeakersAreEnrolled, SpeaksForEnroller
<1> QED BY <1>5, <1>6, <1>7, <1>8 DEF PasskeyInv

\* An answer is accepted: its credential has a row, of the account it names,
\* and the counter of a device-bound key goes on.
LEMMA AttemptKeeps ==
    ASSUME PasskeyInv, NEW t \in Ceremonies, NEW a \in answers, NEW u \in Users,
           Attempt(t, a, u)
    PROVE  PasskeyInv'
<1> DEFINE c == a.key
           n == a.count
           row == passkeys[c]
<1>1. PasskeyTypeOK
  BY DEF PasskeyInv
<1>2. c \in Credentials /\ n \in Counts /\ row \in PasskeyRow /\ steps[t] \in CeremonyRow
  BY <1>1 DEF PasskeyInv, Answer, PasskeyTypeOK
<1>3. /\ row.user = u
      /\ ~(CloneWarning(c, n) /\ ~kind[c].synced)
      /\ passkeys' = IF CloneWarning(c, n) THEN passkeys
                     ELSE [passkeys EXCEPT ![c].count = n]
      /\ steps' = [steps EXCEPT ![t].user = u, ![t].status = "used", ![t].by = {c}]
      /\ accepted' = [accepted EXCEPT ![c][n] = IF @ < 2 THEN @ + 1 ELSE @]
      /\ UNCHANGED <<clock, blocked, enrolments, kind, keys, answers, enroller>>
  BY DEF Attempt, verifyPasskey, VerifyAuthentication, Candidate, passkeyAccount
<1>4. CloneWarning(c, n) <=> n <= row.count /\ (n # 0 \/ row.count # 0)
  BY DEF CloneWarning
<1> HIDE DEF c, n
<1>5. row # NoRow /\ enroller[c] = u /\ u # Nobody /\ row.count \in Counts
  BY <1>2, <1>3, RowTypes, PasskeyAssumption DEF PasskeyInv, RowsAreOwned
<1>6. [row EXCEPT !.count = n] = [user |-> u, count |-> n]
  BY <1>2, <1>3, <1>5 DEF PasskeyRow
<1>7. /\ passkeys' \in [Credentials -> PasskeyRow]
      /\ \A x \in Credentials : x # c => passkeys'[x] = passkeys[x]
      /\ passkeys'[c].user = u /\ passkeys'[c] # NoRow
      /\ passkeys'[c].count = IF CloneWarning(c, n) THEN row.count ELSE n
  BY <1>1, <1>2, <1>3, <1>5, <1>6, RowTypes DEF PasskeyTypeOK
<1>8. /\ steps' \in [Ceremonies -> CeremonyRow]
      /\ steps'[t].user = u /\ steps'[t].by = {c}
      /\ \A s \in Ceremonies : s # t => steps'[s] = steps[s]
  BY <1>1, <1>2, <1>3 DEF PasskeyTypeOK, CeremonyRow
<1>9. /\ accepted' \in [Credentials -> [Counts -> 0 .. 2]]
      /\ \A x \in Credentials, k \in Counts :
           x # c \/ k # n => accepted'[x][k] = accepted[x][k]
      /\ accepted[c][n] = 0 => accepted'[c][n] = 1
  BY <1>1, <1>2, <1>3 DEF PasskeyTypeOK
<1>10. PasskeyTypeOK' /\ (answers \subseteq Answer)'
  BY <1>1, <1>3, <1>7, <1>8, <1>9 DEF PasskeyInv, PasskeyTypeOK
<1>11. KeysAreMadeOnce' /\ EnrolmentIsSpent' /\ EnrolmentsAreOwned'
  BY <1>3, AnswersKeep DEF EnrolmentsProceed, Made
<1>12. RowsAreOwned'
  BY <1>3, <1>5, <1>7 DEF PasskeyInv, RowsAreOwned, NoRow
<1>13. SpeakersAreEnrolled' /\ SpeaksForEnroller'
  BY <1>3, <1>5, <1>8 DEF PasskeyInv, SpeakersAreEnrolled, SpeaksForEnroller
<1>14. ASSUME n # 0, ~kind[c].synced
       PROVE  /\ row.count < n /\ passkeys'[c].count = n
              /\ accepted[c][n] = 0
  <2>1. ~(n <= row.count)
    BY <1>3, <1>4, <1>14
  <2>2. row.count < n
    BY <1>2, <1>5, <2>1 DEF Counts
  <2>3. passkeys'[c].count = n
    BY <1>4, <1>7, <2>1
  <2>4. accepted[c][n] = 0
    BY <1>2, <1>5, <1>14, <2>1 DEF PasskeyInv, CounterIsLatest
  <2> QED BY <2>2, <2>3, <2>4
<1>15. CounterIsLatest'
  <2> SUFFICES ASSUME NEW x \in Credentials, NEW k \in Counts \ {0}, accepted'[x][k] # 0
               PROVE  /\ enroller'[x] # Nobody
                      /\ passkeys'[x] # NoRow /\ ~kind'[x].synced
                           => k <= passkeys'[x].count
    BY DEF CounterIsLatest, NoRow
  <2>1. CASE x # c
    BY <1>3, <1>7, <1>9, <2>1 DEF PasskeyInv, CounterIsLatest
  <2>2. CASE x = c
    <3>1. ASSUME ~kind[c].synced PROVE k <= passkeys'[c].count
      <4>1. CASE n = 0
        <5>1. accepted[c][k] # 0
          BY <1>2, <1>9, <2>2, <4>1
        <5>2. k <= row.count
          BY <1>2, <1>5, <3>1, <5>1 DEF PasskeyInv, CounterIsLatest
        <5>3. row.count # 0
          BY <5>2, <1>5 DEF Counts
        <5>4. CloneWarning(c, n)
          BY <1>4, <1>5, <4>1, <5>3 DEF Counts
        <5> QED BY <1>3, <3>1, <5>4
      <4>2. CASE n # 0
        <5>1. row.count < n /\ passkeys'[c].count = n
          BY <1>14, <3>1, <4>2
        <5>2. CASE k = n
          BY <1>2, <5>1, <5>2 DEF Counts
        <5>3. CASE k # n
          <6>1. k <= row.count
            BY <1>2, <1>5, <1>9, <2>2, <3>1, <5>3 DEF PasskeyInv, CounterIsLatest
          <6> QED BY <1>2, <1>5, <5>1, <6>1 DEF Counts
        <5> QED BY <5>2, <5>3
      <4> QED BY <4>1, <4>2
    <3> QED BY <1>3, <1>5, <2>2, <3>1
  <2> QED BY <2>1, <2>2
<1>16. CopiesAreNoticed'
  <2> SUFFICES ASSUME NEW x \in Credentials, NEW k \in Counts \ {0}, ~kind'[x].synced
               PROVE  accepted'[x][k] <= 1
    BY DEF CopiesAreNoticed
  <2>1. CASE x # c \/ k # n
    BY <1>3, <1>9, <2>1 DEF PasskeyInv, CopiesAreNoticed
  <2>2. CASE x = c /\ k = n
    BY <1>3, <1>9, <1>14, <2>2
  <2> QED BY <2>1, <2>2
<1> QED BY <1>10, <1>11, <1>12, <1>13, <1>15, <1>16 DEF PasskeyInv

-----------------------------------------------------------------------------
(* The theorems *)

\* Before the first ceremony nothing was enrolled, signed or accepted.
LEMMA PasskeyInitially == PasskeyInit => PasskeyInv
<1> SUFFICES ASSUME PasskeyInit PROVE PasskeyInv
  OBVIOUS
<1>1. PasskeyTypeOK /\ answers \subseteq Answer
  BY RowTypes, PasskeyAssumption DEF PasskeyInit, PasskeyTypeOK, Counts
<1>2. /\ KeysAreMadeOnce /\ EnrolmentIsSpent /\ RowsAreOwned /\ EnrolmentsAreOwned
      /\ SpeakersAreEnrolled /\ SpeaksForEnroller /\ CounterIsLatest /\ CopiesAreNoticed
  BY RowTypes DEF PasskeyInit, KeysAreMadeOnce, EnrolmentIsSpent, EnrolmentsAreOwned,
     RowsAreOwned, SpeakersAreEnrolled, SpeaksForEnroller, CounterIsLatest,
     CopiesAreNoticed
<1> QED BY <1>1, <1>2 DEF PasskeyInv

\* Every transaction, and every step of a device, keeps the invariant.
LEMMA PasskeyStep == PasskeyInv /\ [PasskeyNext]_passkeyVars => PasskeyInv'
<1> SUFFICES ASSUME PasskeyInv, [PasskeyNext]_passkeyVars PROVE PasskeyInv'
  OBVIOUS
<1>1. ASSUME NEW u \in Users, NEW t \in Ceremonies, StartPasskey(u, t)
      PROVE  PasskeyInv'
  BY <1>1, DrawKeeps
<1>2. ASSUME NEW u \in Users \cup {Nobody}, NEW t \in Ceremonies, CreateChallenge(u, t)
      PROVE  PasskeyInv'
  BY <1>2, DrawKeeps
<1>3. ASSUME NEW t \in Ceremonies, NEW a \in answers, RegisterPasskey(t, a)
      PROVE  PasskeyInv'
  BY <1>3, RegisterKeeps
<1>4. ASSUME NEW t \in Ceremonies, NEW a \in answers, NEW u \in Users, Attempt(t, a, u)
      PROVE  PasskeyInv'
  BY <1>4, AttemptKeeps
<1>5. ASSUME NEW u \in Users, NEW c \in Credentials, DeletePasskey(u, c)
      PROVE  PasskeyInv'
  BY <1>5, DeleteKeeps
<1>6. ASSUME NEW d \in Devices, NEW c \in Credentials, NEW t \in Ceremonies,
             Make(d, c, t) \/ Sign(d, c, t)
      PROVE  PasskeyInv'
  BY <1>6, MakeKeeps, SignKeeps
<1>7. CASE \/ \E d, e \in Devices, c \in Credentials : Copy(d, e, c)
           \/ \E u \in Users : Block(u)
           \/ Elapse
           \/ UNCHANGED passkeyVars
  BY <1>7, OutsideKeeps
<1>8. CASE CleanupPasskeys
  BY <1>8, CleanupKeeps
<1> QED BY <1>1, <1>2, <1>3, <1>4, <1>5, <1>6, <1>7, <1>8 DEF PasskeyNext

\* The invariant holds in every state the ceremonies of passkeys.go can reach.
THEOREM PasskeyInvariance == PasskeySpec => []PasskeyInv
<1> QED BY PasskeyInitially, PasskeyStep, PTL DEF PasskeySpec

\* Whatever account is named beside an answer and whatever was enrolled and
\* removed meanwhile, verifyPasskey binds a process only to the account that
\* enrolled the credential.
THEOREM EnrollerTheorem == PasskeySpec => []SpeaksForEnroller
<1>1. PasskeyInv => SpeaksForEnroller
  BY DEF PasskeyInv
<1> QED BY <1>1, PasskeyInvariance, PTL

\* However many copies of a device-bound key sign, VerifyAuthentication accepts
\* each count once.
THEOREM CopiesTheorem == PasskeySpec => []CopiesAreNoticed
<1>1. PasskeyInv => CopiesAreNoticed
  BY DEF PasskeyInv
<1> QED BY <1>1, PasskeyInvariance, PTL

\* No answer brings a removed passkey back, because RegisterPasskey deletes
\* the request it uses and a key answers one request.
THEOREM RemovalTheorem == PasskeySpec => RemovedStaysRemoved
<1>1. ASSUME PasskeyInv, [PasskeyNext]_passkeyVars, NEW c \in Credentials,
             enroller[c] # Nobody, passkeys[c] = NoRow
      PROVE  passkeys'[c] = NoRow
  <2>1. PasskeyTypeOK
    BY <1>1 DEF PasskeyInv
  <2>2. ASSUME NEW t \in Ceremonies, NEW a \in answers, RegisterPasskey(t, a)
        PROVE  passkeys'[c] = NoRow
    <3>1. a.key # c
      BY <1>1, <2>2, RegistersOnce
    <3> QED BY <1>1, <2>1, <2>2, <3>1 DEF RegisterPasskey, PasskeyTypeOK
  <2>3. ASSUME NEW t \in Ceremonies, NEW a \in answers, NEW u \in Users, Attempt(t, a, u)
        PROVE  passkeys'[c] = NoRow
    <3>1. passkeys[a.key].user = u
      BY <2>3 DEF Attempt, verifyPasskey, VerifyAuthentication, Candidate, passkeyAccount
    <3>2. a.key # c
      BY <1>1, <3>1, RowTypes, PasskeyAssumption
    <3> QED BY <1>1, <2>1, <2>3, <3>2 DEF Attempt, verifyPasskey, PasskeyTypeOK
  <2>4. ASSUME NEW u \in Users, NEW d \in Credentials, DeletePasskey(u, d)
        PROVE  passkeys'[c] = NoRow
    BY <1>1, <2>1, <2>4 DEF DeletePasskey, PasskeyTypeOK
  <2>5. CASE UNCHANGED passkeys
    BY <1>1, <2>5
  <2> QED BY <1>1, <2>2, <2>3, <2>4, <2>5 DEF PasskeyNext, passkeyVars, StartPasskey,
         CreateChallenge, Make, Sign, Copy, Block, CleanupPasskeys, Elapse
<1>2. PasskeyInv /\ [PasskeyNext]_passkeyVars =>
        [\A c \in Credentials :
           (enroller[c] # Nobody /\ passkeys[c] = NoRow) => passkeys'[c] = NoRow]_passkeyVars
  BY <1>1
<1> QED BY <1>2, PasskeyInvariance, PTL DEF PasskeySpec, RemovedStaysRemoved

-----------------------------------------------------------------------------
(* Counters of honest keys *)

\* No two devices have the key.
Sole(c) == \A d, e \in Devices : keys[d][c] # -1 /\ keys[e][c] # -1 => d = e

\* A signature is no further than some device has counted; the counter of a
\* key that counts has left zero.
CountsAreSigned ==
    \A a \in answers :
      IF a.kind = "get"
      THEN /\ IF kind[a.key].counts THEN a.count # 0 ELSE a.count = 0
           /\ \E d \in Devices : a.count <= keys[d][a.key]
      ELSE a.count = 0

\* A sole device counts on with every signature.
SoleKeysCountOn ==
    \A a, b \in answers :
      /\ a.kind = "get" /\ b.kind = "get" /\ a.key = b.key /\ a.count = b.count
      /\ kind[a.key].counts /\ Sole(a.key)
      => a = b

\* A stored counter comes from a signature whose challenge is used up.
CounterWasSigned ==
    \A c \in Credentials : passkeys[c].count # 0 =>
      \E a \in answers : /\ a.kind = "get" /\ a.key = c /\ a.count = passkeys[c].count
                         /\ steps[a.challenge].status = "used"

HonestInv == CountsAreSigned /\ SoleKeysCountOn /\ CounterWasSigned

\* What the invariant says is enough: a last signature is ahead of the counter.
LEMMA HonestPass == PasskeyInv /\ HonestInv => HonestKeysPass
<1> SUFFICES ASSUME PasskeyInv, HonestInv, NEW t \in Ceremonies, NEW a \in answers,
                    Open(steps[t]), a.kind = "get", a.challenge = t,
                    passkeys[a.key] # NoRow,
                    kind[a.key].synced \/ ~kind[a.key].counts \/ LastOfSoleKey(a)
             PROVE  VerifyAuthentication(t, a, passkeys[a.key].user)
  BY DEF HonestKeysPass
<1> DEFINE c == a.key
           s == passkeys[c].count
<1>1. a \in Answer /\ c \in Credentials /\ a.count \in Counts
  BY DEF PasskeyInv, Answer
<1>2. passkeys[c] \in PasskeyRow /\ s \in Counts
  BY <1>1, RowTypes DEF PasskeyInv, PasskeyTypeOK
<1>3. Candidate(a, passkeys[c].user)
  BY <1>1 DEF Candidate, passkeyAccount
<1>4. ASSUME ~kind[c].synced, CloneWarning(c, a.count) PROVE FALSE
  <2>1. a.count <= s /\ (a.count # 0 \/ s # 0)
    BY <1>4 DEF CloneWarning
  <2>2. s # 0
    BY <1>1, <1>2, <2>1, PasskeyAssumption DEF Counts
  <2>3. PICK b \in answers : /\ b.kind = "get" /\ b.key = c /\ b.count = s
                             /\ steps[b.challenge].status = "used"
    BY <1>1, <2>2 DEF HonestInv, CounterWasSigned
  <2>4. kind[c].counts
    BY <2>2, <2>3 DEF HonestInv, CountsAreSigned
  <2>5. PICK d \in Devices : /\ a.count = keys[d][c]
                             /\ \A e \in Devices \ {d} : keys[e][c] = -1
    BY <1>4, <2>4 DEF LastOfSoleKey
  <2>6. Sole(c)
    BY <2>5 DEF Sole
  <2>7. PICK e \in Devices : s <= keys[e][c]
    BY <2>3 DEF HonestInv, CountsAreSigned
  <2>8. e = d
    BY <1>2, <2>5, <2>7, PasskeyAssumption DEF Counts
  <2>9. a.count = s
    BY <1>1, <1>2, <2>1, <2>5, <2>7, <2>8, PasskeyAssumption DEF Counts
  <2>10. a = b
    BY <2>3, <2>4, <2>6, <2>9 DEF HonestInv, SoleKeysCountOn
  <2> QED BY <2>3, <2>10 DEF Open
<1> QED BY <1>3, <1>4 DEF VerifyAuthentication

\* Steps without a device: what was signed stays signed, used challenges stay
\* used, and a counter stays or goes back to zero.
LEMMA HonestRest ==
    ASSUME PasskeyInv, HonestInv, UNCHANGED <<answers, kind, keys>>,
           \A t \in Ceremonies : steps[t].status = "used" => steps'[t].status = "used",
           \A c \in Credentials : passkeys'[c].count \in {0, passkeys[c].count}
    PROVE  HonestInv'
<1>1. \A a \in answers : a.challenge \in Ceremonies
  BY DEF PasskeyInv, Answer
<1>2. CountsAreSigned'
  BY DEF HonestInv, CountsAreSigned
<1>3. SoleKeysCountOn'
  BY DEF HonestInv, SoleKeysCountOn, Sole
<1>4. CounterWasSigned'
  BY <1>1 DEF HonestInv, CounterWasSigned
<1> QED BY <1>2, <1>3, <1>4 DEF HonestInv

\* invalidate ends open ceremonies only.
LEMMA InvalidateUsed ==
    ASSUME PasskeyTypeOK, NEW u, invalidate(u), NEW t \in Ceremonies,
           steps[t].status = "used"
    PROVE  steps'[t].status = "used"
BY DEF invalidate

\* The counters stay honest in every step.
LEMMA HonestStep == PasskeyInv /\ HonestInv /\ [PasskeyNext]_passkeyVars => HonestInv'
<1> SUFFICES ASSUME PasskeyInv, HonestInv, [PasskeyNext]_passkeyVars PROVE HonestInv'
  OBVIOUS
<1>1. PasskeyTypeOK
  BY DEF PasskeyInv
<1>a. \A a \in answers : a.key \in Credentials /\ a.challenge \in Ceremonies /\ a.count \in Counts
  BY DEF PasskeyInv, Answer
<1>2. ASSUME NEW t \in Ceremonies, NEW u,
             StartPasskey(u, t) \/ CreateChallenge(u, t)
      PROVE  HonestInv'
  <2>1. \A s \in Ceremonies : steps[s].status = "used" => steps'[s].status = "used"
    BY <1>1, <1>2, RowTypes DEF StartPasskey, CreateChallenge, Fresh, PasskeyTypeOK
  <2> QED BY <1>2, <2>1, HonestRest DEF StartPasskey, CreateChallenge
<1>3. ASSUME NEW t \in Ceremonies, NEW a \in answers, RegisterPasskey(t, a)
      PROVE  HonestInv'
  <2>1. a.count = 0 /\ a.key \in Credentials
    BY <1>3, RegistersOnce DEF HonestInv, CountsAreSigned
  <2>2. passkeys' = [passkeys EXCEPT ![a.key] = [user |-> enrolments[t].user, count |-> a.count]]
    BY <1>3 DEF RegisterPasskey
  <2>3. \A c \in Credentials : passkeys'[c].count \in {0, passkeys[c].count}
    BY <1>1, <2>1, <2>2 DEF PasskeyTypeOK
  <2>4. \A s \in Ceremonies : steps[s].status = "used" => steps'[s].status = "used"
    BY <1>1, <1>3, InvalidateUsed DEF RegisterPasskey
  <2> QED BY <1>3, <2>3, <2>4, HonestRest DEF RegisterPasskey
<1>4. ASSUME NEW u \in Users, NEW c \in Credentials, DeletePasskey(u, c)
      PROVE  HonestInv'
  <2>1. \A x \in Credentials : passkeys'[x].count \in {0, passkeys[x].count}
    BY <1>1, <1>4 DEF DeletePasskey, PasskeyTypeOK, NoRow
  <2>2. \A s \in Ceremonies : steps[s].status = "used" => steps'[s].status = "used"
    BY <1>1, <1>4, InvalidateUsed DEF DeletePasskey
  <2> QED BY <1>4, <2>1, <2>2, HonestRest DEF DeletePasskey
<1>5. ASSUME NEW t \in Ceremonies, NEW a \in answers, NEW u \in Users, Attempt(t, a, u)
      PROVE  HonestInv'
  <2>1. /\ a.kind = "get" /\ a.challenge = t /\ passkeys[a.key].user = u
        /\ passkeys' = IF CloneWarning(a.key, a.count) THEN passkeys
                       ELSE [passkeys EXCEPT ![a.key].count = a.count]
        /\ steps' = [steps EXCEPT ![t].user = u, ![t].status = "used", ![t].by = {a.key}]
        /\ UNCHANGED <<answers, kind, keys>>
    BY <1>5 DEF Attempt, verifyPasskey, VerifyAuthentication, Candidate, passkeyAccount
  <2>2. /\ steps'[t].status = "used"
        /\ \A s \in Ceremonies : steps[s].status = "used" => steps'[s].status = "used"
    BY <1>1, <2>1 DEF PasskeyTypeOK, CeremonyRow
  <2>3. \A x \in Credentials : x # a.key => passkeys'[x] = passkeys[x]
    BY <1>1, <2>1 DEF PasskeyTypeOK
  <2>4. passkeys'[a.key].count \in {a.count, passkeys[a.key].count}
    BY <1>1, <1>a, <2>1, RowTypes DEF PasskeyTypeOK, PasskeyRow, NoRow
  <2>5. CounterWasSigned'
    <3> SUFFICES ASSUME NEW c \in Credentials, passkeys'[c].count # 0
                 PROVE  \E b \in answers' :
                          /\ b.kind = "get" /\ b.key = c /\ b.count = passkeys'[c].count
                          /\ steps'[b.challenge].status = "used"
      BY DEF CounterWasSigned
    <3>1. CASE c = a.key /\ passkeys'[c].count = a.count
      BY <2>1, <2>2, <3>1
    <3>2. CASE passkeys'[c].count = passkeys[c].count
      <4>1. PICK b \in answers : /\ b.kind = "get" /\ b.key = c
                                 /\ b.count = passkeys[c].count
                                 /\ steps[b.challenge].status = "used"
        BY <3>2 DEF HonestInv, CounterWasSigned
      <4>2. steps'[b.challenge].status = "used" /\ b \in answers'
        BY <1>a, <2>1, <2>2, <4>1
      <4> QED BY <3>2, <4>1, <4>2
    <3> QED BY <2>3, <2>4, <3>1, <3>2
  <2>6. CountsAreSigned' /\ SoleKeysCountOn'
    BY <2>1 DEF HonestInv, CountsAreSigned, SoleKeysCountOn, Sole
  <2> QED BY <2>5, <2>6 DEF HonestInv
<1>6. ASSUME NEW d \in Devices, NEW c \in Credentials, NEW t \in Ceremonies, Make(d, c, t)
      PROVE  HonestInv'
  <2> DEFINE new == [kind |-> "create", key |-> c, challenge |-> t, count |-> 0]
  <2>1. /\ answers' = answers \cup {new} /\ keys' = [keys EXCEPT ![d][c] = 0]
        /\ \A e \in Devices : keys[e][c] = -1
        /\ UNCHANGED <<passkeys, steps, kind>>
    BY <1>6 DEF Make
  <2>2. new.kind = "create" /\ new.count = 0
    OBVIOUS
  <2> HIDE DEF new
  <2>3. \A e \in Devices, x \in Credentials :
          IF e = d /\ x = c THEN keys'[e][x] = 0 ELSE keys'[e][x] = keys[e][x]
    BY <1>1, <2>1 DEF PasskeyTypeOK
  <2>4. ASSUME NEW a \in answers, a.kind = "get" PROVE a.key # c
    BY <1>a, <2>1, <2>4, PasskeyAssumption DEF HonestInv, CountsAreSigned, Counts
  <2>5. CountsAreSigned'
    <3> SUFFICES ASSUME NEW a \in answers'
                 PROVE  IF a.kind = "get"
                        THEN /\ IF kind'[a.key].counts THEN a.count # 0 ELSE a.count = 0
                             /\ \E e \in Devices : a.count <= keys'[e][a.key]
                        ELSE a.count = 0
      BY DEF CountsAreSigned
    <3>1. CASE a = new
      BY <2>2, <3>1
    <3>2. CASE a \in answers
      BY <1>a, <2>1, <2>3, <2>4, <3>2 DEF HonestInv, CountsAreSigned
    <3> QED BY <2>1, <3>1, <3>2
  <2>6. SoleKeysCountOn'
    <3> SUFFICES ASSUME NEW a \in answers', NEW b \in answers',
                        a.kind = "get", b.kind = "get", a.key = b.key, a.count = b.count,
                        kind'[a.key].counts, Sole(a.key)'
                 PROVE  a = b
      BY DEF SoleKeysCountOn
    <3>1. a \in answers /\ b \in answers
      BY <2>1, <2>2
    <3>2. Sole(a.key)
      BY <1>a, <2>3, <2>4, <3>1 DEF Sole
    <3> QED BY <2>1, <3>1, <3>2 DEF HonestInv, SoleKeysCountOn
  <2>7. CounterWasSigned'
    BY <2>1 DEF HonestInv, CounterWasSigned
  <2> QED BY <2>5, <2>6, <2>7 DEF HonestInv
<1>7. ASSUME NEW d \in Devices, NEW c \in Credentials, NEW t \in Ceremonies, Sign(d, c, t)
      PROVE  HonestInv'
  <2> DEFINE n == IF kind[c].counts THEN keys[d][c] + 1 ELSE 0
             new == [kind |-> "get", key |-> c, challenge |-> t, count |-> n]
  <2>1. /\ answers' = answers \cup {new} /\ keys' = [keys EXCEPT ![d][c] = n]
        /\ keys[d][c] \in 0 .. MaxSigns - 1
        /\ UNCHANGED <<passkeys, steps, kind>>
    BY <1>7 DEF Sign
  <2>2. /\ IF kind[c].counts THEN n = keys[d][c] + 1 /\ n # 0 ELSE n = 0
        /\ n \in Counts
    BY <2>1, PasskeyAssumption DEF Counts
  <2> HIDE DEF n
  <2>3. new.kind = "get" /\ new.count = n /\ new.key = c
    OBVIOUS
  <2> HIDE DEF new
  <2>4. \A e \in Devices, x \in Credentials :
          IF e = d /\ x = c THEN keys'[e][x] = n ELSE keys'[e][x] = keys[e][x]
    BY <1>1, <2>1 DEF PasskeyTypeOK
  <2>5. ASSUME NEW a \in answers, a.kind = "get"
        PROVE  \E e \in Devices : a.count <= keys'[e][a.key]
    <3>1. PICK e \in Devices : a.count <= keys[e][a.key]
      BY <2>5 DEF HonestInv, CountsAreSigned
    <3>2. CASE e = d /\ a.key = c
      <4>1. a.count <= n
        BY <1>a, <2>1, <2>2, <2>5, <3>1, <3>2, PasskeyAssumption
        DEF HonestInv, CountsAreSigned, Counts
      <4> QED BY <2>4, <3>2, <4>1
    <3>3. CASE ~(e = d /\ a.key = c)
      BY <1>a, <2>4, <3>1, <3>3
    <3> QED BY <3>2, <3>3
  <2>6. CountsAreSigned'
    <3> SUFFICES ASSUME NEW a \in answers'
                 PROVE  IF a.kind = "get"
                        THEN /\ IF kind'[a.key].counts THEN a.count # 0 ELSE a.count = 0
                             /\ \E e \in Devices : a.count <= keys'[e][a.key]
                        ELSE a.count = 0
      BY DEF CountsAreSigned
    <3>1. CASE a = new
      <4>1. n <= keys'[d][c]
        BY <2>2, <2>4, PasskeyAssumption DEF Counts
      <4> QED BY <2>1, <2>2, <2>3, <3>1, <4>1
    <3>2. CASE a \in answers
      BY <2>1, <2>5, <3>2 DEF HonestInv, CountsAreSigned
    <3> QED BY <2>1, <3>1, <3>2
  <2>7. \A x \in Credentials : Sole(x)' => Sole(x)
    BY <1>1, <2>1, <2>2, <2>4, PasskeyAssumption DEF Sole, Counts, PasskeyTypeOK
  <2>8. ASSUME NEW b \in answers, b.kind = "get", b.key = c, b.count = n,
               kind[c].counts, Sole(c)
        PROVE  FALSE
    <3>1. PICK e \in Devices : b.count <= keys[e][c]
      BY <2>8 DEF HonestInv, CountsAreSigned
    <3>2. keys[e][c] # -1 /\ keys[d][c] # -1
      BY <2>1, <2>2, <2>8, <3>1, PasskeyAssumption DEF Counts
    <3>3. e = d
      BY <2>8, <3>2 DEF Sole
    <3> QED BY <2>1, <2>2, <2>8, <3>1, <3>3, PasskeyAssumption
  <2>9. SoleKeysCountOn'
    <3> SUFFICES ASSUME NEW a \in answers', NEW b \in answers',
                        a.kind = "get", b.kind = "get", a.key = b.key, a.count = b.count,
                        kind'[a.key].counts, Sole(a.key)'
                 PROVE  a = b
      BY DEF SoleKeysCountOn
    <3>1. CASE a \in answers /\ b \in answers
      <4>1. Sole(a.key)
        BY <1>a, <2>7, <3>1
      <4> QED BY <2>1, <3>1, <4>1 DEF HonestInv, SoleKeysCountOn
    <3>2. CASE a = new \/ b = new
      <4>1. kind[c].counts /\ Sole(c)
        BY <2>1, <2>3, <2>7, <3>2
      <4> QED BY <2>1, <2>3, <2>8, <3>2, <4>1
    <3> QED BY <2>1, <3>1, <3>2
  <2>10. CounterWasSigned'
    BY <2>1 DEF HonestInv, CounterWasSigned
  <2> QED BY <2>6, <2>9, <2>10 DEF HonestInv
<1>8. ASSUME NEW d \in Devices, NEW e \in Devices, NEW c \in Credentials, Copy(d, e, c)
      PROVE  HonestInv'
  <2>1. /\ keys' = [keys EXCEPT ![e][c] = keys[d][c]]
        /\ keys[d][c] # -1 /\ keys[e][c] = -1
        /\ UNCHANGED <<passkeys, steps, kind, answers>>
    BY <1>8 DEF Copy
  <2>2. \A f \in Devices, x \in Credentials :
          IF f = e /\ x = c THEN keys'[f][x] = keys[d][c] ELSE keys'[f][x] = keys[f][x]
    BY <1>1, <2>1 DEF PasskeyTypeOK
  <2>3. ASSUME NEW a \in answers, NEW f \in Devices, a.count <= keys[f][a.key]
        PROVE  a.count <= keys'[f][a.key]
    <3>1. keys[d][c] \in Counts
      BY <1>1, <2>1 DEF PasskeyTypeOK
    <3> QED BY <1>a, <2>1, <2>2, <2>3, <3>1, PasskeyAssumption DEF Counts
  <2>4. CountsAreSigned'
    BY <2>1, <2>3 DEF HonestInv, CountsAreSigned
  <2>5. \A x \in Credentials : Sole(x)' => Sole(x)
    BY <2>1, <2>2 DEF Sole
  <2>6. SoleKeysCountOn'
    BY <1>a, <2>1, <2>5 DEF HonestInv, SoleKeysCountOn
  <2>7. CounterWasSigned'
    BY <2>1 DEF HonestInv, CounterWasSigned
  <2> QED BY <2>4, <2>6, <2>7 DEF HonestInv
<1>9. CASE CleanupPasskeys
  <2>1. \A s \in Ceremonies : steps[s].status = "used" => steps'[s].status = "used"
    BY <1>9 DEF CleanupPasskeys
  <2> QED BY <1>9, <2>1, HonestRest DEF CleanupPasskeys
<1>10. CASE (\E u \in Users : Block(u)) \/ Elapse \/ UNCHANGED passkeyVars
  <2>1. UNCHANGED <<passkeys, steps, kind, keys, answers>>
    BY <1>10 DEF Block, Elapse, passkeyVars
  <2> QED BY <2>1, HonestRest
<1> QED BY <1>2, <1>3, <1>4, <1>5, <1>6, <1>7, <1>8, <1>9, <1>10 DEF PasskeyNext

\* The check of sign counters in VerifyAuthentication turns no honest key away,
\* for any number of keys, devices and signatures delivered in any order.
THEOREM HonestTheorem == PasskeySpec => []HonestKeysPass
<1>1. PasskeyInit => HonestInv
  BY DEF PasskeyInit, HonestInv, CountsAreSigned, SoleKeysCountOn, CounterWasSigned, NoRow
<1> QED BY <1>1, HonestPass, HonestStep, PasskeyInvariance, PTL DEF PasskeySpec
=============================================================================
