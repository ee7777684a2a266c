------------------------------ MODULE PrevProofs ----------------------------
(***************************************************************************)
(* Proofs about the previous service, for every number of users, requests, *)
(* replicas, addresses and tokens, and every lifetime.  Some fifty steps   *)
(* of requests do one of a few things to the tables: StepEffects reduces   *)
(* PrevNext to these effects, and each invariant is carried over the       *)
(* effects that touch what it speaks of (the Frame lemmas say which).      *)
(***************************************************************************)
EXTENDS PrevService, FiniteSetTheorems, WellFoundedInduction, TLAPS

-----------------------------------------------------------------------------
(* What the tables and the requests in flight look like *)

Token == 1 .. MaxTokens

\* Every account has a way in.
Account == {row \in Row : Methods(row) # {}}

ResetRow == [code : Token, user : Users, used : BOOLEAN, expires : Nat]

SessionRow == [id : Token, user : Users, token : Token, expires : Nat]

StateRow == [token : Token, provider : Providers, expires : Nat]

ProofRow == [token : Token, user : Users, expires : Nat]

IdToken == [token : Token, subject : Subjects, at : Nat]

Letter == [token : Token, email : Emails, stage : {"verify", "old", "new", "reset"}]

Delivery ==
    [token : Token, user : Users, stage : {"verify", "old", "new"}, email : Emails,
     expires : Nat, next : Nat]

Trim == [kind : {"trim"}, user : Users, id : Token]

Link == [kind : {"firebase"}, user : Users, email : Emails]

Publication == [kind : {"publish", "mark"}, msg : ProfileEvents]

SignUpCall ==
    [op : {"SignUp"}, step : {"create", "verify"}, email : Emails, password : Passwords]

VerifyCall ==
    [op : {"SignUp", "Resend"}, step : {"bind"}, user : Users, email : Emails,
     password : Option(Passwords)]

PasswordCall == [op : {"ChangePassword"}, step : {"write"}, user : Users, new : Passwords]

RequestResetCall ==
    [op : {"RequestReset"}, step : {"clean", "find", "insert"}, user : Users, email : Emails]

ResetCall ==
    [op : {"ResetPassword"}, step : {"write"}, user : Users, code : Option(Token),
     new : Passwords]

NameCall == [op : {"SetUsername"}, step : {"write"}, user : Users, name : Names]

DisconnectCall ==
    [op : {"Disconnect"}, step : {"write"}, user : Users, provider : Providers]

ConnectCall ==
    [op : {"Connect"}, step : {"connect"}, user : Users, provider : Providers,
     subject : Subjects]

ByEmailCall ==
    [op : {"SignInProvider"}, step : {"byEmail"}, user : {None}, provider : Providers,
     subject : Subjects, email : Option(Emails)]

CreateCall ==
    [op : {"SignInProvider"}, step : {"create"}, user : {None}, provider : Providers,
     subject : Subjects, email : Emails]

IdentityCall ==
    [op : {"SignInProvider"}, step : {"connect", "session"}, user : Users,
     provider : Providers, subject : Subjects, email : Option(Emails)]

SessionCall == [op : {"SignIn"}, step : {"session"}, user : Users]

ImportCall == [op : {"SignIn"}, step : {"import"}, email : Emails, password : Passwords]

RefreshCall == [op : {"Refresh"}, step : {"rotate", "delete"}, token : Token]

Issued == {i.token : i \in issued}

\* Only an id token is taken to ConsumeReauthentication.
ChangeCall ==
    [op : {"ChangeEmail"}, step : {"consume"}, user : Users, email : Emails, token : Issued]
        \cup [op : {"ChangeEmail"}, step : {"read"}, user : Users, email : Emails,
              token : Option(Issued)]

BindCall ==
    [op : {"ChangeEmail"}, step : {"bind"}, user : Users, email : Emails, old : Emails]

DeletionCall ==
    [op : {"RequestDeletion"}, step : {"consume"}, user : Users, shared : BOOLEAN,
     token : Issued]
        \cup [op : {"RequestDeletion"}, step : {"read", "write"}, user : Users,
              shared : BOOLEAN, token : Option(Issued)]

UpdateCall == [op : {"UpdateDeletion"}, step : {"write"}, user : Users, shared : BOOLEAN]

CancelCall == [op : {"CancelDeletion"}, step : {"write"}, user : Users]

Call ==
    UNION {{Idle, Done}, SignUpCall, VerifyCall, PasswordCall, RequestResetCall, ResetCall,
           NameCall, DisconnectCall, ConnectCall, ByEmailCall, CreateCall, IdentityCall,
           SessionCall, ImportCall, RefreshCall, ChangeCall, BindCall, DeletionCall,
           UpdateCall, CancelCall}

AccountsTyped ==
    /\ users \in [Users -> Account \cup {None}]
    /\ requests \in [Users -> Request \cup {None}]
    /\ \A u \in activation : u \in Users /\ Exists(u)

ProofsTyped ==
    /\ resets \subseteq ResetRow /\ sessions \subseteq SessionRow
    /\ states \subseteq StateRow /\ proofs \subseteq ProofRow /\ issued \subseteq IdToken
    /\ now \in 0 .. MaxTime /\ fresh \in 0 .. MaxTokens /\ spent \in [Token -> 0 .. 2]

MailTyped ==
    /\ \A b \in bindings : b \in Binding /\ Exists(b.user)
    /\ deliveries \subseteq Delivery /\ mailbox \subseteq Letter
    /\ courier \in [Replicas -> Delivery \cup {None}]

WorkTyped ==
    /\ outbox \subseteq ProfileEvents
    /\ work \subseteq Trim \cup Link \cup Publication
    /\ doomed \in [Replicas -> SUBSET Users]

CallsTyped == calls \in [Callers -> Call]

TypeInv == AccountsTyped /\ ProofsTyped /\ MailTyped /\ WorkTyped /\ CallsTyped

-----------------------------------------------------------------------------
(* One-time tokens *)

Kinds == {"reset", "session", "state", "binding", "idToken"}

\* The tokens that rows have, used or not.
Bearing ==
    [reset |-> {r.code : r \in resets}, session |-> {s.token : s \in sessions},
     state |-> {s.token : s \in states}, binding |-> {b.token : b \in bindings},
     idToken |-> Issued]

\* The tokens that can still be used, id tokens apart.
Usable ==
    UNION {{r.code : r \in {x \in resets : ~x.used}}, {s.token : s \in sessions},
           {s.token : s \in states}, {b.token : b \in bindings}}

\* The tokens of the mails that are queued or have arrived.
Posted == {d.token : d \in deliveries} \cup {m.token : m \in mailbox}

\* What has not been drawn is nowhere.
TokensAreDrawn ==
    /\ \A t \in Token : t > fresh => spent[t] = 0
    /\ \A k \in Kinds : \A t \in Bearing[k] : t <= fresh

\* A token means one thing.
TokensMeanOneThing ==
    \A k, l \in Kinds : \A t \in Bearing[k] : t \in Bearing[l] => k = l

\* What is mailed was drawn, and not as an id token.
LettersAreDrawn == \A t \in Posted : t <= fresh /\ t \notin Issued

\* ... and stands in one row.
TokensAreKeys ==
    /\ \A x, y \in resets : x.code = y.code => x = y
    /\ \A x, y \in sessions : x.token = y.token => x = y
    /\ \A x, y \in states : x.token = y.token => x = y
    /\ \A x, y \in bindings : x.token = y.token => x = y
    /\ \A x, y \in issued : x.token = y.token => x = y

\* What can still be used was not used.
UsableIsUnspent == \A t \in Usable : spent[t] = 0

\* An id token that was accepted is remembered until it may be forgotten.
AcceptedIsRemembered ==
    \A i \in issued :
        /\ i.at <= now + Skew
        /\ \/ spent[i.token] = 0
           \/ /\ spent[i.token] = 1
              /\ \E p \in proofs : p.token = i.token /\ p.expires + Skew >= i.at + ProofTtl
           \/ MayBeForgotten(i)

\* What is not an id token was used once at most.
OthersSpentOnce == \A t \in Token : t \in Issued \/ spent[t] <= 1

TokenInv ==
    /\ TokensAreDrawn /\ TokensMeanOneThing /\ TokensAreKeys /\ UsableIsUnspent
    /\ OthersSpentOnce

-----------------------------------------------------------------------------
(* Proofs of addresses *)

\* The mailbox that must answer.
Address(b) == IF b.stage = "old" THEN b.old ELSE b.email

\* A delivery that has not expired belongs to a proof the account waits for.
DeliveriesAreBound ==
    \A d \in deliveries : Live(d) =>
        \E b \in bindings : /\ b.token = d.token /\ b.user = d.user
                            /\ b.stage = d.stage /\ b.expires = d.expires

\* What a worker holds is in the table, and no other worker holds it.
HeldIsQueued ==
    /\ \A r \in Replicas : courier[r] # None => courier[r] \in deliveries
    /\ \A q, r \in Replicas : courier[q] = courier[r] /\ courier[q] # None => q = r

\* A mail goes to the mailbox that the proof it carries asks.
LettersAreAddressed ==
    \A b \in bindings :
        /\ \A d \in deliveries : d.token = b.token => d.stage = b.stage /\ d.email = Address(b)
        /\ \A m \in mailbox : m.token = b.token => m.stage = b.stage /\ m.email = Address(b)

\* The last proof of a change exists once the old mailbox has answered.
OldMailboxAnswered ==
    \A b \in bindings : b.stage = "new" =>
        \E m \in mailbox : m.stage = "old" /\ m.email = b.old /\ spent[m.token] = 1

LetterInv == LettersAreDrawn /\ LettersAreAddressed /\ OldMailboxAnswered

MailInv == HeldIsQueued /\ DeliveriesAreBound /\ LetterInv

-----------------------------------------------------------------------------
(* Sessions *)

Trims == {w \in work : w.kind = "trim"}

\* A session and the trim it started are known by the token the session began with.
SessionsAreCounted ==
    /\ IsFiniteSet(sessions) /\ IsFiniteSet(Trims)
    /\ \A x, y \in sessions : x.id = y.id => x = y
    /\ \A s \in sessions : s.id <= fresh
    /\ \A w \in Trims : w.id <= fresh

SessionInv == SessionsAreCounted /\ SessionsAreBounded

-----------------------------------------------------------------------------
(* Requests in flight *)

\* Operation and step of a request tell what it has with it.
LEMMA CallShapes ==
    ASSUME NEW call \in Call
    PROVE
        /\ call.op = "SignUp" /\ call.step \in {"create", "verify"} => call \in SignUpCall
        /\ call.op = "SignUp" /\ call.step = "bind" => call \in VerifyCall
        /\ call.op = "Resend" => call \in VerifyCall
        /\ call.op = "ChangePassword" => call \in PasswordCall
        /\ call.op = "RequestReset" => call \in RequestResetCall
        /\ call.op = "ResetPassword" => call \in ResetCall
        /\ call.op = "SetUsername" => call \in NameCall
        /\ call.op = "Disconnect" => call \in DisconnectCall
        /\ call.op = "Connect" => call \in ConnectCall
        /\ call.op = "SignInProvider" /\ call.step = "byEmail" => call \in ByEmailCall
        /\ call.op = "SignInProvider" /\ call.step = "create" => call \in CreateCall
        /\ call.op = "SignInProvider" /\ call.step \in {"connect", "session"} => call \in IdentityCall
        /\ call.op = "SignIn" /\ call.step = "session" => call \in SessionCall
        /\ call.op = "SignIn" /\ call.step = "import" => call \in ImportCall
        /\ call.op = "Refresh" => call \in RefreshCall
        /\ call.op = "ChangeEmail" /\ call.step \in {"consume", "read"} => call \in ChangeCall
        /\ call.op = "ChangeEmail" /\ call.step = "bind" => call \in BindCall
        /\ call.op = "RequestDeletion" => call \in DeletionCall
        /\ call.op = "UpdateDeletion" => call \in UpdateCall
        /\ call.op = "CancelDeletion" => call \in CancelCall
    BY DEF Call, Idle, Done, SignUpCall, VerifyCall, PasswordCall, RequestResetCall, ResetCall,
               NameCall, DisconnectCall, ConnectCall, ByEmailCall, CreateCall, IdentityCall,
               SessionCall, ImportCall, RefreshCall, ChangeCall, BindCall, DeletionCall,
               UpdateCall, CancelCall

\* A request that begins, goes on or ends leaves the other requests alone.
LEMMA CallsKept ==
    ASSUME CallsTyped, NEW c \in Callers, NEW call \in Call,
           calls' = [calls EXCEPT ![c] = call]
    PROVE  calls' \in [Callers -> Call]
    BY DEF CallsTyped

\* A request that ended.
LEMMA ReturnKeepsCalls ==
    ASSUME CallsTyped, NEW c \in Callers, Return(c)
    PROVE  calls' \in [Callers -> Call]
    BY CallsKept DEF Return, Call


\* A request about an account keeps its shape.
LEMMA AccountRequests ==
    ASSUME TypeInv, NEW c \in Callers,
           \/ SignUp(c) \/ SignUpCreate(c) \/ Verify(c) \/ Resend(c) \/ ChangePassword(c)
           \/ RequestReset(c) \/ RemoveOutdatedResets(c) \/ FindReset(c) \/ InsertReset(c)
           \/ ResetPassword(c) \/ SetUsername(c)
           \/ DeleteGoogleConnection(c) \/ DeleteVkConnection(c)
    PROVE  calls' \in [Callers -> Call]
<1>. USE CallsKept, ReturnKeepsCalls DEF TypeInv
<1>1. calls[c] \in Call
    BY DEF CallsTyped
<1>2. CASE SignUp(c)
    BY <1>2 DEF SignUp, Begin, SignUpInput, SignUpRequest, ValidEmail, ValidPassword,
                Call, SignUpCall
<1>3. CASE SignUpCreate(c)
    <2>1. calls[c] \in SignUpCall
        BY <1>1, <1>3, CallShapes DEF SignUpCreate, At
    <2>2. [calls[c] EXCEPT !.step = "verify"] \in Call
        BY <2>1 DEF SignUpCall, Call
    <2>3. Goto(c, "verify") \/ Return(c)
        BY <1>3 DEF SignUpCreate
    <2>. QED
        BY <2>2, <2>3 DEF Goto
<1>4. CASE Verify(c)
    <2>1. calls[c] \in SignUpCall
        BY <1>1, <1>4, CallShapes DEF Verify, At
    <2>. DEFINE found == {u \in ByEmail(calls[c].email) : ~users[u].activated /\ ~users[u].blocked}
                next == [op |-> "SignUp", step |-> "bind", user |-> CHOOSE u \in found : TRUE,
                         email |-> calls[c].email, password |-> calls[c].password]
    <2>2. found # {} => (CHOOSE u \in found : TRUE) \in Users
        BY DEF ByEmail
    <2>3. found # {} => next \in Call
        BY <2>1, <2>2 DEF SignUpCall, VerifyCall, Call, Option
    <2>4. Return(c) \/ (found # {} /\ calls' = [calls EXCEPT ![c] = next])
        BY <1>4 DEF Verify, CallsTyped
    <2>. QED
        BY <2>3, <2>4
<1>5. CASE Resend(c)
    <2>1. PICK q \in VerifyEmailInput : \E u \in ByEmail(q.email) :
              Begin(c, [op |-> "Resend", step |-> "bind", user |-> u, email |-> q.email,
                        password |-> None])
        BY <1>5 DEF Resend
    <2>2. q.email \in Emails
        BY DEF VerifyEmailInput, StartEmailBindingRequest, ValidEmail
    <2>. QED
        BY <2>1, <2>2 DEF Begin, ByEmail, Call, VerifyCall, Option
<1>6. CASE ChangePassword(c)
    BY <1>6 DEF ChangePassword, Begin, ChangePasswordInput, ChangePasswordRequest,
                ValidPassword, Parsed, Ids, Call, PasswordCall
<1>7. CASE RequestReset(c)
    <2>1. PICK q \in RequestPasswordResetInput : \E u \in ByIdentifiers(q) :
              Begin(c, [op |-> "RequestReset", step |-> "clean", user |-> u,
                        email |-> users[u].email])
        BY <1>7 DEF RequestReset
    <2>2. \A u \in ByIdentifiers(q) : u \in Users /\ users[u].email \in Emails
        BY DEF ByIdentifiers, ByEmail, ByName, Exists, AccountsTyped, Account, Row
    <2>. QED
        BY <2>1, <2>2 DEF Begin, Call, RequestResetCall
<1>8. CASE RemoveOutdatedResets(c)
    <2>1. calls[c] \in RequestResetCall
        BY <1>1, <1>8, CallShapes DEF RemoveOutdatedResets, At
    <2>2. [calls[c] EXCEPT !.step = "find"] \in Call
        BY <2>1 DEF RequestResetCall, Call
    <2>. QED
        BY <1>8, <2>2 DEF RemoveOutdatedResets, Goto
<1>9. CASE FindReset(c)
    <2>1. calls[c] \in RequestResetCall
        BY <1>1, <1>9, CallShapes DEF FindReset, At
    <2>2. [calls[c] EXCEPT !.step = "insert"] \in Call
        BY <2>1 DEF RequestResetCall, Call
    <2>3. Goto(c, "insert") \/ Return(c)
        BY <1>9 DEF FindReset
    <2>. QED
        BY <2>2, <2>3 DEF Goto
<1>10. CASE InsertReset(c)
    BY <1>10 DEF InsertReset
<1>11. CASE ResetPassword(c)
    <2>1. PICK q \in ResetPasswordInput :
              \E u \in IF q.user = None THEN GetPasswordResetUser(q.code) ELSE {q.user} :
                  Begin(c, [op |-> "ResetPassword", step |-> "write", user |-> u,
                            code |-> q.code, new |-> q.new])
        BY <1>11 DEF ResetPassword
    <2>2. q.new \in Passwords /\ q.user \in Option(Users)
        BY DEF ResetPasswordInput, ResetPasswordRequest, ValidPassword, Parsed, Ids, Option
    <2>3. q.code \in Option(Mailed)
        BY DEF ResetPasswordInput, ResetPasswordRequest
    <2>4. Mailed \subseteq Token
        BY DEF Mailed, MailTyped, Letter
    <2>5. GetPasswordResetUser(q.code) \subseteq Users
        BY DEF GetPasswordResetUser, ProofsTyped, ResetRow
    <2>. QED
        BY <2>1, <2>2, <2>3, <2>4, <2>5 DEF Begin, Call, ResetCall, Option
<1>12. CASE SetUsername(c)
    BY <1>12 DEF SetUsername, Begin, SetUsernameInput, SetUsernameRequest, ValidUsername,
                 Parsed, Ids, Call, NameCall
<1>13. CASE DeleteGoogleConnection(c)
    BY <1>13, RowAssumption DEF DeleteGoogleConnection, Begin, ToDisconnect, Parsed, Ids,
        DeleteGoogleConnectionInput, DeleteGoogleConnectionRequest, Call, DisconnectCall
<1>14. CASE DeleteVkConnection(c)
    BY <1>14, RowAssumption DEF DeleteVkConnection, Begin, ToDisconnect, Parsed, Ids,
        DeleteVkConnectionInput, DeleteVkConnectionRequest, Call, DisconnectCall
<1>. QED
    BY <1>2, <1>3, <1>4, <1>5, <1>6, <1>7, <1>8, <1>9, <1>10, <1>11, <1>12, <1>13, <1>14

\* What providers say is typed.
LEMMA InfoTyped ==
    ASSUME NEW info \in GoogleInfo \cup VkInfo
    PROVE  info.subject \in Subjects /\ info.email \in Option(Emails)
    BY DEF GoogleInfo, VkInfo, Option

\* The step after a provider's answer.
LEMMA HandleInfoKeepsCalls ==
    ASSUME TypeInv, NEW c \in Callers, NEW p \in Providers, NEW info,
           info.subject \in Subjects, info.email \in Option(Emails), HandleInfo(c, p, info)
    PROVE  calls' \in [Callers -> Call]
<1>1. \/ \E u \in Users :
            Begin(c, [op |-> "SignInProvider", step |-> "session", user |-> u, provider |-> p,
                      subject |-> info.subject, email |-> info.email])
      \/ Begin(c, [op |-> "SignInProvider", step |-> "byEmail", user |-> None, provider |-> p,
                   subject |-> info.subject, email |-> info.email])
    BY DEF HandleInfo, BySubject
<1>. QED
    BY <1>1, CallsKept DEF TypeInv, Begin, Call, IdentityCall, ByEmailCall

\* A request of a provider flow, of a sign-in or of a session keeps its shape.
LEMMA SessionRequests ==
    ASSUME TypeInv, NEW c \in Callers,
           \/ ConnectGoogle(c) \/ ConnectGoogleToken(c) \/ ConnectVk(c)
           \/ SignInGoogle(c) \/ SignInVk(c) \/ SignInGoogleToken(c) \/ ByEmailStep(c)
           \/ ConnectTx(c) \/ CreateTx(c)
           \/ SignIn(c) \/ ImportFirebase(c) \/ ImportTx(c) \/ Refresh(c)
    PROVE  calls' \in [Callers -> Call]
<1>. USE CallsKept, ReturnKeepsCalls DEF TypeInv
<1>1. calls[c] \in Call
    BY DEF CallsTyped
<1>2. CASE ConnectGoogle(c)
    <2>1. PICK q \in ConnectGoogleInput, info \in GoogleInfo :
              \/ Begin(c, ToConnect(q.user, "google", info.subject))
              \/ Return(c)
        BY <1>2 DEF ConnectGoogle, ProviderFails
    <2>2. q.user \in Users
        BY DEF ConnectGoogleInput, ConnectGoogleRequest, Parsed, Ids
    <2>. QED
        BY <2>1, <2>2, InfoTyped, RowAssumption DEF Begin, ToConnect, Call, ConnectCall
<1>3. CASE ConnectGoogleToken(c)
    <2>1. PICK q \in ConnectGoogleInput :
              /\ q.idToken # None
              /\ \E info \in GetUserInfoByIdToken(q.idToken) :
                     Begin(c, ToConnect(q.user, "google", info.subject))
        BY <1>3 DEF ConnectGoogleToken
    <2>2. q.user \in Users /\ q.idToken \in issued
        BY <2>1 DEF ConnectGoogleInput, ConnectGoogleRequest, Parsed, Ids, Option
    <2>3. q.idToken.subject \in Subjects
        BY <2>2 DEF ProofsTyped, IdToken
    <2>. QED
        BY <2>1, <2>2, <2>3, RowAssumption
        DEF GetUserInfoByIdToken, Begin, ToConnect, Call, ConnectCall
<1>4. CASE ConnectVk(c)
    <2>1. PICK q \in ConnectVkInput, info \in VkInfo :
              \/ Begin(c, ToConnect(q.user, "vk", info.subject))
              \/ Return(c)
        BY <1>4 DEF ConnectVk, ProviderFails
    <2>2. q.user \in Users
        BY DEF ConnectVkInput, ConnectVkRequest, Parsed, Ids
    <2>. QED
        BY <2>1, <2>2, InfoTyped, RowAssumption DEF Begin, ToConnect, Call, ConnectCall
<1>5. CASE SignInGoogle(c)
    <2>1. PICK info \in GoogleInfo : HandleInfo(c, "google", info) \/ Return(c)
        BY <1>5 DEF SignInGoogle, ProviderFails
    <2>. QED
        BY <2>1, InfoTyped, HandleInfoKeepsCalls, RowAssumption
<1>6. CASE SignInVk(c)
    <2>1. PICK info \in VkInfo : HandleInfo(c, "vk", info) \/ Return(c)
        BY <1>6 DEF SignInVk, ProviderFails
    <2>. QED
        BY <2>1, InfoTyped, HandleInfoKeepsCalls, RowAssumption
<1>7. CASE SignInGoogleToken(c)
    <2>1. PICK q \in SignInGoogleTokenInput :
              \E info \in GetUserInfoByIdToken(q.idToken) : HandleInfo(c, "google", info)
        BY <1>7 DEF SignInGoogleToken
    <2>2. q.idToken.subject \in Subjects
        BY DEF SignInGoogleTokenInput, SignInGoogleTokenRequest, ProofsTyped, IdToken
    <2>3. PICK info \in GetUserInfoByIdToken(q.idToken) : HandleInfo(c, "google", info)
        BY <2>1
    <2>4. info.subject \in Subjects /\ info.email \in Option(Emails)
        BY <2>2 DEF GetUserInfoByIdToken, Option
    <2>. QED
        BY <2>3, <2>4, HandleInfoKeepsCalls, RowAssumption
<1>8. CASE ByEmailStep(c)
    <2>1. calls[c] \in ByEmailCall
        BY <1>1, <1>8, CallShapes DEF ByEmailStep, At
    <2>. DEFINE found == ByEmail(calls[c].email)
                u == CHOOSE x \in found : TRUE
                next == IF calls[c].email = None THEN "refuse"
                        ELSE IF found = {} THEN "create"
                        ELSE ExistingProfile(u, calls[c].provider, calls[c].subject)
                call == [calls[c] EXCEPT !.step = next, !.user = IF found = {} THEN None ELSE u]
    <2>2. Return(c) \/ (next # "refuse" /\ calls' = [calls EXCEPT ![c] = call])
        BY <1>8 DEF ByEmailStep, CallsTyped
    <2>3. found # {} => u \in Users
        BY DEF ByEmail
    <2>4. ExistingProfile(u, calls[c].provider, calls[c].subject)
              \in {"refuse", "session", "connect"}
        BY DEF ExistingProfile
    <2>5. next # "refuse" => call \in CreateCall \cup IdentityCall
        <3>. HIDE DEF u
        <3>1. CASE found = {}
            BY <2>1, <3>1 DEF ByEmailCall, CreateCall, Option
        <3>2. CASE found # {}
            BY <2>1, <2>3, <2>4, <3>2 DEF ByEmailCall, IdentityCall
        <3>. QED
            BY <3>1, <3>2
    <2>. HIDE DEF call, next
    <2>. QED
        BY <2>2, <2>5 DEF Call
<1>9. CASE ConnectTx(c)
    <2>1. Return(c) \/ (calls[c].op = "SignInProvider" /\ calls[c].step = "connect"
                          /\ Goto(c, "session"))
        BY <1>9 DEF ConnectTx
    <2>2. CASE calls[c].op = "SignInProvider" /\ calls[c].step = "connect" /\ Goto(c, "session")
        <3>1. calls[c] \in IdentityCall
            BY <1>1, <2>2, CallShapes
        <3>2. [calls[c] EXCEPT !.step = "session"] \in Call
            BY <3>1 DEF IdentityCall, Call
        <3>. QED
            BY <2>2, <3>2 DEF Goto
    <2>. QED
        BY <2>1, <2>2
<1>10. CASE CreateTx(c)
    <2>1. calls[c] \in CreateCall
        BY <1>1, <1>10, CallShapes DEF CreateTx, At
    <2>2. \/ Return(c)
          \/ \E u \in Users : calls' = [calls EXCEPT ![c].step = "session", ![c].user = u]
        BY <1>10 DEF CreateTx
    <2>3. ASSUME NEW u \in Users,
                 calls' = [calls EXCEPT ![c].step = "session", ![c].user = u]
          PROVE  calls' \in [Callers -> Call]
        <3>. DEFINE call == [calls[c] EXCEPT !.step = "session", !.user = u]
        <3>1. call \in IdentityCall
            BY <2>1 DEF CreateCall, IdentityCall, Option
        <3>2. calls' = [calls EXCEPT ![c] = call]
            BY <2>3 DEF CallsTyped
        <3>. HIDE DEF call
        <3>. QED
            BY <3>1, <3>2 DEF Call
    <2>. QED
        BY <2>2, <2>3
<1>11. CASE SignIn(c)
    <2>1. PICK q \in SignInInput : \E u \in ByIdentifiers(q) :
              Begin(c, [op |-> "SignIn", step |-> "session", user |-> u])
        BY <1>11 DEF SignIn
    <2>2. ByIdentifiers(q) \subseteq Users
        BY DEF ByIdentifiers, ByEmail, ByName
    <2>. QED
        BY <2>1, <2>2 DEF Begin, Call, SessionCall
<1>12. CASE ImportFirebase(c)
    <2>1. PICK q \in SignInInput :
              /\ q.email # None
              /\ Begin(c, [op |-> "SignIn", step |-> "import", email |-> q.email,
                           password |-> q.password])
        BY <1>12 DEF ImportFirebase
    <2>2. q.email \in Emails /\ q.password \in Passwords
        BY <2>1 DEF SignInInput, SignInRequest, Option
    <2>. QED
        BY <2>1, <2>2 DEF Begin, Call, ImportCall
<1>13. CASE ImportTx(c)
    BY <1>13 DEF ImportTx, Call, SessionCall
<1>14. CASE Refresh(c)
    <2>1. PICK s \in sessions :
              Begin(c, [op |-> "Refresh", token |-> s.token,
                        step |-> IF Live(s) /\ ~users[s.user].blocked THEN "rotate"
                                 ELSE "delete"])
        BY <1>14 DEF Refresh, ByRefreshToken
    <2>2. s.token \in Token
        BY DEF ProofsTyped, SessionRow
    <2>. QED
        BY <2>1, <2>2 DEF Begin, Call, RefreshCall
<1>. QED
    BY <1>2, <1>3, <1>4, <1>5, <1>6, <1>7, <1>8, <1>9, <1>10, <1>11, <1>12, <1>13, <1>14

\* What a sensitive request brings.
LEMMA SensitiveShape ==
    ASSUME NEW c, NEW q \in SensitiveRequests(c), NEW step \in {"consume", "read"},
           NEW token \in Option(Issued), step = "consume" => token \in Issued
    PROVE  /\ q.user \in Users
           /\ Checked(q, step, token) \in ChangeCall \cup DeletionCall
<1>1. CASE q \in ChangeEmailInput
    <2>1. q.op = "ChangeEmail" /\ q.user \in Users /\ q.email \in Emails
        BY <1>1 DEF ChangeEmailInput, StartEmailBindingRequest, ValidEmail, Parsed, Ids
    <2>. QED
        BY <2>1 DEF Checked, ChangeCall
<1>2. CASE q \in DeleteProfileInput
    <2>1. q.op = "RequestDeletion" /\ q.user \in Users /\ q.shared \in BOOLEAN
        BY <1>2 DEF DeleteProfileInput, DeleteProfileRequest, Parsed, Ids
    <2>. QED
        BY <2>1 DEF Checked, DeletionCall
<1>. QED
    BY <1>1, <1>2 DEF SensitiveRequests

\* An id token that a sensitive request brings was issued.
LEMMA CredentialsIssued ==
    ASSUME NEW c, NEW q \in SensitiveRequests(c), q.credentials.method = "google"
    PROVE  q.credentials.idToken \in issued
<1>1. \A r \in Reauthentication : r.method = "google" => r.idToken \in issued
    BY DEF Reauthentication
<1>2. CASE q \in ChangeEmailInput
    <2>1. PICK x \in StartEmailBindingRequest :
              x.purpose = "change" /\ q.credentials = reauthenticationInput(x.credentials)
        BY <1>2 DEF ChangeEmailInput
    <2>2. x.credentials \in Option(Reauthentication)
        BY <2>1 DEF StartEmailBindingRequest
    <2>. QED
        BY <1>1, <2>1, <2>2, RowAssumption DEF reauthenticationInput, Option
<1>3. CASE q \in DeleteProfileInput
    <2>1. PICK x \in DeleteProfileRequest :
              q.credentials = IF x.credentials = None
                              THEN [method |-> "password", password |-> x.password]
                              ELSE reauthenticationInput(x.credentials)
        BY <1>3 DEF DeleteProfileInput
    <2>2. x.credentials \in Option(Reauthentication)
        BY DEF DeleteProfileRequest
    <2>. QED
        BY <1>1, <2>1, <2>2, RowAssumption DEF reauthenticationInput, Option
<1>. QED
    BY <1>2, <1>3 DEF SensitiveRequests

\* A request for a change of address or about a deletion keeps its shape.
LEMMA DeletionRequests ==
    ASSUME TypeInv, NEW c \in Callers,
           \/ ReauthPassword(c) \/ ReauthGoogle(c) \/ ConsumeReauthentication(c) \/ ReauthVk(c)
           \/ ChangeEmail(c) \/ RequestDeletion(c) \/ UpdateDeletion(c) \/ CancelDeletion(c)
    PROVE  calls' \in [Callers -> Call]
<1>. USE CallsKept, ReturnKeepsCalls DEF TypeInv
<1>1. calls[c] \in Call
    BY DEF CallsTyped
<1>2. ChangeCall \cup DeletionCall \subseteq Call
    BY DEF Call
<1>3. CASE ReauthPassword(c)
    BY <1>2, <1>3, SensitiveShape DEF ReauthPassword, Begin, Option
<1>4. CASE ReauthGoogle(c)
    <2>1. PICK q \in SensitiveRequests(c) :
              /\ q.credentials.method = "google"
              /\ Begin(c, Checked(q, "consume", q.credentials.idToken.token))
        BY <1>4 DEF ReauthGoogle
    <2>2. q.credentials.idToken \in issued
        BY <2>1, CredentialsIssued
    <2>3. q.credentials.idToken.token \in Issued
        BY <2>2 DEF Issued
    <2>. QED
        BY <1>2, <2>1, <2>3, SensitiveShape DEF Begin, Option
<1>5. CASE ConsumeReauthentication(c)
    <2>1. calls[c] \in ChangeCall \cup DeletionCall
        BY <1>1, <1>5, CallShapes DEF ConsumeReauthentication, Sensitive
    <2>2. [calls[c] EXCEPT !.step = "read"] \in ChangeCall \cup DeletionCall
        BY <2>1 DEF ChangeCall, DeletionCall, Option
    <2>3. Goto(c, "read") \/ Return(c)
        BY <1>5 DEF ConsumeReauthentication
    <2>. QED
        BY <1>2, <2>2, <2>3 DEF Goto
<1>6. CASE ReauthVk(c)
    BY <1>2, <1>6, SensitiveShape DEF ReauthVk, Begin, Option
<1>7. CASE ChangeEmail(c)
    <2>1. calls[c] \in ChangeCall
        BY <1>1, <1>7, CallShapes DEF ChangeEmail, At
    <2>2. \/ Return(c)
          \/ /\ Exists(calls[c].user)
             /\ calls' = [calls EXCEPT ![c] =
                   [op |-> "ChangeEmail", step |-> "bind", user |-> calls[c].user,
                    email |-> calls[c].email, old |-> users[calls[c].user].email]]
        BY <1>7 DEF ChangeEmail, CallsTyped
    <2>3. calls[c].user \in Users /\ calls[c].email \in Emails
        BY <2>1 DEF ChangeCall
    <2>4. Exists(calls[c].user) => users[calls[c].user].email \in Emails
        BY <2>3 DEF Exists, AccountsTyped, Account, Row
    <2>. QED
        BY <2>2, <2>3, <2>4 DEF Call, BindCall
<1>8. CASE RequestDeletion(c)
    <2>1. calls[c] \in DeletionCall
        BY <1>1, <1>8, CallShapes DEF RequestDeletion, At
    <2>2. [calls[c] EXCEPT !.step = "write"] \in DeletionCall
        BY <1>8, <2>1 DEF DeletionCall, RequestDeletion, At
    <2>3. Goto(c, "write") \/ Return(c)
        BY <1>8 DEF RequestDeletion
    <2>. QED
        BY <1>2, <2>2, <2>3 DEF Goto
<1>9. CASE UpdateDeletion(c)
    BY <1>9 DEF UpdateDeletion, Begin, UpdateProfileDeletionInput,
                UpdateProfileDeletionRequest, Parsed, Ids, Call, UpdateCall
<1>10. CASE CancelDeletion(c)
    BY <1>10 DEF CancelDeletion, Begin, CancelProfileDeletionInput,
                 CancelProfileDeletionRequest, Parsed, Ids, Call, CancelCall
<1>. QED
    BY <1>3, <1>4, <1>5, <1>6, <1>7, <1>8, <1>9, <1>10

\* The other requests end with this step.
LEMMA LastSteps ==
    ASSUME TypeInv, NEW c \in Callers,
           \/ ActivateProfile(c) \/ SetPassword(c) \/ ResetPasswordTx(c) \/ SetUsernameRow(c)
           \/ DisconnectTx(c) \/ VerifyTx(c) \/ ChangeTx(c) \/ ConfirmEmailBinding(c)
           \/ RequestDeletionTx(c) \/ UpdateDeletionTx(c) \/ CancelDeletionTx(c)
           \/ RequestGoogleOAuth(c) \/ RequestVkOAuth(c) \/ CreateSession(c)
           \/ UpdateSession(c) \/ DeleteSession(c) \/ SignOut(c) \/ EndSessions(c) \/ Abandon(c)
    PROVE  calls' \in [Callers -> Call]
<1>1. Return(c)
    BY DEF ActivateProfile, SetPassword, ResetPasswordTx, SetUsernameRow, DisconnectTx,
           VerifyTx, ChangeTx, ConfirmEmailBinding, RequestDeletionTx, UpdateDeletionTx,
           CancelDeletionTx, RequestGoogleOAuth, RequestVkOAuth, CreateSession,
           UpdateSession, DeleteSession, SignOut, EndSessions, Abandon
<1>. QED
    BY <1>1, ReturnKeepsCalls DEF TypeInv

\* No request loses its shape.
LEMMA CallsStep ==
    ASSUME TypeInv, [PrevNext]_prevVars
    PROVE  calls' \in [Callers -> Call]
<1>1. ASSUME NEW c \in Callers, Serve(c)
      PROVE  calls' \in [Callers -> Call]
    BY <1>1, AccountRequests, SessionRequests, DeletionRequests, LastSteps DEF Serve
<1>2. ASSUME Background \/ GoogleIdToken \/ Block \/ Tick \/ UNCHANGED prevVars
      PROVE  UNCHANGED calls
    BY <1>2 DEF Background, GoogleIdToken, Block, Tick, prevVars, ConnectFirebase,
        TrimSessions, ObserveOutbox, Publish, MarkMessageSent, LoseWork, Claim, Send,
        Postpone, DropDelivery, ExecuteAll, Execute, SkipDeletion, Cleanup
<1>. QED
    BY <1>1, <1>2 DEF PrevNext, TypeInv, CallsTyped

-----------------------------------------------------------------------------
(* What a step does to the tables, whichever request does it *)

tables == <<users, requests, activation, resets, mailVars, flowVars, sessions, outbox,
            work, fresh, spent, restVars>>

\* The row of an account is written; its address stays.
Rewrites(u, row) ==
    Exists(u) /\ row.email = users[u].email /\ users' = [users EXCEPT ![u] = row]

Updates ==
    /\ \E u \in Users, row \in Account : Rewrites(u, row)
    /\ UNCHANGED <<requests, activation, resets, mailVars, flowVars, sessions, outbox,
                   work, fresh, spent, restVars>>

Creates ==
    /\ \E u \in Users, row \in Account, g \in SUBSET Link :
           IsFiniteSet(g) /\ CreateUser(u, row, g)
    /\ UNCHANGED <<requests, resets, mailVars, flowVars, sessions, fresh, spent, restVars>>

\* ConnectFirebase
Links ==
    /\ \E w \in work :
         /\ w.kind = "firebase"
         /\ \/ /\ \E row \in Account : Rewrites(w.user, row)
               /\ outbox' = outbox \cup {Imported(w.user)}
               /\ work' = (work \ {w}) \cup {[kind |-> "publish", msg |-> Imported(w.user)]}
            \/ work' = work \ {w} /\ UNCHANGED <<users, outbox>>
    /\ UNCHANGED <<requests, activation, resets, mailVars, flowVars, sessions, fresh,
                   spent, restVars>>

\* A state is deleted as it is accepted.
Redeems ==
    /\ \E s \in states : states' = states \ {s} /\ Spend(s.token)
    /\ UNCHANGED <<users, requests, activation, resets, mailVars, proofs, issued, sessions,
                   outbox, work, fresh, restVars>>

Opens ==
    /\ \E p \in Providers : CreateOAuthState(p)
    /\ UNCHANGED <<users, requests, activation, resets, mailVars, proofs, issued, sessions,
                   outbox, work, spent, restVars>>

\* A token is drawn that nobody gets.
Wastes ==
    /\ Draw
    /\ UNCHANGED <<users, requests, activation, resets, mailVars, flowVars, sessions,
                   outbox, work, spent, restVars>>

ForgetsResets ==
    /\ resets' \subseteq resets
    /\ UNCHANGED <<users, requests, activation, mailVars, flowVars, sessions, outbox, work,
                   fresh, spent, restVars>>

MailsReset ==
    /\ \E r \in resets, e \in Emails : MailReset(r.code, e)
    /\ UNCHANGED <<users, requests, activation, resets, bindings, deliveries, flowVars,
                   sessions, outbox, work, fresh, spent, restVars>>

DrawsReset ==
    /\ Draw
    /\ \E u \in Users, e \in Emails :
         /\ resets' = resets \cup
              {[code |-> fresh', user |-> u, used |-> FALSE, expires |-> now + Ttl]}
         /\ MailReset(fresh', e)
    /\ UNCHANGED <<users, requests, activation, bindings, deliveries, flowVars, sessions,
                   outbox, work, spent, restVars>>

UsesReset ==
    /\ \E u \in Users, code \in Token, row \in Account :
         LET proof == {r \in resets : r.user = u /\ r.code = code /\ ~r.used /\ Live(r)}
         IN  /\ proof # {}
             /\ resets' = (resets \ proof) \cup {[r EXCEPT !.used = TRUE] : r \in proof}
             /\ Rewrites(u, row) /\ Spend(code)
    /\ UNCHANGED <<requests, activation, mailVars, flowVars, sessions, outbox, work, fresh,
                   restVars>>

Binds ==
    /\ \E u \in Users, stage \in {"verify", "old"}, e \in Emails, p \in Option(Passwords) :
         Exists(u) /\ Bind(u, stage, e, p)
    /\ UNCHANGED <<users, requests, activation, resets, mailbox, flowVars, sessions, outbox,
                   work, spent, restVars>>

Confirms ==
    /\ \E b \in bindings, m \in mailbox :
         /\ m.token = b.token /\ Live(b) /\ Changeable(AuthInfo(b.user))
         /\ users[b.user].email = b.old
         /\ \/ b.stage = "verify" /\ ConfirmVerify(b)
            \/ b.stage = "old" /\ ConfirmOld(b)
            \/ b.stage = "new" /\ ConfirmNew(b)
         /\ Spend(b.token)
    /\ UNCHANGED <<requests, mailbox, flowVars, sessions, outbox, work, restVars>>

\* An id token is accepted that is not remembered.
Accepts ==
    /\ \E t \in Issued, u \in Users :
         /\ \A p \in proofs : p.token # t
         /\ proofs' = proofs \cup {[token |-> t, user |-> u, expires |-> now + ProofTtl]}
         /\ Spend(t)
    /\ UNCHANGED <<users, requests, activation, resets, mailVars, states, issued, sessions,
                   outbox, work, fresh, restVars>>

\* A deletion request comes, changes or goes before it is due.
Asks ==
    /\ \E u \in Users, request \in Request \cup {None} :
         ~Due(u) /\ requests' = [requests EXCEPT ![u] = request]
    /\ UNCHANGED <<users, activation, resets, mailVars, flowVars, sessions, outbox, work,
                   fresh, spent, restVars>>

BeginsSession ==
    /\ Draw
    /\ \E u \in Users :
         /\ sessions' = sessions \cup {NewSession(u)}
         /\ work' = work \cup {[kind |-> "trim", user |-> u, id |-> fresh']}
    /\ UNCHANGED <<users, requests, activation, resets, mailVars, flowVars, outbox, spent,
                   restVars>>

Rotates ==
    /\ Draw
    /\ \E t \in Token :
         LET row == {s \in ByRefreshToken(t) : Live(s)}
         IN  /\ row # {}
             /\ sessions' = (sessions \ row) \cup
                             {[s EXCEPT !.token = fresh', !.expires = now + Ttl] : s \in row}
             /\ Spend(t)
    /\ UNCHANGED <<users, requests, activation, resets, mailVars, flowVars, outbox, work,
                   restVars>>

Ends ==
    /\ sessions' \subseteq sessions
    /\ UNCHANGED <<users, requests, activation, resets, mailVars, flowVars, outbox, work,
                   fresh, spent, restVars>>

Effect ==
    \/ UNCHANGED tables
    \/ Updates \/ Creates \/ Links \/ Redeems \/ Opens \/ Wastes
    \/ ForgetsResets \/ MailsReset \/ DrawsReset \/ UsesReset
    \/ Binds \/ Confirms \/ Accepts \/ Asks \/ BeginsSession \/ Rotates \/ Ends
    \/ TrimSessions \/ ObserveOutbox \/ Publish \/ MarkMessageSent \/ LoseWork
    \/ \E r \in Replicas : \/ Claim(r) \/ Send(r) \/ Postpone(r) \/ DropDelivery(r)
                           \/ ExecuteAll(r) \/ Execute(r) \/ SkipDeletion(r)
    \/ \E table \in {"oauth_states", "email_deliveries", "email_bindings",
                     "reauthentication_proofs"} : Cleanup(table)
    \/ GoogleIdToken \/ Tick

\* A field is written and the account keeps its address and a way in.
LEMMA FieldsWritten ==
    ASSUME NEW row \in Account
    PROVE  /\ row \in Row /\ row # None
           /\ \A x \in Passwords :
                /\ [row EXCEPT !.password = x] \in Account
                /\ [row EXCEPT !.password = x].email = row.email
           /\ \A x \in Names : /\ [row EXCEPT !.name = x] \in Account
                               /\ [row EXCEPT !.name = x].email = row.email
           /\ \A x \in BOOLEAN : /\ [row EXCEPT !.activated = x] \in Account
                                 /\ [row EXCEPT !.activated = x].email = row.email
           /\ \A x \in BOOLEAN : /\ [row EXCEPT !.blocked = x] \in Account
                                 /\ [row EXCEPT !.blocked = x].email = row.email
           /\ \A x \in Emails : /\ [row EXCEPT !.firebase = x] \in Account
                                /\ [row EXCEPT !.firebase = x].email = row.email
           /\ \A x \in Emails : /\ [row EXCEPT !.email = x] \in Account
                                /\ [row EXCEPT !.email = x].email = x
<1>1. row \in Row /\ row # None /\ Methods(row) # {}
    BY RowAssumption DEF Account
<1>2. ASSUME NEW x \in Passwords
      PROVE  /\ [row EXCEPT !.password = x] \in Account
             /\ [row EXCEPT !.password = x].email = row.email
    <2>. DEFINE new == [row EXCEPT !.password = x]
    <2>1. new \in Row /\ new.email = row.email /\ new.password = x /\ x # None
        BY <1>1, PrevAssumption DEF Row
    <2>. HIDE DEF new
    <2>2. Methods(new) # {}
        BY <2>1 DEF Methods
    <2>3. new \in Account /\ new.email = row.email
        BY <2>1, <2>2 DEF Account
    <2>. QED
        BY <2>3 DEF new
<1>3. ASSUME NEW new \in Row, new.password = row.password, new.ids = row.ids
      PROVE  new \in Account
    BY <1>1, <1>3 DEF Account, Methods
<1>4. ASSUME NEW x \in Names
      PROVE  /\ [row EXCEPT !.name = x] \in Account
             /\ [row EXCEPT !.name = x].email = row.email
    BY <1>1, <1>3 DEF Row
<1>5. ASSUME NEW x \in BOOLEAN
      PROVE  /\ [row EXCEPT !.activated = x] \in Account
             /\ [row EXCEPT !.activated = x].email = row.email
             /\ [row EXCEPT !.blocked = x] \in Account
             /\ [row EXCEPT !.blocked = x].email = row.email
    BY <1>1, <1>3 DEF Row
<1>6. ASSUME NEW x \in Emails
      PROVE  /\ [row EXCEPT !.firebase = x] \in Account
             /\ [row EXCEPT !.firebase = x].email = row.email
             /\ [row EXCEPT !.email = x] \in Account
             /\ [row EXCEPT !.email = x].email = x
    BY <1>1, <1>3 DEF Row
<1>. QED
    BY <1>1, <1>2, <1>4, <1>5, <1>6

\* connectIdentity leaves an identity, disconnectIdentity what it checked for.
LEMMA IdentityWritten ==
    ASSUME NEW row \in Account, NEW p \in Providers, NEW s \in Option(Subjects),
           s = None => row.password # None \/ \A q \in Providers : row.ids[q] # None
    PROVE  /\ [row EXCEPT !.ids[p] = s] \in Account
           /\ [row EXCEPT !.ids[p] = s].email = row.email
<1>. DEFINE new == [row EXCEPT !.ids[p] = s]
<1>1. row \in Row
    BY DEF Account
<1>2. /\ new \in Row /\ new.email = row.email /\ new.password = row.password
      /\ new.ids = [row.ids EXCEPT ![p] = s]
    BY <1>1 DEF Row, Option
<1>3. row.ids \in [Providers -> Subjects \cup {None}]
    BY <1>1 DEF Row
<1>. HIDE DEF new
<1>4. CASE s # None
    BY <1>2, <1>3, <1>4 DEF Methods, Account, new
<1>5. CASE s = None /\ row.password # None
    BY <1>2, <1>5 DEF Methods, Account, new
<1>6. CASE s = None /\ \A q \in Providers : row.ids[q] # None
    <2>1. PICK q \in Providers : q # p
        BY RowAssumption
    <2>2. new.ids[q] # None
        BY <1>2, <1>3, <1>6, <2>1
    <2>. QED
        BY <1>2, <2>2 DEF Methods, Account, new
<1>. QED
    BY <1>4, <1>5, <1>6

\* A new account has a password or an identity.
LEMMA NewAccounts ==
    /\ \A e \in Emails, p \in Passwords, activated \in BOOLEAN :
          addUsersRow(e, p, activated) \in Account
    /\ \A e \in Emails, p \in Providers, s \in Subjects :
          addOauthRow(addUsersRow(e, None, TRUE), p, s) \in Account
<1>1. ASSUME NEW e \in Emails, NEW p \in Option(Passwords), NEW activated \in BOOLEAN
      PROVE  /\ addUsersRow(e, p, activated) \in Row
             /\ addUsersRow(e, p, activated).password = p
    BY DEF addUsersRow, Row, Option
<1>2. ASSUME NEW e \in Emails, NEW p \in Passwords, NEW activated \in BOOLEAN
      PROVE  addUsersRow(e, p, activated) \in Account
    <2>1. p # None
        BY PrevAssumption
    <2>. QED
        BY <1>1, <2>1 DEF Account, Methods, Option
<1>3. ASSUME NEW e \in Emails, NEW p \in Providers, NEW s \in Subjects
      PROVE  addOauthRow(addUsersRow(e, None, TRUE), p, s) \in Account
    <2>. DEFINE row == addUsersRow(e, None, TRUE)
                new == [row EXCEPT !.ids[p] = s]
    <2>1. row \in Row
        BY <1>1 DEF Option
    <2>2. row.ids \in [Providers -> Subjects \cup {None}]
        BY <2>1 DEF Row
    <2>. HIDE DEF row
    <2>3. new \in Row /\ new.ids = [row.ids EXCEPT ![p] = s]
        BY <2>1 DEF Row
    <2>. HIDE DEF new
    <2>4. new.ids[p] # None
        BY <2>2, <2>3, PrevAssumption
    <2>5. new \in Account
        BY <2>3, <2>4 DEF Account, Methods
    <2>. QED
        BY <2>5 DEF new, row, addOauthRow
<1>. QED
    BY <1>2, <1>3

\* Requests that only read.
LEMMA ReadSteps ==
    ASSUME NEW c,
           \/ SignUp(c) \/ Verify(c) \/ Resend(c) \/ ChangePassword(c) \/ RequestReset(c)
           \/ ResetPassword(c) \/ SetUsername(c) \/ ConnectGoogleToken(c)
           \/ DeleteGoogleConnection(c) \/ DeleteVkConnection(c) \/ ReauthPassword(c)
           \/ ReauthGoogle(c) \/ ChangeEmail(c) \/ RequestDeletion(c) \/ UpdateDeletion(c)
           \/ CancelDeletion(c) \/ SignInGoogleToken(c) \/ ByEmailStep(c) \/ SignIn(c)
           \/ ImportFirebase(c) \/ Refresh(c) \/ Abandon(c)
    PROVE  UNCHANGED tables
<1>. USE DEF tables
<1>1. CASE SignUp(c) \/ Verify(c) \/ Resend(c) \/ ChangePassword(c) \/ RequestReset(c)
    BY <1>1 DEF SignUp, Verify, Resend, ChangePassword, RequestReset
<1>2. CASE ResetPassword(c) \/ SetUsername(c) \/ ConnectGoogleToken(c)
    BY <1>2 DEF ResetPassword, SetUsername, ConnectGoogleToken
<1>3. CASE DeleteGoogleConnection(c) \/ DeleteVkConnection(c) \/ ReauthPassword(c)
    BY <1>3 DEF DeleteGoogleConnection, DeleteVkConnection, ReauthPassword
<1>4. CASE ReauthGoogle(c) \/ ChangeEmail(c) \/ RequestDeletion(c) \/ UpdateDeletion(c)
    BY <1>4 DEF ReauthGoogle, ChangeEmail, RequestDeletion, UpdateDeletion
<1>5. CASE CancelDeletion(c) \/ SignInGoogleToken(c) \/ ByEmailStep(c) \/ SignIn(c)
    BY <1>5 DEF CancelDeletion, SignInGoogleToken, ByEmailStep, SignIn
<1>6. CASE ImportFirebase(c) \/ Refresh(c) \/ Abandon(c)
    BY <1>6 DEF ImportFirebase, Refresh, Abandon
<1>. QED
    BY <1>1, <1>2, <1>3, <1>4, <1>5, <1>6

\* Requests that end a provider's flow, or begin one.
LEMMA ProviderSteps ==
    ASSUME NEW c,
           \/ ConnectGoogle(c) \/ ConnectVk(c) \/ ReauthVk(c) \/ SignInGoogle(c) \/ SignInVk(c)
           \/ RequestGoogleOAuth(c) \/ RequestVkOAuth(c)
    PROVE  Redeems \/ Opens
<1>0. ASSUME NEW p, NEW token, ConsumeOAuthState(p, token)
      PROVE  \E s \in states : states' = states \ {s} /\ Spend(s.token)
    BY <1>0 DEF ConsumeOAuthState
<1>. USE DEF GetUserInfoByCode, GetGoogleAccessToken, GetVkAccessToken
<1>1. CASE ConnectGoogle(c)
    BY <1>0, <1>1 DEF ConnectGoogle, Redeems
<1>2. CASE ConnectVk(c)
    BY <1>0, <1>2 DEF ConnectVk, Redeems
<1>3. CASE ReauthVk(c)
    BY <1>0, <1>3 DEF ReauthVk, Redeems
<1>4. CASE SignInGoogle(c)
    BY <1>0, <1>4 DEF SignInGoogle, Redeems
<1>5. CASE SignInVk(c)
    BY <1>0, <1>5 DEF SignInVk, Redeems
<1>6. CASE RequestGoogleOAuth(c) \/ RequestVkOAuth(c)
    BY <1>6, RowAssumption
    DEF RequestGoogleOAuth, RequestVkOAuth, CreateGoogleLink, CreateVkLink, Opens
<1>. QED
    BY <1>1, <1>2, <1>3, <1>4, <1>5, <1>6

\* One field of an account is written, by requests and by the operator.
LEMMA UpdateSteps ==
    ASSUME TypeInv,
           \/ Block
           \/ \E c \in Callers : \/ ActivateProfile(c) \/ SetPassword(c) \/ SetUsernameRow(c)
                                \/ DisconnectTx(c) \/ ConnectTx(c)
    PROVE  UNCHANGED tables \/ Updates
<1>. USE DEF TypeInv
<1>0. \A u \in Users : Exists(u) => users[u] \in Account
    BY DEF Exists, AccountsTyped
<1>00. ASSUME NEW u \in Users, Exists(u), NEW row \in Account, row.email = users[u].email,
              users' = [users EXCEPT ![u] = row],
              UNCHANGED <<requests, activation, resets, mailVars, flowVars, sessions, outbox,
                          work, fresh, spent, restVars>>
       PROVE  Updates
    BY <1>00 DEF Updates, Rewrites
<1>1. CASE Block
    <2>1. PICK u \in Users : Exists(u) /\ users' = [users EXCEPT ![u].blocked = ~@]
        BY <1>1 DEF Block
    <2>2. users[u].blocked \in BOOLEAN
        BY <1>0, <2>1 DEF Account, Row
    <2>3. users' = [users EXCEPT ![u] = [users[u] EXCEPT !.blocked = ~users[u].blocked]]
        BY <2>1 DEF AccountsTyped
    <2>. QED
        BY <1>0, <1>00, <1>1, <2>1, <2>2, <2>3, FieldsWritten DEF Block
<1>2. ASSUME NEW c \in Callers, ActivateProfile(c)
      PROVE  Updates
    <2>1. PICK u \in Users : Exists(u) /\ users' = [users EXCEPT ![u].activated = TRUE]
        BY <1>2 DEF ActivateProfile, ActivateProfileInput, ActivateProfileRequest, AccountsTyped
    <2>2. users' = [users EXCEPT ![u] = [users[u] EXCEPT !.activated = TRUE]]
        BY <2>1 DEF AccountsTyped
    <2>. QED
        BY <1>0, <1>00, <1>2, <2>1, <2>2, FieldsWritten DEF ActivateProfile
<1>3. ASSUME NEW c \in Callers
      PROVE  calls[c] \in Call
    BY DEF CallsTyped
<1>4. ASSUME NEW c \in Callers, SetPassword(c)
      PROVE  UNCHANGED tables \/ Updates
    <2>1. calls[c].user \in Users /\ calls[c].new \in Passwords
        BY <1>3, <1>4, CallShapes DEF SetPassword, At, PasswordCall
    <2>2. CASE Exists(calls[c].user)
        <3>. DEFINE row == [users[calls[c].user] EXCEPT !.password = calls[c].new]
        <3>1. users' = [users EXCEPT ![calls[c].user] = row]
            BY <1>4, <2>1, <2>2 DEF SetPassword, AccountsTyped
        <3>2. row \in Account /\ row.email = users[calls[c].user].email
            BY <1>0, <2>1, <2>2, FieldsWritten
        <3>. HIDE DEF row
        <3>. QED
            BY <1>00, <1>4, <2>1, <2>2, <3>1, <3>2 DEF SetPassword
    <2>3. CASE ~Exists(calls[c].user)
        BY <1>4, <2>3 DEF SetPassword, tables
    <2>. QED
        BY <2>2, <2>3
<1>5. ASSUME NEW c \in Callers, SetUsernameRow(c)
      PROVE  UNCHANGED tables \/ Updates
    <2>1. calls[c].user \in Users /\ calls[c].name \in Names
        BY <1>3, <1>5, CallShapes DEF SetUsernameRow, At, NameCall
    <2>2. CASE Exists(calls[c].user) /\ ByName(calls[c].name) \subseteq {calls[c].user}
        <3>. DEFINE row == [users[calls[c].user] EXCEPT !.name = calls[c].name]
        <3>1. users' = [users EXCEPT ![calls[c].user] = row]
            BY <1>5, <2>1, <2>2 DEF SetUsernameRow, AccountsTyped
        <3>2. row \in Account /\ row.email = users[calls[c].user].email
            BY <1>0, <2>1, <2>2, FieldsWritten
        <3>. HIDE DEF row
        <3>. QED
            BY <1>00, <1>5, <2>1, <2>2, <3>1, <3>2 DEF SetUsernameRow
    <2>3. CASE ~(Exists(calls[c].user) /\ ByName(calls[c].name) \subseteq {calls[c].user})
        BY <1>5, <2>3 DEF SetUsernameRow, tables
    <2>. QED
        BY <2>2, <2>3
<1>6. ASSUME NEW c \in Callers, DisconnectTx(c)
      PROVE  UNCHANGED tables \/ Updates
    <2>. DEFINE u == calls[c].user
                p == calls[c].provider
                may == /\ Exists(u) /\ Changeable(AuthInfo(u))
                       /\ \/ users[u].password # None
                          \/ \A q \in Providers : users[u].ids[q] # None
    <2>1. u \in Users /\ p \in Providers
        BY <1>3, <1>6, CallShapes DEF DisconnectTx, At, DisconnectCall
    <2>2. CASE may
        <3>. DEFINE row == [users[u] EXCEPT !.ids[p] = None]
        <3>1. users' = [users EXCEPT ![u] = row]
            BY <1>6, <2>1, <2>2 DEF DisconnectTx, AccountsTyped
        <3>2. row \in Account /\ row.email = users[u].email
            BY <1>0, <2>1, <2>2, IdentityWritten DEF Option
        <3>. HIDE DEF row
        <3>. QED
            BY <1>00, <1>6, <2>1, <2>2, <3>1, <3>2 DEF DisconnectTx
    <2>3. CASE ~may
        BY <1>6, <2>3 DEF DisconnectTx, tables
    <2>. QED
        BY <2>2, <2>3
<1>7. ASSUME NEW c \in Callers, ConnectTx(c)
      PROVE  UNCHANGED tables \/ Updates
    <2>. DEFINE u == calls[c].user
                p == calls[c].provider
                s == calls[c].subject
    <2>1. u \in Users /\ p \in Providers /\ s \in Subjects
        BY <1>3, <1>7, CallShapes DEF ConnectTx, IdentityCall, ConnectCall
    <2>2. CASE CanConnect(u, p, s)
        <3>. DEFINE row == [users[u] EXCEPT !.ids[p] = s]
        <3>1. users' = [users EXCEPT ![u] = row]
            BY <1>7, <2>1, <2>2 DEF ConnectTx, AccountsTyped
        <3>2. row \in Account /\ row.email = users[u].email
            <4>1. Exists(u) /\ s \in Option(Subjects) /\ s # None
                BY <2>1, <2>2, PrevAssumption DEF CanConnect, Option
            <4>. HIDE DEF u, p, s
            <4>. QED
                BY <1>0, <2>1, <4>1, IdentityWritten
        <3>. HIDE DEF row
        <3>. QED
            BY <1>00, <1>7, <2>1, <2>2, <3>1, <3>2 DEF ConnectTx, CanConnect
    <2>3. CASE ~CanConnect(u, p, s)
        BY <1>7, <2>3 DEF ConnectTx, tables
    <2>. QED
        BY <2>2, <2>3
<1>. QED
    BY <1>1, <1>2, <1>4, <1>5, <1>6, <1>7

\* An account is created: by a sign-up, by a provider, from Firebase.
LEMMA CreateSteps ==
    ASSUME TypeInv, NEW c \in Callers, SignUpCreate(c) \/ CreateTx(c) \/ ImportTx(c)
    PROVE  UNCHANGED tables \/ Creates
<1>0. calls[c] \in Call
    BY DEF TypeInv, CallsTyped
<1>1. CASE SignUpCreate(c)
    <2>1. calls[c] \in SignUpCall
        BY <1>0, <1>1, CallShapes DEF SignUpCreate, At
    <2>2. NewUserData(c) \in Account
        BY <2>1, NewAccounts DEF NewUserData, SignUpCall
    <2>3. {} \in SUBSET Link /\ IsFiniteSet({})
        BY FS_EmptySet
    <2>4. CASE \E u \in Users : CreateUser(u, NewUserData(c), {})
        BY <1>1, <2>2, <2>3, <2>4 DEF SignUpCreate, Creates
    <2>5. CASE UNCHANGED <<users, activation, outbox, work>>
        BY <1>1, <2>5 DEF SignUpCreate, tables
    <2>. QED
        BY <1>1, <2>4, <2>5 DEF SignUpCreate
<1>2. CASE CreateTx(c)
    <2>1. calls[c] \in CreateCall
        BY <1>0, <1>2, CallShapes DEF CreateTx, At
    <2>2. ProviderRow(c) \in Account
        BY <2>1, NewAccounts DEF ProviderRow, CreateCall
    <2>3. ASSUME NEW u \in Users
          PROVE  /\ {Firebase(u, ProviderRow(c).email)} \in SUBSET Link
                 /\ IsFiniteSet({Firebase(u, ProviderRow(c).email)})
        <3>1. ProviderRow(c).email \in Emails
            BY <2>2 DEF Account, Row
        <3>2. Firebase(u, ProviderRow(c).email) \in Link
            BY <3>1 DEF Firebase, Link
        <3>. QED
            BY <3>2, FS_Singleton
    <2>4. CASE \E u \in Users :
                  CreateUser(u, ProviderRow(c), {Firebase(u, ProviderRow(c).email)})
        BY <1>2, <2>2, <2>3, <2>4 DEF CreateTx, Creates
    <2>5. CASE UNCHANGED <<users, activation, outbox, work>>
        BY <1>2, <2>5 DEF CreateTx, tables
    <2>. QED
        BY <1>2, <2>4, <2>5 DEF CreateTx
<1>3. CASE ImportTx(c)
    <2>. DEFINE row == addUsersRow(calls[c].email, calls[c].password, TRUE)
    <2>1. calls[c] \in ImportCall
        BY <1>0, <1>3, CallShapes DEF ImportTx, At
    <2>2. row \in Account
        BY <2>1, NewAccounts DEF ImportCall
    <2>3. \/ \E u \in Users : CreateUser(u, row, {Firebase(u, row.email)})
          \/ UNCHANGED <<users, activation, outbox, work>>
        BY <1>3 DEF ImportTx
    <2>. HIDE DEF row
    <2>4. ASSUME NEW u \in Users
          PROVE  /\ {Firebase(u, row.email)} \in SUBSET Link
                 /\ IsFiniteSet({Firebase(u, row.email)})
        <3>1. row.email \in Emails
            BY <2>2 DEF Account, Row
        <3>2. Firebase(u, row.email) \in Link
            BY <3>1 DEF Firebase, Link
        <3>. QED
            BY <3>2, FS_Singleton
    <2>5. CASE \E u \in Users : CreateUser(u, row, {Firebase(u, row.email)})
        BY <1>3, <2>2, <2>4, <2>5 DEF ImportTx, Creates
    <2>6. CASE UNCHANGED <<users, activation, outbox, work>>
        BY <1>3, <2>6 DEF ImportTx, tables
    <2>. QED
        BY <2>3, <2>5, <2>6
<1>. QED
    BY <1>1, <1>2, <1>3

\* A goroutine links a Firebase profile.
LEMMA LinkStep ==
    ASSUME TypeInv, ConnectFirebase
    PROVE  Links
<1>. USE DEF TypeInv
<1>1. PICK w \in work :
         /\ w.kind = "firebase"
         /\ \/ /\ Exists(w.user)
               /\ users' = [users EXCEPT ![w.user].firebase = w.email]
               /\ outbox' = outbox \cup {Imported(w.user)}
               /\ work' = (work \ {w}) \cup {[kind |-> "publish", msg |-> Imported(w.user)]}
            \/ work' = work \ {w} /\ UNCHANGED <<users, outbox>>
         /\ UNCHANGED <<requests, activation, resets, mailVars, flowVars, sessions,
                        calls, fresh, spent, restVars>>
    BY DEF ConnectFirebase
<1>2. w.user \in Users /\ w.email \in Emails
    BY <1>1 DEF WorkTyped, Trim, Link, Publication
<1>3. ASSUME Exists(w.user), users' = [users EXCEPT ![w.user].firebase = w.email]
      PROVE  \E row \in Account : Rewrites(w.user, row)
    <2>1. users[w.user] \in Account
        BY <1>2, <1>3 DEF Exists, AccountsTyped
    <2>2. users' = [users EXCEPT ![w.user] = [users[w.user] EXCEPT !.firebase = w.email]]
        BY <1>2, <1>3 DEF AccountsTyped
    <2>. QED
        BY <1>2, <1>3, <2>1, <2>2, FieldsWritten DEF Rewrites
<1>. QED
    BY <1>1, <1>3 DEF Links

\* The statements of RequestReset and the transaction of ResetPassword.
LEMMA ResetSteps ==
    ASSUME TypeInv, NEW c \in Callers,
           RemoveOutdatedResets(c) \/ FindReset(c) \/ InsertReset(c) \/ ResetPasswordTx(c)
    PROVE  \/ UNCHANGED tables \/ ForgetsResets \/ MailsReset \/ Wastes \/ DrawsReset
           \/ UsesReset
<1>. USE DEF TypeInv
<1>0. calls[c] \in Call
    BY DEF CallsTyped
<1>1. CASE RemoveOutdatedResets(c)
    BY <1>1 DEF RemoveOutdatedResets, ForgetsResets
<1>2. CASE FindReset(c)
    <2>1. calls[c].email \in Emails
        BY <1>0, <1>2, CallShapes DEF FindReset, At, RequestResetCall
    <2>2. (\E r \in resets : MailReset(r.code, calls[c].email)) \/ UNCHANGED mailbox
        BY <1>2 DEF FindReset, UnusedResets
    <2>3. CASE UNCHANGED mailbox
        BY <1>2, <2>3 DEF FindReset, tables, mailVars
    <2>4. CASE \E r \in resets : MailReset(r.code, calls[c].email)
        BY <1>2, <2>1, <2>4 DEF FindReset, MailsReset
    <2>. QED
        BY <2>2, <2>3, <2>4
<1>3. CASE InsertReset(c)
    <2>1. calls[c].email \in Emails /\ calls[c].user \in Users
        BY <1>0, <1>3, CallShapes DEF InsertReset, At, RequestResetCall
    <2>2. CASE Exists(calls[c].user)
        BY <1>3, <2>1, <2>2 DEF InsertReset, DrawsReset
    <2>3. CASE ~Exists(calls[c].user)
        BY <1>3, <2>3 DEF InsertReset, Wastes, mailVars
    <2>. QED
        BY <2>2, <2>3
<1>4. CASE ResetPasswordTx(c)
    <2>. DEFINE u == calls[c].user
                proof == {r \in resets : /\ r.user = u /\ r.code = calls[c].code
                                         /\ ~r.used /\ Live(r)}
                may == Exists(u) /\ proof # {} /\ Changeable(AuthInfo(u))
    <2>1. u \in Users /\ calls[c].new \in Passwords
        BY <1>0, <1>4, CallShapes DEF ResetPasswordTx, At, ResetCall
    <2>2. CASE may
        <3>. DEFINE row == [users[u] EXCEPT !.password = calls[c].new]
        <3>1. users' = [users EXCEPT ![u] = row]
            BY <1>4, <2>1, <2>2 DEF ResetPasswordTx, AccountsTyped
        <3>2. users[u] \in Account
            BY <2>1, <2>2 DEF Exists, AccountsTyped
        <3>3. row \in Account /\ row.email = users[u].email
            BY <2>1, <3>2, FieldsWritten
        <3>4. calls[c].code \in Token
            BY <2>2 DEF ProofsTyped, ResetRow
        <3>5. /\ resets' = (resets \ proof) \cup {[r EXCEPT !.used = TRUE] : r \in proof}
              /\ Spend(calls[c].code)
            BY <1>4, <2>2 DEF ResetPasswordTx
        <3>6. Rewrites(u, row)
            BY <2>2, <3>1, <3>3 DEF Rewrites
        <3>. HIDE DEF row
        <3>. QED
            BY <1>4, <2>1, <2>2, <3>3, <3>4, <3>5, <3>6 DEF ResetPasswordTx, UsesReset
    <2>3. CASE ~may
        BY <1>4, <2>3 DEF ResetPasswordTx, tables
    <2>. QED
        BY <2>2, <2>3
<1>. QED
    BY <1>1, <1>2, <1>3, <1>4

\* StartEmailBinding and ConfirmEmailBinding.
LEMMA BindingSteps ==
    ASSUME TypeInv, NEW c \in Callers, VerifyTx(c) \/ ChangeTx(c) \/ ConfirmEmailBinding(c)
    PROVE  UNCHANGED tables \/ Binds \/ Confirms
<1>. USE DEF TypeInv
<1>0. calls[c] \in Call
    BY DEF CallsTyped
<1>1. CASE VerifyTx(c)
    <2>1. calls[c] \in VerifyCall
        BY <1>0, <1>1, CallShapes DEF VerifyTx
    <2>. DEFINE u == calls[c].user
                password == IF calls[c].password # None \/ Staged(u) = {}
                            THEN calls[c].password
                            ELSE CHOOSE h \in Staged(u) : TRUE
    <2>2. u \in Users /\ calls[c].email \in Emails /\ calls[c].password \in Option(Passwords)
        BY <2>1 DEF VerifyCall
    <2>3. Staged(u) \subseteq Option(Passwords)
        BY DEF Staged, OfPurpose, MailTyped, Binding, Option
    <2>4. password \in Option(Passwords)
        BY <2>2, <2>3
    <2>5. \/ Exists(u) /\ Bind(u, "verify", calls[c].email, password)
          \/ UNCHANGED <<bindings, deliveries, fresh>>
        BY <1>1 DEF VerifyTx
    <2>. HIDE DEF password
    <2>6. CASE Exists(u) /\ Bind(u, "verify", calls[c].email, password)
        BY <1>1, <2>2, <2>4, <2>6 DEF VerifyTx, Binds
    <2>7. CASE UNCHANGED <<bindings, deliveries, fresh>>
        BY <1>1, <2>7 DEF VerifyTx, tables, mailVars
    <2>. QED
        BY <2>5, <2>6, <2>7
<1>2. CASE ChangeTx(c)
    <2>1. calls[c].user \in Users /\ calls[c].email \in Emails
        BY <1>0, <1>2, CallShapes DEF ChangeTx, At, BindCall
    <2>2. \/ Exists(calls[c].user) /\ Bind(calls[c].user, "old", calls[c].email, None)
          \/ UNCHANGED <<bindings, deliveries, fresh>>
        BY <1>2 DEF ChangeTx
    <2>3. CASE Exists(calls[c].user) /\ Bind(calls[c].user, "old", calls[c].email, None)
        BY <1>2, <2>1, <2>3 DEF ChangeTx, Binds, Option
    <2>4. CASE UNCHANGED <<bindings, deliveries, fresh>>
        BY <1>2, <2>4 DEF ChangeTx, tables, mailVars
    <2>. QED
        BY <2>2, <2>3, <2>4
<1>3. CASE ConfirmEmailBinding(c)
    <2>1. PICK q \in ConfirmEmailBindingInput, b \in bindings :
             /\ b.token = q.token /\ Live(b)
             /\ Changeable(AuthInfo(b.user))
             /\ users[b.user].email = b.old
             /\ CASE b.stage = "verify" -> ConfirmVerify(b)
                  [] b.stage = "old" -> ConfirmOld(b)
                  [] b.stage = "new" -> ConfirmNew(b)
             /\ Spend(b.token)
        BY <1>3 DEF ConfirmEmailBinding
    <2>2. \E m \in mailbox : m.token = b.token
        BY <2>1 DEF ConfirmEmailBindingInput, ConfirmEmailBindingRequest, Mailed
    <2>3. b.stage \in {"verify", "old", "new"}
        BY DEF MailTyped, Binding
    <2>4. \/ b.stage = "verify" /\ ConfirmVerify(b)
          \/ b.stage = "old" /\ ConfirmOld(b)
          \/ b.stage = "new" /\ ConfirmNew(b)
        BY <2>1, <2>3
    <2>. QED
        BY <1>3, <2>1, <2>2, <2>4 DEF ConfirmEmailBinding, Confirms
<1>. QED
    BY <1>1, <1>2, <1>3

\* Re-authentication and the deletion requests.
LEMMA DeletionSteps ==
    ASSUME TypeInv, NEW c \in Callers,
           \/ ConsumeReauthentication(c) \/ RequestDeletionTx(c) \/ UpdateDeletionTx(c)
           \/ CancelDeletionTx(c)
    PROVE  UNCHANGED tables \/ Accepts \/ Asks
<1>. USE DEF TypeInv
<1>0. calls[c] \in Call
    BY DEF CallsTyped
<1>1. CASE ConsumeReauthentication(c)
    <2>1. calls[c] \in ChangeCall \cup DeletionCall
        BY <1>0, <1>1, CallShapes DEF ConsumeReauthentication, Sensitive
    <2>2. calls[c].user \in Users /\ calls[c].token \in Issued
        BY <1>1, <2>1 DEF ChangeCall, DeletionCall, ConsumeReauthentication
    <2>3. CASE Exists(calls[c].user) /\ \A p \in proofs : p.token # calls[c].token
        BY <1>1, <2>2, <2>3 DEF ConsumeReauthentication, Accepts
    <2>4. CASE ~(Exists(calls[c].user) /\ \A p \in proofs : p.token # calls[c].token)
        BY <1>1, <2>4 DEF ConsumeReauthentication, tables, flowVars
    <2>. QED
        BY <2>3, <2>4
<1>3. CASE RequestDeletionTx(c)
    <2>. DEFINE u == calls[c].user
                new == [shared |-> calls[c].shared, deadline |-> now + Offset]
    <2>1. u \in Users /\ calls[c].shared \in BOOLEAN
        BY <1>0, <1>3, CallShapes DEF RequestDeletionTx, At, DeletionCall
    <2>2. new \in Request
        BY <2>1, PrevAssumption DEF Request, ProofsTyped
    <2>3. CASE lockDeletionUser(u) /\ requests[u] = None
        <3>1. ~Due(u) /\ requests' = [requests EXCEPT ![u] = new]
            BY <1>3, <2>3 DEF RequestDeletionTx, Due
        <3>. HIDE DEF new, u
        <3>. QED
            BY <1>3, <2>1, <2>2, <3>1 DEF RequestDeletionTx, Asks
    <2>4. CASE ~(lockDeletionUser(u) /\ requests[u] = None)
        BY <1>3, <2>4 DEF RequestDeletionTx, tables
    <2>. QED
        BY <2>3, <2>4
<1>4. CASE UpdateDeletionTx(c)
    <2>. DEFINE u == calls[c].user
                new == [requests[u] EXCEPT !.shared = calls[c].shared]
    <2>1. u \in Users /\ calls[c].shared \in BOOLEAN
        BY <1>0, <1>4, CallShapes DEF UpdateDeletionTx, At, UpdateCall
    <2>2. CASE lockDeletion(u)
        <3>1. ~Due(u) /\ requests[u] \in Request
            BY <2>1, <2>2 DEF lockDeletion, AccountsTyped
        <3>2. new \in Request
            BY <2>1, <3>1 DEF Request
        <3>3. requests' = [requests EXCEPT ![u] = new]
            BY <1>4, <2>1, <2>2 DEF UpdateDeletionTx, AccountsTyped
        <3>. HIDE DEF new, u
        <3>. QED
            BY <1>4, <2>1, <3>1, <3>2, <3>3 DEF UpdateDeletionTx, Asks
    <2>3. CASE ~lockDeletion(u)
        BY <1>4, <2>3 DEF UpdateDeletionTx, tables
    <2>. QED
        BY <2>2, <2>3
<1>5. CASE CancelDeletionTx(c)
    <2>. DEFINE u == calls[c].user
    <2>1. u \in Users
        BY <1>0, <1>5, CallShapes DEF CancelDeletionTx, At, CancelCall
    <2>2. CASE lockDeletion(u)
        BY <1>5, <2>1, <2>2 DEF CancelDeletionTx, lockDeletion, Asks
    <2>3. CASE ~lockDeletion(u)
        BY <1>5, <2>3 DEF CancelDeletionTx, tables
    <2>. QED
        BY <2>2, <2>3
<1>. QED
    BY <1>1, <1>3, <1>4, <1>5

\* Sessions begin, are rotated and end.
LEMMA SessionSteps ==
    ASSUME TypeInv, NEW c \in Callers,
           \/ CreateSession(c) \/ UpdateSession(c) \/ DeleteSession(c) \/ SignOut(c)
           \/ EndSessions(c)
    PROVE  Wastes \/ BeginsSession \/ Rotates \/ Ends
<1>. USE DEF TypeInv
<1>0. calls[c] \in Call
    BY DEF CallsTyped
<1>1. CASE CreateSession(c)
    <2>1. calls[c].user \in Users
        BY <1>0, <1>1, CallShapes DEF CreateSession, SessionCall, IdentityCall
    <2>2. CASE Exists(calls[c].user)
        BY <1>1, <2>1, <2>2 DEF CreateSession, BeginsSession
    <2>3. CASE ~Exists(calls[c].user)
        BY <1>1, <2>3 DEF CreateSession, Wastes
    <2>. QED
        BY <2>2, <2>3
<1>2. CASE UpdateSession(c)
    <2>. DEFINE row == {s \in ByRefreshToken(calls[c].token) : Live(s)}
    <2>1. calls[c].token \in Token
        BY <1>0, <1>2, CallShapes DEF UpdateSession, At, RefreshCall
    <2>2. CASE row # {}
        BY <1>2, <2>1, <2>2 DEF UpdateSession, Rotates
    <2>3. CASE row = {}
        BY <1>2, <2>3 DEF UpdateSession, Wastes
    <2>. QED
        BY <2>2, <2>3
<1>3. CASE DeleteSession(c)
    BY <1>3 DEF DeleteSession, Ends
<1>4. CASE SignOut(c)
    BY <1>4 DEF SignOut, Ends
<1>5. CASE EndSessions(c)
    BY <1>5 DEF EndSessions, DeleteAllSessions, DeleteSessions, Ends
<1>. QED
    BY <1>1, <1>2, <1>3, <1>4, <1>5

\* Every step has one of these effects.
LEMMA StepEffects ==
    ASSUME TypeInv, [PrevNext]_prevVars
    PROVE  Effect
<1>1. ASSUME NEW c \in Callers, Serve(c)
      PROVE  \/ UNCHANGED tables
             \/ Updates \/ Creates \/ Redeems \/ Opens \/ Wastes
             \/ ForgetsResets \/ MailsReset \/ DrawsReset \/ UsesReset
             \/ Binds \/ Confirms \/ Accepts \/ Asks \/ BeginsSession \/ Rotates \/ Ends
    BY <1>1, ReadSteps, ProviderSteps, UpdateSteps, CreateSteps, ResetSteps, BindingSteps,
       DeletionSteps, SessionSteps DEF Serve
<1>2. UNCHANGED prevVars => UNCHANGED tables
    BY DEF prevVars, tables
<1>. QED
    BY <1>1, <1>2, LinkStep, UpdateSteps DEF PrevNext, Background, Effect

-----------------------------------------------------------------------------
(* Types *)

\* What drawing and spending a token do.
LEMMA DrawnAndSpent ==
    ASSUME ProofsTyped
    PROVE  /\ Draw => /\ fresh' = fresh + 1 /\ fresh' \in Token
                      /\ fresh' \in 0 .. MaxTokens
           /\ \A t \in Token : Spend(t) =>
                /\ spent' \in [Token -> 0 .. 2]
                /\ spent'[t] = IF spent[t] < 2 THEN spent[t] + 1 ELSE spent[t]
                /\ \A o \in Token : o # t => spent'[o] = spent[o]
<1>1. Draw => fresh' = fresh + 1 /\ fresh' \in Token /\ fresh' \in 0 .. MaxTokens
    BY PrevAssumption DEF Draw, ProofsTyped, Token
<1>2. ASSUME NEW t \in Token, Spend(t)
      PROVE  /\ spent' \in [Token -> 0 .. 2]
             /\ spent'[t] = IF spent[t] < 2 THEN spent[t] + 1 ELSE spent[t]
             /\ \A o \in Token : o # t => spent'[o] = spent[o]
    BY <1>2 DEF Spend, ProofsTyped
<1>. QED
    BY <1>1, <1>2

\* A written row leaves the accounts there are.
LEMMA RewriteKeeps ==
    ASSUME AccountsTyped, NEW u \in Users, NEW row \in Account, Rewrites(u, row)
    PROVE  /\ users' \in [Users -> Account \cup {None}]
           /\ \A v \in Users : Exists(v)' <=> Exists(v)
           /\ \A v \in Users : Exists(v) => users'[v].email = users[v].email
<1>1. row # None
    BY FieldsWritten
<1>. QED
    BY <1>1 DEF AccountsTyped, Rewrites, Exists

\* A proof that is finished writes a row.
LEMMA FinishKeeps ==
    ASSUME AccountsTyped, NEW u \in Users, Exists(u), NEW row \in Account, Finish(u, row)
    PROVE  /\ users' \in [Users -> Account \cup {None}]
           /\ \A v \in Users : Exists(v)' <=> Exists(v)
           /\ users'[u] = row
           /\ \A v \in Users : v # u => users'[v] = users[v]
<1>1. row # None
    BY FieldsWritten
<1>. QED
    BY <1>1 DEF AccountsTyped, Finish, Exists

\* The row that ConfirmEmailBinding writes.
LEMMA ConfirmedRow ==
    ASSUME AccountsTyped, MailTyped, NEW b \in bindings
    PROVE  /\ b.user \in Users /\ b.email \in Emails /\ users[b.user] \in Account
           /\ [users[b.user] EXCEPT !.email = b.email] \in Account
           /\ [users[b.user] EXCEPT !.email = b.email].email = b.email
           /\ [users[b.user] EXCEPT
                 !.activated = TRUE,
                 !.password = IF b.password = None THEN @ ELSE b.password] \in Account
           /\ [users[b.user] EXCEPT
                 !.activated = TRUE,
                 !.password = IF b.password = None THEN @ ELSE b.password].email
               = users[b.user].email
<1>1. /\ b.user \in Users /\ b.email \in Emails /\ b.password \in Passwords \cup {None}
      /\ Exists(b.user)
    BY DEF MailTyped, Binding
<1>2. users[b.user] \in Account
    BY <1>1 DEF AccountsTyped, Exists
<1>. DEFINE row == [users[b.user] EXCEPT !.activated = TRUE]
            new == [users[b.user] EXCEPT
                     !.activated = TRUE,
                     !.password = IF b.password = None THEN @ ELSE b.password]
<1>3. row \in Account /\ row.email = users[b.user].email
    BY <1>2, FieldsWritten
<1>4. users[b.user] \in Row
    BY <1>2 DEF Account
<1>5. new = IF b.password = None THEN row ELSE [row EXCEPT !.password = b.password]
    BY <1>4 DEF Row
<1>6. b.password # None => /\ [row EXCEPT !.password = b.password] \in Account
                           /\ [row EXCEPT !.password = b.password].email = row.email
    <2>. HIDE DEF row
    <2>. QED
        BY <1>1, <1>3, FieldsWritten
<1>7. new \in Account /\ new.email = users[b.user].email
    <2>. HIDE DEF row, new
    <2>. QED
        BY <1>3, <1>5, <1>6
<1>. QED
    BY <1>1, <1>2, <1>7, FieldsWritten

\* The steps that touch accounts, activation codes and deletion requests.
LEMMA AccountFrame ==
    ASSUME Effect
    PROVE  \/ UNCHANGED <<users, requests, activation>>
           \/ Updates \/ Creates \/ Links \/ UsesReset \/ Confirms \/ Asks
           \/ \E r \in Replicas : Execute(r)
    BY DEF Effect, tables, Redeems, Opens, Wastes, ForgetsResets, MailsReset, DrawsReset,
           Binds, Accepts, BeginsSession, Rotates, Ends, TrimSessions, ObserveOutbox, Publish,
           MarkMessageSent, LoseWork, Claim, Send, Postpone, DropDelivery, ExecuteAll,
           SkipDeletion, Cleanup, GoogleIdToken, Tick

\* Accounts keep their type and a way in.
LEMMA AccountsStep ==
    ASSUME TypeInv, Effect
    PROVE  AccountsTyped'
<1>. USE DEF TypeInv
<1>1. CASE UNCHANGED <<users, requests, activation>>
    BY <1>1 DEF AccountsTyped, Exists
<1>2. CASE Updates
    <2>1. PICK u \in Users, row \in Account : Rewrites(u, row)
        BY <1>2 DEF Updates
    <2>2. UNCHANGED <<requests, activation>>
        BY <1>2 DEF Updates
    <2>. QED
        BY <2>1, <2>2, RewriteKeeps DEF AccountsTyped
<1>3. CASE Creates
    <2>1. PICK u \in Users, row \in Account, g \in SUBSET Link : CreateUser(u, row, g)
        BY <1>3 DEF Creates
    <2>2. row # None /\ UNCHANGED requests
        BY <1>3, FieldsWritten DEF Creates
    <2>3. /\ users' = [users EXCEPT ![u] = row]
          /\ activation' = activation \/ activation' = activation \cup {u}
        BY <2>1 DEF CreateUser, addActivationCodeRow
    <2>. QED
        BY <2>2, <2>3 DEF AccountsTyped, Exists
<1>4. CASE Links
    <2>1. PICK w \in work : /\ w.kind = "firebase"
                            /\ \/ \E row \in Account : Rewrites(w.user, row)
                               \/ UNCHANGED users
        BY <1>4 DEF Links
    <2>2. w.user \in Users
        BY <2>1 DEF WorkTyped, Trim, Link, Publication
    <2>3. UNCHANGED <<requests, activation>>
        BY <1>4 DEF Links
    <2>. QED
        BY <2>1, <2>2, <2>3, RewriteKeeps DEF AccountsTyped, Exists
<1>5. CASE UsesReset
    <2>1. PICK u \in Users, row \in Account : Rewrites(u, row)
        BY <1>5 DEF UsesReset
    <2>2. UNCHANGED <<requests, activation>>
        BY <1>5 DEF UsesReset
    <2>. QED
        BY <2>1, <2>2, RewriteKeeps DEF AccountsTyped
<1>6. CASE Confirms
    <2>1. PICK b \in bindings : ConfirmVerify(b) \/ ConfirmOld(b) \/ ConfirmNew(b)
        BY <1>6 DEF Confirms
    <2>2. UNCHANGED requests
        BY <1>6 DEF Confirms
    <2>3. CASE ConfirmOld(b)
        BY <2>2, <2>3 DEF ConfirmOld, AccountsTyped, Exists
    <2>4. CASE ConfirmVerify(b) \/ ConfirmNew(b)
        <3>1. PICK row \in Account : Finish(b.user, row)
            BY <2>4, ConfirmedRow DEF ConfirmVerify, ConfirmNew
        <3>2. b.user \in Users /\ Exists(b.user)
            BY DEF MailTyped, Binding
        <3>3. activation' = activation \ {b.user}
            BY <3>1 DEF Finish
        <3>. QED
            BY <2>2, <3>1, <3>2, <3>3, FinishKeeps DEF AccountsTyped
    <2>. QED
        BY <2>1, <2>3, <2>4
<1>7. CASE Asks
    BY <1>7 DEF Asks, AccountsTyped, Exists
<1>8. ASSUME NEW r \in Replicas, Execute(r)
      PROVE  AccountsTyped'
    <2>1. PICK u \in doomed[r] : \/ UNCHANGED <<users, requests, activation>>
                                 \/ DeleteUser(u)
        BY <1>8 DEF Execute
    <2>2. u \in Users
        BY DEF WorkTyped
    <2>. QED
        BY <2>1, <2>2 DEF DeleteUser, AccountsTyped, Exists
<1>. QED
    BY <1>1, <1>2, <1>3, <1>4, <1>5, <1>6, <1>7, <1>8, AccountFrame

\* Accounts disappear only by Execute.
LEMMA AccountsStay ==
    ASSUME TypeInv, Effect, NEW u \in Users, Exists(u), ~Exists(u)'
    PROVE  \E r \in Replicas : Execute(r)
<1>. USE DEF TypeInv
<1>0. SUFFICES ASSUME ~\E r \in Replicas : Execute(r)
               PROVE  Exists(u)'
    OBVIOUS
<1>1. CASE UNCHANGED users
    BY <1>1 DEF Exists
<1>2. CASE \E v \in Users, row \in Account : Rewrites(v, row)
    BY <1>2, RewriteKeeps
<1>3. CASE Creates
    <2>1. PICK v \in Users, row \in Account : users' = [users EXCEPT ![v] = row]
        BY <1>3 DEF Creates, CreateUser
    <2>2. row # None
        BY FieldsWritten
    <2>. QED
        BY <2>1, <2>2 DEF AccountsTyped, Exists
<1>4. CASE Links
    <2>1. PICK w \in work : /\ w.kind = "firebase"
                            /\ \/ \E row \in Account : Rewrites(w.user, row)
                               \/ UNCHANGED users
        BY <1>4 DEF Links
    <2>2. w.user \in Users
        BY <2>1 DEF WorkTyped, Trim, Link, Publication
    <2>. QED
        BY <1>1, <1>2, <2>1, <2>2
<1>5. CASE Confirms
    <2>1. PICK b \in bindings : ConfirmVerify(b) \/ ConfirmOld(b) \/ ConfirmNew(b)
        BY <1>5 DEF Confirms
    <2>2. CASE ConfirmOld(b)
        BY <1>1, <2>2 DEF ConfirmOld
    <2>3. CASE ConfirmVerify(b) \/ ConfirmNew(b)
        <3>1. PICK row \in Account : Finish(b.user, row)
            BY <2>3, ConfirmedRow DEF ConfirmVerify, ConfirmNew
        <3>2. b.user \in Users /\ Exists(b.user)
            BY DEF MailTyped, Binding
        <3>. QED
            BY <3>1, <3>2, FinishKeeps
    <2>. QED
        BY <2>1, <2>2, <2>3
<1>6. CASE Updates \/ UsesReset
    BY <1>2, <1>6 DEF Updates, UsesReset
<1>7. CASE Asks
    BY <1>1, <1>7 DEF Asks
<1>. QED
    BY <1>0, <1>1, <1>3, <1>4, <1>5, <1>6, <1>7, AccountFrame

\* The steps that touch the tables of tokens, the clock or the ghosts.
LEMMA TokenFrame ==
    ASSUME Effect
    PROVE  \/ UNCHANGED <<resets, sessions, states, proofs, issued, now, fresh, spent, bindings,
                          removed>>
           \/ Redeems \/ Opens \/ Wastes \/ ForgetsResets \/ DrawsReset \/ UsesReset \/ Binds
           \/ Confirms \/ Accepts \/ BeginsSession \/ Rotates \/ Ends \/ TrimSessions
           \/ (\E r \in Replicas : Execute(r)) \/ GoogleIdToken \/ Tick
           \/ \E table \in {"oauth_states", "email_deliveries", "email_bindings",
                            "reauthentication_proofs"} : Cleanup(table)
    BY DEF Effect, tables, mailVars, flowVars, restVars, Updates, Creates, Links, MailsReset,
           Asks, ObserveOutbox, Publish, MarkMessageSent, LoseWork, Claim, Send, Postpone,
           DropDelivery, ExecuteAll, SkipDeletion

\* The tables of tokens keep their types.
LEMMA ProofsStep ==
    ASSUME TypeInv, Effect
    PROVE  ProofsTyped'
<1>. USE DEF TypeInv
<1>0. /\ \A x \in Nat, y \in Nat : x + y \in Nat
      /\ now \in Nat /\ Ttl \in Nat /\ ProofTtl \in Nat /\ Skew \in Nat /\ MaxTime \in Nat
    BY PrevAssumption DEF ProofsTyped
<1>1. CASE UNCHANGED <<resets, sessions, states, proofs, issued, now, fresh, spent, bindings,
                       removed>>
    BY <1>1 DEF ProofsTyped
<1>2. CASE Redeems
    <2>1. PICK s \in states : states' = states \ {s} /\ Spend(s.token)
        BY <1>2 DEF Redeems
    <2>2. s.token \in Token
        BY DEF ProofsTyped, StateRow
    <2>. QED
        BY <1>2, <2>1, <2>2, DrawnAndSpent DEF Redeems, restVars, ProofsTyped
<1>3. CASE Opens
    BY <1>0, <1>3, DrawnAndSpent
    DEF Opens, CreateOAuthState, restVars, ProofsTyped, StateRow
<1>4. CASE Wastes
    BY <1>4, DrawnAndSpent DEF Wastes, flowVars, restVars, ProofsTyped
<1>5. CASE ForgetsResets
    BY <1>5 DEF ForgetsResets, flowVars, restVars, ProofsTyped
<1>6. CASE DrawsReset
    <2>1. fresh' \in Token /\ fresh' \in 0 .. MaxTokens /\ now + Ttl \in Nat
        BY <1>0, <1>6, DrawnAndSpent DEF DrawsReset
    <2>2. PICK u \in Users : resets' = resets \cup
             {[code |-> fresh', user |-> u, used |-> FALSE, expires |-> now + Ttl]}
        BY <1>6 DEF DrawsReset
    <2>3. [code |-> fresh', user |-> u, used |-> FALSE, expires |-> now + Ttl] \in ResetRow
        BY <2>1 DEF ResetRow
    <2>4. resets' \subseteq ResetRow
        BY <2>2, <2>3 DEF ProofsTyped
    <2>. QED
        BY <1>6, <2>1, <2>4 DEF DrawsReset, flowVars, restVars, ProofsTyped
<1>7. CASE UsesReset
    <2>1. PICK u \in Users, code \in Token :
             /\ Spend(code)
             /\ \A r \in resets' : r \in resets \/ \E o \in resets : r = [o EXCEPT !.used = TRUE]
        BY <1>7 DEF UsesReset
    <2>2. resets' \subseteq ResetRow
        BY <2>1 DEF ProofsTyped, ResetRow
    <2>. QED
        BY <1>7, <2>1, <2>2, DrawnAndSpent DEF UsesReset, flowVars, restVars, ProofsTyped
<1>8. CASE Binds
    BY <1>8, DrawnAndSpent DEF Binds, Bind, flowVars, restVars, ProofsTyped
<1>9. CASE Confirms
    <2>1. PICK b \in bindings :
             Spend(b.token) /\ (ConfirmVerify(b) \/ ConfirmOld(b) \/ ConfirmNew(b))
        BY <1>9 DEF Confirms
    <2>2. b.token \in Token
        BY DEF MailTyped, Binding, Token
    <2>3. /\ resets' \subseteq resets
          /\ Draw \/ UNCHANGED fresh
        BY <2>1 DEF ConfirmVerify, ConfirmOld, ConfirmNew
    <2>. QED
        BY <1>9, <2>1, <2>2, <2>3, DrawnAndSpent
        DEF Confirms, flowVars, restVars, ProofsTyped
<1>10. CASE Accepts
    <2>1. PICK t \in Issued, u \in Users :
             /\ proofs' = proofs \cup {[token |-> t, user |-> u, expires |-> now + ProofTtl]}
             /\ Spend(t)
        BY <1>10 DEF Accepts
    <2>2. t \in Token
        BY DEF Issued, ProofsTyped, IdToken
    <2>. QED
        BY <1>0, <1>10, <2>1, <2>2, DrawnAndSpent DEF Accepts, restVars, ProofsTyped, ProofRow
<1>11. CASE BeginsSession
    <2>1. fresh + 1 \in Token
        BY <1>11, DrawnAndSpent DEF BeginsSession, Draw
    <2>2. \A u \in Users : NewSession(u) \in SessionRow
        BY <1>0, <2>1 DEF NewSession, SessionRow
    <2>. QED
        BY <1>11, <2>2, DrawnAndSpent DEF BeginsSession, flowVars, restVars, ProofsTyped
<1>12. CASE Rotates
    <2>1. PICK t \in Token :
             /\ Spend(t)
             /\ \A s \in sessions' :
                  \/ s \in sessions
                  \/ \E o \in sessions : s = [o EXCEPT !.token = fresh', !.expires = now + Ttl]
        BY <1>12 DEF Rotates, ByRefreshToken
    <2>2. fresh' \in Token
        BY <1>12, DrawnAndSpent DEF Rotates
    <2>3. now + Ttl \in Nat
        BY <1>0
    <2>4. ASSUME NEW o \in sessions
          PROVE  [o EXCEPT !.token = fresh', !.expires = now + Ttl] \in SessionRow
        BY <2>2, <2>3 DEF ProofsTyped, SessionRow
    <2>5. sessions' \subseteq SessionRow
        BY <2>1, <2>4 DEF ProofsTyped
    <2>. QED
        BY <1>12, <2>1, <2>5, DrawnAndSpent DEF Rotates, flowVars, restVars, ProofsTyped
<1>13. CASE Ends
    BY <1>13 DEF Ends, flowVars, restVars, ProofsTyped
<1>14. CASE TrimSessions
    BY <1>14 DEF TrimSessions, Newest, SessionsOf, flowVars, restVars, ProofsTyped
<1>15. ASSUME NEW r \in Replicas, Execute(r)
       PROVE  ProofsTyped'
    BY <1>15 DEF Execute, DeleteUser, ProofsTyped
<1>16. CASE GoogleIdToken
    <2>1. PICK sub \in Subjects, at \in now .. now + Skew :
             issued' = issued \cup {[token |-> fresh', subject |-> sub, at |-> at]}
        BY <1>16 DEF GoogleIdToken
    <2>2. at \in Nat
        BY <1>0
    <2>. QED
        BY <1>16, <2>1, <2>2, DrawnAndSpent DEF GoogleIdToken, restVars, ProofsTyped, IdToken
<1>17. CASE Tick
    BY <1>0, <1>17 DEF Tick, flowVars, ProofsTyped
<1>18. ASSUME NEW table, Cleanup(table)
       PROVE  ProofsTyped'
    BY <1>18 DEF Cleanup, restVars, ProofsTyped
<1>. QED
    BY <1>1, <1>2, <1>3, <1>4, <1>5, <1>6, <1>7, <1>8, <1>9, <1>10, <1>11, <1>12, <1>13,
       <1>14, <1>15, <1>16, <1>17, <1>18, TokenFrame

\* The proof that Bind stores, and its mail.
LEMMA BoundTyped ==
    ASSUME TypeInv, NEW u \in Users, Exists(u), NEW stage \in {"verify", "old"},
           NEW e \in Emails, NEW p \in Option(Passwords), Bind(u, stage, e, p)
    PROVE  \E b \in Binding :
             /\ b.user = u /\ b.stage = stage /\ b.token = fresh + 1 /\ b.old = users[u].email
             /\ b.email = e /\ b.expires = now + Ttl /\ Draw
             /\ bindings' = (bindings \ OfPurpose(bindings, u, stage)) \cup {b}
             /\ queueBindingEmail(b)
<1>. DEFINE b == [token |-> fresh + 1, user |-> u, stage |-> stage,
                  old |-> users[u].email, email |-> e, password |-> p, expires |-> now + Ttl]
<1>1. /\ Draw /\ queueBindingEmail(b)
      /\ bindings' = (bindings \ OfPurpose(bindings, u, stage)) \cup {b}
    BY DEF Bind
<1>2. fresh + 1 \in Token
    BY <1>1, DrawnAndSpent DEF Draw, TypeInv
<1>3. users[u].email \in Emails
    BY DEF TypeInv, AccountsTyped, Exists, Account, Row
<1>4. now + Ttl \in 0 .. MaxTime + Ttl
    BY PrevAssumption DEF TypeInv, ProofsTyped
<1>5. b \in Binding
    BY <1>2, <1>3, <1>4 DEF Binding, Option, Token
<1>6. /\ b.user = u /\ b.stage = stage /\ b.token = fresh + 1 /\ b.old = users[u].email
      /\ b.email = e /\ b.expires = now + Ttl
    OBVIOUS
<1>. HIDE DEF b
<1>. QED
    BY <1>1, <1>5, <1>6

\* The proof that ConfirmOld stores.
LEMMA NextProof ==
    ASSUME TypeInv, NEW b \in bindings, ConfirmOld(b)
    PROVE  \E next \in Binding :
             /\ next.user = b.user /\ next.stage = "new" /\ next.token = fresh + 1
             /\ next.old = b.old /\ next.email = b.email /\ next.expires = now + Ttl /\ Draw
             /\ bindings' = (bindings \ {b}) \cup {next}
             /\ queueBindingEmail(next)
<1>. DEFINE next == [b EXCEPT !.token = fresh + 1, !.stage = "new", !.expires = now + Ttl]
<1>1. /\ Draw /\ queueBindingEmail(next) /\ bindings' = (bindings \ {b}) \cup {next}
    BY DEF ConfirmOld
<1>2. fresh + 1 \in Token
    BY <1>1, DrawnAndSpent DEF Draw, TypeInv
<1>3. now + Ttl \in 0 .. MaxTime + Ttl
    BY PrevAssumption DEF TypeInv, ProofsTyped
<1>4. b \in Binding
    BY DEF TypeInv, MailTyped
<1>5. next \in Binding
    BY <1>2, <1>3, <1>4 DEF Binding, Token
<1>6. /\ next.user = b.user /\ next.stage = "new" /\ next.token = fresh + 1
      /\ next.old = b.old /\ next.email = b.email /\ next.expires = now + Ttl
    BY <1>4 DEF Binding
<1>. HIDE DEF next
<1>. QED
    BY <1>1, <1>5, <1>6

\* The mail of a proof.
LEMMA QueuedTyped ==
    ASSUME TypeInv, NEW b \in Binding, queueBindingEmail(b)
    PROVE  \E d \in Delivery :
             /\ d.token = b.token /\ d.user = b.user /\ d.stage = b.stage
             /\ d.email = Address(b) /\ d.expires = b.expires
             /\ deliveries' = (deliveries \ OfPurpose(deliveries, b.user, b.stage)) \cup {d}
<1>. DEFINE d == [token |-> b.token, user |-> b.user, stage |-> b.stage,
                  email |-> IF b.stage = "old" THEN b.old ELSE b.email,
                  expires |-> b.expires, next |-> now]
<1>1. d \in Delivery
    BY PrevAssumption DEF Binding, Delivery, Token, TypeInv, ProofsTyped
<1>2. /\ d.token = b.token /\ d.user = b.user /\ d.stage = b.stage
      /\ d.email = Address(b) /\ d.expires = b.expires
    BY DEF Address
<1>3. deliveries' = (deliveries \ OfPurpose(deliveries, b.user, b.stage)) \cup {d}
    BY DEF queueBindingEmail
<1>. HIDE DEF d
<1>. QED
    BY <1>1, <1>2, <1>3

\* The steps that touch proofs of addresses and mails.
LEMMA MailFrame ==
    ASSUME Effect
    PROVE  \/ UNCHANGED <<bindings, deliveries, mailbox, courier>>
           \/ MailsReset \/ DrawsReset \/ Binds \/ Confirms
           \/ \E r \in Replicas : \/ Claim(r) \/ Send(r) \/ Postpone(r) \/ DropDelivery(r)
                                  \/ Execute(r)
           \/ \E table \in {"oauth_states", "email_deliveries", "email_bindings",
                            "reauthentication_proofs"} : Cleanup(table)
    BY DEF Effect, tables, mailVars, restVars, Updates, Creates, Links, Redeems, Opens, Wastes,
           ForgetsResets, UsesReset, Accepts, Asks, BeginsSession, Rotates, Ends, TrimSessions,
           ObserveOutbox, Publish, MarkMessageSent, LoseWork, ExecuteAll, SkipDeletion,
           GoogleIdToken, Tick

\* Execute removes one user, or nobody.
LEMMA ExecuteShape ==
    ASSUME TypeInv, NEW r \in Replicas, Execute(r)
    PROVE  \E u \in Users :
             /\ \A q \in Replicas : courier[q] # None => courier[q].user # u
             /\ \/ Removable(u) /\ DeleteUser(u)
                \/ UNCHANGED <<users, requests, activation, resets, bindings, deliveries,
                               proofs, sessions, removed, outbox, work>>
             /\ UNCHANGED <<mailbox, states, issued, calls, fresh, spent, menu, now,
                            courier, handed>>
             /\ doomed' \in [Replicas -> SUBSET Users]
    BY DEF TypeInv, WorkTyped, Execute

\* Proofs of addresses and mails keep their types.
LEMMA MailStep ==
    ASSUME TypeInv, Effect
    PROVE  MailTyped'
<1>. USE DEF TypeInv
<1>1. ASSUME ~\E r \in Replicas : Execute(r)
      PROVE  \A u \in Users : Exists(u) => Exists(u)'
    BY <1>1, AccountsStay
<1>2. \A b \in bindings : b.user \in Users /\ b.token \in Token
    BY DEF MailTyped, Binding, Token
<1>3. ASSUME NEW r \in Replicas, Execute(r)
      PROVE  MailTyped'
    <2>1. PICK u \in Users :
             /\ \/ DeleteUser(u)
                \/ UNCHANGED <<users, bindings, deliveries>>
             /\ UNCHANGED <<mailbox, courier>>
        BY <1>3, ExecuteShape
    <2>. QED
        BY <1>2, <2>1 DEF MailTyped, DeleteUser, AccountsTyped, Exists
<1>4. ASSUME ~\E r \in Replicas : Execute(r),
             \A b \in bindings' : b \in bindings \/ (b \in Binding /\ Exists(b.user)),
             deliveries' \subseteq Delivery, mailbox' \subseteq Letter,
             courier' \in [Replicas -> Delivery \cup {None}]
      PROVE  MailTyped'
    <2>1. ASSUME NEW b \in bindings'
          PROVE  b \in Binding /\ Exists(b.user)'
        <3>1. b \in Binding /\ Exists(b.user)
            BY <1>4, <2>1 DEF MailTyped
        <3>. QED
            BY <1>1, <1>4, <3>1 DEF Binding
    <2>. QED
        BY <1>4, <2>1 DEF MailTyped
<1>. SUFFICES ASSUME ~\E r \in Replicas : Execute(r)
              PROVE  MailTyped'
    BY <1>3
<1>5. CASE UNCHANGED <<bindings, deliveries, mailbox, courier>>
    BY <1>4, <1>5 DEF MailTyped
<1>6. ASSUME NEW code \in Token, NEW e \in Emails, MailReset(code, e)
      PROVE  mailbox' \subseteq Letter
    BY <1>6 DEF MailReset, MailTyped, Letter
<1>7. CASE MailsReset
    <2>1. mailbox' \subseteq Letter
        BY <1>6, <1>7 DEF MailsReset, ProofsTyped, ResetRow
    <2>. QED
        BY <1>4, <1>7, <2>1 DEF MailsReset, restVars, MailTyped
<1>8. CASE DrawsReset
    <2>1. fresh' \in Token
        BY <1>8, DrawnAndSpent DEF DrawsReset
    <2>2. mailbox' \subseteq Letter
        BY <1>6, <1>8, <2>1 DEF DrawsReset
    <2>. QED
        BY <1>4, <1>8, <2>2 DEF DrawsReset, restVars, MailTyped
<1>9. CASE Binds
    <2>1. PICK u \in Users, stage \in {"verify", "old"}, e \in Emails, p \in Option(Passwords) :
             Exists(u) /\ Bind(u, stage, e, p)
        BY <1>9 DEF Binds
    <2>2. PICK b \in Binding :
             /\ b.user = u
             /\ bindings' = (bindings \ OfPurpose(bindings, u, stage)) \cup {b}
             /\ queueBindingEmail(b)
        BY <2>1, BoundTyped
    <2>3. deliveries' \subseteq Delivery
        BY <2>2, QueuedTyped DEF MailTyped
    <2>. QED
        BY <1>4, <1>9, <2>1, <2>2, <2>3 DEF Binds, restVars, MailTyped
<1>10. CASE Confirms
    <2>1. PICK b \in bindings : ConfirmVerify(b) \/ ConfirmOld(b) \/ ConfirmNew(b)
        BY <1>10 DEF Confirms
    <2>2. UNCHANGED <<mailbox, courier>>
        BY <1>10 DEF Confirms, restVars
    <2>3. CASE ConfirmOld(b)
        <3>1. PICK next \in Binding :
                 /\ next.user = b.user
                 /\ bindings' = (bindings \ {b}) \cup {next}
                 /\ queueBindingEmail(next)
            BY <2>3, NextProof
        <3>2. deliveries' \subseteq Delivery
            BY <3>1, QueuedTyped DEF MailTyped
        <3>. QED
            BY <1>4, <2>2, <3>1, <3>2 DEF MailTyped
    <2>4. CASE ConfirmVerify(b) \/ ConfirmNew(b)
        BY <1>4, <2>2, <2>4 DEF ConfirmVerify, ConfirmNew, Finish, MailTyped
    <2>. QED
        BY <2>1, <2>3, <2>4
<1>11. ASSUME NEW r \in Replicas, Claim(r) \/ Send(r) \/ Postpone(r) \/ DropDelivery(r)
       PROVE  MailTyped'
    <2>1. UNCHANGED bindings
        BY <1>11 DEF Claim, Send, Postpone, DropDelivery, mailVars
    <2>2. courier' \in [Replicas -> Delivery \cup {None}]
        BY <1>11 DEF Claim, Send, Postpone, DropDelivery, MailTyped
    <2>3. courier[r] # None => courier[r] \in Delivery
        BY DEF MailTyped
    <2>4. courier[r] # None => Mail(courier[r]) \in Letter
        BY <2>3 DEF Mail, Delivery, Letter
    <2>5. mailbox' \subseteq Letter
        BY <1>11, <2>4 DEF Claim, Send, Postpone, DropDelivery, mailVars, MailTyped
    <2>6. courier[r] # None => [courier[r] EXCEPT !.next = now + 1] \in Delivery
        BY <2>3 DEF Delivery, ProofsTyped
    <2>7. deliveries' \subseteq Delivery
        BY <1>11, <2>6 DEF Claim, Send, Postpone, DropDelivery, mailVars, MailTyped
    <2>. QED
        BY <1>4, <2>1, <2>2, <2>5, <2>7
<1>12. ASSUME NEW table, Cleanup(table)
       PROVE  MailTyped'
    BY <1>4, <1>12 DEF Cleanup, restVars, MailTyped
<1>. QED
    BY <1>5, <1>7, <1>8, <1>9, <1>10, <1>11, <1>12, MailFrame

\* Background work keeps its types.
LEMMA WorkStep ==
    ASSUME TypeInv, Effect
    PROVE  WorkTyped'
<1>. USE DEF TypeInv
<1>1. \A msg \in ProfileEvents : /\ [kind |-> "publish", msg |-> msg] \in Publication
                                 /\ [kind |-> "mark", msg |-> msg] \in Publication
    BY DEF Publication
<1>2. \A w \in work : /\ w.kind = "firebase" => w.user \in Users
                      /\ w.kind \in {"publish", "mark"} => w.msg \in ProfileEvents
    BY DEF WorkTyped, Trim, Link, Publication
<1>3. CASE Creates
    <2>1. PICK u \in Users, row \in Account, g \in SUBSET Link : CreateUser(u, row, g)
        BY <1>3 DEF Creates
    <2>2. /\ outbox' = outbox \cup {Created(u)}
          /\ work' = work \cup g \cup {[kind |-> "publish", msg |-> Created(u)]}
        BY <2>1 DEF CreateUser, createOutboxMsg
    <2>3. Created(u) \in ProfileEvents /\ UNCHANGED doomed
        BY <1>3 DEF Creates, restVars, Created, ProfileEvents
    <2>4. [kind |-> "publish", msg |-> Created(u)] \in Publication
        BY <1>1, <2>3
    <2>5. \E m \in ProfileEvents, x \in Publication :
             outbox' = outbox \cup {m} /\ work' = work \cup g \cup {x}
        BY <2>2, <2>3, <2>4
    <2>. QED
        BY <2>3, <2>5 DEF WorkTyped
<1>4. CASE Links
    <2>1. PICK w \in work :
             /\ w.kind = "firebase"
             /\ \/ /\ outbox' = outbox \cup {Imported(w.user)}
                   /\ work' = (work \ {w}) \cup {[kind |-> "publish", msg |-> Imported(w.user)]}
                \/ work' = work \ {w} /\ UNCHANGED outbox
        BY <1>4 DEF Links
    <2>0. w.user \in Users
        BY <2>1 DEF WorkTyped, Trim, Link, Publication
    <2>a. UNCHANGED doomed
        BY <1>4 DEF Links, restVars
    <2>b. Imported(w.user) \in ProfileEvents
        BY <2>0 DEF Imported, ProfileEvents
    <2>2. Imported(w.user) \in ProfileEvents /\ UNCHANGED doomed
        BY <2>a, <2>b
    <2>3. CASE work' = work \ {w} /\ UNCHANGED outbox
        BY <2>2, <2>3 DEF WorkTyped
    <2>4. CASE /\ outbox' = outbox \cup {Imported(w.user)}
               /\ work' = (work \ {w}) \cup {[kind |-> "publish", msg |-> Imported(w.user)]}
        <3>1. [kind |-> "publish", msg |-> Imported(w.user)] \in Publication
            BY <1>1, <2>2
        <3>2. \E m \in ProfileEvents, x \in Publication :
                 outbox' = outbox \cup {m} /\ work' = (work \ {w}) \cup {x}
            BY <2>2, <2>4, <3>1
        <3>. QED
            BY <2>2, <3>2 DEF WorkTyped
    <2>. QED
        BY <2>1, <2>3, <2>4
<1>5. CASE BeginsSession
    <2>1. fresh' \in Token
        BY <1>5, DrawnAndSpent DEF BeginsSession
    <2>2. \A u \in Users : [kind |-> "trim", user |-> u, id |-> fresh'] \in Trim
        BY <2>1 DEF Trim
    <2>. QED
        BY <1>5, <2>2 DEF BeginsSession, restVars, WorkTyped
<1>6. CASE TrimSessions \/ MarkMessageSent \/ LoseWork
    BY <1>6 DEF TrimSessions, MarkMessageSent, LoseWork, restVars, WorkTyped
<1>7. CASE ObserveOutbox
    BY <1>1, <1>7 DEF ObserveOutbox, PendingMessages, restVars, WorkTyped
<1>8. CASE Publish
    BY <1>1, <1>2, <1>8 DEF Publish, WorkTyped
<1>9. ASSUME NEW r \in Replicas, Execute(r)
      PROVE  WorkTyped'
    <2>1. PICK u \in Users :
             /\ (Removable(u) /\ DeleteUser(u)) \/ UNCHANGED <<outbox, work>>
             /\ doomed' \in [Replicas -> SUBSET Users]
        BY <1>9, ExecuteShape
    <2>2. CASE UNCHANGED <<outbox, work>>
        BY <2>1, <2>2 DEF WorkTyped
    <2>3. CASE Removable(u) /\ DeleteUser(u)
        <3>1. /\ outbox' = outbox \cup {Deleted(u)}
              /\ work' = work \cup {} \cup {[kind |-> "publish", msg |-> Deleted(u)]}
            BY <2>3 DEF DeleteUser, createOutboxMsg
        <3>2. Deleted(u) \in ProfileEvents
            BY <2>3 DEF Deleted, ProfileEvents, Removable, Due, AccountsTyped, Request
        <3>3. [kind |-> "publish", msg |-> Deleted(u)] \in Publication
            BY <1>1, <3>2
        <3>4. \E m \in ProfileEvents, x \in Publication :
                 outbox' = outbox \cup {m} /\ work' = work \cup {x}
            BY <3>1, <3>2, <3>3
        <3>. QED
            BY <2>1, <3>4 DEF WorkTyped
    <2>. QED
        BY <2>1, <2>2, <2>3
<1>10. ASSUME NEW r \in Replicas, ExecuteAll(r) \/ SkipDeletion(r)
       PROVE  WorkTyped'
    BY <1>10 DEF ExecuteAll, SkipDeletion, GetProfilesToDelete, WorkTyped
<1>11. CASE UNCHANGED <<outbox, work, doomed>>
    BY <1>11 DEF WorkTyped
<1>12. \/ UNCHANGED <<outbox, work, doomed>>
       \/ Creates \/ Links \/ BeginsSession \/ TrimSessions \/ MarkMessageSent \/ LoseWork
       \/ ObserveOutbox \/ Publish
       \/ \E r \in Replicas : Execute(r) \/ ExecuteAll(r) \/ SkipDeletion(r)
    BY DEF Effect, tables, restVars, Updates, Redeems, Opens, Wastes, ForgetsResets, MailsReset,
           DrawsReset, UsesReset, Binds, Confirms, Accepts, Asks, Rotates, Ends, Claim, Send,
           Postpone, DropDelivery, Cleanup, GoogleIdToken, Tick
<1>. QED
    BY <1>3, <1>4, <1>5, <1>6, <1>7, <1>8, <1>9, <1>10, <1>11, <1>12

\* The behaviours begin with typed tables.
LEMMA TypeInit ==
    ASSUME PrevInit
    PROVE  TypeInv
<1>1. PICK scene \in Scenes :
         /\ users = scene.accounts
         /\ calls = [c \in Callers |-> IF c \in scene.callers THEN Idle ELSE Done]
    BY DEF PrevInit
<1>2. users \in [Users -> Account \cup {None}]
    BY <1>1, SceneAssumption DEF Account
<1>3. AccountsTyped
    BY <1>2 DEF PrevInit, AccountsTyped
<1>4. ProofsTyped
    BY PrevAssumption DEF PrevInit, ProofsTyped, Token
<1>5. MailTyped /\ WorkTyped
    BY DEF PrevInit, MailTyped, WorkTyped
<1>6. CallsTyped
    BY <1>1 DEF CallsTyped, Call
<1>. QED
    BY <1>3, <1>4, <1>5, <1>6 DEF TypeInv

\* Every step keeps the types.
LEMMA TypeStep ==
    ASSUME TypeInv, [PrevNext]_prevVars
    PROVE  TypeInv'
<1>1. Effect
    BY StepEffects
<1>2. issued \subseteq issued'
    BY <1>1 DEF Effect, tables, flowVars, restVars, Updates, Creates, Links, Redeems, Opens,
        Wastes, ForgetsResets, MailsReset, DrawsReset, UsesReset, Binds, Confirms, Accepts,
        Asks, BeginsSession, Rotates, Ends, TrimSessions, ObserveOutbox, Publish,
        MarkMessageSent, LoseWork, Claim, Send, Postpone, DropDelivery, ExecuteAll, Execute,
        SkipDeletion, Cleanup, GoogleIdToken, Tick
<1>3. Issued \subseteq Issued'
    BY <1>2 DEF Issued
<1>4. ChangeCall \subseteq ChangeCall' /\ DeletionCall \subseteq DeletionCall'
    BY <1>3 DEF ChangeCall, DeletionCall, Option
<1>5. Call \subseteq Call'
    BY <1>4 DEF Call
<1>6. CallsTyped'
    BY <1>5, CallsStep DEF CallsTyped
<1>. QED
    BY <1>1, <1>6, AccountsStep, ProofsStep, MailStep, WorkStep DEF TypeInv

\* Requests, tables and background work of the previous service keep their
\* types: no request acts with an argument that it has not checked, no row
\* of an account loses its address or its last way in.
THEOREM PrevTypes == PrevSpec => []TypeInv
<1>1. PrevInit => TypeInv
    BY TypeInit
<1>2. TypeInv /\ [PrevNext]_prevVars => TypeInv'
    BY TypeStep
<1>. QED
    BY <1>1, <1>2, PTL DEF PrevSpec

\* The tables keep the types the run checks.
THEOREM PrevTypeTheorem == PrevSpec => []PrevTypeOK
<1>1. TypeInv => PrevTypeOK
    BY DEF TypeInv, AccountsTyped, ProofsTyped, MailTyped, Account, Token, PrevTypeOK
<1>. QED
    BY <1>1, PrevTypes, PTL

\* An account always has a way in, whatever disconnectIdentity, SetPassword and
\* the sign-ups do with what they read earlier (repository/postgres/oauth.go).
THEOREM SignInMethodTheorem == PrevSpec => []KeepsSignInMethod
<1>1. TypeInv => KeepsSignInMethod
    BY DEF TypeInv, AccountsTyped, KeepsSignInMethod, Exists, Account
<1>. QED
    BY <1>1, PrevTypes, PTL

\* A deletion request that is due is final: lockDeletion refuses updates and
\* cancellations, and DeleteUser alone takes it, with the user.
THEOREM DueRequestTheorem == PrevSpec => DueRequestIsFinal
<1>. DEFINE P == \A u \in Users :
               /\ (Exists(u) /\ ~Exists(u)') => Due(u)
               /\ (Due(u) /\ requests'[u] # requests[u]) =>
                     /\ ~Exists(u)'
                     /\ [type |-> "deleted", user |-> u, shared |-> requests[u].shared]
                           \in outbox'
<1>1. ASSUME TypeInv, [PrevNext]_prevVars
      PROVE  [P]_prevVars
    <2>1. Effect
        BY <1>1, StepEffects
    <2>2. ASSUME NEW r \in Replicas, Execute(r)
          PROVE  P
        <3>1. PICK v \in Users :
                 \/ Removable(v) /\ DeleteUser(v)
                 \/ UNCHANGED <<users, requests>>
            BY <1>1, <2>2, ExecuteShape
        <3>2. CASE UNCHANGED <<users, requests>>
            BY <3>2 DEF Exists
        <3>3. CASE Removable(v) /\ DeleteUser(v)
            <4>1. \A u \in Users : u # v => users'[u] = users[u] /\ requests'[u] = requests[u]
                BY <1>1, <3>3 DEF DeleteUser, TypeInv, AccountsTyped
            <4>2. users'[v] = None /\ Deleted(v) \in outbox' /\ Due(v)
                BY <1>1, <3>3 DEF DeleteUser, TypeInv, AccountsTyped, createOutboxMsg, Removable
            <4>. QED
                BY <4>1, <4>2 DEF Exists, Deleted
        <3>. QED
            BY <3>1, <3>2, <3>3
    <2>3. ASSUME ~\E r \in Replicas : Execute(r)
          PROVE  P
        <3>1. \A u \in Users : Exists(u) => Exists(u)'
            BY <1>1, <2>1, <2>3, AccountsStay
        <3>2. UNCHANGED requests \/ Asks
            BY <2>1, <2>3, AccountFrame
            DEF Updates, Creates, Links, UsesReset, Confirms
        <3>3. \A u \in Users : Due(u) => requests'[u] = requests[u]
            BY <1>1, <3>2 DEF Asks, TypeInv, AccountsTyped
        <3>. QED
            BY <3>1, <3>3
    <2>. QED
        BY <2>2, <2>3
<1>. HIDE DEF P
<1>2. PrevSpec => [][P]_prevVars
    BY <1>1, PrevTypes, PTL DEF PrevSpec
<1>. QED
    BY <1>2 DEF P, DueRequestIsFinal
-----------------------------------------------------------------------------
(* One-time tokens are used once *)

\* What a step does to tokens: rows of one kind may get the token just drawn, and
\* a token that is used is not usable afterwards, unless it is an id token.
Moves(new) ==
    /\ fresh' = fresh \/ fresh' = fresh + 1
    /\ \A k \in Kinds : \A t \in Bearing'[k] :
          t \in Bearing[k] \/ (k = new /\ t = fresh + 1 /\ fresh' = fresh + 1)
    /\ \A t \in Usable' : t \in Usable \/ (t = fresh + 1 /\ fresh' = fresh + 1)
    /\ \/ spent' = spent
       \/ \E t \in Usable : t \notin Usable' /\ Spend(t)
       \/ \E t \in Issued : Spend(t)

\* The tokens of rows follow from the rows.
LEMMA RowsMove ==
    ASSUME NEW new \in Kinds,
           \A r \in resets' : \/ \E o \in resets : o.code = r.code /\ (o.used => r.used)
                              \/ new = "reset" /\ r.code = fresh + 1 /\ fresh' = fresh + 1,
           \A s \in sessions' : \/ \E o \in sessions : o.token = s.token
                                \/ new = "session" /\ s.token = fresh + 1
                                   /\ fresh' = fresh + 1,
           \A s \in states' : \/ \E o \in states : o.token = s.token
                              \/ new = "state" /\ s.token = fresh + 1 /\ fresh' = fresh + 1,
           \A b \in bindings' : \/ \E o \in bindings : o.token = b.token
                                \/ new = "binding" /\ b.token = fresh + 1
                                   /\ fresh' = fresh + 1,
           \A i \in issued' : \/ \E o \in issued : o.token = i.token
                              \/ new = "idToken" /\ i.token = fresh + 1
                                 /\ fresh' = fresh + 1
    PROVE  /\ \A k \in Kinds : \A t \in Bearing'[k] :
                 t \in Bearing[k] \/ (k = new /\ t = fresh + 1 /\ fresh' = fresh + 1)
           /\ \A t \in Usable' : t \in Usable \/ (t = fresh + 1 /\ fresh' = fresh + 1)
<1>1. ASSUME NEW k \in Kinds, NEW t \in Bearing'[k]
      PROVE  t \in Bearing[k] \/ (k = new /\ t = fresh + 1 /\ fresh' = fresh + 1)
    <2>1. CASE k = "reset"
        BY <1>1, <2>1 DEF Bearing
    <2>2. CASE k = "session"
        BY <1>1, <2>2 DEF Bearing
    <2>3. CASE k = "state"
        BY <1>1, <2>3 DEF Bearing
    <2>4. CASE k = "binding"
        BY <1>1, <2>4 DEF Bearing
    <2>5. CASE k = "idToken"
        BY <1>1, <2>5 DEF Bearing, Issued
    <2>. QED
        BY <2>1, <2>2, <2>3, <2>4, <2>5 DEF Kinds
<1>2. ASSUME NEW t \in Usable'
      PROVE  t \in Usable \/ (t = fresh + 1 /\ fresh' = fresh + 1)
    BY <1>2 DEF Usable
<1>. QED
    BY <1>1, <1>2

\* Usable tokens are borne; rows have tokens.
LEMMA BorneTokens ==
    ASSUME TypeInv
    PROVE  /\ \A t \in Usable : t \in Token /\ \E k \in Kinds \ {"idToken"} : t \in Bearing[k]
           /\ \A k \in Kinds : Bearing[k] \subseteq Token
           /\ Issued \subseteq Token /\ Bearing["idToken"] = Issued
<1>1. ASSUME NEW t \in Usable
      PROVE  \E k \in Kinds \ {"idToken"} : t \in Bearing[k]
    <2>1. \/ t \in Bearing["reset"] \/ t \in Bearing["session"]
          \/ t \in Bearing["state"] \/ t \in Bearing["binding"]
        BY <1>1 DEF Usable, Bearing
    <2>. QED
        BY <2>1 DEF Kinds
<1>2. ASSUME NEW k \in Kinds
      PROVE  Bearing[k] \subseteq Token
    <2>1. CASE k = "reset"
        BY <2>1 DEF Bearing, TypeInv, ProofsTyped, ResetRow
    <2>2. CASE k = "session"
        BY <2>2 DEF Bearing, TypeInv, ProofsTyped, SessionRow
    <2>3. CASE k = "state"
        BY <2>3 DEF Bearing, TypeInv, ProofsTyped, StateRow
    <2>4. CASE k = "binding"
        BY <2>4 DEF Bearing, TypeInv, MailTyped, Binding, Token
    <2>5. CASE k = "idToken"
        BY <2>5 DEF Bearing, TypeInv, ProofsTyped, IdToken, Issued
    <2>. QED
        BY <2>1, <2>2, <2>3, <2>4, <2>5 DEF Kinds
<1>3. Bearing["idToken"] = Issued /\ "idToken" \in Kinds
    BY DEF Bearing, Kinds
<1>. QED
    BY <1>1, <1>2, <1>3
\* A step that draws or not, keeps the ghost, and adds rows of one kind.
LEMMA DrawMoves ==
    ASSUME NEW new \in Kinds, UNCHANGED spent, fresh' = fresh \/ fresh' = fresh + 1,
           \A r \in resets' : \/ r \in resets
                              \/ new = "reset" /\ r.code = fresh + 1 /\ fresh' = fresh + 1,
           \A s \in sessions' : \/ s \in sessions
                                \/ new = "session" /\ s.token = fresh + 1
                                   /\ fresh' = fresh + 1,
           \A s \in states' : \/ s \in states
                              \/ new = "state" /\ s.token = fresh + 1 /\ fresh' = fresh + 1,
           \A b \in bindings' : \/ b \in bindings
                                \/ new = "binding" /\ b.token = fresh + 1
                                   /\ fresh' = fresh + 1,
           \A i \in issued' : \/ i \in issued
                              \/ new = "idToken" /\ i.token = fresh + 1
                                 /\ fresh' = fresh + 1
    PROVE  Moves(new)
<1>1. \A r \in resets' : \/ \E o \in resets : o.code = r.code /\ (o.used => r.used)
                         \/ new = "reset" /\ r.code = fresh + 1 /\ fresh' = fresh + 1
    OBVIOUS
<1>2. /\ \A k \in Kinds : \A t \in Bearing'[k] :
            t \in Bearing[k] \/ (k = new /\ t = fresh + 1 /\ fresh' = fresh + 1)
      /\ \A t \in Usable' : t \in Usable \/ (t = fresh + 1 /\ fresh' = fresh + 1)
    BY <1>1, RowsMove
<1>. QED
    BY <1>2 DEF Moves

\* Steps that use no token.
LEMMA UnspentMoves ==
    ASSUME TypeInv, Effect
    PROVE  \/ \E new \in Kinds : Moves(new)
           \/ Redeems \/ UsesReset \/ Confirms \/ Accepts \/ Rotates
<1>0. /\ "reset" \in Kinds /\ "session" \in Kinds /\ "state" \in Kinds
      /\ "binding" \in Kinds /\ "idToken" \in Kinds
    BY DEF Kinds
<1>1. CASE UNCHANGED <<resets, sessions, states, proofs, issued, now, fresh, spent, bindings,
                       removed>>
    BY <1>0, <1>1, DrawMoves
<1>2. CASE Opens
    <2>1. \A s \in states' : s \in states \/ s.token = fresh + 1
        BY <1>2 DEF Opens, CreateOAuthState, Draw
    <2>. QED
        BY <1>0, <1>2, <2>1, DrawMoves DEF Opens, CreateOAuthState, Draw, mailVars
<1>3. CASE Wastes
    BY <1>0, <1>3, DrawMoves DEF Wastes, Draw, mailVars, flowVars
<1>4. CASE ForgetsResets
    BY <1>0, <1>4, DrawMoves DEF ForgetsResets, mailVars, flowVars
<1>5. CASE DrawsReset
    <2>1. \A r \in resets' : r \in resets \/ r.code = fresh + 1
        BY <1>5 DEF DrawsReset, Draw
    <2>. QED
        BY <1>0, <1>5, <2>1, DrawMoves DEF DrawsReset, Draw, flowVars
<1>6. CASE Binds
    <2>1. PICK u \in Users, stage \in {"verify", "old"}, e \in Emails, p \in Option(Passwords) :
             Exists(u) /\ Bind(u, stage, e, p)
        BY <1>6 DEF Binds
    <2>2. PICK b \in Binding :
             /\ b.token = fresh + 1 /\ Draw
             /\ bindings' = (bindings \ OfPurpose(bindings, u, stage)) \cup {b}
        BY <2>1, BoundTyped
    <2>3. \A x \in bindings' : x \in bindings \/ x.token = fresh + 1
        BY <2>2
    <2>. QED
        BY <1>0, <1>6, <2>2, <2>3, DrawMoves DEF Binds, Draw, flowVars
<1>7. CASE BeginsSession
    <2>1. \A s \in sessions' : s \in sessions \/ s.token = fresh + 1
        BY <1>7 DEF BeginsSession, NewSession
    <2>. QED
        BY <1>0, <1>7, <2>1, DrawMoves DEF BeginsSession, Draw, mailVars, flowVars
<1>8. CASE Ends
    BY <1>0, <1>8, DrawMoves DEF Ends, mailVars, flowVars
<1>9. CASE TrimSessions
    <2>1. \A s \in sessions' : s \in sessions
        BY <1>9 DEF TrimSessions, Newest, SessionsOf
    <2>. QED
        BY <1>0, <1>9, <2>1, DrawMoves DEF TrimSessions, mailVars, flowVars
<1>10. ASSUME NEW r \in Replicas, Execute(r)
       PROVE  \E new \in Kinds : Moves(new)
    <2>1. /\ resets' \subseteq resets /\ sessions' \subseteq sessions
          /\ bindings' \subseteq bindings /\ UNCHANGED <<states, issued, fresh, spent>>
        BY <1>10 DEF Execute, DeleteUser
    <2>. QED
        BY <1>0, <2>1, DrawMoves
<1>11. CASE GoogleIdToken
    <2>1. \A i \in issued' : i \in issued \/ i.token = fresh + 1
        BY <1>11 DEF GoogleIdToken, Draw
    <2>. QED
        BY <1>0, <1>11, <2>1, DrawMoves DEF GoogleIdToken, Draw, mailVars
<1>12. CASE Tick
    BY <1>0, <1>12, DrawMoves DEF Tick, mailVars, flowVars
<1>13. ASSUME NEW table, Cleanup(table)
       PROVE  \E new \in Kinds : Moves(new)
    <2>1. /\ states' \subseteq states /\ bindings' \subseteq bindings
          /\ UNCHANGED <<resets, sessions, issued, fresh, spent>>
        BY <1>13 DEF Cleanup
    <2>. QED
        BY <1>0, <2>1, DrawMoves
<1>. QED
    BY <1>1, <1>2, <1>3, <1>4, <1>5, <1>6, <1>7, <1>8, <1>9, <1>10, <1>11, <1>12, <1>13,
       TokenFrame
\* A token whose row is gone or used is not usable.
LEMMA UsedUp ==
    ASSUME TypeInv, TokensAreDrawn, TokensMeanOneThing, NEW new \in Kinds, NEW k \in Kinds,
           NEW t \in Bearing[k],
           \A l \in Kinds : \A o \in Bearing'[l] :
               o \in Bearing[l] \/ (l = new /\ o = fresh + 1 /\ fresh' = fresh + 1),
           k = "reset" => \A r \in resets' : r.code = t => r.used,
           k # "reset" => t \notin Bearing'[k]
    PROVE  t \notin Usable'
<1>0. t \in Token /\ t # fresh + 1
    BY BorneTokens DEF TokensAreDrawn, TypeInv, ProofsTyped, Token
<1>1. ASSUME NEW l \in Kinds, t \in Bearing'[l]
      PROVE  l = k
    BY <1>0, <1>1 DEF TokensMeanOneThing
<1>2. SUFFICES ASSUME t \in Usable' PROVE FALSE
    OBVIOUS
<1>3. \/ t \in Bearing'["reset"] /\ \E r \in resets' : r.code = t /\ ~r.used
      \/ t \in Bearing'["session"] \/ t \in Bearing'["state"] \/ t \in Bearing'["binding"]
    BY <1>2 DEF Usable, Bearing
<1>. QED
    BY <1>1, <1>3 DEF Kinds

\* A rotation finds one session by its token and gives it the next.
LEMMA RotatedRow ==
    ASSUME TypeInv, TokensAreKeys, Rotates
    PROVE  \E x \in sessions, new \in sessions' :
             /\ new.id = x.id /\ new.user = x.user /\ new.token = fresh + 1
             /\ sessions' = (sessions \ {x}) \cup {new}
             /\ Spend(x.token) /\ fresh' = fresh + 1
<1>1. PICK t \in Token :
         LET row == {s \in ByRefreshToken(t) : Live(s)}
         IN  /\ row # {}
             /\ sessions' = (sessions \ row) \cup
                  {[s EXCEPT !.token = fresh', !.expires = now + Ttl] : s \in row}
             /\ Spend(t)
    BY DEF Rotates
<1>2. PICK x \in sessions : x.token = t /\ Live(x)
    BY <1>1 DEF ByRefreshToken
<1>3. {s \in ByRefreshToken(t) : Live(s)} = {x}
    BY <1>2 DEF TokensAreKeys, ByRefreshToken
<1>4. sessions' = (sessions \ {x}) \cup
         {[s EXCEPT !.token = fresh', !.expires = now + Ttl] : s \in {x}}
    BY <1>1, <1>3
<1>5. fresh' = fresh + 1
    BY DEF Rotates, Draw
<1>. DEFINE new == [x EXCEPT !.token = fresh', !.expires = now + Ttl]
<1>6. /\ new.id = x.id /\ new.user = x.user /\ new.token = fresh + 1
      /\ sessions' = (sessions \ {x}) \cup {new}
    BY <1>4, <1>5 DEF TypeInv, ProofsTyped, SessionRow
<1>. HIDE DEF new
<1>. QED
    BY <1>1, <1>2, <1>5, <1>6

\* Steps that use a token.
LEMMA SpentMoves ==
    ASSUME TypeInv, TokensAreDrawn, TokensMeanOneThing, TokensAreKeys,
           Redeems \/ UsesReset \/ Confirms \/ Accepts \/ Rotates
    PROVE  \E new \in Kinds : Moves(new)
<1>0. /\ "reset" \in Kinds /\ "session" \in Kinds /\ "state" \in Kinds
      /\ "binding" \in Kinds /\ "idToken" \in Kinds
    BY DEF Kinds
<1>1. CASE Redeems
    <2>1. PICK s \in states : states' = states \ {s} /\ Spend(s.token)
        BY <1>1 DEF Redeems
    <2>2. UNCHANGED <<resets, sessions, bindings, issued, fresh>>
        BY <1>1 DEF Redeems, mailVars
    <2>3. /\ \A k \in Kinds : \A t \in Bearing'[k] :
                t \in Bearing[k] \/ (k = "state" /\ t = fresh + 1 /\ fresh' = fresh + 1)
          /\ \A t \in Usable' : t \in Usable \/ (t = fresh + 1 /\ fresh' = fresh + 1)
        BY <1>0, <2>1, <2>2, RowsMove
    <2>4. s.token \in Bearing["state"] /\ s.token \in Usable
        BY DEF Bearing, Usable
    <2>5. s.token \notin Bearing'["state"]
        BY <2>1 DEF Bearing, TokensAreKeys
    <2>6. s.token \notin Usable'
        BY <1>0, <2>3, <2>4, <2>5, UsedUp
    <2>. QED
        BY <1>0, <2>1, <2>2, <2>3, <2>4, <2>6 DEF Moves
<1>2. CASE UsesReset
    <2>1. PICK u \in Users, code \in Token :
             LET proof == {r \in resets : r.user = u /\ r.code = code /\ ~r.used /\ Live(r)}
             IN  /\ proof # {}
                 /\ resets' = (resets \ proof) \cup {[r EXCEPT !.used = TRUE] : r \in proof}
                 /\ Spend(code)
        BY <1>2 DEF UsesReset
    <2>2. PICK r \in resets : /\ r.code = code /\ ~r.used
                              /\ resets' = (resets \ {r}) \cup {[r EXCEPT !.used = TRUE]}
        <3>1. PICK r \in resets : r.user = u /\ r.code = code /\ ~r.used /\ Live(r)
            BY <2>1
        <3>2. {x \in resets : x.user = u /\ x.code = code /\ ~x.used /\ Live(x)} = {r}
            BY <3>1 DEF TokensAreKeys
        <3>3. resets' = (resets \ {r}) \cup {[x EXCEPT !.used = TRUE] : x \in {r}}
            BY <2>1, <3>2
        <3>. QED
            BY <3>1, <3>3
    <2>3. [r EXCEPT !.used = TRUE].code = code /\ [r EXCEPT !.used = TRUE].used
        BY <2>2 DEF TypeInv, ProofsTyped, ResetRow
    <2>4. UNCHANGED <<sessions, states, bindings, issued, fresh>>
        BY <1>2 DEF UsesReset, mailVars, flowVars
    <2>5. \A x \in resets' : \E o \in resets : o.code = x.code /\ (o.used => x.used)
        BY <2>2, <2>3
    <2>6. /\ \A k \in Kinds : \A t \in Bearing'[k] :
                t \in Bearing[k] \/ (k = "reset" /\ t = fresh + 1 /\ fresh' = fresh + 1)
          /\ \A t \in Usable' : t \in Usable \/ (t = fresh + 1 /\ fresh' = fresh + 1)
        BY <1>0, <2>4, <2>5, RowsMove
    <2>7. code \in Bearing["reset"] /\ code \in Usable
        BY <2>2 DEF Bearing, Usable
    <2>8. \A x \in resets' : x.code = code => x.used
        BY <2>2, <2>3 DEF TokensAreKeys
    <2>9. code \notin Usable'
        BY <1>0, <2>6, <2>7, <2>8, UsedUp
    <2>. QED
        BY <1>0, <2>1, <2>4, <2>6, <2>7, <2>9 DEF Moves
<1>3. CASE Confirms
    <2>1. PICK b \in bindings :
             Spend(b.token) /\ (ConfirmVerify(b) \/ ConfirmOld(b) \/ ConfirmNew(b))
        BY <1>3 DEF Confirms
    <2>2. UNCHANGED <<sessions, states, issued>> /\ resets' \subseteq resets
        BY <1>3, <2>1 DEF Confirms, flowVars, ConfirmVerify, ConfirmOld, ConfirmNew
    <2>3. /\ fresh' = fresh \/ fresh' = fresh + 1
          /\ \A x \in bindings' : \/ x \in bindings /\ x # b
                                  \/ x.token = fresh + 1 /\ fresh' = fresh + 1
        <3>1. CASE ConfirmOld(b)
            <4>1. PICK next \in Binding : /\ next.token = fresh + 1 /\ Draw
                                          /\ bindings' = (bindings \ {b}) \cup {next}
                BY <3>1, NextProof
            <4>. QED
                BY <4>1 DEF Draw
        <3>2. CASE ConfirmVerify(b) \/ ConfirmNew(b)
            BY <3>2 DEF ConfirmVerify, ConfirmNew, Finish
        <3>. QED
            BY <2>1, <3>1, <3>2
    <2>4. /\ \A k \in Kinds : \A t \in Bearing'[k] :
                t \in Bearing[k] \/ (k = "binding" /\ t = fresh + 1 /\ fresh' = fresh + 1)
          /\ \A t \in Usable' : t \in Usable \/ (t = fresh + 1 /\ fresh' = fresh + 1)
        BY <1>0, <2>2, <2>3, RowsMove
    <2>5. b.token \in Bearing["binding"] /\ b.token \in Usable
        BY DEF Bearing, Usable
    <2>6. b.token # fresh + 1
        BY <1>0, <2>5, BorneTokens DEF TokensAreDrawn, TypeInv, ProofsTyped, Token
    <2>7. b.token \notin Bearing'["binding"]
        BY <2>3, <2>6 DEF Bearing, TokensAreKeys
    <2>8. b.token \notin Usable'
        BY <1>0, <2>4, <2>5, <2>7, UsedUp
    <2>. QED
        BY <1>0, <2>1, <2>3, <2>4, <2>5, <2>8 DEF Moves
<1>4. CASE Accepts
    <2>1. PICK t \in Issued : Spend(t)
        BY <1>4 DEF Accepts
    <2>2. UNCHANGED <<resets, sessions, states, bindings, issued, fresh>>
        BY <1>4 DEF Accepts, mailVars
    <2>3. /\ \A k \in Kinds : \A o \in Bearing'[k] :
                o \in Bearing[k] \/ (k = "idToken" /\ o = fresh + 1 /\ fresh' = fresh + 1)
          /\ \A o \in Usable' : o \in Usable \/ (o = fresh + 1 /\ fresh' = fresh + 1)
        BY <1>0, <2>2, RowsMove
    <2>. QED
        BY <1>0, <2>1, <2>2, <2>3 DEF Moves
<1>5. CASE Rotates
    <2>1. PICK x \in sessions, new \in sessions' :
             /\ new.token = fresh + 1 /\ sessions' = (sessions \ {x}) \cup {new}
             /\ Spend(x.token) /\ fresh' = fresh + 1
        BY <1>5, RotatedRow
    <2>2. UNCHANGED <<resets, states, bindings, issued>>
        BY <1>5 DEF Rotates, mailVars, flowVars
    <2>3. \A s \in sessions' : (s \in sessions /\ s # x) \/ s.token = fresh + 1
        BY <2>1
    <2>4. /\ \A k \in Kinds : \A o \in Bearing'[k] :
                o \in Bearing[k] \/ (k = "session" /\ o = fresh + 1 /\ fresh' = fresh + 1)
          /\ \A o \in Usable' : o \in Usable \/ (o = fresh + 1 /\ fresh' = fresh + 1)
        BY <1>0, <2>1, <2>2, <2>3, RowsMove
    <2>5. x.token \in Bearing["session"] /\ x.token \in Usable
        BY DEF Bearing, Usable
    <2>6. x.token # fresh + 1
        BY <1>0, <2>5, BorneTokens DEF TokensAreDrawn, TypeInv, ProofsTyped, Token
    <2>7. x.token \notin Bearing'["session"]
        BY <2>3, <2>6 DEF Bearing, TokensAreKeys
    <2>8. x.token \notin Usable'
        BY <1>0, <2>4, <2>5, <2>7, UsedUp
    <2>. QED
        BY <1>0, <2>1, <2>4, <2>5, <2>8 DEF Moves
<1>. QED
    BY <1>1, <1>2, <1>3, <1>4, <1>5
\* Id tokens stay; a new one is dated at most Skew ahead.
LEMMA IssuedStay ==
    ASSUME TypeInv, Effect
    PROVE  /\ issued \subseteq issued'
           /\ \A i \in issued' : \/ i \in issued
                                 \/ /\ i.token = fresh + 1 /\ i.at <= now + Skew
                                    /\ UNCHANGED <<spent, now>>
           /\ \A x, y \in issued' : \/ x \in issued \/ y \in issued \/ x = y
<1>1. CASE GoogleIdToken
    <2>1. PICK sub \in Subjects, at \in now .. now + Skew :
             issued' = issued \cup {[token |-> fresh', subject |-> sub, at |-> at]}
        BY <1>1 DEF GoogleIdToken
    <2>2. fresh' = fresh + 1 /\ at <= now + Skew /\ UNCHANGED <<spent, now>>
        BY <1>1, PrevAssumption DEF GoogleIdToken, Draw, TypeInv, ProofsTyped, restVars
    <2>. QED
        BY <2>1, <2>2
<1>2. CASE UNCHANGED issued
    BY <1>2
<1>3. GoogleIdToken \/ UNCHANGED issued
    BY TokenFrame
    DEF Redeems, Opens, Wastes, ForgetsResets, DrawsReset, UsesReset, Binds, Confirms, Accepts,
        BeginsSession, Rotates, Ends, TrimSessions, Execute, Tick, Cleanup, flowVars
<1>. QED
    BY <1>1, <1>2, <1>3

\* What the tables of tokens need of Moves.
LEMMA MovesKeep ==
    ASSUME TypeInv, TokenInv, NEW new \in Kinds, Moves(new), Issued \subseteq Issued',
           ProofsTyped'
    PROVE  TokensAreDrawn' /\ TokensMeanOneThing' /\ UsableIsUnspent' /\ OthersSpentOnce'
<1>0. /\ fresh \in Nat /\ fresh' \in Nat
      /\ \A t \in Token : t \in Nat /\ spent[t] \in 0 .. 2 /\ spent'[t] \in 0 .. 2
    BY DEF TypeInv, ProofsTyped, Token
<1>1. /\ \A k \in Kinds : \A t \in Bearing[k] : t \in Token /\ t \in Nat /\ t <= fresh
      /\ \A t \in Usable : t \in Token /\ t <= fresh /\ spent[t] = 0
      /\ \A t \in Issued : t \in Token /\ t <= fresh
      /\ \A t \in Usable : t \notin Issued
    <2>1. \A k \in Kinds : \A t \in Bearing[k] : t \in Token /\ t \in Nat /\ t <= fresh
        BY <1>0, BorneTokens DEF TokenInv, TokensAreDrawn
    <2>2. \A t \in Usable : t \in Token /\ t <= fresh /\ spent[t] = 0
        BY <2>1, BorneTokens DEF TokenInv, UsableIsUnspent
    <2>3. "idToken" \in Kinds
        BY DEF Kinds
    <2>4. \A t \in Issued : t \in Token /\ t <= fresh
        BY <2>1, <2>3, BorneTokens
    <2>5. \A t \in Usable : t \notin Issued
        BY <2>3, BorneTokens DEF TokenInv, TokensMeanOneThing
    <2>. QED
        BY <2>1, <2>2, <2>4, <2>5
<1>2. /\ fresh' = fresh \/ fresh' = fresh + 1
      /\ \A k \in Kinds : \A t \in Bearing'[k] :
            t \in Bearing[k] \/ (k = new /\ t = fresh + 1 /\ fresh' = fresh + 1)
      /\ \A t \in Usable' : t \in Usable \/ (t = fresh + 1 /\ fresh' = fresh + 1)
    BY DEF Moves
<1>3. \/ spent' = spent
      \/ \E t \in Token : /\ t <= fresh /\ t \notin Usable'
                          /\ t \in Issued \/ spent'[t] = 1
                          /\ \A o \in Token : o # t => spent'[o] = spent[o]
      \/ \E t \in Issued : /\ t <= fresh /\ t \notin Usable
                           /\ \A o \in Token : o # t => spent'[o] = spent[o]
    <2>1. CASE spent' = spent
        BY <2>1
    <2>2. ASSUME NEW t \in Usable, t \notin Usable', Spend(t)
          PROVE  \E o \in Token : /\ o <= fresh /\ o \notin Usable'
                                  /\ o \in Issued \/ spent'[o] = 1
                                  /\ \A x \in Token : x # o => spent'[x] = spent[x]
        <3>1. t \in Token /\ t <= fresh /\ spent[t] = 0
            BY <1>1
        <3>2. spent'[t] = 1 /\ \A o \in Token : o # t => spent'[o] = spent[o]
            BY <2>2, <3>1, DrawnAndSpent DEF TypeInv
        <3>. QED
            BY <2>2, <3>1, <3>2
    <2>3. ASSUME NEW t \in Issued, Spend(t)
          PROVE  /\ t <= fresh /\ t \notin Usable
                 /\ \A o \in Token : o # t => spent'[o] = spent[o]
        BY <1>1, <2>3, DrawnAndSpent DEF TypeInv
    <2>. QED
        BY <2>1, <2>2, <2>3 DEF Moves
<1>4. TokensAreDrawn'
    <2>1. ASSUME NEW t \in Token, t > fresh'
          PROVE  spent'[t] = 0
        BY <1>0, <1>1, <1>2, <1>3, <2>1 DEF TokenInv, TokensAreDrawn
    <2>2. ASSUME NEW k \in Kinds, NEW t \in Bearing'[k]
          PROVE  t <= fresh'
        BY <1>0, <1>1, <1>2
    <2>. QED
        BY <2>1, <2>2 DEF TokensAreDrawn
<1>5. TokensMeanOneThing'
    <2>1. ASSUME NEW k \in Kinds, NEW l \in Kinds, NEW t \in Bearing'[k], t \in Bearing'[l]
          PROVE  k = l
        <3>1. CASE t \in Bearing[k] /\ t \in Bearing[l]
            BY <3>1 DEF TokenInv, TokensMeanOneThing
        <3>2. CASE t = fresh + 1
            <4>1. t \notin Bearing[k] /\ t \notin Bearing[l]
                BY <1>0, <1>1, <3>2
            <4>. QED
                BY <1>2, <2>1, <4>1
        <3>. QED
            BY <1>2, <2>1, <3>1, <3>2
    <2>. QED
        BY <2>1 DEF TokensMeanOneThing
<1>6. UsableIsUnspent'
    <2>1. ASSUME NEW t \in Usable'
          PROVE  spent'[t] = 0
        <3>1. CASE t \in Usable
            BY <1>0, <1>1, <1>3, <2>1, <3>1
        <3>2. CASE t = fresh + 1 /\ fresh' = fresh + 1
            <4>1. t \in Token /\ t > fresh
                BY <1>0, <3>2, PrevAssumption DEF ProofsTyped, Token
            <4>2. spent[t] = 0
                BY <4>1 DEF TokenInv, TokensAreDrawn
            <4>. QED
                BY <1>0, <1>1, <1>3, <4>1, <4>2
        <3>. QED
            BY <1>2, <2>1, <3>1, <3>2
    <2>. QED
        BY <2>1 DEF UsableIsUnspent
<1>7. OthersSpentOnce'
    <2>1. ASSUME NEW t \in Token, t \notin Issued'
          PROVE  spent'[t] <= 1
        <3>1. t \notin Issued /\ spent[t] <= 1
            BY <2>1 DEF TokenInv, OthersSpentOnce
        <3>. QED
            BY <1>0, <1>3, <2>1, <3>1
    <2>. QED
        BY <2>1 DEF OthersSpentOnce
<1>. QED
    BY <1>4, <1>5, <1>6, <1>7
\* A token stands in one row: what a step adds has the token just drawn.
LEMMA KeysStep ==
    ASSUME TypeInv, TokenInv, Effect
    PROVE  TokensAreKeys'
<1>0. /\ \A r \in resets : r.code # fresh + 1
      /\ \A x \in sessions : x.token # fresh + 1
      /\ \A x \in states : x.token # fresh + 1
      /\ \A x \in bindings : x.token # fresh + 1
      /\ \A x \in issued : x.token # fresh + 1
    <2>1. /\ \A r \in resets : r.code \in Bearing["reset"]
          /\ \A x \in sessions : x.token \in Bearing["session"]
          /\ \A x \in states : x.token \in Bearing["state"]
          /\ \A x \in bindings : x.token \in Bearing["binding"]
          /\ \A x \in issued : x.token \in Bearing["idToken"]
        BY DEF Bearing, Issued
    <2>2. ASSUME NEW k \in Kinds, NEW t \in Bearing[k]
          PROVE  t # fresh + 1
        BY BorneTokens DEF TokenInv, TokensAreDrawn, TypeInv, ProofsTyped, Token
    <2>. QED
        BY <2>1, <2>2 DEF Kinds
<1>1. \A x, y \in resets' : x.code = y.code => x = y
    <2>1. CASE DrawsReset
        <3>1. PICK u \in Users : resets' = resets \cup
                 {[code |-> fresh', user |-> u, used |-> FALSE, expires |-> now + Ttl]}
            BY <2>1 DEF DrawsReset
        <3>2. fresh' = fresh + 1
            BY <2>1 DEF DrawsReset, Draw
        <3>. DEFINE new == [code |-> fresh', user |-> u, used |-> FALSE, expires |-> now + Ttl]
        <3>3. resets' = resets \cup {new} /\ new.code = fresh + 1
            BY <3>1, <3>2
        <3>. HIDE DEF new
        <3>. QED
            BY <1>0, <3>3 DEF TokenInv, TokensAreKeys
    <2>2. CASE UsesReset
        <3>1. PICK u \in Users, code \in Token :
                 LET proof == {r \in resets : r.user = u /\ r.code = code /\ ~r.used /\ Live(r)}
                 IN  resets' = (resets \ proof) \cup {[r EXCEPT !.used = TRUE] : r \in proof}
            BY <2>2 DEF UsesReset
        <3>. DEFINE proof == {r \in resets : r.user = u /\ r.code = code /\ ~r.used /\ Live(r)}
        <3>2. \A r \in resets : [r EXCEPT !.used = TRUE].code = r.code
            BY DEF TypeInv, ProofsTyped, ResetRow
        <3>3. \A x \in resets' : \E o \in resets :
                 /\ o.code = x.code
                 /\ x = IF o \in proof THEN [o EXCEPT !.used = TRUE] ELSE o
            BY <3>1, <3>2
        <3>. HIDE DEF proof
        <3>4. ASSUME NEW x \in resets', NEW y \in resets', x.code = y.code
              PROVE  x = y
            <4>1. PICK o \in resets : /\ o.code = x.code
                                      /\ x = IF o \in proof THEN [o EXCEPT !.used = TRUE] ELSE o
                BY <3>3
            <4>2. PICK q \in resets : /\ q.code = y.code
                                      /\ y = IF q \in proof THEN [q EXCEPT !.used = TRUE] ELSE q
                BY <3>3
            <4>3. o = q
                BY <3>4, <4>1, <4>2 DEF TokenInv, TokensAreKeys
            <4>. QED
                BY <4>1, <4>2, <4>3
        <3>. QED
            BY <3>4
    <2>3. CASE resets' \subseteq resets
        BY <2>3 DEF TokenInv, TokensAreKeys
    <2>4. DrawsReset \/ UsesReset \/ resets' \subseteq resets
        BY TokenFrame
        DEF Redeems, Opens, Wastes, ForgetsResets, Binds, Confirms, ConfirmVerify, ConfirmOld,
            ConfirmNew, Accepts, BeginsSession, Rotates, Ends, TrimSessions, Execute,
            DeleteUser, GoogleIdToken, Tick, Cleanup
    <2>. QED
        BY <2>1, <2>2, <2>3, <2>4
<1>2. \A x, y \in sessions' : x.token = y.token => x = y
    <2>1. CASE BeginsSession
        <3>1. PICK u \in Users : sessions' = sessions \cup {NewSession(u)}
            BY <2>1 DEF BeginsSession
        <3>2. NewSession(u).token = fresh + 1
            BY DEF NewSession
        <3>. QED
            BY <1>0, <3>1, <3>2 DEF TokenInv, TokensAreKeys
    <2>2. CASE Rotates
        <3>1. PICK x \in sessions, new \in sessions' :
                 new.token = fresh + 1 /\ sessions' = (sessions \ {x}) \cup {new}
            BY <2>2, RotatedRow DEF TokenInv
        <3>. QED
            BY <1>0, <3>1 DEF TokenInv, TokensAreKeys
    <2>3. CASE sessions' \subseteq sessions
        BY <2>3 DEF TokenInv, TokensAreKeys
    <2>4. BeginsSession \/ Rotates \/ sessions' \subseteq sessions
        BY TokenFrame
        DEF Redeems, Opens, Wastes, ForgetsResets, DrawsReset, UsesReset, Binds, Confirms,
            Accepts, Ends, TrimSessions, Newest, SessionsOf, Execute, DeleteUser,
            GoogleIdToken, Tick, Cleanup
    <2>. QED
        BY <2>1, <2>2, <2>3, <2>4
<1>3. \A x, y \in states' : x.token = y.token => x = y
    <2>1. CASE Opens
        <3>1. PICK p \in Providers : states' = states \cup
                 {[token |-> fresh', provider |-> p, expires |-> now + Ttl]}
            BY <2>1 DEF Opens, CreateOAuthState
        <3>2. fresh' = fresh + 1
            BY <2>1 DEF Opens, CreateOAuthState, Draw
        <3>. QED
            BY <1>0, <3>1, <3>2 DEF TokenInv, TokensAreKeys
    <2>2. CASE states' \subseteq states
        BY <2>2 DEF TokenInv, TokensAreKeys
    <2>3. Opens \/ states' \subseteq states
        BY TokenFrame
        DEF Redeems, Wastes, ForgetsResets, DrawsReset, UsesReset, Binds, Confirms, Accepts,
            BeginsSession, Rotates, Ends, TrimSessions, Execute, GoogleIdToken, Tick, Cleanup,
            flowVars
    <2>. QED
        BY <2>1, <2>2, <2>3
<1>4. \A x, y \in bindings' : x.token = y.token => x = y
    <2>1. CASE Binds
        <3>1. PICK u \in Users, stage \in {"verify", "old"}, e \in Emails,
                   p \in Option(Passwords) : Exists(u) /\ Bind(u, stage, e, p)
            BY <2>1 DEF Binds
        <3>2. PICK b \in Binding :
                 /\ b.token = fresh + 1
                 /\ bindings' = (bindings \ OfPurpose(bindings, u, stage)) \cup {b}
            BY <3>1, BoundTyped
        <3>. QED
            BY <1>0, <3>2 DEF TokenInv, TokensAreKeys
    <2>2. CASE Confirms
        <3>1. PICK b \in bindings : ConfirmVerify(b) \/ ConfirmOld(b) \/ ConfirmNew(b)
            BY <2>2 DEF Confirms
        <3>2. CASE ConfirmOld(b)
            <4>1. PICK next \in Binding : /\ next.token = fresh + 1
                                          /\ bindings' = (bindings \ {b}) \cup {next}
                BY <3>2, NextProof
            <4>. QED
                BY <1>0, <4>1 DEF TokenInv, TokensAreKeys
        <3>3. CASE ConfirmVerify(b) \/ ConfirmNew(b)
            BY <3>3 DEF ConfirmVerify, ConfirmNew, Finish, TokenInv, TokensAreKeys
        <3>. QED
            BY <3>1, <3>2, <3>3
    <2>3. CASE bindings' \subseteq bindings
        BY <2>3 DEF TokenInv, TokensAreKeys
    <2>4. Binds \/ Confirms \/ bindings' \subseteq bindings
        BY TokenFrame
        DEF Redeems, Opens, Wastes, ForgetsResets, DrawsReset, UsesReset, Accepts,
            BeginsSession, Rotates, Ends, TrimSessions, Execute, DeleteUser, GoogleIdToken,
            Tick, Cleanup, mailVars
    <2>. QED
        BY <2>1, <2>2, <2>3, <2>4
<1>5. \A x, y \in issued' : x.token = y.token => x = y
    BY <1>0, IssuedStay DEF TokenInv, TokensAreKeys
<1>. QED
    BY <1>1, <1>2, <1>3, <1>4, <1>5 DEF TokensAreKeys

\* Steps keep the discipline of one-time tokens.
LEMMA TokenStep ==
    ASSUME TypeInv, TokenInv, Effect
    PROVE  TokenInv'
<1>1. PICK new \in Kinds : Moves(new)
    BY UnspentMoves, SpentMoves DEF TokenInv
<1>2. Issued \subseteq Issued'
    BY IssuedStay DEF Issued
<1>3. ProofsTyped'
    BY ProofsStep
<1>. QED
    BY <1>1, <1>2, <1>3, MovesKeep, KeysStep DEF TokenInv

\* An accepted id token is remembered until its row may be gone: Cleanup takes rows
\* that expired, which is ProofTtl after the acceptance, and Execute the rows of a user.
LEMMA AcceptedStep ==
    ASSUME TypeInv, TokenInv, AcceptedIsRemembered, Effect
    PROVE  AcceptedIsRemembered'
<1>0. /\ now \in Nat /\ Skew \in Nat /\ ProofTtl \in Nat /\ fresh \in Nat
      /\ \A i \in issued : i.token \in Token /\ i.at \in Nat /\ spent[i.token] \in 0 .. 2
      /\ \A p \in proofs : p.token \in Token /\ p.expires \in Nat
    BY PrevAssumption DEF TypeInv, ProofsTyped, IdToken, ProofRow
<1>. SUFFICES ASSUME NEW i \in issued'
              PROVE  /\ i.at <= now' + Skew
                     /\ \/ spent'[i.token] = 0
                        \/ /\ spent'[i.token] = 1
                           /\ \E p \in proofs' :
                                p.token = i.token /\ p.expires + Skew >= i.at + ProofTtl
                        \/ now' + Skew >= i.at + ProofTtl \/ removed' # {}
    BY DEF AcceptedIsRemembered, MayBeForgotten
<1>1. CASE i \notin issued
    <2>1. i.token = fresh + 1 /\ i.at <= now + Skew /\ UNCHANGED <<spent, now>>
        BY <1>1, IssuedStay
    <2>2. i.token \in Token /\ i.token > fresh
        BY <1>0, <2>1, ProofsStep DEF ProofsTyped, IdToken
    <2>3. spent[i.token] = 0
        BY <2>2 DEF TokenInv, TokensAreDrawn
    <2>. QED
        BY <2>1, <2>3
<1>2. CASE i \in issued
    <2>1. /\ i.at <= now + Skew
          /\ \/ spent[i.token] = 0
             \/ /\ spent[i.token] = 1
                /\ \E p \in proofs : p.token = i.token /\ p.expires + Skew >= i.at + ProofTtl
             \/ now + Skew >= i.at + ProofTtl \/ removed # {}
        BY <1>2 DEF AcceptedIsRemembered, MayBeForgotten
    <2>2. CASE Accepts
        <3>1. PICK t \in Issued, u \in Users :
                 /\ \A p \in proofs : p.token # t
                 /\ proofs' = proofs \cup {[token |-> t, user |-> u, expires |-> now + ProofTtl]}
                 /\ Spend(t)
            BY <2>2 DEF Accepts
        <3>2. t \in Token /\ UNCHANGED <<now, removed>>
            BY <1>0, <2>2 DEF Issued, Accepts, restVars
        <3>3. /\ spent'[t] = IF spent[t] < 2 THEN spent[t] + 1 ELSE spent[t]
              /\ \A o \in Token : o # t => spent'[o] = spent[o]
            BY <3>1, <3>2, DrawnAndSpent DEF TypeInv
        <3>4. CASE i.token # t
            BY <1>0, <1>2, <2>1, <3>1, <3>2, <3>3, <3>4
        <3>5. CASE i.token = t
            <4>. DEFINE p == [token |-> t, user |-> u, expires |-> now + ProofTtl]
            <4>1. p \in proofs' /\ p.token = i.token /\ p.expires = now + ProofTtl
                BY <3>1, <3>5
            <4>2. p.expires + Skew >= i.at + ProofTtl
                BY <1>0, <1>2, <2>1, <4>1
            <4>. HIDE DEF p
            <4>. QED
                BY <1>0, <1>2, <2>1, <3>1, <3>2, <3>3, <3>5, <4>1, <4>2
        <3>. QED
            BY <3>4, <3>5
    <2>3. CASE ~Accepts
        <3>1. spent'[i.token] = spent[i.token]
            <4>1. i.token \in Token /\ i.token \in Issued
                BY <1>0, <1>2 DEF Issued
            <4>2. i.token \notin Usable /\ \A k \in Kinds \ {"idToken"} : i.token \notin Bearing[k]
                BY <4>1, BorneTokens DEF TokenInv, TokensMeanOneThing, Kinds
            <4>3. CASE Redeems
                <5>1. PICK x \in states : Spend(x.token)
                    BY <4>3 DEF Redeems
                <5>2. x.token \in Token /\ x.token \in Usable
                    BY DEF TypeInv, ProofsTyped, StateRow, Usable
                <5>. QED
                    BY <4>1, <4>2, <5>1, <5>2, DrawnAndSpent DEF TypeInv
            <4>4. CASE UsesReset
                <5>1. PICK code \in Token : /\ \E r \in resets : r.code = code
                                            /\ Spend(code)
                    BY <4>4 DEF UsesReset
                <5>2. code \in Bearing["reset"]
                    BY <5>1 DEF Bearing
                <5>. QED
                    BY <4>1, <4>2, <5>1, <5>2, DrawnAndSpent DEF TypeInv, Kinds
            <4>5. CASE Confirms
                <5>1. PICK b \in bindings : Spend(b.token)
                    BY <4>5 DEF Confirms
                <5>2. b.token \in Token /\ b.token \in Usable
                    BY DEF TypeInv, MailTyped, Binding, Token, Usable
                <5>. QED
                    BY <4>1, <4>2, <5>1, <5>2, DrawnAndSpent DEF TypeInv
            <4>6. CASE Rotates
                <5>1. PICK t \in Token : /\ \E x \in sessions : x.token = t
                                         /\ Spend(t)
                    BY <4>6 DEF Rotates, ByRefreshToken
                <5>2. t \in Usable
                    BY <5>1 DEF Usable
                <5>. QED
                    BY <4>1, <4>2, <5>1, <5>2, DrawnAndSpent DEF TypeInv
            <4>7. CASE UNCHANGED spent
                BY <4>7
            <4>8. \/ Redeems \/ UsesReset \/ Confirms \/ Rotates \/ UNCHANGED spent
                BY <2>3, TokenFrame
                DEF Opens, Wastes, ForgetsResets, DrawsReset, Binds, BeginsSession, Ends,
                    TrimSessions, Execute, GoogleIdToken, Tick, Cleanup
            <4>. QED
                BY <4>3, <4>4, <4>5, <4>6, <4>7, <4>8
        <3>2. now' \in Nat /\ now <= now' /\ removed \subseteq removed'
            <4>1. \/ UNCHANGED <<now, removed>> \/ Tick \/ \E r \in Replicas : Execute(r)
                BY TokenFrame
                DEF Redeems, Opens, Wastes, ForgetsResets, DrawsReset, UsesReset, Binds,
                    Confirms, Accepts, BeginsSession, Rotates, Ends, TrimSessions,
                    GoogleIdToken, Cleanup, restVars
            <4>2. Tick => now' = now + 1 /\ UNCHANGED removed
                BY DEF Tick
            <4>3. (\E r \in Replicas : Execute(r)) => UNCHANGED now /\ removed \subseteq removed'
                BY DEF Execute, DeleteUser
            <4>. QED
                BY <1>0, <4>1, <4>2, <4>3
        <3>3. \A p \in proofs : p \in proofs' \/ p.expires <= now \/ removed' # {}
            <4>1. CASE \E r \in Replicas : Execute(r)
                BY <4>1 DEF Execute, DeleteUser
            <4>2. CASE \E table \in {"oauth_states", "email_deliveries", "email_bindings",
                                     "reauthentication_proofs"} : Cleanup(table)
                BY <1>0, <4>2 DEF Cleanup, Live
            <4>3. CASE UNCHANGED proofs
                BY <4>3
            <4>. QED
                BY <2>3, <4>1, <4>2, <4>3, TokenFrame
                DEF Redeems, Opens, Wastes, ForgetsResets, DrawsReset, UsesReset, Binds,
                    Confirms, BeginsSession, Rotates, Ends, TrimSessions, GoogleIdToken, Tick,
                    flowVars
        <3>. QED
            BY <1>0, <1>2, <2>1, <3>1, <3>2, <3>3
    <2>. QED
        BY <2>2, <2>3
<1>. QED
    BY <1>1, <1>2

\* At the beginning no token was drawn.
LEMMA TokenInit == PrevInit => TokenInv /\ AcceptedIsRemembered
<1>. SUFFICES ASSUME PrevInit PROVE TokenInv /\ AcceptedIsRemembered
    OBVIOUS
<1>1. /\ resets = {} /\ sessions = {} /\ states = {} /\ bindings = {} /\ issued = {}
      /\ spent = [t \in Token |-> 0]
    BY DEF PrevInit, Token
<1>2. Issued = {} /\ Usable = {} /\ \A k \in Kinds : Bearing[k] = {}
    BY <1>1 DEF Issued, Usable, Bearing, Kinds
<1>. QED
    BY <1>1, <1>2
    DEF TokenInv, TokensAreDrawn, TokensMeanOneThing, TokensAreKeys, UsableIsUnspent,
        OthersSpentOnce, AcceptedIsRemembered

\* A token is drawn for one purpose and stands in one row; what can still be used
\* was not used; an accepted id token has its row in reauthentication_proofs for
\* as long as it is not forgotten.
THEOREM PrevTokens == PrevSpec => [](TypeInv /\ TokenInv /\ AcceptedIsRemembered)
<1>1. PrevInit => TypeInv /\ TokenInv /\ AcceptedIsRemembered
    BY TypeInit, TokenInit
<1>2. ASSUME TypeInv /\ TokenInv /\ AcceptedIsRemembered, [PrevNext]_prevVars
      PROVE  (TypeInv /\ TokenInv /\ AcceptedIsRemembered)'
    BY <1>2, TypeStep, StepEffects, TokenStep, AcceptedStep
<1>. QED
    BY <1>1, <1>2, PTL DEF PrevSpec

\* Reset codes, mailed proofs, refresh tokens and OAuth states are accepted once,
\* and an id token once while it is remembered, whatever requests, expiry and
\* CleanupAuthWorkflows do side by side.
THEOREM OneTimeTheorem == PrevSpec => []OneTimeTokensSpentOnce
<1>1. ASSUME TypeInv, TokenInv, AcceptedIsRemembered
      PROVE  OneTimeTokensSpentOnce
    <2>. SUFFICES ASSUME NEW t \in Token, ~(spent[t] <= 1)
                  PROVE  \E i \in issued : i.token = t /\ MayBeForgotten(i)
        BY <1>1 DEF OneTimeTokensSpentOnce, TypeInv, ProofsTyped
    <2>1. PICK i \in issued : i.token = t
        BY <1>1 DEF TokenInv, OthersSpentOnce, Issued
    <2>2. spent[i.token] # 0 /\ spent[i.token] # 1
        BY <2>1
    <2>3. MayBeForgotten(i)
        BY <1>1, <2>2 DEF AcceptedIsRemembered
    <2>. QED
        BY <2>1, <2>3
<1>. QED
    BY <1>1, PrevTokens, PTL

-----------------------------------------------------------------------------
(* Mails carry the proof that is waited for *)

\* A worker's row is in the table until the worker is done with it.
LEMMA HeldStep ==
    ASSUME TypeInv, HeldIsQueued, Effect
    PROVE  HeldIsQueued'
<1>0. /\ courier \in [Replicas -> Delivery \cup {None}]
      /\ \A q \in Replicas : courier[q] # None => courier[q] \in Held
    BY DEF TypeInv, MailTyped, Held
<1>1. CASE UNCHANGED <<bindings, deliveries, mailbox, courier>>
    BY <1>1 DEF HeldIsQueued
<1>2. CASE UNCHANGED <<deliveries, courier>>
    BY <1>2 DEF HeldIsQueued
<1>3. ASSUME UNCHANGED courier, \A d \in Held : d \in deliveries => d \in deliveries'
      PROVE  HeldIsQueued'
    BY <1>0, <1>3 DEF HeldIsQueued
<1>4. ASSUME NEW b \in Binding, queueBindingEmail(b), UNCHANGED courier
      PROVE  HeldIsQueued'
    <2>1. \A d \in Held : d \notin OfPurpose(deliveries, b.user, b.stage)
        BY <1>4 DEF queueBindingEmail, NotSending, OfPurpose
    <2>2. deliveries \ OfPurpose(deliveries, b.user, b.stage) \subseteq deliveries'
        BY <1>4 DEF queueBindingEmail
    <2>. QED
        BY <1>3, <1>4, <2>1, <2>2
<1>5. CASE Binds
    <2>1. PICK u \in Users, stage \in {"verify", "old"}, e \in Emails, p \in Option(Passwords) :
             Exists(u) /\ Bind(u, stage, e, p)
        BY <1>5 DEF Binds
    <2>2. PICK b \in Binding : queueBindingEmail(b)
        BY <2>1, BoundTyped
    <2>. QED
        BY <1>4, <1>5, <2>2 DEF Binds, restVars
<1>6. CASE Confirms
    <2>1. PICK b \in bindings : ConfirmVerify(b) \/ ConfirmOld(b) \/ ConfirmNew(b)
        BY <1>6 DEF Confirms
    <2>2. UNCHANGED courier
        BY <1>6 DEF Confirms, restVars
    <2>3. CASE ConfirmOld(b)
        <3>1. PICK next \in Binding : queueBindingEmail(next)
            BY <2>3, NextProof
        <3>. QED
            BY <1>4, <2>2, <3>1
    <2>4. CASE ConfirmVerify(b) \/ ConfirmNew(b)
        BY <1>3, <2>2, <2>4 DEF ConfirmVerify, ConfirmNew, Finish
    <2>. QED
        BY <2>1, <2>3, <2>4
<1>7. ASSUME NEW r \in Replicas, Claim(r)
      PROVE  HeldIsQueued'
    <2>1. PICK d \in deliveries \ Held : courier' = [courier EXCEPT ![r] = d]
        BY <1>7 DEF Claim
    <2>2. UNCHANGED deliveries /\ courier[r] = None
        BY <1>7 DEF Claim, mailVars
    <2>3. \A q \in Replicas : courier[q] # d \/ d = None
        BY <1>0, <2>1
    <2>4. d # None => \A q \in Replicas : courier'[q] = d => q = r
        BY <1>0, <2>1, <2>3
    <2>. QED
        BY <1>0, <2>1, <2>2, <2>4 DEF HeldIsQueued
<1>8. ASSUME NEW r \in Replicas, courier[r] # None, courier' = [courier EXCEPT ![r] = None],
             deliveries \ {courier[r]} \subseteq deliveries'
      PROVE  HeldIsQueued'
    <2>1. /\ courier'[r] = None
          /\ \A q \in Replicas : q # r => courier'[q] = courier[q] /\ courier[q] # courier[r]
        BY <1>0, <1>8 DEF HeldIsQueued
    <2>. QED
        BY <1>8, <2>1 DEF HeldIsQueued
<1>9. ASSUME NEW r \in Replicas, Send(r) \/ Postpone(r) \/ DropDelivery(r)
      PROVE  HeldIsQueued'
    BY <1>8, <1>9 DEF Send, Postpone, DropDelivery
<1>10. ASSUME NEW r \in Replicas, Execute(r)
       PROVE  HeldIsQueued'
    <2>1. PICK u \in Users : /\ \A q \in Replicas : courier[q] # None => courier[q].user # u
                             /\ DeleteUser(u) \/ UNCHANGED deliveries
                             /\ UNCHANGED courier
        BY <1>10, ExecuteShape
    <2>2. \A d \in Held : d.user # u
        BY <2>1 DEF Held
    <2>. QED
        BY <1>3, <2>1, <2>2 DEF DeleteUser
<1>11. ASSUME NEW table, Cleanup(table)
       PROVE  HeldIsQueued'
    BY <1>3, <1>11 DEF Cleanup, restVars
<1>12. CASE MailsReset \/ DrawsReset
    BY <1>2, <1>12 DEF MailsReset, DrawsReset, restVars
<1>. QED
    BY <1>1, <1>5, <1>6, <1>7, <1>9, <1>10, <1>11, <1>12, MailFrame
\* A mail that can still be sent has its proof: whatever takes a proof takes its mail.
LEMMA BoundStep ==
    ASSUME TypeInv, HeldIsQueued, DeliveriesAreBound, Effect
    PROVE  DeliveriesAreBound'
<1>0. /\ now \in Nat /\ deliveries \subseteq Delivery
      /\ \A d \in deliveries : d.expires \in Nat
      /\ \A b \in bindings : b.expires \in Nat
    BY PrevAssumption DEF TypeInv, ProofsTyped, MailTyped, Delivery, Binding
<1>1. now' \in Nat /\ now <= now'
    <2>1. UNCHANGED now \/ Tick
        BY TokenFrame
        DEF Redeems, Opens, Wastes, ForgetsResets, DrawsReset, UsesReset, Binds, Confirms,
            Accepts, BeginsSession, Rotates, Ends, TrimSessions, Execute, GoogleIdToken,
            Cleanup, restVars
    <2>2. Tick => now' = now + 1
        BY DEF Tick
    <2>. QED
        BY <1>0, <2>1, <2>2
<1>2. ASSUME NEW d \in deliveries, d.expires > now'
      PROVE  \E b \in bindings : /\ b.token = d.token /\ b.user = d.user
                                 /\ b.stage = d.stage /\ b.expires = d.expires
    BY <1>0, <1>1, <1>2 DEF DeliveriesAreBound, Live
<1>3. ASSUME \A d \in deliveries' : d.expires > now' =>
                \E b \in bindings' : /\ b.token = d.token /\ b.user = d.user
                                     /\ b.stage = d.stage /\ b.expires = d.expires
      PROVE  DeliveriesAreBound'
    BY <1>3 DEF DeliveriesAreBound, Live
<1>4. ASSUME UNCHANGED bindings, deliveries' \subseteq deliveries
      PROVE  DeliveriesAreBound'
    BY <1>2, <1>3, <1>4
<1>5. ASSUME NEW b \in Binding, queueBindingEmail(b), b \in bindings',
             \A o \in bindings : \/ o \in bindings'
                                 \/ o.user = b.user /\ Purpose(o.stage) = Purpose(b.stage)
      PROVE  DeliveriesAreBound'
    <2>1. PICK new \in Delivery :
             /\ new.token = b.token /\ new.user = b.user /\ new.stage = b.stage
             /\ new.expires = b.expires
             /\ deliveries' = (deliveries \ OfPurpose(deliveries, b.user, b.stage)) \cup {new}
        BY <1>5, QueuedTyped
    <2>2. ASSUME NEW d \in deliveries', d.expires > now'
          PROVE  \E x \in bindings' : /\ x.token = d.token /\ x.user = d.user
                                      /\ x.stage = d.stage /\ x.expires = d.expires
        <3>1. CASE d = new
            BY <1>5, <2>1, <3>1
        <3>2. CASE d \in deliveries /\ d \notin OfPurpose(deliveries, b.user, b.stage)
            <4>1. PICK o \in bindings : /\ o.token = d.token /\ o.user = d.user
                                        /\ o.stage = d.stage /\ o.expires = d.expires
                BY <1>2, <2>2, <3>2
            <4>2. ~(o.user = b.user /\ Purpose(o.stage) = Purpose(b.stage))
                BY <3>2, <4>1 DEF OfPurpose
            <4>. QED
                BY <1>5, <4>1, <4>2
        <3>. QED
            BY <2>1, <2>2, <3>1, <3>2
    <2>. QED
        BY <1>3, <2>2
<1>6. CASE Binds
    <2>1. PICK u \in Users, stage \in {"verify", "old"}, e \in Emails, p \in Option(Passwords) :
             Exists(u) /\ Bind(u, stage, e, p)
        BY <1>6 DEF Binds
    <2>2. PICK b \in Binding :
             /\ queueBindingEmail(b) /\ b.user = u /\ b.stage = stage
             /\ bindings' = (bindings \ OfPurpose(bindings, u, stage)) \cup {b}
        BY <2>1, BoundTyped
    <2>3. \A o \in bindings : \/ o \in bindings'
                              \/ o.user = b.user /\ Purpose(o.stage) = Purpose(b.stage)
        BY <2>2 DEF OfPurpose
    <2>. QED
        BY <1>5, <2>2, <2>3
<1>7. ASSUME NEW u, \A b \in bindings : b.user # u => b \in bindings',
             \A d \in deliveries' : d \in deliveries /\ d.user # u
      PROVE  DeliveriesAreBound'
    BY <1>2, <1>3, <1>7
<1>8. CASE Confirms
    <2>1. PICK b \in bindings :
             ConfirmVerify(b) \/ (b.stage = "old" /\ ConfirmOld(b)) \/ ConfirmNew(b)
        BY <1>8 DEF Confirms
    <2>2. CASE b.stage = "old" /\ ConfirmOld(b)
        <3>1. PICK next \in Binding :
                 /\ queueBindingEmail(next) /\ next.user = b.user /\ next.stage = "new"
                 /\ bindings' = (bindings \ {b}) \cup {next}
            BY <2>2, NextProof
        <3>2. Purpose(b.stage) = Purpose(next.stage)
            BY <2>2, <3>1 DEF Purpose
        <3>3. \A o \in bindings : \/ o \in bindings'
                                  \/ o.user = next.user /\ Purpose(o.stage) = Purpose(next.stage)
            <4>1. \A o \in bindings : o # b => o \in bindings'
                BY <3>1
            <4>. QED
                BY <3>1, <3>2, <4>1
        <3>. QED
            BY <1>5, <3>1, <3>3
    <2>3. CASE ConfirmVerify(b) \/ ConfirmNew(b)
        BY <1>7, <2>3 DEF ConfirmVerify, ConfirmNew, Finish
    <2>. QED
        BY <2>1, <2>2, <2>3
<1>9. ASSUME NEW r \in Replicas, Postpone(r)
      PROVE  DeliveriesAreBound'
    <2>1. courier[r] \in deliveries
        BY <1>9 DEF Postpone, HeldIsQueued
    <2>. DEFINE late == [courier[r] EXCEPT !.next = now + 1]
    <2>2. /\ late.token = courier[r].token /\ late.user = courier[r].user
          /\ late.stage = courier[r].stage /\ late.expires = courier[r].expires
        BY <1>0, <2>1 DEF Delivery
    <2>3. deliveries' = (deliveries \ {courier[r]}) \cup {late} /\ UNCHANGED bindings
        BY <1>9 DEF Postpone
    <2>. HIDE DEF late
    <2>4. \A d \in deliveries' : \E o \in deliveries :
             /\ d.token = o.token /\ d.user = o.user /\ d.stage = o.stage
             /\ d.expires = o.expires
        BY <2>1, <2>2, <2>3
    <2>. QED
        BY <1>2, <1>3, <2>3, <2>4
<1>10. ASSUME NEW r \in Replicas, Claim(r) \/ Send(r) \/ DropDelivery(r)
       PROVE  DeliveriesAreBound'
    BY <1>4, <1>10 DEF Claim, Send, DropDelivery, mailVars
<1>11. ASSUME NEW r \in Replicas, Execute(r)
       PROVE  DeliveriesAreBound'
    <2>1. PICK u \in Users : DeleteUser(u) \/ UNCHANGED <<bindings, deliveries>>
        BY <1>11, ExecuteShape
    <2>. QED
        BY <1>4, <1>7, <2>1 DEF DeleteUser
<1>12. ASSUME NEW table, Cleanup(table)
       PROVE  DeliveriesAreBound'
    <2>1. UNCHANGED now /\ deliveries' \subseteq deliveries
        BY <1>12 DEF Cleanup, restVars
    <2>2. \A b \in bindings : b.expires > now => b \in bindings'
        BY <1>12 DEF Cleanup, Live
    <2>. QED
        BY <1>2, <1>3, <2>1, <2>2
<1>13. CASE UNCHANGED <<bindings, deliveries>>
    BY <1>4, <1>13
<1>. QED
    BY <1>6, <1>8, <1>9, <1>10, <1>11, <1>12, <1>13, MailFrame DEF MailsReset, DrawsReset

\* What a mail that is queued or delivered in this step stands for, and what a
\* proof that is stored in this step.
LEMMA MailMoves ==
    ASSUME TypeInv, HeldIsQueued, Effect
    PROVE  /\ mailbox \subseteq mailbox'
           /\ \A m \in mailbox' :
                 \/ m \in mailbox
                 \/ m.token = fresh + 1 /\ fresh' = fresh + 1 /\ UNCHANGED <<bindings, issued>>
                 \/ m.token \in Bearing["reset"] /\ UNCHANGED <<bindings, issued, fresh>>
                 \/ /\ UNCHANGED <<bindings, issued, fresh>>
                    /\ \E d \in deliveries : /\ d.token = m.token /\ d.email = m.email
                                             /\ d.stage = m.stage
           /\ \A d \in deliveries' :
                 \/ \E o \in deliveries : /\ d.token = o.token /\ d.email = o.email
                                          /\ d.stage = o.stage
                 \/ /\ d.token = fresh + 1 /\ fresh' = fresh + 1 /\ UNCHANGED issued
                    /\ \E b \in bindings' : /\ d.token = b.token /\ d.email = Address(b)
                                             /\ d.stage = b.stage
           /\ \A b \in bindings' :
                 \/ b \in bindings
                 \/ /\ b.token = fresh + 1 /\ fresh' = fresh + 1 /\ b.stage # "new"
                 \/ /\ b.token = fresh + 1 /\ fresh' = fresh + 1
                    /\ \E o \in bindings, m \in mailbox :
                         /\ m.token = o.token /\ o.stage = "old" /\ o.old = b.old
                         /\ Spend(o.token)
<1>1. CASE UNCHANGED <<bindings, deliveries, mailbox, courier>>
    BY <1>1
<1>2. CASE MailsReset
    <2>1. PICK r \in resets, e \in Emails : MailReset(r.code, e)
        BY <1>2 DEF MailsReset
    <2>2. r.code \in Bearing["reset"]
        BY DEF Bearing
    <2>3. UNCHANGED <<bindings, deliveries, issued, fresh>>
        BY <1>2 DEF MailsReset, flowVars
    <2>4. mailbox \subseteq mailbox' /\ \A m \in mailbox' : m \in mailbox \/ m.token = r.code
        BY <2>1 DEF MailReset
    <2>. QED
        BY <2>2, <2>3, <2>4
<1>3. CASE DrawsReset
    <2>1. PICK e \in Emails : MailReset(fresh', e)
        BY <1>3 DEF DrawsReset
    <2>2. UNCHANGED <<bindings, deliveries, issued>> /\ fresh' = fresh + 1
        BY <1>3 DEF DrawsReset, flowVars, Draw
    <2>3. mailbox \subseteq mailbox' /\ \A m \in mailbox' : m \in mailbox \/ m.token = fresh'
        BY <2>1 DEF MailReset
    <2>. QED
        BY <2>2, <2>3
<1>4. CASE Binds
    <2>1. PICK u \in Users, stage \in {"verify", "old"}, e \in Emails, p \in Option(Passwords) :
             Exists(u) /\ Bind(u, stage, e, p)
        BY <1>4 DEF Binds
    <2>2. PICK b \in Binding :
             /\ queueBindingEmail(b) /\ b.token = fresh + 1 /\ b.stage = stage /\ Draw
             /\ bindings' = (bindings \ OfPurpose(bindings, u, stage)) \cup {b}
        BY <2>1, BoundTyped
    <2>3. PICK d \in Delivery :
             /\ d.token = b.token /\ d.stage = b.stage /\ d.email = Address(b)
             /\ deliveries' = (deliveries \ OfPurpose(deliveries, b.user, b.stage)) \cup {d}
        BY <2>2, QueuedTyped
    <2>4. UNCHANGED <<mailbox, issued>> /\ fresh' = fresh + 1 /\ b.stage # "new"
        BY <1>4, <2>2 DEF Binds, flowVars, Draw
    <2>5. \A x \in deliveries' : x \in deliveries \/ x = d
        BY <2>3
    <2>6. \A x \in bindings' : x \in bindings \/ x = b
        BY <2>2
    <2>. QED
        BY <2>2, <2>3, <2>4, <2>5, <2>6
<1>5. CASE Confirms
    <2>1. PICK b \in bindings, m \in mailbox :
             /\ m.token = b.token /\ Spend(b.token)
             /\ ConfirmVerify(b) \/ (b.stage = "old" /\ ConfirmOld(b)) \/ ConfirmNew(b)
        BY <1>5 DEF Confirms
    <2>2. UNCHANGED <<mailbox, issued>>
        BY <1>5 DEF Confirms, flowVars
    <2>3. CASE b.stage = "old" /\ ConfirmOld(b)
        <3>1. PICK next \in Binding :
                 /\ queueBindingEmail(next) /\ next.token = fresh + 1 /\ next.old = b.old
                 /\ bindings' = (bindings \ {b}) \cup {next} /\ Draw
            BY <2>3, NextProof
        <3>2. PICK d \in Delivery :
                 /\ d.token = next.token /\ d.stage = next.stage /\ d.email = Address(next)
                 /\ deliveries' = (deliveries \ OfPurpose(deliveries, next.user, next.stage))
                                     \cup {d}
            BY <3>1, QueuedTyped
        <3>3. fresh' = fresh + 1
            BY <3>1 DEF Draw
        <3>4. \A x \in deliveries' : x \in deliveries \/ x = d
            BY <3>2
        <3>5. \A x \in bindings' : x \in bindings \/ x = next
            BY <3>1
        <3>. QED
            BY <2>1, <2>2, <2>3, <3>1, <3>2, <3>3, <3>4, <3>5
    <2>4. CASE ConfirmVerify(b) \/ ConfirmNew(b)
        <3>1. bindings' \subseteq bindings /\ deliveries' \subseteq deliveries
            BY <2>4 DEF ConfirmVerify, ConfirmNew, Finish
        <3>. QED
            BY <2>2, <3>1
    <2>. QED
        BY <2>1, <2>3, <2>4
<1>6. ASSUME NEW r \in Replicas, courier[r] # None, UNCHANGED <<bindings, issued, fresh>>,
             mailbox' = mailbox \/ mailbox' = mailbox \cup {Mail(courier[r])},
             \A d \in deliveries' :
                \E o \in deliveries : d.token = o.token /\ d.email = o.email /\ d.stage = o.stage
      PROVE  /\ mailbox \subseteq mailbox'
             /\ \A m \in mailbox' :
                  \/ m \in mailbox
                  \/ \E d \in deliveries : /\ d.token = m.token /\ d.email = m.email
                                           /\ d.stage = m.stage
    <2>1. courier[r] \in deliveries
        BY <1>6 DEF HeldIsQueued
    <2>2. /\ Mail(courier[r]).token = courier[r].token
          /\ Mail(courier[r]).email = courier[r].email
          /\ Mail(courier[r]).stage = courier[r].stage
        BY DEF Mail
    <2>. QED
        BY <1>6, <2>1, <2>2
<1>7. ASSUME NEW r \in Replicas, Send(r) \/ DropDelivery(r)
      PROVE  /\ courier[r] # None /\ UNCHANGED <<bindings, issued, fresh>>
             /\ mailbox' = mailbox \/ mailbox' = mailbox \cup {Mail(courier[r])}
             /\ deliveries' \subseteq deliveries
    BY <1>7 DEF Send, DropDelivery, flowVars
<1>8. ASSUME NEW r \in Replicas, Postpone(r)
      PROVE  /\ UNCHANGED <<bindings, mailbox>>
             /\ \A d \in deliveries' : \E o \in deliveries :
                   d.token = o.token /\ d.email = o.email /\ d.stage = o.stage
    <2>1. courier[r] \in deliveries
        BY <1>8 DEF Postpone, HeldIsQueued
    <2>. DEFINE late == [courier[r] EXCEPT !.next = now + 1]
    <2>2. /\ late.token = courier[r].token /\ late.email = courier[r].email
          /\ late.stage = courier[r].stage
        BY <2>1 DEF TypeInv, MailTyped, Delivery
    <2>3. deliveries' = (deliveries \ {courier[r]}) \cup {late} /\ UNCHANGED <<bindings, mailbox>>
        BY <1>8 DEF Postpone
    <2>. HIDE DEF late
    <2>. QED
        BY <2>1, <2>2, <2>3
<1>9. ASSUME NEW r \in Replicas, Claim(r) \/ Execute(r)
      PROVE  /\ UNCHANGED mailbox /\ deliveries' \subseteq deliveries
             /\ bindings' \subseteq bindings
    BY <1>9 DEF Claim, Execute, DeleteUser, mailVars
<1>10. ASSUME NEW table, Cleanup(table)
       PROVE  /\ UNCHANGED mailbox /\ deliveries' \subseteq deliveries
              /\ bindings' \subseteq bindings
    BY <1>10 DEF Cleanup
<1>11. CASE \E r \in Replicas : Send(r) \/ DropDelivery(r)
    <2>1. PICK r \in Replicas : Send(r) \/ DropDelivery(r)
        BY <1>11
    <2>2. /\ courier[r] # None /\ UNCHANGED <<bindings, issued, fresh>>
          /\ mailbox' = mailbox \/ mailbox' = mailbox \cup {Mail(courier[r])}
          /\ deliveries' \subseteq deliveries
        BY <1>7, <2>1
    <2>3. /\ mailbox \subseteq mailbox'
          /\ \A m \in mailbox' :
               \/ m \in mailbox
               \/ \E d \in deliveries : /\ d.token = m.token /\ d.email = m.email
                                        /\ d.stage = m.stage
        BY <1>6, <2>2
    <2>. QED
        BY <2>2, <2>3
<1>12. CASE \E r \in Replicas : Postpone(r)
    BY <1>8, <1>12
<1>13. CASE \/ \E r \in Replicas : Claim(r) \/ Execute(r)
            \/ \E table \in {"oauth_states", "email_deliveries", "email_bindings",
                             "reauthentication_proofs"} : Cleanup(table)
    <2>1. /\ UNCHANGED mailbox /\ deliveries' \subseteq deliveries
          /\ bindings' \subseteq bindings
        BY <1>9, <1>10, <1>13
    <2>. QED
        BY <2>1
<1>. QED
    BY <1>1, <1>2, <1>3, <1>4, <1>5, <1>11, <1>12, <1>13, MailFrame
\* Rows and id tokens have tokens that were drawn, and no token is both.
LEMMA DrawnRows ==
    ASSUME TypeInv, TokenInv
    PROVE  /\ \A b \in bindings : b.token <= fresh /\ b.token # fresh + 1
           /\ \A t \in Issued : t <= fresh /\ t # fresh + 1
           /\ \A t \in Bearing["reset"] : /\ t <= fresh /\ t \notin Issued
                                          /\ \A b \in bindings : b.token # t
<1>1. /\ "reset" \in Kinds /\ "binding" \in Kinds /\ "idToken" \in Kinds
      /\ \A b \in bindings : b.token \in Bearing["binding"]
    BY DEF Kinds, Bearing
<1>2. \A k \in Kinds : \A t \in Bearing[k] : t <= fresh /\ t # fresh + 1
    BY BorneTokens DEF TokenInv, TokensAreDrawn, TypeInv, ProofsTyped, Token
<1>. QED
    BY <1>1, <1>2, BorneTokens DEF TokenInv, TokensMeanOneThing

\* Every mail has a token that was drawn for it.
LEMMA LettersDrawnStep ==
    ASSUME TypeInv, TokenInv, HeldIsQueued, LettersAreDrawn, Effect, ProofsTyped'
    PROVE  LettersAreDrawn'
<1>0. /\ fresh \in Nat /\ fresh' \in Nat
      /\ \A d \in deliveries : d.token \in Nat
      /\ \A m \in mailbox : m.token \in Nat
      /\ \A t \in Bearing["reset"] : t \in Nat
    <2>1. Bearing["reset"] \subseteq Token
        BY BorneTokens DEF Kinds
    <2>. QED
        BY <2>1 DEF TypeInv, ProofsTyped, MailTyped, Delivery, Letter, Token
<1>1. /\ \A d \in deliveries : d.token <= fresh /\ d.token \notin Issued
      /\ \A m \in mailbox : m.token <= fresh /\ m.token \notin Issued
    BY DEF LettersAreDrawn, Posted
<1>2. fresh' = fresh \/ fresh' = fresh + 1
    <2>1. \E new \in Kinds : Moves(new)
        BY UnspentMoves, SpentMoves DEF TokenInv
    <2>. QED
        BY <2>1 DEF Moves
<1>3. \A t \in Issued' : t \in Issued \/ t = fresh + 1
    BY IssuedStay DEF Issued
<1>4. UNCHANGED issued => Issued' = Issued
    BY DEF Issued
<1>5. ASSUME NEW m \in mailbox'
      PROVE  m.token <= fresh' /\ m.token \notin Issued'
    <2>1. CASE m \in mailbox
        BY <1>0, <1>1, <1>2, <1>3, <2>1
    <2>2. CASE m.token = fresh + 1 /\ fresh' = fresh + 1 /\ UNCHANGED <<bindings, issued>>
        BY <1>0, <1>4, <2>2, DrawnRows
    <2>3. CASE m.token \in Bearing["reset"] /\ UNCHANGED <<bindings, issued, fresh>>
        BY <1>0, <1>4, <2>3, DrawnRows
    <2>4. CASE /\ UNCHANGED <<bindings, issued, fresh>>
               /\ \E d \in deliveries : d.token = m.token
        BY <1>0, <1>1, <1>4, <2>4
    <2>. QED
        BY <2>1, <2>2, <2>3, <2>4, MailMoves
<1>6. ASSUME NEW d \in deliveries'
      PROVE  d.token <= fresh' /\ d.token \notin Issued'
    <2>1. CASE \E o \in deliveries : d.token = o.token
        BY <1>0, <1>1, <1>2, <1>3, <2>1
    <2>2. CASE d.token = fresh + 1 /\ fresh' = fresh + 1 /\ UNCHANGED issued
        BY <1>0, <1>4, <2>2, DrawnRows
    <2>. QED
        BY <2>1, <2>2, MailMoves
<1>. QED
    BY <1>5, <1>6 DEF LettersAreDrawn, Posted

\* A mail goes to the mailbox its proof asks: a token is mailed as what it was
\* drawn for.
LEMMA AddressedStep ==
    ASSUME TypeInv, TokenInv, HeldIsQueued, LetterInv, Effect, TokensAreKeys'
    PROVE  LettersAreAddressed'
<1>0. /\ \A d \in deliveries : d.token # fresh + 1
      /\ \A m \in mailbox : m.token # fresh + 1
    <2>1. /\ \A d \in deliveries : d.token \in Posted /\ d.token \in Nat
          /\ \A m \in mailbox : m.token \in Posted /\ m.token \in Nat
          /\ fresh \in Nat
        BY DEF Posted, TypeInv, ProofsTyped, MailTyped, Delivery, Letter, Token
    <2>2. \A t \in Posted : t <= fresh
        BY DEF LetterInv, LettersAreDrawn
    <2>. QED
        BY <2>1, <2>2
<1>1. ASSUME NEW b \in bindings
      PROVE  /\ \A d \in deliveries : d.token = b.token =>
                    d.stage = b.stage /\ d.email = Address(b)
             /\ \A m \in mailbox : m.token = b.token =>
                    m.stage = b.stage /\ m.email = Address(b)
    BY DEF LetterInv, LettersAreAddressed
<1>2. \A b \in bindings' : b \in bindings \/ b.token = fresh + 1
    BY MailMoves
<1>3. ASSUME NEW b \in bindings', NEW d \in deliveries', d.token = b.token
      PROVE  d.stage = b.stage /\ d.email = Address(b)
    <2>1. CASE \E x \in bindings' : d.token = x.token /\ d.email = Address(x) /\ d.stage = x.stage
        <3>1. PICK x \in bindings' :
                 d.token = x.token /\ d.email = Address(x) /\ d.stage = x.stage
            BY <2>1
        <3>2. x = b
            BY <1>3, <3>1 DEF TokensAreKeys
        <3>. QED
            BY <3>1, <3>2
    <2>2. CASE \E o \in deliveries : d.token = o.token /\ d.email = o.email /\ d.stage = o.stage
        <3>1. PICK o \in deliveries : d.token = o.token /\ d.email = o.email /\ d.stage = o.stage
            BY <2>2
        <3>2. b \in bindings
            BY <1>0, <1>3, <1>2, <3>1
        <3>. QED
            BY <1>1, <1>3, <3>1, <3>2
    <2>. QED
        BY <2>1, <2>2, MailMoves
<1>4. ASSUME NEW b \in bindings', NEW m \in mailbox', m.token = b.token
      PROVE  m.stage = b.stage /\ m.email = Address(b)
    <2>1. CASE m \in mailbox
        <3>1. b \in bindings
            BY <1>0, <1>4, <1>2, <2>1
        <3>. QED
            BY <1>1, <1>4, <2>1, <3>1
    <2>2. CASE m.token = fresh + 1 /\ UNCHANGED bindings
        BY <1>4, <2>2, DrawnRows
    <2>3. CASE m.token \in Bearing["reset"] /\ UNCHANGED bindings
        BY <1>4, <2>3, DrawnRows
    <2>4. CASE /\ UNCHANGED bindings
               /\ \E d \in deliveries : d.token = m.token /\ d.email = m.email /\ d.stage = m.stage
        BY <1>1, <1>4, <2>4
    <2>. QED
        BY <2>1, <2>2, <2>3, <2>4, MailMoves
<1>. QED
    BY <1>3, <1>4 DEF LettersAreAddressed

\* What the owner of a mailbox answered stays answered, once.
LEMMA AnsweredOnce ==
    ASSUME TypeInv, TokenInv, LettersAreDrawn, Effect
    PROVE  \A m \in mailbox : spent[m.token] = 1 => spent'[m.token] = 1
<1>1. PICK new \in Kinds : Moves(new)
    BY UnspentMoves, SpentMoves DEF TokenInv
<1>. SUFFICES ASSUME NEW m \in mailbox, spent[m.token] = 1
              PROVE  spent'[m.token] = 1
    OBVIOUS
<1>2. m.token \in Token /\ m.token \notin Issued /\ m.token \notin Usable
    BY DEF TypeInv, MailTyped, Letter, LettersAreDrawn, Posted, TokenInv, UsableIsUnspent
<1>3. ASSUME NEW t \in Token, t # m.token, Spend(t)
      PROVE  spent'[m.token] = spent[m.token]
    BY <1>2, <1>3, DrawnAndSpent DEF TypeInv
<1>4. /\ \A t \in Usable : t \in Token /\ t # m.token
      /\ \A t \in Issued : t \in Token /\ t # m.token
    BY <1>2, BorneTokens
<1>. QED
    BY <1>1, <1>3, <1>4 DEF Moves

\* The proof that is mailed to the new mailbox exists because the old one answered.
LEMMA OldAnsweredStep ==
    ASSUME TypeInv, TokenInv, HeldIsQueued, LetterInv, Effect
    PROVE  OldMailboxAnswered'
<1>1. ASSUME NEW b \in bindings', b.stage = "new"
      PROVE  \E m \in mailbox' : m.stage = "old" /\ m.email = b.old /\ spent'[m.token] = 1
    <2>1. CASE b \in bindings
        <3>1. PICK m \in mailbox : m.stage = "old" /\ m.email = b.old /\ spent[m.token] = 1
            BY <1>1, <2>1 DEF LetterInv, OldMailboxAnswered
        <3>2. spent'[m.token] = 1
            BY <3>1, AnsweredOnce DEF LetterInv
        <3>. QED
            BY <3>1, <3>2, MailMoves
    <2>2. CASE \E o \in bindings, m \in mailbox :
                 /\ m.token = o.token /\ o.stage = "old" /\ o.old = b.old /\ Spend(o.token)
        <3>1. PICK o \in bindings, m \in mailbox :
                 /\ m.token = o.token /\ o.stage = "old" /\ o.old = b.old /\ Spend(o.token)
            BY <2>2
        <3>2. m.stage = "old" /\ m.email = b.old
            BY <3>1 DEF LetterInv, LettersAreAddressed, Address
        <3>3. o.token \in Token /\ spent[o.token] = 0
            BY DEF TypeInv, MailTyped, Binding, Token, TokenInv, UsableIsUnspent, Usable
        <3>4. spent'[o.token] = 1
            BY <3>1, <3>3, DrawnAndSpent DEF TypeInv
        <3>. QED
            BY <3>1, <3>2, <3>4, MailMoves
    <2>. QED
        BY <1>1, <2>1, <2>2, MailMoves
<1>. QED
    BY <1>1 DEF OldMailboxAnswered

\* At the beginning there is no mail.
LEMMA MailInit == PrevInit => MailInv
    BY DEF PrevInit, MailInv, HeldIsQueued, DeliveriesAreBound, LetterInv, LettersAreDrawn,
           LettersAreAddressed, OldMailboxAnswered, Posted

\* Mails and the proofs they carry stay together: email_deliveries follows
\* email_bindings through replacement, confirmation, expiry and deletion, and a
\* token arrives in the mailbox it was drawn for.
THEOREM PrevMails == PrevSpec => [](TypeInv /\ TokenInv /\ MailInv)
<1>1. PrevInit => TypeInv /\ TokenInv /\ MailInv
    BY TypeInit, TokenInit, MailInit
<1>2. ASSUME TypeInv /\ TokenInv /\ MailInv, [PrevNext]_prevVars
      PROVE  (TypeInv /\ TokenInv /\ MailInv)'
    <2>1. Effect
        BY <1>2, StepEffects
    <2>2. TypeInv' /\ TokenInv'
        BY <1>2, <2>1, TypeStep, TokenStep
    <2>3. ProofsTyped' /\ TokensAreKeys'
        BY <2>2 DEF TypeInv, TokenInv
    <2>4. HeldIsQueued' /\ DeliveriesAreBound'
        BY <1>2, <2>1, HeldStep, BoundStep DEF MailInv
    <2>5. LetterInv'
        BY <1>2, <2>1, <2>3, LettersDrawnStep, AddressedStep, OldAnsweredStep
        DEF MailInv, LetterInv
    <2>. QED
        BY <2>2, <2>4, <2>5 DEF MailInv
<1>. QED
    BY <1>1, <1>2, PTL DEF PrevSpec

\* No mail that DeliverEmail may still send carries a proof that was replaced,
\* used or deleted.
THEOREM QueuedMailTheorem == PrevSpec => []QueuedMailIsCurrent
<1>1. MailInv => QueuedMailIsCurrent
    BY DEF MailInv, DeliveriesAreBound, QueuedMailIsCurrent
<1>. QED
    BY <1>1, PrevMails, PTL

\* An address changes in ConfirmNew alone.
LEMMA AddressWritten ==
    ASSUME TypeInv, Effect, NEW u \in Users, Exists(u), users'[u] # None,
           users'[u].email # users[u].email
    PROVE  \E b \in bindings, m \in mailbox :
             /\ m.token = b.token /\ b.stage = "new" /\ b.user = u
             /\ users[u].email = b.old /\ users'[u].email = b.email /\ Spend(b.token)
<1>0. users \in [Users -> Account \cup {None}]
    BY DEF TypeInv, AccountsTyped
<1>1. ASSUME NEW v \in Users, NEW row, Rewrites(v, row)
      PROVE  FALSE
    <2>1. users' = [users EXCEPT ![v] = row] /\ row.email = users[v].email
        BY <1>1 DEF Rewrites
    <2>. QED
        BY <1>0, <2>1
<1>2. users' # users
    OBVIOUS
<1>3. ~Updates /\ ~Links /\ ~UsesReset
    <2>1. ~Updates
        BY <1>1 DEF Updates
    <2>2. ~UsesReset
        BY <1>1 DEF UsesReset
    <2>3. ASSUME NEW w \in work, w.kind = "firebase"
          PROVE  w.user \in Users
        BY <2>3 DEF TypeInv, WorkTyped, Trim, Link, Publication
    <2>4. ~Links
        BY <1>1, <1>2, <2>3 DEF Links
    <2>. QED
        BY <2>1, <2>2, <2>4
<1>4. ~Creates
    <2>1. SUFFICES ASSUME NEW v \in Users, NEW row, NEW g, CreateUser(v, row, g) PROVE FALSE
        BY DEF Creates
    <2>2. users[v] = None /\ users' = [users EXCEPT ![v] = row]
        BY <2>1 DEF CreateUser, Exists
    <2>3. u # v
        BY <2>2 DEF Exists
    <2>. QED
        BY <1>0, <2>2, <2>3
<1>5. ASSUME NEW r \in Replicas, Execute(r)
      PROVE  FALSE
    <2>1. PICK v \in Users : DeleteUser(v) \/ UNCHANGED users
        BY <1>5, ExecuteShape
    <2>2. users' = [users EXCEPT ![v] = None]
        BY <1>2, <2>1 DEF DeleteUser
    <2>. QED
        BY <1>0, <2>2
<1>6. ~Asks
    BY <1>2 DEF Asks
<1>7. Confirms
    BY <1>2, <1>3, <1>4, <1>5, <1>6, AccountFrame
<1>8. PICK b \in bindings, m \in mailbox :
         /\ m.token = b.token /\ users[b.user].email = b.old /\ Spend(b.token)
         /\ \/ b.stage = "verify" /\ ConfirmVerify(b)
            \/ b.stage = "old" /\ ConfirmOld(b)
            \/ b.stage = "new" /\ ConfirmNew(b)
    BY <1>7 DEF Confirms
<1>9. /\ b.user \in Users
      /\ [users[b.user] EXCEPT !.email = b.email].email = b.email
      /\ [users[b.user] EXCEPT
             !.activated = TRUE,
             !.password = IF b.password = None THEN @ ELSE b.password].email
           = users[b.user].email
    BY ConfirmedRow DEF TypeInv
<1>10. ~ConfirmOld(b)
    BY <1>2 DEF ConfirmOld
<1>11. ~ConfirmVerify(b)
    <2>. DEFINE row == [users[b.user] EXCEPT
                         !.activated = TRUE,
                         !.password = IF b.password = None THEN @ ELSE b.password]
    <2>1. ConfirmVerify(b) => users' = [users EXCEPT ![b.user] = row]
        BY DEF ConfirmVerify, Finish
    <2>2. row.email = users[b.user].email
        BY <1>9
    <2>. HIDE DEF row
    <2>. QED
        BY <1>0, <1>9, <2>1, <2>2
<1>12. b.stage = "new" /\ ConfirmNew(b)
    BY <1>8, <1>10, <1>11
<1>13. b.user = u /\ users'[u].email = b.email
    <2>. DEFINE row == [users[b.user] EXCEPT !.email = b.email]
    <2>1. users' = [users EXCEPT ![b.user] = row]
        BY <1>12 DEF ConfirmNew, Finish
    <2>2. row.email = b.email
        BY <1>9
    <2>. HIDE DEF row
    <2>. QED
        BY <1>0, <1>9, <2>1, <2>2
<1>. QED
    BY <1>8, <1>12, <1>13

\* ConfirmEmailBinding gives an account another address only when the mailbox of
\* the old one has answered and the mailbox of the new one answers now.
THEOREM BothMailboxesTheorem == PrevSpec => AddressProvedByBoth
<1>. DEFINE P == \A u \in Users :
                   (Exists(u) /\ Exists(u)' /\ users'[u].email # users[u].email) =>
                      /\ \E m \in mailbox : /\ m.stage = "old" /\ m.email = users[u].email
                                            /\ spent[m.token] = 1
                      /\ \E m \in mailbox : /\ m.stage = "new" /\ m.email = users'[u].email
                                            /\ spent[m.token] = 0 /\ spent'[m.token] = 1
<1>1. ASSUME TypeInv /\ TokenInv /\ MailInv, [PrevNext]_prevVars
      PROVE  [P]_prevVars
    <2>. SUFFICES ASSUME NEW u \in Users, Exists(u), users'[u] # None,
                         users'[u].email # users[u].email
                  PROVE  /\ \E m \in mailbox : /\ m.stage = "old" /\ m.email = users[u].email
                                               /\ spent[m.token] = 1
                         /\ \E m \in mailbox : /\ m.stage = "new" /\ m.email = users'[u].email
                                               /\ spent[m.token] = 0 /\ spent'[m.token] = 1
        BY DEF Exists
    <2>1. Effect
        BY <1>1, StepEffects
    <2>2. PICK b \in bindings, m \in mailbox :
             /\ m.token = b.token /\ b.stage = "new" /\ b.user = u
             /\ users[u].email = b.old /\ users'[u].email = b.email /\ Spend(b.token)
        BY <1>1, <2>1, AddressWritten
    <2>3. \E x \in mailbox : x.stage = "old" /\ x.email = b.old /\ spent[x.token] = 1
        BY <1>1, <2>2 DEF MailInv, LetterInv, OldMailboxAnswered
    <2>4. m.stage = "new" /\ m.email = b.email
        BY <1>1, <2>2 DEF MailInv, LetterInv, LettersAreAddressed, Address
    <2>5. b.token \in Token /\ spent[b.token] = 0
        BY <1>1 DEF TypeInv, MailTyped, Binding, Token, TokenInv, UsableIsUnspent, Usable
    <2>6. spent'[b.token] = 1
        BY <1>1, <2>2, <2>5, DrawnAndSpent DEF TypeInv
    <2>. QED
        BY <2>2, <2>3, <2>4, <2>5, <2>6
<1>. HIDE DEF P
<1>2. PrevSpec => [][P]_prevVars
    BY <1>1, PrevMails, PTL DEF PrevSpec
<1>. QED
    BY <1>2 DEF P, AddressProvedByBoth
-----------------------------------------------------------------------------
(* Sessions are trimmed *)

\* A set of numbers has a smallest.
LEMMA SmallestOf ==
    ASSUME NEW T, T \subseteq Nat, T # {}
    PROVE  \E x \in T : \A y \in T : x <= y
<1>1. PICK x \in T : \A y \in T : ~ (<<y, x>> \in OpToRel(<, Nat))
    BY NatLessThanWellFounded, WFMin
<1>2. ASSUME NEW y \in T
      PROVE  x <= y
    <2>1. <<y, x>> \in Nat \X Nat
        OBVIOUS
    <2>2. ~(y < x)
        BY <1>1, <2>1 DEF OpToRel
    <2>. QED
        BY <2>2
<1>. QED
    BY <1>2

\* The newest rows are as many as allowed: all but the oldest of them are newer
\* than that one.
LEMMA NewestBound ==
    ASSUME NEW S, IsFiniteSet(S), NEW M \in Nat, \A x \in S : x.id \in Nat,
           \A x, y \in S : x.id = y.id => x = y,
           NEW N, N = {x \in S : Cardinality({o \in S : o.id > x.id}) < M}
    PROVE  IsFiniteSet(N) /\ Cardinality(N) <= M
<1>0. N \in SUBSET S
    OBVIOUS
<1>1. IsFiniteSet(N) /\ Cardinality(N) \in Nat
    BY <1>0, FS_Subset, FS_CardinalityType
<1>2. CASE N = {}
    <2>1. Cardinality(N) = 0
        BY <1>1, <1>2, FS_EmptySet
    <2>. QED
        BY <1>1, <2>1
<1>3. CASE N # {}
    <2>. DEFINE ids == {x.id : x \in N}
    <2>1. ids \subseteq Nat /\ ids # {}
        <3>1. \A x \in N : x.id \in Nat
            BY <1>0
        <3>2. PICK x : x \in N
            BY <1>3
        <3>3. x.id \in ids
            BY <3>2
        <3>. QED
            BY <3>1, <3>3
    <2>. HIDE DEF ids
    <2>2. PICK i \in ids : \A j \in ids : i <= j
        BY <2>1, SmallestOf
    <2>3. PICK x \in N : x.id = i
        BY DEF ids
    <2>4. \A y \in N : x.id <= y.id
        BY <2>2, <2>3 DEF ids
    <2>. DEFINE newer == {o \in S : o.id > x.id}
    <2>5. newer \subseteq S /\ Cardinality(newer) < M
        OBVIOUS
    <2>6. IsFiniteSet(newer) /\ Cardinality(newer) \in Nat
        BY <2>5, FS_Subset, FS_CardinalityType
    <2>7. N \ {x} \subseteq newer
        BY <2>4
    <2>. HIDE DEF newer
    <2>8. Cardinality(N \ {x}) <= Cardinality(newer)
        BY <2>6, <2>7, FS_Subset
    <2>9. Cardinality(N \ {x}) = Cardinality(N) - 1
        BY <1>1, FS_RemoveElement
    <2>. QED
        BY <1>1, <2>5, <2>6, <2>8, <2>9
<1>. QED
    BY <1>1, <1>2, <1>3

\* Who may do what, and which faults happen, is settled at the beginning.
LEMMA MenuStays ==
    ASSUME Effect
    PROVE  UNCHANGED menu
    BY DEF Effect, tables, restVars, Updates, Creates, Links, Redeems, Opens, Wastes,
           ForgetsResets, MailsReset, DrawsReset, UsesReset, Binds, Confirms, Accepts, Asks,
           BeginsSession, Rotates, Ends, TrimSessions, ObserveOutbox, Publish,
           MarkMessageSent, LoseWork, Claim, Send, Postpone, DropDelivery, ExecuteAll,
           Execute, SkipDeletion, Cleanup, GoogleIdToken, Tick

\* The steps that add or rotate a session or end a trim; the others keep the trims
\* that are to run.
LEMMA SessionFrame ==
    ASSUME TypeInv, Effect
    PROVE  \/ BeginsSession \/ Rotates \/ TrimSessions \/ LoseWork
           \/ sessions' \subseteq sessions /\ Trims' = Trims /\ fresh <= fresh'
<1>0. fresh \in Nat
    BY DEF TypeInv, ProofsTyped
<1>1. ASSUME UNCHANGED work
      PROVE  Trims' = Trims
    BY <1>1 DEF Trims
<1>2. CASE Creates
    <2>1. PICK u \in Users, row \in Account, g \in SUBSET Link : CreateUser(u, row, g)
        BY <1>2 DEF Creates
    <2>2. work' = work \cup g \cup {[kind |-> "publish", msg |-> Created(u)]}
        BY <2>1 DEF CreateUser, createOutboxMsg
    <2>3. \A w \in g : w.kind # "trim"
        BY DEF Link
    <2>4. Trims' = Trims
        BY <2>2, <2>3 DEF Trims
    <2>. QED
        BY <1>0, <1>2, <2>4 DEF Creates
<1>3. CASE Links
    <2>1. PICK w \in work :
             /\ w.kind = "firebase"
             /\ \/ work' = (work \ {w}) \cup {[kind |-> "publish", msg |-> Imported(w.user)]}
                \/ work' = work \ {w}
        BY <1>3 DEF Links
    <2>2. Trims' = Trims
        BY <2>1 DEF Trims
    <2>. QED
        BY <1>0, <1>3, <2>2 DEF Links
<1>4. CASE ObserveOutbox \/ Publish \/ MarkMessageSent
    <2>1. Trims' = Trims
        BY <1>4 DEF ObserveOutbox, PendingMessages, Publish, MarkMessageSent, Trims
    <2>. QED
        BY <1>0, <1>4, <2>1 DEF ObserveOutbox, Publish, MarkMessageSent
<1>5. ASSUME NEW r \in Replicas, Execute(r)
      PROVE  sessions' \subseteq sessions /\ Trims' = Trims /\ fresh <= fresh'
    <2>1. /\ sessions' \subseteq sessions /\ UNCHANGED fresh
          /\ \/ UNCHANGED work
             \/ \E u : work' = work \cup {} \cup {[kind |-> "publish", msg |-> Deleted(u)]}
        BY <1>5 DEF Execute, DeleteUser, createOutboxMsg
    <2>2. Trims' = Trims
        BY <2>1 DEF Trims
    <2>. QED
        BY <1>0, <2>1, <2>2
<1>6. CASE UNCHANGED work /\ sessions' \subseteq sessions /\ (UNCHANGED fresh \/ Draw)
    <2>1. fresh <= fresh'
        BY <1>0, <1>6 DEF Draw
    <2>. QED
        BY <1>1, <1>6, <2>1
<1>. QED
    BY <1>2, <1>3, <1>4, <1>5, <1>6
    DEF Effect, tables, Updates, Redeems, Opens, CreateOAuthState, Wastes, ForgetsResets,
        MailsReset, DrawsReset, UsesReset, Binds, Bind, Confirms, ConfirmVerify, ConfirmOld,
        ConfirmNew, Accepts, Asks, Ends, Claim, Send, Postpone, DropDelivery, ExecuteAll,
        SkipDeletion, Cleanup, GoogleIdToken, Tick
\* Sessions and trims keep their numbers.
LEMMA CountedStep ==
    ASSUME TypeInv, TokenInv, SessionsAreCounted, Effect, ProofsTyped'
    PROVE  SessionsAreCounted'
<1>0. /\ fresh \in Nat /\ fresh' \in Nat /\ sessions \subseteq SessionRow
      /\ \A x \in sessions : x.id \in Nat
      /\ \A w \in Trims : w.id \in Nat
    <2>1. \A w \in Trims : w.id \in Nat
        BY DEF Trims, TypeInv, WorkTyped, Trim, Link, Publication, Token
    <2>. QED
        BY <2>1 DEF TypeInv, ProofsTyped, SessionRow, Token
<1>1. CASE BeginsSession
    <2>1. PICK u \in Users :
             /\ sessions' = sessions \cup {NewSession(u)}
             /\ work' = work \cup {[kind |-> "trim", user |-> u, id |-> fresh']}
        BY <1>1 DEF BeginsSession
    <2>2. fresh' = fresh + 1 /\ NewSession(u).id = fresh + 1
        BY <1>1 DEF BeginsSession, Draw, NewSession
    <2>3. Trims' = Trims \cup {[kind |-> "trim", user |-> u, id |-> fresh']}
        BY <2>1 DEF Trims
    <2>4. IsFiniteSet(sessions') /\ IsFiniteSet(Trims')
        BY <2>1, <2>3, FS_AddElement DEF SessionsAreCounted
    <2>5. \A x \in sessions : x.id # fresh + 1
        BY <1>0 DEF SessionsAreCounted
    <2>6. \A x, y \in sessions' : x.id = y.id => x = y
        BY <2>1, <2>2, <2>5 DEF SessionsAreCounted
    <2>7. \A x \in sessions' : x.id <= fresh'
        BY <1>0, <2>1, <2>2 DEF SessionsAreCounted
    <2>8. \A w \in Trims' : w.id <= fresh'
        BY <1>0, <2>2, <2>3 DEF SessionsAreCounted
    <2>. QED
        BY <2>4, <2>6, <2>7, <2>8 DEF SessionsAreCounted
<1>2. CASE Rotates
    <2>1. PICK x \in sessions, new \in sessions' :
             new.id = x.id /\ sessions' = (sessions \ {x}) \cup {new}
        BY <1>2, RotatedRow DEF TokenInv
    <2>2. fresh' = fresh + 1 /\ Trims' = Trims
        BY <1>2 DEF Rotates, Draw, Trims
    <2>3. IsFiniteSet(sessions')
        <3>1. IsFiniteSet(sessions \ {x})
            BY FS_RemoveElement DEF SessionsAreCounted
        <3>. QED
            BY <2>1, <3>1, FS_AddElement
    <2>4. \A a, b \in sessions' : a.id = b.id => a = b
        BY <2>1 DEF SessionsAreCounted
    <2>5. /\ \A a \in sessions' : a.id <= fresh'
          /\ \A w \in Trims' : w.id <= fresh'
        BY <1>0, <2>1, <2>2 DEF SessionsAreCounted
    <2>. QED
        BY <2>2, <2>3, <2>4, <2>5 DEF SessionsAreCounted
<1>3. ASSUME sessions' \subseteq sessions, Trims' \subseteq Trims, fresh <= fresh'
      PROVE  SessionsAreCounted'
    <2>1. IsFiniteSet(sessions') /\ IsFiniteSet(Trims')
        BY <1>3, FS_Subset DEF SessionsAreCounted
    <2>. QED
        BY <1>0, <1>3, <2>1 DEF SessionsAreCounted
<1>4. CASE TrimSessions
    <2>1. sessions' \subseteq sessions /\ Trims' \subseteq Trims /\ UNCHANGED fresh
        BY <1>4 DEF TrimSessions, Newest, SessionsOf, Trims
    <2>. QED
        BY <1>0, <1>3, <2>1
<1>5. CASE LoseWork
    <2>1. sessions' \subseteq sessions /\ Trims' \subseteq Trims /\ UNCHANGED fresh
        BY <1>5 DEF LoseWork, Trims
    <2>. QED
        BY <1>0, <1>3, <2>1
<1>. QED
    BY <1>1, <1>2, <1>3, <1>4, <1>5, SessionFrame

\* Every session above the bound has its trim, and the newest are left.
LEMMA BoundedStep ==
    ASSUME TypeInv, TokenInv, SessionInv, Effect
    PROVE  SessionsAreBounded'
<1>. SUFFICES ASSUME "Faults" \notin menu, NEW u \in Users
              PROVE  Cardinality({s \in sessions' : s.user = u}) <=
                       MaxSessions + Cardinality({w \in work' : w.kind = "trim" /\ w.user = u})
    BY MenuStays DEF SessionsAreBounded, SessionsOf
<1>. DEFINE S == {s \in sessions : s.user = u}
            SS == {s \in sessions' : s.user = u}
            T == {w \in work : w.kind = "trim" /\ w.user = u}
            TT == {w \in work' : w.kind = "trim" /\ w.user = u}
<1>0. /\ IsFiniteSet(S) /\ Cardinality(S) \in Nat /\ IsFiniteSet(T) /\ Cardinality(T) \in Nat
      /\ MaxSessions \in Nat /\ fresh \in Nat
    <2>1. S \in SUBSET sessions /\ T \in SUBSET Trims
        BY DEF Trims
    <2>. HIDE DEF S, T
    <2>. QED
        BY <2>1, PrevAssumption, FS_Subset, FS_CardinalityType
        DEF SessionInv, SessionsAreCounted, TypeInv, ProofsTyped
<1>1. Cardinality(S) <= MaxSessions + Cardinality(T)
    BY DEF SessionInv, SessionsAreBounded, SessionsOf
<1>2. /\ \A x \in S : x.id \in Nat
      /\ \A x, y \in S : x.id = y.id => x = y
    BY DEF SessionInv, SessionsAreCounted, TypeInv, ProofsTyped, SessionRow, Token
<1>3. SUFFICES Cardinality(SS) <= MaxSessions + Cardinality(TT)
    OBVIOUS
<1>4. CASE BeginsSession
    <2>1. PICK v \in Users :
             /\ sessions' = sessions \cup {NewSession(v)}
             /\ work' = work \cup {[kind |-> "trim", user |-> v, id |-> fresh']}
        BY <1>4 DEF BeginsSession
    <2>. DEFINE trim == [kind |-> "trim", user |-> v, id |-> fresh']
    <2>2. NewSession(v).user = v
        BY DEF NewSession
    <2>3. CASE v # u
        <3>1. SS = S /\ TT = T
            BY <2>1, <2>2, <2>3
        <3>. HIDE DEF S, SS, T, TT
        <3>. QED
            BY <1>1, <3>1
    <2>4. CASE v = u
        <3>1. SS = S \cup {NewSession(v)} /\ TT = T \cup {trim}
            BY <2>1, <2>2, <2>4
        <3>2. trim \notin T
            <4>1. trim.id = fresh + 1
                BY <1>4 DEF BeginsSession, Draw
            <4>2. \A w \in T : w.id <= fresh
                BY DEF SessionInv, SessionsAreCounted, Trims
            <4>. HIDE DEF trim, T
            <4>. QED
                BY <1>0, <4>1, <4>2
        <3>. HIDE DEF S, SS, T, TT, trim
        <3>3. Cardinality(SS) <= Cardinality(S) + 1
            <4>1. Cardinality(SS) = IF NewSession(v) \in S THEN Cardinality(S)
                                    ELSE Cardinality(S) + 1
                BY <1>0, <3>1, FS_AddElement
            <4>. QED
                BY <1>0, <4>1
        <3>4. Cardinality(TT) = Cardinality(T) + 1
            BY <1>0, <3>1, <3>2, FS_AddElement
        <3>5. Cardinality(SS) \in Nat
            BY <1>0, <3>1, FS_AddElement, FS_CardinalityType
        <3>. QED
            BY <1>0, <1>1, <3>3, <3>4, <3>5
    <2>. QED
        BY <2>3, <2>4
<1>5. CASE Rotates
    <2>1. PICK x \in sessions, new \in sessions' :
             new.user = x.user /\ sessions' = (sessions \ {x}) \cup {new}
        BY <1>5, RotatedRow DEF TokenInv
    <2>2. TT = T
        BY <1>5 DEF Rotates
    <2>3. CASE x.user # u
        <3>1. SS = S
            BY <2>1, <2>3
        <3>. HIDE DEF S, SS, T, TT
        <3>. QED
            BY <1>1, <2>2, <3>1
    <2>4. CASE x.user = u
        <3>1. SS = (S \ {x}) \cup {new} /\ x \in S
            BY <2>1, <2>4
        <3>. HIDE DEF S, SS, T, TT
        <3>2. IsFiniteSet(S \ {x}) /\ Cardinality(S \ {x}) = Cardinality(S) - 1
            BY <1>0, <3>1, FS_RemoveElement
        <3>3. /\ IsFiniteSet(SS)
              /\ Cardinality(SS) = IF new \in S \ {x} THEN Cardinality(S \ {x})
                                   ELSE Cardinality(S \ {x}) + 1
            BY <3>1, <3>2, FS_AddElement
        <3>. QED
            BY <1>0, <1>1, <2>2, <3>2, <3>3
    <2>. QED
        BY <2>3, <2>4
<1>6. CASE TrimSessions
    <2>1. PICK w \in work :
             /\ w.kind = "trim"
             /\ sessions' = (sessions \ SessionsOf(w.user)) \cup Newest(w.user)
             /\ work' = work \ {w}
        BY <1>6 DEF TrimSessions
    <2>2. CASE w.user # u
        <3>1. SS = S /\ TT = T
            BY <2>1, <2>2 DEF SessionsOf, Newest
        <3>. HIDE DEF S, SS, T, TT
        <3>. QED
            BY <1>1, <3>1
    <2>3. CASE w.user = u
        <3>1. SS = {x \in S : Cardinality({o \in S : o.id > x.id}) < MaxSessions}
            BY <2>1, <2>3 DEF SessionsOf, Newest
        <3>2. TT \in SUBSET T
            BY <2>1
        <3>. HIDE DEF S, SS, T, TT
        <3>3. IsFiniteSet(SS) /\ Cardinality(SS) <= MaxSessions
            BY <1>0, <1>2, <3>1, NewestBound
        <3>4. Cardinality(TT) \in Nat /\ Cardinality(SS) \in Nat
            BY <1>0, <3>2, <3>3, FS_Subset, FS_CardinalityType
        <3>. QED
            BY <1>0, <3>3, <3>4
    <2>. QED
        BY <2>2, <2>3
<1>7. ~LoseWork
    BY DEF LoseWork
<1>8. CASE sessions' \subseteq sessions /\ Trims' = Trims
    <2>1. SS \in SUBSET S /\ TT = T
        BY <1>8 DEF Trims
    <2>. HIDE DEF S, SS, T, TT
    <2>2. Cardinality(SS) <= Cardinality(S) /\ Cardinality(SS) \in Nat
        BY <1>0, <2>1, FS_Subset, FS_CardinalityType
    <2>. QED
        BY <1>0, <1>1, <2>1, <2>2
<1>. QED
    BY <1>4, <1>5, <1>6, <1>7, <1>8, SessionFrame

\* At the beginning there is no session.
LEMMA SessionInit == PrevInit => SessionInv
<1>. SUFFICES ASSUME PrevInit PROVE SessionInv
    OBVIOUS
<1>1. sessions = {} /\ work = {} /\ Trims = {}
    BY DEF PrevInit, Trims
<1>2. SessionsAreCounted
    BY <1>1, FS_EmptySet DEF SessionsAreCounted
<1>3. ASSUME NEW u \in Users
      PROVE  Cardinality({s \in sessions : s.user = u}) <=
               MaxSessions + Cardinality({w \in work : w.kind = "trim" /\ w.user = u})
    <2>. DEFINE S == {s \in sessions : s.user = u}
                T == {w \in work : w.kind = "trim" /\ w.user = u}
    <2>1. S = {} /\ T = {}
        BY <1>1
    <2>. HIDE DEF S, T
    <2>2. Cardinality(S) = 0 /\ Cardinality(T) = 0
        BY <2>1, FS_EmptySet
    <2>3. Cardinality(S) <= MaxSessions + Cardinality(T)
        BY <2>2, PrevAssumption
    <2>. QED
        BY <2>3 DEF S, T
<1>. QED
    BY <1>2, <1>3 DEF SessionInv, SessionsAreBounded, SessionsOf

\* However CreateSession, UpdateSession and the goroutines of
\* DeleteOutdatedSessions overlap, only a fault leaves more sessions than allowed.
THEOREM SessionBoundTheorem == PrevSpec => []SessionsAreBounded
<1>1. PrevInit => TypeInv /\ TokenInv /\ SessionInv
    BY TypeInit, TokenInit, SessionInit
<1>2. ASSUME TypeInv /\ TokenInv /\ SessionInv, [PrevNext]_prevVars
      PROVE  (TypeInv /\ TokenInv /\ SessionInv)'
    <2>1. Effect
        BY <1>2, StepEffects
    <2>2. TypeInv' /\ TokenInv'
        BY <1>2, <2>1, TypeStep, TokenStep
    <2>3. SessionsAreCounted'
        BY <1>2, <2>1, <2>2, CountedStep DEF SessionInv, TypeInv
    <2>4. SessionsAreBounded'
        BY <1>2, <2>1, BoundedStep
    <2>. QED
        BY <2>2, <2>3, <2>4 DEF SessionInv
<1>3. SessionInv => SessionsAreBounded
    BY DEF SessionInv
<1>. QED
    BY <1>1, <1>2, <1>3, PTL DEF PrevSpec
=============================================================================
