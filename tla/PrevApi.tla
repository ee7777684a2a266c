------------------------------- MODULE PrevApi ------------------------------
(***************************************************************************)
(* The handlers of the previous service (internal/transport/grpc): which   *)
(* messages get past each of them, and what it passes on.                  *)
(***************************************************************************)
EXTENDS PrevMessages

\* uuid.Parse
Parsed(id) == id \notin Refused

\* ValidateEmail
ValidEmail(e) == e \notin Refused

\* ValidatePassword
ValidPassword(p) == p \notin Refused

\* Validator.Validate
ValidUsername(n) == n \notin Refused

\* By address, by name, or by both; not by neither.
Identified(q) == q.email # None \/ q.name # None

-----------------------------------------------------------------------------
(* session.go *)

SignUpInput == {q \in SignUpRequest : ValidEmail(q.email) /\ ValidPassword(q.password)}

ActivateProfileInput == {q \in ActivateProfileRequest : Parsed(q.user)}

SignInInput == {q \in SignInRequest : Identified(q)}

RefreshSessionInput == RefreshSessionRequest

SignOutInput == SignOutRequest

\* No session given means all of them.
EndSessionsInput == {q \in EndSessionsRequest : Parsed(q.user)}

-----------------------------------------------------------------------------
(* oauth.go *)

SignInGoogleInput == SignInGoogleRequest

SignInGoogleTokenInput == SignInGoogleTokenRequest

SignInVkInput == SignInVkRequest

\* Either an id token, or code and state.
ConnectGoogleInput ==
    {q \in ConnectGoogleRequest : Parsed(q.user) /\ (q.idToken = None) # (q.state = None)}

ConnectVkInput == {q \in ConnectVkRequest : Parsed(q.user)}

DeleteGoogleConnectionInput == 
    {q \in DeleteGoogleConnectionRequest : Parsed(q.user)}

DeleteVkConnectionInput == {q \in DeleteVkConnectionRequest : Parsed(q.user)}

-----------------------------------------------------------------------------
(* password.go, username.go *)

RequestPasswordResetInput == {q \in RequestPasswordResetRequest : Identified(q)}

\* A token makes the id needless; without one the id must parse.
ResetPasswordInput ==
    LET checked == {q \in ResetPasswordRequest : ValidPassword(q.new)}
    IN  {[user |-> None, code |-> q.token, new |-> q.new] :
             q \in {x \in checked : x.token # None}}
        \cup
        {[user |-> q.user, code |-> q.code, new |-> q.new] :
             q \in {x \in checked : x.token = None /\ x.user # None /\ Parsed(x.user)}}

ChangePasswordInput == {q \in ChangePasswordRequest : ValidPassword(q.new) /\ Parsed(q.user)}

SetUsernameInput == {q \in SetUsernameRequest : Parsed(q.user) /\ ValidUsername(q.name)}

-----------------------------------------------------------------------------
(* email.go, profile_deletion.go *)

\* reauthenticationInput: a missing message is one without a method.
reauthenticationInput(credentials) ==
    IF credentials = None THEN [method |-> None] ELSE credentials

\* The purpose decides which operation of service/email is asked for.
VerifyEmailInput ==
    {q \in StartEmailBindingRequest : q.purpose = "verify" /\ ValidEmail(q.email)}

ChangeEmailInput ==
    {[op |-> "ChangeEmail", user |-> q.user, email |-> q.email,
      credentials |-> reauthenticationInput(q.credentials)] :
         q \in {x \in StartEmailBindingRequest :
                   x.purpose = "change" /\ ValidEmail(x.email) /\ Parsed(x.user)}}

ConfirmEmailBindingInput == ConfirmEmailBindingRequest

\* Without credentials the password stands for them.
DeleteProfileInput ==
    {[op |-> "RequestDeletion", user |-> q.user, shared |-> q.shared,
      credentials |-> IF q.credentials = None
                      THEN [method |-> "password", password |-> q.password]
                      ELSE reauthenticationInput(q.credentials)] :
         q \in {x \in DeleteProfileRequest : Parsed(x.user)}}

UpdateProfileDeletionInput == {q \in UpdateProfileDeletionRequest : Parsed(q.user)}

CancelProfileDeletionInput == {q \in CancelProfileDeletionRequest : Parsed(q.user)}
=============================================================================
