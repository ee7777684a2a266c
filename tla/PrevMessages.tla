---------------------------- MODULE PrevMessages ----------------------------
(***************************************************************************)
(* The messages of the previous API (api/proto): what a client can send    *)
(* that has the tokens it was given and the mails it received.  An absent  *)
(* field is None.  Link patterns, redirect addresses, client addresses and *)
(* user agents decide nothing and are left out; a provider's code comes    *)
(* with the state of the flow that produced it and is known by it.         *)
(***************************************************************************)
EXTENDS PrevStore

CONSTANT
    Refused         \* texts that do not parse, or that a validator turns down

Given == 1 .. fresh     \* tokens a client may have been given

Mailed == {m.token : m \in mailbox}

Ids == Users \cup Refused

Option(S) == S \cup {None}

-----------------------------------------------------------------------------
(* Accounts and sessions *)

SignUpRequest == [email : Emails \cup Refused, password : Passwords \cup Refused]

\* An activation code is known by its account.
ActivateProfileRequest == [user : Ids, code : activation]

SignInRequest == [email : Option(Emails), name : Option(Names), password : Passwords]

RefreshSessionRequest == [token : Given]

SignOutRequest == [token : Given]

EndSessionsRequest == [user : Ids, ids : {{}} \cup {{i} : i \in Given}]

-----------------------------------------------------------------------------
(* Providers *)

SignInGoogleRequest == [state : Given]

SignInGoogleTokenRequest == [idToken : issued]

SignInVkRequest == [state : Given]

ConnectGoogleRequest == [user : Ids, idToken : Option(issued), state : Option(Given)]

ConnectVkRequest == [user : Ids, state : Given]

DeleteGoogleConnectionRequest == [user : Ids]

DeleteVkConnectionRequest == [user : Ids]

-----------------------------------------------------------------------------
(* Passwords and names *)

RequestPasswordResetRequest == [email : Option(Emails), name : Option(Names)]

\* The link of the mail brings a token; older clients ask for id and code.
ResetPasswordRequest ==
    [user : Option(Ids), code : Option(Mailed), token : Option(Mailed),
     new : Passwords \cup Refused]

ChangePasswordRequest == [user : Ids, old : Passwords, new : Passwords \cup Refused]

SetUsernameRequest == [user : Ids, name : Names \cup Refused]

-----------------------------------------------------------------------------
(* Addresses and deletion *)

\* Message Reauthentication, with what each method needs.
Reauthentication ==
    [method : {"password"}, password : Passwords]
        \cup [method : {"google"}, idToken : issued]
        \cup [method : {"vk"}, state : Given]

\* Purpose "verify" leaves user and credentials out.
StartEmailBindingRequest ==
    [purpose : {"verify"}, email : Emails \cup Refused]
        \cup [purpose : {"change"}, user : Ids, email : Emails \cup Refused,
              credentials : Option(Reauthentication)]

ConfirmEmailBindingRequest == [token : Mailed]

\* Older clients send a password in place of credentials.
DeleteProfileRequest ==
    [user : Ids, shared : BOOLEAN, password : Option(Passwords),
     credentials : Option(Reauthentication)]

UpdateProfileDeletionRequest == [user : Ids, shared : BOOLEAN]

CancelProfileDeletionRequest == [user : Ids]
=============================================================================
