------------------------------ MODULE PrevOAuth -----------------------------
(***************************************************************************)
(* Provider flows of the previous service (pkg/oauth, oauth_state.go): the *)
(* state that binds a redirect to the flow it ends, and the providers'     *)
(* answers.                                                                *)
(***************************************************************************)
EXTENDS PrevApi

\* CreateOAuthState; redirect address and client are not told apart here.
CreateOAuthState(p) ==
    /\ Draw
    /\ states' = states \cup {[token |-> fresh', provider |-> p, expires |-> now + Ttl]}

CreateGoogleLink == CreateOAuthState("google")

CreateVkLink == CreateOAuthState("vk")

RequestGoogleOAuth(c) ==
    /\ Arrives(c, "OAuth") /\ Return(c)
    /\ CreateGoogleLink
    /\ UNCHANGED <<users, requests, activation, resets, mailVars, proofs, issued,
                   sessions, outbox, work, spent, restVars>>

RequestVkOAuth(c) ==
    /\ Arrives(c, "OAuth") /\ Return(c)
    /\ CreateVkLink
    /\ UNCHANGED <<users, requests, activation, resets, mailVars, proofs, issued,
                   sessions, outbox, work, spent, restVars>>

\* ConsumeOAuthState: one DELETE that must hit one row.
ConsumeOAuthState(p, token) ==
    \E s \in states : /\ s.token = token /\ s.provider = p /\ Live(s)
                      /\ states' = states \ {s}
                      /\ Spend(token)

-----------------------------------------------------------------------------
\* Google signs a user in and gives the client an id token.
GoogleIdToken ==
    /\ "IdToken" \in menu
    /\ Draw
    /\ \E s \in Subjects, at \in now .. now + Skew :
         issued' = issued \cup {[token |-> fresh', subject |-> s, at |-> at]}
    /\ UNCHANGED <<users, requests, activation, resets, mailVars, states, proofs,
                   sessions, outbox, work, calls, spent, restVars>>

\* GetUserInfoByIdToken: whom the token names, with a verified address.
GetUserInfoByIdToken(t) == [subject : {t.subject}, email : Emails]

\* getUserInfoByRequest: a subject and a verified address, if Google shares one.
GoogleInfo == [subject : Subjects, email : Emails \cup {None}]

\* GetAccessToken: the state is spent before Google is asked.
GetGoogleAccessToken(token) == ConsumeOAuthState("google", token)

GetUserInfoByCode(token, info) == GetGoogleAccessToken(token) /\ info \in GoogleInfo

\* GetAccessToken of VK: subject and address come with the access token.
VkInfo == [subject : Subjects, email : Emails \cup {None}]

GetVkAccessToken(token, info) == ConsumeOAuthState("vk", token) /\ info \in VkInfo
=============================================================================
