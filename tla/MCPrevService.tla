---------------------------- MODULE MCPrevService ---------------------------
(* Instances of PrevService for TLC. *)
EXTENDS PrevService

Nobody == [u \in Users |-> None]

Only(row) == [u \in Users |-> IF u = 1 THEN row ELSE None]

AnyEmail == CHOOSE e \in Emails : TRUE
OtherEmail == CHOOSE e \in Emails : e # AnyEmail
AnyPassword == CHOOSE p \in Passwords : TRUE
AnySubject == CHOOSE s \in Subjects : TRUE

WithPassword == addUsersRow(AnyEmail, AnyPassword, TRUE)

Linked == [addUsersRow(AnyEmail, None, TRUE) EXCEPT !.ids = [p \in Providers |-> AnySubject]]

Both == [u \in Users |-> IF u = 1 THEN WithPassword
                         ELSE addUsersRow(OtherEmail, AnyPassword, TRUE)]

Scene(rows, requestCount, asks) ==
    [accounts |-> rows, callers |-> 1 .. requestCount, menu |-> asks]

\* Each scene lets the requests meet that touch the same rows.
WorkflowScenes ==
    {Scene(Nobody, 3, {"SignUp", "Resend", "ActivateProfile", "ConfirmEmailBinding"}),
     Scene(Nobody, 2, {"SignUp", "ConfirmEmailBinding", "Faults"}),
     Scene(Only(WithPassword), 4,
           {"ChangeEmail", "ConfirmEmailBinding", "RequestReset", "ResetPassword"}),
     Scene(Only(Linked), 3, {"Disconnect", "Connect", "OAuth", "IdToken"}),
     Scene(Only(WithPassword), 3, {"SignIn", "Refresh", "EndSessions"}),
     Scene(Only(WithPassword), 3, {"SignIn", "Refresh", "Block"}),
     Scene(Nobody, 3, {"OAuth", "SignInProvider"}),
     Scene(Nobody, 2, {"SignIn"}),
     Scene(Only(WithPassword), 4,
           {"OAuth", "SignInProvider", "Disconnect", "ChangePassword", "SetUsername"}),
     Scene(Only(Linked), 2, {"IdToken", "ChangeEmail"}),
     Scene(Nobody, 2, {"IdToken", "SignInProvider"}),
     Scene(Only(Linked), 3, {"OAuth", "RequestDeletion"})}

DeletionScenes ==
    {Scene(Only(WithPassword), 2,
           {"RequestDeletion", "UpdateDeletion", "CancelDeletion", "Events", "Block"}),
     Scene(Both, 2, {"RequestDeletion", "Events", "Faults"}),
     Scene(Only(WithPassword), 2, {"ChangeEmail", "RequestDeletion", "Events", "Faults"}),
     Scene(Nobody, 1, {"SignUp", "Events", "Faults"})}
=============================================================================
