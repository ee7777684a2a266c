------------------------------ MODULE MCServer -----------------------------
(* Instances of Server for TLC. *)
EXTENDS Server

\* Event 1 is profile.created and event 3 profile.deleted of one account;
\* event 2 is a mail that has nothing to do with either.
AccountLife == [e \in Events |-> IF e = 3 THEN {1} ELSE {}]

Base == [valid |-> TRUE, broker |-> TRUE, tables |-> "initial",
         email |-> CHOOSE m \in Emails : TRUE, events |-> {1, 3}, menu |-> {},
         asks |-> {}]

\* What a read names the account by.
By(id, m, n) == [id |-> id, email |-> m, username |-> n]

EventDeployments ==
    {\* events across signals and crashes
     [Base EXCEPT !.menu = {"SignUp", "RequestDeletion", "Signal"}],
     [Base EXCEPT !.menu = {"SignUp", "Mail", "Crash"}, !.events = Events],
     \* what other services are told meanwhile
     [Base EXCEPT !.menu = {"SignUp", "RequestDeletion", "CancelDeletion",
                            "GetProfileDeletionStatus"}],
     [Base EXCEPT !.menu = {"SignUp", "RequestDeletion", "ConfirmEmail", "GetAuthInfo"},
                  !.asks = {By(FALSE, Base.email, None)}],
     [Base EXCEPT !.menu = {"SignUp", "SetUsername", "GetAuthInfo"}, !.events = {1, 2},
                  !.asks = {By(TRUE, Base.email, n) : n \in Usernames}]}

\* A first start on any database, with flags that are accepted or not.
StartDeployments ==
    {[Base EXCEPT !.broker = FALSE, !.events = {}, !.tables = t, !.valid = v,
                  !.menu = {"Mail", "Signal", "Crash", "Database"}] :
         t \in {"none", "other"}, v \in BOOLEAN}

AllDeployments == EventDeployments \cup StartDeployments
=============================================================================
