------------------------------ MODULE MCSignUp -----------------------------
(* Instances of SignUp for TLC. *)
EXTENDS SignUp

\* One account exists and has an address; the other one is free to be made.
OneAccount ==
    [a \in Accounts |-> IF a = CHOOSE x \in Accounts : TRUE
                        THEN CHOOSE e \in Emails : TRUE ELSE Null]
=============================================================================
