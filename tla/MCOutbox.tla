------------------------------ MODULE MCOutbox -----------------------------
(* Instances of Outbox for TLC. *)
EXTENDS Outbox

\* Event 1 is profile.created and event 3 profile.deleted of one account;
\* event 2 is a mail that has nothing to do with either.
Lifecycle == [e \in Events |-> IF e = 3 THEN {1} ELSE {}]
=============================================================================
