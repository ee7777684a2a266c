----------------------------- MODULE MCFactors -----------------------------
(***************************************************************************)
(* Instances for TLC of the factors an account proves itself with: TOTP    *)
(* codes and passkeys.  They share no row, so a behaviour of the run is    *)
(* about one of them.                                                      *)
(***************************************************************************)
EXTENDS TotpCodes, Passkeys, TLC

VARIABLE factor     \* the factor of this behaviour

factorVars == <<totpVars, passkeyVars, factor>>

\* The kinds of keys make no difference to a behaviour about codes.
FactorsInit ==
    /\ TotpInit /\ PasskeyInit
    /\ factor \in {"totp", "passkey"}
    /\ factor = "totp" => kind = [c \in Credentials |-> CHOOSE k \in Kinds : TRUE]

FactorsNext ==
    \/ factor = "totp" /\ TotpNext /\ UNCHANGED <<passkeyVars, factor>>
    \/ factor = "passkey" /\ PasskeyNext /\ UNCHANGED <<totpVars, factor>>

FactorsSpec == FactorsInit /\ [][FactorsNext]_factorVars

\* Codes of every second moving factor collide, so that within a span of three
\* the order of totpStep matters.
AnyCode == 0 .. 1
Alternating == [s \in Secrets |-> [k \in Factors |-> k % 2]]

\* Device-bound, synced, and one without a counter.
AllKinds ==
    {[synced |-> FALSE, counts |-> TRUE], [synced |-> TRUE, counts |-> TRUE],
     [synced |-> FALSE, counts |-> FALSE]}

\* Every secret has these codes, so secrets and accounts are interchangeable,
\* and so are the users of passkeys.
Interchangeable ==
    Permutations(Accounts) \cup Permutations(Secrets) \cup Permutations(Users)
=============================================================================
