------------------------------ MODULE MCPasskeys ------------------------------
(* Instances of Passkeys for TLC. *)
EXTENDS Passkeys

CONSTANTS c1, c2, k1

OneCall   == {c2}
TwoCalls  == {c1, c2}
OneCred   == {k1}
\* The first call registers, excluding the passkey there may be, or asks for what
\* the vault cannot do; the second one signs in with any.
Register  == {[kind |-> "create", wants |-> {k1}, legal |-> TRUE],
              [kind |-> "create", wants |-> {}, legal |-> FALSE]}
SignIn    == {[kind |-> "get", wants |-> {}, legal |-> TRUE]}
MayAsk    == [c \in Call |-> IF c = c2 THEN SignIn ELSE Register]
=============================================================================
