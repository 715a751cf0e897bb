------------------------------ MODULE MCAccounts ------------------------------
(* Instances of Accounts for TLC. *)
EXTENDS Accounts, TLC

CONSTANTS d1, d2, h1, h2, a1, a2

OneDevice   == {d1}
TwoDevices  == {d1, d2}
Alone       == {<<d1, h1>>, <<d2, h1>>}
Joiner      == [d \in {d1, d2} |-> IF d = d1 THEN Op \ {"unlock"} ELSE {"enroll", "join", "unlock"}]
TwoAccounts == {a1, a2}
Symmetry    == Permutations(TwoAccounts)
=============================================================================
