---------------------------- MODULE MCKeychainLock ----------------------------
(* Instances of KeychainLock for TLC. *)
EXTENDS KeychainLock, TLC

CONSTANTS m1, m2, unlocker, right, wrong

OneMessage  == {m1}
TwoMessages == {m1, m2}
Pins        == {right, wrong}
Symmetry    == Permutations(TwoMessages)
=============================================================================
