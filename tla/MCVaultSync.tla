----------------------------- MODULE MCVaultSync -----------------------------
(* Instances of VaultSync for TLC. *)
EXTENDS VaultSync, TLC

CONSTANTS i1, i2, p1, a1, a2, h1

TwoItems   == {i1, i2}
OneItem    == {i1}
OnePersona == {p1}
Nothing    == {}
OneAccount == {a1}
TwoAccounts == {a1, a2}
Symmetry    == Permutations(TwoAccounts)
OneHandler == {h1}

\* Nothing overlaps and everything goes wrong; requests are lost and the device
\* is reset; two syncs overlap; requests are lost and accounts change.
TwoSyncs    == {"twoSyncs"}
Faults      == {"offline", "storage", "eviction", "reset", "rekey"}
Resets      == {"offline", "reset"}
Rekeyed     == {"offline", "rekey"}

AnyFaults   == {Faults, Resets, TwoSyncs}
Retries     == {Rekeyed}
Calm        == {{}}
=============================================================================
