--------------------------- MODULE MCVaultStore ---------------------------
(* Instances of VaultStore for TLC: requests are interchangeable. *)
EXTENDS VaultStore, TLC

SaveSymmetry == Permutations(Saves)
===========================================================================
