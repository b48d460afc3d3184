--------------------------- MODULE MCAccountVault ---------------------------
(* Instances of AccountVault for TLC. *)
EXTENDS AccountVault, TLC

AccountVaultSymmetry ==
    Permutations(Requests) \cup Permutations(Codes) \cup Permutations(Tokens)
        \cup Permutations(Saves)
=============================================================================
