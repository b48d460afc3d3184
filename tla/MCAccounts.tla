----------------------------- MODULE MCAccounts -----------------------------
(* Instances of Accounts for TLC: all the model values but None are        *)
(* interchangeable with the others of their set.                           *)
EXTENDS Accounts, TLC

AccountSymmetry ==
    Permutations(Requests) \cup Permutations(Codes) \cup Permutations(Tokens)
        \cup Permutations(Secrets)
=============================================================================
