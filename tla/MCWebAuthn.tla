----------------------------- MODULE MCWebAuthn -----------------------------
(* Instances of WebAuthn for TLC: users, passkeys, challenges and requests *)
(* are interchangeable.                                                    *)
EXTENDS WebAuthn, TLC

WebAuthnSymmetry ==
    Permutations(Users) \cup Permutations(Passkeys)
        \cup Permutations(Challenges) \cup Permutations(Requests)
=============================================================================
