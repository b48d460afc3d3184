---------------------------- MODULE MCNostrLogin ----------------------------
(* Instances of NostrNames, and NostrLogin with it, for TLC. *)
EXTENDS NostrNames, TLC

NostrSymmetry ==
    Permutations(Requests) \cup Permutations(Challenges)
        \cup Permutations(Pubkeys) \cup Permutations(Checks)

(* Names need an account and do not care how its sessions come about: they *)
(* are explored while no challenge has been issued and no time has passed. *)
Apart ==
    \/ domain = [a \in Addresses \ Served |-> None]
       /\ given = [a \in Addresses \ Served |-> {}]
       /\ check = [v \in Checks |-> NoCheck]
    \/ now = 0 /\ \A c \in Challenges : holder[c] = None
=============================================================================
