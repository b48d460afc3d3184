----------------------------- MODULE MCSharing -----------------------------
(* Instances of Sharing for TLC: everything is interchangeable. *)
EXTENDS Sharing, TLC

SharingSymmetry ==
    Permutations(Users) \cup Permutations(Invitations)
        \cup Permutations(Shares) \cup Permutations(Requests)

(* Folders are shared once the teams have grown, with no acceptance in     *)
(* progress: whom a share reaches is looked up when it is used, so that    *)
(* the order makes no difference to it.                                    *)
SharesLast ==
    (\E s \in Shares : share[s] # NoShare) =>
        /\ overlaps = {} /\ \A r \in Requests : request[r] = Idle
        /\ \A i \in Invitations : invitation[i].status \in {"none", "accepted"}
============================================================================
