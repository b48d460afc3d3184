------------------------------ MODULE Sharing ------------------------------
(***************************************************************************)
(* Teams and shared folders (internal/vault/sharing.go): a team grows by   *)
(* invitations, a folder is shared by its owner with a team, a user or     *)
(* both, with a permission and perhaps an expiry, and a user's copy of the *)
(* folder key is stored when it is shared with him directly.               *)
(*                                                                         *)
(* Nothing takes a role away or changes it, and a folder keeps its owner:  *)
(* what InviteToTeam, ShareFolder and RevokeShare check first still holds  *)
(* when they write, unless a foreign key refuses the write.  Accepting an  *)
(* invitation is a transaction at READ COMMITTED that reads it, adds the   *)
(* member and marks it.  Whom an invitation names, by email or public key, *)
(* is stored and not looked at again.                                      *)
(***************************************************************************)
EXTENDS Integers, FiniteSets

CONSTANTS
    Users,       \* accounts
    Teams,       \* team ids uuid.New can return
    Invitations, \* invitation ids
    Folders,     \* folder ids
    Shares,      \* ids of shared_folders
    Requests,    \* acceptances in progress
    None         \* no user, no team, no folder, no invitation

ASSUME SharingAssumption ==
    /\ None \notin Users \cup Teams \cup Folders \cup Invitations
    /\ IsFiniteSet(Requests) /\ IsFiniteSet(Users)

Roles == {"owner", "admin", "member", "viewer"}
Permissions == {"view", "edit", "admin"}

(* permissionLevels *)
Level == [view |-> 1, edit |-> 2, admin |-> 3]

VARIABLES
    member,     \* team_members: role and invitation by team and user
    invitation, \* team_invitations
    owner,      \* user_id of every folder, None for one that does not exist
    share,      \* shared_folders
    keys,       \* shared_folder_keys: users with a key, by folder
    request,    \* the acceptances in progress
    acceptedBy, \* history: users who were told an invitation is accepted
    overlaps    \* history: invitations whose acceptances overlapped

vars == <<member, invitation, owner, share, keys, request, acceptedBy, overlaps>>

NoMember == [role |-> "none", by |-> None]
NoInvitation == [team |-> None, from |-> None, role |-> "none",
                 status |-> "none"]
NoShare == [folder |-> None, team |-> None, user |-> None,
            permission |-> "view", state |-> "none"]
Idle == [invitation |-> None, user |-> None]

SharingTypeOK ==
    /\ member \in [Teams -> [Users -> [role : Roles \cup {"none"},
                                       by   : Invitations \cup {None}]]]
    /\ invitation \in [Invitations ->
                         [team   : Teams \cup {None},
                          from   : Users \cup {None},
                          role   : (Roles \ {"owner"}) \cup {"none"},
                          status : {"none", "pending", "lapsed", "accepted"}]]
    /\ owner \in [Folders -> Users \cup {None}]
    /\ share \in [Shares -> [folder     : Folders \cup {None},
                             team       : Teams \cup {None},
                             user       : Users \cup {None},
                             permission : Permissions,
                             state      : {"none", "live", "lapsed", "gone"}]]
    /\ keys \in [Folders -> SUBSET Users]
    /\ request \in [Requests -> [invitation : Invitations \cup {None},
                                 user       : Users \cup {None}]]
    /\ acceptedBy \in [Invitations -> SUBSET Users]
    /\ overlaps \in SUBSET Invitations

SharingInit ==
    /\ member = [t \in Teams |-> [u \in Users |-> NoMember]]
    /\ invitation = [i \in Invitations |-> NoInvitation]
    /\ owner \in [Folders -> Users]
    /\ share = [s \in Shares |-> NoShare]
    /\ keys = [f \in Folders |-> {}]
    /\ request = [r \in Requests |-> Idle]
    /\ acceptedBy = [i \in Invitations |-> {}]
    /\ overlaps = {}

Role(t, u) == member[t][u].role
Exists(t) == \E u \in Users : Role(t, u) = "owner"
Stored(s) == share[s].state \in {"live", "lapsed"}

-----------------------------------------------------------------------------
(* CreateTeam: the team and its owner, in one transaction. *)
CreateTeam(t, u) ==
    /\ ~Exists(t)
    /\ member' = [member EXCEPT ![t] = [member[t] EXCEPT
                                          ![u] = [NoMember EXCEPT !.role = "owner"]]]
    /\ UNCHANGED <<invitation, owner, share, keys, request, acceptedBy, overlaps>>

(* Mutant: any member may invite. *)
InviteByMember(i, t, u, role) ==
    /\ Role(t, u) # "none"
    /\ role \in Roles \ {"owner"}
    /\ invitation[i] = NoInvitation
    /\ invitation' = [invitation EXCEPT ![i] = [team |-> t, from |-> u,
                                                role |-> role,
                                                status |-> "pending"]]
    /\ UNCHANGED <<member, owner, share, keys, request, acceptedBy, overlaps>>

(* Mutant: the binding lets anybody be invited as owner. *)
InviteAsAnything(i, t, u, role) ==
    /\ Role(t, u) \in {"owner", "admin"}
    /\ invitation[i] = NoInvitation
    /\ invitation' = [invitation EXCEPT ![i] = [team |-> t, from |-> u,
                                                role |-> role,
                                                status |-> "pending"]]
    /\ UNCHANGED <<member, owner, share, keys, request, acceptedBy, overlaps>>

(* InviteToTeam; the request's binding lets nobody be invited as owner. *)
Invite(i, t, u, role) ==
    /\ Role(t, u) \in {"owner", "admin"}
    /\ role \in Roles \ {"owner"}
    /\ invitation[i] = NoInvitation
    /\ invitation' = [invitation EXCEPT ![i] = [team |-> t, from |-> u,
                                                role |-> role,
                                                status |-> "pending"]]
    /\ UNCHANGED <<member, owner, share, keys, request, acceptedBy, overlaps>>

(* Its seven days pass; nothing is written. *)
LapseInvitation(i) ==
    /\ invitation[i].status = "pending"
    /\ invitation' = [invitation EXCEPT ![i].status = "lapsed"]
    /\ UNCHANGED <<member, owner, share, keys, request, acceptedBy, overlaps>>

Accepting(i) == {q \in Requests : request[q].invitation = i}

(* Mutant: an invitation is not asked for its status. *)
ReadAnyInvitation(r, i, u) ==
    /\ request[r] = Idle
    /\ invitation[i].status \in {"pending", "accepted"}
    /\ request' = [request EXCEPT ![r] = [invitation |-> i, user |-> u]]
    /\ overlaps' = IF Accepting(i) # {} THEN overlaps \cup {i} ELSE overlaps
    /\ UNCHANGED <<member, invitation, owner, share, keys, acceptedBy>>

(* AcceptTeamInvitation reads the invitation: pending and not expired.     *)
ReadInvitation(r, i, u) ==
    /\ request[r] = Idle
    /\ invitation[i].status = "pending"
    /\ request' = [request EXCEPT ![r] = [invitation |-> i, user |-> u]]
    /\ overlaps' = IF Accepting(i) # {} THEN overlaps \cup {i} ELSE overlaps
    /\ UNCHANGED <<member, invitation, owner, share, keys, acceptedBy>>

(* Mutant: ON CONFLICT DO UPDATE. *)
JoinedAgain(i, u) ==
    LET t == invitation[i].team IN
    [member EXCEPT ![t] = [member[t] EXCEPT
                             ![u] = [role |-> invitation[i].role, by |-> i]]]

(* INSERT ... ON CONFLICT DO NOTHING: a member stays what he is. *)
Joined(i, u) ==
    LET t == invitation[i].team IN
    IF Role(t, u) = "none"
    THEN [member EXCEPT ![t] = [member[t] EXCEPT
                                  ![u] = [role |-> invitation[i].role, by |-> i]]]
    ELSE member

(* The member, the mark on the invitation and the commit; the UPDATE asks  *)
(* no longer for the status.                                               *)
Accept(r) ==
    LET i == request[r].invitation
        u == request[r].user
    IN
    /\ request[r] # Idle
    /\ member' = Joined(i, u)
    /\ invitation' = [invitation EXCEPT ![i].status = "accepted"]
    /\ request' = [request EXCEPT ![r] = Idle]
    /\ acceptedBy' = [acceptedBy EXCEPT ![i] = @ \cup {u}]
    /\ UNCHANGED <<owner, share, keys, overlaps>>

(* The transaction fails and is rolled back. *)
AcceptFailed(r) ==
    /\ request[r] # Idle
    /\ request' = [request EXCEPT ![r] = Idle]
    /\ UNCHANGED <<member, invitation, owner, share, keys, acceptedBy, overlaps>>

-----------------------------------------------------------------------------
(* ShareFolder by the owner: with a team, a user, or both; a user's key is *)
(* inserted, or replaced when he has one.                                  *)
ShareFolder(s, f, t, u, p) ==
    /\ share[s] = NoShare
    /\ owner[f] # None
    /\ t # None \/ u # None
    /\ t = None \/ (t \in Teams /\ Exists(t))
    /\ share' = [share EXCEPT ![s] = [folder |-> f, team |-> t, user |-> u,
                                      permission |-> p, state |-> "live"]]
    /\ keys' = IF u = None THEN keys ELSE [keys EXCEPT ![f] = @ \cup {u}]
    /\ UNCHANGED <<member, invitation, owner, request, acceptedBy, overlaps>>

(* Its expires_at passes; nothing is written. *)
LapseShare(s) ==
    /\ share[s].state = "live"
    /\ share' = [share EXCEPT ![s].state = "lapsed"]
    /\ UNCHANGED <<member, invitation, owner, keys, request, acceptedBy, overlaps>>

(* RevokeShare by the folder's owner: the share alone. *)
RevokeShare(s) ==
    /\ Stored(s)
    /\ share' = [share EXCEPT ![s].state = "gone"]
    /\ UNCHANGED <<member, invitation, owner, keys, request, acceptedBy, overlaps>>

(* FolderService.DeleteFolder: shares and keys go with the folder. *)
DeleteFolder(f) ==
    /\ owner[f] # None
    /\ owner' = [owner EXCEPT ![f] = None]
    /\ share' = [s \in Shares |-> IF Stored(s) /\ share[s].folder = f
                                  THEN [share[s] EXCEPT !.state = "gone"]
                                  ELSE share[s]]
    /\ keys' = [keys EXCEPT ![f] = {}]
    /\ UNCHANGED <<member, invitation, request, acceptedBy, overlaps>>

-----------------------------------------------------------------------------
(* ListUserTeams, and the subquery of the folder queries. *)
TeamsOf(u) == {t \in Teams : Role(t, u) # "none"}

(* The shares of a folder that concern a user, himself or by his teams. *)
Reach(u, f) ==
    {s \in Shares : /\ Stored(s) /\ share[s].folder = f
                    /\ share[s].user = u \/ share[s].team \in TeamsOf(u)}

(* GetSharedFolders lists them, expired ones too. *)
Listed(u) == UNION {Reach(u, f) : f \in Folders}

(* Mutant: the lowest permission comes first. *)
LowestShare(u, f) ==
    LET live == {s \in Reach(u, f) : share[s].state = "live"} IN
    {s \in live : \A x \in live :
                    Level[share[x].permission] >= Level[share[s].permission]}

(* The SELECT of CheckFolderAccess: among the live ones a highest. *)
FirstShare(u, f) ==
    LET live == {s \in Reach(u, f) : share[s].state = "live"} IN
    {s \in live : \A x \in live :
                    Level[share[x].permission] <= Level[share[s].permission]}

CheckFolderAccess(u, f, p) ==
    /\ owner[f] # None
    /\ \/ owner[f] = u
       \/ \E s \in FirstShare(u, f) : Level[share[s].permission] >= Level[p]

(* GetFolderKey asks for the key alone. *)
GetFolderKey(u, f) == u \in keys[f]

-----------------------------------------------------------------------------
TeamCalls(t, u) ==
    \/ CreateTeam(t, u)
    \/ \E i \in Invitations, role \in Roles : Invite(i, t, u, role)

InvitationCalls(i) ==
    \/ LapseInvitation(i)
    \/ \E r \in Requests, u \in Users : ReadInvitation(r, i, u)

FolderCalls(f) ==
    \/ \E s \in Shares, t \in Teams \cup {None}, u \in Users \cup {None},
          p \in Permissions : ShareFolder(s, f, t, u, p)
    \/ DeleteFolder(f)

SharingNext ==
    \/ \E t \in Teams, u \in Users : TeamCalls(t, u)
    \/ \E i \in Invitations : InvitationCalls(i)
    \/ \E r \in Requests : Accept(r) \/ AcceptFailed(r)
    \/ \E f \in Folders : FolderCalls(f)
    \/ \E s \in Shares : LapseShare(s) \/ RevokeShare(s)

SharingSpec == SharingInit /\ [][SharingNext]_vars

-----------------------------------------------------------------------------
(* An invitation admits one user, unless acceptances of it overlapped: its *)
(* status is read without a lock and overwritten without a look.  Then it  *)
(* admits at most as many as there are requests at a time.                 *)
InvitationAdmitsOne ==
    \A i \in Invitations :
        /\ Cardinality(acceptedBy[i]) <= Cardinality(Requests)
        /\ i \notin overlaps => Cardinality(acceptedBy[i]) <= 1

(* Whoever is in a team is its one owner or has the role of an invitation  *)
(* of the owner or an admin that he accepted: accepting never changes a    *)
(* role, the owner's included, and no acceptance adds an owner.            *)
RolesAreGranted ==
    \A t \in Teams, u \in Users :
        /\ Role(t, u) = "owner" => \A v \in Users \ {u} : Role(t, v) # "owner"
        /\ Role(t, u) \in Roles \ {"owner"} =>
              LET i == member[t][u].by IN
              /\ i \in Invitations /\ invitation[i].team = t
              /\ Role(t, u) = invitation[i].role
              /\ u \in acceptedBy[i]
              /\ Role(t, invitation[i].from) \in {"owner", "admin"}
        /\ Role(t, u) # "none" => Exists(t)

(* CheckFolderAccess, which looks at one share, answers what all of them   *)
(* say: the owner may do everything, anyone else what some share that has  *)
(* not expired allows him, and then he finds the folder in his list.       *)
AccessFollowsShares ==
    \A u \in Users, f \in Folders, p \in Permissions :
        CheckFolderAccess(u, f, p) <=>
            /\ owner[f] # None
            /\ \/ owner[f] = u
               \/ \E s \in Listed(u) :
                     /\ share[s].folder = f /\ share[s].state = "live"
                     /\ Level[share[s].permission] >= Level[p]

=============================================================================
