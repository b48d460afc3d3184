--------------------------- MODULE SharingProofs ---------------------------
(***************************************************************************)
(* Roles, invitations and access of Sharing, for any numbers of users,     *)
(* teams, invitations, folders, shares and acceptances in progress.        *)
(*                                                                         *)
(* An invitation that nobody has accepted yet has all its acceptances      *)
(* ahead of it: they and those that are over never outnumber the requests, *)
(* and without an overlap there is one of them in all.                     *)
(***************************************************************************)
EXTENDS Sharing, FiniteSetTheorems, TLAPS

(* An invitation is of a team, by someone who may invite, to a lesser role. *)
InvitationsAreGood ==
    \A i \in Invitations : invitation[i].status # "none" =>
        /\ invitation[i].team \in Teams
        /\ invitation[i].from \in Users
        /\ invitation[i].role \in Roles \ {"owner"}
        /\ Role(invitation[i].team, invitation[i].from) \in {"owner", "admin"}

(* What is being accepted has been issued. *)
AcceptancesAreGood ==
    \A r \in Requests : request[r] # Idle =>
        /\ request[r].invitation \in Invitations
        /\ request[r].user \in Users
        /\ invitation[request[r].invitation].status # "none"

(* Only an invitation that is marked has been accepted. *)
AcceptedIsMarked ==
    \A i \in Invitations :
        invitation[i].status # "accepted" => acceptedBy[i] = {}

(* Acceptances over and in progress. *)
AcceptancesCount ==
    \A i \in Invitations :
        /\ IsFiniteSet(acceptedBy[i])
        /\ Cardinality(acceptedBy[i]) + Cardinality(Accepting(i))
              <= Cardinality(Requests)

(* Without an overlap there is one, in progress or over. *)
OneUnlessOverlapped ==
    \A i \in Invitations : i \notin overlaps =>
        /\ \A q, r \in Accepting(i) : q = r
        /\ \A u, v \in acceptedBy[i] : u = v
        /\ acceptedBy[i] # {} => Accepting(i) = {}

SharingInv ==
    /\ SharingTypeOK
    /\ RolesAreGranted
    /\ InvitationsAreGood
    /\ AcceptancesAreGood
    /\ AcceptedIsMarked
    /\ AcceptancesCount
    /\ OneUnlessOverlapped

LEMMA IdleIsIdle ==
    /\ Idle.invitation = None /\ Idle.user = None
    /\ Idle \in [invitation : Invitations \cup {None}, user : Users \cup {None}]
BY DEF Idle

LEMMA AcceptingFinite ==
    ASSUME NEW i
    PROVE /\ IsFiniteSet(Accepting(i))
          /\ Cardinality(Accepting(i)) <= Cardinality(Requests)
          /\ Cardinality(Accepting(i)) \in Nat /\ Cardinality(Requests) \in Nat
<1>1. Accepting(i) \subseteq Requests
  BY DEF Accepting
<1> QED
  BY <1>1, SharingAssumption, FS_Subset, FS_CardinalityType

LEMMA SharingInitInv == SharingInit => SharingInv
<1> SUFFICES ASSUME SharingInit PROVE SharingInv
  OBVIOUS
<1> USE DEF SharingInit
<1>1. SharingTypeOK
  BY DEF SharingTypeOK, NoMember, NoInvitation, NoShare, Idle, Permissions
<1>2. RolesAreGranted
  BY DEF RolesAreGranted, Role, NoMember, Roles
<1>3. InvitationsAreGood /\ AcceptancesAreGood /\ AcceptedIsMarked
  BY DEF InvitationsAreGood, AcceptancesAreGood, AcceptedIsMarked, NoInvitation
<1>4. AcceptancesCount
  <2> SUFFICES ASSUME NEW i \in Invitations
               PROVE /\ IsFiniteSet(acceptedBy[i])
                     /\ Cardinality(acceptedBy[i]) + Cardinality(Accepting(i))
                           <= Cardinality(Requests)
    BY DEF AcceptancesCount
  <2>1. acceptedBy[i] = {}
    OBVIOUS
  <2> QED
    BY <2>1, AcceptingFinite, FS_EmptySet
<1>5. OneUnlessOverlapped
  BY IdleIsIdle, SharingAssumption DEF OneUnlessOverlapped, Accepting
<1> QED
  BY <1>1, <1>2, <1>3, <1>4, <1>5 DEF SharingInv

-----------------------------------------------------------------------------
(* A step that leaves requests and what they have accepted alone, where    *)
(* roles and invitations are only added to.                                *)
LEMMA AcceptancesStay ==
    ASSUME SharingInv, UNCHANGED <<request, acceptedBy, overlaps>>,
           \A i \in Invitations :
               (invitation'[i].status = "accepted") <=> (invitation[i].status = "accepted"),
           \A i \in Invitations :
               invitation[i].status # "none" => invitation'[i].status # "none"
    PROVE /\ AcceptancesAreGood' /\ AcceptedIsMarked'
          /\ AcceptancesCount' /\ OneUnlessOverlapped'
<1> USE DEF SharingInv
<1>1. AcceptancesAreGood' /\ AcceptedIsMarked'
  BY DEF AcceptancesAreGood, AcceptedIsMarked
<1>2. \A i : Accepting(i)' = Accepting(i)
  BY DEF Accepting
<1>3. AcceptancesCount' /\ OneUnlessOverlapped'
  BY <1>2 DEF AcceptancesCount, OneUnlessOverlapped
<1> QED
  BY <1>1, <1>3

(* RolesAreGranted, for one place in a team. *)
Granted(t, u) ==
    /\ Role(t, u) = "owner" => \A v \in Users \ {u} : Role(t, v) # "owner"
    /\ Role(t, u) \in Roles \ {"owner"} =>
          /\ member[t][u].by \in Invitations
          /\ invitation[member[t][u].by].team = t
          /\ Role(t, u) = invitation[member[t][u].by].role
          /\ u \in acceptedBy[member[t][u].by]
          /\ Role(t, invitation[member[t][u].by].from) \in {"owner", "admin"}
    /\ Role(t, u) # "none" => Exists(t)

LEMMA GrantedAll ==
    RolesAreGranted <=> \A t \in Teams, u \in Users : Granted(t, u)
BY DEF RolesAreGranted, Granted

LEMMA ByIsGood ==
    ASSUME SharingInv, NEW t \in Teams, NEW u \in Users, Granted(t, u),
           Role(t, u) \in Roles \ {"owner"}
    PROVE /\ member[t][u].by \in Invitations
          /\ invitation[member[t][u].by].status = "accepted"
          /\ invitation[member[t][u].by].from \in Users
BY DEF SharingInv, Granted, AcceptedIsMarked, InvitationsAreGood

(* Roles and invitations hold as long as nobody touches them. *)
LEMMA StandingKept ==
    ASSUME RolesAreGranted, InvitationsAreGood, AcceptedIsMarked,
           UNCHANGED <<member, invitation, acceptedBy>>
    PROVE RolesAreGranted' /\ InvitationsAreGood' /\ AcceptedIsMarked'
<1>1. \A t, u : Role(t, u)' = Role(t, u)
  BY DEF Role
<1>2. \A t : Exists(t)' <=> Exists(t)
  BY <1>1 DEF Exists
<1>3. RolesAreGranted'
  BY <1>1, <1>2 DEF RolesAreGranted
<1>4. InvitationsAreGood'
  BY <1>1 DEF InvitationsAreGood
<1>5. AcceptedIsMarked'
  BY DEF AcceptedIsMarked
<1> QED
  BY <1>3, <1>4, <1>5

LEMMA CreateTeamStep ==
    ASSUME SharingInv, NEW t \in Teams, NEW u \in Users, CreateTeam(t, u)
    PROVE SharingInv'
<1> USE DEF SharingInv
<1> DEFINE m == [NoMember EXCEPT !.role = "owner"]
<1>1. m \in [role : Roles \cup {"none"}, by : Invitations \cup {None}] /\ m.role = "owner"
  BY DEF NoMember, Roles
<1>2. member' = [member EXCEPT ![t] = [member[t] EXCEPT ![u] = m]]
  BY DEF CreateTeam
<1> HIDE DEF m
<1>3. /\ member'[t][u] = m
      /\ \A s \in Teams, v \in Users :
            (s # t \/ v # u) => member'[s][v] = member[s][v]
  BY <1>2 DEF SharingTypeOK
<1>4. \A v \in Users : member[t][v].role = "none"
  BY DEF CreateTeam, Exists, RolesAreGranted, Role
<1>5. \A s \in Teams, v \in Users : member[s][v].role # "none" =>
           s # t /\ member'[s][v] = member[s][v]
  BY <1>3, <1>4
<1>6. \A v \in Users \ {u} : member'[t][v].role = "none"
  BY <1>3, <1>4
<1>7. UNCHANGED <<invitation, owner, share, keys, request, acceptedBy, overlaps>>
  BY DEF CreateTeam
<1>8. SharingTypeOK'
  BY <1>1, <1>2, <1>7 DEF SharingTypeOK
<1>9. RolesAreGranted'
  <2> SUFFICES ASSUME NEW s \in Teams, NEW v \in Users
               PROVE Granted(s, v)'
    BY DEF RolesAreGranted, Granted
  <2>1. Granted(s, v)
    BY GrantedAll
  <2>2. CASE s = t
    <3>1. member'[t][u].role = "owner"
      BY <1>1, <1>3
    <3>2. CASE v = u
      BY <2>2, <3>1, <3>2, <1>6 DEF Granted, Role, Exists
    <3>3. CASE v # u
      <4>1. member'[t][v].role = "none"
        BY <3>3, <1>6
      <4> QED
        BY <2>2, <4>1 DEF Granted, Role, Roles
    <3> QED
      BY <3>2, <3>3
  <2>3. CASE s # t
    <3>1. \A w \in Users : member'[s][w] = member[s][w]
      BY <2>3, <1>3
    <3>2. Role(s, v) \in Roles \ {"owner"} =>
              invitation[member[s][v].by].from \in Users
      BY <2>1, ByIsGood
    <3> QED
      BY <2>1, <3>1, <3>2, <1>7 DEF Granted, Role, Exists
  <2> QED
    BY <2>2, <2>3
<1>10. InvitationsAreGood'
  BY <1>5, <1>7 DEF InvitationsAreGood, Role
<1> QED
  BY <1>7, <1>8, <1>9, <1>10, AcceptancesStay

LEMMA InviteStep ==
    ASSUME SharingInv, NEW i \in Invitations, NEW t \in Teams, NEW u \in Users,
           NEW role \in Roles, Invite(i, t, u, role)
    PROVE SharingInv'
<1> USE DEF SharingInv
<1> DEFINE new == [team |-> t, from |-> u, role |-> role, status |-> "pending"]
<1>1. /\ new \in [team   : Teams \cup {None},
                  from   : Users \cup {None},
                  role   : (Roles \ {"owner"}) \cup {"none"},
                  status : {"none", "pending", "lapsed", "accepted"}]
      /\ new.team = t /\ new.from = u /\ new.role = role /\ new.status = "pending"
  BY DEF Invite
<1>2. invitation' = [invitation EXCEPT ![i] = new]
  BY DEF Invite
<1> HIDE DEF new
<1>3. /\ invitation'[i] = new
      /\ \A j \in Invitations \ {i} : invitation'[j] = invitation[j]
  BY <1>2 DEF SharingTypeOK
<1>4. UNCHANGED <<member, owner, share, keys, request, acceptedBy, overlaps>>
  BY DEF Invite
<1>5. invitation[i].status = "none"
  BY DEF Invite, NoInvitation
<1>6. SharingTypeOK'
  BY <1>1, <1>2, <1>4 DEF SharingTypeOK
<1>7. RolesAreGranted'
  <2> SUFFICES ASSUME NEW s \in Teams, NEW v \in Users
               PROVE Granted(s, v)'
    BY DEF RolesAreGranted, Granted
  <2>1. Granted(s, v)
    BY GrantedAll
  <2>2. Role(s, v) \in Roles \ {"owner"} =>
           /\ member[s][v].by \in Invitations
           /\ invitation'[member[s][v].by] = invitation[member[s][v].by]
    BY <2>1, <1>3, <1>5, ByIsGood
  <2> QED
    BY <2>1, <2>2, <1>4 DEF Granted, Role, Exists
<1>8. InvitationsAreGood'
  BY <1>1, <1>3, <1>4 DEF InvitationsAreGood, Invite, Role
<1> QED
  BY <1>1, <1>3, <1>4, <1>5, <1>6, <1>7, <1>8, AcceptancesStay

InvitationType == [team   : Teams \cup {None},
                   from   : Users \cup {None},
                   role   : (Roles \ {"owner"}) \cup {"none"},
                   status : {"none", "pending", "lapsed", "accepted"}]

LEMMA StatusTyped ==
    ASSUME SharingTypeOK, NEW i \in Invitations, NEW status \in {"lapsed", "accepted"}
    PROVE [invitation EXCEPT ![i].status = status] \in [Invitations -> InvitationType]
<1> DEFINE new == [invitation[i] EXCEPT !.status = status]
<1>1. invitation \in [Invitations -> InvitationType]
  BY DEF SharingTypeOK, InvitationType
<1>2. new \in InvitationType
  BY <1>1 DEF InvitationType
<1>3. [invitation EXCEPT ![i].status = status] = [invitation EXCEPT ![i] = new]
  BY <1>1
<1> HIDE DEF new
<1> QED
  BY <1>1, <1>2, <1>3

LEMMA LapseInvitationStep ==
    ASSUME SharingInv, NEW i \in Invitations, LapseInvitation(i)
    PROVE SharingInv'
<1> USE DEF SharingInv
<1>1. UNCHANGED <<member, owner, share, keys, request, acceptedBy, overlaps>>
  BY DEF LapseInvitation
<1>2. /\ invitation[i].status = "pending" /\ invitation'[i].status = "lapsed"
      /\ \A j \in Invitations : /\ invitation'[j].team = invitation[j].team
                                /\ invitation'[j].from = invitation[j].from
                                /\ invitation'[j].role = invitation[j].role
      /\ \A j \in Invitations \ {i} : invitation'[j] = invitation[j]
  BY DEF LapseInvitation, SharingTypeOK
<1>3. SharingTypeOK'
  BY <1>1, StatusTyped DEF SharingTypeOK, LapseInvitation, InvitationType
<1>4. RolesAreGranted'
  <2> SUFFICES ASSUME NEW s \in Teams, NEW v \in Users
               PROVE Granted(s, v)'
    BY DEF RolesAreGranted, Granted
  <2>1. Granted(s, v)
    BY GrantedAll
  <2> QED
    BY <2>1, <1>1, <1>2 DEF Granted, Role, Exists
<1>5. InvitationsAreGood'
  BY <1>1, <1>2 DEF InvitationsAreGood, Role
<1> QED
  BY <1>1, <1>2, <1>3, <1>4, <1>5, AcceptancesStay

LEMMA ReadInvitationStep ==
    ASSUME SharingInv, NEW r \in Requests, NEW i \in Invitations, NEW u \in Users,
           ReadInvitation(r, i, u)
    PROVE SharingInv'
<1> USE DEF SharingInv
<1> DEFINE new == [invitation |-> i, user |-> u]
<1>1. /\ new \in [invitation : Invitations \cup {None}, user : Users \cup {None}]
      /\ new.invitation = i /\ new.user = u
  OBVIOUS
<1>2. request' = [request EXCEPT ![r] = new]
  BY DEF ReadInvitation
<1> HIDE DEF new
<1>3. request'[r] = new /\ \A q \in Requests \ {r} : request'[q] = request[q]
  BY <1>2 DEF SharingTypeOK
<1>4. UNCHANGED <<member, invitation, owner, share, keys, acceptedBy>>
  BY DEF ReadInvitation
<1>5. invitation[i].status = "pending" /\ request[r] = Idle
  BY DEF ReadInvitation
<1>6. acceptedBy[i] = {}
  BY <1>5 DEF AcceptedIsMarked
<1>7. SharingTypeOK'
  BY <1>1, <1>2, <1>4 DEF SharingTypeOK, ReadInvitation
<1>8. RolesAreGranted' /\ InvitationsAreGood' /\ AcceptedIsMarked'
  BY <1>4, StandingKept
<1>9. AcceptancesAreGood'
  BY <1>1, <1>3, <1>4, <1>5 DEF AcceptancesAreGood
<1>10. /\ r \notin Accepting(i) /\ Accepting(i)' = Accepting(i) \cup {r}
       /\ \A j \in Invitations \ {i} : Accepting(j)' = Accepting(j)
  BY <1>1, <1>3, <1>5, IdleIsIdle, SharingAssumption DEF Accepting
<1>11. AcceptancesCount'
  <2> SUFFICES ASSUME NEW j \in Invitations
               PROVE /\ IsFiniteSet(acceptedBy'[j])
                     /\ Cardinality(acceptedBy'[j]) + Cardinality(Accepting(j)')
                           <= Cardinality(Requests)
    BY DEF AcceptancesCount
  <2>1. CASE j = i
    <3>1. Accepting(i)' \subseteq Requests
      BY DEF Accepting
    <3>2. /\ IsFiniteSet(Accepting(i)')
          /\ Cardinality(Accepting(i)') <= Cardinality(Requests)
      BY <3>1, SharingAssumption, FS_Subset
    <3>3. Cardinality(Accepting(i)') \in Nat /\ Cardinality(Requests) \in Nat
      BY <3>2, SharingAssumption, FS_CardinalityType
    <3>4. acceptedBy'[j] = {}
      BY <2>1, <1>4, <1>6
    <3> QED
      BY <2>1, <3>2, <3>3, <3>4, FS_EmptySet
  <2>2. CASE j # i
    BY <2>2, <1>4, <1>10 DEF AcceptancesCount
  <2> QED
    BY <2>1, <2>2
<1>12. OneUnlessOverlapped'
  <2> SUFFICES ASSUME NEW j \in Invitations, j \notin overlaps'
               PROVE /\ \A q, p \in Accepting(j)' : q = p
                     /\ \A v, w \in acceptedBy'[j] : v = w
                     /\ acceptedBy'[j] # {} => Accepting(j)' = {}
    BY DEF OneUnlessOverlapped
  <2>1. j \notin overlaps
    BY DEF ReadInvitation
  <2>2. CASE j = i
    <3>1. Accepting(i) = {}
      BY <2>2 DEF ReadInvitation
    <3> QED
      BY <2>2, <3>1, <1>4, <1>6, <1>10
  <2>3. CASE j # i
    BY <2>1, <2>3, <1>4, <1>10 DEF OneUnlessOverlapped
  <2> QED
    BY <2>2, <2>3
<1> QED
  BY <1>7, <1>8, <1>9, <1>11, <1>12

(* A request that is over leaves one acceptance less in progress. *)
LEMMA EndOfAcceptance ==
    ASSUME SharingInv, NEW r \in Requests, request[r] # Idle,
           request' = [request EXCEPT ![r] = Idle],
           NEW i, i = request[r].invitation
    PROVE /\ i \in Invitations /\ request[r].user \in Users
          /\ request' \in [Requests -> [invitation : Invitations \cup {None},
                                        user       : Users \cup {None}]]
          /\ \A q \in Requests : request'[q] # Idle =>
                                     q # r /\ request'[q] = request[q]
          /\ r \in Accepting(i) /\ Accepting(i)' = Accepting(i) \ {r}
          /\ \A j \in Invitations \ {i} : Accepting(j)' = Accepting(j)
          /\ \A j \in Invitations : Accepting(j)' \subseteq Accepting(j)
<1>1. i \in Invitations /\ request[r].user \in Users
  BY DEF SharingInv, AcceptancesAreGood
<1>2. request'[r] = Idle /\ \A q \in Requests \ {r} : request'[q] = request[q]
  BY DEF SharingInv, SharingTypeOK
<1>3. request' \in [Requests -> [invitation : Invitations \cup {None},
                                user       : Users \cup {None}]]
  BY IdleIsIdle DEF SharingInv, SharingTypeOK
<1>4. request'[r].invitation = None /\ None \notin Invitations
  BY <1>2, IdleIsIdle, SharingAssumption
<1>5. \A j \in Invitations, q \in Requests :
        request'[q].invitation = j <=> (request[q].invitation = j /\ q # r)
  BY <1>2, <1>4
<1>6. \A j \in Invitations : Accepting(j)' = Accepting(j) \ {r}
  BY <1>5 DEF Accepting
<1>7. r \in Accepting(i) /\ \A j \in Invitations \ {i} : r \notin Accepting(j)
  BY DEF Accepting
<1>8. \A j \in Invitations \ {i} : Accepting(j)' = Accepting(j)
  BY <1>6, <1>7
<1>9. \A q \in Requests : request'[q] # Idle => q # r /\ request'[q] = request[q]
  BY <1>2
<1>10. \A j \in Invitations : Accepting(j)' \subseteq Accepting(j)
  BY <1>6
<1>11. Accepting(i)' = Accepting(i) \ {r}
  BY <1>1, <1>6
<1> QED
  BY <1>1, <1>3, <1>7, <1>8, <1>9, <1>10, <1>11

LEMMA AcceptFailedStep ==
    ASSUME SharingInv, NEW r \in Requests, AcceptFailed(r)
    PROVE SharingInv'
<1> USE DEF SharingInv
<1> DEFINE i == request[r].invitation
<1>1. /\ request[r] # Idle /\ request' = [request EXCEPT ![r] = Idle]
      /\ UNCHANGED <<member, invitation, owner, share, keys, acceptedBy, overlaps>>
  BY DEF AcceptFailed
<1>2. /\ i \in Invitations
      /\ request' \in [Requests -> [invitation : Invitations \cup {None},
                                    user       : Users \cup {None}]]
      /\ \A q \in Requests : request'[q] # Idle => request'[q] = request[q]
      /\ \A j \in Invitations : Accepting(j)' \subseteq Accepting(j)
  BY <1>1, EndOfAcceptance
<1>3. SharingTypeOK' /\ AcceptancesAreGood'
  BY <1>1, <1>2 DEF SharingTypeOK, AcceptancesAreGood
<1>4. RolesAreGranted' /\ InvitationsAreGood' /\ AcceptedIsMarked'
  BY <1>1, StandingKept
<1>5. AcceptancesCount'
  <2> SUFFICES ASSUME NEW j \in Invitations
               PROVE /\ IsFiniteSet(acceptedBy'[j])
                     /\ Cardinality(acceptedBy'[j]) + Cardinality(Accepting(j)')
                           <= Cardinality(Requests)
    BY DEF AcceptancesCount
  <2>1. /\ IsFiniteSet(acceptedBy[j])
        /\ Cardinality(acceptedBy[j]) + Cardinality(Accepting(j))
              <= Cardinality(Requests)
    BY DEF AcceptancesCount
  <2>2. IsFiniteSet(Accepting(j))
    BY AcceptingFinite
  <2>3. /\ IsFiniteSet(Accepting(j)')
        /\ Cardinality(Accepting(j)') <= Cardinality(Accepting(j))
    BY <1>2, <2>2, FS_Subset
  <2>4. /\ Cardinality(Accepting(j)') \in Nat /\ Cardinality(Accepting(j)) \in Nat
        /\ Cardinality(acceptedBy[j]) \in Nat /\ Cardinality(Requests) \in Nat
    BY <2>1, <2>2, <2>3, SharingAssumption, FS_CardinalityType
  <2> QED
    BY <1>1, <2>1, <2>3, <2>4
<1>6. OneUnlessOverlapped'
  BY <1>1, <1>2 DEF OneUnlessOverlapped
<1> QED
  BY <1>3, <1>4, <1>5, <1>6

(* The user joins, unless a member, with the role of the invitation; other *)
(* places and roles there are stay.                                        *)
LEMMA AcceptStep ==
    ASSUME SharingInv, NEW r \in Requests, Accept(r)
    PROVE SharingInv'
<1> USE DEF SharingInv
<1>a. PICK i \in Invitations, u \in Users, t \in Teams :
        i = request[r].invitation /\ u = request[r].user /\ t = invitation[i].team
  BY DEF Accept, AcceptancesAreGood, InvitationsAreGood
<1>1. /\ request[r] # Idle /\ request' = [request EXCEPT ![r] = Idle]
      /\ member' = Joined(i, u)
      /\ invitation' = [invitation EXCEPT ![i].status = "accepted"]
      /\ acceptedBy' = [acceptedBy EXCEPT ![i] = acceptedBy[i] \cup {u}]
      /\ UNCHANGED <<owner, share, keys, overlaps>>
  BY <1>a DEF Accept
<1>2. /\ request' \in [Requests -> [invitation : Invitations \cup {None},
                                    user       : Users \cup {None}]]
      /\ \A q \in Requests : request'[q] # Idle =>
                                 q # r /\ request'[q] = request[q]
      /\ r \in Accepting(i) /\ Accepting(i)' = Accepting(i) \ {r}
      /\ \A j \in Invitations \ {i} : Accepting(j)' = Accepting(j)
  BY <1>a, <1>1, EndOfAcceptance
<1>3. /\ invitation[i].from \in Users
      /\ invitation[i].role \in Roles \ {"owner"}
      /\ Role(t, invitation[i].from) \in {"owner", "admin"}
  BY <1>a, <1>1 DEF AcceptancesAreGood, InvitationsAreGood
<1>4. /\ invitation'[i].status = "accepted"
      /\ \A j \in Invitations : /\ invitation'[j].team = invitation[j].team
                                /\ invitation'[j].from = invitation[j].from
                                /\ invitation'[j].role = invitation[j].role
      /\ \A j \in Invitations \ {i} : invitation'[j] = invitation[j]
  BY <1>1, <1>2 DEF SharingTypeOK
<1>5. /\ acceptedBy'[i] = acceptedBy[i] \cup {u}
      /\ \A j \in Invitations \ {i} : acceptedBy'[j] = acceptedBy[j]
  BY <1>1, <1>2 DEF SharingTypeOK
<1>6. /\ \A s \in Teams, v \in Users :
            (s # t \/ v # u \/ member[s][v].role # "none") =>
                member'[s][v] = member[s][v]
      /\ member[t][u].role = "none" =>
            member'[t][u] = [role |-> invitation[i].role, by |-> i]
      /\ member' \in [Teams -> [Users -> [role : Roles \cup {"none"},
                                          by   : Invitations \cup {None}]]]
  <2> DEFINE new == [role |-> invitation[i].role, by |-> i]
  <2>1. new \in [role : Roles \cup {"none"}, by : Invitations \cup {None}]
    BY <1>2, <1>3
  <2>2. member' = IF member[t][u].role = "none"
                  THEN [member EXCEPT ![t] = [member[t] EXCEPT ![u] = new]]
                  ELSE member
    BY <1>a, <1>1 DEF Joined, Role
  <2> HIDE DEF new
  <2>3. /\ \A s \in Teams, v \in Users :
              (s # t \/ v # u \/ member[s][v].role # "none") =>
                  member'[s][v] = member[s][v]
        /\ member[t][u].role = "none" => member'[t][u] = new
    BY <1>2, <1>3, <2>2 DEF SharingTypeOK
  <2>4. member' \in [Teams -> [Users -> [role : Roles \cup {"none"},
                                        by   : Invitations \cup {None}]]]
    BY <1>2, <1>3, <2>1, <2>2 DEF SharingTypeOK
  <2> QED
    BY <2>3, <2>4 DEF new
<1>7. SharingTypeOK'
  <2>1. acceptedBy' \in [Invitations -> SUBSET Users]
    BY <1>1, <1>2 DEF SharingTypeOK
  <2> QED
    BY <1>1, <1>2, <1>6, <2>1, StatusTyped DEF SharingTypeOK, InvitationType
<1>8. \A s \in Teams, v \in Users :
        Role(s, v) # "none" => member'[s][v] = member[s][v]
  BY <1>6 DEF Role
<1>9. \A s \in Teams : Exists(s) => Exists(s)'
  BY <1>8 DEF Exists, Role
<1>10. RolesAreGranted'
  <2> SUFFICES ASSUME NEW s \in Teams, NEW v \in Users
               PROVE Granted(s, v)'
    BY DEF RolesAreGranted, Granted
  <2>1. \A w \in Users : Granted(s, w)
    BY GrantedAll
  <2>2. CASE s = t /\ v = u /\ member[t][u].role = "none"
    <3>1. /\ member'[s][v].role = invitation[i].role
          /\ member'[s][v].by = i
      BY <2>2, <1>6
    <3>2. Role(s, v)' # "owner" /\ Role(s, v)' # "none"
      BY <3>1, <1>3 DEF Role, Roles
    <3>3. /\ invitation'[i].team = s /\ invitation'[i].role = invitation[i].role
          /\ v \in acceptedBy'[i]
      BY <2>2, <1>2, <1>4, <1>5, <1>a
    <3>4. member'[s][invitation'[i].from].role \in {"owner", "admin"}
      BY <2>2, <1>3, <1>4, <1>8 DEF Role
    <3>5. Exists(s)'
      BY <2>1, <2>2, <1>3, <1>9 DEF Granted
    <3> QED
      BY <3>1, <3>2, <3>3, <3>4, <3>5 DEF Granted, Role
  <2>3. CASE ~(s = t /\ v = u /\ member[t][u].role = "none")
    <3>1. member'[s][v] = member[s][v]
      BY <2>3, <1>6
    <3>2. Role(s, v)' = Role(s, v)
      BY <3>1 DEF Role
    <3>3. \A w \in Users : Role(s, w)' = "owner" => Role(s, w) = "owner"
      BY <1>3, <1>6 DEF Role, Roles
    <3>4. Role(s, v) \in Roles \ {"owner"} =>
             /\ member[s][v].by \in Invitations
             /\ invitation[member[s][v].by].from \in Users
      BY <2>1, ByIsGood
    <3>5. Role(s, v) \in Roles \ {"owner"} =>
             member'[s][invitation'[member[s][v].by].from].role
                \in {"owner", "admin"}
      <4> SUFFICES ASSUME Role(s, v) \in Roles \ {"owner"}
                   PROVE  member'[s][invitation'[member[s][v].by].from].role
                             \in {"owner", "admin"}
        OBVIOUS
      <4> DEFINE from == invitation[member[s][v].by].from
      <4>1. from \in Users /\ invitation'[member[s][v].by].from = from
        BY <3>4, <1>4
      <4>2. Role(s, from) \in {"owner", "admin"}
        BY <2>1 DEF Granted
      <4> HIDE DEF from
      <4>3. member'[s][from] = member[s][from]
        BY <4>1, <4>2, <1>8
      <4> QED
        BY <4>1, <4>2, <4>3 DEF Role
    <3>6. \A j \in Invitations : acceptedBy[j] \subseteq acceptedBy'[j]
      BY <1>5
    <3>7. Role(s, v)' = "owner" => \A w \in Users \ {v} : Role(s, w)' # "owner"
      BY <2>1, <3>2, <3>3 DEF Granted
    <3>8. Role(s, v)' # "none" => Exists(s)'
      BY <2>1, <3>2, <1>9 DEF Granted
    <3> QED
      <4>1. Granted(s, v)
        BY <2>1
      <4>2. Role(s, v) \in Roles \ {"owner"} =>
              /\ invitation'[member[s][v].by].team = s
              /\ Role(s, v) = invitation'[member[s][v].by].role
              /\ v \in acceptedBy'[member[s][v].by]
        BY <4>1, <3>4, <3>6, <1>4 DEF Granted
      <4> QED
        BY <3>1, <3>2, <3>4, <3>5, <3>7, <3>8, <4>2 DEF Granted, Role
  <2> QED
    BY <2>2, <2>3
<1>11. InvitationsAreGood'
  <2>1. \A j \in Invitations : invitation[j].status # "none" =>
           member'[invitation[j].team][invitation[j].from].role
              \in {"owner", "admin"}
    BY <1>8 DEF InvitationsAreGood, Role
  <2>2. invitation[i].status # "none"
    BY <1>a, <1>1 DEF AcceptancesAreGood
  <2>3. \A j \in Invitations : invitation'[j].status # "none" =>
                                 invitation[j].status # "none"
    BY <1>4, <2>2
  <2> QED
    BY <1>4, <2>1, <2>3 DEF InvitationsAreGood, Role
<1>12. AcceptancesAreGood'
  BY <1>2, <1>4 DEF AcceptancesAreGood
<1>13. AcceptedIsMarked'
  BY <1>4, <1>5 DEF AcceptedIsMarked
<1>14. AcceptancesCount'
  <2> SUFFICES ASSUME NEW j \in Invitations
               PROVE /\ IsFiniteSet(acceptedBy'[j])
                     /\ Cardinality(acceptedBy'[j]) + Cardinality(Accepting(j)')
                           <= Cardinality(Requests)
    BY DEF AcceptancesCount
  <2>1. /\ IsFiniteSet(acceptedBy[j]) /\ IsFiniteSet(Accepting(j))
        /\ Cardinality(acceptedBy[j]) + Cardinality(Accepting(j))
              <= Cardinality(Requests)
    BY AcceptingFinite DEF AcceptancesCount
  <2>2. CASE j = i
    <3>1. /\ IsFiniteSet(acceptedBy'[i])
          /\ Cardinality(acceptedBy'[i]) \in
                {Cardinality(acceptedBy[i]), Cardinality(acceptedBy[i]) + 1}
      <4>1. IsFiniteSet(acceptedBy[i]) /\ acceptedBy'[i] = acceptedBy[i] \cup {u}
        BY <1>5, <2>1, <2>2
      <4> QED
        BY <4>1, FS_AddElement
    <3>2. Cardinality(Accepting(i)') = Cardinality(Accepting(i)) - 1
      BY <1>2, <2>1, <2>2, FS_RemoveElement
    <3>3. /\ Cardinality(acceptedBy[i]) \in Nat /\ Cardinality(Accepting(i)) \in Nat
          /\ Cardinality(Requests) \in Nat
      BY <2>1, <2>2, SharingAssumption, FS_CardinalityType
    <3>4. Cardinality(acceptedBy[i]) + Cardinality(Accepting(i))
              <= Cardinality(Requests)
      BY <2>1, <2>2
    <3>5. Cardinality(acceptedBy'[i]) + Cardinality(Accepting(i)')
              <= Cardinality(Requests)
      BY <3>1, <3>2, <3>3, <3>4
    <3> QED
      BY <2>2, <3>1, <3>5
  <2>3. CASE j # i
    BY <2>1, <2>3, <1>2, <1>5
  <2> QED
    BY <2>2, <2>3
<1>15. OneUnlessOverlapped'
  <2> SUFFICES ASSUME NEW j \in Invitations, j \notin overlaps'
               PROVE /\ \A q, p \in Accepting(j)' : q = p
                     /\ \A v, w \in acceptedBy'[j] : v = w
                     /\ acceptedBy'[j] # {} => Accepting(j)' = {}
    BY DEF OneUnlessOverlapped
  <2>1. /\ \A q, p \in Accepting(j) : q = p
        /\ \A v, w \in acceptedBy[j] : v = w
        /\ acceptedBy[j] # {} => Accepting(j) = {}
    BY <1>1 DEF OneUnlessOverlapped
  <2>2. CASE j = i
    <3>1. acceptedBy[i] = {} /\ Accepting(i)' = {}
      BY <2>1, <2>2, <1>2
    <3> QED
      BY <2>2, <3>1, <1>5
  <2>3. CASE j # i
    BY <2>1, <2>3, <1>2, <1>5
  <2> QED
    BY <2>2, <2>3
<1> QED
  BY <1>7, <1>10, <1>11, <1>12, <1>13, <1>14, <1>15

-----------------------------------------------------------------------------
(* Folders, shares and keys concern nobody's role. *)
LEMMA FoldersApart ==
    ASSUME SharingInv, SharingTypeOK',
           UNCHANGED <<member, invitation, request, acceptedBy, overlaps>>
    PROVE SharingInv'
<1> USE DEF SharingInv
<1>1. RolesAreGranted' /\ InvitationsAreGood'
  BY StandingKept
<1>2. \A i : Accepting(i)' = Accepting(i)
  BY DEF Accepting
<1>3. AcceptancesAreGood' /\ AcceptedIsMarked'
  BY DEF AcceptancesAreGood, AcceptedIsMarked
<1>4. AcceptancesCount' /\ OneUnlessOverlapped'
  BY <1>2 DEF AcceptancesCount, OneUnlessOverlapped
<1> QED
  BY <1>1, <1>3, <1>4

ShareType == [folder     : Folders \cup {None},
              team       : Teams \cup {None},
              user       : Users \cup {None},
              permission : Permissions,
              state      : {"none", "live", "lapsed", "gone"}]

LEMMA StateTyped ==
    ASSUME NEW x \in ShareType, NEW state \in {"lapsed", "gone"}
    PROVE [x EXCEPT !.state = state] \in ShareType
BY DEF ShareType

LEMMA ShareFolderStep ==
    ASSUME SharingInv, NEW s \in Shares, NEW f \in Folders,
           NEW t \in Teams \cup {None}, NEW u \in Users \cup {None},
           NEW p \in Permissions, ShareFolder(s, f, t, u, p)
    PROVE SharingInv'
<1> DEFINE new == [folder |-> f, team |-> t, user |-> u, permission |-> p,
                   state |-> "live"]
<1>1. new \in ShareType
  BY DEF ShareType
<1>2. /\ share' = [share EXCEPT ![s] = new]
      /\ UNCHANGED <<member, invitation, owner, request, acceptedBy, overlaps>>
  BY DEF ShareFolder
<1> HIDE DEF new
<1>3. share' \in [Shares -> ShareType]
  BY <1>1, <1>2 DEF SharingInv, SharingTypeOK, ShareType
<1>4. keys' \in [Folders -> SUBSET Users]
  BY DEF SharingInv, SharingTypeOK, ShareFolder
<1>5. SharingTypeOK'
  BY <1>2, <1>3, <1>4 DEF SharingInv, SharingTypeOK, ShareType
<1> QED
  BY <1>2, <1>5, FoldersApart

LEMMA ShareEndsStep ==
    ASSUME SharingInv, NEW s \in Shares, LapseShare(s) \/ RevokeShare(s)
    PROVE SharingInv'
<1>1. PICK state \in {"lapsed", "gone"} :
        share' = [share EXCEPT ![s].state = state]
  BY DEF LapseShare, RevokeShare
<1>2. UNCHANGED <<member, invitation, owner, keys, request, acceptedBy, overlaps>>
  BY DEF LapseShare, RevokeShare
<1> DEFINE new == [share[s] EXCEPT !.state = state]
<1>3. share \in [Shares -> ShareType]
  BY DEF SharingInv, SharingTypeOK, ShareType
<1>4. new \in ShareType
  BY <1>3, StateTyped
<1>5. share' = [share EXCEPT ![s] = new]
  BY <1>1, <1>3
<1> HIDE DEF new
<1>6. share' \in [Shares -> ShareType]
  BY <1>3, <1>4, <1>5
<1>7. SharingTypeOK'
  BY <1>2, <1>6 DEF SharingInv, SharingTypeOK, ShareType
<1> QED
  BY <1>2, <1>7, FoldersApart

LEMMA DeleteFolderStep ==
    ASSUME SharingInv, NEW f \in Folders, DeleteFolder(f)
    PROVE SharingInv'
<1>1. /\ owner' = [owner EXCEPT ![f] = None]
      /\ keys' = [keys EXCEPT ![f] = {}]
      /\ share' = [s \in Shares |-> IF Stored(s) /\ share[s].folder = f
                                     THEN [share[s] EXCEPT !.state = "gone"]
                                     ELSE share[s]]
      /\ UNCHANGED <<member, invitation, request, acceptedBy, overlaps>>
  BY DEF DeleteFolder
<1>2. \A s \in Shares : /\ share[s] \in ShareType
                         /\ [share[s] EXCEPT !.state = "gone"] \in ShareType
  BY StateTyped DEF SharingInv, SharingTypeOK, ShareType
<1>3. share' \in [Shares -> ShareType]
  BY <1>1, <1>2
<1>4. SharingTypeOK'
  BY <1>1, <1>3 DEF SharingInv, SharingTypeOK, ShareType
<1> QED
  BY <1>1, <1>4, FoldersApart

LEMMA SharingNextInv == SharingInv /\ [SharingNext]_vars => SharingInv'
<1> SUFFICES ASSUME SharingInv, [SharingNext]_vars PROVE SharingInv'
  OBVIOUS
<1>1. CASE UNCHANGED vars
  <2>1. SharingTypeOK'
    BY <1>1 DEF vars, SharingInv, SharingTypeOK
  <2> QED
    BY <1>1, <2>1, FoldersApart DEF vars
<1>2. ASSUME NEW t \in Teams, NEW u \in Users, TeamCalls(t, u)
      PROVE SharingInv'
  BY <1>2, CreateTeamStep, InviteStep DEF TeamCalls
<1>3. ASSUME NEW i \in Invitations, InvitationCalls(i)
      PROVE SharingInv'
  BY <1>3, LapseInvitationStep, ReadInvitationStep DEF InvitationCalls
<1>4. ASSUME NEW r \in Requests, Accept(r) \/ AcceptFailed(r)
      PROVE SharingInv'
  BY <1>4, AcceptStep, AcceptFailedStep
<1>5. ASSUME NEW f \in Folders, FolderCalls(f)
      PROVE SharingInv'
  BY <1>5, ShareFolderStep, DeleteFolderStep DEF FolderCalls
<1>6. ASSUME NEW s \in Shares, LapseShare(s) \/ RevokeShare(s)
      PROVE SharingInv'
  BY <1>6, ShareEndsStep
<1> QED
  BY <1>1, <1>2, <1>3, <1>4, <1>5, <1>6 DEF SharingNext

LEMMA SharingAlwaysInv == SharingSpec => []SharingInv
<1> QED
  BY SharingInitInv, SharingNextInv, PTL DEF SharingSpec

(* Teams, invitations, shares and keys keep their types. *)
THEOREM SharingTypesCorrect == SharingSpec => []SharingTypeOK
<1>1. SharingInv => SharingTypeOK
  BY DEF SharingInv
<1> QED
  BY <1>1, SharingAlwaysInv, PTL

(* Roles come from creating a team or from an invitation by someone who    *)
(* may invite, and from nothing else.                                      *)
THEOREM RolesGranted == SharingSpec => []RolesAreGranted
<1>1. SharingInv => RolesAreGranted
  BY DEF SharingInv
<1> QED
  BY <1>1, SharingAlwaysInv, PTL

(* An invitation admits one user, and at most as many as there are         *)
(* requests when acceptances of it overlap.                                *)
THEOREM InvitationsAdmitOne == SharingSpec => []InvitationAdmitsOne
<1>1. SharingInv => InvitationAdmitsOne
  <2> SUFFICES ASSUME SharingInv, NEW i \in Invitations
               PROVE /\ Cardinality(acceptedBy[i]) <= Cardinality(Requests)
                     /\ i \notin overlaps => Cardinality(acceptedBy[i]) <= 1
    BY DEF InvitationAdmitsOne
  <2>1. /\ IsFiniteSet(acceptedBy[i])
        /\ Cardinality(acceptedBy[i]) + Cardinality(Accepting(i))
              <= Cardinality(Requests)
    BY DEF SharingInv, AcceptancesCount
  <2>2. /\ Cardinality(Accepting(i)) \in Nat /\ Cardinality(acceptedBy[i]) \in Nat
        /\ Cardinality(Requests) \in Nat
    BY <2>1, AcceptingFinite, FS_CardinalityType
  <2>3. CASE acceptedBy[i] = {}
    BY <2>1, <2>2, <2>3, FS_EmptySet
  <2>4. CASE acceptedBy[i] # {}
    <3>1. PICK u : u \in acceptedBy[i]
      BY <2>4
    <3>2. i \notin overlaps => acceptedBy[i] = {u}
      BY <3>1 DEF SharingInv, OneUnlessOverlapped
    <3>3. i \notin overlaps => Cardinality(acceptedBy[i]) = 1
      BY <3>2, FS_Singleton
    <3> QED
      BY <2>1, <2>2, <3>3
  <2> QED
    BY <2>3, <2>4
<1> QED
  BY <1>1, SharingAlwaysInv, PTL

(* Among the live shares that concern a user one is highest. *)
LEMMA HighestShare ==
    ASSUME SharingTypeOK, NEW u \in Users, NEW f \in Folders,
           NEW s \in Reach(u, f), share[s].state = "live"
    PROVE \E x \in FirstShare(u, f) :
            Level[share[x].permission] >= Level[share[s].permission]
<1> DEFINE live == {x \in Reach(u, f) : share[x].state = "live"}
           allows(p) == {x \in live : share[x].permission = p}
<1>1. \A x \in live : x \in Shares /\ share[x].permission \in Permissions
  BY DEF Reach, SharingTypeOK
<1>2. Level["view"] = 1 /\ Level["edit"] = 2 /\ Level["admin"] = 3
  BY DEF Level
<1>3. FirstShare(u, f) =
        {x \in live : \A y \in live :
            Level[share[y].permission] <= Level[share[x].permission]}
  BY DEF FirstShare
<1>4. s \in live
  OBVIOUS
<1> HIDE DEF live
<1>5. \A x \in live : Level[share[x].permission] \in 1 .. 3
  BY <1>1, <1>2 DEF Permissions
<1>6. CASE \E x \in live : share[x].permission = "admin"
  BY <1>2, <1>3, <1>4, <1>5, <1>6
<1>7. CASE /\ \A x \in live : share[x].permission # "admin"
           /\ \E x \in live : share[x].permission = "edit"
  <2>1. \A x \in live : Level[share[x].permission] <= 2
    BY <1>1, <1>2, <1>7 DEF Permissions
  <2> QED
    BY <1>2, <1>3, <1>4, <1>7, <2>1
<1>8. CASE \A x \in live : share[x].permission \notin {"admin", "edit"}
  <2>1. \A x \in live : Level[share[x].permission] = 1
    BY <1>1, <1>2, <1>8 DEF Permissions
  <2> QED
    BY <1>3, <1>4, <2>1
<1> QED
  BY <1>6, <1>7, <1>8

(* What CheckFolderAccess decides by the one share it selects is what all  *)
(* shares of the folder allow.                                             *)
THEOREM OneShareDecides == SharingSpec => []AccessFollowsShares
<1>1. SharingTypeOK => AccessFollowsShares
  <2> SUFFICES ASSUME SharingTypeOK, NEW u \in Users, NEW f \in Folders,
                      NEW p \in Permissions
               PROVE (\E s \in FirstShare(u, f) :
                         Level[share[s].permission] >= Level[p])
                     <=> \E s \in Listed(u) :
                            /\ share[s].folder = f /\ share[s].state = "live"
                            /\ Level[share[s].permission] >= Level[p]
    BY DEF AccessFollowsShares, CheckFolderAccess
  <2>1. ASSUME NEW s \in FirstShare(u, f), Level[share[s].permission] >= Level[p]
        PROVE \E x \in Listed(u) :
                 /\ share[x].folder = f /\ share[x].state = "live"
                 /\ Level[share[x].permission] >= Level[p]
    BY <2>1 DEF FirstShare, Listed, Reach
  <2>2. ASSUME NEW s \in Listed(u), share[s].folder = f, share[s].state = "live",
               Level[share[s].permission] >= Level[p]
        PROVE \E x \in FirstShare(u, f) : Level[share[x].permission] >= Level[p]
    <3>1. s \in Reach(u, f) /\ s \in Shares
      BY <2>2 DEF Listed, Reach
    <3>2. PICK x \in FirstShare(u, f) :
            Level[share[x].permission] >= Level[share[s].permission]
      BY <2>2, <3>1, HighestShare
    <3>3. x \in Shares
      BY DEF FirstShare, Reach
    <3>4. /\ Level[share[x].permission] \in Int /\ Level[share[s].permission] \in Int
          /\ Level[p] \in Int
      BY <3>1, <3>3 DEF SharingTypeOK, Permissions, Level
    <3> QED
      BY <2>2, <3>2, <3>4
  <2> QED
    BY <2>1, <2>2
<1> QED
  BY <1>1, SharingTypesCorrect, PTL
=============================================================================
