---------------------------- MODULE NostrProofs ----------------------------
(***************************************************************************)
(* NostrLogin implements LoginTicket for every number of challenges, keys  *)
(* and requests, and any lifetimes.  A stored row belongs to the key its   *)
(* challenge was issued for and has admitted nobody; a verified request    *)
(* names the key its challenge was issued for, and a session rests on a    *)
(* challenge that has admitted its key and is gone.                        *)
(*                                                                         *)
(* With names: a name that is stored comes from an answer, and an answer   *)
(* from the document a domain has had.  The invariant follows a key from   *)
(* the document through the answer into the account.  For the server's own *)
(* names the circle never starts.                                          *)
(***************************************************************************)
EXTENDS NostrNames, TLAPS

(* A row is the challenge as issued, until it is deleted for good. *)
RowsAsIssued ==
    \A c \in Challenges :
        /\ Stored(c) => row[c].pubkey = holder[c] /\ admissions[c].count = 0
        /\ holder[c] = None => admissions[c].count = 0
        /\ admissions[c].count \in {0, 1}

(* A request past the signature check has the challenge of its own key. *)
VerifiedOwnKey ==
    \A r \in Requests : request[r].pc = "verified" =>
        /\ request[r].challenge \in Challenges
        /\ request[r].pubkey = holder[request[r].challenge]
        /\ request[r].pubkey # None

(* A request about to touch accounts or sessions knows its key. *)
RequestsHaveKeys ==
    \A r \in Requests : request[r].pc # "idle" => request[r].pubkey \in Pubkeys

(* An account was made at most once, and not at all where there is none.   *)
AccountsOnce ==
    \A p \in Pubkeys : created[p] = (IF user[p] = None THEN 0 ELSE 1)

NostrInv ==
    /\ NostrTypeOK
    /\ RowsAsIssued
    /\ VerifiedOwnKey
    /\ RequestsHaveKeys
    /\ AccountsOnce

LEMMA NostrInitInv == NostrInit => NostrInv
<1> SUFFICES ASSUME NostrInit PROVE NostrInv
  OBVIOUS
<1> USE DEF NostrInit, Idle, NoRow, Paths
<1>1. NostrTypeOK
  BY NostrAssumption DEF NostrTypeOK, Request
<1>2. RowsAsIssued
  BY DEF RowsAsIssued, Stored
<1>3. VerifiedOwnKey /\ RequestsHaveKeys
  BY DEF VerifiedOwnKey, RequestsHaveKeys
<1>4. AccountsOnce
  BY DEF AccountsOnce
<1> QED
  BY <1>1, <1>2, <1>3, <1>4 DEF NostrInv

(* Deleting rows. *)
LEMMA RowsDeleted ==
    ASSUME NostrInv,
           row' \in [Challenges -> [expires : Nat, pubkey : Pubkeys \cup {None}]],
           \A c \in Challenges : row'[c] \in {row[c], NoRow},
           UNCHANGED <<now, holder, admissions, user, created, sessions, request>>
    PROVE NostrInv'
<1>1. NostrTypeOK'
  BY DEF NostrInv, NostrTypeOK
<1>2. RowsAsIssued'
  BY DEF NostrInv, RowsAsIssued, Stored, NoRow
<1>3. VerifiedOwnKey' /\ RequestsHaveKeys' /\ AccountsOnce'
  BY DEF NostrInv, VerifiedOwnKey, RequestsHaveKeys, AccountsOnce
<1> QED
  BY <1>1, <1>2, <1>3 DEF NostrInv

LEMMA PrunedRows ==
    ASSUME NostrInv
    PROVE /\ Pruned \in [Challenges -> [expires : Nat, pubkey : Pubkeys \cup {None}]]
          /\ \A c \in Challenges : Pruned[c] \in {row[c], NoRow}
BY DEF NostrInv, NostrTypeOK, Pruned, NoRow

LEMMA IssueStep ==
    ASSUME NostrInv, NEW c \in Challenges, NEW p \in Pubkeys, Issue(c, p)
    PROVE NostrInv'
<1> USE DEF Issue, NostrInv
<1>1. now + TTL \in Nat
  BY NostrAssumption DEF NostrTypeOK
<1>2. row'[c].pubkey = p /\ \A d \in Challenges \ {c} : row'[d] \in {row[d], NoRow}
  BY PrunedRows
<1>3. holder'[c] = p /\ \A d \in Challenges \ {c} : holder'[d] = holder[d]
  BY DEF NostrTypeOK
<1>4. NostrTypeOK'
  BY <1>1, PrunedRows DEF NostrTypeOK
<1>5. RowsAsIssued'
  BY <1>2, <1>3, NostrAssumption DEF RowsAsIssued, Stored, NoRow
<1>6. VerifiedOwnKey'
  BY <1>3 DEF VerifiedOwnKey
<1>7. RequestsHaveKeys' /\ AccountsOnce'
  BY DEF RequestsHaveKeys, AccountsOnce
<1> QED
  BY <1>4, <1>5, <1>6, <1>7

(* A step that only moves one request. *)
LEMMA NostrRequestStep ==
    ASSUME NostrInv, NEW r \in Requests, NEW state \in Request,
           request' = [request EXCEPT ![r] = state],
           state.pc # "idle" => state.pubkey \in Pubkeys,
           state.pc = "verified" => /\ state.challenge \in Challenges
                                    /\ state.pubkey = holder[state.challenge],
           UNCHANGED <<now, row, holder, admissions, user, created>>,
           sessions' \in [Pubkeys -> SUBSET (Challenges \cup {None})]
    PROVE NostrInv'
<1> USE DEF NostrInv
<1>1. NostrTypeOK'
  BY DEF NostrTypeOK
<1>2. request'[r] = state /\ \A q \in Requests \ {r} : request'[q] = request[q]
  BY DEF NostrTypeOK
<1>3. VerifiedOwnKey'
  BY <1>2, NostrAssumption DEF VerifiedOwnKey
<1>4. RequestsHaveKeys'
  BY <1>2 DEF RequestsHaveKeys
<1>5. RowsAsIssued' /\ AccountsOnce'
  BY DEF RowsAsIssued, Stored, AccountsOnce
<1> QED
  BY <1>1, <1>3, <1>4, <1>5

LEMMA ConsumeStep ==
    ASSUME NostrInv, NEW r \in Requests, Consume(r)
    PROVE NostrInv'
<1> DEFINE c == request[r].challenge
<1> USE DEF NostrInv
<1>1. c \in Challenges /\ request[r].pubkey = holder[c] /\ request[r].pubkey \in Pubkeys
  BY DEF Consume, At, VerifiedOwnKey, RequestsHaveKeys
<1>2. row'[c] = NoRow /\ admissions'[c].count = 1 /\ admissions[c].count = 0
  BY <1>1 DEF Consume, NostrTypeOK, RowsAsIssued
<1>3. \A d \in Challenges \ {c} : row'[d] = row[d] /\ admissions'[d] = admissions[d]
  BY <1>1 DEF Consume, NostrTypeOK
<1>4. request'[r] = [request[r] EXCEPT !.pc = "admitted"]
      /\ \A q \in Requests \ {r} : request'[q] = request[q]
  BY DEF Consume, GoTo, NostrTypeOK
<1>5. request' \in [Requests -> Request]
  BY ZenonT(30) DEF Consume, GoTo, NostrTypeOK, Request
<1>6. NostrTypeOK'
  BY <1>1, <1>5 DEF Consume, NostrTypeOK, NoRow
<1>7. RowsAsIssued'
  BY <1>1, <1>2, <1>3, NostrAssumption DEF Consume, RowsAsIssued, Stored, NoRow
<1>8. VerifiedOwnKey'
  BY <1>4 DEF Consume, VerifiedOwnKey, NostrTypeOK, Request
<1>9. RequestsHaveKeys'
  BY <1>1, <1>4 DEF RequestsHaveKeys, NostrTypeOK, Request
<1>10. AccountsOnce'
  BY DEF Consume, AccountsOnce
<1> QED
  BY <1>6, <1>7, <1>8, <1>9, <1>10

LEMMA CreateUserStep ==
    ASSUME NostrInv, NEW r \in Requests, CreateUser(r)
    PROVE NostrInv'
<1> DEFINE p == request[r].pubkey
<1> USE DEF NostrInv
<1>1. p \in Pubkeys /\ user[p] = None /\ created[p] = 0
  BY DEF CreateUser, At, RequestsHaveKeys, AccountsOnce
<1>2. request[r].path \in Paths /\ request[r].path # None
  BY NostrAssumption DEF NostrTypeOK, Request
<1>3. user'[p] # None /\ created'[p] = 1
      /\ \A q \in Pubkeys \ {p} : user'[q] = user[q] /\ created'[q] = created[q]
  BY <1>1, <1>2 DEF CreateUser, NostrTypeOK
<1>4. \A q \in Requests \ {r} : request'[q] = request[q]
  BY DEF CreateUser, GoTo, Done, NostrTypeOK
<1>5. request' \in [Requests -> Request] /\ request'[r].pc # "verified"
      /\ (request'[r].pc # "idle" => request'[r].pubkey = p)
  <2>1. CASE request[r].path = "signer"
    BY <2>1 DEF CreateUser, Done, Idle, NostrTypeOK, Request, Paths
  <2>2. CASE request[r].path # "signer"
    <3>1. request' = [request EXCEPT ![r].pc = "opening"]
      BY <2>2 DEF CreateUser, GoTo
    <3>2. request'[r].pc = "opening" /\ request'[r].pubkey = p
      BY <3>1 DEF NostrTypeOK, Request
    <3>3. request' \in [Requests -> Request]
      BY <3>1 DEF NostrTypeOK, Request
    <3> QED
      BY <3>2, <3>3
  <2> QED
    BY <2>1, <2>2
<1>6. NostrTypeOK'
  BY <1>1, <1>2, <1>5 DEF CreateUser, NostrTypeOK
<1>7. RowsAsIssued'
  BY DEF CreateUser, RowsAsIssued, Stored
<1>8. VerifiedOwnKey' /\ RequestsHaveKeys'
  BY <1>1, <1>4, <1>5 DEF CreateUser, VerifiedOwnKey, RequestsHaveKeys
<1>9. AccountsOnce'
  BY <1>3 DEF AccountsOnce
<1> QED
  BY <1>6, <1>7, <1>8, <1>9

LEMMA NostrNextInv == NostrInv /\ [NostrNext]_vars => NostrInv'
<1> SUFFICES ASSUME NostrInv, [NostrNext]_vars PROVE NostrInv'
  OBVIOUS
<1> USE DEF NostrInv
<1>1. CASE UNCHANGED vars
  BY <1>1 DEF vars, NostrTypeOK, RowsAsIssued, Stored, VerifiedOwnKey,
              RequestsHaveKeys, AccountsOnce
<1>2. CASE Tick
  <2>1. now + 1 \in 0..MaxTime
    BY <1>2, NostrAssumption DEF Tick, NostrTypeOK
  <2> QED
    BY <1>2, <2>1 DEF Tick, NostrTypeOK, RowsAsIssued, Stored, VerifiedOwnKey,
                      RequestsHaveKeys, AccountsOnce
<1>3. CASE IssueFailed
  BY <1>3, PrunedRows, RowsDeleted DEF IssueFailed
<1>4. ASSUME NEW c \in Challenges, DropExpired(c) PROVE NostrInv'
  <2>1. row' \in [Challenges -> [expires : Nat, pubkey : Pubkeys \cup {None}]]
    BY <1>4 DEF DropExpired, NostrTypeOK, NoRow
  <2>2. \A d \in Challenges : row'[d] \in {row[d], NoRow}
    BY <1>4 DEF DropExpired, NostrTypeOK
  <2> QED
    BY <1>4, <2>1, <2>2, RowsDeleted DEF DropExpired
<1>5. ASSUME NEW r \in Requests, NEW p \in Pubkeys, NEW c \in Challenges,
             Verify(r, p, c)
      PROVE NostrInv'
  <2> DEFINE state == [pc |-> "verified", path |-> "login", pubkey |-> p,
                       challenge |-> c]
  <2>1. state \in Request
    BY DEF Request, Paths
  <2>2. request' = [request EXCEPT ![r] = state]
    BY <1>5 DEF Verify, Start
  <2>3. state.pc = "verified" /\ state.pubkey = p /\ state.challenge = c /\ p = holder[c]
    BY <1>5 DEF Verify, RowsAsIssued
  <2>4. UNCHANGED <<now, row, holder, admissions, user, created, sessions>>
    BY <1>5 DEF Verify
  <2> HIDE DEF state
  <2> QED
    BY <2>1, <2>2, <2>3, <2>4, NostrRequestStep DEF NostrTypeOK
<1>6. ASSUME NEW r \in Requests, NEW path \in Paths, NEW p \in Pubkeys,
             FindNone(r, path, p)
      PROVE NostrInv'
  <2> DEFINE state == [pc |-> "creating", path |-> path, pubkey |-> p,
                       challenge |-> None]
  <2>1. state \in Request
    BY DEF Request
  <2>2. request' = [request EXCEPT ![r] = state]
    BY <1>6 DEF FindNone, Start
  <2>3. state.pc = "creating" /\ state.pubkey = p
    OBVIOUS
  <2>4. UNCHANGED <<now, row, holder, admissions, user, created, sessions>>
    BY <1>6 DEF FindNone
  <2> HIDE DEF state
  <2> QED
    BY <2>1, <2>2, <2>3, <2>4, NostrRequestStep DEF NostrTypeOK
<1>7. ASSUME NEW r \in Requests, FindUser(r) PROVE NostrInv'
  <2>1. PICK pc \in {"creating", "opening"} :
            request' = [request EXCEPT ![r] = [@ EXCEPT !.pc = pc]]
    BY <1>7 DEF FindUser, GoTo, NostrTypeOK, Request
  <2> DEFINE state == [request[r] EXCEPT !.pc = pc]
  <2>2. state \in Request /\ state.pc = pc /\ state.pubkey \in Pubkeys
    BY <1>7 DEF FindUser, At, RequestsHaveKeys, NostrTypeOK, Request
  <2>3. request' = [request EXCEPT ![r] = state]
    BY <2>1
  <2>4. UNCHANGED <<now, row, holder, admissions, user, created, sessions>>
    BY <1>7 DEF FindUser
  <2> HIDE DEF state
  <2> QED
    BY <2>2, <2>3, <2>4, NostrRequestStep DEF NostrTypeOK
<1>8. ASSUME NEW r \in Requests,
             ConsumeRefused(r) \/ CreateRefused(r) \/ OpenSession(r) \/ Fail(r)
      PROVE NostrInv'
  <2>1. Idle \in Request /\ Idle.pc = "idle"
    BY DEF Idle, Request, Paths
  <2>2. request' = [request EXCEPT ![r] = Idle]
        /\ UNCHANGED <<now, row, holder, admissions, user, created>>
    BY <1>8 DEF ConsumeRefused, CreateRefused, OpenSession, Fail, Done
  <2>3. sessions' \in [Pubkeys -> SUBSET (Challenges \cup {None})]
    <3>1. CASE OpenSession(r)
      BY <3>1 DEF OpenSession, At, RequestsHaveKeys, NostrTypeOK, Request
    <3>2. CASE ~OpenSession(r)
      BY <1>8, <3>2 DEF ConsumeRefused, CreateRefused, Fail, NostrTypeOK
    <3> QED
      BY <3>1, <3>2
  <2> QED
    BY <2>1, <2>2, <2>3, NostrRequestStep
<1> QED
  BY <1>1, <1>2, <1>3, <1>4, <1>5, <1>6, <1>7, <1>8, IssueStep, ConsumeStep,
     CreateUserStep DEF NostrNext, Arrive, Proceed

(* NostrInv holds of every reachable state.                                *)
THEOREM NostrInvariance == NostrSpec => []NostrInv
<1>1. NostrInit => NostrInv
  BY NostrInitInv
<1>2. NostrInv /\ [NostrNext]_vars => NostrInv'
  BY NostrNextInv
<1> QED
  BY <1>1, <1>2, PTL DEF NostrSpec

-----------------------------------------------------------------------------
(* Login, registration and signer provisioning together make at most one   *)
(* account for a public key.                                               *)
THEOREM AccountsUnique == NostrSpec => []OneAccountPerPubkey
<1>1. NostrInv => OneAccountPerPubkey
  BY DEF NostrInv, AccountsOnce, OneAccountPerPubkey
<1> QED
  BY <1>1, NostrInvariance, PTL

(* Rows that go without admitting anybody are tickets that lapse. *)
LEMMA DeletionLapses ==
    ASSUME NostrInv, NostrInv',
           \A c \in Challenges : row'[c] \in {row[c], NoRow},
           UNCHANGED <<holder, admissions>>
    PROVE Ticket!TicketNext
<1> DEFINE old == {c \in Challenges : Stored(c) /\ ~Stored(c)'}
<1>1. \A c \in old : TicketState(c) = "open" /\ TicketState(c)' = "void"
  BY NostrAssumption DEF NostrInv, NostrTypeOK, RowsAsIssued, Stored, TicketState
<1>2. \A c \in Challenges \ old : TicketState(c)' = TicketState(c)
  <2>1. \A c \in Challenges \ old : Stored(c)' <=> Stored(c)
    BY DEF Stored, NoRow
  <2> QED
    BY <2>1 DEF TicketState
<1>3. Ticket!Lapse(old)
  BY <1>1, <1>2 DEF Ticket!Lapse, Ticket!Open
<1> QED
  BY <1>3 DEF Ticket!TicketNext

LEMMA IssueIssues ==
    ASSUME NostrInv, NostrInv', NEW c \in Challenges, NEW p \in Pubkeys, Issue(c, p)
    PROVE Ticket!TicketNext
<1> DEFINE old == {d \in Challenges \ {c} : Stored(d) /\ ~Stored(d)'}
<1>1. TicketState(c) = "unissued"
  BY NostrAssumption DEF Issue, NostrInv, NostrTypeOK, RowsAsIssued, Stored, TicketState
<1>2. holder' = [holder EXCEPT ![c] = p] /\ UNCHANGED admissions
  BY DEF Issue
<1>3. row'[c].pubkey = p /\ \A d \in Challenges \ {c} : row'[d] \in {row[d], NoRow}
  BY PrunedRows DEF Issue, NostrInv
<1>4. TicketState(c)' = "open"
  BY <1>2, <1>3, NostrAssumption
     DEF NostrInv, NostrTypeOK, RowsAsIssued, Stored, TicketState
<1>5. \A d \in old : TicketState(d) = "open" /\ TicketState(d)' = "void"
  BY <1>2, NostrAssumption
     DEF NostrInv, NostrTypeOK, RowsAsIssued, Stored, TicketState
<1>6. \A d \in Challenges \ (old \cup {c}) : TicketState(d)' = TicketState(d)
  <2>1. \A d \in Challenges \ (old \cup {c}) :
           (Stored(d)' <=> Stored(d)) /\ holder'[d] = holder[d]
    BY <1>2, <1>3 DEF NostrInv, NostrTypeOK, Stored, NoRow
  <2> QED
    BY <1>2, <2>1 DEF TicketState
<1>7. Ticket!IssueTicket(c, p, old)
  BY <1>1, <1>2, <1>4, <1>5, <1>6 DEF Ticket!IssueTicket, Ticket!Open
<1> QED
  BY <1>7 DEF Ticket!TicketNext

LEMMA ConsumeRedeems ==
    ASSUME NostrInv, NostrInv', NEW r \in Requests, Consume(r)
    PROVE Ticket!TicketNext
<1>1. PICK c \in Challenges :
          c = request[r].challenge /\ request[r].pubkey = holder[c]
  BY DEF Consume, At, NostrInv, VerifiedOwnKey
<1>2. admissions[c].count = 0 /\ Stored(c)
  BY <1>1 DEF Consume, NostrInv, RowsAsIssued
<1>3. admissions'[c] = [count |-> 1, last |-> holder[c]]
      /\ \A d \in Challenges \ {c} : admissions'[d] = admissions[d] /\ row'[d] = row[d]
  BY <1>1, <1>2 DEF Consume, NostrInv, NostrTypeOK
<1>4. UNCHANGED holder
  BY DEF Consume
<1>5. TicketState(c) = "open" /\ TicketState(c)' = "redeemed"
  BY <1>1, <1>2, <1>3 DEF TicketState
<1>6. \A d \in Challenges \ {c} : TicketState(d)' = TicketState(d)
  BY <1>3, <1>4 DEF TicketState, Stored
<1>7. Ticket!Redeem(c)
  <2>1. [d \in Challenges |-> TicketState(d)]'
          = [[d \in Challenges |-> TicketState(d)] EXCEPT ![c] = "redeemed"]
    BY <1>5, <1>6
  <2>2. admissions'[c].last = holder[c]
        /\ \A d \in Challenges \ {c} : admissions'[d].last = admissions[d].last
    BY <1>3
  <2>3. [d \in Challenges |-> admissions[d].last]'
          = [[d \in Challenges |-> admissions[d].last] EXCEPT ![c] = holder[c]]
    BY <2>2
  <2> QED
    BY <1>4, <1>5, <2>1, <2>3 DEF Ticket!Redeem
<1> QED
  BY <1>7 DEF Ticket!TicketNext

(* The table of challenges, with everything that reads and deletes its     *)
(* rows, implements one-time tickets.                                      *)
THEOREM ChallengesImplementTickets == NostrSpec => ChallengesAreTickets
<1>1. NostrInit => Ticket!TicketInit
  BY DEF NostrInit, NoRow, Ticket!TicketInit, TicketState, Stored
<1>2. NostrInv /\ NostrInv' /\ [NostrNext]_vars => [Ticket!TicketNext]_(Ticket!ticketVars)
  <2> SUFFICES ASSUME NostrInv, NostrInv', [NostrNext]_vars
               PROVE Ticket!TicketNext \/ UNCHANGED Ticket!ticketVars
    BY DEF Ticket!ticketVars
  <2>1. CASE UNCHANGED <<row, holder, admissions>>
    BY <2>1 DEF Ticket!ticketVars, TicketState, Stored
  <2>2. CASE IssueFailed
    BY <2>2, PrunedRows, DeletionLapses DEF IssueFailed
  <2>3. ASSUME NEW c \in Challenges, DropExpired(c) PROVE Ticket!TicketNext
    <3>1. \A d \in Challenges : row'[d] \in {row[d], NoRow}
      BY <2>3 DEF DropExpired, NostrInv, NostrTypeOK
    <3> QED
      BY <2>3, <3>1, DeletionLapses DEF DropExpired
  <2>4. UNCHANGED vars => UNCHANGED <<row, holder, admissions>>
    BY DEF vars
  <2>5. NostrNext => \/ UNCHANGED <<row, holder, admissions>>
                     \/ IssueFailed
                     \/ \E c \in Challenges :
                          DropExpired(c) \/ \E p \in Pubkeys : Issue(c, p)
                     \/ \E r \in Requests : Consume(r)
    BY DEF NostrNext, Arrive, Proceed, Tick, Verify, ConsumeRefused, FindUser,
           FindNone, CreateUser, CreateRefused, OpenSession, Fail
  <2> QED
    BY <2>1, <2>2, <2>3, <2>4, <2>5, IssueIssues, ConsumeRedeems
<1> QED
  BY <1>1, <1>2, NostrInvariance, PTL DEF NostrSpec, ChallengesAreTickets, Ticket!TicketSpec
-----------------------------------------------------------------------------
(* A challenge that has admitted its key, and is gone for good. *)
Used(c, p) ==
    /\ c \in Challenges
    /\ admissions[c].last = p
    /\ holder[c] = p
    /\ ~Stored(c)

(* What opens a session rests on such a challenge or needs none. *)
SignInsRest ==
    /\ \A r \in Requests :
          request[r].pc \in {"admitted", "creating", "opening"} =>
              request[r].challenge = None
              \/ Used(request[r].challenge, request[r].pubkey)
    /\ \A p \in Pubkeys : \A c \in sessions[p] \ {None} : Used(c, p)

LEMMA UsedStays ==
    ASSUME NostrInv, [NostrNext]_vars, NEW c \in Challenges, NEW p \in Pubkeys,
           Used(c, p)
    PROVE Used(c, p)'
<1> USE DEF Used, Stored
<1>0. holder[c] # None /\ row[c].pubkey = None
  BY NostrAssumption
<1>1. ASSUME UNCHANGED <<holder, admissions>>, row'[c] \in {row[c], NoRow}
      PROVE Used(c, p)'
  BY <1>0, <1>1 DEF NoRow
<1>2. CASE Tick \/ UNCHANGED vars
  BY <1>1, <1>2 DEF Tick, vars
<1>3. CASE IssueFailed
  BY <1>1, <1>3, PrunedRows DEF IssueFailed
<1>4. ASSUME NEW d \in Challenges, DropExpired(d) PROVE Used(c, p)'
  <2>1. row'[c] \in {row[c], NoRow}
    BY <1>4 DEF DropExpired, NostrInv, NostrTypeOK
  <2> QED
    BY <1>1, <1>4, <2>1 DEF DropExpired
<1>5. ASSUME NEW d \in Challenges, NEW q \in Pubkeys, Issue(d, q)
      PROVE Used(c, p)'
  <2>1. d # c
    BY <1>0, <1>5 DEF Issue
  <2>2. row'[c] \in {row[c], NoRow} /\ holder'[c] = holder[c]
    BY <1>5, <2>1, PrunedRows DEF Issue, NostrInv, NostrTypeOK
  <2> QED
    BY <1>0, <1>5, <2>2 DEF Issue, NoRow
<1>6. ASSUME NEW r \in Requests, Consume(r) PROVE Used(c, p)'
  <2>1. request[r].challenge # c
    BY <1>0, <1>6 DEF Consume
  <2>2. row'[c] = row[c] /\ admissions'[c] = admissions[c] /\ holder' = holder
    BY <1>6, <2>1 DEF Consume, NostrInv, NostrTypeOK
  <2> QED
    BY <2>2
<1>7. ASSUME NEW r \in Requests,
             \/ ConsumeRefused(r) \/ FindUser(r) \/ CreateUser(r)
             \/ CreateRefused(r) \/ OpenSession(r) \/ Fail(r) \/ Arrive(r)
      PROVE Used(c, p)'
  BY <1>1, <1>7 DEF ConsumeRefused, FindUser, CreateUser, CreateRefused,
                    OpenSession, Fail, Arrive, Verify, FindNone
<1> QED
  BY <1>2, <1>3, <1>4, <1>5, <1>6, <1>7 DEF NostrNext, Proceed

(* Where the key and the challenge of a request past admission come from.  *)
LEMMA WhoIsAdmitted ==
    ASSUME NostrInv, [NostrNext]_vars, NEW r \in Requests,
           request'[r].pc \in {"admitted", "creating", "opening"}
    PROVE \/ request'[r].challenge = None
          \/ /\ request[r].pc \in {"admitted", "creating"} \/ request'[r] = request[r]
             /\ request'[r].challenge = request[r].challenge
             /\ request'[r].pubkey = request[r].pubkey
          \/ /\ Consume(r)
             /\ request'[r].challenge = request[r].challenge
             /\ request'[r].pubkey = request[r].pubkey
<1>0. request \in [Requests -> Request] /\ request[r] \in Request
  BY DEF NostrInv, NostrTypeOK
<1>1. CASE request'[r] = request[r]
  BY <1>1
<1>2. ASSUME NEW q \in Requests, Done(q)
      PROVE request'[r] = request[r]
  <2>1. q # r
    BY <1>0, <1>2 DEF Done, Idle
  <2> QED
    BY <1>0, <1>2, <2>1 DEF Done
<1>3. ASSUME NEW q \in Requests, NEW pc, GoTo(q, pc)
      PROVE \/ request'[r] = request[r]
            \/ /\ q = r
               /\ request'[r].challenge = request[r].challenge
               /\ request'[r].pubkey = request[r].pubkey
  <2>1. CASE q # r
    BY <1>0, <1>3, <2>1 DEF GoTo
  <2>2. CASE q = r
    <3>1. request'[r] = [request[r] EXCEPT !.pc = pc]
      BY <1>0, <1>3, <2>2 DEF GoTo
    <3> QED
      BY <1>0, <2>2, <3>1 DEF Request
  <2> QED
    BY <2>1, <2>2
<1>4. ASSUME NEW q \in Requests, NEW p \in Pubkeys, NEW c \in Challenges,
             Verify(q, p, c)
      PROVE request'[r] = request[r]
  <2> DEFINE state == [pc |-> "verified", path |-> "login", pubkey |-> p,
                       challenge |-> c]
  <2>1. request' = [request EXCEPT ![q] = state] /\ state.pc = "verified"
    BY <1>4 DEF Verify, Start
  <2> HIDE DEF state
  <2> QED
    BY <1>0, <2>1
<1>5. ASSUME NEW q \in Requests, NEW path, NEW p \in Pubkeys, FindNone(q, path, p)
      PROVE request'[r] = request[r] \/ request'[r].challenge = None
  <2> DEFINE state == [pc |-> "creating", path |-> path, pubkey |-> p,
                       challenge |-> None]
  <2>1. request' = [request EXCEPT ![q] = state] /\ state.challenge = None
    BY <1>5 DEF FindNone, Start
  <2> HIDE DEF state
  <2> QED
    BY <1>0, <2>1
<1>6. ASSUME NEW q \in Requests, Arrive(q)
      PROVE request'[r] = request[r] \/ request'[r].challenge = None
  BY <1>4, <1>5, <1>6 DEF Arrive
<1>7. ASSUME NEW q \in Requests, Consume(q)
      PROVE \/ request'[r] = request[r]
            \/ /\ Consume(r)
               /\ request'[r].challenge = request[r].challenge
               /\ request'[r].pubkey = request[r].pubkey
  <2>1. GoTo(q, "admitted")
    BY <1>7 DEF Consume
  <2> QED
    BY <1>3, <1>7, <2>1
<1>8. ASSUME NEW q \in Requests, FindUser(q) \/ CreateUser(q)
      PROVE \/ request'[r] = request[r]
            \/ /\ request[r].pc \in {"admitted", "creating"}
               /\ request'[r].challenge = request[r].challenge
               /\ request'[r].pubkey = request[r].pubkey
  <2>1. /\ Done(q) \/ \E pc : GoTo(q, pc)
        /\ request[q].pc \in {"admitted", "creating"}
    BY <1>8 DEF FindUser, CreateUser, At
  <2> QED
    BY <1>2, <1>3, <2>1
<1>9. ASSUME NEW q \in Requests,
             ConsumeRefused(q) \/ CreateRefused(q) \/ OpenSession(q) \/ Fail(q)
      PROVE request'[r] = request[r]
  BY <1>2, <1>9 DEF ConsumeRefused, CreateRefused, OpenSession, Fail
<1>10. ASSUME \/ Tick \/ IssueFailed \/ UNCHANGED vars
              \/ \E c \in Challenges : DropExpired(c) \/ \E p \in Pubkeys : Issue(c, p)
       PROVE request'[r] = request[r]
  BY <1>10 DEF Tick, IssueFailed, vars, DropExpired, Issue
<1> QED
  BY <1>1, <1>6, <1>7, <1>8, <1>9, <1>10 DEF NostrNext, Proceed

LEMMA SignInsRestStep ==
    ASSUME NostrInv, SignInsRest, [NostrNext]_vars
    PROVE SignInsRest'
<1>1. ASSUME NEW r \in Requests,
             request'[r].pc \in {"admitted", "creating", "opening"},
             request'[r].challenge # None
      PROVE Used(request[r].challenge, request[r].pubkey)'
  <2>1. request'[r].challenge = request[r].challenge
        /\ request'[r].pubkey = request[r].pubkey
    BY <1>1, WhoIsAdmitted
  <2>2. CASE Consume(r)
    <3>1. /\ request[r].challenge \in Challenges
          /\ request[r].pubkey = holder[request[r].challenge]
      BY <2>2 DEF Consume, At, NostrInv, VerifiedOwnKey
    <3>2. /\ admissions'[request[r].challenge].last = request[r].pubkey
          /\ row'[request[r].challenge] = NoRow
          /\ holder' = holder
      BY <2>2, <3>1 DEF Consume, NostrInv, NostrTypeOK
    <3> QED
      BY <2>1, <3>1, <3>2 DEF Used, Stored, NoRow
  <2>3. CASE ~Consume(r)
    <3>1. request[r].pc \in {"admitted", "creating", "opening"}
      BY <1>1, <2>3, WhoIsAdmitted
    <3>2. Used(request[r].challenge, request[r].pubkey)
      BY <1>1, <2>1, <3>1 DEF SignInsRest
    <3>3. PICK c \in Challenges, p \in Pubkeys :
               c = request[r].challenge /\ p = request[r].pubkey
      BY <3>1, <3>2 DEF Used, NostrInv, RequestsHaveKeys
    <3>4. Used(c, p)'
      BY <3>2, <3>3, UsedStays
    <3> QED
      BY <2>1, <3>3, <3>4 DEF Used, Stored
  <2> QED
    BY <2>2, <2>3
<1>2. ASSUME NEW p \in Pubkeys, NEW c \in sessions'[p] \ {None}
      PROVE Used(c, p)'
  <2>1. CASE c \in sessions[p]
    <3>1. Used(c, p) /\ c \in Challenges
      BY <1>2, <2>1 DEF SignInsRest, Used
    <3> QED
      BY <3>1, UsedStays
  <2>2. CASE c \notin sessions[p]
    <3>1. PICK r \in Requests : OpenSession(r)
      <4>1. sessions' # sessions
        BY <1>2, <2>2
      <4>2. ASSUME NEW r \in Requests,
                   \/ ConsumeRefused(r) \/ FindUser(r) \/ CreateUser(r)
                   \/ CreateRefused(r) \/ Consume(r) \/ Fail(r) \/ Arrive(r)
            PROVE FALSE
        BY <4>1, <4>2 DEF ConsumeRefused, FindUser, CreateUser, CreateRefused,
                          Consume, Fail, Arrive, Verify, FindNone
      <4>3. ASSUME \/ Tick \/ IssueFailed \/ UNCHANGED vars
                   \/ \E d \in Challenges :
                        DropExpired(d) \/ \E q \in Pubkeys : Issue(d, q)
            PROVE FALSE
        BY <4>1, <4>3 DEF Tick, IssueFailed, vars, DropExpired, Issue
      <4> QED
        BY <4>2, <4>3 DEF NostrNext, Proceed
    <3>2. p = request[r].pubkey /\ c = request[r].challenge
      BY <1>2, <2>2, <3>1 DEF OpenSession, NostrInv, NostrTypeOK
    <3>3. Used(c, p)
      BY <1>2, <3>1, <3>2 DEF OpenSession, At, SignInsRest
    <3> QED
      BY <3>3, UsedStays DEF Used
  <2> QED
    BY <2>1, <2>2
<1> QED
  BY <1>1, <1>2 DEF SignInsRest, Used, Stored

(* Every session a login has opened rests on a challenge that was issued   *)
(* for that key, has admitted it, and will admit nobody any more.          *)
THEOREM SessionsRest == NostrSpec => []SessionsRestOnChallenges
<1>1. NostrInit => SignInsRest
  <2> SUFFICES ASSUME NostrInit PROVE SignInsRest
    OBVIOUS
  <2> QED
    BY DEF NostrInit, SignInsRest, Idle
<1>2. NostrInv /\ SignInsRest /\ [NostrNext]_vars => SignInsRest'
  BY SignInsRestStep
<1>3. SignInsRest => SessionsRestOnChallenges
  BY DEF SignInsRest, SessionsRestOnChallenges, Used
<1> QED
  BY <1>1, <1>2, <1>3, NostrInvariance, PTL DEF NostrSpec

-----------------------------------------------------------------------------
(* Names. *)
NamesTypes ==
    /\ domain \in [Addresses \ Served -> Pubkeys \cup {None}]
    /\ given \in [Addresses \ Served -> SUBSET Pubkeys]
    /\ name \in [Pubkeys -> Addresses \cup {None}]
    /\ check \in [Checks -> Check]

(* A check in progress is of some key and some address. *)
ChecksAsk ==
    \A v \in Checks : check[v].pc # "idle" =>
        check[v].pubkey \in Pubkeys /\ check[v].address \in Addresses

(* A key in a document of today has belonged there. *)
DocumentsKept ==
    \A a \in Addresses \ Served : domain[a] # None => domain[a] \in given[a]

(* A key in an answer from elsewhere has belonged there; there is none in  *)
(* an answer of this server.                                               *)
AnswersFound ==
    \A v \in Checks : (check[v].pc = "answered" /\ check[v].answer # None) =>
        /\ check[v].address \in Addresses \ Served
        /\ check[v].answer \in given[check[v].address]

NamesInv ==
    /\ NamesTypes
    /\ ChecksAsk
    /\ DocumentsKept
    /\ AnswersFound
    /\ NamesWereGiven
    /\ OwnNamesAreNeverGiven

LEMMA NamesInitInv == NamesInit => NamesInv
<1> SUFFICES ASSUME NamesInit PROVE NamesInv
  OBVIOUS
<1> USE DEF NamesInit
<1>1. NamesTypes
  BY DEF NamesTypes, Check, NoCheck
<1>2. ChecksAsk /\ DocumentsKept /\ AnswersFound
  BY DEF ChecksAsk, DocumentsKept, AnswersFound, NoCheck
<1>3. NamesWereGiven /\ OwnNamesAreNeverGiven
  BY NamesAssumption DEF NamesWereGiven, OwnNamesAreNeverGiven
<1> QED
  BY <1>1, <1>2, <1>3 DEF NamesInv

LEMMA PublishStep ==
    ASSUME NamesInv, NEW a \in Addresses \ Served, NEW p \in Pubkeys \cup {None},
           Publish(a, p)
    PROVE NamesInv'
<1> USE DEF NamesInv, NamesTypes, Publish
<1>1. /\ domain'[a] = p /\ given'[a] = given[a] \cup ({p} \ {None})
      /\ \A b \in (Addresses \ Served) \ {a} :
            domain'[b] = domain[b] /\ given'[b] = given[b]
  OBVIOUS
<1>2. \A b \in Addresses \ Served : given[b] \subseteq given'[b]
  BY <1>1
<1>3. NamesTypes'
  OBVIOUS
<1>4. DocumentsKept'
  BY <1>1 DEF DocumentsKept
<1>5. ChecksAsk' /\ AnswersFound'
  BY <1>2 DEF ChecksAsk, AnswersFound
<1>6. NamesWereGiven' /\ OwnNamesAreNeverGiven'
  BY <1>2 DEF NamesWereGiven, OwnNamesAreNeverGiven
<1> QED
  BY <1>3, <1>4, <1>5, <1>6

(* A step that only moves one check. *)
LEMMA CheckMoves ==
    ASSUME NamesInv, NEW v \in Checks, NEW state \in Check,
           check' = [check EXCEPT ![v] = state],
           state.pc # "idle" => /\ state.pubkey \in Pubkeys
                                /\ state.address \in Addresses,
           (state.pc = "answered" /\ state.answer # None) =>
               /\ state.address \in Addresses \ Served
               /\ state.answer \in given[state.address],
           UNCHANGED <<domain, given, name>>
    PROVE NamesInv'
<1> USE DEF NamesInv, NamesTypes
<1>1. check'[v] = state /\ \A w \in Checks \ {v} : check'[w] = check[w]
  OBVIOUS
<1>2. NamesTypes'
  OBVIOUS
<1>3. ChecksAsk'
  BY <1>1 DEF ChecksAsk
<1>4. AnswersFound'
  BY <1>1 DEF AnswersFound
<1>5. DocumentsKept' /\ NamesWereGiven' /\ OwnNamesAreNeverGiven'
  BY DEF DocumentsKept, NamesWereGiven, OwnNamesAreNeverGiven
<1> QED
  BY <1>2, <1>3, <1>4, <1>5

LEMMA StartCheckStep ==
    ASSUME NamesInv, NEW v \in Checks, NEW p \in Pubkeys, NEW a \in Addresses,
           StartCheck(v, p, a)
    PROVE NamesInv'
<1> DEFINE state == [pc |-> "asking", pubkey |-> p, address |-> a, answer |-> None]
<1>1. state \in Check /\ state.pc = "asking" /\ state.pubkey = p /\ state.address = a
  BY DEF Check
<1>2. check' = [check EXCEPT ![v] = state] /\ UNCHANGED <<domain, given, name>>
  BY DEF StartCheck
<1> HIDE DEF state
<1> QED
  BY <1>1, <1>2, CheckMoves

(* Nobody has a name of the server's own, so it answers with no key; a     *)
(* document elsewhere answers with a key it has had.                       *)
LEMMA AnswersAreFound ==
    ASSUME NamesInv, NEW v \in Checks, check[v].pc = "asking",
           NEW p \in Answers(v)
    PROVE /\ p \in Pubkeys \cup {None}
          /\ p # None => /\ check[v].address \in Addresses \ Served
                         /\ p \in given[check[v].address]
<1> DEFINE a == check[v].address
<1>1. a \in Addresses
  BY DEF NamesInv, ChecksAsk
<1>2. CASE a \in Served
  <2>1. {q \in Pubkeys : name[q] = a} = {}
    BY <1>2 DEF NamesInv, OwnNamesAreNeverGiven
  <2>2. Answers(v) = {None}
    BY <1>2, <2>1 DEF Answers, ServedAnswers
  <2> QED
    BY <2>2
<1>3. CASE a \notin Served
  <2>1. p = domain[a]
    BY <1>3 DEF Answers
  <2> QED
    BY <1>1, <1>3, <2>1 DEF NamesInv, NamesTypes, DocumentsKept
<1> QED
  BY <1>2, <1>3

LEMMA FetchStep ==
    ASSUME NamesInv, NEW v \in Checks, Fetch(v)
    PROVE NamesInv'
<1>1. check[v].pc = "asking"
  BY DEF Fetch
<1>2. PICK p \in Answers(v) :
        check' = [check EXCEPT ![v] = [check[v] EXCEPT !.pc = "answered",
                                                       !.answer = p]]
  BY DEF Fetch
<1>3. /\ p \in Pubkeys \cup {None}
      /\ p # None => /\ check[v].address \in Addresses \ Served
                     /\ p \in given[check[v].address]
  BY <1>1, AnswersAreFound
<1>4. check[v] \in Check
  BY DEF NamesInv, NamesTypes
<1>5. check[v].pubkey \in Pubkeys /\ check[v].address \in Addresses
  BY <1>1 DEF NamesInv, ChecksAsk
<1> DEFINE state == [check[v] EXCEPT !.pc = "answered", !.answer = p]
<1>6. /\ state \in Check /\ state.answer = p
      /\ state.pubkey = check[v].pubkey /\ state.address = check[v].address
  BY <1>3, <1>4 DEF Check
<1>7. check' = [check EXCEPT ![v] = state] /\ UNCHANGED <<domain, given, name>>
  BY <1>2 DEF Fetch
<1> HIDE DEF state
<1> QED
  BY <1>3, <1>5, <1>6, <1>7, CheckMoves

LEMMA NoCheckIsCheck == NoCheck \in Check /\ NoCheck.pc = "idle"
BY DEF NoCheck, Check

(* The name that is stored is what the answer was about. *)
LEMMA StoreNameStep ==
    ASSUME NamesInv, NEW v \in Checks, StoreName(v)
    PROVE NamesInv'
<1> DEFINE p == check[v].pubkey
           a == check[v].address
<1>1. p \in Pubkeys /\ a \in Addresses
  BY DEF NamesInv, ChecksAsk, StoreName
<1>2. check[v].answer = p /\ p # None
  BY <1>1, NostrAssumption DEF StoreName
<1>3. a \in Addresses \ Served /\ p \in given[a]
  BY <1>2 DEF NamesInv, AnswersFound, StoreName
<1>4. name'[p] = a /\ \A q \in Pubkeys \ {p} : name'[q] = name[q]
  BY <1>1 DEF NamesInv, NamesTypes, StoreName
<1>5. check'[v] = NoCheck /\ \A w \in Checks \ {v} : check'[w] = check[w]
  BY DEF NamesInv, NamesTypes, StoreName
<1>6. NamesTypes'
  BY <1>1, NoCheckIsCheck DEF NamesInv, NamesTypes, StoreName
<1>7. ChecksAsk' /\ AnswersFound'
  BY <1>5, NoCheckIsCheck DEF NamesInv, ChecksAsk, AnswersFound, StoreName
<1>8. DocumentsKept'
  BY DEF NamesInv, DocumentsKept, StoreName
<1>9. NamesWereGiven'
  BY <1>3, <1>4 DEF NamesInv, NamesWereGiven, StoreName
<1>10. OwnNamesAreNeverGiven'
  BY <1>3, <1>4 DEF NamesInv, OwnNamesAreNeverGiven
<1> QED
  BY <1>6, <1>7, <1>8, <1>9, <1>10 DEF NamesInv

LEMMA CheckFailsStep ==
    ASSUME NamesInv, NEW v \in Checks, CheckFails(v)
    PROVE NamesInv'
<1>1. check' = [check EXCEPT ![v] = NoCheck] /\ UNCHANGED <<domain, given, name>>
  BY DEF CheckFails
<1> QED
  BY <1>1, NoCheckIsCheck, CheckMoves

LEMMA NamesNextInv == NamesInv /\ [NamesNext]_allVars => NamesInv'
<1> SUFFICES ASSUME NamesInv, [NamesNext]_allVars PROVE NamesInv'
  OBVIOUS
<1>1. CASE UNCHANGED namesVars
  BY <1>1 DEF namesVars, NamesInv, NamesTypes, ChecksAsk, DocumentsKept,
              AnswersFound, NamesWereGiven, OwnNamesAreNeverGiven
<1>2. ASSUME NEW a \in Addresses \ Served, NEW p \in Pubkeys \cup {None},
             Publish(a, p)
      PROVE NamesInv'
  BY <1>2, PublishStep
<1>3. ASSUME NEW v \in Checks, NEW p \in Pubkeys, NEW a \in Addresses,
             StartCheck(v, p, a)
      PROVE NamesInv'
  BY <1>3, StartCheckStep
<1>4. ASSUME NEW v \in Checks, Fetch(v) \/ StoreName(v) \/ CheckFails(v)
      PROVE NamesInv'
  BY <1>4, FetchStep, StoreNameStep, CheckFailsStep
<1> QED
  BY <1>1, <1>2, <1>3, <1>4 DEF NamesNext, Naming, allVars, namesVars

LEMMA NamesAlwaysInv == NamesSpec => []NamesInv
<1> QED
  BY NamesInitInv, NamesNextInv, PTL DEF NamesSpec

(* A name elsewhere was given to the very key of the account that has it,  *)
(* whatever its domain, other accounts and repeated checks do.             *)
THEOREM NamesComeFromTheirDomains == NamesSpec => []NamesWereGiven
<1>1. NamesInv => NamesWereGiven
  BY DEF NamesInv
<1> QED
  BY <1>1, NamesAlwaysInv, PTL

(* The server confirms no name of its own domains for anybody, ever.       *)
THEOREM ServerConfirmsNoOwnName == NamesSpec => []OwnNamesAreNeverGiven
<1>1. NamesInv => OwnNamesAreNeverGiven
  BY DEF NamesInv
<1> QED
  BY <1>1, NamesAlwaysInv, PTL

(* Names do not interfere with signing in: what NostrProofs proves of      *)
(* challenges and accounts holds with names as well.                       *)
THEOREM NamesLeaveSignInAlone == NamesSpec => NostrSpec
<1>1. NamesInit => NostrInit
  BY DEF NamesInit
<1>2. [NamesNext]_allVars => [NostrNext]_vars
  BY DEF NamesNext, Naming, Publish, StartCheck, Fetch, StoreName, CheckFails,
         allVars
<1> QED
  BY <1>1, <1>2, PTL DEF NamesSpec, NostrSpec

(* So there is at most one account for a key here too.                     *)
THEOREM NamedAccountsUnique == NamesSpec => []OneAccountPerPubkey
BY NamesLeaveSignInAlone, AccountsUnique, PTL
=============================================================================
