----------------------------- MODULE NostrLogin -----------------------------
(***************************************************************************)
(* Signing in with a Nostr key (internal/auth/nostr.go over the            *)
(* auth_challenges table of challenge_store.go), registering with one      *)
(* (registerNostrUser) and being provisioned from a signer session         *)
(* (FindOrProvisionByNostrPubkey): three ways an account for a public key  *)
(* comes into being, on any number of replicas at once.                    *)
(*                                                                         *)
(* A signed event is what it proves: the key and the challenge.  Events of *)
(* another kind, with a created_at out of bounds or a signature that does  *)
(* not verify are refused before anything changes, and are left out.       *)
(***************************************************************************)
EXTENDS Integers

CONSTANTS
    Challenges, \* challenge values: 32 random bytes, none comes up twice
    Pubkeys,    \* Nostr public keys
    Requests,   \* requests in progress
    None,       \* no key, no challenge, no account
    TTL,        \* how long a challenge is valid (10 minutes in the code)
    Keep,       \* how long an expired row is kept (1 hour in the code)
    MaxTime     \* bound on the clock

(* What makes an account: createNostrUser, registerNostrUser, or           *)
(* FindOrProvisionByNostrPubkey.                                           *)
Paths == {"login", "register", "signer"}

ASSUME NostrAssumption ==
    /\ None \notin Pubkeys \cup Challenges \cup Paths
    /\ {TTL, Keep, MaxTime} \subseteq Nat

VARIABLES
    now,        \* the clock, the database's and the replicas'
    row,        \* auth_challenges: expiry and key of each stored challenge
    holder,     \* history: the key each challenge was issued for
    admissions, \* history: how many logins each challenge admitted, and of
                \* which key the last one
    user,       \* auth_methods of type nostr: which path made the account
    created,    \* history: accounts made for each key
    sessions,   \* history: sessions opened, by key and challenge
    request     \* the requests in progress

vars == <<now, row, holder, admissions, user, created, sessions, request>>

NoRow == [expires |-> 0, pubkey |-> None]
Request == [pc        : {"idle", "verified", "admitted", "creating", "opening"},
            path      : Paths,
            pubkey    : Pubkeys \cup {None},
            challenge : Challenges \cup {None}]
Idle == [pc |-> "idle", path |-> "login", pubkey |-> None, challenge |-> None]

NostrTypeOK ==
    /\ now \in 0..MaxTime
    /\ row \in [Challenges -> [expires : Nat, pubkey : Pubkeys \cup {None}]]
    /\ holder \in [Challenges -> Pubkeys \cup {None}]
    /\ admissions \in [Challenges -> [count : Nat, last : Pubkeys \cup {None}]]
    /\ user \in [Pubkeys -> Paths \cup {None}]
    /\ created \in [Pubkeys -> Nat]
    /\ sessions \in [Pubkeys -> SUBSET (Challenges \cup {None})]
    /\ request \in [Requests -> Request]

NostrInit ==
    /\ now = 0
    /\ row = [c \in Challenges |-> NoRow]
    /\ holder = [c \in Challenges |-> None]
    /\ admissions = [c \in Challenges |-> [count |-> 0, last |-> None]]
    /\ user = [p \in Pubkeys |-> None]
    /\ created = [p \in Pubkeys |-> 0]
    /\ sessions = [p \in Pubkeys |-> {}]
    /\ request = [r \in Requests |-> Idle]

Tick ==
    /\ now < MaxTime
    /\ now' = now + 1
    /\ UNCHANGED <<row, holder, admissions, user, created, sessions, request>>

Stored(c) == row[c].pubkey # None
At(r, pc) == request[r].pc = pc
GoTo(r, pc) == request' = [request EXCEPT ![r].pc = pc]
Done(r) == request' = [request EXCEPT ![r] = Idle]
Start(r, pc, path, p, c) ==
    /\ At(r, "idle")
    /\ request' = [request EXCEPT ![r] = [pc |-> pc, path |-> path,
                                          pubkey |-> p, challenge |-> c]]

-----------------------------------------------------------------------------
(* DELETE ... WHERE expires_at < NOW() - INTERVAL '1 hour' *)
Pruned == [c \in Challenges |->
             IF Stored(c) /\ row[c].expires + Keep < now THEN NoRow ELSE row[c]]

(* GenerateNostrChallengePublic: Put prunes and inserts. *)
Issue(c, p) ==
    /\ holder[c] = None
    /\ row' = [Pruned EXCEPT ![c] = [expires |-> now + TTL, pubkey |-> p]]
    /\ holder' = [holder EXCEPT ![c] = p]
    /\ UNCHANGED <<now, admissions, user, created, sessions, request>>

(* The prune went through and the insert did not. *)
IssueFailed ==
    /\ row' = Pruned
    /\ UNCHANGED <<now, holder, admissions, user, created, sessions, request>>

(* Mutant: the key the challenge was issued for is not compared. *)
VerifyAnyKey(r, p, c) ==
    /\ Stored(c)
    /\ now <= row[c].expires
    /\ Start(r, "verified", "login", p, c)
    /\ UNCHANGED <<now, row, holder, admissions, user, created, sessions>>

(* AuthenticateWithNostr up to the signature check, on the row Lookup saw. *)
Verify(r, p, c) ==
    /\ Stored(c) /\ row[c].pubkey = p
    /\ now <= row[c].expires
    /\ Start(r, "verified", "login", p, c)
    /\ UNCHANGED <<now, row, holder, admissions, user, created, sessions>>

(* An expired challenge is dropped and the login refused. *)
DropExpired(c) ==
    /\ Stored(c)
    /\ row[c].expires < now
    /\ row' = [row EXCEPT ![c] = NoRow]
    /\ UNCHANGED <<now, holder, admissions, user, created, sessions, request>>

(* Mutant: the login goes on when the DELETE found nothing to remove.      *)
ConsumeAnyway(r) ==
    LET c == request[r].challenge IN
    /\ At(r, "verified")
    /\ row' = [row EXCEPT ![c] = NoRow]
    /\ admissions' = [admissions EXCEPT
                        ![c] = [count |-> @.count + 1,
                                last  |-> request[r].pubkey]]
    /\ GoTo(r, "admitted")
    /\ UNCHANGED <<now, holder, user, created, sessions>>

(* Consume: the login goes on if its DELETE removed the row. *)
Consume(r) ==
    LET c == request[r].challenge IN
    /\ At(r, "verified")
    /\ Stored(c)
    /\ row' = [row EXCEPT ![c] = NoRow]
    /\ admissions' = [admissions EXCEPT
                        ![c] = [count |-> @.count + 1,
                                last  |-> request[r].pubkey]]
    /\ GoTo(r, "admitted")
    /\ UNCHANGED <<now, holder, user, created, sessions>>

ConsumeRefused(r) ==
    /\ At(r, "verified")
    /\ ~Stored(request[r].challenge)
    /\ Done(r)
    /\ UNCHANGED <<now, row, holder, admissions, user, created, sessions>>

(* The account lookup after admission. *)
FindUser(r) ==
    /\ At(r, "admitted")
    /\ GoTo(r, IF user[request[r].pubkey] = None THEN "creating" ELSE "opening")
    /\ UNCHANGED <<now, row, holder, admissions, user, created, sessions>>

-----------------------------------------------------------------------------
(* registerNostrUser and FindOrProvisionByNostrPubkey find no account; one *)
(* that exists is an error for the first and the answer of the second.     *)
FindNone(r, path, p) ==
    /\ user[p] = None
    /\ Start(r, "creating", path, p, None)
    /\ UNCHANGED <<now, row, holder, admissions, user, created, sessions>>

(* Mutant: without UNIQUE(type, identifier). *)
CreateUserAgain(r) ==
    LET p == request[r].pubkey IN
    /\ At(r, "creating")
    /\ user' = [user EXCEPT ![p] = request[r].path]
    /\ created' = [created EXCEPT ![p] = @ + 1]
    /\ IF request[r].path = "signer" THEN Done(r) ELSE GoTo(r, "opening")
    /\ UNCHANGED <<now, row, holder, admissions, sessions>>

(* createNostrUser and its two siblings: user, auth method and vault in    *)
(* one transaction; UNIQUE(type, identifier) admits one per key.  A signer *)
(* session needs no session of its own.                                    *)
CreateUser(r) ==
    LET p == request[r].pubkey IN
    /\ At(r, "creating")
    /\ user[p] = None
    /\ user' = [user EXCEPT ![p] = request[r].path]
    /\ created' = [created EXCEPT ![p] = @ + 1]
    /\ IF request[r].path = "signer" THEN Done(r) ELSE GoTo(r, "opening")
    /\ UNCHANGED <<now, row, holder, admissions, sessions>>

(* Another request made the account first: the INSERT fails. *)
CreateRefused(r) ==
    /\ At(r, "creating")
    /\ user[request[r].pubkey] # None
    /\ Done(r)
    /\ UNCHANGED <<now, row, holder, admissions, user, created, sessions>>

OpenSession(r) ==
    /\ At(r, "opening")
    /\ sessions' = [sessions EXCEPT ![request[r].pubkey] =
                                       @ \cup {request[r].challenge}]
    /\ Done(r)
    /\ UNCHANGED <<now, row, holder, admissions, user, created>>

(* A database error or a crash: what was committed stays. *)
Fail(r) ==
    /\ ~At(r, "idle")
    /\ Done(r)
    /\ UNCHANGED <<now, row, holder, admissions, user, created, sessions>>

-----------------------------------------------------------------------------
Proceed(r) ==
    \/ Consume(r) \/ ConsumeRefused(r) \/ FindUser(r)
    \/ CreateUser(r) \/ CreateRefused(r) \/ OpenSession(r)

Arrive(r) ==
    \/ \E p \in Pubkeys, c \in Challenges : Verify(r, p, c)
    \/ \E path \in Paths \ {"login"}, p \in Pubkeys : FindNone(r, path, p)

NostrNext ==
    \/ Tick
    \/ IssueFailed
    \/ \E c \in Challenges :
         \/ DropExpired(c)
         \/ \E p \in Pubkeys : Issue(c, p)
    \/ \E r \in Requests : Arrive(r) \/ Proceed(r) \/ Fail(r)

NostrSpec == NostrInit /\ [][NostrNext]_vars

-----------------------------------------------------------------------------
(* The challenges as LoginTicket sees them: redeemed when they admitted a  *)
(* login, open while they are stored.                                      *)
TicketState(c) ==
    IF admissions[c].count > 1 THEN "redeemed again"
    ELSE IF admissions[c].count = 1 THEN "redeemed"
    ELSE IF Stored(c) THEN "open"
    ELSE IF holder[c] = None THEN "unissued"
    ELSE "void"

Ticket == INSTANCE LoginTicket WITH
    ticket <- [c \in Challenges |-> TicketState(c)],
    redeemedBy <- [c \in Challenges |-> admissions[c].last]

(* However requests, retries, prunes and replicas interleave, a challenge  *)
(* admits one login at most, of the key it was issued for, and a dropped   *)
(* one never admits any: "the single-use guarantee" of ChallengeStore.     *)
ChallengesAreTickets == Ticket!TicketSpec

(* The three ways to make an account never make two for one key.           *)
OneAccountPerPubkey == \A p \in Pubkeys : created[p] <= 1

(* A session opened by a login rests on a challenge that admitted that     *)
(* very key and is gone from the table.                                    *)
SessionsRestOnChallenges ==
    \A p \in Pubkeys : \A c \in sessions[p] \ {None} :
        /\ admissions[c].last = p
        /\ holder[c] = p
        /\ ~Stored(c)
=============================================================================
