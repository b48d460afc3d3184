----------------------------- MODULE NostrNames -----------------------------
(***************************************************************************)
(* NIP-05 names over NostrLogin (internal/auth/nip05.go): an account that  *)
(* signs in with a Nostr key may have an address name@domain verified by   *)
(* asking the domain which key the name belongs to, and this server is     *)
(* asked in its turn at /.well-known/nostr.json for the names of the       *)
(* domains it serves.  The two meet in auth_methods: a row must exist to   *)
(* have a name, and its name is what the server answers.                   *)
(*                                                                         *)
(* A domain elsewhere gives and takes names as it likes, in one document   *)
(* per address.  Relays and the time of the verification are left out, as  *)
(* nothing reads them.                                                     *)
(***************************************************************************)
EXTENDS NostrLogin

CONSTANTS
    Addresses, \* name@domain
    Served,    \* addresses of the domains this server answers for
    Checks     \* POST /nip05/verify requests in progress

ASSUME NamesAssumption ==
    /\ Served \subseteq Addresses
    /\ None \notin Addresses

VARIABLES
    domain, \* the key each address belongs to, by its domain's document
    given,  \* history: the keys each address has belonged to
    name,   \* auth_methods.nip05_address of each key's account
    check   \* the requests in progress

namesVars == <<domain, given, name, check>>
allVars == <<vars, namesVars>>

Check == [pc      : {"idle", "asking", "answered"},
          pubkey  : Pubkeys \cup {None},
          address : Addresses \cup {None},
          answer  : Pubkeys \cup {None}]
NoCheck == [pc |-> "idle", pubkey |-> None, address |-> None, answer |-> None]

NamesTypeOK ==
    /\ NostrTypeOK
    /\ domain \in [Addresses \ Served -> Pubkeys \cup {None}]
    /\ given \in [Addresses \ Served -> SUBSET Pubkeys]
    /\ name \in [Pubkeys -> Addresses \cup {None}]
    /\ check \in [Checks -> Check]

NamesInit ==
    /\ NostrInit
    /\ domain = [a \in Addresses \ Served |-> None]
    /\ given = [a \in Addresses \ Served |-> {}]
    /\ name = [p \in Pubkeys |-> None]
    /\ check = [v \in Checks |-> NoCheck]

(* The owner of a domain elsewhere gives a name to a key or takes it back. *)
Publish(a, p) ==
    /\ domain' = [domain EXCEPT ![a] = p]
    /\ given' = [given EXCEPT ![a] = @ \cup ({p} \ {None})]
    /\ UNCHANGED <<vars, name, check>>

(* GetNostrJSON: of several accounts with the name, the row that comes     *)
(* last.                                                                   *)
ServedAnswers(a) ==
    LET holders == {p \in Pubkeys : name[p] = a}
    IN IF holders = {} THEN {None} ELSE holders

(* Mutant: an address without a document is taken for the asker's.         *)
AnswersOrAsker(v) ==
    LET a == check[v].address
    IN IF a \in Served /\ ServedAnswers(a) = {None} THEN {check[v].pubkey}
       ELSE IF a \in Served THEN ServedAnswers(a) ELSE {domain[a]}

(* fetchNIP05: what the domain answers, None for a name it does not have.  *)
Answers(v) ==
    LET a == check[v].address
    IN IF a \in Served THEN ServedAnswers(a) ELSE {domain[a]}

(* VerifyNIP05 reads the key of the account ... *)
StartCheck(v, p, a) ==
    /\ check[v].pc = "idle"
    /\ user[p] # None
    /\ check' = [check EXCEPT ![v] = [pc |-> "asking", pubkey |-> p,
                                      address |-> a, answer |-> None]]
    /\ UNCHANGED <<vars, domain, given, name>>

(* ... asks the domain ... *)
Fetch(v) ==
    /\ check[v].pc = "asking"
    /\ \E p \in Answers(v) :
         check' = [check EXCEPT ![v] = [check[v] EXCEPT !.pc = "answered",
                                                        !.answer = p]]
    /\ UNCHANGED <<vars, domain, given, name>>

(* Mutant: the key that is answered is not compared. *)
StoreAnyName(v) ==
    /\ check[v].pc = "answered" /\ check[v].answer # None
    /\ name' = [name EXCEPT ![check[v].pubkey] = check[v].address]
    /\ check' = [check EXCEPT ![v] = NoCheck]
    /\ UNCHANGED <<vars, domain, given>>

(* ... and stores the name if the answer was that key. *)
StoreName(v) ==
    /\ check[v].pc = "answered" /\ check[v].answer = check[v].pubkey
    /\ name' = [name EXCEPT ![check[v].pubkey] = check[v].address]
    /\ check' = [check EXCEPT ![v] = NoCheck]
    /\ UNCHANGED <<vars, domain, given>>

(* Another key or none is answered, or no answer comes, or a crash. *)
CheckFails(v) ==
    /\ check[v].pc # "idle"
    /\ check' = [check EXCEPT ![v] = NoCheck]
    /\ UNCHANGED <<vars, domain, given, name>>

Naming ==
    \/ \E a \in Addresses \ Served, p \in Pubkeys \cup {None} : Publish(a, p)
    \/ \E v \in Checks :
         \/ \E p \in Pubkeys, a \in Addresses : StartCheck(v, p, a)
         \/ Fetch(v) \/ StoreName(v) \/ CheckFails(v)

NamesNext ==
    \/ NostrNext /\ UNCHANGED namesVars
    \/ Naming

NamesSpec == NamesInit /\ [][NamesNext]_allVars

-----------------------------------------------------------------------------
(* A name elsewhere that an account goes by was given to its very key by   *)
(* its domain, though it may belong to another one by now: nothing looks   *)
(* again.  So two accounts share a name only if its domain gave it twice.  *)
NamesWereGiven ==
    \A p \in Pubkeys :
        name[p] \in Addresses \ Served => p \in given[name[p]]

(* No account ever gets a name of a domain this server answers for: the    *)
(* server is asked whose it is, and knows only names it has verified.      *)
OwnNamesAreNeverGiven == \A p \in Pubkeys : name[p] \notin Served
=============================================================================
