------------------------------ MODULE Accounts ------------------------------
(***************************************************************************)
(* Email accounts of the backend: registration, sign-in with the one-time  *)
(* upgrade from a password verifier to an auth-key verifier, sessions, and *)
(* account recovery with one-time codes (internal/auth/auth.go and         *)
(* internal/recovery/recovery.go, called from internal/api/handlers.go).   *)
(*                                                                         *)
(* Requests run concurrently, in one process or several, and meet only in  *)
(* Postgres.  A step is one statement that other requests can observe; a   *)
(* transaction is one step when everything it reads it also locks.  The    *)
(* DELETEs of RegenerateCodes and of RecoverAccount remove the rows their  *)
(* own snapshots hold, so each is a step apart from the commit, and the    *)
(* row locks of the transaction make others wait in between.               *)
(***************************************************************************)
EXTENDS Naturals, FiniteSets

CONSTANTS
    Emails,   \* normalised addresses
    Secrets,  \* master passwords; an auth key stands for the one it derives from
    Codes,    \* recovery codes generateCode can return
    Tokens,   \* session tokens uuid.New can return
    Requests, \* requests the server is working on
    NumCodes, \* NumRecoveryCodes
    None      \* a field that is absent, or an auth key parseAuthKey refuses

ASSUME AccountsAssumption ==
    /\ NumCodes \in Nat
    /\ None \notin Secrets \cup Codes

VARIABLES
    account,   \* auth_methods: what password_hash verifies, and auth_version
    unused,    \* recovery_codes with used = false, per account
    used,      \* recovery_codes with used = true, per account
    generated, \* codes handed out so far: generateCode repeats none
    sessions,  \* the sessions table
    issued,    \* tokens handed out so far: uuid.New repeats none
    request,   \* the requests in progress
    resets,    \* history: completed recoveries of an account
    resetBy,   \* history: the codes that paid for them
    revoked    \* history: the tokens handed out before the DELETE of the last

vars == <<account, unused, used, generated, sessions, issued, request,
          resets, resetBy, revoked>>

(* Version 1 verifies the password, version 2 the auth key.                *)
Account == [version : {1, 2}, secret : Secrets]
NoAccount == [version |-> 0, secret |-> None]

(* proved counts the recoveries that had completed when the secret behind  *)
(* the session was verified.                                               *)
Session == [token : Tokens, email : Emails, proved : Nat]

(* old and rows are what a DELETE removes at the commit; before is history:*)
(* the tokens that were handed out when the DELETE of sessions ran.        *)
Request == [pc     : {"idle", "creating", "upgrading", "opening", "matched",
                      "spent", "resetting", "regenerating", "deleted"},
            email  : Emails \cup {None},
            key    : Secrets \cup {None},
            code   : Codes \cup {None},
            epoch  : Nat,
            old    : SUBSET Codes,
            rows   : SUBSET Session,
            before : SUBSET Tokens]

Idle == [pc |-> "idle", email |-> None, key |-> None, code |-> None,
         epoch |-> 0, old |-> {}, rows |-> {}, before |-> {}]

TypeOK ==
    /\ account \in [Emails -> Account \cup {NoAccount}]
    /\ unused \in [Emails -> SUBSET Codes]
    /\ used \in [Emails -> SUBSET Codes]
    /\ generated \in SUBSET Codes
    /\ sessions \in SUBSET Session
    /\ issued \in SUBSET Tokens
    /\ request \in [Requests -> Request]
    /\ resets \in [Emails -> Nat]
    /\ resetBy \in [Emails -> SUBSET Codes]
    /\ revoked \in [Emails -> SUBSET Tokens]

(* The accounts made before migration 008, each with its batch of codes.   *)
Init ==
    /\ account \in [Emails -> [version : {1}, secret : Secrets] \cup {NoAccount}]
    /\ unused \in [Emails -> SUBSET Codes]
    /\ \A e \in Emails :
         IF account[e] = NoAccount THEN unused[e] = {}
         ELSE IsFiniteSet(unused[e]) /\ Cardinality(unused[e]) = NumCodes
    /\ \A e, f \in Emails : e # f => unused[e] \cap unused[f] = {}
    /\ used = [e \in Emails |-> {}]
    /\ generated = UNION {unused[e] : e \in Emails}
    /\ sessions = {}
    /\ issued = {}
    /\ request = [r \in Requests |-> Idle]
    /\ resets = [e \in Emails |-> 0]
    /\ resetBy = [e \in Emails |-> {}]
    /\ revoked = [e \in Emails |-> {}]

Registered(e) == account[e] # NoAccount

Start(r, pc, e, key, code) ==
    /\ request[r].pc = "idle"
    /\ request' = [request EXCEPT ![r] =
                     [pc |-> pc, email |-> e, key |-> key, code |-> code,
                      epoch |-> resets[e], old |-> {}, rows |-> {},
                      before |-> {}]]

At(r, pc) == request[r].pc = pc
GoTo(r, pc) == request' = [request EXCEPT ![r].pc = pc]
Done(r) == request' = [request EXCEPT ![r] = Idle]

(* generateCode: NumCodes codes nobody has seen. *)
FreshBatches ==
    {batch \in SUBSET (Codes \ generated) :
        IsFiniteSet(batch) /\ Cardinality(batch) = NumCodes}

(* Rows a RegenerateCodes transaction has deleted and not yet committed.   *)
Locked(c) == \E q \in Requests : At(q, "deleted") /\ c \in request[q].old

(* The transaction of RecoverAccount has updated the account's row of      *)
(* auth_methods, and its row of vaults, and not yet committed.             *)
Resetting(e) ==
    \E q \in Requests : At(q, "resetting") /\ request[q].email = e

-----------------------------------------------------------------------------
(* RegisterUser: the address was free when SELECT EXISTS looked. *)
Register(r, e, key) ==
    /\ ~Registered(e)
    /\ Start(r, "creating", e, key, None)
    /\ UNCHANGED <<account, unused, used, generated, sessions, issued, resets,
                   resetBy, revoked>>

(* The transaction of registerEmailUser; the address is unique. *)
CreateAccount(r) ==
    LET e == request[r].email IN
    /\ At(r, "creating")
    /\ ~Registered(e)
    /\ account' = [account EXCEPT ![e] = [version |-> 2,
                                          secret  |-> request[r].key]]
    /\ \E batch \in FreshBatches :
         /\ unused' = [unused EXCEPT ![e] = batch]
         /\ generated' = generated \cup batch
    /\ GoTo(r, "opening")
    /\ UNCHANGED <<used, sessions, issued, resets, resetBy, revoked>>

(* Another registration of the address has committed first. *)
CreateRefused(r) ==
    /\ At(r, "creating")
    /\ Registered(request[r].email)
    /\ Done(r)
    /\ UNCHANGED <<account, unused, used, generated, sessions, issued, resets,
                   resetBy, revoked>>

(* loginEmailUser: the row is read once and what the client sent verified  *)
(* against that copy.  A v2 account takes only the auth key, a v1 account  *)
(* the password, with the auth key of a client that can upgrade it.        *)
Login(r, e, key, password) ==
    /\ Registered(e)
    /\ \/ /\ account[e].version = 2
          /\ key = account[e].secret
          /\ Start(r, "opening", e, key, None)
       \/ /\ account[e].version = 1
          /\ password = account[e].secret
          /\ Start(r, IF key = None THEN "opening" ELSE "upgrading",
                   e, key, None)
    /\ UNCHANGED <<account, unused, used, generated, sessions, issued, resets,
                   resetBy, revoked>>

(* Mutant: UPDATE ... WHERE id, with no look at the version it upgrades.   *)
UpgradeAnyVersion(r) ==
    /\ At(r, "upgrading")
    /\ account' = [account EXCEPT ![request[r].email] =
                     [version |-> 2, secret |-> request[r].key]]
    /\ GoTo(r, "opening")
    /\ UNCHANGED <<unused, used, generated, sessions, issued, resets,
                   resetBy, revoked>>

(* upgradeToAuthKey: UPDATE ... WHERE id AND auth_version = 1, which waits *)
(* for a recovery that has updated the row and then looks at it again.     *)
Upgrade(r) ==
    LET e == request[r].email IN
    /\ At(r, "upgrading")
    /\ ~Resetting(e)
    /\ account' = IF account[e].version = 1
                  THEN [account EXCEPT ![e] = [version |-> 2,
                                               secret  |-> request[r].key]]
                  ELSE account
    /\ GoTo(r, "opening")
    /\ UNCHANGED <<unused, used, generated, sessions, issued, resets,
                   resetBy, revoked>>

(* createSession, the last step of Register, Login and RecoverAccount. *)
OpenSession(r) ==
    LET e == request[r].email IN
    /\ At(r, "opening")
    /\ \E token \in Tokens \ issued :
         /\ sessions' = sessions \cup {[token |-> token, email |-> e,
                                        proved |-> request[r].epoch]}
         /\ issued' = issued \cup {token}
    /\ Done(r)
    /\ UNCHANGED <<account, unused, used, generated, resets, resetBy, revoked>>

(* RevokeSession, or ValidateSession on a row past its expires_at; it waits*)
(* for a recovery that has deleted the row.                                *)
CloseSession(s) ==
    /\ s \in sessions
    /\ ~\E q \in Requests : s \in request[q].rows
    /\ sessions' = sessions \ {s}
    /\ UNCHANGED <<account, unused, used, generated, issued, request, resets,
                   resetBy, revoked>>

-----------------------------------------------------------------------------
(* RecoverAccount finds the user (users are never deleted), and ConsumeCode*)
(* finds the code among the unused ones.                                   *)
Recover(r, e, code, key) ==
    /\ Registered(e)
    /\ code \in unused[e] /\ ~Locked(code)
    /\ Start(r, "matched", e, key, code)
    /\ UNCHANGED <<account, unused, used, generated, sessions, issued, resets,
                   resetBy, revoked>>

(* Mutant: UPDATE ... SET used = true WHERE id.                            *)
MarkUsedAgain(r) ==
    LET e == request[r].email
        code == request[r].code
    IN
    /\ At(r, "matched")
    /\ code \in unused[e] \cup used[e] /\ ~Locked(code)
    /\ unused' = [unused EXCEPT ![e] = @ \ {code}]
    /\ used' = [used EXCEPT ![e] = @ \cup {code}]
    /\ GoTo(r, "spent")
    /\ UNCHANGED <<account, generated, sessions, issued, resets,
                   resetBy, revoked>>

(* Mutant: the SELECT ... FOR UPDATE of one request makes another request  *)
(* for the same code wait, and itself when it runs on another connection.  *)
MarkUsedWaiting(r) ==
    LET e == request[r].email
        code == request[r].code
    IN
    /\ At(r, "matched")
    /\ code \in unused[e] /\ ~Locked(code)
    /\ ~\E q \in Requests : At(q, "matched") /\ request[q].code = code
    /\ unused' = [unused EXCEPT ![e] = @ \ {code}]
    /\ used' = [used EXCEPT ![e] = @ \cup {code}]
    /\ GoTo(r, "spent")
    /\ UNCHANGED <<account, generated, sessions, issued, resets,
                   resetBy, revoked>>

(* ConsumeCode: UPDATE ... SET used = true WHERE id AND used = false.      *)
MarkUsed(r) ==
    LET e == request[r].email
        code == request[r].code
    IN
    /\ At(r, "matched")
    /\ code \in unused[e] /\ ~Locked(code)
    /\ unused' = [unused EXCEPT ![e] = @ \ {code}]
    /\ used' = [used EXCEPT ![e] = @ \cup {code}]
    /\ GoTo(r, "spent")
    /\ UNCHANGED <<account, generated, sessions, issued, resets,
                   resetBy, revoked>>

(* ErrCodeAlreadyUsed: used or replaced since it was matched. *)
CodeGone(r) ==
    /\ At(r, "matched")
    /\ request[r].code \notin unused[request[r].email]
    /\ Done(r)
    /\ UNCHANGED <<account, unused, used, generated, sessions, issued, resets,
                   resetBy, revoked>>

(* parseAuthKey refuses the new auth key; the code stays used. *)
NewKeyRefused(r) ==
    /\ At(r, "spent")
    /\ request[r].key = None
    /\ Done(r)
    /\ UNCHANGED <<account, unused, used, generated, sessions, issued, resets,
                   resetBy, revoked>>

(* The transaction of RecoverAccount up to DELETE FROM sessions: the new   *)
(* verifier, the new vault, and the session rows committed by now.         *)
DeleteSessions(r) ==
    LET e == request[r].email IN
    /\ At(r, "spent")
    /\ request[r].key # None
    /\ ~Resetting(e)
    /\ request' = [request EXCEPT
                     ![r] = [@ EXCEPT !.pc = "resetting",
                                      !.rows = {s \in sessions : s.email = e},
                                      !.before = issued]]
    /\ UNCHANGED <<account, unused, used, generated, sessions, issued, resets,
                   resetBy, revoked>>

(* Mutant: sessions stay. *)
ResetKeepsSessions(r) ==
    LET e == request[r].email IN
    /\ At(r, "resetting")
    /\ account' = [account EXCEPT ![e] = [version |-> 2,
                                          secret  |-> request[r].key]]
    /\ resets' = [resets EXCEPT ![e] = @ + 1]
    /\ resetBy' = [resetBy EXCEPT ![e] = @ \cup {request[r].code}]
    /\ revoked' = [revoked EXCEPT ![e] = request[r].before]
    /\ request' = [request EXCEPT
                     ![r] = [@ EXCEPT !.pc = "opening", !.epoch = resets[e] + 1,
                                      !.rows = {}, !.before = {}]]
    /\ UNCHANGED <<unused, used, generated, sessions, issued>>

(* The commit: new verifier, whatever the version was, new vault (see      *)
(* AccountVault), and every session gone that was there at the DELETE.     *)
Reset(r) ==
    LET e == request[r].email IN
    /\ At(r, "resetting")
    /\ account' = [account EXCEPT ![e] = [version |-> 2,
                                          secret  |-> request[r].key]]
    /\ sessions' = sessions \ request[r].rows
    /\ resets' = [resets EXCEPT ![e] = @ + 1]
    /\ resetBy' = [resetBy EXCEPT ![e] = @ \cup {request[r].code}]
    /\ revoked' = [revoked EXCEPT ![e] = request[r].before]
    /\ request' = [request EXCEPT
                     ![r] = [@ EXCEPT !.pc = "opening", !.epoch = resets[e] + 1,
                                      !.rows = {}, !.before = {}]]
    /\ UNCHANGED <<unused, used, generated, issued>>

-----------------------------------------------------------------------------
(* POST /recovery/regenerate: AuthMiddleware resolves the token, and from  *)
(* then on the handler only knows the user.                                *)
Regenerate(r, s) ==
    /\ s \in sessions
    /\ Start(r, "regenerating", s.email, None, None)
    /\ UNCHANGED <<account, unused, used, generated, sessions, issued, resets,
                   resetBy, revoked>>

(* DELETE FROM recovery_codes WHERE user_id: the rows committed by now.    *)
DeleteCodes(r) ==
    LET e == request[r].email IN
    /\ At(r, "regenerating")
    /\ request' = [request EXCEPT ![r] = [@ EXCEPT !.pc = "deleted",
                                                   !.old = unused[e] \cup used[e]]]
    /\ UNCHANGED <<account, unused, used, generated, sessions, issued, resets,
                   resetBy, revoked>>

(* The INSERTs and the commit. *)
CommitCodes(r) ==
    LET e == request[r].email
        old == request[r].old
    IN
    /\ At(r, "deleted")
    /\ \E batch \in FreshBatches :
         /\ unused' = [unused EXCEPT ![e] = (@ \ old) \cup batch]
         /\ generated' = generated \cup batch
    /\ used' = [used EXCEPT ![e] = @ \ old]
    /\ Done(r)
    /\ UNCHANGED <<account, sessions, issued, resets, resetBy, revoked>>

(* A statement fails or the process dies: the open transaction rolls back, *)
(* what was committed before stays.                                        *)
Fail(r) ==
    /\ ~At(r, "idle")
    /\ Done(r)
    /\ UNCHANGED <<account, unused, used, generated, sessions, issued, resets,
                   resetBy, revoked>>

-----------------------------------------------------------------------------
Proceed(r) ==
    \/ CreateAccount(r) \/ CreateRefused(r)
    \/ Upgrade(r) \/ OpenSession(r)
    \/ MarkUsed(r) \/ CodeGone(r) \/ NewKeyRefused(r)
    \/ DeleteSessions(r) \/ Reset(r)
    \/ DeleteCodes(r) \/ CommitCodes(r)

Arrive(r) ==
    \/ \E e \in Emails :
         \/ \E key \in Secrets : Register(r, e, key)
         \/ \E key, password \in Secrets \cup {None} : Login(r, e, key, password)
         \/ \E code \in Codes, key \in Secrets \cup {None} :
              Recover(r, e, code, key)
    \/ \E s \in sessions : Regenerate(r, s)

Next ==
    \/ \E r \in Requests : Arrive(r) \/ Proceed(r) \/ Fail(r)
    \/ \E s \in sessions : CloseSession(s)

Spec == Init /\ [][Next]_vars

(* The constants bound what can be handed out; a request that finds        *)
(* nothing left is not a behaviour of the code, and fails.                 *)
Exhausted == Tokens = issued \/ FreshBatches = {}

(* Every request the server works on takes its next step in the end:       *)
(* net/http runs each in a goroutine, and Postgres answers or the          *)
(* connection breaks.  A statement that waits for a row lock is woken when *)
(* the holder ends, however many transactions take the lock: SF.  Fail is  *)
(* only assumed to end what the bounds would hold up.                      *)
Fairness ==
    \A r \in Requests : /\ WF_vars(Proceed(r))
                        /\ SF_vars(MarkUsed(r) \/ Upgrade(r) \/ DeleteSessions(r))
                        /\ WF_vars(Exhausted /\ Fail(r))

FairSpec == Spec /\ Fairness

-----------------------------------------------------------------------------
(* A recovery code pays for at most one reset of its account, however many *)
(* requests present it at once and whatever fails in between: each account *)
(* was reset as often as distinct codes were spent on resets.              *)
CodesResetOnce == \A e \in Emails : Cardinality(resetBy[e]) = resets[e]

(* The verifier of an upgraded account changes only when a recovery that   *)
(* has spent a code of that account commits: no late upgrade, registration *)
(* or older recovery replaces it, and it is never a password again.        *)
KeyReplacedOnlyByRecovery ==
    [][\A e \in Emails :
          (account[e].version = 2 /\ account'[e] # account[e]) =>
              /\ account'[e].version = 2
              /\ \E r \in Requests :
                   /\ request[r].pc = "resetting" /\ request[r].email = e
                   /\ request[r].code \notin resetBy[e]
                   /\ resetBy'[e] = resetBy[e] \cup {request[r].code}]_vars

(* What a recovery revokes stays revoked: no session is in the table that  *)
(* was opened before the last completed recovery of its account deleted    *)
(* the sessions, whatever was opened, closed or rolled back meanwhile.     *)
(* (One opened between that DELETE and its commit is.)                     *)
RevokedSessionsAreGone ==
    \A s \in sessions : s.token \notin revoked[s.email]

(* A session rests on the secret its account has now: recovering an        *)
(* account shuts out whoever holds the secret it replaced.  It does not    *)
(* hold (section 4 of the README): a sign-in that was checked before the   *)
(* recovery opens its session after it, or between its DELETE and commit.  *)
SessionsProveCurrentSecret ==
    \A s \in sessions : s.proved = resets[s.email]

(* Every request is answered: no request waits forever for a row lock.     *)
RequestsAnswered == \A r \in Requests : ~At(r, "idle") ~> At(r, "idle")
=============================================================================
