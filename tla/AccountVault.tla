---------------------------- MODULE AccountVault ----------------------------
(***************************************************************************)
(* One account of Accounts together with its row of VaultStore.  They meet *)
(* twice: the transaction of RecoverAccount writes the row, and PUT /vault *)
(* is served for whoever holds a session when AuthMiddleware looks, which  *)
(* is before UpdateVault starts and is not looked at again.                *)
(*                                                                         *)
(* A stored vault stands for the secret that opens it.  The web client     *)
(* derives the auth key and the vault key from one master password.        *)
(***************************************************************************)
EXTENDS Accounts

CONSTANTS
    Saves,         \* clients that have the vault open, one PUT each at a time
    InitialSecret, \* the master password of the account at the start
    MaxVersion     \* bound on the versions of the row

ASSUME AccountVaultAssumption ==
    /\ \E e \in Emails : Emails = {e}
    /\ InitialSecret \in Secrets
    /\ MaxVersion \in Nat \ {0}
    /\ None \notin Session

VARIABLES
    vault, save, writes, history, \* the row, see VaultStore
    client                        \* what each client read with GET /vault

INSTANCE VaultStore WITH Blobs <- Secrets, InitialBlob <- InitialSecret

store == <<vault, save, writes, history>>
allVars == <<vars, store, client>>

(* The sessions a client can hold, the secret it opened the vault with and *)
(* the version it will name in its next PUT.                               *)
Client == [session : Session \cup {None}, secret : Secrets, version : Nat]
Away == [session |-> None, secret |-> InitialSecret, version |-> 0]

AccountVaultTypeOK ==
    /\ TypeOK
    /\ StoreTypeOK
    /\ client \in [Saves -> Client]

AccountVaultInit ==
    /\ Init
    /\ account = [e \in Emails |-> [version |-> 1, secret |-> InitialSecret]]
    /\ StoreInit
    /\ client = [c \in Saves |-> Away]

(* Whoever has a session gets the blob; the secret that seals it opens it. *)
OpenVault(c, s) ==
    /\ client[c].session = None /\ save[c].pc = "idle"
    /\ s \in sessions
    /\ client' = [client EXCEPT ![c] = [session |-> s,
                                        secret  |-> vault.blob,
                                        version |-> vault.version]]
    /\ UNCHANGED <<vars, store>>

CloseVault(c) ==
    /\ client[c].session # None
    /\ client' = [client EXCEPT ![c] = Away]
    /\ UNCHANGED <<vars, store>>

(* PUT /vault: AuthMiddleware finds the session, the handler the body. *)
SendSave(c) ==
    /\ client[c].session \in sessions
    /\ Receive(c, client[c].version, client[c].secret)
    /\ UNCHANGED <<vars, client>>

(* The UPDATE waits for a recovery that has written the row. *)
ServeSave(c) ==
    /\ \/ CheckVersion(c)
       \/ (\A e \in Emails : ~Resetting(e)) /\ WriteRow(c)
       \/ SaveError(c)
    /\ UNCHANGED <<vars, client>>

(* The client takes over the new version if it is still there to hear it.  *)
SaveAnswered(c) ==
    /\ Respond(c)
    /\ client' = IF save[c].pc = "ok" /\ client[c].session # None
                 THEN [client EXCEPT ![c].version = save[c].base + 1]
                 ELSE client
    /\ UNCHANGED vars

(* The vault statement of RecoverAccount is part of its transaction. *)
ResetWithVault(r) ==
    /\ Reset(r)
    /\ RecoverRow(request[r].key)
    /\ UNCHANGED client

(* Sign-in and recovery, as the web client sends them. *)
ArriveFromClient(r) ==
    \E e \in Emails :
        \/ \E p \in Secrets : \/ Login(r, e, p, None)
                              \/ Login(r, e, None, p)
                              \/ Login(r, e, p, p)
        \/ \E code \in Codes, key \in Secrets \cup {None} :
             Recover(r, e, code, key)

AccountStep ==
    /\ \/ \E r \in Requests :
            \/ ArriveFromClient(r)
            \/ Upgrade(r) \/ OpenSession(r)
            \/ MarkUsed(r) \/ CodeGone(r) \/ NewKeyRefused(r)
            \/ DeleteSessions(r)
            \/ Fail(r)
       \/ \E s \in sessions : CloseSession(s)
    /\ UNCHANGED <<store, client>>

AccountVaultNext ==
    \/ AccountStep
    \/ \E r \in Requests : ResetWithVault(r)
    \/ \E c \in Saves :
         \/ \E s \in sessions : OpenVault(c, s)
         \/ CloseVault(c)
         \/ SendSave(c) \/ ServeSave(c) \/ SaveAnswered(c)

AccountVaultSpec == AccountVaultInit /\ [][AccountVaultNext]_allVars

-----------------------------------------------------------------------------
(* Unless a save overlapped another write, the stored vault opens with the *)
(* secret that signs in: neither a client that opened the vault before a   *)
(* recovery nor one that opened it after can put the old seal back.        *)
SerialVaultOpensWithSecret ==
    history = "serial" => \A e \in Emails : account[e].secret = vault.blob
=============================================================================
