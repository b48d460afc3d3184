----------------------------- MODULE VaultStore -----------------------------
(***************************************************************************)
(* One user's row of the vaults table and the handlers that write it:      *)
(* vault.Service.UpdateVault (any number of PUT /vault requests at once,   *)
(* on any replica) and the vault statement of AuthService.RecoverAccount.  *)
(*                                                                         *)
(* UpdateVault runs in a transaction at Postgres' default level, READ      *)
(* COMMITTED: its SELECT takes no lock and its UPDATE has no version       *)
(* predicate, so the two statements are two steps here.  The UPDATE and    *)
(* the COMMIT are one step: until the commit no other session sees the     *)
(* new row, and another writer of the row waits for it.                    *)
(***************************************************************************)
EXTENDS Integers

CONSTANTS
    Saves,       \* the PUT /vault requests that can be in progress at once
    Blobs,       \* the encrypted vaults clients send
    InitialBlob, \* the vault stored at registration
    MaxVersion   \* bound on the versions clients name and on the row's

ASSUME VaultStoreAssumption ==
    /\ InitialBlob \in Blobs
    /\ MaxVersion \in Nat \ {0}

VARIABLES
    vault,     \* the row: its version and its encrypted_data
    save,      \* each request: where UpdateVault is, and its arguments
    writes,    \* history: how many times the row has been written
    history    \* history: "overlapped" once a save committed over a row it
               \* had not read, "serial" until then

storeVars == <<vault, save, writes, history>>

Versions == 0..MaxVersion

(* A request is free, decoded, past the version check, or answered. *)
NoSave == [pc |-> "idle", base |-> 0, blob |-> InitialBlob, seen |-> 0]
Answered == {"ok", "conflict", "error"}
SaveState == [pc   : {"idle", "received", "checked"} \cup Answered,
              base : Versions,
              blob : Blobs,
              seen : Nat]

StoreTypeOK ==
    /\ vault \in [version : Nat, blob : Blobs]
    /\ save \in [Saves -> SaveState]
    /\ writes \in Nat
    /\ history \in {"serial", "overlapped"}

(* createInitialVault stores version 1. *)
StoreInit ==
    /\ vault = [version |-> 1, blob |-> InitialBlob]
    /\ save = [s \in Saves |-> NoSave]
    /\ writes = 0
    /\ history = "serial"

Answer(s, pc) == save' = [save EXCEPT ![s].pc = pc]

(* The handler decodes a PUT: any version from 0 up, any non-empty blob. *)
Receive(s, base, blob) ==
    /\ save[s].pc = "idle"
    /\ save' = [save EXCEPT ![s] = [pc |-> "received", base |-> base,
                                    blob |-> blob, seen |-> 0]]
    /\ UNCHANGED <<vault, writes, history>>

(* Mutant: a row written since the client read it passes the check, as     *)
(* long as it is newer.                                                    *)
CheckVersionLax(s) ==
    /\ save[s].pc = "received"
    /\ save' = [save EXCEPT ![s].pc = IF vault.version >= save[s].base
                                      THEN "checked" ELSE "conflict",
                            ![s].seen = writes]
    /\ UNCHANGED <<vault, writes, history>>

(* Mutant: the check lets a version through that is one ahead of the row.  *)
CheckVersionAhead(s) ==
    /\ save[s].pc = "received"
    /\ save' = [save EXCEPT ![s].pc = IF save[s].base <= vault.version + 1
                                      THEN "checked" ELSE "conflict",
                            ![s].seen = writes]
    /\ UNCHANGED <<vault, writes, history>>

(* SELECT id, version and the comparison with the caller's version. *)
CheckVersion(s) ==
    /\ save[s].pc = "received"
    /\ save' = [save EXCEPT ![s].pc = IF vault.version = save[s].base
                                      THEN "checked" ELSE "conflict",
                            ![s].seen = writes]
    /\ UNCHANGED <<vault, writes, history>>

(* UPDATE vaults SET encrypted_data, version = base + 1 WHERE user_id. *)
WriteRow(s) ==
    /\ save[s].pc = "checked"
    /\ save[s].base < MaxVersion
    /\ vault' = [version |-> save[s].base + 1, blob |-> save[s].blob]
    /\ Answer(s, "ok")
    /\ writes' = writes + 1
    /\ history' = IF save[s].seen = writes THEN history ELSE "overlapped"

(* Any statement of the transaction, or its commit, can fail. *)
SaveError(s) ==
    /\ save[s].pc \in {"received", "checked"}
    /\ Answer(s, "error")
    /\ UNCHANGED <<vault, writes, history>>

(* The answer leaves the handler. *)
Respond(s) ==
    /\ save[s].pc \in Answered
    /\ save' = [save EXCEPT ![s] = NoSave]
    /\ UNCHANGED <<vault, writes, history>>

(* Mutant: the version stays. *)
RecoverRowInPlace(blob) ==
    /\ vault' = [vault EXCEPT !.blob = blob]
    /\ writes' = writes + 1
    /\ UNCHANGED <<save, history>>

(* RecoverAccount: SET encrypted_data, version = version + 1. *)
RecoverRow(blob) ==
    /\ vault.version < MaxVersion
    /\ vault' = [version |-> vault.version + 1, blob |-> blob]
    /\ writes' = writes + 1
    /\ UNCHANGED <<save, history>>

HandleSave(s) == CheckVersion(s) \/ WriteRow(s) \/ SaveError(s)

StoreNext ==
    \/ \E s \in Saves :
        \/ \E base \in Versions, blob \in Blobs : Receive(s, base, blob)
        \/ HandleSave(s)
        \/ Respond(s)
    \/ \E blob \in Blobs : RecoverRow(blob)

StoreSpec == StoreInit /\ [][StoreNext]_storeVars

-----------------------------------------------------------------------------
(* The version never runs ahead of the writes that happened: whatever the  *)
(* interleaving of PUT /vault and recovery, a version names at most as     *)
(* many writes as there were (UpdateVault counts from the version it read, *)
(* RecoverAccount from the row).                                           *)
VersionWithinWrites == vault.version <= writes + 1

(* As long as no save committed over a row it had not read, versions count *)
(* writes exactly: optimistic concurrency control works for requests that  *)
(* do not overlap, whoever sends them and whatever version they name.      *)
VersionCountsWrites == history = "serial" => vault.version = writes + 1

(* A save replaces exactly the version it names, unless the row was        *)
(* written between its own check and its own UPDATE: what other saves did  *)
(* before, overlapping or not, does not matter.                            *)
UnopposedSaveIsCompareAndSwap ==
    [][\A s \in Saves :
          (save[s].pc = "checked" /\ save'[s].pc = "ok" /\ save[s].seen = writes)
              => /\ save[s].base = vault.version
                 /\ vault'.version = vault.version + 1]_storeVars

(* What the comments of UpdateVault promise ("optimistic concurrency       *)
(* control", "conflict detection"): an accepted save replaces the version  *)
(* it was based on, so no concurrent save is overwritten unseen.  It does  *)
(* not hold (section 4 of the README): check and write are two statements. *)
NoLostUpdate ==
    [][\A s \in Saves :
          (save[s].pc = "checked" /\ save'[s].pc = "ok")
              => save[s].base = vault.version]_storeVars
=============================================================================
