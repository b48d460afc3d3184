---------------------------- MODULE VaultClient ----------------------------
(***************************************************************************)
(* Browser tabs (frontend/web/src/contexts/VaultContext.tsx) that unlock,  *)
(* edit and save one vault against the row of VaultStore.                  *)
(*                                                                         *)
(* JavaScript runs one callback at a time, so a step is what runs between  *)
(* two awaits; between them other callbacks run, the auto-lock timer among *)
(* them.  What matters is where each value is kept: the session and the    *)
(* version are refs, read when they are used, while the entries are React  *)
(* state, which an operation sees as it was when its closure was made.     *)
(***************************************************************************)
EXTENDS Naturals

CONSTANTS
    Tabs,       \* open tabs and devices
    Saves,      \* operations that can be in progress; each sends one PUT
    TabOf,      \* the tab an operation runs in
    Edits,      \* the entries users add
    Actions,    \* the operations users perform besides unlock and auto-lock
    Enrolled,   \* the passkey wrap of the stored vault at the start
    Null,       \* null
    MaxUnlocks, \* bound on the unlocks of a tab
    MaxVersion  \* bound on the versions of the row

ASSUME VaultClientAssumption ==
    /\ TabOf \in [Saves -> Tabs]
    /\ Enrolled \in {"none", "dek"}
    /\ MaxUnlocks \in Nat
    /\ MaxVersion \in Nat \ {0}

VARIABLES
    vault, save, writes, history, \* the server, see VaultStore
    tab,       \* each tab's VaultProvider
    op,        \* the operations in progress
    wiped,     \* unlocks whose DEK array lock() has zeroed
    attempted, \* edits some operation has tried to save
    acked,     \* edits whose save resolved: the user was told "Item added"
    interrupted, \* history: tabs locked while they had something in progress
    late       \* history: tabs that heard the answer to a save after a lock
               \* that fell between the save and the answer

(* An envelope: the entries its body holds, what the body is encrypted     *)
(* under, what the passkey wrap holds.  The password wrap always holds the *)
(* DEK.  "zero" stands for the bytes of a DEK array after wipe().          *)
Envelope == [entries : SUBSET Edits,
             key     : {"dek", "zero"},
             prf     : {"none", "dek", "zero"}]

Stored == [entries |-> {}, key |-> "dek", prf |-> Enrolled]

INSTANCE VaultStore WITH Blobs <- Envelope, InitialBlob <- Stored

store == <<vault, save, writes, history>>
vars == <<store, tab, op, wiped, attempted, acked, interrupted, late>>
clientVars == <<tab, op, wiped, attempted, acked, interrupted, late>>

Unlocks == 1..MaxUnlocks

(* sessionRef: the envelope and the unlock whose DEK array it shares.      *)
Session == [unlock : 0..MaxUnlocks, envelope : Envelope]
NoSession == [unlock |-> 0, envelope |-> Stored]

TabState == [locked  : BOOLEAN,
             session : Session,
             data    : (SUBSET Edits) \cup {Null},
             version : Nat,
             peek    : Envelope \cup {Null},
             peekDue : BOOLEAN,
             unlocks : 0..MaxUnlocks]

Kinds == {"add", "import", "enroll", "revoke", "unlock", "passkey"}

OpState == [kind    : Kinds,
            pc      : {"idle", "sealing", "sent", "loop", "prompt", "deriving"},
            session : Session,
            base    : SUBSET Edits,
            edit    : Edits \cup {Null},
            rest    : SUBSET Edits,
            blob    : Envelope]

NoOp == [kind |-> "add", pc |-> "idle", session |-> NoSession, base |-> {},
         edit |-> Null, rest |-> {}, blob |-> Stored]

TypeOK ==
    /\ StoreTypeOK
    /\ tab \in [Tabs -> TabState]
    /\ op \in [Saves -> OpState]
    /\ wiped \in [Tabs -> SUBSET Unlocks]
    /\ attempted \in SUBSET Edits
    /\ acked \in SUBSET Edits
    /\ interrupted \in SUBSET Tabs
    /\ late \in SUBSET Tabs

Init ==
    /\ StoreInit
    /\ tab = [t \in Tabs |-> [locked |-> TRUE, session |-> NoSession,
                              data |-> Null, version |-> 0, peek |-> Null,
                              peekDue |-> TRUE, unlocks |-> 0]]
    /\ op = [o \in Saves |-> NoOp]
    /\ wiped = [t \in Tabs |-> {}]
    /\ attempted = {}
    /\ acked = {}
    /\ interrupted = {}
    /\ late = {}

-----------------------------------------------------------------------------
Free(o) == op[o].pc = "idle" /\ save[o].pc = "idle"

(* What the DEK array of an unlock holds now. *)
Dek(t, unlock) == IF unlock \in wiped[t] THEN "zero" ELSE "dek"

HasSession(t) == tab[t].session.unlock # 0

(* vaultCrypto.saveVault on the live session: re-encrypts the body under   *)
(* the DEK array and leaves the wraps alone.                               *)
Seal(o, kind, base, e, rest) ==
    LET session == tab[TabOf[o]].session IN
    /\ op' = [op EXCEPT ![o] =
                [kind |-> kind, pc |-> "sealing", session |-> session,
                 base |-> base, edit |-> e, rest |-> rest,
                 blob |-> [session.envelope EXCEPT
                             !.entries = base \cup {e},
                             !.key = Dek(TabOf[o], session.unlock)]]]
    /\ attempted' = attempted \cup {e}
    /\ UNCHANGED <<store, tab, wiped, acked, interrupted, late>>

(* The screens offer edits only while the tab is unlocked. *)
CanEdit(o) ==
    LET t == TabOf[o] IN
    /\ Free(o)
    /\ ~tab[t].locked /\ tab[t].data # Null /\ HasSession(t)

AddEntry(o, e) ==
    /\ "add" \in Actions
    /\ CanEdit(o)
    /\ e \notin attempted
    /\ Seal(o, "add", tab[TabOf[o]].data, e, {})

(* handleImport calls one addEntry closure for every selected item. *)
Import(o, items) ==
    /\ "import" \in Actions
    /\ CanEdit(o)
    /\ items \cap attempted = {}
    /\ \E e \in items : Seal(o, "import", tab[TabOf[o]].data, e, items \ {e})

(* The next item: its closure still holds the entries of the first call,   *)
(* the session is read from the ref.                                       *)
ImportNext(o) ==
    /\ op[o].pc = "loop" /\ save[o].pc = "idle"
    /\ HasSession(TabOf[o])
    /\ \E e \in op[o].rest :
         Seal(o, "import", op[o].base, e, op[o].rest \ {e})

(* addEntry throws "Vault is locked", or there is nothing left to import.  *)
ImportEnd(o) ==
    /\ op[o].pc = "loop"
    /\ op[o].rest = {} \/ ~HasSession(TabOf[o])
    /\ op' = [op EXCEPT ![o] = NoOp]
    /\ UNCHANGED <<store, tab, wiped, attempted, acked, interrupted, late>>

(* persist: the PUT names the version the ref holds at this moment. *)
Persist(o) ==
    /\ op[o].pc = "sealing"
    /\ Receive(o, tab[TabOf[o]].version, op[o].blob)
    /\ op' = [op EXCEPT ![o].pc = "sent"]
    /\ UNCHANGED <<tab, wiped, attempted, acked, interrupted, late>>

(* The tab has been locked since the operation took the session it holds.  *)
LockedSince(o) ==
    LET t == TabOf[o] IN tab[t].locked \/ tab[t].unlocks # op[o].session.unlock

(* The PUT resolved: version ref, session ref and entries take its values, *)
(* whatever has become of the tab.                                         *)
SaveResolved(o) ==
    LET t == TabOf[o]
        edits == op[o].kind \in {"add", "import"}
    IN
    /\ op[o].pc = "sent" /\ save[o].pc = "ok"
    /\ Respond(o)
    /\ tab' = [tab EXCEPT
                 ![t].version = save[o].base + 1,
                 ![t].session = [op[o].session EXCEPT !.envelope = op[o].blob],
                 ![t].data = IF edits THEN op[o].blob.entries ELSE @]
    /\ acked' = IF edits THEN acked \cup {op[o].edit} ELSE acked
    /\ op' = [op EXCEPT ![o] = IF op[o].kind = "import"
                               THEN [@ EXCEPT !.pc = "loop"] ELSE NoOp]
    /\ late' = IF LockedSince(o) THEN late \cup {t} ELSE late
    /\ UNCHANGED <<wiped, attempted, interrupted>>

(* Mutant: a refused save refreshes the version and nothing else, so that  *)
(* the user's next try goes through.                                       *)
SaveRejectedRetry(o) ==
    /\ op[o].pc = "sent" /\ save[o].pc \in {"conflict", "error"}
    /\ Respond(o)
    /\ op' = [op EXCEPT ![o] = NoOp]
    /\ tab' = [tab EXCEPT ![TabOf[o]].version = vault.version]
    /\ UNCHANGED <<wiped, attempted, acked, interrupted, late>>

(* The PUT was refused (a conflict is a 500 like any other error). *)
SaveRejected(o) ==
    /\ op[o].pc = "sent" /\ save[o].pc \in {"conflict", "error"}
    /\ Respond(o)
    /\ op' = [op EXCEPT ![o] = NoOp]
    /\ UNCHANGED <<tab, wiped, attempted, acked, interrupted, late>>

(* The connection broke: the tab gives up on a request the server may      *)
(* still be working on, or has committed.                                  *)
SaveUnheard(o) ==
    /\ op[o].pc = "sent"
    /\ op' = [op EXCEPT ![o] = NoOp]
    /\ UNCHANGED <<store, tab, wiped, attempted, acked, interrupted, late>>

Unanswered(o) ==
    /\ op[o].pc = "idle"
    /\ Respond(o)
    /\ UNCHANGED clientVars

-----------------------------------------------------------------------------
(* The unlock screen disables itself while an unlock is loading. *)
CanUnlock(o) ==
    LET t == TabOf[o] IN
    /\ Free(o)
    /\ tab[t].locked
    /\ tab[t].unlocks < MaxUnlocks
    /\ \A p \in Saves : TabOf[p] = t => op[p].kind \notin {"unlock", "passkey"}
                                        \/ op[p].pc = "idle"

(* openSession: a fresh DEK array, the envelope's entries on screen. *)
OpenSession(o, version) ==
    LET t == TabOf[o]
        n == tab[t].unlocks + 1
    IN
    /\ tab' = [tab EXCEPT
                 ![t].locked = FALSE,
                 ![t].session = [unlock |-> n, envelope |-> op[o].blob],
                 ![t].data = op[o].blob.entries,
                 ![t].version = version,
                 ![t].peekDue = FALSE,
                 ![t].unlocks = n]
    /\ wiped' = [wiped EXCEPT ![t] = IF op[o].blob.key = "zero"
                                     THEN @ \cup {n} ELSE @]
    /\ op' = [op EXCEPT ![o] = NoOp]
    /\ UNCHANGED <<store, attempted, acked, interrupted, late>>

(* loadVault: GET /vault records the version and keeps the blob ... *)
Unlock(o) ==
    LET t == TabOf[o] IN
    /\ CanUnlock(o)
    /\ tab' = [tab EXCEPT ![t].version = vault.version]
    /\ op' = [op EXCEPT ![o] = [NoOp EXCEPT !.kind = "unlock",
                                            !.pc = "deriving",
                                            !.blob = vault.blob]]
    /\ UNCHANGED <<store, wiped, attempted, acked, interrupted, late>>

(* ... and scrypt runs before the blob is opened. *)
UnlockOpen(o) ==
    /\ op[o].pc = "deriving"
    /\ op[o].blob.key = "dek"
    /\ OpenSession(o, tab[TabOf[o]].version)

(* Wrong password, or a body the DEK does not open. *)
UnlockFailed(o) ==
    /\ op[o].pc = "deriving"
    /\ op' = [op EXCEPT ![o] = NoOp]
    /\ UNCHANGED <<store, tab, wiped, attempted, acked, interrupted, late>>

(* The lock screen's effect reads the blob, and not its version; a failed  *)
(* read leaves null.                                                       *)
Peek(t) ==
    /\ "passkey" \in Actions
    /\ tab[t].locked /\ tab[t].peekDue
    /\ \E blob \in {vault.blob, Null} :
         tab' = [tab EXCEPT ![t].peek = blob, ![t].peekDue = FALSE]
    /\ UNCHANGED <<store, op, wiped, attempted, acked, interrupted, late>>

(* unlockWithPasskey prefers the peeked blob to a fresh read. *)
UnlockWithPasskey(o) ==
    LET t == TabOf[o]
        blob == IF tab[t].peek = Null THEN vault.blob ELSE tab[t].peek
    IN
    /\ "passkey" \in Actions
    /\ CanUnlock(o)
    /\ blob.prf # "none"
    /\ tab' = [tab EXCEPT ![t].peek = blob,
                          ![t].version = IF tab[t].peek = Null
                                         THEN vault.version ELSE @]
    /\ op' = [op EXCEPT ![o] = [NoOp EXCEPT !.kind = "passkey",
                                            !.pc = "prompt", !.blob = blob]]
    /\ UNCHANGED <<store, wiped, attempted, acked, interrupted, late>>

(* The wrap opens the body, and GET /vault re-reads the version. *)
PasskeyOpen(o) ==
    /\ op[o].kind = "passkey" /\ op[o].pc = "prompt"
    /\ op[o].blob.prf = op[o].blob.key
    /\ OpenSession(o, vault.version)

(* enrollPasskeyUnlock holds the session across the passkey prompt ... *)
Enroll(o) ==
    /\ "enroll" \in Actions
    /\ CanEdit(o)
    /\ op' = [op EXCEPT ![o] = [NoOp EXCEPT !.kind = "enroll", !.pc = "prompt",
                                            !.session = tab[TabOf[o]].session]]
    /\ UNCHANGED <<store, tab, wiped, attempted, acked, interrupted, late>>

(* ... and wraps what its DEK array holds once the prompt is answered. *)
EnrollWrap(o) ==
    LET session == op[o].session IN
    /\ op[o].kind = "enroll" /\ op[o].pc = "prompt"
    /\ op' = [op EXCEPT ![o].pc = "sealing",
                        ![o].blob = [session.envelope EXCEPT
                                       !.prf = Dek(TabOf[o], session.unlock)]]
    /\ UNCHANGED <<store, tab, wiped, attempted, acked, interrupted, late>>

PromptCancelled(o) ==
    /\ op[o].pc = "prompt"
    /\ op' = [op EXCEPT ![o] = NoOp]
    /\ UNCHANGED <<store, tab, wiped, attempted, acked, interrupted, late>>

(* revokePasskeyUnlock sends the envelope without the passkey wrap. *)
Revoke(o) ==
    LET t == TabOf[o]
        blob == [tab[t].session.envelope EXCEPT !.prf = "none"]
    IN
    /\ "revoke" \in Actions
    /\ CanEdit(o)
    /\ tab[t].session.envelope.prf # "none"
    /\ Receive(o, tab[t].version, blob)
    /\ op' = [op EXCEPT ![o] = [NoOp EXCEPT !.kind = "revoke", !.pc = "sent",
                                            !.session = tab[t].session,
                                            !.blob = blob]]
    /\ UNCHANGED <<tab, wiped, attempted, acked, interrupted, late>>

Busy(t) == \E o \in Saves : TabOf[o] = t /\ op[o].pc # "idle"

(* Mutant: the DEK array is wiped and the session ref is kept. *)
LockWipesOnly(t) ==
    /\ ~tab[t].locked
    /\ wiped' = [wiped EXCEPT ![t] = @ \cup ({tab[t].session.unlock} \ {0})]
    /\ UNCHANGED <<store, tab, op, attempted, acked, interrupted, late>>

(* Mutant: the decrypted entries stay on the locked page. *)
LockKeepsEntries(t) ==
    /\ ~tab[t].locked
    /\ wiped' = [wiped EXCEPT ![t] = @ \cup ({tab[t].session.unlock} \ {0})]
    /\ tab' = [tab EXCEPT ![t].session = NoSession,
                          ![t].locked = TRUE, ![t].peekDue = TRUE]
    /\ interrupted' = IF Busy(t) THEN interrupted \cup {t} ELSE interrupted
    /\ UNCHANGED <<store, op, attempted, acked, late>>

(* The auto-lock timer wipes the DEK array and drops session and entries.  *)
Lock(t) ==
    /\ ~tab[t].locked
    /\ wiped' = [wiped EXCEPT ![t] = @ \cup ({tab[t].session.unlock} \ {0})]
    /\ tab' = [tab EXCEPT ![t].session = NoSession, ![t].data = Null,
                          ![t].locked = TRUE, ![t].peekDue = TRUE]
    /\ interrupted' = IF Busy(t) THEN interrupted \cup {t} ELSE interrupted
    /\ UNCHANGED <<store, op, attempted, acked, late>>

-----------------------------------------------------------------------------
ServerStep(o) == HandleSave(o) /\ UNCHANGED clientVars

Operate(o) ==
    \/ \E e \in Edits : AddEntry(o, e)
    \/ \E items \in SUBSET Edits : Import(o, items)
    \/ ImportNext(o) \/ ImportEnd(o)
    \/ Persist(o) \/ SaveResolved(o) \/ SaveRejected(o) \/ SaveUnheard(o)
    \/ Unanswered(o)
    \/ Unlock(o) \/ UnlockOpen(o) \/ UnlockFailed(o)
    \/ UnlockWithPasskey(o) \/ PasskeyOpen(o)
    \/ Enroll(o) \/ EnrollWrap(o) \/ PromptCancelled(o)
    \/ Revoke(o)

Next ==
    \/ \E o \in Saves : Operate(o) \/ ServerStep(o)
    \/ \E t \in Tabs : Lock(t) \/ Peek(t)

Spec == Init /\ [][Next]_vars

-----------------------------------------------------------------------------
(* As long as UpdateVault never overlaps another write, no save takes out  *)
(* of the stored vault what another tab had put there: a tab that missed a *)
(* save is refused until it has unlocked again and read it.                *)
SerialSavesKeepEntries ==
    [][history' = "serial" => vault.blob.entries \subseteq vault'.blob.entries]_vars

(* As long as saves do not overlap, a tab that knows the version of the    *)
(* row shows what the row holds: late answers, refused and unheard saves   *)
(* never leave it with the version of entries it has not got.              *)
CurrentTabShowsStoredVault ==
    history = "serial" =>
        \A t \in Tabs :
            (~tab[t].locked /\ tab[t].version = vault.version)
                => tab[t].data = vault.blob.entries

(* An edit the user was told is saved is in the stored vault.  It does not *)
(* hold (section 4 of the README): an import keeps its last item only.     *)
AcknowledgedEditsStored == acked \subseteq vault.blob.entries

(* A tab on which edits are offered holds a live DEK: what it seals can be *)
(* opened again.                                                           *)
OpenTabHoldsLiveKey ==
    \A t \in Tabs : ~tab[t].locked =>
        /\ HasSession(t)
        /\ tab[t].session.unlock \notin wiped[t]

(* The stored body is encrypted under the DEK that every unlock factor of  *)
(* the envelope holds.                                                     *)
VaultStaysReadable == vault.blob.key = "dek"

(* The passkey wrap of the stored vault holds the DEK. *)
EnrolledPasskeyOpensVault == vault.blob.prf # "zero"

(* Locking clears the session and the decrypted entries. *)
LockedTabHoldsNothing ==
    \A t \in Tabs : tab[t].locked => ~HasSession(t) /\ tab[t].data = Null

(* Locks that come between operations, and not in the middle of one, do no *)
(* harm: the body and every wrap of the stored vault hold the DEK, a locked*)
(* tab holds neither session nor entries, an open one holds a live DEK.    *)
QuietLocksAreHarmless ==
    interrupted = {} =>
        /\ VaultStaysReadable
        /\ EnrolledPasskeyOpensVault
        /\ LockedTabHoldsNothing
        /\ OpenTabHoldsLiveKey

(* Locks may fall anywhere, in the middle of a save, an import, an unlock  *)
(* or a prompt: as long as no tab hears the answer to a save after a lock  *)
(* that fell between the two (saveVault takes its session back then, asking*)
(* nobody), the body of the stored vault holds the DEK, locked tabs hold   *)
(* nothing and open ones a live DEK.                                       *)
OnlyLateAnswersHarm ==
    late = {} =>
        /\ VaultStaysReadable
        /\ LockedTabHoldsNothing
        /\ OpenTabHoldsLiveKey
=============================================================================
