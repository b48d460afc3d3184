------------------------- MODULE VaultClientProofs -------------------------
(***************************************************************************)
(* The web client, for any tabs, operations, edits and bounds.             *)
(*                                                                         *)
(* One inductive invariant, ClientInv, says of the row, of each tab and of *)
(* each operation what holds always; what holds while no tab was locked in *)
(* the middle of an operation, or can hold anyway because a tab has one    *)
(* operation at a time (Harmless); and what versions tell until two writes *)
(* overlap (Plain).  Nearly every step is one tab's: it is enough to look  *)
(* at that tab and at what is in progress in it (StepInTab).               *)
(*                                                                         *)
(* OneOperationPerTab and the operations some theorems exclude are not     *)
(* wishes: section 4 of the README shows what goes wrong without them.     *)
(***************************************************************************)
EXTENDS VaultClient, TLAPS

(* A tab runs one operation at a time. *)
OneOperationPerTab ==
    \A o, p \in Saves : TabOf[o] = TabOf[p] => o = p

(* An operation that opens the tab it runs in, and one that works with the *)
(* session of a tab that was open.                                         *)
Unlocking(o) ==
    op[o].pc = "deriving" \/ (op[o].pc = "prompt" /\ op[o].kind = "passkey")
Editing(o) ==
    \/ op[o].pc \in {"sealing", "sent", "loop"}
    \/ op[o].pc = "prompt" /\ op[o].kind = "enroll"

(* When no DEK that was wiped is sealed with: no tab was locked in the     *)
(* middle of an operation, or each has one at a time and none imports.     *)
Harmless ==
    interrupted = {} \/ (OneOperationPerTab /\ "import" \notin Actions)

(* When versions tell what a tab has: each has one operation at a time,    *)
(* none imports or opens a peeked vault, and no two writes have overlapped.*)
Plain ==
    /\ OneOperationPerTab /\ "import" \notin Actions /\ "passkey" \notin Actions
    /\ history = "serial"

RowInv ==
    /\ vault.version <= MaxVersion
    /\ Harmless => vault.blob.key = "dek"
    /\ interrupted = {} => vault.blob.prf # "zero"
    /\ Plain => vault.version = writes + 1

(* A session is of an unlock there has been. *)
TabKnown(t) ==
    /\ tab[t].version <= MaxVersion
    /\ tab[t].session.unlock <= tab[t].unlocks
    /\ \A n \in wiped[t] : n <= tab[t].unlocks
    /\ ~tab[t].locked => HasSession(t)

TabLive(t) ==
    /\ ~tab[t].locked => tab[t].session.unlock \notin wiped[t]
    /\ tab[t].session.envelope.key = "dek"
    /\ tab[t].peek # Null => tab[t].peek.key = "dek"

TabQuiet(t) ==
    /\ tab[t].locked => ~HasSession(t) /\ tab[t].data = Null
    /\ tab[t].session.envelope.prf # "zero"
    /\ tab[t].peek # Null => tab[t].peek.prf # "zero"

(* Who has the version of the row has its entries. *)
TabFollows(t) ==
    /\ tab[t].version <= vault.version
    /\ ~tab[t].locked =>
         /\ tab[t].data = tab[t].session.envelope.entries
         /\ tab[t].version = vault.version => tab[t].data = vault.blob.entries

TabInv(t) ==
    /\ TabKnown(t)
    /\ Harmless => TabLive(t)
    /\ interrupted = {} => TabQuiet(t)
    /\ Plain => TabFollows(t)

(* What an operation is when it is somewhere. *)
OperationKnown(o) ==
    /\ op[o].pc = "sealing" => op[o].kind \in {"add", "import", "enroll"}
    /\ op[o].pc = "sent" =>
         /\ op[o].kind \in {"add", "import", "enroll", "revoke"}
         /\ save[o].pc # "idle" /\ save[o].blob = op[o].blob
    /\ (op[o].pc \in {"sealing", "sent"} /\ op[o].kind \in {"add", "import"}) =>
         op[o].edit \in Edits
    /\ op[o].pc = "loop" => op[o].kind = "import"
    /\ op[o].pc = "prompt" => op[o].kind \in {"enroll", "passkey"}
    /\ op[o].pc = "deriving" => op[o].kind = "unlock"
    /\ op[o].kind = "import" => "import" \in Actions
    /\ op[o].kind = "passkey" => "passkey" \in Actions
    /\ Unlocking(o) =>
         tab[TabOf[o]].locked /\ tab[TabOf[o]].unlocks < MaxUnlocks
    /\ op[o].session.unlock <= tab[TabOf[o]].unlocks
    /\ Editing(o) => op[o].session.unlock # 0
    /\ save[o].pc = "ok" => save[o].base < MaxVersion

OperationLive(o) ==
    /\ save[o].blob.key = "dek" /\ op[o].blob.key = "dek"
    /\ op[o].session.envelope.key = "dek"
    /\ Editing(o) /\ ~tab[TabOf[o]].locked =>
         op[o].session.unlock = tab[TabOf[o]].session.unlock

OperationQuiet(o) ==
    /\ save[o].blob.prf # "zero" /\ op[o].blob.prf # "zero"
    /\ op[o].session.envelope.prf # "zero"
    /\ Editing(o) => ~tab[TabOf[o]].locked

(* What it sends, if it names the version of the row, has the row's        *)
(* entries; what does not change them shows them.                          *)
OperationFollows(o) ==
    /\ (op[o].kind \in {"enroll", "revoke"} /\ ~tab[TabOf[o]].locked) =>
         /\ op[o].pc = "prompt" =>
              tab[TabOf[o]].data = op[o].session.envelope.entries
         /\ op[o].pc \in {"sealing", "sent"} =>
              tab[TabOf[o]].data = op[o].blob.entries
    /\ tab[TabOf[o]].version = vault.version =>
         /\ op[o].pc = "deriving" => op[o].blob.entries = vault.blob.entries
         /\ op[o].pc = "sealing" => vault.blob.entries \subseteq op[o].blob.entries
         /\ op[o].pc = "prompt" =>
              vault.blob.entries \subseteq op[o].session.envelope.entries

SaveFollows(o) ==
    /\ save[o].pc = "received" =>
         /\ save[o].base <= vault.version
         /\ save[o].base = vault.version =>
              vault.blob.entries \subseteq save[o].blob.entries
    /\ save[o].pc = "checked" =>
         /\ save[o].seen <= writes /\ save[o].base = save[o].seen + 1
         /\ save[o].seen = writes =>
              vault.blob.entries \subseteq save[o].blob.entries
    /\ save[o].pc = "ok" =>
         /\ save[o].base + 1 <= vault.version
         /\ save[o].base + 1 = vault.version =>
              save[o].blob.entries = vault.blob.entries

OperationInv(o) ==
    /\ OperationKnown(o)
    /\ Harmless => OperationLive(o)
    /\ interrupted = {} => OperationQuiet(o)
    /\ Plain => OperationFollows(o) /\ SaveFollows(o)

(* One unlock at a time opens a tab. *)
UnlocksAlone ==
    \A o, p \in Saves :
        (Unlocking(o) /\ Unlocking(p) /\ TabOf[o] = TabOf[p]) => o = p

ClientInv ==
    /\ TypeOK /\ RowInv /\ UnlocksAlone
    /\ \A t \in Tabs : TabInv(t)
    /\ \A o \in Saves : OperationInv(o)

-----------------------------------------------------------------------------
LEMMA StoredIsReadable ==
    /\ Stored \in Envelope /\ Stored.key = "dek" /\ Stored.prf # "zero"
    /\ NoSave \in SaveState /\ NoOp \in OpState /\ NoSession \in Session
    /\ NoSave.pc = "idle" /\ NoSave.blob = Stored
    /\ NoOp.kind = "add" /\ NoOp.pc = "idle" /\ NoOp.session = NoSession
    /\ NoOp.blob = Stored
    /\ NoSession.unlock = 0 /\ NoSession.envelope = Stored
BY VaultClientAssumption
   DEF Stored, Envelope, NoSave, SaveState, Versions, Answered, NoOp, OpState,
       NoSession, Session, Kinds

LEMMA ClientInitInv == Init => ClientInv
<1> SUFFICES ASSUME Init PROVE ClientInv
  OBVIOUS
<1> USE DEF Init, StoreInit
<1>1. \A o \in Saves : op[o] = NoOp /\ save[o] = NoSave /\ TabOf[o] \in Tabs
  BY VaultClientAssumption
<1>2. \A t \in Tabs : /\ tab[t] = [locked |-> TRUE, session |-> NoSession,
                                   data |-> Null, version |-> 0, peek |-> Null,
                                   peekDue |-> TRUE, unlocks |-> 0]
                      /\ wiped[t] = {}
  OBVIOUS
<1>3. vault = [version |-> 1, blob |-> Stored] /\ writes = 0
  OBVIOUS
<1>4. TypeOK
  <2>1. StoreTypeOK
    BY StoredIsReadable DEF StoreTypeOK
  <2>2. tab \in [Tabs -> TabState]
    <3> DEFINE start == [locked |-> TRUE, session |-> NoSession, data |-> Null,
                         version |-> 0, peek |-> Null, peekDue |-> TRUE,
                         unlocks |-> 0]
    <3>1. 0 \in 0 .. MaxUnlocks
      BY VaultClientAssumption
    <3>2. start \in TabState
      BY <3>1, StoredIsReadable DEF TabState
    <3> QED
      BY <3>2
  <2>3. /\ op \in [Saves -> OpState] /\ wiped \in [Tabs -> SUBSET Unlocks]
        /\ attempted \in SUBSET Edits /\ acked \in SUBSET Edits
        /\ interrupted \in SUBSET Tabs /\ late \in SUBSET Tabs
    BY StoredIsReadable
  <2> QED
    BY <2>1, <2>2, <2>3 DEF TypeOK
<1>5. RowInv
  BY <1>3, StoredIsReadable, VaultClientAssumption DEF RowInv
<1>6. ASSUME NEW t \in Tabs PROVE TabInv(t)
  <2>1. /\ tab[t].locked /\ tab[t].session = NoSession /\ tab[t].data = Null
        /\ tab[t].version = 0 /\ tab[t].peek = Null /\ tab[t].unlocks = 0
        /\ wiped[t] = {}
    BY <1>2
  <2> QED
    BY <1>3, <2>1, StoredIsReadable, VaultClientAssumption
       DEF TabInv, TabKnown, TabLive, TabQuiet, TabFollows, HasSession
<1>7. \A o \in Saves : ~Unlocking(o) /\ ~Editing(o)
  BY <1>1, StoredIsReadable DEF Unlocking, Editing
<1>8. \A o \in Saves : OperationInv(o)
  BY <1>1, <1>2, <1>7, StoredIsReadable
     DEF OperationInv, OperationKnown, OperationLive, OperationQuiet,
         OperationFollows, SaveFollows
<1> QED
  BY <1>4, <1>5, <1>6, <1>7, <1>8 DEF ClientInv, UnlocksAlone

(* A step in one tab that leaves the row alone: what matters is the tab    *)
(* and what is in progress in it.                                          *)
LEMMA StepInTab ==
    ASSUME ClientInv, TypeOK', NEW t \in Tabs,
           UNCHANGED <<vault, writes, history>>, interrupted \subseteq interrupted',
           \A u \in Tabs \ {t} : tab'[u] = tab[u] /\ wiped'[u] = wiped[u],
           \A p \in Saves : TabOf[p] # t => op'[p] = op[p] /\ save'[p] = save[p],
           TabInv(t)',
           \A p \in Saves : TabOf[p] = t => OperationInv(p)',
           \A p \in Saves : (Unlocking(p)' /\ TabOf[p] = t) =>
               \A q \in Saves : (Unlocking(q)' /\ TabOf[q] = t) => p = q
    PROVE  ClientInv'
<1>1. (Harmless' => Harmless) /\ (Plain' => Plain)
      /\ (interrupted' = {} => interrupted = {})
  BY DEF Harmless, Plain
<1>2. RowInv'
  BY <1>1 DEF ClientInv, RowInv
<1>3. ASSUME NEW u \in Tabs \ {t} PROVE TabInv(u)'
  <2>1. tab'[u] = tab[u] /\ wiped'[u] = wiped[u] /\ TabInv(u)
    BY DEF ClientInv
  <2> QED
    BY <1>1, <2>1 DEF TabInv, TabKnown, TabLive, TabQuiet, TabFollows, HasSession
<1>4. ASSUME NEW p \in Saves, TabOf[p] # t
      PROVE  /\ OperationInv(p)' /\ (Unlocking(p)' <=> Unlocking(p))
  <2>1. /\ tab'[TabOf[p]] = tab[TabOf[p]] /\ OperationInv(p)
        /\ op'[p] = op[p] /\ save'[p] = save[p]
    BY <1>4, VaultClientAssumption DEF ClientInv
  <2>2. (Unlocking(p)' <=> Unlocking(p)) /\ (Editing(p)' <=> Editing(p))
    BY <2>1 DEF Unlocking, Editing
  <2> QED
    BY <1>1, <2>1, <2>2
       DEF OperationInv, OperationKnown, OperationLive, OperationQuiet,
           OperationFollows, SaveFollows
<1>5. UnlocksAlone'
  BY <1>4 DEF ClientInv, UnlocksAlone
<1> QED
  BY <1>2, <1>3, <1>4, <1>5 DEF ClientInv

(* Such a step of one operation. *)
LEMMA StepAtTab ==
    ASSUME ClientInv, NEW t \in Tabs, NEW o \in Saves, TabOf[o] = t,
           NEW newTab \in TabState, tab' = [tab EXCEPT ![t] = newTab],
           NEW newWiped \in SUBSET Unlocks, wiped' = [wiped EXCEPT ![t] = newWiped],
           NEW newOp \in OpState, op' = [op EXCEPT ![o] = newOp],
           NEW newSave \in SaveState, save' = [save EXCEPT ![o] = newSave],
           UNCHANGED <<vault, writes, history, interrupted>>,
           UNCHANGED late \/ late' \in SUBSET Tabs,
           attempted' \in SUBSET Edits, acked' \in SUBSET Edits,
           TabInv(t)',
           \A p \in Saves : TabOf[p] = t => OperationInv(p)',
           \A p \in Saves : (Unlocking(p)' /\ TabOf[p] = t) =>
               \A q \in Saves : (Unlocking(q)' /\ TabOf[q] = t) => p = q
    PROVE  ClientInv'
<1>1. TypeOK'
  BY DEF ClientInv, TypeOK, StoreTypeOK
<1>2. /\ \A u \in Tabs \ {t} : tab'[u] = tab[u] /\ wiped'[u] = wiped[u]
      /\ \A p \in Saves : TabOf[p] # t => op'[p] = op[p] /\ save'[p] = save[p]
  BY DEF ClientInv, TypeOK, StoreTypeOK
<1> QED
  BY <1>1, <1>2, StepInTab

(* A step of one operation that leaves row and tab alone. *)
LEMMA StepOfOperation ==
    ASSUME ClientInv, NEW o \in Saves,
           NEW newOp \in OpState, op' = [op EXCEPT ![o] = newOp],
           NEW newSave \in SaveState, save' = [save EXCEPT ![o] = newSave],
           UNCHANGED <<vault, writes, history, tab, wiped, interrupted, late>>,
           attempted' \in SUBSET Edits, acked' \in SUBSET Edits,
           OperationInv(o)', Unlocking(o)' => Unlocking(o)
    PROVE  ClientInv'
<1> DEFINE t == TabOf[o]
<1>1. t \in Tabs
  BY VaultClientAssumption
<1>2. /\ tab[t] \in TabState /\ tab' = [tab EXCEPT ![t] = tab[t]]
      /\ wiped[t] \in SUBSET Unlocks /\ wiped' = [wiped EXCEPT ![t] = wiped[t]]
  BY <1>1 DEF ClientInv, TypeOK
<1>3. Harmless' = Harmless /\ Plain' = Plain /\ interrupted' \in SUBSET Tabs
  BY DEF ClientInv, TypeOK, Harmless, Plain
<1>4. TabInv(t)'
  BY <1>1, <1>3 DEF ClientInv, TabInv, TabKnown, TabLive, TabQuiet, TabFollows,
                    HasSession
<1>5. ASSUME NEW p \in Saves, p # o
      PROVE  OperationInv(p)' /\ (Unlocking(p)' <=> Unlocking(p))
  <2>1. op'[p] = op[p] /\ save'[p] = save[p] /\ OperationInv(p)
    BY <1>5 DEF ClientInv, TypeOK, StoreTypeOK
  <2>2. (Unlocking(p)' <=> Unlocking(p)) /\ (Editing(p)' <=> Editing(p))
    BY <2>1 DEF Unlocking, Editing
  <2> QED
    BY <1>3, <2>1, <2>2
       DEF OperationInv, OperationKnown, OperationLive, OperationQuiet,
           OperationFollows, SaveFollows
<1>6. \A p \in Saves : (Unlocking(p)' /\ TabOf[p] = t) =>
               \A q \in Saves : (Unlocking(q)' /\ TabOf[q] = t) => p = q
  BY <1>5 DEF ClientInv, UnlocksAlone
<1> HIDE DEF t
<1>7. TabOf[o] = t
  BY DEF t
<1> QED
  BY <1>1, <1>2, <1>3, <1>4, <1>5, <1>6, <1>7, StepAtTab

-----------------------------------------------------------------------------
LEMMA AroundOperation ==
    ASSUME ClientInv, NEW o \in Saves
    PROVE  /\ TabOf[o] \in Tabs
           /\ op[o] \in OpState /\ save[o] \in SaveState
           /\ tab[TabOf[o]] \in TabState /\ wiped[TabOf[o]] \in SUBSET Unlocks
           /\ vault \in [version : Nat, blob : Envelope] /\ writes \in Nat
           /\ attempted \in SUBSET Edits /\ acked \in SUBSET Edits
           /\ interrupted \in SUBSET Tabs
           /\ RowInv /\ TabInv(TabOf[o]) /\ OperationInv(o)
BY VaultClientAssumption DEF ClientInv, TypeOK, StoreTypeOK

(* An operation is over; its request is answered or goes on by itself.     *)
LEMMA DropStep ==
    ASSUME ClientInv, NEW o \in Saves, op' = [op EXCEPT ![o] = NoOp],
           NEW newSave \in {save[o], NoSave}, save' = [save EXCEPT ![o] = newSave],
           UNCHANGED <<vault, writes, history, tab, wiped, interrupted,
                       attempted, acked, late>>
    PROVE  ClientInv'
<1>1. /\ save[o] \in SaveState /\ OperationInv(o)
      /\ attempted \in SUBSET Edits /\ acked \in SUBSET Edits
      /\ tab[TabOf[o]] \in TabState
  BY AroundOperation
<1>2. op'[o] = NoOp /\ save'[o] = newSave
  BY DEF ClientInv, TypeOK, StoreTypeOK
<1>3. ~Unlocking(o)' /\ ~Editing(o)'
  BY <1>2, StoredIsReadable DEF Unlocking, Editing
<1>4. Harmless' = Harmless /\ Plain' = Plain
  BY DEF Harmless, Plain
<1>5. OperationKnown(o)'
  BY <1>1, <1>2, <1>3, StoredIsReadable
     DEF OperationInv, OperationKnown, TabState
<1>6. Harmless' => OperationLive(o)'
  BY <1>1, <1>2, <1>3, <1>4, StoredIsReadable DEF OperationInv, OperationLive
<1>7. interrupted' = {} => OperationQuiet(o)'
  BY <1>1, <1>2, <1>3, StoredIsReadable DEF OperationInv, OperationQuiet
<1>8. Plain' => OperationFollows(o)' /\ SaveFollows(o)'
  BY <1>1, <1>2, <1>4, StoredIsReadable
     DEF OperationInv, OperationFollows, SaveFollows
<1>9. OperationInv(o)'
  BY <1>5, <1>6, <1>7, <1>8 DEF OperationInv
<1> QED
  BY <1>1, <1>3, <1>9, StoredIsReadable, StepOfOperation

LEMMA DropSteps ==
    ASSUME ClientInv, NEW o \in Saves,
           \/ ImportEnd(o) \/ SaveRejected(o) \/ SaveUnheard(o)
           \/ UnlockFailed(o) \/ PromptCancelled(o)
    PROVE  ClientInv'
<1>1. save' = save \/ save' = [save EXCEPT ![o] = NoSave]
  BY DEF ImportEnd, SaveRejected, SaveUnheard, UnlockFailed, PromptCancelled,
         Respond, store
<1>2. /\ op' = [op EXCEPT ![o] = NoOp]
      /\ UNCHANGED <<vault, writes, history, tab, wiped, interrupted,
                     attempted, acked, late>>
  BY DEF ImportEnd, SaveRejected, SaveUnheard, UnlockFailed, PromptCancelled,
         Respond, store
<1>3. save = [save EXCEPT ![o] = save[o]]
  BY DEF ClientInv, TypeOK, StoreTypeOK
<1> QED
  BY <1>1, <1>2, <1>3, DropStep

(* The answer to a request nobody waits for. *)
LEMMA UnansweredStep ==
    ASSUME ClientInv, NEW o \in Saves, Unanswered(o)
    PROVE  ClientInv'
<1>1. /\ op[o] \in OpState /\ OperationInv(o) /\ op[o].pc = "idle"
      /\ attempted \in SUBSET Edits /\ acked \in SUBSET Edits
  BY AroundOperation DEF Unanswered
<1>2. /\ op' = [op EXCEPT ![o] = op[o]] /\ save' = [save EXCEPT ![o] = NoSave]
      /\ UNCHANGED <<vault, writes, history, tab, wiped, interrupted,
                     attempted, acked, late>>
  BY DEF Unanswered, Respond, clientVars, ClientInv, TypeOK
<1>3. op'[o] = op[o] /\ save'[o] = NoSave
  BY <1>2 DEF ClientInv, TypeOK, StoreTypeOK
<1>4. /\ ~Unlocking(o)' /\ ~Editing(o)'
      /\ Harmless' = Harmless /\ Plain' = Plain
  BY <1>1, <1>2, <1>3 DEF Unlocking, Editing, Harmless, Plain
<1>5. OperationKnown(o)'
  BY <1>1, <1>2, <1>3, <1>4, StoredIsReadable DEF OperationInv, OperationKnown
<1>6. Harmless' => OperationLive(o)'
  BY <1>1, <1>3, <1>4, StoredIsReadable DEF OperationInv, OperationLive
<1>7. interrupted' = {} => OperationQuiet(o)'
  BY <1>1, <1>2, <1>3, <1>4, StoredIsReadable DEF OperationInv, OperationQuiet
<1>8. Plain' => OperationFollows(o)' /\ SaveFollows(o)'
  BY <1>1, <1>2, <1>3, <1>4, StoredIsReadable
     DEF OperationInv, OperationFollows, SaveFollows
<1>9. OperationInv(o)'
  BY <1>5, <1>6, <1>7, <1>8 DEF OperationInv
<1> QED
  BY <1>1, <1>2, <1>4, <1>9, StoredIsReadable, StepOfOperation

(* The body an operation seals: the DEK array is live. *)
LEMMA SealStep ==
    ASSUME ClientInv, NEW o \in Saves, NEW kind \in {"add", "import"},
           NEW base \in SUBSET Edits, NEW e \in Edits, NEW rest \in SUBSET Edits,
           Seal(o, kind, base, e, rest), HasSession(TabOf[o]),
           kind = "import" => "import" \in Actions,
           Harmless => ~tab[TabOf[o]].locked,
           Plain => base = tab[TabOf[o]].data
    PROVE  ClientInv'
<1> DEFINE t == TabOf[o]
           session == tab[t].session
           blob == [session.envelope EXCEPT !.entries = base \cup {e},
                                            !.key = Dek(t, session.unlock)]
           sealed == [kind |-> kind, pc |-> "sealing", session |-> session,
                      base |-> base, edit |-> e, rest |-> rest, blob |-> blob]
<1>1. /\ tab[t] \in TabState /\ save[o] \in SaveState
      /\ attempted \in SUBSET Edits /\ acked \in SUBSET Edits
      /\ TabInv(t) /\ OperationInv(o)
  BY AroundOperation
<1>2. session \in Session /\ session.envelope \in Envelope /\ session.unlock # 0
  BY <1>1 DEF TabState, Session, HasSession
<1>3. /\ blob \in Envelope /\ blob.entries = base \cup {e}
      /\ blob.prf = session.envelope.prf /\ blob.key = Dek(t, session.unlock)
  BY <1>2 DEF Envelope, Dek
<1>4. /\ op' = [op EXCEPT ![o] = sealed] /\ save' = [save EXCEPT ![o] = save[o]]
      /\ UNCHANGED <<vault, writes, history, tab, wiped, interrupted, acked, late>>
      /\ attempted' = attempted \cup {e}
  BY DEF Seal, store, ClientInv, TypeOK, StoreTypeOK
<1> HIDE DEF blob, session, t
<1>5. sealed \in OpState
  BY <1>2, <1>3 DEF OpState, Kinds
<1>6. /\ sealed.pc = "sealing" /\ sealed.kind = kind /\ sealed.blob = blob
      /\ sealed.session = session /\ sealed.edit = e
  OBVIOUS
<1> HIDE DEF sealed
<1>7. op'[o] = sealed /\ save'[o] = save[o] /\ attempted' \in SUBSET Edits
  BY <1>1, <1>4 DEF ClientInv, TypeOK, StoreTypeOK
<1>8. /\ ~Unlocking(o)' /\ Editing(o)'
      /\ Harmless' = Harmless /\ Plain' = Plain
  BY <1>4, <1>6, <1>7 DEF Unlocking, Editing, Harmless, Plain
<1>9. OperationKnown(o)'
  BY <1>1, <1>2, <1>4, <1>6, <1>7, <1>8
     DEF OperationInv, OperationKnown, TabInv, TabKnown, session, t
<1>10. Harmless' => OperationLive(o)'
  <2>1. Harmless => blob.key = "dek"
    BY <1>1, <1>3 DEF TabInv, TabLive, Dek, session, t
  <2> QED
    BY <1>1, <1>4, <1>6, <1>7, <1>8, <2>1
       DEF OperationInv, OperationLive, TabInv, TabLive, session, t
<1>11. interrupted' = {} => OperationQuiet(o)'
  BY <1>1, <1>3, <1>4, <1>6, <1>7, <1>8
     DEF OperationInv, OperationQuiet, TabInv, TabQuiet, Harmless, session, t
<1>12. Plain' => OperationFollows(o)' /\ SaveFollows(o)'
  <2> SUFFICES ASSUME Plain PROVE OperationFollows(o)' /\ SaveFollows(o)'
    BY <1>8
  <2>1. ~tab[t].locked /\ base = tab[t].data
    BY DEF Plain, Harmless, t
  <2>2. OperationFollows(o)'
    BY <1>1, <1>3, <1>4, <1>6, <1>7, <2>1
       DEF OperationFollows, TabInv, TabFollows, t
  <2>3. SaveFollows(o)'
    BY <1>1, <1>4, <1>7 DEF OperationInv, SaveFollows
  <2> QED
    BY <2>2, <2>3
<1>13. OperationInv(o)'
  BY <1>9, <1>10, <1>11, <1>12 DEF OperationInv
<1> QED
  BY <1>1, <1>4, <1>5, <1>7, <1>8, <1>13, StepOfOperation DEF ClientInv, TypeOK

LEMMA EditStep ==
    ASSUME ClientInv, NEW o \in Saves,
           \/ \E e \in Edits : AddEntry(o, e)
           \/ \E items \in SUBSET Edits : Import(o, items)
           \/ ImportNext(o)
    PROVE  ClientInv'
<1>1. /\ tab[TabOf[o]] \in TabState /\ op[o] \in OpState
      /\ TabInv(TabOf[o]) /\ OperationInv(o)
  BY AroundOperation
<1>2. CASE \E e \in Edits : AddEntry(o, e)
  <2>1. PICK e \in Edits : AddEntry(o, e)
    BY <1>2
  <2>2. /\ Seal(o, "add", tab[TabOf[o]].data, e, {}) /\ HasSession(TabOf[o])
        /\ ~tab[TabOf[o]].locked /\ tab[TabOf[o]].data # Null
    BY <2>1 DEF AddEntry, CanEdit
  <2>3. tab[TabOf[o]].data \in SUBSET Edits
    BY <1>1, <2>2 DEF TabState
  <2> QED
    BY <2>2, <2>3, SealStep
<1>3. CASE \E items \in SUBSET Edits : Import(o, items)
  <2>1. PICK items \in SUBSET Edits : Import(o, items)
    BY <1>3
  <2>2. PICK e \in items : Seal(o, "import", tab[TabOf[o]].data, e, items \ {e})
    BY <2>1 DEF Import
  <2>3. /\ HasSession(TabOf[o]) /\ ~tab[TabOf[o]].locked
        /\ tab[TabOf[o]].data # Null /\ "import" \in Actions
    BY <2>1 DEF Import, CanEdit
  <2>4. /\ tab[TabOf[o]].data \in SUBSET Edits /\ e \in Edits
        /\ items \ {e} \in SUBSET Edits
    BY <1>1, <2>3 DEF TabState
  <2> QED
    BY <2>2, <2>3, <2>4, SealStep
<1>4. CASE ImportNext(o)
  <2>1. /\ op[o].pc = "loop" /\ HasSession(TabOf[o])
        /\ \E e \in op[o].rest : Seal(o, "import", op[o].base, e, op[o].rest \ {e})
    BY <1>4 DEF ImportNext
  <2>2. PICK e \in op[o].rest : Seal(o, "import", op[o].base, e, op[o].rest \ {e})
    BY <2>1
  <2>3. /\ op[o].base \in SUBSET Edits /\ e \in Edits
        /\ op[o].rest \ {e} \in SUBSET Edits
    BY <1>1 DEF OpState
  <2>4. "import" \in Actions
    BY <1>1, <2>1 DEF OperationInv, OperationKnown
  <2>5. Harmless => ~tab[TabOf[o]].locked
    BY <1>1, <2>1, <2>4 DEF Harmless, OperationInv, OperationQuiet, Editing
  <2>6. ~Plain
    BY <2>4 DEF Plain
  <2> QED
    BY <2>1, <2>2, <2>3, <2>4, <2>5, <2>6, SealStep
<1> QED
  BY <1>2, <1>3, <1>4

(* The request that is sent names the version of the tab, and carries what *)
(* was sealed.                                                             *)
LEMMA PersistStep ==
    ASSUME ClientInv, NEW o \in Saves, Persist(o)
    PROVE  ClientInv'
<1> DEFINE t == TabOf[o]
           sent == [op[o] EXCEPT !.pc = "sent"]
           request == [pc |-> "received", base |-> tab[t].version,
                       blob |-> op[o].blob, seen |-> 0]
<1>1. /\ tab[t] \in TabState /\ save[o] \in SaveState /\ op[o] \in OpState
      /\ attempted \in SUBSET Edits /\ acked \in SUBSET Edits
      /\ TabInv(t) /\ OperationInv(o)
  BY AroundOperation
<1>2. /\ op[o].pc = "sealing" /\ save[o].pc = "idle"
      /\ op' = [op EXCEPT ![o] = sent] /\ save' = [save EXCEPT ![o] = request]
      /\ UNCHANGED <<vault, writes, history, tab, wiped, interrupted,
                     attempted, acked, late>>
  BY DEF Persist, Receive
<1>3. /\ sent \in OpState /\ sent.pc = "sent" /\ sent.kind = op[o].kind
      /\ sent.blob = op[o].blob /\ sent.session = op[o].session
      /\ sent.edit = op[o].edit
  BY <1>1 DEF OpState
<1>4. tab[t].version \in Versions
  BY <1>1, VaultClientAssumption DEF TabInv, TabKnown, TabState, Versions
<1>5. request \in SaveState
  BY <1>1, <1>4 DEF SaveState, OpState
<1>6. /\ request.pc = "received" /\ request.base = tab[t].version
      /\ request.blob = op[o].blob
  OBVIOUS
<1> HIDE DEF sent, request, t
<1>7. op'[o] = sent /\ save'[o] = request
  BY <1>2 DEF ClientInv, TypeOK, StoreTypeOK
<1>8. /\ ~Unlocking(o)' /\ Editing(o)' /\ Editing(o)
      /\ Harmless' = Harmless /\ Plain' = Plain
  BY <1>2, <1>3, <1>7 DEF Unlocking, Editing, Harmless, Plain
<1>9. OperationKnown(o)'
  BY <1>1, <1>2, <1>3, <1>6, <1>7, <1>8 DEF OperationInv, OperationKnown
<1>10. Harmless' => OperationLive(o)'
  BY <1>1, <1>2, <1>3, <1>6, <1>7, <1>8 DEF OperationInv, OperationLive
<1>11. interrupted' = {} => OperationQuiet(o)'
  BY <1>1, <1>2, <1>3, <1>6, <1>7, <1>8 DEF OperationInv, OperationQuiet
<1>12. Plain' => OperationFollows(o)' /\ SaveFollows(o)'
  BY <1>1, <1>2, <1>3, <1>6, <1>7, <1>8
     DEF OperationInv, OperationFollows, SaveFollows, TabInv, TabFollows, t
<1>13. OperationInv(o)'
  BY <1>9, <1>10, <1>11, <1>12 DEF OperationInv
<1> QED
  BY <1>1, <1>2, <1>3, <1>5, <1>8, <1>13, StepOfOperation

LEMMA RevokeStep ==
    ASSUME ClientInv, NEW o \in Saves, Revoke(o)
    PROVE  ClientInv'
<1> DEFINE t == TabOf[o]
           session == tab[t].session
           blob == [session.envelope EXCEPT !.prf = "none"]
           sent == [NoOp EXCEPT !.kind = "revoke", !.pc = "sent",
                                !.session = session, !.blob = blob]
           request == [pc |-> "received", base |-> tab[t].version,
                       blob |-> blob, seen |-> 0]
<1>1. /\ tab[t] \in TabState /\ save[o] \in SaveState
      /\ attempted \in SUBSET Edits /\ acked \in SUBSET Edits
      /\ TabInv(t) /\ OperationInv(o)
  BY AroundOperation
<1>2. /\ op' = [op EXCEPT ![o] = sent] /\ save' = [save EXCEPT ![o] = request]
      /\ UNCHANGED <<vault, writes, history, tab, wiped, interrupted,
                     attempted, acked, late>>
      /\ ~tab[t].locked /\ HasSession(t)
  BY DEF Revoke, Receive, CanEdit
<1>3. session \in Session /\ session.envelope \in Envelope /\ session.unlock # 0
  BY <1>1, <1>2 DEF TabState, Session, HasSession
<1>4. /\ blob \in Envelope /\ blob.entries = session.envelope.entries
      /\ blob.prf = "none" /\ blob.key = session.envelope.key
  BY <1>3 DEF Envelope
<1> HIDE DEF blob, session, t
<1>5. /\ sent \in OpState /\ sent.pc = "sent" /\ sent.kind = "revoke"
      /\ sent.blob = blob /\ sent.session = session
  BY <1>3, <1>4, StoredIsReadable DEF OpState, Kinds
<1>6. tab[t].version \in Versions
  BY <1>1, VaultClientAssumption DEF TabInv, TabKnown, TabState, Versions, t
<1>7. request \in SaveState
  BY <1>4, <1>6 DEF SaveState
<1>8. /\ request.pc = "received" /\ request.base = tab[t].version
      /\ request.blob = blob
  OBVIOUS
<1> HIDE DEF sent, request
<1>9. op'[o] = sent /\ save'[o] = request
  BY <1>2 DEF ClientInv, TypeOK, StoreTypeOK
<1>10. /\ ~Unlocking(o)' /\ Editing(o)'
       /\ Harmless' = Harmless /\ Plain' = Plain
  BY <1>2, <1>5, <1>9 DEF Unlocking, Editing, Harmless, Plain
<1>11. OperationKnown(o)'
  BY <1>1, <1>2, <1>3, <1>5, <1>8, <1>9, <1>10
     DEF OperationKnown, TabInv, TabKnown, session, t
<1>12. Harmless' => OperationLive(o)'
  BY <1>1, <1>2, <1>4, <1>5, <1>8, <1>9, <1>10
     DEF OperationLive, TabInv, TabLive, session, t
<1>13. interrupted' = {} => OperationQuiet(o)'
  BY <1>1, <1>2, <1>4, <1>5, <1>8, <1>9, <1>10
     DEF OperationQuiet, TabInv, TabQuiet, session, t
<1>14. Plain' => OperationFollows(o)' /\ SaveFollows(o)'
  BY <1>1, <1>2, <1>4, <1>5, <1>8, <1>9, <1>10
     DEF OperationFollows, SaveFollows, TabInv, TabFollows, session, t
<1>15. OperationInv(o)'
  BY <1>11, <1>12, <1>13, <1>14 DEF OperationInv
<1> QED
  BY <1>1, <1>2, <1>5, <1>7, <1>10, <1>15, StepOfOperation

LEMMA EnrollStep ==
    ASSUME ClientInv, NEW o \in Saves, Enroll(o)
    PROVE  ClientInv'
<1> DEFINE t == TabOf[o]
           session == tab[t].session
           asked == [NoOp EXCEPT !.kind = "enroll", !.pc = "prompt",
                                 !.session = session]
<1>1. /\ tab[t] \in TabState /\ save[o] \in SaveState
      /\ attempted \in SUBSET Edits /\ acked \in SUBSET Edits
      /\ TabInv(t) /\ OperationInv(o)
  BY AroundOperation
<1>2. /\ op' = [op EXCEPT ![o] = asked] /\ save' = [save EXCEPT ![o] = save[o]]
      /\ UNCHANGED <<vault, writes, history, tab, wiped, interrupted,
                     attempted, acked, late>>
      /\ ~tab[t].locked /\ HasSession(t)
  BY DEF Enroll, CanEdit, store, ClientInv, TypeOK, StoreTypeOK
<1>3. session \in Session /\ session.envelope \in Envelope /\ session.unlock # 0
  BY <1>1, <1>2 DEF TabState, Session, HasSession
<1> HIDE DEF session, t
<1>4. /\ asked \in OpState /\ asked.pc = "prompt" /\ asked.kind = "enroll"
      /\ asked.blob = Stored /\ asked.session = session
  BY <1>3, StoredIsReadable DEF OpState, Kinds
<1> HIDE DEF asked
<1>5. op'[o] = asked /\ save'[o] = save[o]
  BY <1>2 DEF ClientInv, TypeOK, StoreTypeOK
<1>6. /\ ~Unlocking(o)' /\ Editing(o)'
      /\ Harmless' = Harmless /\ Plain' = Plain
  BY <1>2, <1>4, <1>5 DEF Unlocking, Editing, Harmless, Plain
<1>7. OperationKnown(o)'
  BY <1>1, <1>2, <1>3, <1>4, <1>5, <1>6
     DEF OperationInv, OperationKnown, TabInv, TabKnown, session, t
<1>8. Harmless' => OperationLive(o)'
  BY <1>1, <1>2, <1>4, <1>5, <1>6, StoredIsReadable
     DEF OperationInv, OperationLive, TabInv, TabLive, session, t
<1>9. interrupted' = {} => OperationQuiet(o)'
  BY <1>1, <1>2, <1>4, <1>5, <1>6, StoredIsReadable
     DEF OperationInv, OperationQuiet, TabInv, TabQuiet, session, t
<1>10. Plain' => OperationFollows(o)' /\ SaveFollows(o)'
  BY <1>1, <1>2, <1>4, <1>5, <1>6
     DEF OperationInv, OperationFollows, SaveFollows, TabInv, TabFollows, session, t
<1>11. OperationInv(o)'
  BY <1>7, <1>8, <1>9, <1>10 DEF OperationInv
<1> QED
  BY <1>1, <1>2, <1>4, <1>6, <1>11, StepOfOperation

(* The passkey wraps what the DEK array holds by then. *)
LEMMA EnrollWrapStep ==
    ASSUME ClientInv, NEW o \in Saves, EnrollWrap(o)
    PROVE  ClientInv'
<1> DEFINE t == TabOf[o]
           session == op[o].session
           prf == Dek(t, session.unlock)
           blob == [session.envelope EXCEPT !.prf = prf]
           sealed == [op[o] EXCEPT !.pc = "sealing", !.blob = blob]
<1>1. /\ tab[t] \in TabState /\ save[o] \in SaveState /\ op[o] \in OpState
      /\ attempted \in SUBSET Edits /\ acked \in SUBSET Edits
      /\ TabInv(t) /\ OperationInv(o)
  BY AroundOperation
<1>2. /\ op[o].kind = "enroll" /\ op[o].pc = "prompt"
      /\ op' = [op EXCEPT ![o] = sealed] /\ save' = [save EXCEPT ![o] = save[o]]
      /\ UNCHANGED <<vault, writes, history, tab, wiped, interrupted,
                     attempted, acked, late>>
  BY DEF EnrollWrap, store, ClientInv, TypeOK, StoreTypeOK
<1>3. session \in Session /\ session.envelope \in Envelope
  BY <1>1 DEF OpState, Session
<1>4. prf \in {"dek", "zero"} /\ (session.unlock \notin wiped[t] => prf = "dek")
  BY DEF Dek
<1> HIDE DEF prf
<1>5. /\ blob \in Envelope /\ blob.entries = session.envelope.entries
      /\ blob.prf = prf /\ blob.key = session.envelope.key
  BY <1>3, <1>4 DEF Envelope
<1> HIDE DEF blob
<1>6. /\ sealed \in OpState /\ sealed.pc = "sealing" /\ sealed.kind = "enroll"
      /\ sealed.blob = blob /\ sealed.session = session
  BY <1>1, <1>2, <1>5 DEF OpState
<1> HIDE DEF session, t, sealed
<1>7. op'[o] = sealed /\ save'[o] = save[o]
  BY <1>2 DEF ClientInv, TypeOK, StoreTypeOK
<1>8. /\ ~Unlocking(o)' /\ Editing(o)' /\ Editing(o)
      /\ Harmless' = Harmless /\ Plain' = Plain
  BY <1>2, <1>6, <1>7 DEF Unlocking, Editing, Harmless, Plain
<1>9. OperationKnown(o)'
  BY <1>1, <1>2, <1>6, <1>7, <1>8 DEF OperationInv, OperationKnown, session, t
<1>10. Harmless' => OperationLive(o)'
  BY <1>1, <1>2, <1>5, <1>6, <1>7, <1>8
     DEF OperationInv, OperationLive, session, t
<1>11. interrupted' = {} => OperationQuiet(o)'
  <2> SUFFICES ASSUME interrupted = {} PROVE OperationQuiet(o)'
    BY <1>2
  <2>1. ~tab[t].locked /\ OperationQuiet(o) /\ OperationLive(o) /\ TabLive(t)
    BY <1>1, <1>8 DEF OperationInv, OperationQuiet, TabInv, Harmless, t
  <2>2. session.unlock \notin wiped[t]
    BY <1>8, <2>1 DEF OperationLive, TabLive, session, t
  <2> QED
    BY <1>2, <1>4, <1>5, <1>6, <1>7, <2>1, <2>2 DEF OperationQuiet, session, t
<1>12. Plain' => OperationFollows(o)' /\ SaveFollows(o)'
  BY <1>1, <1>2, <1>5, <1>6, <1>7, <1>8
     DEF OperationInv, OperationFollows, SaveFollows, session, t
<1>13. OperationInv(o)'
  BY <1>9, <1>10, <1>11, <1>12 DEF OperationInv
<1> QED
  BY <1>1, <1>2, <1>6, <1>8, <1>13, StepOfOperation

-----------------------------------------------------------------------------
(* The version check, and a request that fails. *)
LEMMA CheckStep ==
    ASSUME ClientInv, NEW o \in Saves, CheckVersion(o) \/ SaveError(o),
           UNCHANGED clientVars
    PROVE  ClientInv'
<1>1. /\ save[o] \in SaveState /\ op[o] \in OpState /\ OperationInv(o) /\ RowInv
      /\ attempted \in SUBSET Edits /\ acked \in SUBSET Edits
      /\ vault \in [version : Nat, blob : Envelope] /\ writes \in Nat
  BY AroundOperation
<1>2. /\ op' = [op EXCEPT ![o] = op[o]]
      /\ UNCHANGED <<vault, writes, history, op, tab, wiped, interrupted,
                     attempted, acked, late>>
  BY DEF CheckVersion, SaveError, clientVars, ClientInv, TypeOK
<1>3. PICK pc \in {"checked", "conflict", "error"}, seen \in {writes, save[o].seen} :
        /\ save' = [save EXCEPT ![o] = [save[o] EXCEPT !.pc = pc, !.seen = seen]]
        /\ pc = "checked" =>
             save[o].pc = "received" /\ vault.version = save[o].base /\ seen = writes
        /\ save[o].pc \in {"received", "checked"}
  <2>1. CASE CheckVersion(o)
    <3> DEFINE pc == IF vault.version = save[o].base THEN "checked" ELSE "conflict"
    <3>1. /\ save' = [save EXCEPT ![o].pc = pc, ![o].seen = writes]
          /\ save[o].pc = "received"
      BY <2>1 DEF CheckVersion
    <3>2. /\ pc \in {"checked", "conflict", "error"}
          /\ pc = "checked" => vault.version = save[o].base
      OBVIOUS
    <3> HIDE DEF pc
    <3>3. save' = [save EXCEPT ![o] = [save[o] EXCEPT !.pc = pc, !.seen = writes]]
      BY <3>1 DEF ClientInv, TypeOK, StoreTypeOK, SaveState
    <3> QED
      BY <3>1, <3>2, <3>3
  <2>2. CASE SaveError(o)
    <3>1. /\ save' = [save EXCEPT ![o].pc = "error"]
          /\ save[o].pc \in {"received", "checked"}
      BY <2>2 DEF SaveError, Answer
    <3>2. save' = [save EXCEPT ![o] = [save[o] EXCEPT !.pc = "error",
                                                     !.seen = save[o].seen]]
      BY <3>1, <1>1 DEF ClientInv, TypeOK, StoreTypeOK, SaveState
    <3> QED
      BY <3>1, <3>2
  <2> QED
    BY <2>1, <2>2
<1> DEFINE newSave == [save[o] EXCEPT !.pc = pc, !.seen = seen]
<1>4. /\ newSave \in SaveState /\ newSave.pc = pc /\ newSave.seen = seen
      /\ newSave.base = save[o].base /\ newSave.blob = save[o].blob
  BY <1>1 DEF SaveState, Answered
<1>5. save' = [save EXCEPT ![o] = newSave]
  BY <1>3
<1> HIDE DEF newSave
<1>6. op'[o] = op[o] /\ save'[o] = newSave
  BY <1>2, <1>5 DEF ClientInv, TypeOK, StoreTypeOK
<1>7. /\ Unlocking(o)' <=> Unlocking(o) 
      /\ Editing(o)' <=> Editing(o)
      /\ Harmless' = Harmless /\ Plain' = Plain
  BY <1>2, <1>6 DEF Unlocking, Editing, Harmless, Plain
<1>8. OperationKnown(o)'
  BY <1>1, <1>2, <1>3, <1>4, <1>6, <1>7 DEF OperationInv, OperationKnown
<1>9. Harmless' => OperationLive(o)'
  BY <1>1, <1>2, <1>4, <1>6, <1>7 DEF OperationInv, OperationLive
<1>10. interrupted' = {} => OperationQuiet(o)'
  BY <1>1, <1>2, <1>4, <1>6, <1>7 DEF OperationInv, OperationQuiet
<1>11. Plain' => OperationFollows(o)' /\ SaveFollows(o)'
  <2> SUFFICES ASSUME Plain PROVE OperationFollows(o)' /\ SaveFollows(o)'
    BY <1>7
  <2>1. OperationFollows(o)'
    BY <1>1, <1>2, <1>6 DEF OperationInv, OperationFollows
  <2>2. vault.version = writes + 1 /\ SaveFollows(o)
    BY <1>1 DEF RowInv, OperationInv
  <2>3. SaveFollows(o)'
    BY <1>1, <1>2, <1>3, <1>4, <1>6, <2>2 DEF SaveFollows
  <2> QED
    BY <2>1, <2>3
<1>12. OperationInv(o)'
  BY <1>8, <1>9, <1>10, <1>11 DEF OperationInv
<1> QED
  BY <1>1, <1>2, <1>4, <1>5, <1>7, <1>12, StepOfOperation

(* The row is written.  Until writes overlap it is over the version that   *)
(* was checked, so that whoever has the version of the row has what it     *)
(* wrote.                                                                  *)
LEMMA WriteOverChecked ==
    ASSUME ClientInv, NEW o \in Saves, WriteRow(o), UNCHANGED clientVars, Plain'
    PROVE  /\ Plain /\ vault.version = writes + 1 /\ vault'.version = vault.version + 1
           /\ vault'.blob = save[o].blob
           /\ vault.blob.entries \subseteq save[o].blob.entries
<1>1. /\ save[o] \in SaveState /\ OperationInv(o) /\ RowInv
      /\ vault \in [version : Nat, blob : Envelope] /\ writes \in Nat
  BY AroundOperation
<1>2. /\ save[o].pc = "checked"
      /\ vault' = [version |-> save[o].base + 1, blob |-> save[o].blob]
      /\ history' = IF save[o].seen = writes THEN history ELSE "overlapped"
  BY DEF WriteRow
<1>3. save[o].seen = writes /\ Plain
  BY <1>2 DEF Plain
<1>4. vault.version = writes + 1 /\ SaveFollows(o)
  BY <1>1, <1>3 DEF RowInv, OperationInv
<1> QED
  BY <1>1, <1>2, <1>3, <1>4 DEF SaveFollows

LEMMA WriteRowStep ==
    ASSUME ClientInv, NEW o \in Saves, WriteRow(o), UNCHANGED clientVars
    PROVE  ClientInv'
<1> DEFINE newSave == [save[o] EXCEPT !.pc = "ok"]
<1>1. /\ save[o] \in SaveState /\ OperationInv(o) /\ RowInv
      /\ vault \in [version : Nat, blob : Envelope] /\ writes \in Nat
  BY AroundOperation
<1>2. /\ save[o].pc = "checked" /\ save[o].base < MaxVersion
      /\ vault' = [version |-> save[o].base + 1, blob |-> save[o].blob]
      /\ save' = [save EXCEPT ![o] = newSave]
      /\ writes' = writes + 1 /\ history' \in {history, "overlapped"}
      /\ UNCHANGED <<tab, op, wiped, attempted, acked, interrupted, late>>
  BY DEF WriteRow, Answer, clientVars
<1>3. /\ newSave \in SaveState /\ newSave.pc = "ok" /\ newSave.seen = save[o].seen
      /\ newSave.base = save[o].base /\ newSave.blob = save[o].blob
      /\ save[o].base \in Nat /\ save[o].blob \in Envelope
  BY <1>1 DEF SaveState, Answered, Versions
<1> HIDE DEF newSave
<1>4. /\ save'[o] = newSave
      /\ \A p \in Saves : /\ p # o => save'[p] = save[p]
                          /\ save'[p].blob = save[p].blob
                          /\ save[p].pc # "idle" <=> save'[p].pc # "idle"
  BY <1>1, <1>2, <1>3 DEF ClientInv, TypeOK, StoreTypeOK
<1>5. vault'.version = save[o].base + 1 /\ vault'.blob = save[o].blob
  BY <1>2
<1>6. TypeOK'
  BY <1>1, <1>2, <1>3 DEF ClientInv, TypeOK, StoreTypeOK
<1>7. Harmless' = Harmless /\ interrupted' = interrupted
  BY <1>2 DEF Harmless
<1>8. RowInv'
  <2>1. vault'.version <= MaxVersion
    BY <1>2, <1>3, <1>5, VaultClientAssumption
  <2>2. /\ Harmless => vault'.blob.key = "dek"
        /\ interrupted = {} => vault'.blob.prf # "zero"
    BY <1>1, <1>5 DEF OperationInv, OperationLive, OperationQuiet
  <2>3. Plain' => vault'.version = writes' + 1
    BY <1>1, <1>2, WriteOverChecked
  <2> QED
    BY <1>7, <2>1, <2>2, <2>3 DEF RowInv
<1>9. ASSUME NEW t \in Tabs PROVE TabInv(t)'
  <2>1. TabInv(t) /\ tab[t] \in TabState
    BY DEF ClientInv, TypeOK
  <2>2. tab[t].version \in Nat
    BY <2>1 DEF TabState
  <2>3. Plain' => TabFollows(t)'
    BY <1>1, <1>2, <2>1, <2>2, WriteOverChecked DEF TabInv, TabFollows
  <2> QED
    BY <1>2, <1>7, <2>1, <2>3 DEF TabInv, TabKnown, TabLive, TabQuiet, HasSession
<1>10. ASSUME NEW p \in Saves PROVE OperationInv(p)'
  <2>1. /\ OperationInv(p) /\ save[p] \in SaveState /\ tab[TabOf[p]] \in TabState
        /\ TabInv(TabOf[p])
    BY AroundOperation
  <2>2. /\ Unlocking(p)' <=> Unlocking(p) 
        /\ Editing(p)' <=> Editing(p)
    BY <1>2 DEF Unlocking, Editing
  <2>3. OperationKnown(p)'
    BY <1>2, <1>3, <1>4, <2>1, <2>2 DEF OperationInv, OperationKnown
  <2>4. (Harmless' => OperationLive(p)') /\ (interrupted' = {} => OperationQuiet(p)')
    BY <1>2, <1>4, <1>7, <2>1, <2>2 DEF OperationInv, OperationLive, OperationQuiet
  <2>5. Plain' => OperationFollows(p)' /\ SaveFollows(p)'
    <3> SUFFICES ASSUME Plain' PROVE OperationFollows(p)' /\ SaveFollows(p)'
      OBVIOUS
    <3>1. /\ Plain /\ vault.version = writes + 1
          /\ vault'.version = vault.version + 1 /\ vault'.blob = save[o].blob
      BY WriteOverChecked
    <3>2. /\ tab[TabOf[p]].version <= vault.version
          /\ tab[TabOf[p]].version \in Nat
          /\ OperationFollows(p) /\ SaveFollows(p)
      BY <2>1, <3>1 DEF TabInv, TabFollows, TabState, OperationInv
    <3>3. OperationFollows(p)'
      BY <1>1, <1>2, <3>1, <3>2 DEF OperationFollows
    <3>4. SaveFollows(p)'
      <4>1. /\ save[p].base \in Nat /\ save[p].seen \in Nat
        BY <2>1 DEF SaveState, Versions
      <4>2. CASE p = o
        BY <1>3, <1>4, <1>5, <3>1, <4>2 DEF SaveFollows
      <4>3. CASE p # o
        BY <1>1, <1>2, <1>4, <3>1, <3>2, <4>1, <4>3 DEF SaveFollows
      <4> QED
        BY <4>2, <4>3
    <3> QED
      BY <3>3, <3>4
  <2> QED
    BY <2>3, <2>4, <2>5 DEF OperationInv
<1>11. UnlocksAlone'
  BY <1>2 DEF ClientInv, UnlocksAlone, Unlocking
<1> QED
  BY <1>6, <1>8, <1>9, <1>10, <1>11 DEF ClientInv

LEMMA ServerStepInv ==
    ASSUME ClientInv, NEW o \in Saves, ServerStep(o)
    PROVE  ClientInv'
BY CheckStep, WriteRowStep DEF ServerStep, HandleSave

-----------------------------------------------------------------------------
LEMMA SaveResolvedStep ==
    ASSUME ClientInv, NEW o \in Saves, SaveResolved(o)
    PROVE  ClientInv'
<1> DEFINE t == TabOf[o]
           data == IF op[o].kind \in {"add", "import"} THEN op[o].blob.entries
                   ELSE tab[t].data
           session == [op[o].session EXCEPT !.envelope = op[o].blob]
           newTab == [tab[t] EXCEPT !.version = save[o].base + 1,
                                    !.session = session, !.data = data]
           newOp == IF op[o].kind = "import" THEN [op[o] EXCEPT !.pc = "loop"]
                    ELSE NoOp
<1>1. /\ tab[t] \in TabState /\ save[o] \in SaveState /\ op[o] \in OpState
      /\ attempted \in SUBSET Edits /\ acked \in SUBSET Edits
      /\ wiped[t] \in SUBSET Unlocks /\ t \in Tabs
      /\ TabInv(t) /\ OperationInv(o)
  BY AroundOperation
<1>2. /\ op[o].pc = "sent" /\ save[o].pc = "ok"
      /\ save' = [save EXCEPT ![o] = NoSave]
      /\ UNCHANGED <<vault, writes, history, wiped, attempted, interrupted>>
      /\ acked' \in {acked \cup {op[o].edit}, acked}
      /\ op[o].kind \notin {"add", "import"} => acked' = acked
  BY DEF SaveResolved, Respond
<1>3. /\ op[o].kind \in {"add", "import", "enroll", "revoke"}
      /\ save[o].blob = op[o].blob /\ save[o].base < MaxVersion
      /\ op[o].session.unlock # 0
      /\ op[o].kind \in {"add", "import"} => op[o].edit \in Edits
  BY <1>1, <1>2 DEF OperationInv, OperationKnown, Editing
<1>4. op' = [op EXCEPT ![o] = newOp]
  BY DEF SaveResolved
<1>5. /\ newOp \in OpState
      /\ \/ newOp = NoOp
         \/ /\ op[o].kind = "import" /\ newOp.pc = "loop" /\ newOp.kind = "import"
            /\ newOp.blob = op[o].blob /\ newOp.session = op[o].session
  BY <1>1, StoredIsReadable DEF OpState
<1>6. session \in Session /\ session.envelope = op[o].blob
      /\ session.unlock = op[o].session.unlock
  BY <1>1 DEF OpState, Session
<1>7. /\ data \in (SUBSET Edits) \cup {Null}
      /\ op[o].kind \in {"add", "import"} => data = op[o].blob.entries
      /\ op[o].kind \in {"enroll", "revoke"} => data = tab[t].data
  BY <1>1 DEF OpState, TabState, Envelope
<1>8. tab' = [tab EXCEPT ![t] = newTab]
  BY <1>1 DEF SaveResolved, TabState, ClientInv, TypeOK
<1> HIDE DEF data, session, t, newOp
<1>9. /\ save[o].base \in Nat
      /\ newTab \in TabState
      /\ newTab.version = save[o].base + 1 /\ newTab.session = session
      /\ newTab.data = data /\ newTab.locked = tab[t].locked
      /\ newTab.peek = tab[t].peek /\ newTab.unlocks = tab[t].unlocks
  <2>1. save[o].base \in Nat /\ save[o].base + 1 \in Nat
    BY <1>1 DEF SaveState, Versions
  <2>2. newTab \in TabState
    BY <1>1, <1>6, <1>7, <2>1 DEF TabState
  <2> QED
    BY <1>1, <2>1, <2>2 DEF TabState
<1> HIDE DEF newTab
<1>10. /\ op'[o] = newOp /\ save'[o] = NoSave /\ tab'[t] = newTab
       /\ \A p \in Saves \ {o} : op'[p] = op[p] /\ save'[p] = save[p]
  BY <1>1, <1>2, <1>4, <1>8 DEF ClientInv, TypeOK, StoreTypeOK
<1>11. Harmless' = Harmless /\ Plain' = Plain /\ Editing(o)
  BY <1>2 DEF Harmless, Plain, Editing
<1>12. ~tab[t].locked /\ Harmless =>
         session.unlock = tab[t].session.unlock /\ session.unlock \notin wiped[t]
  BY <1>1, <1>6, <1>11 DEF OperationInv, OperationLive, TabInv, TabLive, t
<1>13. TabInv(t)'
  <2>1. TabKnown(t)'
    BY <1>1, <1>2, <1>3, <1>6, <1>9, <1>10, VaultClientAssumption
       DEF TabInv, TabKnown, OperationInv, OperationKnown, HasSession, t
  <2>2. Harmless' => TabLive(t)'
    BY <1>1, <1>2, <1>6, <1>9, <1>10, <1>11, <1>12
       DEF TabInv, TabLive, OperationInv, OperationLive
  <2>3. interrupted' = {} => TabQuiet(t)'
    BY <1>1, <1>2, <1>6, <1>9, <1>10, <1>11
       DEF TabInv, TabQuiet, OperationInv, OperationQuiet, t
  <2>4. Plain' => TabFollows(t)'
    BY <1>1, <1>2, <1>3, <1>6, <1>7, <1>9, <1>10, <1>11
       DEF TabInv, TabFollows, OperationInv, OperationFollows, SaveFollows, t
  <2> QED
    BY <2>1, <2>2, <2>3, <2>4 DEF TabInv
<1>14. ASSUME NEW p \in Saves, TabOf[p] = t, p # o
       PROVE  OperationInv(p)' /\ (Unlocking(p)' <=> Unlocking(p))
  <2>1. op'[p] = op[p] /\ save'[p] = save[p] /\ OperationInv(p) /\ ~Plain
    BY <1>10, <1>14 DEF ClientInv, Plain, OneOperationPerTab, t
  <2>2. (Unlocking(p)' <=> Unlocking(p)) /\ (Editing(p)' <=> Editing(p))
    BY <2>1 DEF Unlocking, Editing
  <2>3. OperationKnown(p)'
    BY <1>9, <1>10, <1>14, <2>1, <2>2 DEF OperationInv, OperationKnown
  <2>4. Harmless' => OperationLive(p)'
    BY <1>9, <1>10, <1>11, <1>12, <1>14, <2>1, <2>2 DEF OperationInv, OperationLive
  <2>5. interrupted' = {} => OperationQuiet(p)'
    BY <1>2, <1>9, <1>10, <1>14, <2>1, <2>2 DEF OperationInv, OperationQuiet
  <2> QED
    BY <1>11, <2>1, <2>2, <2>3, <2>4, <2>5 DEF OperationInv
<1>15. ~Unlocking(o)' /\ (Editing(o)' => op[o].kind = "import" /\ newOp.pc = "loop")
  BY <1>5, <1>10, StoredIsReadable DEF Unlocking, Editing
<1>16. OperationInv(o)'
  <2>1. CASE newOp = NoOp
    <3>1. ~Editing(o)'
      BY <1>10, <2>1, StoredIsReadable DEF Editing
    <3> QED
      BY <1>9, <1>10, <1>15, <2>1, <3>1, StoredIsReadable, <1>1
         DEF OperationInv, OperationKnown, OperationLive, OperationQuiet,
             OperationFollows, SaveFollows, TabState, t
  <2>2. CASE /\ op[o].kind = "import" /\ newOp.pc = "loop" /\ newOp.kind = "import"
             /\ newOp.blob = op[o].blob /\ newOp.session = op[o].session
    <3>1. "import" \in Actions /\ ~Plain
      BY <1>1, <2>2 DEF OperationInv, OperationKnown, Plain
    <3>2. OperationKnown(o)'
      BY <1>1, <1>3, <1>9, <1>10, <1>15, <2>2, <3>1, StoredIsReadable
         DEF OperationInv, OperationKnown, t
    <3>3. Harmless' => OperationLive(o)'
      BY <1>1, <1>6, <1>9, <1>10, <1>11, <2>2, StoredIsReadable
         DEF OperationInv, OperationLive, t
    <3>4. interrupted' = {} => OperationQuiet(o)'
      BY <1>1, <1>2, <1>9, <1>10, <1>11, <2>2, StoredIsReadable
         DEF OperationInv, OperationQuiet, t
    <3> QED
      BY <1>11, <3>1, <3>2, <3>3, <3>4 DEF OperationInv
  <2> QED
    BY <1>5, <2>1, <2>2
<1>17. \A p \in Saves : (Unlocking(p)' /\ TabOf[p] = t) =>
               \A q \in Saves : (Unlocking(q)' /\ TabOf[q] = t) => p = q
  BY <1>14, <1>15 DEF ClientInv, UnlocksAlone
<1>18. /\ attempted' \in SUBSET Edits /\ acked' \in SUBSET Edits
       /\ UNCHANGED late \/ late' \in SUBSET Tabs
  <2>1. late' \in {late \cup {t}, late}
    BY DEF SaveResolved, t
  <2> QED
    BY <1>1, <1>2, <1>3, <2>1 DEF ClientInv, TypeOK
<1>19. wiped' = [wiped EXCEPT ![t] = wiped[t]] /\ TabOf[o] = t
  BY <1>2 DEF ClientInv, TypeOK, t
<1> QED
  BY <1>1, <1>2, <1>4, <1>5, <1>8, <1>9, <1>13, <1>14, <1>16, <1>17, <1>18, <1>19,
     StoredIsReadable, StepAtTab

(* An unlock begins: it takes a blob whose body and wrap are readable, and *)
(* nothing else opens the tab meanwhile.                                   *)
LEMMA UnlockBegins ==
    ASSUME ClientInv, NEW o \in Saves, CanUnlock(o),
           NEW kind, NEW pc, NEW blob \in Envelope, NEW peek \in Envelope \cup {Null},
           NEW version \in {tab[TabOf[o]].version, vault.version},
           \/ kind = "unlock" /\ pc = "deriving"
           \/ kind = "passkey" /\ pc = "prompt" /\ "passkey" \in Actions,
           Harmless => blob.key = "dek" /\ (peek # Null => peek.key = "dek"),
           interrupted = {} => blob.prf # "zero" /\ (peek # Null => peek.prf # "zero"),
           Plain => blob = vault.blob,
           op' = [op EXCEPT ![o] = [NoOp EXCEPT !.kind = kind, !.pc = pc, !.blob = blob]],
           tab' = [tab EXCEPT ![TabOf[o]].version = version, ![TabOf[o]].peek = peek],
           UNCHANGED <<store, wiped, attempted, acked, interrupted, late>>
    PROVE  ClientInv'
<1> DEFINE t == TabOf[o]
           newTab == [tab[t] EXCEPT !.version = version, !.peek = peek]
           newOp == [NoOp EXCEPT !.kind = kind, !.pc = pc, !.blob = blob]
<1>1. /\ tab[t] \in TabState /\ save[o] \in SaveState /\ op[o] \in OpState
      /\ vault \in [version : Nat, blob : Envelope]
      /\ attempted \in SUBSET Edits /\ acked \in SUBSET Edits
      /\ wiped[t] \in SUBSET Unlocks /\ t \in Tabs
      /\ TabInv(t) /\ OperationInv(o) /\ RowInv
  BY AroundOperation
<1>2. /\ tab[t].locked /\ tab[t].unlocks < MaxUnlocks /\ save[o].pc = "idle"
      /\ \A p \in Saves : TabOf[p] = t => op[p].kind \notin {"unlock", "passkey"}
                                          \/ op[p].pc = "idle"
  BY DEF CanUnlock, Free
<1>3. /\ newOp \in OpState /\ newOp.kind = kind /\ newOp.pc = pc
      /\ newOp.blob = blob /\ newOp.session = NoSession
  BY StoredIsReadable DEF OpState, Kinds
<1>4. version \in Nat /\ version <= MaxVersion
  BY <1>1 DEF TabState, TabInv, TabKnown, RowInv
<1>5. /\ newTab \in TabState
      /\ newTab.version = version /\ newTab.session = tab[t].session
      /\ newTab.data = tab[t].data /\ newTab.locked = tab[t].locked
      /\ newTab.peek = peek /\ newTab.unlocks = tab[t].unlocks
  <2>1. newTab \in TabState
    BY <1>1, <1>4 DEF TabState
  <2> QED
    BY <1>1, <2>1 DEF TabState
<1>6. /\ tab' = [tab EXCEPT ![t] = newTab] /\ op' = [op EXCEPT ![o] = newOp]
      /\ save' = [save EXCEPT ![o] = save[o]]
      /\ wiped' = [wiped EXCEPT ![t] = wiped[t]]
      /\ UNCHANGED <<vault, writes, history, wiped, attempted, acked, interrupted, late>>
  BY <1>1 DEF store, ClientInv, TypeOK, StoreTypeOK
<1> HIDE DEF newTab, newOp, t
<1>7. /\ op'[o] = newOp /\ tab'[t] = newTab
      /\ \A p \in Saves : save'[p] = save[p] /\ (p # o => op'[p] = op[p])
  BY <1>1, <1>6 DEF ClientInv, TypeOK, StoreTypeOK
<1>8. Harmless' = Harmless /\ Plain' = Plain
  BY <1>6 DEF Harmless, Plain
<1>9. vault.version \in Nat /\ tab[t].version \in Nat
  BY <1>1 DEF TabState
<1>10. TabInv(t)'
  <2>1. TabKnown(t)'
    BY <1>1, <1>4, <1>5, <1>6, <1>7 DEF TabInv, TabKnown, HasSession
  <2>2. Harmless' => TabLive(t)'
    BY <1>1, <1>5, <1>6, <1>7, <1>8 DEF TabInv, TabLive
  <2>3. interrupted' = {} => TabQuiet(t)'
    BY <1>1, <1>5, <1>6, <1>7 DEF TabInv, TabQuiet, HasSession
  <2>4. Plain' => TabFollows(t)'
    <3>1. version = tab[t].version \/ version = vault.version
      BY DEF t
    <3>2. Plain => version <= vault.version
      BY <1>1, <1>9, <3>1 DEF TabInv, TabFollows
    <3> QED
      BY <1>2, <1>5, <1>6, <1>7, <1>8, <3>2 DEF TabFollows
  <2> QED
    BY <2>1, <2>2, <2>3, <2>4 DEF TabInv
<1>11. ASSUME NEW p \in Saves, TabOf[p] = t, p # o
       PROVE  OperationInv(p)' /\ ~Unlocking(p)'
  <2>1. op'[p] = op[p] /\ save'[p] = save[p] /\ OperationInv(p) /\ ~Plain
    BY <1>7, <1>11 DEF ClientInv, Plain, OneOperationPerTab, t
  <2>2. ~Unlocking(p)' /\ (Editing(p)' <=> Editing(p))
    BY <1>2, <1>11, <2>1 DEF Unlocking, Editing, OperationInv, OperationKnown
  <2>3. OperationKnown(p)'
    BY <1>5, <1>7, <1>11, <2>1, <2>2 DEF OperationInv, OperationKnown
  <2>4. Harmless' => OperationLive(p)'
    BY <1>5, <1>7, <1>8, <1>11, <2>1, <2>2 DEF OperationInv, OperationLive
  <2>5. interrupted' = {} => OperationQuiet(p)'
    BY <1>5, <1>6, <1>7, <1>11, <2>1, <2>2 DEF OperationInv, OperationQuiet
  <2> QED
    BY <1>8, <2>1, <2>2, <2>3, <2>4, <2>5 DEF OperationInv
<1>12. ~Editing(o)' /\ TabOf[o] = t
  BY <1>3, <1>7 DEF Editing, t
<1>13. OperationInv(o)'
  <2>1. OperationKnown(o)'
    <3>1. tab[t].unlocks \in Nat
      BY <1>1 DEF TabState
    <3>2. /\ op'[o].session.unlock = 0 /\ op'[o].kind = kind /\ op'[o].pc = pc
          /\ tab'[t].unlocks = tab[t].unlocks /\ tab'[t].locked
          /\ save'[o].pc = "idle"
      BY <1>2, <1>3, <1>5, <1>7, StoredIsReadable
    <3> QED
      BY <1>2, <1>12, <3>1, <3>2 DEF OperationKnown
  <2>2. Harmless' => OperationLive(o)'
    BY <1>1, <1>3, <1>7, <1>8, <1>12, StoredIsReadable DEF OperationInv, OperationLive
  <2>3. interrupted' = {} => OperationQuiet(o)'
    BY <1>1, <1>3, <1>6, <1>7, <1>12, StoredIsReadable
       DEF OperationInv, OperationQuiet
  <2>4. Plain' => OperationFollows(o)' /\ SaveFollows(o)'
    <3>1. SaveFollows(o)' <=> SaveFollows(o)
      BY <1>6, <1>7 DEF SaveFollows
    <3>2. Plain => kind = "unlock"
      BY DEF Plain
    <3> QED
      BY <1>1, <1>3, <1>6, <1>7, <1>8, <1>12, <3>1, <3>2
         DEF OperationInv, OperationFollows
  <2> QED
    BY <2>1, <2>2, <2>3, <2>4 DEF OperationInv
<1>14. \A p \in Saves : (Unlocking(p)' /\ TabOf[p] = t) =>
               \A q \in Saves : (Unlocking(q)' /\ TabOf[q] = t) => p = q
  BY <1>11
<1>15. attempted' \in SUBSET Edits /\ acked' \in SUBSET Edits
  BY <1>1, <1>6
<1> QED
  BY <1>1, <1>3, <1>5, <1>6, <1>10, <1>11, <1>12, <1>13, <1>14, <1>15, StepAtTab, ZenonT(30)

LEMMA UnlockStep ==
    ASSUME ClientInv, NEW o \in Saves, Unlock(o)
    PROVE  ClientInv'
<1> DEFINE t == TabOf[o]
<1>1. /\ tab[t] \in TabState /\ vault \in [version : Nat, blob : Envelope]
      /\ TabInv(t) /\ RowInv /\ t \in Tabs
  BY AroundOperation
<1>2. /\ CanUnlock(o) /\ tab' = [tab EXCEPT ![t].version = vault.version]
      /\ op' = [op EXCEPT ![o] = [NoOp EXCEPT !.kind = "unlock", !.pc = "deriving",
                                              !.blob = vault.blob]]
      /\ UNCHANGED <<store, wiped, attempted, acked, interrupted, late>>
  BY DEF Unlock
<1>3. tab' = [tab EXCEPT ![t].version = vault.version, ![t].peek = tab[t].peek]
  BY <1>1, <1>2 DEF ClientInv, TypeOK, TabState
<1>4. /\ vault.blob \in Envelope /\ tab[t].peek \in Envelope \cup {Null}
      /\ Harmless => vault.blob.key = "dek"
                     /\ (tab[t].peek # Null => tab[t].peek.key = "dek")
      /\ interrupted = {} => vault.blob.prf # "zero"
                             /\ (tab[t].peek # Null => tab[t].peek.prf # "zero")
  BY <1>1 DEF TabState, TabInv, TabLive, TabQuiet, RowInv
<1> QED
  BY <1>2, <1>3, <1>4, UnlockBegins

LEMMA UnlockWithPasskeyStep ==
    ASSUME ClientInv, NEW o \in Saves, UnlockWithPasskey(o)
    PROVE  ClientInv'
<1> DEFINE t == TabOf[o]
           blob == IF tab[t].peek = Null THEN vault.blob ELSE tab[t].peek
           version == IF tab[t].peek = Null THEN vault.version ELSE tab[t].version
<1>1. /\ tab[t] \in TabState /\ vault \in [version : Nat, blob : Envelope]
      /\ TabInv(t) /\ RowInv /\ t \in Tabs
  BY AroundOperation
<1>2. /\ CanUnlock(o) /\ "passkey" \in Actions
      /\ tab' = [tab EXCEPT ![t].version = version, ![t].peek = blob]
      /\ op' = [op EXCEPT ![o] = [NoOp EXCEPT !.kind = "passkey", !.pc = "prompt",
                                              !.blob = blob]]
      /\ UNCHANGED <<store, wiped, attempted, acked, interrupted, late>>
  BY <1>1 DEF UnlockWithPasskey, ClientInv, TypeOK, TabState
<1>3. /\ blob \in Envelope /\ version \in {tab[t].version, vault.version}
      /\ Harmless => blob.key = "dek"
      /\ interrupted = {} => blob.prf # "zero"
  BY <1>1 DEF TabState, TabInv, TabLive, TabQuiet, RowInv
<1>4. ~Plain
  BY <1>2 DEF Plain
<1> HIDE DEF blob, version
<1> QED
  BY <1>2, <1>3, <1>4, UnlockBegins

(* The tab opens with a DEK array of its own. *)
LEMMA OpenSessionStep ==
    ASSUME ClientInv, NEW o \in Saves, Unlocking(o),
           NEW version \in {tab[TabOf[o]].version, vault.version},
           OpenSession(o, version),
           Plain => op[o].pc = "deriving" /\ version = tab[TabOf[o]].version
    PROVE  ClientInv'
<1> DEFINE t == TabOf[o]
           n == tab[t].unlocks + 1
           session == [unlock |-> n, envelope |-> op[o].blob]
           newTab == [tab[t] EXCEPT !.locked = FALSE, !.session = session,
                                    !.data = op[o].blob.entries,
                                    !.version = version, !.peekDue = FALSE,
                                    !.unlocks = n]
           newWiped == IF op[o].blob.key = "zero" THEN wiped[t] \cup {n} ELSE wiped[t]
<1>1. /\ tab[t] \in TabState /\ save[o] \in SaveState /\ op[o] \in OpState
      /\ vault \in [version : Nat, blob : Envelope]
      /\ attempted \in SUBSET Edits /\ acked \in SUBSET Edits
      /\ wiped[t] \in SUBSET Unlocks /\ t \in Tabs
      /\ TabInv(t) /\ OperationInv(o) /\ RowInv
  BY AroundOperation
<1>2. tab[t].locked /\ tab[t].unlocks < MaxUnlocks
  BY <1>1 DEF OperationInv, OperationKnown
<1>3. /\ n \in Nat /\ n \in Unlocks /\ n \in 0 .. MaxUnlocks /\ n # 0
      /\ tab[t].unlocks \in Nat /\ n = tab[t].unlocks + 1
  BY <1>1, <1>2, VaultClientAssumption DEF TabState, Unlocks
<1> HIDE DEF n
<1>4. /\ session \in Session /\ session.unlock = n /\ session.envelope = op[o].blob
  BY <1>1, <1>3 DEF Session, OpState
<1>5. /\ newWiped \in SUBSET Unlocks
      /\ \A m \in newWiped : m <= n
      /\ op[o].blob.key = "dek" => n \notin newWiped
  <2>1. \A m \in wiped[t] : m \in Nat /\ m <= tab[t].unlocks
    BY <1>1 DEF TabInv, TabKnown, Unlocks
  <2> QED
    BY <1>1, <1>3, <2>1
<1>6. version \in Nat /\ version <= MaxVersion
  BY <1>1 DEF TabState, TabInv, TabKnown, RowInv
<1> HIDE DEF session
<1>7. /\ newTab \in TabState
      /\ newTab.version = version /\ newTab.session = session
      /\ newTab.data = op[o].blob.entries /\ newTab.locked = FALSE
      /\ newTab.peek = tab[t].peek /\ newTab.unlocks = n
  <2>1. op[o].blob.entries \in (SUBSET Edits) \cup {Null}
    BY <1>1 DEF OpState, Envelope
  <2>2. newTab \in TabState
    BY <1>1, <1>3, <1>4, <1>6, <2>1 DEF TabState
  <2> QED
    BY <1>1, <2>2 DEF TabState
<1>8. /\ tab' = [tab EXCEPT ![t] = newTab] /\ op' = [op EXCEPT ![o] = NoOp]
      /\ save' = [save EXCEPT ![o] = save[o]]
      /\ wiped' = [wiped EXCEPT ![t] = newWiped]
      /\ UNCHANGED <<vault, writes, history, attempted, acked, interrupted, late>>
  BY <1>1 DEF OpenSession, store, session, n, ClientInv, TypeOK, StoreTypeOK
<1> HIDE DEF newTab, newWiped, t
<1>9. /\ op'[o] = NoOp /\ tab'[t] = newTab /\ wiped'[t] = newWiped
      /\ \A p \in Saves : save'[p] = save[p] /\ (p # o => op'[p] = op[p])
  BY <1>1, <1>8 DEF ClientInv, TypeOK, StoreTypeOK
<1>10. Harmless' = Harmless /\ Plain' = Plain
  BY <1>8 DEF Harmless, Plain
<1>11. TabInv(t)'
  <2>1. TabKnown(t)'
    <3>1. /\ tab'[t].version <= MaxVersion /\ tab'[t].session.unlock = n
          /\ tab'[t].unlocks = n
      BY <1>4, <1>6, <1>7, <1>9
    <3>2. \A m \in wiped'[t] : m <= tab'[t].unlocks
      BY <1>5, <1>9, <3>1
    <3> QED
      BY <1>3, <3>1, <3>2 DEF TabKnown, HasSession
  <2>2. Harmless' => TabLive(t)'
    BY <1>1, <1>4, <1>5, <1>7, <1>9, <1>10
       DEF TabInv, TabLive, OperationInv, OperationLive
  <2>3. interrupted' = {} => TabQuiet(t)'
    BY <1>1, <1>4, <1>7, <1>8, <1>9
       DEF TabInv, TabQuiet, OperationInv, OperationQuiet
  <2>4. Plain' => TabFollows(t)'
    <3> SUFFICES ASSUME Plain PROVE TabFollows(t)'
      BY <1>10
    <3>1. /\ op[o].pc = "deriving" /\ version = tab[t].version
          /\ TabFollows(t) /\ OperationFollows(o)
      BY <1>1 DEF TabInv, OperationInv, t
    <3> QED
      BY <1>4, <1>7, <1>8, <1>9, <3>1 DEF TabFollows, OperationFollows, t
  <2> QED
    BY <2>1, <2>2, <2>3, <2>4 DEF TabInv
<1>12. ASSUME NEW p \in Saves, TabOf[p] = t, p # o
       PROVE  OperationInv(p)' /\ ~Unlocking(p)'
  <2>1. op'[p] = op[p] /\ save'[p] = save[p] /\ OperationInv(p) /\ op[p] \in OpState
    BY <1>9, <1>12, AroundOperation
  <2>2. ~Unlocking(p)
    BY <1>12 DEF ClientInv, UnlocksAlone, t
  <2>3. ~Unlocking(p)' /\ (Editing(p)' <=> Editing(p))
    BY <2>1, <2>2 DEF Unlocking, Editing
  <2>4. op[p].session.unlock \in Nat
    BY <2>1 DEF OpState, Session
  <2>5. OperationKnown(p)'
    BY <1>3, <1>7, <1>9, <1>12, <2>1, <2>3, <2>4 DEF OperationInv, OperationKnown
  <2>6. ~Plain
    BY <1>12 DEF Plain, OneOperationPerTab, t
  <2>7. Harmless => interrupted = {}
    BY <1>12 DEF Harmless, OneOperationPerTab, t
  <2>8. interrupted = {} => ~Editing(p) /\ OperationQuiet(p) /\ OperationLive(p)
    BY <1>2, <1>12, <2>1 DEF OperationInv, OperationQuiet, Harmless, t
  <2>9. Harmless' => OperationLive(p)'
    BY <1>10, <2>1, <2>3, <2>7, <2>8 DEF OperationLive
  <2>10. interrupted' = {} => OperationQuiet(p)'
    BY <1>8, <2>1, <2>3, <2>8 DEF OperationQuiet
  <2> QED
    BY <1>10, <2>3, <2>5, <2>6, <2>9, <2>10 DEF OperationInv
<1>13. ~Editing(o)' /\ ~Unlocking(o)' /\ TabOf[o] = t
  BY <1>9, StoredIsReadable DEF Editing, Unlocking, t
<1>14. OperationInv(o)'
  <2>1. OperationKnown(o)'
    BY <1>1, <1>3, <1>7, <1>9, <1>13, StoredIsReadable DEF OperationInv, OperationKnown
  <2>2. Harmless' => OperationLive(o)'
    BY <1>1, <1>9, <1>10, <1>13, StoredIsReadable DEF OperationInv, OperationLive
  <2>3. interrupted' = {} => OperationQuiet(o)'
    BY <1>1, <1>8, <1>9, <1>13, StoredIsReadable DEF OperationInv, OperationQuiet
  <2>4. Plain' => OperationFollows(o)' /\ SaveFollows(o)'
    <3>1. SaveFollows(o)' <=> SaveFollows(o)
      BY <1>8, <1>9 DEF SaveFollows
    <3> QED
      BY <1>1, <1>9, <1>10, <3>1, StoredIsReadable DEF OperationInv, OperationFollows
  <2> QED
    BY <2>1, <2>2, <2>3, <2>4 DEF OperationInv
<1>15. \A p \in Saves : (Unlocking(p)' /\ TabOf[p] = t) =>
               \A q \in Saves : (Unlocking(q)' /\ TabOf[q] = t) => p = q
  BY <1>12, <1>13
<1>16. attempted' \in SUBSET Edits /\ acked' \in SUBSET Edits
  BY <1>1, <1>8
<1> QED
  BY <1>1, <1>5, <1>7, <1>8, <1>11, <1>12, <1>13, <1>14, <1>15, <1>16,
     StoredIsReadable, StepAtTab

LEMMA OpenSteps ==
    ASSUME ClientInv, NEW o \in Saves, UnlockOpen(o) \/ PasskeyOpen(o)
    PROVE  ClientInv'
<1>1. CASE UnlockOpen(o)
  BY <1>1, OpenSessionStep DEF UnlockOpen, Unlocking
<1>2. CASE PasskeyOpen(o)
  <2>1. op[o].kind = "passkey" /\ op[o].pc = "prompt" /\ OpenSession(o, vault.version)
    BY <1>2 DEF PasskeyOpen
  <2>2. ~Plain
    BY <2>1, AroundOperation DEF Plain, OperationInv, OperationKnown
  <2> QED
    BY <2>1, <2>2, OpenSessionStep DEF Unlocking
<1> QED
  BY <1>1, <1>2

LEMMA PeekStep ==
    ASSUME ClientInv, NEW t \in Tabs, Peek(t)
    PROVE  ClientInv'
<1>1. /\ tab[t] \in TabState /\ TabInv(t) /\ RowInv
      /\ vault \in [version : Nat, blob : Envelope]
  BY DEF ClientInv, TypeOK, StoreTypeOK
<1>2. PICK blob \in {vault.blob, Null} :
        tab' = [tab EXCEPT ![t].peek = blob, ![t].peekDue = FALSE]
  BY DEF Peek
<1> DEFINE newTab == [tab[t] EXCEPT !.peek = blob, !.peekDue = FALSE]
<1>3. /\ newTab \in TabState
      /\ newTab.version = tab[t].version /\ newTab.session = tab[t].session
      /\ newTab.data = tab[t].data /\ newTab.locked = tab[t].locked
      /\ newTab.peek = blob /\ newTab.unlocks = tab[t].unlocks
  <2>1. blob \in Envelope \cup {Null}
    BY <1>1
  <2>2. newTab \in TabState
    BY <1>1, <2>1 DEF TabState
  <2> QED
    BY <1>1, <2>2 DEF TabState
<1>4. /\ tab' = [tab EXCEPT ![t] = newTab]
      /\ UNCHANGED <<vault, save, writes, history, op, wiped, attempted, acked,
                     interrupted, late>>
  BY <1>1, <1>2 DEF Peek, store, ClientInv, TypeOK
<1> HIDE DEF newTab
<1>5. tab'[t] = newTab /\ \A u \in Tabs \ {t} : tab'[u] = tab[u] /\ wiped'[u] = wiped[u]
  BY <1>4 DEF ClientInv, TypeOK
<1>6. TypeOK'
  BY <1>3, <1>4 DEF ClientInv, TypeOK, StoreTypeOK
<1>7. Harmless' = Harmless /\ Plain' = Plain
  BY <1>4 DEF Harmless, Plain
<1>8. TabInv(t)'
  <2>1. TabKnown(t)'
    BY <1>1, <1>3, <1>4, <1>5 DEF TabInv, TabKnown, HasSession
  <2>2. Harmless' => TabLive(t)'
    BY <1>1, <1>3, <1>4, <1>5, <1>7 DEF TabInv, TabLive, RowInv
  <2>3. interrupted' = {} => TabQuiet(t)'
    BY <1>1, <1>3, <1>4, <1>5 DEF TabInv, TabQuiet, RowInv, HasSession
  <2>4. Plain' => TabFollows(t)'
    BY <1>1, <1>3, <1>4, <1>5, <1>7 DEF TabInv, TabFollows
  <2> QED
    BY <2>1, <2>2, <2>3, <2>4 DEF TabInv
<1>9. ASSUME NEW p \in Saves, TabOf[p] = t
      PROVE  OperationInv(p)' /\ (Unlocking(p)' <=> Unlocking(p))
  <2>1. OperationInv(p)
    BY DEF ClientInv
  <2>2. (Unlocking(p)' <=> Unlocking(p)) /\ (Editing(p)' <=> Editing(p))
    BY <1>4 DEF Unlocking, Editing
  <2> QED
    BY <1>3, <1>4, <1>5, <1>7, <1>9, <2>1, <2>2
       DEF OperationInv, OperationKnown, OperationLive, OperationQuiet,
           OperationFollows, SaveFollows
<1>10. \A p \in Saves : (Unlocking(p)' /\ TabOf[p] = t) =>
               \A q \in Saves : (Unlocking(q)' /\ TabOf[q] = t) => p = q
  BY <1>9 DEF ClientInv, UnlocksAlone
<1> QED
  BY <1>4, <1>5, <1>6, <1>8, <1>9, <1>10, StepInTab

(* A lock.  Where nothing was in progress, nothing is left that would use  *)
(* the array; where one operation was, the tab is locked until it is over. *)
LEMMA LockStep ==
    ASSUME ClientInv, NEW t \in Tabs, Lock(t)
    PROVE  ClientInv'
<1> DEFINE newTab == [tab[t] EXCEPT !.session = NoSession, !.data = Null,
                                    !.locked = TRUE, !.peekDue = TRUE]
           newWiped == wiped[t] \cup ({tab[t].session.unlock} \ {0})
<1>1. /\ tab[t] \in TabState /\ TabInv(t) /\ wiped[t] \in SUBSET Unlocks
      /\ interrupted \in SUBSET Tabs
  BY DEF ClientInv, TypeOK
<1>2. /\ newTab \in TabState
      /\ newTab.version = tab[t].version /\ newTab.session = NoSession
      /\ newTab.data = Null /\ newTab.locked = TRUE
      /\ newTab.peek = tab[t].peek /\ newTab.unlocks = tab[t].unlocks
      /\ tab[t].unlocks \in Nat
  <2>1. newTab \in TabState
    BY <1>1, StoredIsReadable DEF TabState
  <2> QED
    BY <1>1, <2>1 DEF TabState
<1>3. newWiped \in SUBSET Unlocks /\ \A m \in newWiped : m <= tab[t].unlocks
  <2>1. tab[t].session.unlock \in 0 .. MaxUnlocks /\ tab[t].session.unlock <= tab[t].unlocks
    BY <1>1 DEF TabState, Session, TabInv, TabKnown
  <2> QED
    BY <1>1, <2>1, VaultClientAssumption DEF Unlocks, TabInv, TabKnown
<1>4. /\ ~tab[t].locked
      /\ tab' = [tab EXCEPT ![t] = newTab] /\ wiped' = [wiped EXCEPT ![t] = newWiped]
      /\ interrupted' = IF Busy(t) THEN interrupted \cup {t} ELSE interrupted
      /\ UNCHANGED <<vault, save, writes, history, op, attempted, acked, late>>
  BY <1>1 DEF Lock, store, ClientInv, TypeOK
<1> HIDE DEF newTab, newWiped
<1>5. /\ tab'[t] = newTab /\ wiped'[t] = newWiped
      /\ \A u \in Tabs \ {t} : tab'[u] = tab[u] /\ wiped'[u] = wiped[u]
  BY <1>4 DEF ClientInv, TypeOK
<1>6. TypeOK'
  <2>1. interrupted' \in SUBSET Tabs
    BY <1>1, <1>4
  <2> QED
    BY <1>2, <1>3, <1>4, <2>1 DEF ClientInv, TypeOK, StoreTypeOK
<1>7. /\ interrupted \subseteq interrupted'
      /\ interrupted' = {} => interrupted = {} /\ ~Busy(t)
  BY <1>4
<1>8. (Harmless' => Harmless) /\ (Plain' => Plain)
  BY <1>4, <1>7 DEF Harmless, Plain
<1>9. TabInv(t)'
  <2>1. TabKnown(t)'
    BY <1>1, <1>2, <1>3, <1>5, StoredIsReadable DEF TabInv, TabKnown, HasSession
  <2>2. Harmless' => TabLive(t)'
    BY <1>1, <1>2, <1>5, <1>8, StoredIsReadable DEF TabInv, TabLive
  <2>3. interrupted' = {} => TabQuiet(t)'
    BY <1>1, <1>2, <1>5, <1>7, StoredIsReadable DEF TabInv, TabQuiet, HasSession
  <2>4. Plain' => TabFollows(t)'
    BY <1>1, <1>2, <1>4, <1>5, <1>8 DEF TabInv, TabFollows
  <2> QED
    BY <2>1, <2>2, <2>3, <2>4 DEF TabInv
<1>10. ASSUME NEW p \in Saves, TabOf[p] = t
       PROVE  OperationInv(p)' /\ ~Unlocking(p)'
  <2>1. OperationInv(p)
    BY DEF ClientInv
  <2>2. ~Unlocking(p)
    BY <1>4, <1>10, <2>1 DEF OperationInv, OperationKnown
  <2>3. ~Unlocking(p)' /\ (Editing(p)' <=> Editing(p))
    BY <1>4, <2>2 DEF Unlocking, Editing
  <2>4. OperationKnown(p)'
    BY <1>2, <1>4, <1>5, <1>10, <2>1, <2>3 DEF OperationInv, OperationKnown
  <2>5. Harmless' => OperationLive(p)'
    BY <1>2, <1>4, <1>5, <1>8, <1>10, <2>1, <2>3 DEF OperationInv, OperationLive
  <2>6. interrupted' = {} => OperationQuiet(p)'
    <3>1. interrupted' = {} => ~Editing(p)
      BY <1>7, <1>10 DEF Busy, Editing
    <3> QED
      BY <1>4, <1>7, <2>1, <2>3, <3>1 DEF OperationInv, OperationQuiet
  <2>7. Plain' => OperationFollows(p)' /\ SaveFollows(p)'
    BY <1>2, <1>4, <1>5, <1>8, <1>10, <2>1
       DEF OperationInv, OperationFollows, SaveFollows
  <2> QED
    BY <2>3, <2>4, <2>5, <2>6, <2>7 DEF OperationInv
<1>11. \A p \in Saves : (Unlocking(p)' /\ TabOf[p] = t) =>
               \A q \in Saves : (Unlocking(q)' /\ TabOf[q] = t) => p = q
  BY <1>10
<1> QED
  BY <1>4, <1>5, <1>6, <1>7, <1>9, <1>10, <1>11, StepInTab

LEMMA ClientNextInv == ClientInv /\ [Next]_vars => ClientInv'
<1> SUFFICES ASSUME ClientInv, [Next]_vars PROVE ClientInv'
  OBVIOUS
<1>1. CASE UNCHANGED vars
  <2>1. UNCHANGED <<vault, save, writes, history, tab, op, wiped, attempted, acked,
                    interrupted, late>>
    BY <1>1 DEF vars, store
  <2>2. TypeOK'
    BY <2>1 DEF ClientInv, TypeOK, StoreTypeOK
  <2>3. Harmless' = Harmless /\ Plain' = Plain
    BY <2>1 DEF Harmless, Plain
  <2>4. RowInv'
    BY <2>1, <2>3 DEF ClientInv, RowInv
  <2>5. \A t \in Tabs : TabInv(t)'
    BY <2>1, <2>3
       DEF ClientInv, TabInv, TabKnown, TabLive, TabQuiet, TabFollows, HasSession
  <2>6. ASSUME NEW o \in Saves
        PROVE  OperationInv(o)' /\ (Unlocking(o)' <=> Unlocking(o))
    <3>1. (Unlocking(o)' <=> Unlocking(o)) /\ (Editing(o)' <=> Editing(o))
      BY <2>1 DEF Unlocking, Editing
    <3> QED
      BY <2>1, <2>3, <3>1
         DEF ClientInv, OperationInv, OperationKnown, OperationLive, OperationQuiet,
             OperationFollows, SaveFollows
  <2>7. UnlocksAlone'
    BY <2>6 DEF ClientInv, UnlocksAlone
  <2> QED
    BY <2>2, <2>4, <2>5, <2>6, <2>7 DEF ClientInv
<1>2. ASSUME NEW o \in Saves, Operate(o)
      PROVE  ClientInv'
  BY <1>2, EditStep, DropSteps, PersistStep, SaveResolvedStep, UnansweredStep,
     UnlockStep, OpenSteps, UnlockWithPasskeyStep, EnrollStep, EnrollWrapStep,
     RevokeStep DEF Operate
<1> QED
  BY <1>1, <1>2, ServerStepInv, PeekStep, LockStep DEF Next

(* ClientInv holds in every reachable state, for any operations and locks. *)
THEOREM ClientInvariant == Spec => []ClientInv
BY ClientInitInv, ClientNextInv, PTL DEF Spec

-----------------------------------------------------------------------------
(* Vault, requests, tabs and operations keep their types: no tab names a   *)
(* version the row cannot have.                                            *)
THEOREM ClientTypesCorrect == Spec => []TypeOK
<1>1. ClientInv => TypeOK
  BY DEF ClientInv
<1> QED
  BY <1>1, ClientInvariant, PTL

(* Locks between operations do no harm, for any number of tabs and of      *)
(* operations at once in each, and whatever they are: imports, passkeys    *)
(* enrolled, revoked and used.                                             *)
THEOREM LocksBetweenOperations == Spec => []QuietLocksAreHarmless
<1>1. ClientInv => QuietLocksAreHarmless
  <2> SUFFICES ASSUME ClientInv, interrupted = {}
               PROVE  /\ VaultStaysReadable /\ EnrolledPasskeyOpensVault
                      /\ LockedTabHoldsNothing /\ OpenTabHoldsLiveKey
    BY DEF QuietLocksAreHarmless
  <2>1. Harmless
    BY DEF Harmless
  <2>2. VaultStaysReadable /\ EnrolledPasskeyOpensVault
    BY <2>1 DEF ClientInv, RowInv, VaultStaysReadable, EnrolledPasskeyOpensVault
  <2>3. LockedTabHoldsNothing
    BY DEF ClientInv, TabInv, TabQuiet, LockedTabHoldsNothing
  <2>4. OpenTabHoldsLiveKey
    BY <2>1 DEF ClientInv, TabInv, TabKnown, TabLive, OpenTabHoldsLiveKey
  <2> QED
    BY <2>2, <2>3, <2>4
<1> QED
  BY <1>1, ClientInvariant, PTL

-----------------------------------------------------------------------------
(* What holds of a tab, and of what an operation carries, as long as no    *)
(* save was answered after a lock that fell in the middle of it.           *)
TabTimely(t) ==
    /\ tab[t].locked => ~HasSession(t) /\ tab[t].data = Null
    /\ ~tab[t].locked =>
         tab[t].session.unlock = tab[t].unlocks /\ tab[t].unlocks \notin wiped[t]
    /\ tab[t].session.envelope.key = "dek"
    /\ tab[t].peek # Null => tab[t].peek.key = "dek"

OperationTimely(o) ==
    /\ save[o].blob.key = "dek" /\ op[o].blob.key = "dek"
    /\ op[o].session.envelope.key = "dek"

TimelyInv ==
    late = {} =>
        /\ vault.blob.key = "dek"
        /\ \A t \in Tabs : TabTimely(t)
        /\ \A o \in Saves : OperationTimely(o)

LEMMA TimelyInit == Init => TimelyInv
BY StoredIsReadable
   DEF Init, StoreInit, TimelyInv, TabTimely, OperationTimely, HasSession

(* A step of one operation: what it changes is its tab, its request and    *)
(* itself.                                                                 *)
LEMMA TimelyStep ==
    ASSUME ClientInv, TimelyInv, late = {}, NEW o \in Saves,
           NEW newTab, tab' = [tab EXCEPT ![TabOf[o]] = newTab],
           NEW newWiped, wiped' = [wiped EXCEPT ![TabOf[o]] = newWiped],
           NEW newOp, op' = [op EXCEPT ![o] = newOp],
           NEW newSave, save' = [save EXCEPT ![o] = newSave],
           UNCHANGED vault,
           newSave.blob.key = "dek", newOp.blob.key = "dek",
           newOp.session.envelope.key = "dek",
           newTab.locked =>
               newTab.session.unlock = 0 /\ newTab.data = Null,
           ~newTab.locked =>
               newTab.session.unlock = newTab.unlocks /\ newTab.unlocks \notin newWiped,
           newTab.session.envelope.key = "dek",
           newTab.peek # Null => newTab.peek.key = "dek"
    PROVE  TimelyInv'
<1>1. /\ tab'[TabOf[o]] = newTab /\ wiped'[TabOf[o]] = newWiped
      /\ op'[o] = newOp /\ save'[o] = newSave
      /\ \A u \in Tabs \ {TabOf[o]} : tab'[u] = tab[u] /\ wiped'[u] = wiped[u]
      /\ \A p \in Saves \ {o} : op'[p] = op[p] /\ save'[p] = save[p]
  BY VaultClientAssumption DEF ClientInv, TypeOK, StoreTypeOK
<1>2. \A t \in Tabs : TabTimely(t)'
  BY <1>1 DEF TimelyInv, TabTimely, HasSession
<1>3. \A p \in Saves : OperationTimely(p)'
  BY <1>1 DEF TimelyInv, OperationTimely
<1> QED
  BY <1>2, <1>3 DEF TimelyInv

(* Operations that leave tab and row alone. *)
LEMMA TimelyOperations ==
    ASSUME ClientInv, TimelyInv, late = {}, NEW o \in Saves,
           NEW newOp, op' = [op EXCEPT ![o] = newOp],
           NEW newSave, save' = [save EXCEPT ![o] = newSave],
           UNCHANGED <<vault, tab, wiped>>,
           newSave.blob.key = "dek", newOp.blob.key = "dek",
           newOp.session.envelope.key = "dek"
    PROVE  TimelyInv'
<1> DEFINE t == TabOf[o]
           newTab == tab[t]
           newWiped == wiped[t]
<1>1. TabTimely(t)
  BY AroundOperation DEF TimelyInv
<1>2. tab' = [tab EXCEPT ![t] = newTab] /\ wiped' = [wiped EXCEPT ![t] = newWiped]
  BY DEF ClientInv, TypeOK
<1>3. /\ newTab.locked => newTab.session.unlock = 0 /\ newTab.data = Null
      /\ ~newTab.locked =>
           newTab.session.unlock = newTab.unlocks /\ newTab.unlocks \notin newWiped
      /\ newTab.session.envelope.key = "dek"
      /\ newTab.peek # Null => newTab.peek.key = "dek"
  BY <1>1 DEF TabTimely, HasSession
<1>4. UNCHANGED vault
  OBVIOUS
<1> HIDE DEF newTab, newWiped
<1> QED
  BY <1>2, <1>3, <1>4, TimelyStep

(* What seals, seals with the session of an open tab. *)
LEMMA TimelySeals ==
    ASSUME ClientInv, TimelyInv, late = {}, NEW o \in Saves,
           NEW kind, NEW base, NEW e, NEW rest, Seal(o, kind, base, e, rest),
           HasSession(TabOf[o])
    PROVE  TimelyInv'
<1> DEFINE session == tab[TabOf[o]].session
           blob == [session.envelope EXCEPT !.entries = base \cup {e},
                                            !.key = Dek(TabOf[o], session.unlock)]
           newOp == [kind |-> kind, pc |-> "sealing", session |-> session,
                     base |-> base, edit |-> e, rest |-> rest, blob |-> blob]
<1>1. TabTimely(TabOf[o]) /\ OperationTimely(o) /\ tab[TabOf[o]] \in TabState
  BY AroundOperation DEF TimelyInv
<1>2. Dek(TabOf[o], session.unlock) = "dek"
  BY <1>1 DEF TabTimely, Dek
<1>3. blob.key = "dek"
  BY <1>1, <1>2 DEF TabState, Session, Envelope
<1>4. /\ op' = [op EXCEPT ![o] = newOp] /\ save' = [save EXCEPT ![o] = save[o]]
      /\ UNCHANGED <<vault, tab, wiped>>
  BY DEF Seal, store, ClientInv, TypeOK, StoreTypeOK
<1>5. newOp.blob = blob /\ newOp.session = session
  OBVIOUS
<1> HIDE DEF newOp, blob
<1> QED
  BY <1>1, <1>3, <1>4, <1>5, TimelyOperations DEF TabTimely, OperationTimely

(* The answer of a save, heard by a tab that was not locked since: the     *)
(* session it puts back is of the unlock the tab is open with.             *)
LEMMA TimelyAnswer ==
    ASSUME ClientInv, TimelyInv, late = {}, NEW o \in Saves, SaveResolved(o),
           late' = {}
    PROVE  TimelyInv'
<1> DEFINE t == TabOf[o]
           session == [op[o].session EXCEPT !.envelope = op[o].blob]
           newTab == [tab[t] EXCEPT
                         !.version = save[o].base + 1, !.session = session,
                         !.data = IF op[o].kind \in {"add", "import"}
                                  THEN op[o].blob.entries ELSE tab[t].data]
           newOp == IF op[o].kind = "import" THEN [op[o] EXCEPT !.pc = "loop"]
                    ELSE NoOp
           newWiped == wiped[t]
           newSave == NoSave
<1>1. /\ t \in Tabs /\ TabTimely(t) /\ OperationTimely(o) /\ tab[t] \in TabState
      /\ op[o] \in OpState
  BY AroundOperation DEF TimelyInv
<1>2. ~tab[t].locked /\ tab[t].unlocks = op[o].session.unlock
  BY DEF SaveResolved, LockedSince
<1>3. /\ tab' = [tab EXCEPT ![t] = newTab] /\ op' = [op EXCEPT ![o] = newOp]
      /\ save' = [save EXCEPT ![o] = newSave]
      /\ wiped' = [wiped EXCEPT ![t] = newWiped] /\ UNCHANGED vault
  BY <1>1 DEF SaveResolved, Respond, ClientInv, TypeOK, TabState
<1>4. session.unlock = op[o].session.unlock /\ session.envelope = op[o].blob
  BY <1>1 DEF OpState, Session
<1>5. /\ newTab.locked = tab[t].locked /\ newTab.session = session
      /\ newTab.unlocks = tab[t].unlocks /\ newTab.peek = tab[t].peek
  BY <1>1 DEF TabState
<1>6. newOp.blob.key = "dek" /\ newOp.session.envelope.key = "dek"
  BY <1>1, StoredIsReadable DEF OpState, OperationTimely
<1>7. newSave.blob.key = "dek"
  BY StoredIsReadable
<1> HIDE DEF newTab, newOp, session
<1>8. /\ newTab.locked => newTab.session.unlock = 0 /\ newTab.data = Null
      /\ ~newTab.locked =>
           newTab.session.unlock = newTab.unlocks /\ newTab.unlocks \notin newWiped
      /\ newTab.session.envelope.key = "dek"
      /\ newTab.peek # Null => newTab.peek.key = "dek"
  BY <1>1, <1>2, <1>4, <1>5 DEF TabTimely, OperationTimely
<1> HIDE DEF newWiped, newSave
<1> QED
  BY <1>3, <1>6, <1>7, <1>8, TimelyStep

(* An unlock begins, with a blob that is stored or was.                    *)
LEMMA TimelyUnlockBegins ==
    ASSUME ClientInv, TimelyInv, late = {}, NEW o \in Saves,
           Unlock(o) \/ UnlockWithPasskey(o)
    PROVE  TimelyInv'
<1> DEFINE t == TabOf[o]
<1>1. /\ t \in Tabs /\ TabTimely(t) /\ OperationTimely(o) /\ tab[t] \in TabState
      /\ vault.blob.key = "dek"
  BY AroundOperation DEF TimelyInv
<1>2. PICK newTab, newOp, blob :
         /\ tab' = [tab EXCEPT ![t] = newTab] /\ op' = [op EXCEPT ![o] = newOp]
         /\ newTab.locked = tab[t].locked /\ newTab.session = tab[t].session
         /\ newTab.unlocks = tab[t].unlocks /\ newTab.data = tab[t].data
         /\ newTab.peek \in {tab[t].peek, blob}
         /\ newOp.blob = blob /\ newOp.session = NoSession /\ blob.key = "dek"
  <2>1. CASE Unlock(o)
    <3> DEFINE newTab == [tab[t] EXCEPT !.version = vault.version]
               newOp == [NoOp EXCEPT !.kind = "unlock", !.pc = "deriving",
                                     !.blob = vault.blob]
    <3>1. tab' = [tab EXCEPT ![t] = newTab] /\ op' = [op EXCEPT ![o] = newOp]
      BY <1>1, <2>1 DEF Unlock, ClientInv, TypeOK
    <3>2. /\ newTab.locked = tab[t].locked /\ newTab.session = tab[t].session
          /\ newTab.unlocks = tab[t].unlocks /\ newTab.data = tab[t].data
          /\ newTab.peek = tab[t].peek
      BY <1>1 DEF TabState
    <3>3. newOp.blob = vault.blob /\ newOp.session = NoSession
      BY StoredIsReadable DEF NoOp
    <3> HIDE DEF newTab, newOp
    <3> QED
      BY <1>1, <3>1, <3>2, <3>3
  <2>2. CASE UnlockWithPasskey(o)
    <3> DEFINE blob == IF tab[t].peek = Null THEN vault.blob ELSE tab[t].peek
               newTab == [tab[t] EXCEPT !.peek = blob,
                             !.version = IF tab[t].peek = Null THEN vault.version
                                         ELSE tab[t].version]
               newOp == [NoOp EXCEPT !.kind = "passkey", !.pc = "prompt",
                                     !.blob = blob]
    <3>1. tab' = [tab EXCEPT ![t] = newTab] /\ op' = [op EXCEPT ![o] = newOp]
      BY <1>1, <2>2 DEF UnlockWithPasskey, ClientInv, TypeOK, TabState
    <3>2. /\ newTab.locked = tab[t].locked /\ newTab.session = tab[t].session
          /\ newTab.unlocks = tab[t].unlocks /\ newTab.data = tab[t].data
          /\ newTab.peek = blob
      BY <1>1 DEF TabState
    <3>3. newOp.blob = blob /\ newOp.session = NoSession
      BY StoredIsReadable DEF NoOp
    <3>4. blob.key = "dek"
      BY <1>1 DEF TabTimely
    <3> HIDE DEF newTab, newOp, blob
    <3> QED
      BY <1>1, <3>1, <3>2, <3>3, <3>4
  <2> QED
    BY <2>1, <2>2
<1> DEFINE newSave == save[o]
           newWiped == wiped[t]
<1>3. /\ save' = [save EXCEPT ![o] = newSave] /\ UNCHANGED vault
      /\ wiped' = [wiped EXCEPT ![t] = newWiped]
  BY DEF Unlock, UnlockWithPasskey, store, ClientInv, TypeOK, StoreTypeOK
<1>4. /\ newSave.blob.key = "dek" /\ newOp.blob.key = "dek"
      /\ newOp.session.envelope.key = "dek"
  BY <1>1, <1>2, StoredIsReadable DEF OperationTimely
<1>5. /\ newTab.locked => newTab.session.unlock = 0 /\ newTab.data = Null
      /\ ~newTab.locked =>
           newTab.session.unlock = newTab.unlocks /\ newTab.unlocks \notin newWiped
      /\ newTab.session.envelope.key = "dek"
      /\ newTab.peek # Null => newTab.peek.key = "dek"
  BY <1>1, <1>2 DEF TabTimely, HasSession
<1>6. tab' = [tab EXCEPT ![t] = newTab] /\ op' = [op EXCEPT ![o] = newOp]
  BY <1>2
<1> HIDE DEF newSave, newWiped
<1> QED
  BY <1>3, <1>4, <1>5, <1>6, TimelyStep

(* The array of a new unlock has not been wiped. *)
LEMMA TimelyOpens ==
    ASSUME ClientInv, TimelyInv, late = {}, NEW o \in Saves, NEW version,
           OpenSession(o, version)
    PROVE  TimelyInv'
<1> DEFINE t == TabOf[o]
           n == tab[t].unlocks + 1
           session == [unlock |-> n, envelope |-> op[o].blob]
           newTab == [tab[t] EXCEPT !.locked = FALSE, !.session = session,
                         !.data = op[o].blob.entries, !.version = version,
                         !.peekDue = FALSE, !.unlocks = n]
           newOp == NoOp
           newSave == save[o]
           newWiped == wiped[t]
<1>1. /\ t \in Tabs /\ TabTimely(t) /\ OperationTimely(o) /\ tab[t] \in TabState
      /\ TabInv(t)
  BY AroundOperation DEF TimelyInv
<1>2. n \notin wiped[t]
  BY <1>1, VaultClientAssumption DEF TabInv, TabKnown, TabState
<1>3. /\ tab' = [tab EXCEPT ![t] = newTab] /\ op' = [op EXCEPT ![o] = newOp]
      /\ save' = [save EXCEPT ![o] = newSave] /\ UNCHANGED vault
      /\ wiped' = [wiped EXCEPT ![t] = newWiped]
  BY <1>1 DEF OpenSession, OperationTimely, store, ClientInv, TypeOK, StoreTypeOK
<1>4. /\ newTab.locked = FALSE /\ newTab.session = session
      /\ newTab.unlocks = n /\ newTab.peek = tab[t].peek
      /\ session.unlock = n /\ session.envelope = op[o].blob
  BY <1>1 DEF TabState
<1>5. /\ newSave.blob.key = "dek" /\ newOp.blob.key = "dek"
      /\ newOp.session.envelope.key = "dek"
  BY <1>1, StoredIsReadable DEF OperationTimely
<1> HIDE DEF newTab, session
<1>6. /\ newTab.locked => newTab.session.unlock = 0 /\ newTab.data = Null
      /\ ~newTab.locked =>
           newTab.session.unlock = newTab.unlocks /\ newTab.unlocks \notin newWiped
      /\ newTab.session.envelope.key = "dek"
      /\ newTab.peek # Null => newTab.peek.key = "dek"
  BY <1>1, <1>2, <1>4 DEF TabTimely, OperationTimely
<1> HIDE DEF newOp, newSave, newWiped
<1> QED
  BY <1>3, <1>5, <1>6, TimelyStep

(* What else operations do keeps the keys of what they carry.              *)
LEMMA TimelyCarried ==
    ASSUME ClientInv, TimelyInv, late = {}, NEW o \in Saves,
           \/ ImportEnd(o) \/ Persist(o) \/ SaveRejected(o) \/ SaveUnheard(o)
           \/ Unanswered(o) \/ UnlockFailed(o) \/ PromptCancelled(o)
           \/ Enroll(o) \/ EnrollWrap(o) \/ Revoke(o)
    PROVE  TimelyInv'
<1>1. /\ TabTimely(TabOf[o]) /\ OperationTimely(o) /\ op[o] \in OpState
      /\ save[o] \in SaveState /\ tab[TabOf[o]] \in TabState
  BY AroundOperation DEF TimelyInv
<1>2. UNCHANGED <<vault, tab, wiped>>
  BY DEF ImportEnd, Persist, Receive, SaveRejected, SaveUnheard, Unanswered,
         Respond, UnlockFailed, PromptCancelled, Enroll, EnrollWrap, Revoke, store,
         clientVars
<1>3. /\ op' = [op EXCEPT ![o] = op'[o]] /\ save' = [save EXCEPT ![o] = save'[o]]
  <2>1. op \in [Saves -> OpState] /\ save \in [Saves -> SaveState]
    BY DEF ClientInv, TypeOK, StoreTypeOK
  <2>2. UNCHANGED op \/ \E new : op' = [op EXCEPT ![o] = new]
    <3>1. CASE Persist(o) \/ EnrollWrap(o)
      BY <2>1, <3>1 DEF Persist, EnrollWrap
    <3> QED
      BY <3>1 DEF ImportEnd, SaveRejected, SaveUnheard, Unanswered, UnlockFailed,
                  PromptCancelled, Enroll, Revoke, clientVars
  <2>3. UNCHANGED save \/ \E new : save' = [save EXCEPT ![o] = new]
    BY DEF ImportEnd, Persist, Receive, SaveRejected, SaveUnheard, Unanswered,
           Respond, UnlockFailed, PromptCancelled, Enroll, EnrollWrap, Revoke, store
  <2> QED
    BY <2>1, <2>2, <2>3
<1>4. save'[o].blob.key = "dek"
  <2>1. save \in [Saves -> SaveState]
    BY DEF ClientInv, TypeOK, StoreTypeOK
  <2>2. CASE Persist(o)
    BY <1>1, <2>1, <2>2 DEF Persist, Receive, OperationTimely
  <2>3. CASE Revoke(o)
    BY <1>1, <2>1, <2>3 DEF Revoke, Receive, TabTimely, TabState, Session, Envelope
  <2>4. CASE SaveRejected(o) \/ Unanswered(o)
    BY <2>1, <2>4, StoredIsReadable DEF SaveRejected, Unanswered, Respond
  <2>5. CASE \/ ImportEnd(o) \/ SaveUnheard(o) \/ UnlockFailed(o)
             \/ PromptCancelled(o) \/ Enroll(o) \/ EnrollWrap(o)
    <3>1. UNCHANGED save
      BY <2>5 DEF ImportEnd, SaveUnheard, UnlockFailed, PromptCancelled, Enroll,
                  EnrollWrap, store
    <3> QED
      BY <1>1, <3>1 DEF OperationTimely
  <2> QED
    BY <2>2, <2>3, <2>4, <2>5
<1>5. op'[o].blob.key = "dek" /\ op'[o].session.envelope.key = "dek"
  <2>1. op \in [Saves -> OpState]
    BY DEF ClientInv, TypeOK
  <2>2. CASE Persist(o)
    BY <1>1, <2>1, <2>2 DEF Persist, OperationTimely, OpState
  <2>3. CASE Revoke(o)
    BY <1>1, <2>1, <2>3, StoredIsReadable
       DEF Revoke, NoOp, TabTimely, TabState, Session, Envelope
  <2>4. CASE Enroll(o)
    BY <1>1, <2>1, <2>4, StoredIsReadable DEF Enroll, NoOp, TabTimely
  <2>5. CASE EnrollWrap(o)
    BY <1>1, <2>1, <2>5 DEF EnrollWrap, OperationTimely, OpState, Session, Envelope
  <2>6. CASE Unanswered(o)
    BY <1>1, <2>6 DEF Unanswered, clientVars, OperationTimely
  <2>7. CASE \/ ImportEnd(o) \/ SaveRejected(o) \/ SaveUnheard(o)
             \/ UnlockFailed(o) \/ PromptCancelled(o)
    <3>1. op'[o] = NoOp
      BY <2>1, <2>7 DEF ImportEnd, SaveRejected, SaveUnheard, UnlockFailed,
                        PromptCancelled
    <3> QED
      BY <3>1, StoredIsReadable
  <2> QED
    BY <2>2, <2>3, <2>4, <2>5, <2>6, <2>7
<1> QED
  BY <1>1, <1>2, <1>3, <1>4, <1>5, TimelyOperations

(* The row takes what a request carries. *)
LEMMA TimelyServer ==
    ASSUME ClientInv, TimelyInv, late = {}, NEW o \in Saves, ServerStep(o)
    PROVE  TimelyInv'
<1>1. OperationTimely(o) /\ save[o] \in SaveState /\ vault.blob.key = "dek"
  BY AroundOperation DEF TimelyInv
<1>2. UNCHANGED <<tab, op, wiped>>
  BY DEF ServerStep, clientVars
<1>3. vault'.blob.key = "dek" /\ \A p \in Saves : save'[p].blob = save[p].blob
  <2>1. CASE CheckVersion(o)
    BY <1>1, <2>1 DEF CheckVersion, ClientInv, TypeOK, StoreTypeOK, SaveState
  <2>2. CASE WriteRow(o)
    <3>1. vault'.blob = save[o].blob
      BY <2>2 DEF WriteRow
    <3>2. save' = [save EXCEPT ![o].pc = "ok"]
      BY <2>2 DEF WriteRow, Answer
    <3> QED
      BY <1>1, <3>1, <3>2 DEF OperationTimely, ClientInv, TypeOK, StoreTypeOK, SaveState
  <2>3. CASE SaveError(o)
    BY <1>1, <2>3 DEF SaveError, Answer, ClientInv, TypeOK, StoreTypeOK, SaveState
  <2> QED
    BY <2>1, <2>2, <2>3 DEF ServerStep, HandleSave
<1> QED
  BY <1>1, <1>2, <1>3 DEF TimelyInv, TabTimely, OperationTimely, HasSession

LEMMA TimelyLocks ==
    ASSUME ClientInv, TimelyInv, late = {}, NEW t \in Tabs, Lock(t) \/ Peek(t)
    PROVE  TimelyInv'
<1>1. \A u \in Tabs : TabTimely(u)'
  <2>1. CASE Lock(t)
    BY <2>1, StoredIsReadable
       DEF Lock, ClientInv, TypeOK, TabState, TimelyInv, TabTimely, HasSession
  <2>2. CASE Peek(t)
    BY <2>2 DEF Peek, ClientInv, TypeOK, TabState, TimelyInv, TabTimely, HasSession
  <2> QED
    BY <2>1, <2>2
<1>2. UNCHANGED <<vault, op, save>>
  BY DEF Lock, Peek, store
<1> QED
  BY <1>1, <1>2 DEF TimelyInv, OperationTimely

LEMMA TimelyNext == ClientInv /\ TimelyInv /\ [Next]_vars => TimelyInv'
<1> SUFFICES ASSUME ClientInv, TimelyInv, [Next]_vars, late' = {}
             PROVE  TimelyInv'
  BY DEF TimelyInv
<1>1. CASE UNCHANGED vars
  BY <1>1 DEF vars, store, TimelyInv, TabTimely, OperationTimely, HasSession
<1>2. ASSUME NEW o \in Saves, Operate(o) \/ ServerStep(o) PROVE late = {}
  BY <1>2 DEF Operate, AddEntry, Import, ImportNext, Seal, ImportEnd, Persist,
              SaveResolved, SaveRejected, SaveUnheard, Unanswered, Unlock, UnlockOpen,
              UnlockFailed, UnlockWithPasskey, PasskeyOpen, OpenSession, Enroll,
              EnrollWrap, PromptCancelled, Revoke, ServerStep, clientVars
<1>3. ASSUME NEW o \in Saves,
             \/ \E e \in Edits : AddEntry(o, e)
             \/ \E items \in SUBSET Edits : Import(o, items)
             \/ ImportNext(o)
      PROVE  TimelyInv'
  <2>1. PICK kind, base, e, rest : Seal(o, kind, base, e, rest)
    BY <1>3 DEF AddEntry, Import, ImportNext
  <2>2. HasSession(TabOf[o])
    BY <1>3 DEF AddEntry, Import, ImportNext, CanEdit
  <2>3. late = {}
    BY <1>2, <1>3 DEF Operate
  <2> QED
    BY <2>1, <2>2, <2>3, TimelySeals
<1>4. ASSUME NEW o \in Saves, Operate(o) PROVE TimelyInv'
  BY <1>2, <1>3, <1>4, TimelyAnswer, TimelyUnlockBegins, TimelyOpens, TimelyCarried
     DEF Operate, UnlockOpen, PasskeyOpen
<1>5. ASSUME NEW t \in Tabs, Lock(t) \/ Peek(t) PROVE late = {}
  BY <1>5 DEF Lock, Peek
<1> QED
  BY <1>1, <1>2, <1>4, <1>5, TimelyServer, TimelyLocks DEF Next

(* Wherever locks fall, however many operations a tab runs at once and     *)
(* whatever they are, it takes an answer after a lock to do harm: until    *)
(* one comes, the stored vault can be read, locked tabs hold nothing and   *)
(* open ones a live DEK.                                                   *)
THEOREM LateAnswersAloneHarm == Spec => []OnlyLateAnswersHarm
<1>1. ClientInv /\ TimelyInv => OnlyLateAnswersHarm
  <2> SUFFICES ASSUME ClientInv, TimelyInv, late = {}
               PROVE  VaultStaysReadable /\ LockedTabHoldsNothing /\ OpenTabHoldsLiveKey
    BY DEF OnlyLateAnswersHarm
  <2> QED
    BY DEF TimelyInv, TabTimely, ClientInv, TabInv, TabKnown, VaultStaysReadable,
           LockedTabHoldsNothing, OpenTabHoldsLiveKey
<1> QED
  BY <1>1, TimelyInit, TimelyNext, ClientInvariant, PTL DEF Spec

(* Where a tab has one operation at a time, nothing is imported and nobody *)
(* unlocks by passkey, a tab that has the version of the row shows what the*)
(* row holds, until two writes overlap.                                    *)
THEOREM CurrentTabsShowVault ==
    ASSUME OneOperationPerTab, "import" \notin Actions, "passkey" \notin Actions
    PROVE  Spec => []CurrentTabShowsStoredVault
<1>1. ClientInv => CurrentTabShowsStoredVault
  BY DEF Plain, ClientInv, TabInv, TabFollows, CurrentTabShowsStoredVault
<1> QED
  BY <1>1, ClientInvariant, PTL

(* And no save takes out of the stored vault what another tab had put      *)
(* there, however many tabs there are.                                     *)
THEOREM SavesKeepEntries ==
    ASSUME OneOperationPerTab, "import" \notin Actions, "passkey" \notin Actions
    PROVE  Spec => SerialSavesKeepEntries
<1>1. ASSUME ClientInv, [Next]_vars, history' = "serial"
      PROVE  vault.blob.entries \subseteq vault'.blob.entries
  <2>1. CASE \E o \in Saves : WriteRow(o) /\ UNCHANGED clientVars
    BY <1>1, <2>1, WriteOverChecked DEF Plain
  <2>2. CASE UNCHANGED vault
    BY <2>2
  <2>3. ASSUME NEW o \in Saves, Operate(o)
        PROVE  UNCHANGED vault
    BY <2>3 DEF Operate, AddEntry, Import, ImportNext, Seal, ImportEnd, Persist,
                Receive, SaveResolved, SaveRejected, SaveUnheard, Unanswered, Respond,
                Unlock, UnlockOpen, UnlockFailed, UnlockWithPasskey, PasskeyOpen,
                OpenSession, Enroll, EnrollWrap, PromptCancelled, Revoke, store
  <2>4. ASSUME NEW o \in Saves, ServerStep(o)
        PROVE  UNCHANGED vault \/ (WriteRow(o) /\ UNCHANGED clientVars)
    BY <2>4 DEF ServerStep, HandleSave, CheckVersion, SaveError
  <2>5. ASSUME NEW t \in Tabs, Lock(t) \/ Peek(t)
        PROVE  UNCHANGED vault
    BY <2>5 DEF Lock, Peek, store
  <2> QED
    BY <1>1, <2>1, <2>2, <2>3, <2>4, <2>5 DEF Next, vars, store
<1>2. ClientInv /\ [Next]_vars =>
        [history' = "serial" => vault.blob.entries \subseteq vault'.blob.entries]_vars
  BY <1>1
<1> QED
  BY <1>2, ClientInvariant, PTL DEF Spec, SerialSavesKeepEntries

(* Whatever the clients do, the vault row sees requests and nothing else:  *)
(* what is proved of the row for any clients holds for these.              *)
THEOREM ClientsImplementStore == Spec => StoreSpec
<1>1. Init => StoreInit
  BY DEF Init
<1>2. ASSUME ClientInv, [Next]_vars
      PROVE  [StoreNext]_storeVars
  <2>1. ASSUME NEW o \in Saves, Persist(o) \/ Revoke(o)
        PROVE  \E base \in Versions, blob \in Envelope : Receive(o, base, blob)
    <3>1. /\ tab[TabOf[o]] \in TabState /\ op[o] \in OpState /\ TabInv(TabOf[o])
      BY <1>2, AroundOperation
    <3>2. tab[TabOf[o]].version \in Versions
      BY <3>1, VaultClientAssumption DEF TabState, TabInv, TabKnown, Versions
    <3>3. CASE Persist(o)
      BY <3>1, <3>2, <3>3 DEF Persist, OpState
    <3>4. CASE Revoke(o)
      <4> DEFINE blob == [tab[TabOf[o]].session.envelope EXCEPT !.prf = "none"]
      <4>1. blob \in Envelope
        BY <3>1 DEF TabState, Session, Envelope
      <4>2. Receive(o, tab[TabOf[o]].version, blob)
        BY <3>4 DEF Revoke
      <4> HIDE DEF blob
      <4> QED
        BY <3>2, <4>1, <4>2
    <3> QED
      BY <2>1, <3>3, <3>4
  <2>2. ASSUME NEW o \in Saves, SaveResolved(o) \/ SaveRejected(o) \/ Unanswered(o)
        PROVE  Respond(o)
    BY <2>2 DEF SaveResolved, SaveRejected, Unanswered
  <2>3. ASSUME NEW o \in Saves, ServerStep(o)
        PROVE  HandleSave(o)
    BY <2>3 DEF ServerStep
  <2>4. ASSUME NEW o \in Saves, Operate(o)
        PROVE  \/ Persist(o) \/ Revoke(o)
               \/ SaveResolved(o) \/ SaveRejected(o) \/ Unanswered(o)
               \/ UNCHANGED store
    BY <2>4 DEF Operate, AddEntry, Import, ImportNext, Seal, ImportEnd, SaveUnheard,
                Unlock, UnlockOpen, UnlockFailed, UnlockWithPasskey, PasskeyOpen,
                OpenSession, Enroll, EnrollWrap, PromptCancelled
  <2>5. ASSUME NEW t \in Tabs, Lock(t) \/ Peek(t)
        PROVE  UNCHANGED store
    BY <2>5 DEF Lock, Peek
  <2> QED
    BY <1>2, <2>1, <2>2, <2>3, <2>4, <2>5
       DEF Next, StoreNext, vars, store, storeVars
<1> QED
  BY <1>1, <1>2, ClientInvariant, PTL DEF Spec, StoreSpec
=============================================================================
