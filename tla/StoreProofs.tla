---------------------------- MODULE StoreProofs ----------------------------
(***************************************************************************)
(* What the vault service keeps, for any numbers of requests and rows: the *)
(* vault row, then the catalogue of entries with its tags, usage counts,   *)
(* edits of secrets and attachments.                                       *)
(*                                                                         *)
(* The version of the row alone is not inductive: a request past its check *)
(* carries a version of the past, so the invariant relates the version a   *)
(* checked request holds to the number of writes it had seen.              *)
(*                                                                         *)
(* In the catalogue too, what a request has read is worth something as     *)
(* long as nobody else has written: the invariants say so of the tags it   *)
(* has deleted, of the row of a secret it holds and of the attachments it  *)
(* has counted, and for how long.                                          *)
(*                                                                         *)
(* At the end, what is computed from entries and passwords: listings and   *)
(* their pages, characters to draw from, scores.                           *)
(***************************************************************************)
EXTENDS VaultStore, Catalogue, Search, Passwords, FiniteSetTheorems,
        SequenceTheorems, TLAPS

CheckedSaves == \A s \in Saves :
    save[s].pc = "checked" =>
        /\ save[s].seen <= writes
        /\ save[s].base <= save[s].seen + 1
        /\ history = "serial" => save[s].base = save[s].seen + 1
        /\ save[s].seen = writes => save[s].base = vault.version

StoreInv == StoreTypeOK /\ VersionWithinWrites /\ VersionCountsWrites /\ CheckedSaves

LEMMA StoreInitInv == StoreInit => StoreInv
BY VaultStoreAssumption
   DEF StoreInit, StoreInv, StoreTypeOK, VersionWithinWrites, VersionCountsWrites,
       CheckedSaves, NoSave, SaveState, Versions, Answered

LEMMA ReceiveInv ==
    ASSUME StoreInv, NEW s \in Saves, NEW base \in Versions, NEW blob \in Blobs,
           Receive(s, base, blob)
    PROVE  StoreInv'
BY VaultStoreAssumption
   DEF Receive, StoreInv, StoreTypeOK, VersionWithinWrites, VersionCountsWrites,
       CheckedSaves, SaveState, Versions, Answered

LEMMA CheckVersionInv ==
    ASSUME StoreInv, NEW s \in Saves, CheckVersion(s)
    PROVE  StoreInv'
<1> USE DEF CheckVersion, StoreInv, StoreTypeOK
<1>1. StoreTypeOK'
  <2>1. PICK pc \in {"checked", "conflict"} :
           save' = [save EXCEPT ![s].pc = pc, ![s].seen = writes]
    OBVIOUS
  <2>2. save[s] \in SaveState /\ writes \in Nat
    OBVIOUS
  <2>3. [save[s] EXCEPT !.pc = pc, !.seen = writes] \in SaveState
    BY <2>2 DEF SaveState, Answered
  <2>4. save' = [save EXCEPT ![s] = [save[s] EXCEPT !.pc = pc, !.seen = writes]]
    BY <2>1
  <2>5. save' \in [Saves -> SaveState]
    BY <2>3, <2>4
  <2> QED
    BY <2>5
<1>2. VersionWithinWrites' /\ VersionCountsWrites'
  BY DEF VersionWithinWrites, VersionCountsWrites
<1>3. CheckedSaves'
  BY DEF CheckedSaves, SaveState, Versions, VersionWithinWrites, VersionCountsWrites
<1> QED BY <1>1, <1>2, <1>3

LEMMA WriteRowInv ==
    ASSUME StoreInv, NEW s \in Saves, WriteRow(s)
    PROVE  StoreInv'
<1> USE DEF WriteRow, Answer, StoreInv, StoreTypeOK, SaveState, Versions, Answered
<1>1. StoreTypeOK'
  BY VaultStoreAssumption
<1>2. VersionWithinWrites' /\ VersionCountsWrites'
  BY VaultStoreAssumption DEF VersionWithinWrites, VersionCountsWrites, CheckedSaves
<1>3. CheckedSaves'
  BY VaultStoreAssumption DEF CheckedSaves
<1> QED BY <1>1, <1>2, <1>3

LEMMA SaveErrorInv ==
    ASSUME StoreInv, NEW s \in Saves, SaveError(s)
    PROVE  StoreInv'
BY DEF SaveError, Answer, StoreInv, StoreTypeOK, VersionWithinWrites, VersionCountsWrites,
       CheckedSaves, SaveState, Answered

LEMMA RespondInv ==
    ASSUME StoreInv, NEW s \in Saves, Respond(s)
    PROVE  StoreInv'
BY VaultStoreAssumption
   DEF Respond, StoreInv, StoreTypeOK, VersionWithinWrites, VersionCountsWrites,
       CheckedSaves, SaveState, Answered, NoSave, Versions

LEMMA RecoverRowInv ==
    ASSUME StoreInv, NEW blob \in Blobs, RecoverRow(blob)
    PROVE  StoreInv'
BY VaultStoreAssumption
   DEF RecoverRow, StoreInv, StoreTypeOK, VersionWithinWrites, VersionCountsWrites,
       CheckedSaves, SaveState, Versions

LEMMA StoreStepInv == StoreInv /\ [StoreNext]_storeVars => StoreInv'
<1> SUFFICES ASSUME StoreInv, [StoreNext]_storeVars PROVE StoreInv'
  OBVIOUS
<1>1. CASE UNCHANGED storeVars
  BY <1>1 DEF storeVars, StoreInv, StoreTypeOK, VersionWithinWrites,
              VersionCountsWrites, CheckedSaves
<1>2. ASSUME NEW s \in Saves, NEW base \in Versions, NEW blob \in Blobs,
             Receive(s, base, blob)
      PROVE  StoreInv'
  BY <1>2, ReceiveInv
<1>3. ASSUME NEW s \in Saves, HandleSave(s) PROVE StoreInv'
  BY <1>3, CheckVersionInv, WriteRowInv, SaveErrorInv DEF HandleSave
<1>4. ASSUME NEW s \in Saves, Respond(s) PROVE StoreInv'
  BY <1>4, RespondInv
<1>5. ASSUME NEW blob \in Blobs, RecoverRow(blob) PROVE StoreInv'
  BY <1>5, RecoverRowInv
<1> QED BY <1>1, <1>2, <1>3, <1>4, <1>5 DEF StoreNext

(* StoreInv holds in every reachable state, for any number of concurrent   *)
(* PUT /vault requests and recoveries.                                     *)
THEOREM StoreInvariant == StoreSpec => []StoreInv
BY StoreInitInv, StoreStepInv, PTL DEF StoreSpec

(* UpdateVault and RecoverAccount keep the row and the requests well typed.*)
THEOREM StoreTypeCorrect == StoreSpec => []StoreTypeOK
<1>1. StoreInv => StoreTypeOK
  BY DEF StoreInv
<1> QED BY <1>1, StoreInvariant, PTL

(* The vault's version never exceeds the number of writes plus one, even   *)
(* when UpdateVault writes over a row it did not read.                     *)
THEOREM VersionsBounded == StoreSpec => []VersionWithinWrites
<1>1. StoreInv => VersionWithinWrites
  BY DEF StoreInv
<1> QED BY <1>1, StoreInvariant, PTL

(* Until a save commits over a row it had not read, the version of the row *)
(* is the number of its writes plus one.                                   *)
THEOREM VersionsCountWrites == StoreSpec => []VersionCountsWrites
<1>1. StoreInv => VersionCountsWrites
  BY DEF StoreInv
<1> QED BY <1>1, StoreInvariant, PTL

(* UpdateVault is a compare-and-swap for every request nobody overtakes    *)
(* between its version check and its UPDATE, whatever overlapped before.   *)
THEOREM UnopposedSavesAreSafe == StoreSpec => UnopposedSaveIsCompareAndSwap
<1>1. ASSUME StoreInv, [StoreNext]_storeVars, NEW s \in Saves,
             save[s].pc = "checked", save'[s].pc = "ok", save[s].seen = writes
      PROVE  /\ save[s].base = vault.version
             /\ vault'.version = vault.version + 1
  <2>1. WriteRow(s)
    <3>1. ASSUME NEW t \in Saves, WriteRow(t) PROVE t = s
      BY <1>1, <3>1 DEF WriteRow, Answer, StoreInv, StoreTypeOK
    <3>2. ASSUME NEW t \in Saves, CheckVersion(t) \/ SaveError(t) \/ Respond(t)
          PROVE  FALSE
      <4>1. CASE CheckVersion(t)
        BY <1>1, <4>1 DEF CheckVersion, StoreInv, StoreTypeOK, SaveState
      <4>2. CASE SaveError(t)
        BY <1>1, <4>2 DEF SaveError, Answer, StoreInv, StoreTypeOK, SaveState
      <4>3. CASE Respond(t)
        BY <1>1, <4>3 DEF Respond, NoSave, StoreInv, StoreTypeOK, SaveState, Answered
      <4> QED BY <3>2, <4>1, <4>2, <4>3
    <3>3. ASSUME NEW t \in Saves, NEW base \in Versions, NEW blob \in Blobs,
                 Receive(t, base, blob)
          PROVE  FALSE
      BY <1>1, <3>3 DEF Receive, StoreInv, StoreTypeOK
    <3>4. ASSUME NEW blob \in Blobs, RecoverRow(blob) PROVE FALSE
      BY <1>1, <3>4 DEF RecoverRow
    <3>5. ~UNCHANGED storeVars
      BY <1>1 DEF storeVars
    <3> QED BY <1>1, <3>1, <3>2, <3>3, <3>4, <3>5 DEF StoreNext, HandleSave
  <2>2. save[s].base = vault.version
    BY <1>1 DEF StoreInv, CheckedSaves
  <2> QED BY <2>1, <2>2 DEF WriteRow
<1>2. StoreInv /\ [StoreNext]_storeVars =>
        [\A s \in Saves :
            (save[s].pc = "checked" /\ save'[s].pc = "ok" /\ save[s].seen = writes)
              => /\ save[s].base = vault.version
                 /\ vault'.version = vault.version + 1]_storeVars
  BY <1>1
<1> QED BY <1>2, StoreInvariant, PTL DEF StoreSpec, UnopposedSaveIsCompareAndSwap

-----------------------------------------------------------------------------
(* A request works on an entry, or a secret, that was there. *)
RequestsKnow ==
    \A r \in Requests :
        /\ request[r].pc \in {"checked", "locked", "clearing", "cleared",
                               "uploading"} =>
              request[r].entry \in Entries /\ entry[request[r].entry] # "none"
        /\ request[r].pc \in {"clearing", "cleared"} => "tags" \in request[r].sets
        /\ request[r].pc = "editing" =>
              /\ request[r].secret \in Secrets
              /\ secret[request[r].secret].state # "none"

(* An entry that is not there has nothing. *)
EmptyUnlessLive ==
    \A e \in Entries : ~Live(e) =>
        tagged[e] = {} /\ wanted[e] = {} /\ attached[e] = 0

(* A secret that is yet to come has not been edited. *)
UntouchedSecrets ==
    \A s \in Secrets : secret[s].state = "none" =>
        secret[s] = NoSecret /\ wrote[s] = [c \in Columns |-> None]

(* An entry has no tag twice; what a transaction has deleted is there for  *)
(* the others until it commits, and no two of them have deleted rows of    *)
(* the same tag.                                                           *)
OneRowPerTag ==
    \A e \in Entries : \A x, y \in tagged[e] : x.tag = y.tag => x = y

DeletedAreThere ==
    \A q \in Requests :
        request[q].pc = "cleared" => request[q].rows \subseteq tagged[request[q].entry]

LocksApart ==
    \A p, q \in Requests :
        request[p].pc = "cleared" /\ request[q].pc = "cleared" /\ p # q =>
            TagsOf(request[p].rows) \cap TagsOf(request[q].rows) = {}

TagRows == OneRowPerTag /\ DeletedAreThere /\ LocksApart

Core ==
    /\ CatalogueTypeOK
    /\ UsageCountsEntries
    /\ RequestsKnow
    /\ EmptyUnlessLive
    /\ UntouchedSecrets

Facts == Core /\ TagRows

LEMMA IdleIsARequest == Idle \in Request /\ Idle.pc = "idle"
BY DEF Idle, Request, NoRow, Owner, EditOf

LEMMA FactsInit == CatalogueInit => Facts
<1> SUFFICES ASSUME CatalogueInit PROVE Facts
  OBVIOUS
<1>1. CatalogueTypeOK
  BY IdleIsARequest
     DEF CatalogueInit, CatalogueTypeOK, NoSecret, NoRow, Owner, EditOf, Columns
<1>2. UsageCountsEntries
  <2> SUFFICES ASSUME NEW t \in Tags
               PROVE usage[t] = Cardinality({e \in Entries : t \in TagsOf(tagged[e])})
    BY DEF UsageCountsEntries
  <2>1. {e \in Entries : t \in TagsOf(tagged[e])} = {} /\ usage[t] = 0
    BY DEF CatalogueInit, TagsOf
  <2> QED
    BY <2>1, FS_EmptySet
<1>3. RequestsKnow
  BY IdleIsARequest DEF CatalogueInit, RequestsKnow
<1>4. EmptyUnlessLive /\ UntouchedSecrets
  BY DEF CatalogueInit, EmptyUnlessLive, UntouchedSecrets
<1>5. TagRows
  BY IdleIsARequest
     DEF CatalogueInit, TagRows, OneRowPerTag, DeletedAreThere, LocksApart
<1> QED
  BY <1>1, <1>2, <1>3, <1>4, <1>5 DEF Facts, Core

-----------------------------------------------------------------------------
(* Usage counts. *)
LEMMA CarriersFinite ==
    ASSUME NEW t
    PROVE /\ IsFiniteSet({e \in Entries : t \in TagsOf(tagged[e])})
          /\ Cardinality({e \in Entries : t \in TagsOf(tagged[e])}) \in Nat
BY CatalogueAssumption, FS_Subset, FS_CardinalityType

(* Of a tag the trigger counts at most one row of an entry. *)
LEMMA RowsWithTag ==
    ASSUME OneRowPerTag, NEW e \in Entries, NEW gone \in SUBSET tagged[e], NEW t
    PROVE Cardinality({row \in gone : row.tag = t})
             = IF t \in TagsOf(gone) THEN 1 ELSE 0
<1> DEFINE counted == {row \in gone : row.tag = t}
<1>1. CASE t \in TagsOf(gone)
  <2>1. PICK row \in gone : row.tag = t
    BY <1>1 DEF TagsOf
  <2>2. counted = {row}
    BY <2>1 DEF OneRowPerTag
  <2> HIDE DEF counted
  <2>3. Cardinality(counted) = 1
    BY <2>2, FS_Singleton
  <2> QED
    BY <1>1, <2>3 DEF counted
<1>2. CASE t \notin TagsOf(gone)
  <2>1. counted = {}
    BY <1>2 DEF TagsOf
  <2> HIDE DEF counted
  <2>2. Cardinality(counted) = 0
    BY <2>1, FS_EmptySet
  <2> QED
    BY <1>2, <2>2 DEF counted
<1> QED
  BY <1>1, <1>2

LEMMA TagAmong ==
    ASSUME NEW t, NEW ts
    PROVE Cardinality({t} \cap ts) = IF t \in ts THEN 1 ELSE 0
<1>1. CASE t \in ts
  <2>1. {t} \cap ts = {t}
    BY <1>1
  <2>2. Cardinality({t} \cap ts) = 1
    BY <2>1, FS_Singleton
  <2> QED
    BY <1>1, <2>2
<1>2. CASE t \notin ts
  <2>1. {t} \cap ts = {}
    BY <1>2
  <2>2. Cardinality({t} \cap ts) = 0
    BY <2>1, FS_EmptySet
  <2> QED
    BY <1>2, <2>2
<1> QED
  BY <1>1, <1>2

LEMMA RowsOfTags ==
    ASSUME NEW ts \in SUBSET Tags, NEW i \in Inserts
    PROVE /\ Rows(ts, i) \in SUBSET TagRow
          /\ TagsOf(Rows(ts, i)) = ts
          /\ \A x, y \in Rows(ts, i) : x.tag = y.tag => x = y
<1> DEFINE new == Rows(ts, i)
<1>1. \A x : x \in new <=> \E t \in ts : x = [tag |-> t, by |-> i]
  BY DEF Rows
<1>2. \A x \in new : x \in TagRow /\ x.tag \in ts
  BY <1>1 DEF TagRow
<1>3. \A t \in ts : \E x \in new : x.tag = t
  <2> SUFFICES ASSUME NEW t \in ts PROVE \E x \in new : x.tag = t
    OBVIOUS
  <2>1. [tag |-> t, by |-> i] \in new
    BY <1>1
  <2> QED
    BY <2>1
<1>4. \A x, y \in new : x.tag = y.tag => x = y
  BY <1>1
<1> HIDE DEF new
<1>5. TagsOf(new) = ts
  BY <1>2, <1>3 DEF TagsOf
<1> QED
  BY <1>2, <1>4, <1>5 DEF new

(* The trigger counts what changes: where an entry has one row of a tag,   *)
(* and gets none of a tag it keeps.                                        *)
LEMMA Recounted ==
    ASSUME Facts, NEW e \in Entries, NEW gone \in SUBSET tagged[e],
           NEW new \in SUBSET TagRow, NEW ts, TagsOf(new) = ts,
           ts \cap TagsOf(tagged[e] \ gone) = {},
           tagged' = [tagged EXCEPT ![e] = (tagged[e] \ gone) \cup new],
           usage' = Counted(gone, ts)
    PROVE /\ UsageCountsEntries' /\ usage' \in [Tags -> Nat]
          /\ tagged' \in [Entries -> SUBSET TagRow]
<1>0. /\ tagged \in [Entries -> SUBSET TagRow] /\ usage \in [Tags -> Nat]
      /\ DOMAIN usage' = Tags /\ usage' = [t \in Tags |-> usage'[t]]
  BY DEF Facts, Core, CatalogueTypeOK, Counted
<1>1. ASSUME NEW t \in Tags
      PROVE /\ usage'[t] = Cardinality({x \in Entries : t \in TagsOf(tagged'[x])})
            /\ usage'[t] \in Nat
  <2> DEFINE before == {x \in Entries : t \in TagsOf(tagged[x])}
             after == {x \in Entries : t \in TagsOf(tagged'[x])}
             lost == Cardinality({row \in gone : row.tag = t})
             won == Cardinality({t} \cap ts)
  <2>1. usage[t] = Cardinality(before) /\ IsFiniteSet(before) /\ usage[t] \in Nat
    BY CarriersFinite, <1>0 DEF Facts, Core, UsageCountsEntries
  <2>2. usage'[t] = (usage[t] - lost) + won
    BY DEF Counted
  <2>3. /\ lost = IF t \in TagsOf(gone) THEN 1 ELSE 0
        /\ won = IF t \in ts THEN 1 ELSE 0
    BY RowsWithTag, TagAmong DEF Facts, TagRows
  <2>4. \A x \in Entries \ {e} : x \in after <=> x \in before
    BY <1>0
  <2>5. e \in before <=> t \in TagsOf(tagged[e])
    OBVIOUS
  <2>6. e \in after <=> t \in TagsOf(tagged[e] \ gone) \/ t \in ts
    BY <1>0 DEF TagsOf
  <2>7. t \in TagsOf(tagged[e] \ gone) <=> t \in TagsOf(tagged[e]) /\ t \notin TagsOf(gone)
    BY DEF Facts, TagRows, OneRowPerTag, TagsOf
  <2>8. t \in TagsOf(gone) => t \in TagsOf(tagged[e])
    BY DEF TagsOf
  <2>9. before \subseteq Entries /\ after \subseteq Entries
    OBVIOUS
  <2> HIDE DEF before, after, lost, won
  <2>10. CASE t \notin TagsOf(gone) /\ t \in ts
    <3>1. after = before \cup {e} /\ e \notin before
      BY <2>4, <2>5, <2>6, <2>7, <2>9, <2>10
    <3>2. Cardinality(before \cup {e}) = Cardinality(before) + 1
      BY <2>1, <3>1, FS_AddElement
    <3>3. lost = 0 /\ won = 1
      BY <2>3, <2>10
    <3>4. usage'[t] = Cardinality(after) /\ usage'[t] \in Nat
      BY <2>1, <2>2, <3>1, <3>2, <3>3
    <3> QED
      BY <3>4 DEF after
  <2>11. CASE t \in TagsOf(gone) /\ t \notin ts
    <3>1. after = before \ {e} /\ e \in before
      BY <2>4, <2>5, <2>6, <2>7, <2>8, <2>9, <2>11
    <3>2. /\ Cardinality(before \ {e}) = Cardinality(before) - 1
          /\ IsFiniteSet(before \ {e})
      BY <2>1, <3>1, FS_RemoveElement
    <3>3. Cardinality(before \ {e}) \in Nat
      BY <3>2, FS_CardinalityType
    <3>4. lost = 1 /\ won = 0
      BY <2>3, <2>11
    <3>5. usage'[t] = Cardinality(after) /\ usage'[t] \in Nat
      BY <2>1, <2>2, <3>1, <3>2, <3>3, <3>4
    <3> QED
      BY <3>5 DEF after
  <2>12. CASE (t \in TagsOf(gone)) <=> (t \in ts)
    <3>1. after = before
      BY <2>4, <2>5, <2>6, <2>7, <2>8, <2>9, <2>12
    <3>2. lost = won /\ won \in {0, 1}
      BY <2>3, <2>12
    <3>3. usage'[t] = Cardinality(after) /\ usage'[t] \in Nat
      BY <2>1, <2>2, <3>1, <3>2
    <3> QED
      BY <3>3 DEF after
  <2> QED
    BY <2>10, <2>11, <2>12
<1>2. UsageCountsEntries'
  BY <1>1 DEF UsageCountsEntries
<1>3. tagged' \in [Entries -> SUBSET TagRow]
  BY <1>0
<1> QED
  BY <1>0, <1>1, <1>2, <1>3

LEMMA CountsStay ==
    ASSUME Facts, UNCHANGED <<tagged, usage>>
    PROVE UsageCountsEntries' /\ usage' \in [Tags -> Nat]
                              /\ tagged' \in [Entries -> SUBSET TagRow]
BY DEF Facts, Core, UsageCountsEntries, CatalogueTypeOK

-----------------------------------------------------------------------------
(* Requests. *)
LEMMA DoneRequests ==
    ASSUME Facts, NEW r \in Requests, Done(r)
    PROVE /\ request' \in [Requests -> Request]
          /\ \A q \in Requests : request'[q] = IF q = r THEN Idle ELSE request[q]
BY IdleIsARequest DEF Facts, Core, CatalogueTypeOK, Done

LEMMA StartRequests ==
    ASSUME Facts, NEW r \in Requests, NEW record \in Request, Start(r, record)
    PROVE /\ request' \in [Requests -> Request]
          /\ request[r].pc = "idle"
          /\ \A q \in Requests : request'[q] = IF q = r THEN record ELSE request[q]
BY DEF Facts, Core, CatalogueTypeOK, Start, At

(* What one request does, others know as before, as long as nothing ceases *)
(* to have been there.                                                     *)
LEMMA OthersKnow ==
    ASSUME Facts, NEW r \in Requests, NEW record,
           \A q \in Requests : request'[q] = IF q = r THEN record ELSE request[q],
           \A e \in Entries : entry[e] # "none" => entry'[e] # "none",
           \A s \in Secrets : secret[s].state # "none" => secret'[s].state # "none",
           record.pc \in {"checked", "locked", "clearing", "cleared",
                               "uploading"} =>
              record.entry \in Entries /\ entry'[record.entry] # "none",
           record.pc \in {"clearing", "cleared"} => "tags" \in record.sets,
           record.pc = "editing" =>
              /\ record.secret \in Secrets
              /\ secret'[record.secret].state # "none"
    PROVE RequestsKnow'
<1>1. ASSUME NEW q \in Requests
      PROVE /\ request'[q].pc \in {"checked", "locked", "clearing", "cleared",
                               "uploading"} =>
                  request'[q].entry \in Entries /\ entry'[request'[q].entry] # "none"
            /\ request'[q].pc \in {"clearing", "cleared"} =>
                  "tags" \in request'[q].sets
            /\ request'[q].pc = "editing" =>
                  /\ request'[q].secret \in Secrets
                  /\ secret'[request'[q].secret].state # "none"
  <2>1. CASE q = r
    BY <2>1
  <2>2. CASE q # r
    BY <2>2 DEF Facts, Core, RequestsKnow
  <2> QED
    BY <2>1, <2>2
<1> QED
  BY <1>1 DEF RequestsKnow

LEMMA AllKnow ==
    ASSUME Facts, UNCHANGED request,
           \A e \in Entries : entry[e] # "none" => entry'[e] # "none",
           \A s \in Secrets : secret[s].state # "none" => secret'[s].state # "none"
    PROVE RequestsKnow'
BY DEF Facts, Core, RequestsKnow

LEMMA DoneKnows ==
    ASSUME Facts, NEW r \in Requests, Done(r),
           \A e \in Entries : entry[e] # "none" => entry'[e] # "none",
           \A s \in Secrets : secret[s].state # "none" => secret'[s].state # "none"
    PROVE RequestsKnow'
BY DoneRequests, OthersKnow, IdleIsARequest

-----------------------------------------------------------------------------
(* What Facts is made of, action by action.  First those that only read    *)
(* something.                                                              *)
Concerns == ({"tags", "files"} \X Entries) \cup ({"secret"} \X Secrets)

LEMMA OverlapsType ==
    ASSUME Facts, NEW what \in Concerns, NEW others, Overlaps(what, others)
    PROVE overlaps' \in SUBSET Concerns /\ overlaps \subseteq overlaps'
BY DEF Overlaps, Facts, Core, CatalogueTypeOK, Concerns

LEMMA OnlyReading ==
    ASSUME Facts,
           UNCHANGED <<entry, tag, usage, tagged, secret, attached, wanted, wrote>>,
           request' \in [Requests -> Request], RequestsKnow',
           overlaps' \in SUBSET Concerns
    PROVE Core'
<1>1. CatalogueTypeOK'
  BY DEF Facts, Core, CatalogueTypeOK, Concerns
<1>2. EmptyUnlessLive' /\ UntouchedSecrets'
  BY DEF Facts, Core, EmptyUnlessLive, UntouchedSecrets, Live
<1> QED
  BY <1>1, <1>2, CountsStay DEF Facts, Core

LEMMA OverlapsStayTyped ==
    ASSUME Facts, UNCHANGED overlaps
    PROVE overlaps' \in SUBSET Concerns
BY DEF Facts, Core, CatalogueTypeOK, Concerns

LEMMA CheckEntryFacts ==
    ASSUME Facts, NEW r \in Requests, NEW e \in Entries,
           NEW sets \in SUBSET {"columns", "tags"}, NEW ts \in SUBSET Tags,
           CheckEntry(r, e, sets, ts)
    PROVE Core'
<1> DEFINE record == [Idle EXCEPT !.pc = "checked", !.entry = e, !.sets = sets,
                                  !.tags = ts]
<1>1. /\ record \in Request /\ record.pc = "checked" /\ record.entry = e
  BY DEF Idle, Request, NoRow, Owner, EditOf
<1>2. /\ Start(r, record) /\ entry[e] = "live"
      /\ UNCHANGED <<entry, tag, usage, tagged, secret, attached, wanted, wrote,
                     overlaps>>
  BY DEF CheckEntry, Live
<1> HIDE DEF record
<1>3. RequestsKnow'
  BY <1>1, <1>2, StartRequests, OthersKnow
<1> QED
  BY <1>1, <1>2, <1>3, StartRequests, OverlapsStayTyped, OnlyReading

LEMMA WriteColumnsFacts ==
    ASSUME Facts, NEW r \in Requests, WriteColumns(r)
    PROVE Core'
<1> DEFINE record == [request[r] EXCEPT !.pc = "locked"]
<1>1. request[r] \in Request
  BY DEF Facts, Core, CatalogueTypeOK
<1>2. record \in Request /\ record.pc = "locked" /\ record.entry = request[r].entry
  BY <1>1 DEF Request
<1>3. /\ \A q \in Requests : request'[q] = IF q = r THEN record ELSE request[q]
      /\ request' = [request EXCEPT ![r] = record]
  BY DEF WriteColumns, GoTo, Facts, Core, CatalogueTypeOK
<1>4. /\ request[r].entry \in Entries /\ entry[request[r].entry] # "none"
      /\ UNCHANGED <<entry, tag, usage, tagged, secret, attached, wanted, wrote,
                     overlaps>>
  BY DEF WriteColumns, At, Facts, Core, RequestsKnow
<1> HIDE DEF record
<1>5. request' \in [Requests -> Request]
  BY <1>2, <1>3 DEF Facts, Core, CatalogueTypeOK
<1>6. RequestsKnow'
  BY <1>2, <1>3, <1>4, OthersKnow
<1> QED
  BY <1>4, <1>5, <1>6, OverlapsStayTyped, OnlyReading

LEMMA ClearTagsFacts ==
    ASSUME Facts, NEW r \in Requests, ClearTags(r)
    PROVE /\ Core' /\ overlaps \subseteq overlaps'
          /\ request[r].entry \in Entries
          /\ \A q \in Requests \ {r} : request'[q] = request[q]
          /\ request'[r].pc = "clearing" /\ request'[r].entry = request[r].entry
          /\ request'[r].rows = tagged[request[r].entry]
          /\ request'[r].row = request[r].row
<1> DEFINE record == [request[r] EXCEPT !.pc = "clearing",
                                        !.rows = tagged[request[r].entry]]
<1>1. request[r] \in Request
  BY DEF Facts, Core, CatalogueTypeOK
<1>2. /\ request[r].entry \in Entries /\ entry[request[r].entry] # "none"
      /\ "tags" \in request[r].sets
  BY DEF ClearTags, ReadyToClear, At, Facts, Core, RequestsKnow
<1>3. tagged[request[r].entry] \in SUBSET TagRow
  BY <1>2 DEF Facts, Core, CatalogueTypeOK
<1>4. /\ record \in Request /\ record.pc = "clearing"
      /\ record.entry = request[r].entry /\ record.sets = request[r].sets
      /\ record.rows = tagged[request[r].entry] /\ record.row = request[r].row
  BY <1>1, <1>3 DEF Request
<1>5. /\ request' = [request EXCEPT ![r] = record]
      /\ Overlaps(<<"tags", request[r].entry>>, Clearing(request[r].entry))
      /\ UNCHANGED <<entry, tag, usage, tagged, secret, attached, wanted, wrote>>
  BY DEF ClearTags
<1> HIDE DEF record
<1>6. /\ request' \in [Requests -> Request]
      /\ \A q \in Requests : request'[q] = IF q = r THEN record ELSE request[q]
  BY <1>4, <1>5 DEF Facts, Core, CatalogueTypeOK
<1>7. RequestsKnow'
  BY <1>2, <1>4, <1>5, <1>6, OthersKnow
<1>8. overlaps' \in SUBSET Concerns /\ overlaps \subseteq overlaps'
  BY <1>2, <1>5, OverlapsType DEF Concerns
<1> QED
  BY <1>2, <1>4, <1>5, <1>6, <1>7, <1>8, OnlyReading

LEMMA DeleteTagRowsFacts ==
    ASSUME Facts, NEW r \in Requests, DeleteTagRows(r)
    PROVE /\ Core' /\ UNCHANGED <<tagged, wanted, overlaps>>
          /\ request[r].pc = "clearing" /\ request[r].entry \in Entries
          /\ \A q \in Requests \ {r} : request'[q] = request[q]
          /\ request'[r].pc = "cleared" /\ request'[r].entry = request[r].entry
          /\ request'[r].rows = request[r].rows \cap tagged[request[r].entry]
          /\ request'[r].row = request[r].row
<1> DEFINE rows == request[r].rows \cap tagged[request[r].entry]
           record == [request[r] EXCEPT !.pc = "cleared", !.rows = rows]
<1>1. request[r] \in Request
  BY DEF Facts, Core, CatalogueTypeOK
<1>2. /\ request[r].pc = "clearing"
      /\ request[r].entry \in Entries /\ entry[request[r].entry] # "none"
      /\ "tags" \in request[r].sets
  BY DEF DeleteTagRows, At, Facts, Core, RequestsKnow
<1>3. rows \in SUBSET TagRow
  BY <1>1 DEF Request
<1>4. /\ record \in Request /\ record.pc = "cleared"
      /\ record.entry = request[r].entry /\ record.sets = request[r].sets
      /\ record.rows = rows /\ record.row = request[r].row
  <2> HIDE DEF rows
  <2> QED
    BY <1>1, <1>3 DEF Request
<1>5. /\ request' = [request EXCEPT ![r] = record]
      /\ UNCHANGED <<entry, tag, usage, tagged, secret, attached, wanted, wrote,
                     overlaps>>
  BY DEF DeleteTagRows
<1> HIDE DEF record
<1>6. /\ request' \in [Requests -> Request]
      /\ \A q \in Requests : request'[q] = IF q = r THEN record ELSE request[q]
  BY <1>4, <1>5 DEF Facts, Core, CatalogueTypeOK
<1>7. RequestsKnow'
  BY <1>2, <1>4, <1>5, <1>6, OthersKnow
<1>8. overlaps' \in SUBSET Concerns
  BY <1>5, OverlapsStayTyped
<1> QED
  BY <1>2, <1>4, <1>5, <1>6, <1>7, <1>8, OnlyReading

LEMMA ReadTagFacts ==
    ASSUME Facts, NEW r \in Requests, NEW t \in Tags, ReadTag(r, t)
    PROVE Core'
<1> DEFINE record == [Idle EXCEPT !.pc = "renaming", !.tag = t, !.usage = usage[t]]
<1>1. /\ record \in Request /\ record.pc = "renaming"
  BY DEF Idle, Request, NoRow, Owner, EditOf, Facts, Core, CatalogueTypeOK
<1>2. /\ Start(r, record)
      /\ UNCHANGED <<entry, tag, usage, tagged, secret, attached, wanted, wrote,
                     overlaps>>
  BY DEF ReadTag
<1> HIDE DEF record
<1>3. RequestsKnow'
  BY <1>1, <1>2, StartRequests, OthersKnow
<1> QED
  BY <1>1, <1>2, <1>3, StartRequests, OverlapsStayTyped, OnlyReading

LEMMA ReadSecretFacts ==
    ASSUME Facts, NEW r \in Requests, NEW s \in Secrets,
           NEW columns \in SUBSET Columns, NEW d \in Edits,
           ReadSecret(r, s, columns, d)
    PROVE Core' /\ overlaps \subseteq overlaps'
<1> DEFINE record == [Idle EXCEPT !.pc = "editing", !.secret = s,
                                  !.columns = columns, !.edit = d,
                                  !.row = secret[s].row]
<1>1. /\ record \in Request /\ record.pc = "editing" /\ record.secret = s
  BY DEF Idle, Request, Owner, EditOf, Facts, Core, CatalogueTypeOK
<1>2. /\ Start(r, record) /\ secret[s].state = "live"
      /\ Overlaps(<<"secret", s>>, Editing(s))
      /\ UNCHANGED <<entry, tag, usage, tagged, secret, attached, wanted, wrote>>
  BY DEF ReadSecret, Kept
<1> HIDE DEF record
<1>3. RequestsKnow'
  BY <1>1, <1>2, StartRequests, OthersKnow
<1>4. overlaps' \in SUBSET Concerns /\ overlaps \subseteq overlaps'
  BY <1>2, OverlapsType DEF Concerns
<1> QED
  BY <1>1, <1>2, <1>3, <1>4, StartRequests, OnlyReading

LEMMA CountAttachmentsFacts ==
    ASSUME Facts, NEW r \in Requests, NEW e \in Entries, CountAttachments(r, e)
    PROVE Core' /\ overlaps \subseteq overlaps'
<1> DEFINE record == [Idle EXCEPT !.pc = "uploading", !.entry = e]
<1>1. /\ record \in Request /\ record.pc = "uploading" /\ record.entry = e
  BY DEF Idle, Request, NoRow, Owner, EditOf
<1>2. /\ Start(r, record) /\ entry[e] = "live"
      /\ Overlaps(<<"files", e>>, Uploading(e))
      /\ UNCHANGED <<entry, tag, usage, tagged, secret, attached, wanted, wrote>>
  BY DEF CountAttachments, Live
<1> HIDE DEF record
<1>3. RequestsKnow'
  BY <1>1, <1>2, StartRequests, OthersKnow
<1>4. overlaps' \in SUBSET Concerns /\ overlaps \subseteq overlaps'
  BY <1>2, OverlapsType DEF Concerns
<1> QED
  BY <1>1, <1>2, <1>3, <1>4, StartRequests, OnlyReading

LEMMA EndFacts ==
    ASSUME Facts, NEW r \in Requests, WriteTag(r) \/ Fail(r)
    PROVE Core'
<1>1. /\ Done(r)
      /\ UNCHANGED <<entry, tag, usage, tagged, secret, attached, wanted, wrote,
                     overlaps>>
  BY DEF WriteTag, Fail
<1> QED
  BY <1>1, DoneRequests, DoneKnows, OverlapsStayTyped, OnlyReading

(* Those that write.                                                       *)
LEMMA CreateEntryFacts ==
    ASSUME Facts, NEW e \in Entries, NEW ts \in SUBSET Tags,
           NEW ss \in SUBSET Secrets, CreateEntry(e, ts, ss)
    PROVE Core'
<1>1. /\ entry[e] = "none" /\ tagged[e] = {} /\ usage' = Counted({}, ts)
      /\ UNCHANGED <<tag, attached, request, wrote, overlaps>>
  BY DEF CreateEntry, Facts, Core, EmptyUnlessLive, Live
<1>2. /\ UsageCountsEntries' /\ usage' \in [Tags -> Nat]
      /\ tagged' \in [Entries -> SUBSET TagRow]
      /\ \A x \in Entries : x # e => tagged'[x] = tagged[x]
  <2>1. PICK i \in Inserts : tagged' = [tagged EXCEPT ![e] = Rows(ts, i)]
    BY DEF CreateEntry
  <2> DEFINE new == Rows(ts, i)
  <2>2. new \in SUBSET TagRow /\ TagsOf(new) = ts
    BY RowsOfTags
  <2>3. tagged' = [tagged EXCEPT ![e] = new]
    BY <2>1
  <2> HIDE DEF new
  <2>4. tagged' = [tagged EXCEPT ![e] = (tagged[e] \ {}) \cup new]
    BY <1>1, <2>3
  <2>5. {} \in SUBSET tagged[e] /\ ts \cap TagsOf(tagged[e] \ {}) = {}
    BY <1>1 DEF TagsOf
  <2>6. \A x \in Entries : x # e => tagged'[x] = tagged[x]
    BY <2>3 DEF Facts, Core, CatalogueTypeOK
  <2> QED
    BY <1>1, <2>2, <2>4, <2>5, <2>6, Recounted
<1>3. /\ entry' = [entry EXCEPT ![e] = "live"]
      /\ wanted' = [wanted EXCEPT ![e] = ts]
      /\ \A s \in ss : secret[s] = NoSecret
      /\ secret' = [s \in Secrets |->
                      IF s \in ss THEN [NoSecret EXCEPT !.state = "live",
                                                       !.entry = e]
                      ELSE secret[s]]
  BY DEF CreateEntry
<1>4. [NoSecret EXCEPT !.state = "live", !.entry = e]
         \in [state : {"none", "live", "gone"}, entry : Owner,
              row : [value : EditOf, rotated : EditOf, position : EditOf]]
      /\ [NoSecret EXCEPT !.state = "live", !.entry = e].state = "live"
  BY DEF NoSecret, NoRow, Owner, EditOf
<1>5. CatalogueTypeOK'
  <2>1. /\ entry' \in [Entries -> {"none", "live", "gone"}]
        /\ wanted' \in [Entries -> SUBSET Tags]
    BY <1>1, <1>3 DEF Facts, Core, CatalogueTypeOK
  <2>2. secret' \in [Secrets -> [state : {"none", "live", "gone"}, entry : Owner,
                               row : [value : EditOf, rotated : EditOf,
                                      position : EditOf]]]
    BY <1>3, <1>4 DEF Facts, Core, CatalogueTypeOK
  <2> QED
    BY <1>1, <1>2, <2>1, <2>2 DEF Facts, Core, CatalogueTypeOK
<1>6. RequestsKnow'
  <2>1. \A x \in Entries : entry[x] # "none" => entry'[x] # "none"
    BY <1>3 DEF Facts, Core, CatalogueTypeOK
  <2>2. \A s \in Secrets : secret[s].state # "none" => secret'[s].state # "none"
    BY <1>3, <1>4
  <2> QED
    BY <1>1, <2>1, <2>2, AllKnow
<1>7. EmptyUnlessLive'
  BY <1>1, <1>2, <1>3 DEF Facts, Core, CatalogueTypeOK, EmptyUnlessLive, Live
<1>8. UntouchedSecrets'
  BY <1>1, <1>3, <1>4 DEF Facts, Core, UntouchedSecrets
<1> QED
  BY <1>2, <1>5, <1>6, <1>7, <1>8 DEF Facts, Core

(* What an update of tags commits. *)
LEMMA CommitEntryTags ==
    ASSUME Facts, NEW r \in Requests, CommitEntry(r), request[r].pc = "cleared"
    PROVE /\ request[r].entry \in Entries /\ request[r].tags \in SUBSET Tags
          /\ request[r].rows \in SUBSET tagged[request[r].entry]
          /\ wanted' = [wanted EXCEPT ![request[r].entry] = request[r].tags]
          /\ usage' = Counted(request[r].rows, request[r].tags)
          /\ request[r].tags
               \cap TagsOf(tagged[request[r].entry] \ request[r].rows) = {}
          /\ \E new \in SUBSET TagRow :
               /\ TagsOf(new) = request[r].tags
               /\ \A x, y \in new : x.tag = y.tag => x = y
               /\ tagged' = [tagged EXCEPT ![request[r].entry] =
                               (tagged[request[r].entry] \ request[r].rows) \cup new]
<1> DEFINE e == request[r].entry
           ts == request[r].tags
           rows == request[r].rows
           left == tagged[e] \ rows
<1>1. /\ e \in Entries /\ ts \in SUBSET Tags
  <2>1. request[r] \in Request
    BY DEF Facts, Core, CatalogueTypeOK
  <2> QED
    BY <2>1 DEF Facts, Core, RequestsKnow, Request
<1>2. rows \in SUBSET tagged[e]
  BY DEF Facts, TagRows, DeletedAreThere
<1>3. /\ wanted' = [wanted EXCEPT ![e] = ts]
      /\ usage' = Counted(rows, ts)
      /\ ts \subseteq LiveTags \ TagsOf(left)
      /\ \E i \in Inserts : tagged' = [tagged EXCEPT ![e] = left \cup Rows(ts, i)]
  BY DEF CommitEntry, At
<1>4. ts \cap TagsOf(left) = {}
  BY <1>3
<1>5. PICK i \in Inserts : tagged' = [tagged EXCEPT ![e] = left \cup Rows(ts, i)]
  BY <1>3
<1>6. /\ Rows(ts, i) \in SUBSET TagRow /\ TagsOf(Rows(ts, i)) = ts
      /\ \A x, y \in Rows(ts, i) : x.tag = y.tag => x = y
  BY <1>1, RowsOfTags
<1>7. \E new \in SUBSET TagRow :
         /\ TagsOf(new) = ts
         /\ \A x, y \in new : x.tag = y.tag => x = y
         /\ tagged' = [tagged EXCEPT ![e] = left \cup new]
  BY <1>5, <1>6
<1> QED
  BY <1>1, <1>2, <1>3, <1>4, <1>7

LEMMA CommitEntryFacts ==
    ASSUME Facts, NEW r \in Requests, CommitEntry(r)
    PROVE /\ Core'
          /\ request[r].entry \in Entries
<1> DEFINE e == request[r].entry
<1>1. /\ e \in Entries /\ entry[e] = "live" /\ Done(r)
      /\ UNCHANGED <<entry, tag, secret, attached, wrote, overlaps>>
  BY DEF CommitEntry, At, Live, Facts, Core, RequestsKnow
<1>3. RequestsKnow' /\ request' \in [Requests -> Request]
  BY <1>1, DoneRequests, DoneKnows
<1>4. CASE request[r].pc = "cleared"
  <2>1. PICK new \in SUBSET TagRow :
           /\ TagsOf(new) = request[r].tags
           /\ tagged' = [tagged EXCEPT ![e] = (tagged[e] \ request[r].rows) \cup new]
    BY <1>4, CommitEntryTags
  <2>2. /\ request[r].tags \in SUBSET Tags /\ request[r].rows \in SUBSET tagged[e]
        /\ wanted' = [wanted EXCEPT ![e] = request[r].tags]
        /\ usage' = Counted(request[r].rows, request[r].tags)
        /\ request[r].tags \cap TagsOf(tagged[e] \ request[r].rows) = {}
    BY <1>4, CommitEntryTags
  <2> HIDE DEF e
  <2>3. /\ UsageCountsEntries' /\ usage' \in [Tags -> Nat]
        /\ tagged' \in [Entries -> SUBSET TagRow]
    BY <1>1, <2>1, <2>2, Recounted
  <2>4. CatalogueTypeOK'
    BY <1>1, <1>3, <2>2, <2>3 DEF Facts, Core, CatalogueTypeOK
  <2>5. EmptyUnlessLive'
    BY <1>1, <2>1, <2>2 DEF Facts, Core, CatalogueTypeOK, EmptyUnlessLive, Live
  <2>6. UntouchedSecrets'
    BY <1>1 DEF Facts, Core, UntouchedSecrets
  <2> QED
    BY <1>1, <1>3, <2>3, <2>4, <2>5, <2>6 DEF Facts, Core, e
<1>5. CASE request[r].pc # "cleared"
  <2>1. UNCHANGED <<tagged, usage, wanted>>
    BY <1>5 DEF CommitEntry, At
  <2>2. CatalogueTypeOK'
    BY <1>1, <1>3, <2>1 DEF Facts, Core, CatalogueTypeOK
  <2>3. EmptyUnlessLive' /\ UntouchedSecrets'
    BY <1>1, <2>1 DEF Facts, Core, EmptyUnlessLive, UntouchedSecrets, Live
  <2> QED
    BY <1>1, <1>3, <2>1, <2>2, <2>3, CountsStay DEF Facts, Core
<1> QED
  BY <1>4, <1>5

LEMMA DeleteEntryFacts ==
    ASSUME Facts, NEW e \in Entries, DeleteEntry(e)
    PROVE Core'
<1>1. /\ entry' = [entry EXCEPT ![e] = "gone"]
      /\ usage' = Counted(tagged[e], {})
      /\ tagged' = [tagged EXCEPT ![e] = {}]
      /\ wanted' = [wanted EXCEPT ![e] = {}]
      /\ attached' = [attached EXCEPT ![e] = 0]
      /\ secret' = [s \in Secrets |->
                      IF Kept(s) /\ secret[s].entry = e
                      THEN [secret[s] EXCEPT !.state = "gone"] ELSE secret[s]]
      /\ UNCHANGED <<tag, request, wrote, overlaps>>
  BY DEF DeleteEntry
<1>2. /\ UsageCountsEntries' /\ usage' \in [Tags -> Nat]
      /\ tagged' \in [Entries -> SUBSET TagRow]
  <2>1. /\ tagged[e] \in SUBSET tagged[e] /\ {} \in SUBSET TagRow
        /\ TagsOf({}) = {} /\ {} \cap TagsOf(tagged[e] \ tagged[e]) = {}
    BY DEF TagsOf
  <2>2. tagged' = [tagged EXCEPT ![e] = (tagged[e] \ tagged[e]) \cup {}]
    BY <1>1
  <2> QED
    BY <1>1, <2>1, <2>2, Recounted
<1>3. \A s \in Secrets :
         /\ secret'[s] \in [state : {"none", "live", "gone"}, entry : Owner,
                            row : [value : EditOf, rotated : EditOf,
                                   position : EditOf]]
         /\ \/ secret'[s] = secret[s]
            \/ secret[s].state = "live" /\ secret'[s].state = "gone"
  <2> SUFFICES ASSUME NEW s \in Secrets
               PROVE /\ secret'[s] \in [state : {"none", "live", "gone"}, entry : Owner,
                                        row : [value : EditOf, rotated : EditOf,
                                               position : EditOf]]
                     /\ \/ secret'[s] = secret[s]
                        \/ secret[s].state = "live" /\ secret'[s].state = "gone"
    OBVIOUS
  <2>1. secret[s] \in [state : {"none", "live", "gone"}, entry : Owner,
                       row : [value : EditOf, rotated : EditOf, position : EditOf]]
    BY DEF Facts, Core, CatalogueTypeOK
  <2>2. /\ [secret[s] EXCEPT !.state = "gone"]
              \in [state : {"none", "live", "gone"}, entry : Owner,
                   row : [value : EditOf, rotated : EditOf, position : EditOf]]
        /\ [secret[s] EXCEPT !.state = "gone"].state = "gone"
    BY <2>1
  <2>3. CASE Kept(s) /\ secret[s].entry = e
    <3>1. secret'[s] = [secret[s] EXCEPT !.state = "gone"]
      BY <1>1, <2>3
    <3> QED
      BY <2>2, <2>3, <3>1 DEF Kept
  <2>4. CASE ~(Kept(s) /\ secret[s].entry = e)
    <3>1. secret'[s] = secret[s]
      BY <1>1, <2>4
    <3> QED
      BY <2>1, <3>1
  <2> QED
    BY <2>3, <2>4
<1>4. CatalogueTypeOK'
  <2>1. secret' = [s \in Secrets |-> secret'[s]]
    BY <1>1
  <2>2. secret' \in [Secrets -> [state : {"none", "live", "gone"}, entry : Owner,
                               row : [value : EditOf, rotated : EditOf,
                                      position : EditOf]]]
    BY <1>3, <2>1
  <2> QED
    BY <1>1, <1>2, <2>2 DEF Facts, Core, CatalogueTypeOK
<1>5. RequestsKnow'
  <2>1. \A x \in Entries : entry[x] # "none" => entry'[x] # "none"
    BY <1>1 DEF Facts, Core, CatalogueTypeOK
  <2>2. \A s \in Secrets : secret[s].state # "none" => secret'[s].state # "none"
    BY <1>3
  <2> QED
    BY <1>1, <2>1, <2>2, AllKnow
<1>6. EmptyUnlessLive'
  BY <1>1 DEF Facts, Core, CatalogueTypeOK, EmptyUnlessLive, Live
<1>7. UntouchedSecrets'
  BY <1>1, <1>3 DEF Facts, Core, UntouchedSecrets
<1> QED
  BY <1>2, <1>4, <1>5, <1>6, <1>7 DEF Facts, Core

LEMMA DeleteTagFacts ==
    ASSUME Facts, NEW t \in Tags, DeleteTag(t)
    PROVE Core'
<1>1. /\ tag' = [tag EXCEPT ![t] = "gone"]
      /\ usage' = [usage EXCEPT ![t] = 0]
      /\ tagged' = [e \in Entries |-> {row \in tagged[e] : row.tag # t}]
      /\ wanted' = [e \in Entries |-> wanted[e] \ {t}]
      /\ UNCHANGED <<entry, secret, attached, request, wrote, overlaps>>
  BY DEF DeleteTag
<1>2. UsageCountsEntries'
  <2>1. ASSUME NEW x \in Tags
        PROVE usage'[x] = Cardinality({e \in Entries : x \in TagsOf(tagged'[e])})
    <3>1. CASE x = t
      <4>1. {e \in Entries : x \in TagsOf(tagged'[e])} = {}
        BY <1>1, <3>1 DEF TagsOf
      <4>2. usage'[x] = 0
        BY <1>1, <3>1 DEF Facts, Core, CatalogueTypeOK
      <4> QED
        BY <4>1, <4>2, FS_EmptySet
    <3>2. CASE x # t
      <4>0. \A e \in Entries : x \in TagsOf(tagged'[e]) <=> x \in TagsOf(tagged[e])
        BY <1>1, <3>2 DEF TagsOf
      <4>1. {e \in Entries : x \in TagsOf(tagged'[e])}
               = {e \in Entries : x \in TagsOf(tagged[e])}
        BY <4>0
      <4>2. usage'[x] = usage[x]
        BY <1>1, <3>2 DEF Facts, Core, CatalogueTypeOK
      <4> QED
        BY <4>1, <4>2 DEF Facts, Core, UsageCountsEntries
    <3> QED
      BY <3>1, <3>2
  <2> QED
    BY <2>1 DEF UsageCountsEntries
<1>3. CatalogueTypeOK'
  BY <1>1 DEF Facts, Core, CatalogueTypeOK
<1>4. EmptyUnlessLive' /\ UntouchedSecrets'
  BY <1>1 DEF Facts, Core, EmptyUnlessLive, UntouchedSecrets, Live
<1> QED
  BY <1>1, <1>2, <1>3, <1>4, AllKnow DEF Facts, Core

LEMMA NewTagFacts ==
    ASSUME Facts, NEW t \in Tags, CreateTag(t) \/ EnsureSystemTag(t)
    PROVE Core'
<1>1. /\ tag' = [tag EXCEPT ![t] = "live"]
      /\ UNCHANGED <<entry, usage, tagged, secret, attached, request, wanted,
                     wrote, overlaps>>
  BY DEF CreateTag, EnsureSystemTag
<1>2. CatalogueTypeOK'
  BY <1>1 DEF Facts, Core, CatalogueTypeOK
<1>3. EmptyUnlessLive' /\ UntouchedSecrets'
  BY <1>1 DEF Facts, Core, EmptyUnlessLive, UntouchedSecrets, Live
<1> QED
  BY <1>1, <1>2, <1>3, AllKnow, CountsStay DEF Facts, Core

LEMMA AttachmentFacts ==
    ASSUME Facts, NEW e \in Entries,
           (\E r \in Requests : InsertAttachment(r) /\ request[r].entry = e)
              \/ DeleteAttachment(e)
    PROVE Core'
<1>1. /\ \/ attached' = [attached EXCEPT ![e] = attached[e] + 1] /\ entry[e] = "live"
         \/ attached' = [attached EXCEPT ![e] = attached[e] - 1] /\ attached[e] > 0
      /\ UNCHANGED <<entry, tag, usage, tagged, secret, wanted, wrote, overlaps>>
  BY DEF InsertAttachment, DeleteAttachment, Live
<1>2. request' \in [Requests -> Request] /\ RequestsKnow'
  <2>1. CASE DeleteAttachment(e)
    BY <2>1, AllKnow DEF DeleteAttachment, Facts, Core, CatalogueTypeOK
  <2>2. CASE \E r \in Requests : InsertAttachment(r)
    <3>1. PICK r \in Requests : Done(r)
      BY <2>2 DEF InsertAttachment
    <3> QED
      BY <1>1, <3>1, DoneRequests, DoneKnows
  <2> QED
    BY <2>1, <2>2
<1>3. attached' \in [Entries -> Nat]
  BY <1>1 DEF Facts, Core, CatalogueTypeOK
<1>4. CatalogueTypeOK'
  BY <1>1, <1>2, <1>3 DEF Facts, Core, CatalogueTypeOK
<1>5. EmptyUnlessLive'
  BY <1>1 DEF Facts, Core, CatalogueTypeOK, EmptyUnlessLive, Live
<1>6. UntouchedSecrets'
  BY <1>1 DEF Facts, Core, UntouchedSecrets
<1> QED
  BY <1>1, <1>2, <1>4, <1>5, <1>6, CountsStay DEF Facts, Core

(* What writes secrets leaves everything else. *)
Row == [value : EditOf, rotated : EditOf, position : EditOf]
Secret == [state : {"none", "live", "gone"}, entry : Owner, row : Row]

LEMMA OnlySecrets ==
    ASSUME Facts,
           UNCHANGED <<entry, tag, usage, tagged, attached, wanted>>,
           secret' \in [Secrets -> Secret], wrote' \in [Secrets -> [Columns -> EditOf]],
           overlaps' \in SUBSET Concerns,
           request' \in [Requests -> Request],
           UNCHANGED request \/ \E r \in Requests : Done(r),
           \A s \in Secrets : secret[s].state # "none" => secret'[s].state # "none",
           UntouchedSecrets'
    PROVE Core'
<1>1. CatalogueTypeOK'
  BY DEF Facts, Core, CatalogueTypeOK, Concerns, Secret, Row
<1>2. EmptyUnlessLive'
  BY DEF Facts, Core, EmptyUnlessLive, Live
<1>3. RequestsKnow'
  BY AllKnow, DoneKnows
<1> QED
  BY <1>1, <1>2, <1>3, CountsStay DEF Facts, Core

LEMMA SecretTypes ==
    ASSUME Facts
    PROVE /\ secret \in [Secrets -> Secret] /\ wrote \in [Secrets -> [Columns -> EditOf]]
          /\ request \in [Requests -> Request] /\ overlaps \in SUBSET Concerns
BY DEF Facts, Core, CatalogueTypeOK, Secret, Row, Concerns

LEMMA AddSecretFacts ==
    ASSUME Facts, NEW s \in Secrets, NEW e \in Entries, AddSecret(s, e)
    PROVE Core'
<1> DEFINE new == [NoSecret EXCEPT !.state = "live", !.entry = e]
<1>1. new \in Secret /\ new.state = "live"
  BY DEF NoSecret, NoRow, Secret, Row, Owner, EditOf
<1>2. /\ secret' = [secret EXCEPT ![s] = new]
      /\ UNCHANGED <<entry, tag, usage, tagged, attached, request, wanted, wrote,
                     overlaps>>
  BY DEF AddSecret
<1> HIDE DEF new
<1>3. /\ secret' \in [Secrets -> Secret]
      /\ \A x \in Secrets : secret[x].state # "none" => secret'[x].state # "none"
  BY <1>1, <1>2, SecretTypes
<1>4. UntouchedSecrets'
  BY <1>1, <1>2, SecretTypes DEF Facts, Core, UntouchedSecrets
<1> QED
  BY <1>2, <1>3, <1>4, SecretTypes, OnlySecrets

LEMMA EditedType ==
    ASSUME Facts, NEW r \in Requests
    PROVE /\ Edited(r) \in Row
          /\ \A c \in Columns : \A old \in EditOf : Changed(r, c, old) \in EditOf
<1>1. request[r] \in Request
  BY SecretTypes
<1>2. request[r].edit \in EditOf /\ request[r].row \in Row
  BY <1>1 DEF Request, Row
<1>3. \A c : \A old \in EditOf : Changed(r, c, old) \in EditOf
  BY <1>2 DEF Changed
<1> QED
  BY <1>2, <1>3 DEF Edited, Row

LEMMA WriteSecretFacts ==
    ASSUME Facts, NEW r \in Requests, WriteSecret(r)
    PROVE /\ Core'
          /\ request[r].secret \in Secrets
<1> DEFINE s == request[r].secret
<1>1. s \in Secrets /\ secret[s].state # "none"
  BY DEF WriteSecret, At, Facts, Core, RequestsKnow
<1>2. /\ secret' = IF Kept(s) THEN [secret EXCEPT ![s].row = Edited(r)] ELSE secret
      /\ wrote' = [wrote EXCEPT ![s] = [c \in Columns |-> Changed(r, c, wrote[s][c])]]
      /\ Done(r)
      /\ UNCHANGED <<entry, tag, usage, tagged, attached, wanted, overlaps>>
  BY DEF WriteSecret
<1> HIDE DEF s
<1>3. secret[s] \in Secret /\ wrote[s] \in [Columns -> EditOf]
  BY <1>1, SecretTypes
<1>4. /\ [secret[s] EXCEPT !.row = Edited(r)] \in Secret
      /\ [secret[s] EXCEPT !.row = Edited(r)].state = secret[s].state
  BY <1>3, EditedType DEF Secret
<1>5. [c \in Columns |-> Changed(r, c, wrote[s][c])] \in [Columns -> EditOf]
  BY <1>3, EditedType
<1>6. secret' = IF Kept(s)
               THEN [secret EXCEPT ![s] = [secret[s] EXCEPT !.row = Edited(r)]]
               ELSE secret
  BY <1>1, <1>2
<1>7. /\ secret' \in [Secrets -> Secret]
      /\ \A x \in Secrets : secret'[x].state = secret[x].state
      /\ \A x \in Secrets \ {s} : secret'[x] = secret[x]
  <2> DEFINE new == [secret[s] EXCEPT !.row = Edited(r)]
  <2>1. /\ new \in Secret /\ new.state = secret[s].state
        /\ secret' = IF Kept(s) THEN [secret EXCEPT ![s] = new] ELSE secret
    BY <1>4, <1>6
  <2> HIDE DEF new
  <2> QED
    BY <2>1, <1>1, SecretTypes
<1>8. /\ wrote' \in [Secrets -> [Columns -> EditOf]]
      /\ \A x \in Secrets \ {s} : wrote'[x] = wrote[x]
  <2> DEFINE new == [c \in Columns |-> Changed(r, c, wrote[s][c])]
  <2>1. new \in [Columns -> EditOf] /\ wrote' = [wrote EXCEPT ![s] = new]
    BY <1>2, <1>5
  <2> HIDE DEF new
  <2> QED
    BY <2>1, <1>1, SecretTypes
<1>9. UntouchedSecrets'
  BY <1>1, <1>7, <1>8 DEF Facts, Core, UntouchedSecrets
<1>10. request' \in [Requests -> Request] /\ overlaps' \in SUBSET Concerns
  BY <1>2, DoneRequests, OverlapsStayTyped
<1>11. Core'
  BY <1>2, <1>7, <1>8, <1>9, <1>10, OnlySecrets
<1> QED
  BY <1>1, <1>11 DEF s

LEMMA ReorderSecretsFacts ==
    ASSUME Facts, NEW e \in Entries, NEW ss \in SUBSET Secrets, NEW d \in Edits,
           ReorderSecrets(e, ss, d)
    PROVE Core' /\ overlaps \subseteq overlaps'
<1>1. /\ \A s \in ss : secret[s].state = "live"
      /\ secret' = [s \in Secrets |-> IF s \in ss
                                      THEN [secret[s] EXCEPT !.row.position = d]
                                      ELSE secret[s]]
      /\ wrote' = [s \in Secrets |-> IF s \in ss
                                     THEN [wrote[s] EXCEPT !["position"] = d]
                                     ELSE wrote[s]]
      /\ overlaps' = overlaps \cup {<<"secret", s>> :
                                      s \in {x \in ss : Editing(x) # {}}}
      /\ UNCHANGED <<entry, tag, usage, tagged, attached, request, wanted>>
  BY DEF ReorderSecrets, Kept
<1>2. \A s \in Secrets :
         /\ [secret[s] EXCEPT !.row.position = d] \in Secret
         /\ [secret[s] EXCEPT !.row.position = d].state = secret[s].state
  <2> SUFFICES ASSUME NEW s \in Secrets
               PROVE /\ [secret[s] EXCEPT !.row.position = d] \in Secret
                     /\ [secret[s] EXCEPT !.row.position = d].state = secret[s].state
    OBVIOUS
  <2>1. secret[s] \in Secret
    BY SecretTypes
  <2> QED
    BY <2>1 DEF Secret, Row, EditOf
<1>3. \A s \in Secrets : [wrote[s] EXCEPT !["position"] = d] \in [Columns -> EditOf]
  BY SecretTypes DEF EditOf
<1>4. /\ secret' \in [Secrets -> Secret]
      /\ \A s \in Secrets : secret'[s].state = secret[s].state
      /\ \A s \in Secrets : s \notin ss => secret'[s] = secret[s]
  BY <1>1, <1>2, SecretTypes
<1>5. /\ wrote' \in [Secrets -> [Columns -> EditOf]]
      /\ \A s \in Secrets : s \notin ss => wrote'[s] = wrote[s]
  BY <1>1, <1>3, SecretTypes
<1>6. overlaps' \in SUBSET Concerns /\ overlaps \subseteq overlaps'
  BY <1>1, SecretTypes DEF Concerns
<1>7. UntouchedSecrets'
  BY <1>1, <1>4, <1>5 DEF Facts, Core, UntouchedSecrets
<1> QED
  BY <1>1, <1>4, <1>5, <1>6, <1>7, SecretTypes, OnlySecrets

LEMMA DeleteSecretFacts ==
    ASSUME Facts, NEW s \in Secrets, DeleteSecret(s)
    PROVE Core'
<1> DEFINE new == [secret[s] EXCEPT !.state = "gone"]
<1>1. secret[s] \in Secret
  BY SecretTypes
<1>2. new \in Secret /\ new.state = "gone"
  BY <1>1 DEF Secret
<1>3. /\ secret' = [secret EXCEPT ![s] = new]
      /\ UNCHANGED <<entry, tag, usage, tagged, attached, request, wanted, wrote,
                     overlaps>>
  BY DEF DeleteSecret
<1> HIDE DEF new
<1>4. /\ secret' \in [Secrets -> Secret]
      /\ \A x \in Secrets : secret[x].state # "none" => secret'[x].state # "none"
  BY <1>2, <1>3, SecretTypes
<1>5. UntouchedSecrets'
  BY <1>2, <1>3, SecretTypes DEF Facts, Core, UntouchedSecrets
<1> QED
  BY <1>3, <1>4, <1>5, SecretTypes, OnlySecrets

LEMMA CoreNext == ASSUME Facts, [CatalogueNext]_vars PROVE Core'
<1>1. CASE UNCHANGED vars
  <2>1. UNCHANGED request /\ request' \in [Requests -> Request]
    BY <1>1, SecretTypes DEF vars
  <2>2. RequestsKnow' /\ overlaps' \in SUBSET Concerns
    BY <1>1, <2>1, AllKnow, OverlapsStayTyped DEF vars
  <2> QED
    BY <1>1, <2>1, <2>2, OnlyReading DEF vars
<1>2. ASSUME NEW r \in Requests,
             EntryCalls(r) \/ TagCalls(r) \/ SecretCalls(r) \/ AttachmentCalls(r)
                \/ Fail(r)
      PROVE Core'
  <2>1. CASE EntryCalls(r)
    BY <2>1, CheckEntryFacts, WriteColumnsFacts, ClearTagsFacts, DeleteTagRowsFacts,
     CommitEntryFacts
       DEF EntryCalls
  <2>2. CASE TagCalls(r) \/ Fail(r)
    BY <2>2, ReadTagFacts, EndFacts DEF TagCalls
  <2>3. CASE SecretCalls(r)
    BY <2>3, ReadSecretFacts, WriteSecretFacts DEF SecretCalls
  <2>4. CASE \E e \in Entries : CountAttachments(r, e)
    BY <2>4, CountAttachmentsFacts
  <2>5. CASE InsertAttachment(r)
    <3>1. request[r].entry \in Entries
      BY <2>5 DEF InsertAttachment, At, Facts, Core, RequestsKnow
    <3> QED
      BY <2>5, <3>1, AttachmentFacts
  <2> QED
    BY <1>2, <2>1, <2>2, <2>3, <2>4, <2>5 DEF AttachmentCalls
<1>3. CASE CatalogueNext
  BY <1>2, <1>3, CreateEntryFacts, DeleteEntryFacts, AttachmentFacts, NewTagFacts,
     DeleteTagFacts, AddSecretFacts, ReorderSecretsFacts, DeleteSecretFacts
     DEF CatalogueNext
<1> QED
  BY <1>1, <1>3

-----------------------------------------------------------------------------
(* Who does what.  A request that reads nothing ends up idle, checked,     *)
(* locked or renaming.                                                     *)
Reads(r) ==
    \/ ClearTags(r) \/ DeleteTagRows(r)
    \/ \E s \in Secrets, columns \in SUBSET Columns, d \in Edits :
         ReadSecret(r, s, columns, d)
    \/ \E e \in Entries : CountAttachments(r, e)

NobodyReads ==
    \A q \in Requests : \/ request'[q] = request[q]
                        \/ request'[q].pc \in {"idle", "checked", "locked", "renaming"}

LEMMA WhoReads ==
    ASSUME Facts, [CatalogueNext]_vars
    PROVE NobodyReads \/ \E r \in Requests : Reads(r)
<1>1. CASE UNCHANGED request
  BY <1>1 DEF NobodyReads
<1>2. ASSUME NEW r \in Requests, Done(r) PROVE NobodyReads
  BY <1>2, DoneRequests, IdleIsARequest DEF NobodyReads
<1>3. ASSUME NEW r \in Requests, NEW e \in Entries,
             NEW sets \in SUBSET {"columns", "tags"}, NEW ts \in SUBSET Tags,
             CheckEntry(r, e, sets, ts)
      PROVE NobodyReads
  <2> DEFINE record == [Idle EXCEPT !.pc = "checked", !.entry = e, !.sets = sets,
                                    !.tags = ts]
  <2>1. /\ record \in Request /\ record.pc = "checked"
    BY DEF Idle, Request, NoRow, Owner, EditOf
  <2>2. Start(r, record)
    BY <1>3 DEF CheckEntry
  <2> HIDE DEF record
  <2> QED
    BY <2>1, <2>2, StartRequests DEF NobodyReads
<1>4. ASSUME NEW r \in Requests, WriteColumns(r) PROVE NobodyReads
  <2>1. request[r] \in Request
    BY SecretTypes
  <2>2. /\ request' = [request EXCEPT ![r] = [request[r] EXCEPT !.pc = "locked"]]
        /\ [request[r] EXCEPT !.pc = "locked"].pc = "locked"
    BY <1>4, <2>1 DEF WriteColumns, GoTo, Request
  <2> QED
    BY <2>2, SecretTypes DEF NobodyReads
<1>5. ASSUME NEW r \in Requests, NEW t \in Tags, ReadTag(r, t) PROVE NobodyReads
  <2> DEFINE record == [Idle EXCEPT !.pc = "renaming", !.tag = t, !.usage = usage[t]]
  <2>1. /\ record \in Request /\ record.pc = "renaming"
    BY DEF Idle, Request, NoRow, Owner, EditOf, Facts, Core, CatalogueTypeOK
  <2>2. Start(r, record)
    BY <1>5 DEF ReadTag
  <2> HIDE DEF record
  <2> QED
    BY <2>1, <2>2, StartRequests DEF NobodyReads
<1>6. ASSUME NEW r \in Requests,
             EntryCalls(r) \/ TagCalls(r) \/ SecretCalls(r) \/ AttachmentCalls(r)
                \/ Fail(r)
      PROVE NobodyReads \/ Reads(r)
  BY <1>2, <1>3, <1>4, <1>5, <1>6
     DEF EntryCalls, TagCalls, SecretCalls, AttachmentCalls, Reads, CommitEntry,
         WriteTag, WriteSecret, InsertAttachment, Fail
<1>7. CASE CatalogueNext /\ ~UNCHANGED request
  BY <1>6, <1>7 DEF CatalogueNext, CreateEntry, DeleteEntry, DeleteAttachment,
                    CreateTag, EnsureSystemTag, DeleteTag, AddSecret, ReorderSecrets,
                    DeleteSecret
<1>8. CASE UNCHANGED vars
  BY <1>8, <1>1 DEF vars
<1> QED
  BY <1>1, <1>7, <1>8

LEMMA WhoTags ==
    ASSUME Facts, [CatalogueNext]_vars
    PROVE \/ UNCHANGED <<tagged, wanted>>
          \/ \E r \in Requests : CommitEntry(r) /\ request[r].pc = "cleared"
          \/ \E e \in Entries, ts \in SUBSET Tags, ss \in SUBSET Secrets :
               CreateEntry(e, ts, ss)
          \/ \E e \in Entries : DeleteEntry(e)
          \/ \E t \in Tags : DeleteTag(t)
<1>1. ASSUME NEW r \in Requests,
             EntryCalls(r) \/ TagCalls(r) \/ SecretCalls(r) \/ AttachmentCalls(r)
                \/ Fail(r)
      PROVE UNCHANGED <<tagged, wanted>>
               \/ (CommitEntry(r) /\ request[r].pc = "cleared")
  BY <1>1 DEF EntryCalls, TagCalls, SecretCalls, AttachmentCalls, CheckEntry,
              WriteColumns, ClearTags, DeleteTagRows, CommitEntry, At, ReadTag, WriteTag, ReadSecret,
              WriteSecret, CountAttachments, InsertAttachment, Fail
<1> QED
  BY <1>1 DEF CatalogueNext, vars, DeleteAttachment, CreateTag, EnsureSystemTag,
              AddSecret, ReorderSecrets, DeleteSecret

LEMMA WhoWritesSecrets ==
    ASSUME Facts, [CatalogueNext]_vars
    PROVE \/ UNCHANGED <<secret, wrote>>
          \/ \E r \in Requests : WriteSecret(r)
          \/ \E e \in Entries, ts \in SUBSET Tags, ss \in SUBSET Secrets :
               CreateEntry(e, ts, ss)
          \/ \E e \in Entries : DeleteEntry(e)
          \/ \E s \in Secrets, e \in Entries : AddSecret(s, e)
          \/ \E e \in Entries, ss \in SUBSET Secrets, d \in Edits :
               ReorderSecrets(e, ss, d)
          \/ \E s \in Secrets : DeleteSecret(s)
<1>1. ASSUME NEW r \in Requests,
             EntryCalls(r) \/ TagCalls(r) \/ SecretCalls(r) \/ AttachmentCalls(r)
                \/ Fail(r)
      PROVE UNCHANGED <<secret, wrote>> \/ WriteSecret(r)
  BY <1>1 DEF EntryCalls, TagCalls, SecretCalls, AttachmentCalls, CheckEntry,
              WriteColumns, ClearTags, DeleteTagRows, CommitEntry, At, ReadTag, WriteTag, ReadSecret,
              CountAttachments, InsertAttachment, Fail
<1> QED
  BY <1>1 DEF CatalogueNext, vars, DeleteAttachment, CreateTag, EnsureSystemTag,
              DeleteTag

LEMMA WhoAttaches ==
    ASSUME Facts, [CatalogueNext]_vars
    PROVE \/ UNCHANGED attached
          \/ \E r \in Requests : InsertAttachment(r)
          \/ \E e \in Entries : DeleteEntry(e) \/ DeleteAttachment(e)
<1>1. ASSUME NEW r \in Requests,
             EntryCalls(r) \/ TagCalls(r) \/ SecretCalls(r) \/ AttachmentCalls(r)
                \/ Fail(r)
      PROVE UNCHANGED attached \/ InsertAttachment(r)
  BY <1>1 DEF EntryCalls, TagCalls, SecretCalls, AttachmentCalls, CheckEntry,
              WriteColumns, ClearTags, DeleteTagRows, CommitEntry, At, ReadTag, WriteTag, ReadSecret,
              WriteSecret, CountAttachments, Fail
<1> QED
  BY <1>1 DEF CatalogueNext, vars, CreateEntry, CreateTag, EnsureSystemTag,
              DeleteTag, AddSecret, ReorderSecrets, DeleteSecret

(* What has overlapped stays so. *)
LEMMA OverlapsGrow ==
    ASSUME Facts, [CatalogueNext]_vars
    PROVE overlaps \subseteq overlaps'
<1>1. ASSUME NEW r \in Requests, Reads(r) PROVE overlaps \subseteq overlaps'
  BY <1>1, ClearTagsFacts, DeleteTagRowsFacts, ReadSecretFacts, CountAttachmentsFacts DEF Reads
<1>2. ASSUME NEW r \in Requests,
             EntryCalls(r) \/ TagCalls(r) \/ SecretCalls(r) \/ AttachmentCalls(r)
                \/ Fail(r)
      PROVE UNCHANGED overlaps \/ Reads(r)
  BY <1>2 DEF EntryCalls, TagCalls, SecretCalls, AttachmentCalls, CheckEntry,
              WriteColumns, CommitEntry, ReadTag, WriteTag, WriteSecret,
              InsertAttachment, Fail, Reads
<1> QED
  BY <1>1, <1>2, ReorderSecretsFacts
     DEF CatalogueNext, vars, CreateEntry, DeleteEntry, DeleteAttachment, CreateTag,
         EnsureSystemTag, DeleteTag, AddSecret, DeleteSecret

-----------------------------------------------------------------------------
(* Rows of tags.  Only DeleteTagRows makes a request one that has deleted. *)
StillCleared == \A q \in Requests : request'[q].pc = "cleared" => request'[q] = request[q]

LEMMA NewReaders ==
    ASSUME Facts, NEW r \in Requests, Reads(r), ~ClearTags(r), ~DeleteTagRows(r)
    PROVE \A q \in Requests : \/ request'[q] = request[q]
                              \/ request'[q].pc \in {"editing", "uploading"}
<1>1. ASSUME NEW s \in Secrets, NEW columns \in SUBSET Columns, NEW d \in Edits,
             ReadSecret(r, s, columns, d), NEW q \in Requests
      PROVE request'[q] = request[q] \/ request'[q].pc \in {"editing", "uploading"}
  <2>1. [Idle EXCEPT !.pc = "editing", !.secret = s, !.columns = columns, !.edit = d,
                     !.row = secret[s].row].pc = "editing"
    BY DEF Idle
  <2> QED
    BY <1>1, <2>1, SecretTypes DEF ReadSecret, Start
<1>2. ASSUME NEW e \in Entries, CountAttachments(r, e), NEW q \in Requests
      PROVE request'[q] = request[q] \/ request'[q].pc \in {"editing", "uploading"}
  <2>1. [Idle EXCEPT !.pc = "uploading", !.entry = e].pc = "uploading"
    BY DEF Idle
  <2> QED
    BY <1>2, <2>1, SecretTypes DEF CountAttachments, Start
<1> QED
  BY <1>1, <1>2 DEF Reads

LEMMA WhoClears ==
    ASSUME Facts, [CatalogueNext]_vars
    PROVE StillCleared \/ \E r \in Requests : DeleteTagRows(r)
<1>1. CASE NobodyReads
  BY <1>1 DEF NobodyReads, StillCleared
<1>2. ASSUME NEW r \in Requests, Reads(r), ~DeleteTagRows(r) PROVE StillCleared
  <2>1. CASE ClearTags(r)
    BY <2>1, ClearTagsFacts DEF StillCleared
  <2>2. CASE ~ClearTags(r)
    BY <1>2, <2>2, NewReaders DEF StillCleared
  <2> QED
    BY <2>1, <2>2
<1> QED
  BY <1>1, <1>2, WhoReads

(* Whatever happens to the rows of an entry, those of it that others have  *)
(* deleted stay.                                                           *)
LEMMA RowsKept ==
    ASSUME Facts, StillCleared, OneRowPerTag',
           \A q \in Requests : request'[q].pc = "cleared" =>
              request[q].rows \subseteq tagged'[request[q].entry]
    PROVE TagRows'
<1>1. DeletedAreThere'
  BY DEF StillCleared, DeletedAreThere
<1>2. LocksApart'
  BY DEF Facts, TagRows, StillCleared, LocksApart
<1> QED
  BY <1>1, <1>2 DEF TagRows

LEMMA TagRowsNext ==
    ASSUME Facts, Core', [CatalogueNext]_vars
    PROVE TagRows'
<1>0. tagged \in [Entries -> SUBSET TagRow] /\ tagged' \in [Entries -> SUBSET TagRow]
  BY DEF Facts, Core, CatalogueTypeOK
<1>1. CASE UNCHANGED <<tagged, wanted>> /\ StillCleared
  <2>1. OneRowPerTag'
    BY <1>1 DEF Facts, TagRows, OneRowPerTag
  <2>2. \A q \in Requests : request'[q].pc = "cleared" =>
           request[q].rows \subseteq tagged'[request[q].entry]
    BY <1>1 DEF Facts, TagRows, DeletedAreThere, StillCleared
  <2> QED
    BY <1>1, <2>1, <2>2, RowsKept
<1>2. ASSUME NEW r \in Requests, DeleteTagRows(r) PROVE TagRows'
  <2> DEFINE rows == request[r].rows \cap tagged[request[r].entry]
  <2>1. /\ UNCHANGED tagged
        /\ \A q \in Requests \ {r} : request'[q] = request[q]
        /\ request'[r].entry = request[r].entry
        /\ request'[r].rows = rows
    BY <1>2, DeleteTagRowsFacts
  <2>2. \A q \in Requests \ {r} :
           request[q].pc = "cleared" => TagsOf(request[q].rows) \cap TagsOf(rows) = {}
    BY <1>2 DEF DeleteTagRows, Unlocked, At
  <2>3. rows \subseteq tagged[request[r].entry]
    OBVIOUS
  <2> HIDE DEF rows
  <2>4. OneRowPerTag'
    BY <2>1 DEF Facts, TagRows, OneRowPerTag
  <2>5. DeletedAreThere'
    BY <2>1, <2>3 DEF Facts, TagRows, DeletedAreThere
  <2>6. LocksApart'
    BY <2>1, <2>2 DEF Facts, TagRows, LocksApart
  <2> QED
    BY <2>4, <2>5, <2>6 DEF TagRows
<1>3. ASSUME NEW r \in Requests, CommitEntry(r), request[r].pc = "cleared"
      PROVE TagRows'
  <2> DEFINE e == request[r].entry
             rows == request[r].rows
  <2>1. PICK new \in SUBSET TagRow :
           /\ TagsOf(new) = request[r].tags
           /\ \A x, y \in new : x.tag = y.tag => x = y
           /\ tagged' = [tagged EXCEPT ![e] = (tagged[e] \ rows) \cup new]
    BY <1>3, CommitEntryTags
  <2>2. e \in Entries /\ request[r].tags \cap TagsOf(tagged[e] \ rows) = {}
    BY <1>3, CommitEntryTags
  <2>3. \A q \in Requests : request'[q] = IF q = r THEN Idle ELSE request[q]
    BY <1>3, DoneRequests DEF CommitEntry
  <2>4. StillCleared
    BY <2>3, IdleIsARequest DEF StillCleared
  <2>5. ASSUME NEW q \in Requests, request'[q].pc = "cleared"
        PROVE request[q].rows \subseteq tagged'[request[q].entry]
    <3>1. q # r /\ request[q].pc = "cleared"
      BY <2>3, <2>5, IdleIsARequest
    <3>2. request[q].rows \subseteq tagged[request[q].entry] /\ request[q].entry \in Entries
      BY <3>1 DEF Facts, Core, RequestsKnow, TagRows, DeletedAreThere
    <3>3. request[q].rows \cap rows = {}
      BY <1>3, <3>1 DEF Facts, TagRows, LocksApart, TagsOf
    <3> HIDE DEF e, rows
    <3> QED
      BY <1>0, <2>1, <2>2, <3>2, <3>3
  <2> HIDE DEF e, rows
  <2>6. OneRowPerTag'
    <3> SUFFICES ASSUME NEW x \in Entries, NEW y \in tagged'[x], NEW z \in tagged'[x],
                        y.tag = z.tag
                 PROVE y = z
      BY DEF OneRowPerTag
    <3>1. CASE x # e
      BY <1>0, <2>1, <3>1 DEF Facts, TagRows, OneRowPerTag
    <3>2. CASE x = e
      <4>1. tagged'[x] = (tagged[e] \ rows) \cup new
        BY <1>0, <2>1, <2>2, <3>2
      <4>2. \A a \in tagged[e] \ rows, b \in new : a.tag # b.tag
        BY <2>1, <2>2 DEF TagsOf
      <4>3. \A a, b \in tagged[e] : a.tag = b.tag => a = b
        BY <2>2 DEF Facts, TagRows, OneRowPerTag
      <4> QED
        BY <2>1, <4>1, <4>2, <4>3
    <3> QED
      BY <3>1, <3>2
  <2> QED
    BY <2>4, <2>5, <2>6, RowsKept
<1>4. ASSUME NEW e \in Entries, NEW ts \in SUBSET Tags, NEW ss \in SUBSET Secrets,
             CreateEntry(e, ts, ss)
      PROVE TagRows'
  <2>1. PICK i \in Inserts : tagged' = [tagged EXCEPT ![e] = Rows(ts, i)]
    BY <1>4 DEF CreateEntry
  <2>2. \A x, y \in Rows(ts, i) : x.tag = y.tag => x = y
    BY RowsOfTags
  <2>3. OneRowPerTag'
    BY <1>0, <2>1, <2>2 DEF Facts, TagRows, OneRowPerTag
  <2>4. UNCHANGED request /\ entry[e] = "none"
    BY <1>4 DEF CreateEntry
  <2>5. ASSUME NEW q \in Requests, request'[q].pc = "cleared"
        PROVE request[q].rows \subseteq tagged'[request[q].entry]
    <3>1. /\ request[q].rows \subseteq tagged[request[q].entry]
          /\ request[q].entry \in Entries /\ request[q].entry # e
      BY <2>4, <2>5 DEF Facts, Core, RequestsKnow, TagRows, DeletedAreThere
    <3> QED
      BY <1>0, <2>1, <3>1
  <2>6. StillCleared
    BY <2>4 DEF StillCleared
  <2> QED
    BY <2>3, <2>5, <2>6, RowsKept
<1>5. ASSUME NEW e \in Entries, DeleteEntry(e) PROVE TagRows'
  <2>1. /\ UNCHANGED request /\ tagged' = [tagged EXCEPT ![e] = {}]
        /\ \A q \in Requests : request[q].pc = "cleared" =>
              TagsOf(request[q].rows) \cap TagsOf(tagged[e]) = {}
    BY <1>5 DEF DeleteEntry, Unlocked, At
  <2>2. OneRowPerTag'
    BY <1>0, <2>1 DEF Facts, TagRows, OneRowPerTag
  <2>3. ASSUME NEW q \in Requests, request'[q].pc = "cleared"
        PROVE request[q].rows \subseteq tagged'[request[q].entry]
    <3>1. /\ request[q].rows \subseteq tagged[request[q].entry]
          /\ request[q].entry \in Entries
      BY <2>1, <2>3 DEF Facts, Core, RequestsKnow, TagRows, DeletedAreThere
    <3>2. request[q].rows \cap tagged[e] = {}
      BY <2>1, <2>3 DEF TagsOf
    <3>3. CASE request[q].entry = e
      BY <3>1, <3>2, <3>3
    <3>4. CASE request[q].entry # e
      BY <1>0, <2>1, <3>1, <3>4
    <3> QED
      BY <3>3, <3>4
  <2>4. StillCleared
    BY <2>1 DEF StillCleared
  <2> QED
    BY <2>2, <2>3, <2>4, RowsKept
<1>6. ASSUME NEW t \in Tags, DeleteTag(t) PROVE TagRows'
  <2>1. /\ UNCHANGED request
        /\ tagged' = [e \in Entries |-> {row \in tagged[e] : row.tag # t}]
        /\ \A q \in Requests : request[q].pc = "cleared" =>
              TagsOf(request[q].rows) \cap {t} = {}
    BY <1>6 DEF DeleteTag, Unlocked, At
  <2>2. OneRowPerTag'
    BY <1>0, <2>1 DEF Facts, TagRows, OneRowPerTag
  <2>3. ASSUME NEW q \in Requests, request'[q].pc = "cleared"
        PROVE request[q].rows \subseteq tagged'[request[q].entry]
    <3>1. /\ request[q].rows \subseteq tagged[request[q].entry]
          /\ request[q].entry \in Entries
      BY <2>1, <2>3 DEF Facts, Core, RequestsKnow, TagRows, DeletedAreThere
    <3>2. \A row \in request[q].rows : row.tag # t
      BY <2>1, <2>3 DEF TagsOf
    <3> QED
      BY <2>1, <3>1, <3>2
  <2>4. StillCleared
    BY <2>1 DEF StillCleared
  <2> QED
    BY <2>2, <2>3, <2>4, RowsKept
<1>7. CASE UNCHANGED <<tagged, wanted>>
  BY <1>1, <1>2, <1>7, WhoClears
<1> QED
  BY <1>3, <1>4, <1>5, <1>6, <1>7, WhoTags

LEMMA FactsNext == ASSUME Facts, [CatalogueNext]_vars PROVE Facts'
BY CoreNext, TagRowsNext DEF Facts

LEMMA AlwaysFacts == CatalogueSpec => []Facts
BY FactsInit, FactsNext, PTL DEF CatalogueSpec

-----------------------------------------------------------------------------
(* THE TYPE INVARIANT.                                                     *)
THEOREM CatalogueTypesCorrect == CatalogueSpec => []CatalogueTypeOK
BY AlwaysFacts, PTL DEF Facts, Core

(* The usage count of a tag is the number of entries that carry it, however *)
(* updates, renamings and deletions of entries and of tags interleave.     *)
THEOREM UsageCounts == CatalogueSpec => []UsageCountsEntries
BY AlwaysFacts, PTL DEF Facts, Core

-----------------------------------------------------------------------------
(* Rotation: whole rows are read and written, each with its stamp.         *)
RotationInv ==
    /\ Facts
    /\ RotationStampsValue
    /\ \A q \in Requests : request[q].row.rotated = request[q].row.value

(* The row a request holds is one it has read. *)
LEMMA RowsRead ==
    ASSUME Facts, [CatalogueNext]_vars, NEW q \in Requests
    PROVE \/ request'[q].row = request[q].row
          \/ request'[q].row = NoRow
          \/ \E s \in Secrets : request'[q].row = secret[s].row
<1> DEFINE Good == \/ request'[q].row = request[q].row
                   \/ request'[q].row = NoRow
                   \/ \E s \in Secrets : request'[q].row = secret[s].row
<1>1. ASSUME NEW r \in Requests, NEW record,
             request' = [request EXCEPT ![r] = record],
             record.row = request[r].row \/ record.row = NoRow
                \/ \E s \in Secrets : record.row = secret[s].row
      PROVE Good
  BY <1>1, SecretTypes
<1>2. ASSUME NEW r \in Requests, Done(r) PROVE Good
  <2>1. Idle.row = NoRow
    BY DEF Idle
  <2> QED
    BY <1>1, <1>2, <2>1 DEF Done
<1>3. ASSUME NEW r \in Requests, NEW e \in Entries,
             NEW sets \in SUBSET {"columns", "tags"}, NEW ts \in SUBSET Tags,
             CheckEntry(r, e, sets, ts)
      PROVE Good
  <2>1. [Idle EXCEPT !.pc = "checked", !.entry = e, !.sets = sets, !.tags = ts].row
           = NoRow
    BY DEF Idle
  <2> QED
    BY <1>1, <1>3, <2>1 DEF CheckEntry, Start
<1>4. ASSUME NEW r \in Requests, WriteColumns(r) PROVE Good
  <2>1. request' = [request EXCEPT ![r] = [request[r] EXCEPT !.pc = "locked"]]
    BY <1>4 DEF WriteColumns, GoTo
  <2>2. [request[r] EXCEPT !.pc = "locked"].row = request[r].row
    BY SecretTypes DEF Request
  <2> QED
    BY <1>1, <2>1, <2>2
<1>5. ASSUME NEW r \in Requests, ClearTags(r) \/ DeleteTagRows(r) PROVE Good
  <2>1. /\ \A x \in Requests \ {r} : request'[x] = request[x]
        /\ request'[r].row = request[r].row
    BY <1>5, ClearTagsFacts, DeleteTagRowsFacts
  <2> QED
    BY <2>1
<1>6. ASSUME NEW r \in Requests, NEW t \in Tags, ReadTag(r, t) PROVE Good
  <2>1. [Idle EXCEPT !.pc = "renaming", !.tag = t, !.usage = usage[t]].row = NoRow
    BY DEF Idle
  <2> QED
    BY <1>1, <1>6, <2>1 DEF ReadTag, Start
<1>7. ASSUME NEW r \in Requests, NEW s \in Secrets,
             NEW columns \in SUBSET Columns, NEW d \in Edits,
             ReadSecret(r, s, columns, d)
      PROVE Good
  <2>1. [Idle EXCEPT !.pc = "editing", !.secret = s, !.columns = columns, !.edit = d,
                     !.row = secret[s].row].row = secret[s].row
    BY DEF Idle
  <2> QED
    BY <1>1, <1>7, <2>1 DEF ReadSecret, Start
<1>8. ASSUME NEW r \in Requests, NEW e \in Entries, CountAttachments(r, e)
      PROVE Good
  <2>1. [Idle EXCEPT !.pc = "uploading", !.entry = e].row = NoRow
    BY DEF Idle
  <2> QED
    BY <1>1, <1>8, <2>1 DEF CountAttachments, Start
<1>9. CASE UNCHANGED request
  BY <1>9
<1>10. ASSUME NEW r \in Requests,
              EntryCalls(r) \/ TagCalls(r) \/ SecretCalls(r) \/ AttachmentCalls(r)
                 \/ Fail(r)
       PROVE Good
  <2> HIDE DEF Good
  <2> QED
    BY <1>2, <1>3, <1>4, <1>5, <1>6, <1>7, <1>8, <1>10
       DEF EntryCalls, TagCalls, SecretCalls, AttachmentCalls, CommitEntry,
           WriteTag, WriteSecret, InsertAttachment, Fail
<1> HIDE DEF Good
<1>11. CASE CatalogueNext /\ ~UNCHANGED request
  <2>1. \E r \in Requests :
          EntryCalls(r) \/ TagCalls(r) \/ SecretCalls(r) \/ AttachmentCalls(r)
             \/ Fail(r)
    BY <1>11 DEF CatalogueNext, CreateEntry, DeleteEntry, DeleteAttachment, CreateTag,
                 EnsureSystemTag, DeleteTag, AddSecret, ReorderSecrets, DeleteSecret
  <2> QED
    BY <1>10, <2>1 DEF Good
<1>12. CASE UNCHANGED vars
  BY <1>9, <1>12 DEF vars
<1> QED
  BY <1>9, <1>11, <1>12

LEMMA RotationNext ==
    ASSUME RotationInv, [CatalogueNext]_vars
    PROVE RotationInv'
<1>1. Facts /\ Facts'
  BY FactsNext DEF RotationInv
<1>2. ASSUME NEW q \in Requests
      PROVE request'[q].row.rotated = request'[q].row.value
  BY <1>1, RowsRead DEF RotationInv, RotationStampsValue, NoRow
<1>3. ASSUME NEW s \in Secrets
      PROVE secret'[s].row.rotated = secret'[s].row.value
  <2> DEFINE Good == secret'[s].row.rotated = secret'[s].row.value
  <2>0. secret[s] \in Secret /\ secret[s].row.rotated = secret[s].row.value
    BY <1>1, SecretTypes DEF RotationInv, RotationStampsValue
  <2>1. CASE secret'[s].row = secret[s].row
    BY <2>0, <2>1
  <2>2. ASSUME NEW r \in Requests, WriteSecret(r) PROVE Good
    <3>1. /\ request[r].secret \in Secrets
          /\ secret' = IF Kept(request[r].secret)
                       THEN [secret EXCEPT ![request[r].secret].row = Edited(r)]
                       ELSE secret
      BY <1>1, <2>2, WriteSecretFacts DEF WriteSecret
    <3>2. secret'[s] = secret[s] \/ secret'[s] = [secret[s] EXCEPT !.row = Edited(r)]
      BY <1>1, <3>1, SecretTypes
    <3>3. [secret[s] EXCEPT !.row = Edited(r)].row = Edited(r)
      BY <2>0 DEF Secret
    <3>4. Edited(r).rotated = Edited(r).value
      BY DEF RotationInv, Edited, Changed
    <3> QED
      BY <2>1, <3>2, <3>3, <3>4
  <2>3. ASSUME NEW e \in Entries,
               secret'[s] = secret[s]
                  \/ secret'[s] = [NoSecret EXCEPT !.state = "live", !.entry = e]
                  \/ secret'[s] = [secret[s] EXCEPT !.state = "gone"]
        PROVE Good
    <3>1. [secret[s] EXCEPT !.state = "gone"].row = secret[s].row
      BY <2>0 DEF Secret
    <3>2. [NoSecret EXCEPT !.state = "live", !.entry = e].row = NoRow
      BY DEF NoSecret
    <3>3. NoRow.rotated = NoRow.value
      BY DEF NoRow
    <3>4. CASE secret'[s].row = NoRow
      BY <3>3, <3>4
    <3>5. secret'[s].row = secret[s].row \/ secret'[s].row = NoRow
      <4> HIDE DEF Good
      <4> QED
        BY <2>3, <3>1, <3>2
    <3> QED
      BY <2>1, <3>4, <3>5
  <2>4. ASSUME NEW e \in Entries, NEW ts \in SUBSET Tags, NEW ss \in SUBSET Secrets,
               CreateEntry(e, ts, ss)
        PROVE Good
    BY <2>3, <2>4 DEF CreateEntry
  <2>5. ASSUME NEW e \in Entries, DeleteEntry(e) PROVE Good
    BY <2>3, <2>5 DEF DeleteEntry
  <2>6. ASSUME NEW x \in Secrets, NEW e \in Entries, AddSecret(x, e) PROVE Good
    BY <1>1, <2>3, <2>6, SecretTypes DEF AddSecret
  <2>7. ASSUME NEW e \in Entries, NEW ss \in SUBSET Secrets, NEW d \in Edits,
               ReorderSecrets(e, ss, d)
        PROVE Good
    <3>1. secret'[s] = secret[s] \/ secret'[s] = [secret[s] EXCEPT !.row.position = d]
      BY <2>7 DEF ReorderSecrets
    <3>2. /\ [secret[s] EXCEPT !.row.position = d].row.rotated = secret[s].row.rotated
          /\ [secret[s] EXCEPT !.row.position = d].row.value = secret[s].row.value
      BY <2>0 DEF Secret, Row
    <3> QED
      BY <2>0, <3>1, <3>2
  <2>8. ASSUME NEW x \in Secrets, DeleteSecret(x) PROVE Good
    <3>1. secret'[s] = secret[s] \/ secret'[s] = [secret[s] EXCEPT !.state = "gone"]
      BY <1>1, <2>8, SecretTypes DEF DeleteSecret
    <3>2. [secret[s] EXCEPT !.state = "gone"].row = secret[s].row
      BY <2>0 DEF Secret
    <3> QED
      BY <2>0, <3>1, <3>2
  <2>9. CASE UNCHANGED <<secret, wrote>>
    BY <2>1, <2>9
  <2> HIDE DEF Good
  <2>10. \/ UNCHANGED <<secret, wrote>>
         \/ \E r \in Requests : WriteSecret(r)
         \/ \E e \in Entries, ts \in SUBSET Tags, ss \in SUBSET Secrets :
              CreateEntry(e, ts, ss)
         \/ \E e \in Entries : DeleteEntry(e)
         \/ \E x \in Secrets, e \in Entries : AddSecret(x, e)
         \/ \E e \in Entries, ss \in SUBSET Secrets, d \in Edits :
              ReorderSecrets(e, ss, d)
         \/ \E x \in Secrets : DeleteSecret(x)
    BY <1>1, WhoWritesSecrets
  <2> QED
    BY <2>2, <2>4, <2>5, <2>6, <2>7, <2>8, <2>9, <2>10 DEF Good
<1> QED
  BY <1>1, <1>2, <1>3 DEF RotationInv, RotationStampsValue

(* last_rotated is the time of the value that is stored, also when edits   *)
(* overlapped.                                                             *)
THEOREM RotationStamped == CatalogueSpec => []RotationStampsValue
<1>1. CatalogueInit => RotationInv
  BY FactsInit DEF CatalogueInit, RotationInv, RotationStampsValue, NoSecret, NoRow,
                   Idle
<1>2. RotationInv /\ [CatalogueNext]_vars => RotationInv'
  BY RotationNext
<1>3. RotationInv => RotationStampsValue
  BY DEF RotationInv
<1> QED
  BY <1>1, <1>2, <1>3, PTL DEF CatalogueSpec

-----------------------------------------------------------------------------
(* Tags: unless updates of its tags overlapped, one transaction at a time  *)
(* deletes the tags of an entry, and it has seen all of them.              *)
Clears(q, e) == request[q].pc \in {"clearing", "cleared"} /\ request[q].entry = e

OneClears ==
    \A e \in Entries : <<"tags", e>> \notin overlaps =>
        \A q, r \in Requests :
           /\ Clears(q, e) => tagged[e] \subseteq request[q].rows
           /\ Clears(q, e) /\ Clears(r, e) => q = r

TagsInv == Facts /\ UpdatesSetTags /\ OneClears

(* Nobody begins to delete tags; who has begun may go on. *)
StillClears ==
    \A q \in Requests : \A e \in Entries : Clears(q, e)' =>
        Clears(q, e) /\ request[q].rows \cap tagged[e] \subseteq request'[q].rows

LEMMA SameClears ==
    ASSUME \A q \in Requests : request'[q].pc \in {"clearing", "cleared"} =>
                                 request'[q] = request[q]
    PROVE StillClears
BY DEF StillClears, Clears

(* Fewer tags do no harm. *)
LEMMA OneStillClears ==
    ASSUME TagsInv, overlaps \subseteq overlaps', StillClears,
           \A e \in Entries : tagged'[e] \subseteq tagged[e]
    PROVE OneClears'
<1> SUFFICES ASSUME NEW e \in Entries, <<"tags", e>> \notin overlaps',
                    NEW q \in Requests, NEW r \in Requests
             PROVE /\ Clears(q, e)' => tagged'[e] \subseteq request'[q].rows
                   /\ Clears(q, e)' /\ Clears(r, e)' => q = r
  BY DEF OneClears, Clears
<1>1. /\ Clears(q, e) => tagged[e] \subseteq request[q].rows
      /\ Clears(q, e) /\ Clears(r, e) => q = r
  BY DEF TagsInv, OneClears
<1>2. /\ Clears(q, e)' => /\ Clears(q, e)
                          /\ request[q].rows \cap tagged[e] \subseteq request'[q].rows
      /\ Clears(r, e)' => Clears(r, e)
  BY DEF StillClears
<1> QED
  BY <1>1, <1>2

LEMMA TagsStay ==
    ASSUME TagsInv, overlaps \subseteq overlaps', UNCHANGED <<tagged, wanted>>,
           StillClears
    PROVE UpdatesSetTags' /\ OneClears'
<1>1. UpdatesSetTags'
  BY DEF TagsInv, UpdatesSetTags
<1>2. OneClears'
  BY OneStillClears
<1> QED
  BY <1>1, <1>2

LEMMA TagsNext ==
    ASSUME TagsInv, [CatalogueNext]_vars
    PROVE TagsInv'
<1>1. Facts /\ Facts' /\ overlaps \subseteq overlaps'
  BY FactsNext, OverlapsGrow DEF TagsInv
<1>2. CASE UNCHANGED <<tagged, wanted>> /\ ~\E r \in Requests : ClearTags(r)
  <2>1. StillClears
    <3>1. CASE NobodyReads
      BY <3>1, SameClears DEF NobodyReads
    <3>2. ASSUME NEW r \in Requests, DeleteTagRows(r) PROVE StillClears
      <4>1. /\ request[r].pc = "clearing"
            /\ \A q \in Requests \ {r} : request'[q] = request[q]
            /\ request'[r].entry = request[r].entry
            /\ request'[r].rows = request[r].rows \cap tagged[request[r].entry]
        BY <1>1, <3>2, DeleteTagRowsFacts
      <4> QED
        BY <4>1 DEF StillClears, Clears
    <3>3. ASSUME NEW r \in Requests, Reads(r), ~DeleteTagRows(r) PROVE StillClears
      BY <1>1, <1>2, <3>3, NewReaders, SameClears
    <3> QED
      BY <1>1, <3>1, <3>2, <3>3, WhoReads
  <2> QED
    BY <1>1, <1>2, <2>1, TagsStay DEF TagsInv
<1>3. ASSUME NEW r \in Requests, ClearTags(r) PROVE TagsInv'
  <2> DEFINE e == request[r].entry
  <2>1. /\ e \in Entries
        /\ \A q \in Requests \ {r} : request'[q] = request[q]
        /\ request'[r].rows = tagged[e] /\ request'[r].entry = e
        /\ UNCHANGED <<tagged, wanted>>
        /\ overlaps' = IF Clearing(e) # {} THEN overlaps \cup {<<"tags", e>>}
                       ELSE overlaps
    BY <1>1, <1>3, ClearTagsFacts DEF ClearTags, Overlaps
  <2> HIDE DEF e
  <2>2. UpdatesSetTags'
    BY <1>1, <2>1 DEF TagsInv, UpdatesSetTags
  <2>3. ASSUME NEW x \in Entries, <<"tags", x>> \notin overlaps',
               NEW p \in Requests, NEW q \in Requests
        PROVE /\ Clears(p, x)' => tagged'[x] \subseteq request'[p].rows
              /\ Clears(p, x)' /\ Clears(q, x)' => p = q
    <3>0. <<"tags", x>> \notin overlaps
      BY <1>1, <2>3
    <3>1. CASE x # e
      <4>1. /\ Clears(p, x)' => Clears(p, x) /\ request'[p] = request[p]
            /\ Clears(q, x)' => Clears(q, x)
        BY <2>1, <3>1 DEF Clears
      <4>2. /\ Clears(p, x) => tagged[x] \subseteq request[p].rows
            /\ Clears(p, x) /\ Clears(q, x) => p = q
        BY <3>0 DEF TagsInv, OneClears
      <4> QED
        BY <2>1, <4>1, <4>2
    <3>2. CASE x = e
      <4>1. Clearing(e) = {}
        BY <2>1, <2>3, <3>2
      <4>2. \A y \in Requests \ {r} : ~Clears(y, x)'
        BY <2>1, <3>2, <4>1 DEF Clearing, Clears
      <4> QED
        BY <2>1, <3>2, <4>2
    <3> QED
      BY <3>1, <3>2
  <2>4. OneClears'
    BY <2>3 DEF OneClears, Clears
  <2> QED
    BY <1>1, <2>2, <2>4 DEF TagsInv
<1>4. ASSUME NEW r \in Requests, CommitEntry(r), request[r].pc = "cleared"
      PROVE TagsInv'
  <2> DEFINE e == request[r].entry
             rows == request[r].rows
  <2>1. /\ e \in Entries /\ Done(r) /\ UNCHANGED overlaps
        /\ wanted' = [wanted EXCEPT ![e] = request[r].tags]
        /\ Clears(r, e)
    BY <1>1, <1>4, CommitEntryTags DEF CommitEntry, Clears
  <2>2. PICK new \in SUBSET TagRow :
           /\ TagsOf(new) = request[r].tags
           /\ tagged' = [tagged EXCEPT ![e] = (tagged[e] \ rows) \cup new]
    BY <1>1, <1>4, CommitEntryTags
  <2>3. /\ \A q \in Requests : request'[q] = IF q = r THEN Idle ELSE request[q]
        /\ Idle.pc = "idle"
    BY <1>1, <2>1, DoneRequests, IdleIsARequest
  <2>4. <<"tags", e>> \notin overlaps =>
           /\ tagged[e] \subseteq rows
           /\ \A q \in Requests : Clears(q, e) => q = r
    BY <2>1 DEF TagsInv, OneClears
  <2> HIDE DEF e, rows
  <2>5. \A x \in Entries : /\ x # e => tagged'[x] = tagged[x] /\ wanted'[x] = wanted[x]
                           /\ wanted'[e] = request[r].tags
                           /\ tagged'[e] = (tagged[e] \ rows) \cup new
    BY <1>1, <2>1, <2>2 DEF Facts, Core, CatalogueTypeOK
  <2>6. UpdatesSetTags'
    <3> SUFFICES ASSUME NEW x \in Entries, <<"tags", x>> \notin overlaps
                 PROVE TagsOf(tagged'[x]) = wanted'[x]
      BY <2>1 DEF UpdatesSetTags
    <3>1. CASE x = e
      <4>1. tagged'[x] = new
        BY <2>4, <2>5, <3>1
      <4> QED
        BY <2>2, <2>5, <3>1, <4>1
    <3>2. CASE x # e
      BY <2>5, <3>2 DEF TagsInv, UpdatesSetTags
    <3> QED
      BY <3>1, <3>2
  <2>7. OneClears'
    <3> SUFFICES ASSUME NEW x \in Entries, <<"tags", x>> \notin overlaps,
                        NEW p \in Requests, NEW q \in Requests
                 PROVE /\ Clears(p, x)' => tagged'[x] \subseteq request'[p].rows
                       /\ Clears(p, x)' /\ Clears(q, x)' => p = q
      BY <2>1 DEF OneClears, Clears
    <3>1. /\ Clears(p, x)' => p # r /\ Clears(p, x) /\ request'[p] = request[p]
          /\ Clears(q, x)' => q # r /\ Clears(q, x)
      BY <2>3 DEF Clears
    <3>2. CASE x = e
      BY <2>4, <3>1, <3>2
    <3>3. CASE x # e
      <4>1. /\ Clears(p, x) => tagged[x] \subseteq request[p].rows
            /\ Clears(p, x) /\ Clears(q, x) => p = q
        BY DEF TagsInv, OneClears
      <4> QED
        BY <2>5, <3>1, <3>3, <4>1
    <3> QED
      BY <3>2, <3>3
  <2> QED
    BY <1>1, <2>6, <2>7 DEF TagsInv
<1>5. ASSUME NEW e \in Entries, NEW ts \in SUBSET Tags, NEW ss \in SUBSET Secrets,
             CreateEntry(e, ts, ss)
      PROVE TagsInv'
  <2>1. PICK i \in Inserts : tagged' = [tagged EXCEPT ![e] = Rows(ts, i)]
    BY <1>5 DEF CreateEntry
  <2>2. /\ entry[e] = "none" /\ UNCHANGED <<request, overlaps>>
        /\ \A x \in Entries : /\ tagged'[x] = IF x = e THEN Rows(ts, i) ELSE tagged[x]
                              /\ wanted'[x] = IF x = e THEN ts ELSE wanted[x]
    BY <1>1, <1>5, <2>1 DEF CreateEntry, Facts, Core, CatalogueTypeOK
  <2>3. TagsOf(Rows(ts, i)) = ts
    BY RowsOfTags
  <2>4. \A q \in Requests : ~Clears(q, e)
    BY <1>1, <2>2 DEF Facts, Core, RequestsKnow, Clears
  <2>5. UpdatesSetTags'
    BY <2>2, <2>3 DEF TagsInv, UpdatesSetTags
  <2>6. OneClears'
    BY <2>2, <2>4 DEF TagsInv, OneClears, Clears
  <2> QED
    BY <1>1, <2>5, <2>6 DEF TagsInv
<1>6. ASSUME (\E e \in Entries : DeleteEntry(e)) \/ (\E t \in Tags : DeleteTag(t))
      PROVE TagsInv'
  <2>1. /\ UNCHANGED <<request, overlaps>>
        /\ \A x \in Entries :
              /\ tagged'[x] \subseteq tagged[x]
              /\ TagsOf(tagged[x]) = wanted[x] => TagsOf(tagged'[x]) = wanted'[x]
    <3>1. CASE \E e \in Entries : DeleteEntry(e)
      <4>1. PICK e \in Entries : DeleteEntry(e)
        BY <3>1
      <4>2. /\ \A x \in Entries \ {e} : tagged'[x] = tagged[x] /\ wanted'[x] = wanted[x]
            /\ tagged'[e] = {} /\ wanted'[e] = {}
        BY <1>1, <4>1 DEF DeleteEntry, Facts, Core, CatalogueTypeOK
      <4>3. TagsOf({}) = {}
        BY DEF TagsOf
      <4> QED
        BY <4>1, <4>2, <4>3 DEF DeleteEntry
    <3>2. CASE \E t \in Tags : DeleteTag(t)
      <4>1. PICK t \in Tags : DeleteTag(t)
        BY <3>2
      <4>2. \A x \in Entries : /\ tagged'[x] = {row \in tagged[x] : row.tag # t}
                               /\ wanted'[x] = wanted[x] \ {t}
        BY <4>1 DEF DeleteTag
      <4>3. \A x \in Entries : TagsOf(tagged'[x]) = TagsOf(tagged[x]) \ {t}
        BY <4>2 DEF TagsOf
      <4> QED
        BY <4>1, <4>2, <4>3 DEF DeleteTag
    <3> QED
      BY <1>6, <3>1, <3>2
  <2>2. UpdatesSetTags'
    BY <2>1 DEF TagsInv, UpdatesSetTags
  <2>3. StillClears
    BY <2>1, SameClears
  <2>4. OneClears'
    BY <2>1, <2>3, OneStillClears
  <2> QED
    BY <1>1, <2>2, <2>4 DEF TagsInv
<1> QED
  BY <1>1, <1>2, <1>3, <1>4, <1>5, <1>6, WhoTags

(* An entry has the tags its last answered update gave it, without those   *)
(* deleted since, unless two updates of its tags overlapped.               *)
THEOREM UpdatesReplaceTags == CatalogueSpec => []UpdatesSetTags
<1>1. CatalogueInit => TagsInv
  <2> SUFFICES ASSUME CatalogueInit PROVE TagsInv
    OBVIOUS
  <2>1. UpdatesSetTags
    BY DEF CatalogueInit, UpdatesSetTags, TagsOf
  <2>2. OneClears
    BY IdleIsARequest DEF CatalogueInit, OneClears, Clears
  <2> QED
    BY <2>1, <2>2, FactsInit DEF TagsInv
<1>2. TagsInv /\ [CatalogueNext]_vars => TagsInv'
  BY TagsNext
<1>3. TagsInv => UpdatesSetTags
  BY DEF TagsInv
<1> QED
  BY <1>1, <1>2, <1>3, PTL DEF CatalogueSpec

-----------------------------------------------------------------------------
(* Secrets: unless edits of it overlapped, one UpdateSecret at a time has  *)
(* read a secret, and the row it holds is the one that is stored.          *)
Shows(s) ==
    /\ secret[s].row.value = wrote[s]["value"]
    /\ secret[s].row.position = wrote[s]["position"]

OneEdits ==
    \A s \in Secrets : <<"secret", s>> \notin overlaps =>
        \A q, r \in Requests :
           /\ Kept(s) /\ request[q].pc = "editing" /\ request[q].secret = s =>
                 request[q].row = secret[s].row
           /\ /\ request[q].pc = "editing" /\ request[q].secret = s
              /\ request[r].pc = "editing" /\ request[r].secret = s
              => q = r

EditsInv == Facts /\ SerialEditsAreKept /\ OneEdits

(* A secret nobody writes, or that is deleted, as long as nobody reads.    *)
LEMMA SecretStays ==
    ASSUME EditsInv, overlaps \subseteq overlaps', NEW s \in Secrets,
           <<"secret", s>> \notin overlaps',
           \A q \in Requests : request'[q].pc = "editing" => request'[q] = request[q],
           \/ secret'[s].state = "gone"
           \/ secret'[s] = secret[s] /\ wrote'[s] = wrote[s]
    PROVE /\ Kept(s)' => Shows(s)'
          /\ \A q, r \in Requests :
                /\ /\ Kept(s)' /\ request'[q].pc = "editing"
                   /\ request'[q].secret = s
                   => request'[q].row = secret'[s].row
                /\ /\ request'[q].pc = "editing" /\ request'[q].secret = s
                   /\ request'[r].pc = "editing" /\ request'[r].secret = s
                   => q = r
<1>1. <<"secret", s>> \notin overlaps
  OBVIOUS
<1>2. Kept(s)' => Kept(s) /\ secret'[s] = secret[s] /\ wrote'[s] = wrote[s]
  BY DEF Kept
<1>3. Kept(s)' => Shows(s)'
  BY <1>1, <1>2 DEF EditsInv, SerialEditsAreKept, Shows
<1> QED
  BY <1>1, <1>2, <1>3 DEF EditsInv, OneEdits

LEMMA SecretsHold ==
    ASSUME Facts',
           \A s \in Secrets : <<"secret", s>> \notin overlaps' =>
              /\ Kept(s)' => Shows(s)'
              /\ \A q, r \in Requests :
                    /\ /\ Kept(s)' /\ request'[q].pc = "editing"
                       /\ request'[q].secret = s
                       => request'[q].row = secret'[s].row
                    /\ /\ request'[q].pc = "editing" /\ request'[q].secret = s
                       /\ request'[r].pc = "editing" /\ request'[r].secret = s
                       => q = r
    PROVE EditsInv'
<1>1. SerialEditsAreKept'
  BY DEF SerialEditsAreKept, Shows
<1>2. OneEdits'
  BY DEF OneEdits
<1> QED
  BY <1>1, <1>2 DEF EditsInv

(* Nobody reads a secret while one is written. *)
LEMMA DoneEdits ==
    ASSUME Facts, UNCHANGED request \/ \E r \in Requests : Done(r)
    PROVE \A q \in Requests : request'[q].pc = "editing" => request'[q] = request[q]
BY DoneRequests, IdleIsARequest

LEMMA ReadsOnlySecrets ==
    ASSUME Facts, NEW r \in Requests, Reads(r),
           ~\E s \in Secrets, columns \in SUBSET Columns, d \in Edits :
               ReadSecret(r, s, columns, d)
    PROVE \A q \in Requests : \/ request'[q] = request[q]
                              \/ request'[q].pc \in {"clearing", "cleared", "uploading"}
<1>1. ASSUME ClearTags(r) \/ DeleteTagRows(r), NEW q \in Requests
      PROVE request'[q] = request[q] \/ request'[q].pc \in {"clearing", "cleared"}
  BY <1>1, ClearTagsFacts, DeleteTagRowsFacts
<1>2. ASSUME NEW e \in Entries, CountAttachments(r, e), NEW q \in Requests
      PROVE request'[q] = request[q] \/ request'[q].pc = "uploading"
  <2>1. [Idle EXCEPT !.pc = "uploading", !.entry = e].pc = "uploading"
    BY DEF Idle
  <2> QED
    BY <1>2, <2>1, SecretTypes DEF CountAttachments, Start
<1> QED
  BY <1>1, <1>2 DEF Reads

LEMMA ReadSecretEdits ==
    ASSUME EditsInv, Facts', NEW r \in Requests, NEW s \in Secrets,
           NEW columns \in SUBSET Columns, NEW d \in Edits,
           ReadSecret(r, s, columns, d)
    PROVE EditsInv'
<1> DEFINE record == [Idle EXCEPT !.pc = "editing", !.secret = s,
                                  !.columns = columns, !.edit = d,
                                  !.row = secret[s].row]
<1>1. /\ record.pc = "editing" /\ record.secret = s /\ record.row = secret[s].row
      /\ record \in Request
  BY SecretTypes DEF Idle, Request, Owner, EditOf, Secret, Row, EditsInv
<1>2. /\ Start(r, record) /\ UNCHANGED <<secret, wrote>>
      /\ overlaps' = IF Editing(s) # {} THEN overlaps \cup {<<"secret", s>>}
                     ELSE overlaps
  BY DEF ReadSecret, Overlaps
<1> HIDE DEF record
<1>3. \A q \in Requests : request'[q] = IF q = r THEN record ELSE request[q]
  BY <1>1, <1>2, StartRequests DEF EditsInv
<1>4. overlaps \subseteq overlaps'
  BY <1>2
<1>5. ASSUME NEW x \in Secrets, <<"secret", x>> \notin overlaps'
      PROVE /\ Kept(x)' => Shows(x)'
            /\ \A p, q \in Requests :
                  /\ /\ Kept(x)' /\ request'[p].pc = "editing"
                     /\ request'[p].secret = x
                     => request'[p].row = secret'[x].row
                  /\ /\ request'[p].pc = "editing" /\ request'[p].secret = x
                     /\ request'[q].pc = "editing" /\ request'[q].secret = x
                     => p = q
  <2>0. <<"secret", x>> \notin overlaps
    BY <1>4, <1>5
  <2>1. Kept(x)' => Shows(x)'
    BY <1>2, <2>0 DEF EditsInv, SerialEditsAreKept, Shows, Kept
  <2>2. CASE x # s
    BY <1>1, <1>2, <1>3, <2>0, <2>1, <2>2 DEF EditsInv, OneEdits, Kept
  <2>3. CASE x = s
    <3>1. Editing(s) = {}
      BY <1>2, <1>5, <2>3
    <3>2. \A y \in Requests \ {r} :
             ~(request'[y].pc = "editing" /\ request'[y].secret = s)
      BY <1>3, <3>1 DEF Editing, At
    <3> QED
      BY <1>1, <1>2, <1>3, <2>1, <2>3, <3>2
  <2> QED
    BY <2>2, <2>3
<1> QED
  BY <1>5, SecretsHold

LEMMA WriteSecretEdits ==
    ASSUME EditsInv, Facts', NEW r \in Requests, WriteSecret(r),
           NEW s \in Secrets, s = request[r].secret
    PROVE EditsInv'
<1> DEFINE new == [secret[s] EXCEPT !.row = Edited(r)]
           done == [c \in Columns |-> Changed(r, c, wrote[s][c])]
<1>0. Facts
  BY DEF EditsInv
<1>1. request[r].pc = "editing" /\ Done(r) /\ UNCHANGED overlaps
  BY <1>0, WriteSecretFacts DEF WriteSecret, At
<1>2. /\ secret' = IF Kept(s) THEN [secret EXCEPT ![s] = new] ELSE secret
      /\ wrote' = [wrote EXCEPT ![s] = done]
  BY <1>0, <1>1, SecretTypes DEF WriteSecret
<1>3. /\ done["value"] = Changed(r, "value", wrote[s]["value"])
      /\ done["position"] = Changed(r, "position", wrote[s]["position"])
  BY DEF Columns
<1>4. /\ new.row.value = Changed(r, "value", request[r].row.value)
      /\ new.row.position = Changed(r, "position", request[r].row.position)
      /\ new.state = secret[s].state
  <2>1. secret[s] \in Secret
    BY <1>0, <1>1, SecretTypes
  <2>2. new.row = Edited(r) /\ new.state = secret[s].state
    BY <2>1 DEF Secret
  <2> HIDE DEF new
  <2> QED
    BY <2>2 DEF Edited
<1> HIDE DEF new, done
<1>5. /\ \A q \in Requests : request'[q] = IF q = r THEN Idle ELSE request[q]
      /\ Idle.pc = "idle"
  BY <1>0, <1>1, DoneRequests, IdleIsARequest
<1>6. ASSUME NEW x \in Secrets, <<"secret", x>> \notin overlaps'
      PROVE /\ Kept(x)' => Shows(x)'
            /\ \A p, q \in Requests :
                  /\ /\ Kept(x)' /\ request'[p].pc = "editing"
                     /\ request'[p].secret = x
                     => request'[p].row = secret'[x].row
                  /\ /\ request'[p].pc = "editing" /\ request'[p].secret = x
                     /\ request'[q].pc = "editing" /\ request'[q].secret = x
                     => p = q
  <2>1. CASE x # s
    <3>1. secret'[x] = secret[x] /\ wrote'[x] = wrote[x]
      BY <1>0, <1>1, <1>2, <2>1, SecretTypes
    <3>2. \A q \in Requests : request'[q].pc = "editing" => request'[q] = request[q]
      BY <1>5
    <3> QED
      BY <1>1, <1>6, <3>1, <3>2, SecretStays
  <2>2. CASE x = s
    <3>1. \A q \in Requests : request'[q].pc = "editing" => request'[q].secret # s
      BY <1>1, <1>5, <1>6, <2>2 DEF EditsInv, OneEdits
    <3>2. CASE Kept(s)
      <4>1. /\ request[r].row = secret[s].row
            /\ secret[s].row.value = wrote[s]["value"]
            /\ secret[s].row.position = wrote[s]["position"]
        BY <1>1, <1>6, <2>2, <3>2 DEF EditsInv, OneEdits, SerialEditsAreKept
      <4>2. secret'[s] = new /\ wrote'[s] = done
        BY <1>0, <1>1, <1>2, <3>2, SecretTypes
      <4>3. Shows(s)'
        BY <1>3, <1>4, <4>1, <4>2 DEF Shows, Changed
      <4> QED
        BY <2>2, <3>1, <4>3
    <3>3. CASE ~Kept(s)
      <4>1. ~Kept(s)'
        BY <1>2, <3>3 DEF Kept
      <4> QED
        BY <2>2, <3>1, <4>1
    <3> QED
      BY <3>2, <3>3
  <2> QED
    BY <2>1, <2>2
<1> QED
  BY <1>6, SecretsHold

(* A secret that has just come: nobody has read it. *)
LEMMA NewSecretEdits ==
    ASSUME Facts, UNCHANGED <<request, wrote>>, NEW s \in Secrets,
           secret[s] = NoSecret, secret'[s].row = NoRow
    PROVE /\ Kept(s)' => Shows(s)'
          /\ \A q, r \in Requests :
                /\ /\ Kept(s)' /\ request'[q].pc = "editing"
                   /\ request'[q].secret = s
                   => request'[q].row = secret'[s].row
                /\ /\ request'[q].pc = "editing" /\ request'[q].secret = s
                   /\ request'[r].pc = "editing" /\ request'[r].secret = s
                   => q = r
<1>1. secret[s].state = "none"
  BY DEF NoSecret
<1>2. wrote[s]["value"] = None /\ wrote[s]["position"] = None
  BY <1>1 DEF Facts, Core, UntouchedSecrets, Columns
<1>3. Shows(s)'
  BY <1>2 DEF Shows, NoRow
<1>4. \A q \in Requests : request[q].pc = "editing" => request[q].secret # s
  BY <1>1 DEF Facts, Core, RequestsKnow
<1> QED
  BY <1>3, <1>4

LEMMA EditsNext ==
    ASSUME EditsInv, [CatalogueNext]_vars
    PROVE EditsInv'
<1>1. Facts /\ Facts' /\ overlaps \subseteq overlaps'
  BY FactsNext, OverlapsGrow DEF EditsInv
<1> DEFINE Quiet == \A q \in Requests : request'[q].pc = "editing" =>
                                          request'[q] = request[q]
           Read == \E r \in Requests, s \in Secrets, columns \in SUBSET Columns,
                      d \in Edits : ReadSecret(r, s, columns, d)
<1>2. CASE Read
  BY <1>1, <1>2, ReadSecretEdits
<1>3. CASE ~Read
  <2>1. Quiet
    <3>1. CASE NobodyReads
      BY <3>1 DEF NobodyReads
    <3>2. CASE \E r \in Requests : Reads(r)
      BY <1>1, <1>3, <3>2, ReadsOnlySecrets
    <3> QED
      BY <1>1, <3>1, <3>2, WhoReads
  <2> HIDE DEF Read
  <2>2. ASSUME NEW r \in Requests, WriteSecret(r) PROVE EditsInv'
    <3>1. request[r].secret \in Secrets
      BY <1>1, <2>2, WriteSecretFacts
    <3> QED
      BY <1>1, <2>2, <3>1, WriteSecretEdits
  <2>3. ASSUME \A s \in Secrets : \/ secret'[s] = secret[s] /\ wrote'[s] = wrote[s]
                                  \/ secret'[s].state = "gone"
                                  \/ /\ UNCHANGED <<request, wrote>>
                                     /\ secret[s] = NoSecret /\ secret'[s].row = NoRow
        PROVE EditsInv'
    <3>1. ASSUME NEW s \in Secrets, <<"secret", s>> \notin overlaps'
          PROVE /\ Kept(s)' => Shows(s)'
                /\ \A q, r \in Requests :
                      /\ /\ Kept(s)' /\ request'[q].pc = "editing"
                         /\ request'[q].secret = s
                         => request'[q].row = secret'[s].row
                      /\ /\ request'[q].pc = "editing" /\ request'[q].secret = s
                         /\ request'[r].pc = "editing" /\ request'[r].secret = s
                         => q = r
      <4>1. CASE secret'[s].state = "gone" \/ (secret'[s] = secret[s] /\ wrote'[s] = wrote[s])
        BY <1>1, <2>1, <3>1, <4>1, SecretStays
      <4>2. CASE /\ UNCHANGED <<request, wrote>>
                 /\ secret[s] = NoSecret /\ secret'[s].row = NoRow
        BY <1>1, <4>2, NewSecretEdits
      <4> QED
        BY <2>3, <4>1, <4>2
    <3> QED
      BY <1>1, <3>1, SecretsHold
  <2>4. CASE UNCHANGED <<secret, wrote>>
    BY <2>3, <2>4
  <2>5. ASSUME NEW e \in Entries
        PROVE [NoSecret EXCEPT !.state = "live", !.entry = e].row = NoRow
    BY DEF NoSecret
  <2>6. ASSUME NEW s \in Secrets PROVE [secret[s] EXCEPT !.state = "gone"].state = "gone"
    BY <1>1, SecretTypes DEF Secret
  <2>7. ASSUME NEW e \in Entries, NEW ts \in SUBSET Tags, NEW ss \in SUBSET Secrets,
               CreateEntry(e, ts, ss)
        PROVE EditsInv'
    BY <2>3, <2>5, <2>7 DEF CreateEntry
  <2>8. ASSUME NEW e \in Entries, DeleteEntry(e) PROVE EditsInv'
    BY <2>3, <2>6, <2>8 DEF DeleteEntry
  <2>9. ASSUME NEW x \in Secrets, NEW e \in Entries, AddSecret(x, e) PROVE EditsInv'
    BY <1>1, <2>3, <2>5, <2>9, SecretTypes DEF AddSecret
  <2>10. ASSUME NEW x \in Secrets, DeleteSecret(x) PROVE EditsInv'
    <3>1. secret' = [secret EXCEPT ![x] = [secret[x] EXCEPT !.state = "gone"]]
      BY <2>10 DEF DeleteSecret
    <3>2. \A s \in Secrets : secret'[s] = secret[s] \/ secret'[s].state = "gone"
      BY <1>1, <2>6, <3>1, SecretTypes
    <3> QED
      BY <2>3, <2>10, <3>2 DEF DeleteSecret
  <2>11. ASSUME NEW e \in Entries, NEW ss \in SUBSET Secrets, NEW d \in Edits,
                ReorderSecrets(e, ss, d)
         PROVE EditsInv'
    <3>1. /\ \A s \in Secrets \ ss : secret'[s] = secret[s] /\ wrote'[s] = wrote[s]
          /\ \A s \in ss : /\ Kept(s)
                           /\ secret'[s] = [secret[s] EXCEPT !.row.position = d]
                           /\ wrote'[s] = [wrote[s] EXCEPT !["position"] = d]
          /\ overlaps' = overlaps \cup {<<"secret", s>> :
                                        s \in {x \in ss : Editing(x) # {}}}
          /\ UNCHANGED request
      BY <2>11 DEF ReorderSecrets
    <3>2. ASSUME NEW s \in Secrets, <<"secret", s>> \notin overlaps'
          PROVE /\ Kept(s)' => Shows(s)'
                /\ \A q, r \in Requests :
                      /\ /\ Kept(s)' /\ request'[q].pc = "editing"
                         /\ request'[q].secret = s
                         => request'[q].row = secret'[s].row
                      /\ /\ request'[q].pc = "editing" /\ request'[q].secret = s
                         /\ request'[r].pc = "editing" /\ request'[r].secret = s
                         => q = r
      <4>1. CASE s \notin ss
        BY <1>1, <2>1, <3>1, <3>2, <4>1, SecretStays
      <4>2. CASE s \in ss
        <5>1. Editing(s) = {} /\ <<"secret", s>> \notin overlaps
          BY <3>1, <3>2, <4>2
        <5>2. \A q \in Requests : ~(request'[q].pc = "editing" /\ request'[q].secret = s)
          BY <3>1, <5>1 DEF Editing, At
        <5>3. /\ secret[s] \in Secret /\ wrote[s] \in [Columns -> EditOf]
              /\ secret[s].row.value = wrote[s]["value"]
          BY <1>1, <3>1, <4>2, <5>1, SecretTypes DEF EditsInv, SerialEditsAreKept
        <5>4. /\ [secret[s] EXCEPT !.row.position = d].row.value = secret[s].row.value
              /\ [secret[s] EXCEPT !.row.position = d].row.position = d
          BY <5>3 DEF Secret, Row
        <5>5. /\ [wrote[s] EXCEPT !["position"] = d]["value"] = wrote[s]["value"]
              /\ [wrote[s] EXCEPT !["position"] = d]["position"] = d
          BY <5>3 DEF Columns
        <5>6. Shows(s)'
          BY <3>1, <4>2, <5>3, <5>4, <5>5 DEF Shows
        <5> QED
          BY <5>2, <5>6
      <4> QED
        BY <4>1, <4>2
    <3> QED
      BY <1>1, <3>2, SecretsHold
  <2> QED
    BY <1>1, <2>2, <2>4, <2>7, <2>8, <2>9, <2>10, <2>11, WhoWritesSecrets
<1> QED
  BY <1>2, <1>3

(* A secret shows the last answered edit of each of its columns, unless an *)
(* UpdateSecret overlapped another edit.                                   *)
THEOREM SerialEdits == CatalogueSpec => []SerialEditsAreKept
<1>1. CatalogueInit => EditsInv
  <2> SUFFICES ASSUME CatalogueInit PROVE EditsInv
    OBVIOUS
  <2>1. SerialEditsAreKept
    BY DEF CatalogueInit, SerialEditsAreKept, Kept, NoSecret
  <2>2. OneEdits
    BY IdleIsARequest DEF CatalogueInit, OneEdits
  <2> QED
    BY <2>1, <2>2, FactsInit DEF EditsInv
<1>2. EditsInv /\ [CatalogueNext]_vars => EditsInv'
  BY EditsNext
<1>3. EditsInv => SerialEditsAreKept
  BY DEF EditsInv
<1> QED
  BY <1>1, <1>2, <1>3, PTL DEF CatalogueSpec

-----------------------------------------------------------------------------
(* Attachments: those there are and those that have been counted before    *)
(* being inserted; unless uploads overlapped, one at a time has counted.   *)
Below(e) == attached[e] + Cardinality(Uploading(e)) < Limit + Cardinality(Requests)

OneUploads(e) == <<"files", e>> \notin overlaps =>
    /\ attached[e] <= Limit
    /\ Uploading(e) # {} => attached[e] < Limit
    /\ \A q, r \in Uploading(e) : q = r

AttachInv == Facts /\ \A e \in Entries : Below(e) /\ OneUploads(e)

LEMMA Numbers ==
    ASSUME Facts, NEW e \in Entries
    PROVE /\ attached[e] \in Nat /\ Limit \in Nat /\ Limit > 0
          /\ Cardinality(Requests) \in Nat
          /\ IsFiniteSet(Uploading(e)) /\ Cardinality(Uploading(e)) \in Nat
          /\ Cardinality(Uploading(e)) <= Cardinality(Requests)
<1>1. IsFiniteSet(Requests) /\ Uploading(e) \subseteq Requests
  BY CatalogueAssumption DEF Uploading
<1>2. attached[e] \in Nat /\ Limit \in Nat /\ Limit > 0
  BY CatalogueAssumption DEF Facts, Core, CatalogueTypeOK
<1> QED
  BY <1>1, <1>2, FS_CardinalityType, FS_Subset

LEMMA FewerUpload ==
    ASSUME AttachInv, overlaps \subseteq overlaps', NEW e \in Entries,
           attached'[e] \in Nat, attached'[e] <= attached[e],
           \A q \in Requests : request'[q].pc = "uploading" => request'[q] = request[q]
    PROVE Below(e)' /\ OneUploads(e)'
<1>1. Uploading(e)' \subseteq Uploading(e)
  BY DEF Uploading, At
<1>2. /\ Cardinality(Uploading(e)') <= Cardinality(Uploading(e))
      /\ Cardinality(Uploading(e)') \in Nat
  BY <1>1, Numbers, FS_Subset, FS_CardinalityType DEF AttachInv
<1>3. attached[e] \in Nat /\ Limit \in Nat /\ Cardinality(Requests) \in Nat
      /\ Cardinality(Uploading(e)) \in Nat
  BY Numbers DEF AttachInv
<1>4. Below(e)'
  <2>1. attached[e] + Cardinality(Uploading(e)) < Limit + Cardinality(Requests)
    BY DEF AttachInv, Below
  <2>2. attached'[e] + Cardinality(Uploading(e)') < Limit + Cardinality(Requests)
    BY <1>2, <1>3, <2>1
  <2> QED
    BY <2>2 DEF Below
<1>5. OneUploads(e)'
  BY <1>1, <1>3 DEF AttachInv, OneUploads
<1> QED
  BY <1>4, <1>5

LEMMA ReadsNoFiles ==
    ASSUME Facts, NEW r \in Requests, Reads(r),
           ~\E e \in Entries : CountAttachments(r, e)
    PROVE \A q \in Requests : \/ request'[q] = request[q]
                              \/ request'[q].pc \in {"clearing", "cleared", "editing"}
<1>1. ASSUME ClearTags(r) \/ DeleteTagRows(r), NEW q \in Requests
      PROVE request'[q] = request[q] \/ request'[q].pc \in {"clearing", "cleared"}
  BY <1>1, ClearTagsFacts, DeleteTagRowsFacts
<1>2. ASSUME NEW s \in Secrets, NEW columns \in SUBSET Columns, NEW d \in Edits,
             ReadSecret(r, s, columns, d), NEW q \in Requests
      PROVE request'[q] = request[q] \/ request'[q].pc = "editing"
  <2>1. [Idle EXCEPT !.pc = "editing", !.secret = s, !.columns = columns, !.edit = d,
                     !.row = secret[s].row].pc = "editing"
    BY DEF Idle
  <2> QED
    BY <1>2, <2>1, SecretTypes DEF ReadSecret, Start
<1> QED
  BY <1>1, <1>2 DEF Reads

LEMMA CountAttachmentsKeeps ==
    ASSUME AttachInv, Facts', NEW r \in Requests, NEW e \in Entries,
           CountAttachments(r, e)
    PROVE AttachInv'
<1> DEFINE record == [Idle EXCEPT !.pc = "uploading", !.entry = e]
<1>1. record.pc = "uploading" /\ record.entry = e /\ record \in Request
  BY DEF Idle, Request, NoRow, Owner, EditOf
<1>2. /\ Start(r, record) /\ UNCHANGED attached /\ attached[e] < Limit
      /\ overlaps' = IF Uploading(e) # {} THEN overlaps \cup {<<"files", e>>}
                     ELSE overlaps
  BY DEF CountAttachments, Overlaps
<1> HIDE DEF record
<1>3. \A q \in Requests : request'[q] = IF q = r THEN record ELSE request[q]
  BY <1>1, <1>2, StartRequests DEF AttachInv
<1>4. ASSUME NEW x \in Entries PROVE Below(x)' /\ OneUploads(x)'
  <2>1. CASE x = e
    <3>1. /\ attached[e] \in Nat /\ Limit \in Nat /\ Cardinality(Requests) \in Nat
      BY Numbers DEF AttachInv
    <3>2. /\ IsFiniteSet(Requests) /\ Uploading(x)' \subseteq Requests
      BY CatalogueAssumption DEF Uploading
    <3>3. Cardinality(Uploading(x)') <= Cardinality(Requests)
          /\ Cardinality(Uploading(x)') \in Nat
      BY <3>2, FS_Subset, FS_CardinalityType
    <3>4. Below(x)'
      <4>1. attached'[x] + Cardinality(Uploading(x)') < Limit + Cardinality(Requests)
        BY <1>2, <2>1, <3>1, <3>3
      <4> QED
        BY <4>1 DEF Below
    <3>5. OneUploads(x)'
      <4> SUFFICES ASSUME <<"files", e>> \notin overlaps'
                   PROVE /\ attached'[x] <= Limit /\ attached'[x] < Limit
                         /\ \A p, q \in Uploading(x)' : p = q
        BY <2>1 DEF OneUploads
      <4>1. Uploading(e) = {}
        BY <1>2
      <4>2. \A q \in Uploading(x)' : q = r
        BY <1>3, <2>1, <4>1 DEF Uploading, At
      <4> QED
        BY <1>2, <2>1, <3>1, <4>2
    <3> QED
      BY <3>4, <3>5
  <2>2. CASE x # e
    <3>1. Uploading(x)' = Uploading(x)
      BY <1>1, <1>2, <1>3, <2>2 DEF Uploading, At, Start
    <3>2. <<"files", x>> \notin overlaps' => <<"files", x>> \notin overlaps
      BY <1>2
    <3> QED
      BY <1>2, <3>1, <3>2 DEF AttachInv, Below, OneUploads
  <2> QED
    BY <2>1, <2>2
<1> QED
  BY <1>4 DEF AttachInv

LEMMA InsertAttachmentKeeps ==
    ASSUME AttachInv, Facts', NEW r \in Requests, InsertAttachment(r),
           NEW e \in Entries, e = request[r].entry
    PROVE AttachInv'
<1>0. Facts
  BY DEF AttachInv
<1>1. /\ request[r].pc = "uploading" /\ Done(r) /\ UNCHANGED overlaps
      /\ \A x \in Entries : attached'[x] = IF x = e THEN attached[x] + 1
                                           ELSE attached[x]
  BY <1>0 DEF InsertAttachment, At, Facts, Core, CatalogueTypeOK
<1>2. /\ \A q \in Requests : request'[q] = IF q = r THEN Idle ELSE request[q]
      /\ Idle.pc = "idle"
  BY <1>0, <1>1, DoneRequests, IdleIsARequest
<1>3. ASSUME NEW x \in Entries PROVE Below(x)' /\ OneUploads(x)'
  <2>1. CASE x = e
    <3>1. Uploading(x)' = Uploading(x) \ {r} /\ r \in Uploading(x)
      BY <1>1, <1>2, <2>1 DEF Uploading, At
    <3>2. /\ Cardinality(Uploading(x)') = Cardinality(Uploading(x)) - 1
      BY <1>0, <3>1, Numbers, FS_RemoveElement
    <3>3. attached[x] + Cardinality(Uploading(x)) < Limit + Cardinality(Requests)
      BY DEF AttachInv, Below
    <3>4. /\ attached[x] \in Nat /\ Limit \in Nat /\ Cardinality(Requests) \in Nat
          /\ Cardinality(Uploading(x)) \in Nat
      BY <1>0, Numbers
    <3>5. attached'[x] + Cardinality(Uploading(x)') < Limit + Cardinality(Requests)
      BY <1>1, <2>1, <3>2, <3>3, <3>4
    <3>6. Below(x)'
      BY <3>5 DEF Below
    <3>7. OneUploads(x)'
      <4> SUFFICES ASSUME <<"files", x>> \notin overlaps
                   PROVE attached'[x] <= Limit /\ Uploading(x)' = {}
        BY <1>1 DEF OneUploads
      <4>1. attached[x] < Limit /\ \A p, q \in Uploading(x) : p = q
        BY <3>1 DEF AttachInv, OneUploads
      <4> QED
        BY <1>1, <2>1, <3>1, <3>4, <4>1
    <3> QED
      BY <3>6, <3>7
  <2>2. CASE x # e
    <3>1. attached'[x] \in Nat /\ attached'[x] <= attached[x]
      BY <1>0, <1>1, <2>2, Numbers
    <3> QED
      BY <1>1, <1>2, <3>1, FewerUpload
  <2> QED
    BY <2>1, <2>2
<1> QED
  BY <1>3 DEF AttachInv

LEMMA AttachNext ==
    ASSUME AttachInv, [CatalogueNext]_vars
    PROVE AttachInv'
<1>1. Facts /\ Facts' /\ overlaps \subseteq overlaps'
  BY FactsNext, OverlapsGrow DEF AttachInv
<1> DEFINE CountsAt == \E r \in Requests, e \in Entries : CountAttachments(r, e)
<1>2. CASE CountsAt
  BY <1>1, <1>2, CountAttachmentsKeeps
<1>3. CASE ~CountsAt
  <2>1. \A q \in Requests : request'[q].pc = "uploading" => request'[q] = request[q]
    <3>1. CASE NobodyReads
      BY <3>1 DEF NobodyReads
    <3>2. CASE \E r \in Requests : Reads(r)
      BY <1>1, <1>3, <3>2, ReadsNoFiles
    <3> QED
      BY <1>1, <3>1, <3>2, WhoReads
  <2> HIDE DEF CountsAt
  <2>2. ASSUME NEW r \in Requests, InsertAttachment(r) PROVE AttachInv'
    <3>1. request[r].entry \in Entries
      BY <1>1, <2>2 DEF InsertAttachment, At, Facts, Core, RequestsKnow
    <3> QED
      BY <1>1, <2>2, <3>1, InsertAttachmentKeeps
  <2>3. ASSUME \A e \in Entries : attached'[e] <= attached[e]
        PROVE AttachInv'
    <3>1. \A e \in Entries : attached'[e] \in Nat
      BY <1>1 DEF Facts, Core, CatalogueTypeOK
    <3>2. \A e \in Entries : Below(e)' /\ OneUploads(e)'
      BY <1>1, <2>1, <2>3, <3>1, FewerUpload
    <3> QED
      BY <1>1, <3>2 DEF AttachInv
  <2>4. ASSUME (\E e \in Entries : DeleteEntry(e) \/ DeleteAttachment(e))
                  \/ UNCHANGED attached
        PROVE \A e \in Entries : attached'[e] <= attached[e]
    BY <1>1, <2>4 DEF DeleteEntry, DeleteAttachment, Facts, Core, CatalogueTypeOK
  <2> QED
    BY <1>1, <2>2, <2>3, <2>4, WhoAttaches
<1> QED
  BY <1>2, <1>3

(* An entry exceeds the limit of attachments only when uploads to it       *)
(* overlapped, and by fewer than there are requests at a time.             *)
THEOREM AttachmentLimit == CatalogueSpec => []AttachmentsBounded
<1>1. CatalogueInit => AttachInv
  <2> SUFFICES ASSUME CatalogueInit PROVE AttachInv
    OBVIOUS
  <2>1. Facts
    BY FactsInit
  <2>2. ASSUME NEW e \in Entries PROVE Below(e) /\ OneUploads(e)
    <3>1. Uploading(e) = {} /\ attached[e] = 0
      BY IdleIsARequest DEF CatalogueInit, Uploading, At
    <3>2. Limit \in Nat /\ Limit > 0 /\ Cardinality(Requests) \in Nat
      BY <2>1, Numbers
    <3>3. Cardinality(Uploading(e)) = 0
      BY <3>1, FS_EmptySet
    <3>4. Below(e)
      BY <3>1, <3>2, <3>3 DEF Below
    <3>5. OneUploads(e)
      BY <3>1, <3>2 DEF OneUploads
    <3> QED
      BY <3>4, <3>5
  <2> QED
    BY <2>1, <2>2 DEF AttachInv
<1>2. AttachInv /\ [CatalogueNext]_vars => AttachInv'
  BY AttachNext
<1>3. AttachInv => AttachmentsBounded
  <2> SUFFICES ASSUME AttachInv, NEW e \in Entries
               PROVE /\ attached[e] < Limit + Cardinality(Requests)
                     /\ <<"files", e>> \notin overlaps => attached[e] <= Limit
    BY DEF AttachmentsBounded
  <2>1. attached[e] + Cardinality(Uploading(e)) < Limit + Cardinality(Requests)
    BY DEF AttachInv, Below
  <2>2. /\ attached[e] \in Nat /\ Limit \in Nat /\ Cardinality(Requests) \in Nat
        /\ Cardinality(Uploading(e)) \in Nat
    BY Numbers DEF AttachInv
  <2>3. attached[e] < Limit + Cardinality(Requests)
    BY <2>1, <2>2
  <2> QED
    BY <2>3 DEF AttachInv, OneUploads
<1> QED
  BY <1>1, <1>2, <1>3, PTL DEF CatalogueSpec

-----------------------------------------------------------------------------
(* The lesser and the greater of two. *)
LEMMA MinMax ==
    ASSUME NEW a \in Int, NEW b \in Int
    PROVE  /\ Min({a, b}) = IF a <= b THEN a ELSE b
           /\ Max({a, b}) = IF a <= b THEN b ELSE a
<1>1. \E x \in {a, b} : \A y \in {a, b} : x <= y
  OBVIOUS
<1>2. \E x \in {a, b} : \A y \in {a, b} : x >= y
  OBVIOUS
<1>3. Min({a, b}) \in {a, b} /\ \A y \in {a, b} : Min({a, b}) <= y
  BY <1>1 DEF Min
<1>4. Max({a, b}) \in {a, b} /\ \A y \in {a, b} : Max({a, b}) >= y
  BY <1>2 DEF Max
<1> QED
  BY <1>3, <1>4

(* How many rows come before one. *)
Rank(rows, R, e) == Cardinality({d \in rows : <<d, e>> \in R})

(* One of two rows comes first. *)
Linear(rows, R) ==
    /\ \A d, e \in rows : d # e => <<d, e>> \in R \/ <<e, d>> \in R
    /\ \A d, e \in rows : <<d, e>> \in R => d # e /\ <<e, d>> \notin R

(* An order of rows has every row. *)
LEMMA OrdersAreOnto ==
    ASSUME NEW rows, IsFiniteSet(rows), NEW s \in SetToSeqs(rows)
    PROVE  /\ Cardinality(rows) \in Nat /\ Len(s) = Cardinality(rows)
           /\ s \in [1 .. Cardinality(rows) -> rows]
           /\ \A a, b \in 1 .. Cardinality(rows) : a # b => s[a] # s[b]
           /\ \A e \in rows : \E a \in 1 .. Cardinality(rows) : s[a] = e
<1> DEFINE n == Cardinality(rows)
<1>1. n \in Nat
  BY FS_CardinalityType
<1>2. /\ s \in [1 .. n -> rows] /\ Len(s) = n
      /\ \A a, b \in 1 .. n : a # b => s[a] # s[b]
  BY <1>1 DEF SetToSeqs
<1>3. s \in Injection(1 .. n, rows)
  BY <1>2 DEF Injection, IsInjective
<1>4. IsFiniteSet(1 .. n) /\ Cardinality(1 .. n) = n
  BY <1>1, FS_Interval
<1>5. s \in Surjection(1 .. n, rows)
  BY <1>3, <1>4, FS_Injection
<1> QED
  BY <1>1, <1>2, <1>5 DEF Surjection

(* Where an order puts a row, when no two are tied. *)
LEMMA PlaceIsRank ==
    ASSUME NEW rows, IsFiniteSet(rows), NEW R, Linear(rows, R),
           NEW s \in SetToSeqs(rows),
           \A i, j \in 1 .. Len(s) : <<s[i], s[j]>> \in R => i < j,
           NEW i \in 1 .. Len(s)
    PROVE  /\ s[i] \in rows /\ Rank(rows, R, s[i]) = i - 1
           /\ Len(s) = Cardinality(rows)
<1> DEFINE n == Cardinality(rows)
<1>1. n \in Nat
  BY OrdersAreOnto
<1>2. /\ s \in [1 .. n -> rows] /\ Len(s) = n
      /\ \A a, b \in 1 .. n : a # b => s[a] # s[b]
  BY OrdersAreOnto
<1>3. \A e \in rows : \E a \in 1 .. n : s[a] = e
  BY OrdersAreOnto
<1>4. \A d \in rows : <<d, s[i]>> \in R <=> \E a \in 1 .. i - 1 : s[a] = d
  <2> SUFFICES ASSUME NEW d \in rows
               PROVE  <<d, s[i]>> \in R <=> \E a \in 1 .. i - 1 : s[a] = d
    OBVIOUS
  <2>1. PICK a \in 1 .. n : s[a] = d
    BY <1>3
  <2>2. <<d, s[i]>> \in R => a < i
    BY <1>2, <2>1
  <2>3. ASSUME NEW b \in 1 .. i - 1, s[b] = d PROVE <<d, s[i]>> \in R
    <3>1. d # s[i] /\ s[i] \in rows
      BY <1>1, <1>2, <2>3
    <3>2. <<s[i], d>> \notin R
      BY <1>1, <1>2, <2>3
    <3> QED
      BY <3>1, <3>2 DEF Linear
  <2> QED
    BY <1>1, <2>1, <2>2, <2>3
<1>5. Cardinality({d \in rows : <<d, s[i]>> \in R}) = i - 1
  <2> DEFINE f == [a \in 1 .. i - 1 |-> s[a]]
             T == {d \in rows : <<d, s[i]>> \in R}
  <2>1. f \in Bijection(1 .. i - 1, T)
    <3>1. f \in [1 .. i - 1 -> T]
      BY <1>1, <1>2, <1>4
    <3>2. \A a, b \in 1 .. i - 1 : f[a] = f[b] => a = b
      BY <1>1, <1>2
    <3>3. \A d \in T : \E a \in 1 .. i - 1 : f[a] = d
      BY <1>4
    <3> QED
      BY <3>1, <3>2, <3>3 DEF Bijection, Injection, Surjection, IsInjective
  <2>2. ExistsBijection(1 .. i - 1, T)
    BY <2>1 DEF ExistsBijection
  <2>3. i - 1 \in Nat
    BY <1>1, <1>2
  <2> HIDE DEF T
  <2>4. Cardinality(T) = i - 1
    BY <2>2, <2>3, FS_CountingElements
  <2> QED
    BY <2>4 DEF T
<1> QED
  BY <1>1, <1>2, <1>5 DEF Rank

(* What a page has of an order. *)
LEMMA PageRows ==
    ASSUME NEW rows, NEW s \in Seq(rows),
           NEW limit \in Nat, NEW offset \in Nat
    PROVE  \A x : x \in Range(Page(s, limit, offset)) <=>
               \E i \in 1 .. Len(s) : offset < i /\ i <= offset + limit /\ x = s[i]
<1> DEFINE n == Len(s)
           last == Min({offset + limit, Len(s)})
           page == SubSeq(s, offset + 1, last)
<1>1. n \in Nat /\ s \in [1 .. n -> rows]
  OBVIOUS
<1>2. last \in Int /\ last <= n /\ last <= offset + limit
      /\ \A j \in 1 .. n : j <= offset + limit => j <= last
  BY <1>1, MinMax
<1> HIDE DEF last
<1>3. /\ page \in Seq(rows)
      /\ Len(page) = IF offset + 1 <= last THEN last - offset ELSE 0
      /\ \A i \in 1 .. last - offset : page[i] = s[offset + i]
  <2>1. offset + 1 \in Int /\ \A i \in offset + 1 .. last : s[i] \in rows
    BY <1>2
  <2>2. /\ page \in Seq(rows)
        /\ Len(page) = IF offset + 1 <= last THEN last - (offset + 1) + 1 ELSE 0
        /\ \A i \in 1 .. last - (offset + 1) + 1 : page[i] = s[i + (offset + 1) - 1]
    BY <1>2, <2>1, SubSeqProperties
  <2>3. \A i \in 1 .. last - offset : page[i] = s[offset + i]
    BY <1>2, <2>2
  <2> QED
    BY <1>2, <2>2, <2>3
<1> HIDE DEF page
<1>4. DOMAIN page = 1 .. Len(page) /\ Len(page) \in Nat
  BY <1>3
<1>5. ASSUME NEW i \in DOMAIN page
      PROVE  \E j \in 1 .. n : offset < j /\ j <= offset + limit /\ page[i] = s[j]
  <2>1. i \in 1 .. last - offset
    BY <1>2, <1>3, <1>4, <1>5
  <2>2. offset + i \in 1 .. n /\ offset + i <= offset + limit /\ offset < offset + i
    BY <1>2, <2>1
  <2> QED
    BY <1>3, <2>1, <2>2
<1>6. ASSUME NEW j \in 1 .. n, offset < j, j <= offset + limit
      PROVE  \E i \in DOMAIN page : page[i] = s[j]
  <2>1. j <= last
    BY <1>2, <1>6
  <2>2. j - offset \in 1 .. last - offset /\ offset + (j - offset) = j
    BY <1>2, <1>6, <2>1
  <2>3. j - offset \in DOMAIN page
    BY <1>2, <1>3, <1>4, <2>2
  <2> QED
    BY <1>3, <2>2, <2>3
<1>7. \A x : x \in Range(page) <=>
          \E i \in 1 .. n : offset < i /\ i <= offset + limit /\ x = s[i]
  BY <1>5, <1>6 DEF Range
<1>8. page = Page(s, limit, offset)
  BY DEF Page, page, last
<1> QED
  BY <1>7, <1>8

(* The rows of a listing, as far as ORDER BY looks at them. *)
Sortable(entries) ==
    /\ IsFiniteSet(entries)
    /\ \A e \in entries : e.favorite \in BOOLEAN /\ e.position \in Int /\ e.name \in Int

(* No two of them are equal in all that they are ordered by. *)
Untied(entries) ==
    \A d, e \in entries : d # e => Before(d, e) \/ Before(e, d)

(* ORDER BY as a relation. *)
Precedence(entries) == {p \in entries \X entries : Before(p[1], p[2])}

(* ORDER BY puts no two rows before each other. *)
LEMMA BeforeIsStrict ==
    ASSUME NEW d, NEW e, d.favorite \in BOOLEAN, d.position \in Int, d.name \in Int,
           e.favorite \in BOOLEAN, e.position \in Int, e.name \in Int, Before(d, e)
    PROVE  d # e /\ ~Before(e, d)
<1>1. CASE d.favorite # e.favorite
  BY <1>1 DEF Before
<1>2. CASE d.favorite = e.favorite /\ d.position # e.position
  <2>1. d.position < e.position
    BY <1>2 DEF Before
  <2>2. ~(e.position < d.position)
    BY <2>1
  <2> QED
    BY <1>2, <2>1, <2>2 DEF Before
<1>3. CASE d.favorite = e.favorite /\ d.position = e.position
  <2>1. d.name < e.name
    BY <1>3 DEF Before
  <2>2. ~(e.name < d.name)
    BY <2>1
  <2> QED
    BY <1>3, <2>1, <2>2 DEF Before
<1> QED
  BY <1>1, <1>2, <1>3

(* Without ties, it puts one of two rows before the other. *)
LEMMA UntiedIsLinear ==
    ASSUME NEW entries, Sortable(entries), Untied(entries)
    PROVE  Linear(entries, Precedence(entries))
<1>1. \A d, e \in entries : <<d, e>> \in Precedence(entries) <=> Before(d, e)
  BY DEF Precedence
<1>2. \A d, e \in entries : Before(d, e) => d # e /\ ~Before(e, d)
  BY BeforeIsStrict DEF Sortable
<1> QED
  BY <1>1, <1>2 DEF Linear, Untied

(* How many entries are listed before one. *)
Place(entries, e) == Cardinality({d \in entries : Before(d, e)})

(* Where ListEntries shows an entry, if none of those it has found tie: on *)
(* the page its place falls on, the number of those before it.  The total  *)
(* counts them all, and there is more when a later place is taken.         *)
THEOREM ListingsShowPlaces ==
    ASSUME NEW entries, NEW req, NEW answer \in ListEntries(entries, req),
           Sortable(Matching(entries, req)), Untied(Matching(entries, req)),
           req.limit \in Int, req.offset \in Nat
    PROVE  LET found == Matching(entries, req)
               limit == LimitOr(req.limit, 50)
           IN /\ Range(answer.entries) =
                   {e \in found : Place(found, e) \in req.offset .. req.offset + limit - 1}
              /\ answer.total = Cardinality(found)
              /\ answer.more <=> \E e \in found : Place(found, e) >= req.offset + limit
<1> DEFINE found == Matching(entries, req)
           limit == LimitOr(req.limit, 50)
           n == Cardinality(found)
           R == Precedence(found)
<1>1. limit \in Nat \ {0}
  BY DEF LimitOr
<1>2. IsFiniteSet(found) /\ n \in Nat
  BY FS_CardinalityType DEF Sortable
<1>3. PICK s \in Orders(found, Before) :
          answer = [entries |-> Page(s, limit, req.offset), total |-> n,
                    more |-> req.offset + limit < n]
  BY DEF ListEntries
<1>4. /\ s \in SetToSeqs(found) /\ s \in [1 .. n -> found] /\ Len(s) = n
      /\ \A i, j \in 1 .. n : Before(s[i], s[j]) => i < j
  BY <1>2, <1>3 DEF Orders, SetToSeqs
<1>5. Linear(found, R)
  BY UntiedIsLinear
<1>6. \A d, e \in found : <<d, e>> \in R <=> Before(d, e)
  BY DEF Precedence
<1>7. \A i \in 1 .. n : s[i] \in found /\ Place(found, s[i]) = i - 1
  <2> SUFFICES ASSUME NEW i \in 1 .. n
               PROVE  s[i] \in found /\ Place(found, s[i]) = i - 1
    OBVIOUS
  <2>1. \A a, b \in 1 .. Len(s) : <<s[a], s[b]>> \in R => a < b
    BY <1>4, <1>6
  <2>2. s[i] \in found /\ Rank(found, R, s[i]) = i - 1
    <3> HIDE DEF found, R
    <3> QED
      BY <1>2, <1>4, <1>5, <2>1, PlaceIsRank
  <2>3. {d \in found : <<d, s[i]>> \in R} = {d \in found : Before(d, s[i])}
    BY <1>6, <2>2
  <2> QED
    BY <2>2, <2>3 DEF Rank, Place
<1>8. \A e \in found : \E i \in 1 .. n : s[i] = e
  <2> HIDE DEF found
  <2> QED
    BY <1>2, <1>4, OrdersAreOnto
<1> HIDE DEF found, limit, n
<1>9. \A x : x \in Range(answer.entries) <=>
         \E i \in 1 .. n : req.offset < i /\ i <= req.offset + limit /\ x = s[i]
  <2>1. answer.entries = Page(s, limit, req.offset)
    BY <1>3
  <2>2. \A x : x \in Range(Page(s, limit, req.offset)) <=>
           \E i \in 1 .. n : req.offset < i /\ i <= req.offset + limit /\ x = s[i]
    <3>1. s \in Seq(found) /\ limit \in Nat /\ Len(s) = n
      BY <1>1, <1>2, <1>4
    <3>2. \A x : x \in Range(Page(s, limit, req.offset)) <=>
             \E i \in 1 .. Len(s) : req.offset < i /\ i <= req.offset + limit /\ x = s[i]
      BY <3>1, PageRows
    <3> QED
      BY <3>1, <3>2
  <2> QED
    BY <2>1, <2>2
<1>10. ASSUME NEW e \in found
       PROVE  e \in Range(answer.entries)
                 <=> Place(found, e) \in req.offset .. req.offset + limit - 1
  <2>1. PICK i \in 1 .. n : s[i] = e
    BY <1>8
  <2>2. Place(found, e) = i - 1
    BY <1>7, <2>1
  <2>3. ASSUME NEW j \in 1 .. n, s[j] = e PROVE j = i
    BY <1>2, <1>7, <2>1, <2>3
  <2> QED
    BY <1>1, <1>2, <1>9, <2>1, <2>2, <2>3
<1>11. Range(answer.entries) \subseteq found
  BY <1>7, <1>9
<1>12. answer.more <=> \E e \in found : Place(found, e) >= req.offset + limit
  <2>1. answer.more <=> req.offset + limit < n
    BY <1>3
  <2>2. ASSUME req.offset + limit < n
        PROVE  \E e \in found : Place(found, e) >= req.offset + limit
    BY <1>1, <1>2, <1>7, <2>2
  <2>3. ASSUME NEW e \in found, Place(found, e) >= req.offset + limit
        PROVE  req.offset + limit < n
    <3>1. PICK i \in 1 .. n : s[i] = e
      BY <1>8
    <3> QED
      BY <1>1, <1>2, <1>7, <2>3, <3>1
  <2> QED
    BY <2>1, <2>2, <2>3
<1> QED
  BY <1>3, <1>10, <1>11, <1>12 DEF found, limit, n

(* A place falls on one page, and on no other. *)
LEMMA InPage ==
    ASSUME NEW p \in Nat, NEW size \in Nat \ {0}
    PROVE  \E k \in Nat : p \in size * k .. size * k + size - 1
<1>1. /\ p \div size \in Int /\ p % size \in 0 .. size - 1
      /\ p = size * (p \div size) + (p % size)
  OBVIOUS
<1>2. p \div size \in Nat
  OBVIOUS
<1> QED
  BY <1>1, <1>2

LEMMA PagesApart ==
    ASSUME NEW size \in Nat \ {0}, NEW j \in Nat, NEW k \in Nat, NEW p \in Nat,
           p \in size * j .. size * j + size - 1,
           p \in size * k .. size * k + size - 1
    PROVE  j = k
<1>1. ASSUME NEW a \in Nat, NEW b \in Nat, a < b PROVE size * a + size <= size * b
  <2>1. PICK d \in Nat : b = a + 1 + d
    BY <1>1, b - a - 1 \in Nat
  <2>2. size * b = size * a + size + size * d
    BY <2>1
  <2>3. size * d \in Nat
    OBVIOUS
  <2> QED
    BY <2>2, <2>3
<1>2. CASE j < k
  BY <1>1, <1>2
<1>3. CASE k < j
  BY <1>1, <1>3
<1> QED
  BY <1>2, <1>3

(* The k-th page of a listing, numbered from 0.                            *)
PageRequest(req, k) == [req EXCEPT !.offset = LimitOr(req.limit, 50) * k]

(* The pages of a listing whose rows do not tie, asked for one by one, each *)
(* answered in an order of its own: every entry is on one of them, none is *)
(* on two.  TiedPagesMayMiss shows a tie that hides an entry.              *)
THEOREM PagesPartitionListings ==
    ASSUME NEW entries, NEW folders, NEW types, NEW queries, NEW tags,
           NEW req \in SearchRequest(folders, types, queries, tags, Int, Nat),
           Sortable(Matching(entries, req)), Untied(Matching(entries, req)),
           NEW answers,
           \A k \in Nat : answers[k] \in ListEntries(entries, PageRequest(req, k))
    PROVE  /\ \A e \in Matching(entries, req) : \E k \in Nat : e \in Range(answers[k].entries)
           /\ \A k \in Nat : Range(answers[k].entries) \subseteq Matching(entries, req)
           /\ \A j, k \in Nat :
                j # k => Range(answers[j].entries) \cap Range(answers[k].entries) = {}
<1> DEFINE found == Matching(entries, req)
           size == LimitOr(req.limit, 50)
<1>1. req.limit \in Int /\ size \in Nat \ {0}
  BY DEF SearchRequest, LimitOr
<1>2. ASSUME NEW k \in Nat
      PROVE  /\ Matching(entries, PageRequest(req, k)) = found
             /\ PageRequest(req, k).limit = req.limit
             /\ PageRequest(req, k).offset = size * k
  BY DEF SearchRequest, PageRequest, Matching
<1>3. \A e \in found : Place(found, e) \in Nat
  <2> SUFFICES ASSUME NEW e \in found PROVE Place(found, e) \in Nat
    OBVIOUS
  <2>1. IsFiniteSet({d \in found : Before(d, e)})
    <3> HIDE DEF found
    <3> QED
      BY FS_Subset, IsFiniteSet(found) DEF Sortable, found
  <2> QED
    BY <2>1, FS_CardinalityType DEF Place
<1>4. ASSUME NEW k \in Nat
      PROVE  Range(answers[k].entries) =
                {e \in found : Place(found, e) \in size * k .. size * k + size - 1}
  <2> DEFINE ask == PageRequest(req, k)
             answer == answers[k]
  <2>1. /\ Matching(entries, ask) = found /\ ask.limit = req.limit
        /\ ask.offset = size * k /\ LimitOr(ask.limit, 50) = size
    BY <1>2
  <2>2. size * k \in Nat
    BY <1>1
  <2>3. /\ answer \in ListEntries(entries, ask)
        /\ ask.limit \in Int /\ ask.offset \in Nat
        /\ Sortable(Matching(entries, ask)) /\ Untied(Matching(entries, ask))
    BY <1>1, <2>1, <2>2
  <2> HIDE DEF ask, answer
  <2>4. Range(answer.entries) =
          {e \in Matching(entries, ask) :
              Place(Matching(entries, ask), e) \in
                  ask.offset .. ask.offset + LimitOr(ask.limit, 50) - 1}
    BY <2>3, ListingsShowPlaces
  <2> QED
    BY <2>1, <2>4 DEF answer
<1> HIDE DEF found, size
<1>5. ASSUME NEW e \in found PROVE \E k \in Nat : e \in Range(answers[k].entries)
  <2>1. PICK p \in Nat : p = Place(found, e)
    BY <1>3
  <2>2. PICK k \in Nat : p \in size * k .. size * k + size - 1
    BY <1>1, InPage
  <2> QED
    BY <1>4, <2>1, <2>2
<1>6. ASSUME NEW j \in Nat, NEW k \in Nat, NEW e,
             e \in Range(answers[j].entries), e \in Range(answers[k].entries)
      PROVE  j = k
  <2>1. /\ e \in found
        /\ Place(found, e) \in size * j .. size * j + size - 1
        /\ Place(found, e) \in size * k .. size * k + size - 1
    BY <1>4, <1>6
  <2>2. PICK p \in Nat : p = Place(found, e)
    BY <1>3, <2>1
  <2> QED
    BY <1>1, <2>1, <2>2, PagesApart
<1>7. \A j, k \in Nat :
         j # k => Range(answers[j].entries) \cap Range(answers[k].entries) = {}
  BY <1>6
<1>8. \A k \in Nat : Range(answers[k].entries) \subseteq found
  BY <1>4
<1> QED
  BY <1>5, <1>7, <1>8 DEF found

(* The first of an order.                                                  *)
LEMMA FirstOfOrder ==
    ASSUME NEW rows, IsFiniteSet(rows), NEW s \in SetToSeqs(rows), NEW limit \in Nat
    PROVE  /\ Range(Page(s, limit, 0)) \subseteq rows
           /\ \A e \in Range(Page(s, limit, 0)), d \in rows \ Range(Page(s, limit, 0)) :
                \E i, j \in 1 .. Len(s) : i < j /\ e = s[i] /\ d = s[j]
           /\ Len(Page(s, limit, 0)) = IF limit <= Cardinality(rows) THEN limit ELSE Cardinality(rows)
           /\ IsInjective(Page(s, limit, 0))
<1> DEFINE n == Cardinality(rows)
           page == Page(s, limit, 0)
<1>1. /\ n \in Nat /\ Len(s) = n /\ s \in [1 .. n -> rows] /\ s \in Seq(rows)
      /\ \A a, b \in 1 .. n : a # b => s[a] # s[b]
      /\ \A e \in rows : \E a \in 1 .. n : s[a] = e
  BY OrdersAreOnto
<1> HIDE DEF n
<1>2. \A x : x \in Range(page) <=> \E i \in 1 .. Len(s) : 0 < i /\ i <= 0 + limit /\ x = s[i]
  <2> HIDE DEF page
  <2> QED
    BY <1>1, PageRows, 0 \in Nat DEF page
<1>3. /\ page \in Seq(rows) /\ Len(page) = IF limit <= n THEN limit ELSE n
      /\ \A i \in 1 .. Len(page) : page[i] = s[i]
  <2> DEFINE last == Min({0 + limit, Len(s)})
  <2>1. last = IF limit <= n THEN limit ELSE n
    BY <1>1, MinMax
  <2> HIDE DEF last
  <2>2. last \in Int /\ 0 <= last /\ last <= n /\ \A i \in 1 .. last : s[i] \in rows
    BY <1>1, <2>1
  <2>3. page = SubSeq(s, 1, last)
    BY DEF Page, last
  <2>4. /\ SubSeq(s, 1, last) \in Seq(rows)
        /\ Len(SubSeq(s, 1, last)) = IF 1 <= last THEN last - 1 + 1 ELSE 0
        /\ \A i \in 1 .. last - 1 + 1 : SubSeq(s, 1, last)[i] = s[i + 1 - 1]
    BY <1>1, <2>2, SubSeqProperties
  <2> QED
    BY <1>1, <2>1, <2>2, <2>3, <2>4
<1> HIDE DEF page
<1>4. ASSUME NEW e \in Range(page), NEW d \in rows \ Range(page)
      PROVE  \E i, j \in 1 .. Len(s) : i < j /\ e = s[i] /\ d = s[j]
  <2>1. PICK i \in 1 .. n : 0 < i /\ i <= limit /\ e = s[i]
    BY <1>1, <1>2
  <2>2. PICK j \in 1 .. n : s[j] = d
    BY <1>1
  <2>3. ~(j <= limit)
    BY <1>1, <1>2, <2>2
  <2> QED
    BY <1>1, <2>1, <2>2, <2>3
<1>5. Range(page) \subseteq rows
  BY <1>1, <1>2
<1>6. IsInjective(page)
  BY <1>1, <1>3 DEF IsInjective
<1> QED
  BY <1>3, <1>4, <1>5, <1>6 DEF page, n

(* The rows with the largest keys, whatever the order of equal ones.       *)
LEMMA TopOfOrder ==
    ASSUME NEW rows, IsFiniteSet(rows), NEW key \in [rows -> Nat], NEW k \in Nat,
           NEW t \in SetToSeqs(rows),
           \A i, j \in 1 .. Len(t) : key[t[i]] > key[t[j]] => i < j,
           NEW s, s = Page(t, k, 0)
    PROVE  /\ Range(s) \subseteq rows
           /\ \A e \in Range(s), d \in rows \ Range(s) : key[d] <= key[e]
           /\ Len(s) = IF k <= Cardinality(rows) THEN k ELSE Cardinality(rows)
           /\ IsInjective(s)
<1>1. /\ Range(s) \subseteq rows
      /\ \A e \in Range(s), d \in rows \ Range(s) :
           \E i, j \in 1 .. Len(t) : i < j /\ e = t[i] /\ d = t[j]
      /\ Len(s) = IF k <= Cardinality(rows) THEN k ELSE Cardinality(rows)
      /\ IsInjective(s)
  BY FirstOfOrder
<1>2. ASSUME NEW e \in Range(s), NEW d \in rows \ Range(s) PROVE key[d] <= key[e]
  <2>1. PICK i \in 1 .. Len(t), j \in 1 .. Len(t) : i < j /\ e = t[i] /\ d = t[j]
    BY <1>1
  <2>2. ~(key[t[j]] > key[t[i]])
    BY <2>1
  <2>3. key[e] \in Nat /\ key[d] \in Nat
    BY <1>1
  <2> QED
    BY <2>1, <2>2, <2>3
<1> QED
  BY <1>1, <1>2

(* GetRecentEntries returns, in a table of any size and however equal times *)
(* are ordered, as many used entries as it is asked for, as far as there   *)
(* are so many, each once, and nothing it leaves out was used later.       *)
THEOREM RecentAreTheLatest ==
    ASSUME NEW entries, IsFiniteSet(entries), \A e \in entries : e.used \in Nat,
           NEW limit \in Int, NEW s \in RecentEntries(entries, limit)
    PROVE  LET known == {e \in entries : e.used > 0}
               k == LimitOr(limit, 10)
           IN /\ Range(s) \subseteq known
              /\ \A e \in Range(s), d \in known \ Range(s) : d.used <= e.used
              /\ Len(s) = IF k <= Cardinality(known) THEN k ELSE Cardinality(known)
              /\ IsInjective(s)
<1> DEFINE known == {e \in entries : e.used > 0}
           k == LimitOr(limit, 10)
           key == [e \in known |-> e.used]
<1>1. PICK t \in SetToSeqs(known) :
         /\ s = Page(t, k, 0)
         /\ \A i, j \in 1 .. Len(t) : t[i].used > t[j].used => i < j
  BY DEF RecentEntries, Orders
<1>2. IsFiniteSet(known) /\ k \in Nat
  BY FS_Subset DEF LimitOr
<1>3. key \in [known -> Nat] /\ \A e \in known : key[e] = e.used
  OBVIOUS
<1> HIDE DEF known, k, key
<1>4. \A i \in 1 .. Len(t) : t[i] \in known
  BY <1>1, <1>2, OrdersAreOnto
<1>5. \A i, j \in 1 .. Len(t) : key[t[i]] > key[t[j]] => i < j
  BY <1>1, <1>3, <1>4
<1>6. /\ Range(s) \subseteq known
      /\ \A e \in Range(s), d \in known \ Range(s) : key[d] <= key[e]
      /\ Len(s) = IF k <= Cardinality(known) THEN k ELSE Cardinality(known)
      /\ IsInjective(s)
  BY <1>1, <1>2, <1>3, <1>5, TopOfOrder
<1>7. \A e \in Range(s), d \in known \ Range(s) : d.used <= e.used
  BY <1>3, <1>6
<1> QED
  BY <1>6, <1>7 DEF known, k

(* GetFrequentEntries does the same by the number of uses.                 *)
THEOREM FrequentAreTheMostUsed ==
    ASSUME NEW entries, IsFiniteSet(entries), \A e \in entries : e.usage \in Nat,
           NEW limit \in Int, NEW s \in FrequentEntries(entries, limit)
    PROVE  LET known == {e \in entries : e.usage > 0}
               k == LimitOr(limit, 10)
           IN /\ Range(s) \subseteq known
              /\ \A e \in Range(s), d \in known \ Range(s) : d.usage <= e.usage
              /\ Len(s) = IF k <= Cardinality(known) THEN k ELSE Cardinality(known)
              /\ IsInjective(s)
<1> DEFINE known == {e \in entries : e.usage > 0}
           k == LimitOr(limit, 10)
           key == [e \in known |-> e.usage]
<1>1. PICK t \in SetToSeqs(known) :
         /\ s = Page(t, k, 0)
         /\ \A i, j \in 1 .. Len(t) : t[i].usage > t[j].usage => i < j
  BY DEF FrequentEntries, Orders
<1>2. IsFiniteSet(known) /\ k \in Nat
  BY FS_Subset DEF LimitOr
<1>3. key \in [known -> Nat] /\ \A e \in known : key[e] = e.usage
  OBVIOUS
<1> HIDE DEF known, k, key
<1>4. \A i \in 1 .. Len(t) : t[i] \in known
  BY <1>1, <1>2, OrdersAreOnto
<1>5. \A i, j \in 1 .. Len(t) : key[t[i]] > key[t[j]] => i < j
  BY <1>1, <1>3, <1>4
<1>6. /\ Range(s) \subseteq known
      /\ \A e \in Range(s), d \in known \ Range(s) : key[d] <= key[e]
      /\ Len(s) = IF k <= Cardinality(known) THEN k ELSE Cardinality(known)
      /\ IsInjective(s)
  BY <1>1, <1>2, <1>3, <1>5, TopOfOrder
<1>7. \A e \in Range(s), d \in known \ Range(s) : d.usage <= e.usage
  BY <1>3, <1>6
<1> QED
  BY <1>6, <1>7 DEF known, k

-----------------------------------------------------------------------------
(* The generator knows four classes. *)
LEMMA AllClasses == Range(Classes) = {"upper", "lower", "number", "symbol"}
<1>1. /\ DOMAIN Classes = 1 .. 4
      /\ Classes[1] = "upper" /\ Classes[2] = "lower"
      /\ Classes[3] = "number" /\ Classes[4] = "symbol"
  BY DEF Classes
<1> QED
  BY <1>1 DEF Range

(* Characters are drawn from an empty set, and rand.Int panics, exactly for *)
(* a request for symbols alone that excludes each of its own.  The handler *)
(* passes on no request without a class.                                   *)
THEOREM EmptyCharset ==
    ASSUME NEW asked \in GenerateRequest, NEW req, req = Defaulted(asked)
    PROVE  Charset(req) = {} <=>
              /\ req.classes = {"symbol"} /\ req.custom # {}
              /\ \A c \in req.custom : c[2] \in req.without
<1>1. Range(Classes) = {"upper", "lower", "number", "symbol"}
  BY AllClasses
<1>2. /\ req.classes \subseteq {"upper", "lower", "number", "symbol"} /\ req.classes # {}
      /\ req.without \subseteq {"similar", "ambiguous"}
  BY <1>1 DEF GenerateRequest, Defaulted
<1>3. \A c : c \in Charset(req) <=>
         c[2] \notin req.without /\ \E class \in req.classes : c \in ClassSet(req, class)
  BY <1>2 DEF Charset, Without
<1>4. /\ ClassSet(req, "upper") = Upper /\ ClassSet(req, "lower") = Lower
      /\ ClassSet(req, "number") = Number
      /\ ClassSet(req, "symbol") = IF req.custom # {} THEN req.custom ELSE Symbol
  BY DEF ClassSet
<1>5. /\ <<"upper", "plain">> \in Upper /\ <<"lower", "plain">> \in Lower
      /\ <<"number", "plain">> \in Number /\ <<"symbol", "plain">> \in Symbol
  BY DEF Upper, Lower, Number, Symbol
<1>6. \A x : <<x, "plain">>[2] \notin req.without
  BY <1>2
<1>7. CASE req.classes # {"symbol"}
  <2>1. "upper" \in req.classes \/ "lower" \in req.classes \/ "number" \in req.classes
    BY <1>2, <1>7
  <2> QED
    BY <1>3, <1>4, <1>5, <1>6, <1>7, <2>1
<1>8. CASE req.classes = {"symbol"} /\ req.custom = {}
  BY <1>3, <1>4, <1>5, <1>6, <1>8
<1>9. CASE req.classes = {"symbol"} /\ req.custom # {}
  BY <1>3, <1>4, <1>9
<1> QED
  BY <1>7, <1>8, <1>9

(* The entropy of a password: ordered sizes have ordered logarithms, and   *)
(* no penalty turns an order round.                                        *)
Pools == {0, 10, 26, 32, 36, 42, 52, 58, 62, 68, 84, 94}

LEMMA LogGrows ==
    ASSUME NEW m \in Pools, NEW n \in Pools, m <= n
    PROVE  Log2(m) \in Nat /\ Log2(m) <= Log2(n)
<1>1. /\ Log2(0) = 0      /\ Log2(10) = 3321 /\ Log2(26) = 4700 /\ Log2(32) = 5000
      /\ Log2(36) = 5169  /\ Log2(42) = 5392 /\ Log2(52) = 5700 /\ Log2(58) = 5857
      /\ Log2(62) = 5954  /\ Log2(68) = 6087 /\ Log2(84) = 6392 /\ Log2(94) = 6554
  BY DEF Log2
<1> QED
  BY <1>1 DEF Pools

LEMMA PoolGrows ==
    ASSUME NEW few, NEW many, few \subseteq many
    PROVE  PoolSize(few) \in Pools /\ PoolSize(few) <= PoolSize(many)
<1>1. \A c : PoolSize(c) \in Pools
  BY DEF PoolSize, Pools
<1>2. PoolSize(few) <= PoolSize(many)
  BY DEF PoolSize
<1> QED
  BY <1>1, <1>2

(* Products, parts and penalties grow with what they are taken of. *)
LEMMA ProductGrows ==
    ASSUME NEW a \in Nat, NEW b \in Nat, NEW c \in Nat, NEW d \in Nat, a <= b, c <= d
    PROVE  a * c \in Nat /\ a * c <= b * d
<1>1. PICK x \in Nat, y \in Nat : b = a + x /\ d = c + y
  BY b - a \in Nat, d - c \in Nat
<1>2. b * d = a * c + (a * y + x * c + x * y)
  BY <1>1
<1>3. a * c \in Nat /\ a * y \in Nat /\ x * c \in Nat /\ x * y \in Nat
  OBVIOUS
<1> QED
  BY <1>2, <1>3

(* What a pattern leaves of the entropy. *)
Part(pattern, patterns, e, tenths) ==
    IF pattern \in patterns THEN (e * tenths) \div 10 ELSE e

LEMMA PartGrows ==
    ASSUME NEW a \in Nat, NEW b \in Nat, a <= b, NEW tenths \in {5, 7, 8, 9},
           NEW pattern, NEW patterns, NEW more, patterns \subseteq more
    PROVE  /\ Part(pattern, more, a, tenths) \in Nat
           /\ Part(pattern, more, a, tenths) <= Part(pattern, patterns, b, tenths)
<1>1. \A x, y \in Nat : x <= y =>
         /\ (x * tenths) \div 10 \in Nat /\ (x * tenths) \div 10 <= x
         /\ (x * tenths) \div 10 <= (y * tenths) \div 10
  OBVIOUS
<1> QED
  BY <1>1 DEF Part

LEMMA PenalisedGrows ==
    ASSUME NEW a \in Nat, NEW b \in Nat, a <= b,
           NEW patterns, NEW more, patterns \subseteq more
    PROVE  /\ Penalised(a, more) \in Nat
           /\ Penalised(a, more) <= Penalised(b, patterns)
<1> DEFINE One(p, e) == Part("common", p, e, 5)
           Two(p, e) == Part("sequential", p, e, 8)
           Three(p, e) == Part("repeated", p, e, 9)
           Four(p, e) == Part("keyboard", p, e, 7)
<1>1. \A p, e : Penalised(e, p) = Four(p, Three(p, Two(p, One(p, e))))
  BY DEF Penalised, Part
<1>2. One(more, a) \in Nat /\ One(patterns, b) \in Nat /\ One(more, a) <= One(patterns, b)
  BY PartGrows
<1>3. \A x, y \in Nat : x <= y =>
         /\ Two(more, x) \in Nat /\ Two(patterns, y) \in Nat /\ Two(more, x) <= Two(patterns, y)
         /\ Three(more, x) \in Nat /\ Three(patterns, y) \in Nat
         /\ Three(more, x) <= Three(patterns, y)
         /\ Four(more, x) \in Nat /\ Four(patterns, y) \in Nat /\ Four(more, x) <= Four(patterns, y)
  BY PartGrows
<1> HIDE DEF One, Two, Three, Four
<1> QED
  BY <1>1, <1>2, <1>3

(* The thresholds of the score. *)
LEMMA CountedBits ==
    /\ IsFiniteSet({28, 35, 60}) /\ Cardinality({28, 35, 60}) = 3
    /\ IsFiniteSet({28, 35, 60, 80}) /\ Cardinality({28, 35, 60, 80}) = 4
<1>1. IsFiniteSet({28}) /\ Cardinality({28}) = 1
  BY FS_Singleton
<1>2. {28, 35} = {28} \cup {35} /\ {28, 35, 60} = {28, 35} \cup {60}
      /\ {28, 35, 60, 80} = {28, 35, 60} \cup {80}
  OBVIOUS
<1>3. IsFiniteSet({28, 35}) /\ Cardinality({28, 35}) = 2
  BY <1>1, <1>2, FS_AddElement
<1>4. IsFiniteSet({28, 35, 60}) /\ Cardinality({28, 35, 60}) = 3
  BY <1>2, <1>3, FS_AddElement
<1> QED
  BY <1>2, <1>4, FS_AddElement

LEMMA ScoreGrows ==
    ASSUME NEW a \in Nat, NEW b \in Nat, a <= b
    PROVE  Score(a) \in 0 .. 4 /\ Score(a) <= Score(b)
<1> DEFINE Reached(e) == {bits \in {28, 35, 60, 80} : e >= bits * 1000}
<1>1. IsFiniteSet({28, 35, 60, 80}) /\ Cardinality({28, 35, 60, 80}) = 4
  BY CountedBits
<1>2. Reached(a) \subseteq {28, 35, 60, 80} /\ Reached(b) \subseteq {28, 35, 60, 80}
      /\ Reached(a) \subseteq Reached(b)
  OBVIOUS
<1> HIDE DEF Reached
<1>3. IsFiniteSet(Reached(a)) /\ IsFiniteSet(Reached(b))
      /\ Cardinality(Reached(a)) <= 4
  BY <1>1, <1>2, FS_Subset
<1>4. Cardinality(Reached(a)) \in Nat /\ Cardinality(Reached(b)) \in Nat
      /\ Cardinality(Reached(a)) <= Cardinality(Reached(b))
  BY <1>2, <1>3, FS_Subset, FS_CardinalityType
<1> QED
  BY <1>3, <1>4 DEF Score, Reached

(* AnalyzePassword never lowers a score for one more character or class,   *)
(* nor raises it for one more pattern, whatever the length, and each score *)
(* is one of the five.                                                     *)
THEOREM StrengthScoreMonotone ==
    ASSUME NEW m \in Nat, NEW n \in Nat, m <= n,
           NEW few, NEW many, few \subseteq many,
           NEW patterns, NEW more, patterns \subseteq more
    PROVE  /\ Score(Entropy(m, few, more)) \in 0 .. 4
           /\ Score(Entropy(m, few, more)) <= Score(Entropy(n, many, patterns))
<1> DEFINE low == Log2(PoolSize(few))
           high == Log2(PoolSize(many))
<1>1. low \in Nat /\ high \in Nat /\ low <= high
  BY PoolGrows, LogGrows
<1> HIDE DEF low, high
<1>2. m * low \in Nat /\ n * high \in Nat /\ m * low <= n * high
  BY <1>1, ProductGrows
<1>3. /\ Penalised(m * low, more) \in Nat /\ Penalised(n * high, patterns) \in Nat
      /\ Penalised(m * low, more) <= Penalised(n * high, patterns)
  BY <1>2, PenalisedGrows
<1> QED
  BY <1>3, ScoreGrows DEF Entropy, low, high

(* Whose password shows neither of the two patterns that generateFeedback  *)
(* has no advice about, and who is advised nothing, has a strong one.      *)
THEOREM NoAdviceMeansStrong ==
    ASSUME NEW n \in Nat, NEW classes \in SUBSET Range(Classes),
           NEW patterns \in SUBSET (Patterns \ {"common", "keyboard"}),
           Feedback(n, classes, patterns) = {}
    PROVE  Score(Entropy(n, classes, patterns)) >= 3
<1>1. Range(Classes) = {"upper", "lower", "number", "symbol"}
  BY AllClasses
<1>2. n >= 12 /\ classes = {"upper", "lower", "number", "symbol"} /\ patterns = {}
  BY <1>1 DEF Feedback
<1>3. PoolSize(classes) = 94 /\ Log2(94) = 6554
  BY <1>2 DEF PoolSize, Log2
<1>4. Penalised(n * 6554, {}) = n * 6554
  BY DEF Penalised
<1>5. n * 6554 \in Nat /\ n * 6554 >= 60000
  BY <1>2
<1>6. Score(60000) = 3
  <2>1. {bits \in {28, 35, 60, 80} : 60000 >= bits * 1000} = {28, 35, 60}
    OBVIOUS
  <2> QED
    BY <2>1, CountedBits DEF Score
<1>7. Score(60000) <= Score(n * 6554)
  BY <1>5, ScoreGrows
<1>8. Entropy(n, classes, patterns) = n * 6554
  BY <1>2, <1>3, <1>4 DEF Entropy
<1>9. Score(n * 6554) \in 0 .. 4
  BY <1>5, ScoreGrows
<1> QED
  BY <1>6, <1>7, <1>8, <1>9

(* A share of the points is at most all of them. *)
LEMMA ShareOfPoints ==
    ASSUME NEW n \in Nat, NEW c \in Nat \ {0}, NEW points \in Nat
    PROVE  /\ (n * points) \div c \in Nat
           /\ n <= c => (n * points) \div c <= points
<1> DEFINE q == (n * points) \div c
           r == (n * points) % c
<1>1. n * points \in Nat
  OBVIOUS
<1>2. q \in Int /\ r \in 0 .. c - 1 /\ n * points = c * q + r
  BY <1>1
<1>3. q \in Nat
  BY <1>1
<1> HIDE DEF q, r
<1>4. ASSUME n <= c, q > points PROVE FALSE
  <2>1. n * points <= c * points
    BY <1>4, ProductGrows
  <2>2. c * (points + 1) <= c * q
    BY <1>3, <1>4, ProductGrows
  <2>3. c * (points + 1) = c * points + c
    OBVIOUS
  <2>4. c * q \in Nat /\ c * points \in Nat
    BY <1>3
  <2> QED
    BY <1>1, <1>2, <2>1, <2>2, <2>3, <2>4
<1> QED
  BY <1>3, <1>4 DEF q

(* A vault with finitely many entries and secrets. *)
Inspected(v) ==
    /\ IsFiniteSet(v.entries) /\ IsFiniteSet(v.secrets)
    /\ \A s \in v.secrets : s.entry \in v.entries

(* AnalyzeVaultSecurity counts finite sets. *)
LEMMA CountsAreNumbers ==
    ASSUME NEW v, Inspected(v)
    PROVE  \A kind \in {"total", "secrets", "weak", "expired", "expiring", "reused", "breached"} :
              Counts(v)[kind] \in Nat
<1>1. /\ {s.entry : s \in v.secrets} \subseteq v.entries
      /\ WeakSecrets(v) \subseteq v.secrets
      /\ ExpiredSecrets(v) \subseteq v.secrets
      /\ ExpiringSecrets(v) \subseteq v.secrets
      /\ {e \in v.entries : "reused" \in v.flags[e]} \subseteq v.entries
      /\ {e \in v.entries : "breached" \in v.flags[e]} \subseteq v.entries
  BY DEF Inspected, WeakSecrets, ExpiredSecrets, ExpiringSecrets
<1>2. \A S : S \subseteq v.entries \/ S \subseteq v.secrets
                => Cardinality(S) \in Nat
  BY FS_Subset, FS_CardinalityType DEF Inspected
<1>3. v.entries \subseteq v.entries
  OBVIOUS
<1> QED
  BY <1>1, <1>2, <1>3 DEF Counts

(* No kind of trouble costs more points than it has (service.go:137-165) in *)
(* a vault whose entries have at most one secret each, and whose flags are *)
(* on entries with one.  In others it can: DeductionsCanExceedTheirPoints. *)
THEOREM DeductionsKeepToTheirPoints ==
    ASSUME NEW v, Inspected(v),
           \A s, t \in v.secrets : s.entry = t.entry => s = t,
           \A e \in v.entries :
               v.flags[e] # {} => e \in {s.entry : s \in v.secrets},
           NEW kind \in {"weak", "expired", "expiring", "reused", "breached"},
           NEW points \in Nat
    PROVE  Deduction(Counts(v)[kind], Counts(v), points) \in 0 .. points
<1> DEFINE owners == {s.entry : s \in v.secrets}
           counts == Counts(v)
<1>1. counts.secrets = Cardinality(owners) /\ counts.secrets \in Nat /\ counts[kind] \in Nat
  <2>1. counts.secrets = Cardinality(owners)
    BY DEF Counts
  <2> QED
    BY <2>1, CountsAreNumbers
<1>2. IsFiniteSet(owners)
  BY FS_Subset DEF Inspected
<1>3. ASSUME NEW S \in SUBSET v.secrets PROVE Cardinality(S) <= Cardinality(owners)
  <2> DEFINE f == [s \in S |-> s.entry]
  <2>1. f \in Injection(S, owners)
    BY DEF Injection, IsInjective
  <2> HIDE DEF f, owners
  <2> QED
    BY <1>2, <2>1, FS_Injection
<1>4. ASSUME NEW S \in SUBSET owners PROVE Cardinality(S) <= Cardinality(owners)
  <2> HIDE DEF owners
  <2> QED
    BY <1>2, FS_Subset
<1>5. /\ WeakSecrets(v) \subseteq v.secrets
      /\ ExpiredSecrets(v) \subseteq v.secrets
      /\ ExpiringSecrets(v) \subseteq v.secrets
  BY DEF WeakSecrets, ExpiredSecrets, ExpiringSecrets
<1>6. /\ {e \in v.entries : "reused" \in v.flags[e]} \subseteq owners
      /\ {e \in v.entries : "breached" \in v.flags[e]} \subseteq owners
  OBVIOUS
<1>7. counts[kind] <= counts.secrets
  <2>1. /\ counts.weak = Cardinality(WeakSecrets(v))
        /\ counts.expired = Cardinality(ExpiredSecrets(v))
        /\ counts.expiring = Cardinality(ExpiringSecrets(v))
        /\ counts.reused = Cardinality({e \in v.entries : "reused" \in v.flags[e]})
        /\ counts.breached = Cardinality({e \in v.entries : "breached" \in v.flags[e]})
    BY DEF Counts
  <2> HIDE DEF counts, owners
  <2>2. /\ counts.weak <= Cardinality(owners) /\ counts.expired <= Cardinality(owners)
        /\ counts.expiring <= Cardinality(owners)
    BY <1>3, <1>5, <2>1
  <2>3. counts.reused <= Cardinality(owners) /\ counts.breached <= Cardinality(owners)
    BY <1>4, <1>6, <2>1
  <2> QED
    BY <1>1, <2>2, <2>3
<1> HIDE DEF counts, owners
<1>8. CASE counts.secrets = 0
  BY <1>8 DEF Deduction, counts
<1>9. CASE counts.secrets > 0
  <2>1. counts.secrets \in Nat \ {0}
    BY <1>1, <1>9
  <2>2. (counts[kind] * points) \div counts.secrets \in 0 .. points
    BY <1>1, <1>7, <2>1, ShareOfPoints
  <2> QED
    BY <1>9, <2>2 DEF Deduction, counts
<1> QED
  BY <1>1, <1>8, <1>9

(* Whatever a vault contains, calculateOverallScore is a percentage, 100   *)
(* for an empty vault, and whoever has less is recommended something.      *)
THEOREM OverallScoreIsPercentage ==
    ASSUME NEW v, Inspected(v)
    PROVE  /\ OverallScore(Counts(v)) \in 0 .. 100
           /\ v.entries = {} => OverallScore(Counts(v)) = 100
           /\ OverallScore(Counts(v)) < 100 => Recommendations(Counts(v)) # {"excellent"}
<1> DEFINE counts == Counts(v)
           kinds == {"weak", "expired", "expiring", "reused", "breached"}
<1>1. \A kind \in kinds : counts[kind] \in Nat
  BY CountsAreNumbers
<1>2. counts.total \in Nat /\ counts.secrets \in Nat
  BY CountsAreNumbers
<1>3. counts.total = Cardinality(v.entries)
  BY DEF Counts
<1> HIDE DEF counts
<1>4. ASSUME NEW kind \in kinds, NEW points \in Nat
      PROVE  /\ Deduction(counts[kind], counts, points) \in Nat
             /\ counts[kind] = 0 => Deduction(counts[kind], counts, points) = 0
  <2>1. CASE counts.secrets > 0
    <3>1. counts.secrets \in Nat \ {0} /\ counts[kind] \in Nat
      BY <1>1, <1>2, <2>1
    <3>2. (counts[kind] * points) \div counts.secrets \in Nat
      BY <3>1, ShareOfPoints
    <3>3. (0 * points) \div counts.secrets = 0
      BY <3>1
    <3> QED
      BY <2>1, <3>2, <3>3 DEF Deduction
  <2>2. CASE ~(counts.secrets > 0)
    BY <2>2 DEF Deduction
  <2> QED
    BY <2>1, <2>2
<1> DEFINE w == Deduction(counts.weak, counts, 30)
           r == Deduction(counts.reused, counts, 25)
           b == Deduction(counts.breached, counts, 30)
           x == Deduction(counts.expired, counts, 10)
           y == Deduction(counts.expiring, counts, 5)
<1>5. w \in Nat /\ r \in Nat /\ b \in Nat /\ x \in Nat /\ y \in Nat
  BY <1>4
<1>6. OverallScore(counts) = IF counts.total = 0 THEN 100 ELSE Max({0, 100 - w - r - b - x - y})
  BY DEF OverallScore
<1>7. (\A kind \in kinds : counts[kind] = 0) => w = 0 /\ r = 0 /\ b = 0 /\ x = 0 /\ y = 0
  BY <1>4
<1> HIDE DEF w, r, b, x, y
<1>8. Max({0, 100 - w - r - b - x - y}) =
         IF 0 <= 100 - w - r - b - x - y THEN 100 - w - r - b - x - y ELSE 0
  <2>1. PICK left \in Int : left = 100 - w - r - b - x - y
    BY <1>5
  <2>2. Max({0, left}) = IF 0 <= left THEN left ELSE 0
    BY MinMax
  <2> QED
    BY <2>1, <2>2
<1>9. OverallScore(counts) \in 0 .. 100
  BY <1>5, <1>6, <1>8
<1>10. v.entries = {} => OverallScore(counts) = 100
  BY <1>3, <1>6, FS_EmptySet
<1>11. ASSUME OverallScore(counts) < 100 PROVE Recommendations(counts) # {"excellent"}
  <2>1. PICK kind \in kinds : counts[kind] # 0
    BY <1>5, <1>6, <1>7, <1>8, <1>11
  <2>2. counts[kind] > 0
    BY <1>1, <2>1
  <2> QED
    BY <2>2 DEF Recommendations
<1> QED
  BY <1>9, <1>10, <1>11 DEF counts

(* More than one means two that differ. *)
LEMMA MoreThanOne ==
    ASSUME NEW S, IsFiniteSet(S)
    PROVE  Cardinality(S) > 1 <=> \E s, t \in S : s # t
<1>1. Cardinality(S) \in Nat
  BY FS_CardinalityType
<1>2. Cardinality(S) = 0 <=> S = {}
  BY FS_EmptySet
<1>3. Cardinality(S) = 1 <=> \E x : S = {x}
  BY FS_Singleton
<1> QED
  BY <1>1, <1>2, <1>3

(* DetectReusedPasswords puts two secrets into one group exactly when they *)
(* have the same password; no group has a single one, and no secret is in  *)
(* two.                                                                    *)
THEOREM ReusedIsReuse ==
    ASSUME NEW passwords, IsFiniteSet(DOMAIN passwords), NEW found \in SUBSET DOMAIN passwords
    PROVE  /\ \A g \in Reused(passwords, found) :
                 Cardinality(g) > 1 /\ g \subseteq found
           /\ \A s, t \in found :
                 s # t => ((\E g \in Reused(passwords, found) : {s, t} \subseteq g)
                             <=> passwords[s] = passwords[t])
           /\ \A g, h \in Reused(passwords, found) : g # h => g \cap h = {}
<1> DEFINE Group(p) == {s \in DOMAIN passwords \cap found : passwords[s] = p}
<1>1. \A g : g \in Reused(passwords, found) <=>
          \E q \in Range(passwords) : Cardinality(Group(q)) > 1 /\ g = Group(q)
  BY DEF Reused
<1>2. ASSUME NEW q
      PROVE  IsFiniteSet(Group(q)) /\ (Cardinality(Group(q)) > 1 <=> \E s, t \in Group(q) : s # t)
  <2>1. Group(q) \subseteq DOMAIN passwords
    OBVIOUS
  <2>2. IsFiniteSet(Group(q))
    <3> HIDE DEF Group
    <3> QED
      BY <2>1, FS_Subset
  <2> HIDE DEF Group
  <2> QED
    BY <2>2, MoreThanOne
<1>3. \A s \in found : passwords[s] \in Range(passwords)
  BY DEF Range
<1>4. \A g \in Reused(passwords, found) : Cardinality(g) > 1 /\ g \subseteq found
  BY <1>1
<1>5. ASSUME NEW s \in found, NEW t \in found, s # t
      PROVE  (\E g \in Reused(passwords, found) : {s, t} \subseteq g)
                <=> passwords[s] = passwords[t]
  <2>1. ASSUME passwords[s] = passwords[t]
        PROVE  \E g \in Reused(passwords, found) : {s, t} \subseteq g
    <3>1. s \in Group(passwords[s]) /\ t \in Group(passwords[s])
      BY <2>1
    <3>2. Cardinality(Group(passwords[s])) > 1
      <4> HIDE DEF Group
      <4> QED
        BY <1>2, <1>5, <3>1
    <3> HIDE DEF Group
    <3> QED
      BY <1>1, <1>3, <3>1, <3>2
  <2>2. ASSUME NEW g \in Reused(passwords, found), {s, t} \subseteq g
        PROVE  passwords[s] = passwords[t]
    <3>1. PICK q \in Range(passwords) : g = Group(q)
      <4> HIDE DEF Group
      <4> QED
        BY <1>1, <2>2
    <3> QED
      BY <2>2, <3>1
  <2> QED
    BY <2>1, <2>2
<1>6. \A g, h \in Reused(passwords, found) : g # h => g \cap h = {}
  <2> SUFFICES ASSUME NEW g \in Reused(passwords, found), NEW h \in Reused(passwords, found),
                      NEW s \in g \cap h
               PROVE  g = h
    OBVIOUS
  <2>1. PICK p \in Range(passwords), q \in Range(passwords) : g = Group(p) /\ h = Group(q)
    <3> HIDE DEF Group
    <3> QED
      BY <1>1
  <2> QED
    BY <2>1
<1> QED
  BY <1>4, <1>5, <1>6
=============================================================================
