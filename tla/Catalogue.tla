----------------------------- MODULE Catalogue -----------------------------
(***************************************************************************)
(* What one user files in the vault's tables: entries, their tags, secrets *)
(* and attachments (entries.go, tags.go, secrets.go and attachments.go of  *)
(* internal/vault).  Every service checks first and writes afterwards; an  *)
(* entry is created and updated in a transaction of its own, everything    *)
(* else one statement at a time, at READ COMMITTED, on any number of       *)
(* replicas.                                                               *)
(*                                                                         *)
(* Foreign keys act with the statement that concerns them: what belongs to *)
(* an entry, and an entry's tag, goes with it, and cannot be written once  *)
(* it is gone.  Names, colours and folders are left out (a name that is    *)
(* taken makes a request fail), as are usage stamps and who may see what:  *)
(* the tables of one user, whose entry or tag a service looks up first.    *)
(***************************************************************************)
EXTENDS Integers, FiniteSets

CONSTANTS
    Entries,    \* entry ids uuid.New can return
    Tags,       \* tag ids
    SystemTags, \* those of EnsureSystemTags
    Secrets,    \* secret ids
    Edits,      \* edits of secrets: an edit has a new value or a new position
    Inserts,    \* transactions that insert tags of an entry
    Requests,   \* requests in progress
    None,       \* no entry, no tag, no secret, no edit
    Limit       \* attachments an entry may have (10 in the code)

ASSUME CatalogueAssumption ==
    /\ None \notin Entries \cup Tags \cup Secrets \cup Edits
    /\ SystemTags \subseteq Tags
    /\ IsFiniteSet(Requests) /\ IsFiniteSet(Entries)
    /\ Limit \in Nat \ {0}

VARIABLES
    entry,     \* vault_entries: "none", "live" or "gone"
    tag,       \* vault_tags, likewise; uuid.New repeats no id
    usage,     \* usage_count of each tag
    tagged,    \* vault_entry_tags: the rows of each entry
    secret,    \* vault_secrets: the entry, value, rotation stamp and
               \* position of each secret
    attached,  \* vault_attachments: how many each entry has
    request,   \* the requests in progress
    wanted,    \* history: the tags each entry was last given
    wrote,     \* history: the edits last answered as done, by secret and column
    overlaps   \* history: what requests overlapped for: the tags and the
               \* files of an entry, a secret

vars == <<entry, tag, usage, tagged, secret, attached, request, wanted, wrote,
          overlaps>>

Columns == {"value", "position"}
Owner == Entries \cup {None}
EditOf == Edits \cup {None}

(* A row of vault_entry_tags: its tag, and by whom it was inserted.  A row *)
(* that is deleted and inserted again is another one.                      *)
TagRow == [tag : Tags, by : Inserts]
TagsOf(rows) == {row.tag : row \in rows}

(* UpdateEntry has checked: seen the entry; locked: updated its row;       *)
(* clearing: begun to delete its tags; cleared: deleted them.  renaming:   *)
(* UpdateTag has read the tag.  editing: UpdateSecret has read the secret. *)
(* uploading: CreateAttachment has counted.  usage and row are what it has *)
(* read, rows what the DELETE has seen and then what it has deleted.       *)
Request == [pc     : {"idle", "checked", "locked", "clearing", "cleared",
                      "renaming", "editing", "uploading"},
            entry  : Owner,
            sets   : SUBSET {"columns", "tags"},
            tags   : SUBSET Tags,
            rows   : SUBSET TagRow,
            tag    : Tags \cup {None},
            usage  : Nat,
            secret : Secrets \cup {None},
            columns: SUBSET Columns,
            edit   : EditOf,
            row    : [value : EditOf, rotated : EditOf, position : EditOf]]

NoRow == [value |-> None, rotated |-> None, position |-> None]
Idle == [pc |-> "idle", entry |-> None, sets |-> {}, tags |-> {}, rows |-> {},
         tag |-> None, usage |-> 0, secret |-> None, columns |-> {}, edit |-> None,
         row |-> NoRow]

CatalogueTypeOK ==
    /\ entry \in [Entries -> {"none", "live", "gone"}]
    /\ tag \in [Tags -> {"none", "live", "gone"}]
    /\ usage \in [Tags -> Nat]
    /\ tagged \in [Entries -> SUBSET TagRow]
    /\ secret \in [Secrets -> [state : {"none", "live", "gone"}, entry : Owner,
                               row : [value : EditOf, rotated : EditOf,
                                      position : EditOf]]]
    /\ attached \in [Entries -> Nat]
    /\ request \in [Requests -> Request]
    /\ wanted \in [Entries -> SUBSET Tags]
    /\ wrote \in [Secrets -> [Columns -> EditOf]]
    /\ overlaps \in SUBSET (({"tags", "files"} \X Entries)
                                \cup ({"secret"} \X Secrets))

NoSecret == [state |-> "none", entry |-> None, row |-> NoRow]

CatalogueInit ==
    /\ entry = [e \in Entries |-> "none"]
    /\ tag = [t \in Tags |-> "none"]
    /\ usage = [t \in Tags |-> 0]
    /\ tagged = [e \in Entries |-> {}]
    /\ secret = [s \in Secrets |-> NoSecret]
    /\ attached = [e \in Entries |-> 0]
    /\ request = [r \in Requests |-> Idle]
    /\ wanted = [e \in Entries |-> {}]
    /\ wrote = [s \in Secrets |-> [c \in Columns |-> None]]
    /\ overlaps = {}

Live(e) == entry[e] = "live"
LiveTags == {t \in Tags : tag[t] = "live"}
Kept(s) == secret[s].state = "live"
At(r, pc) == request[r].pc = pc
Start(r, record) == At(r, "idle") /\ request' = [request EXCEPT ![r] = record]
Done(r) == request' = [request EXCEPT ![r] = Idle]
GoTo(r, pc) == request' = [request EXCEPT ![r].pc = pc]

(* What another request does to the same thing at the same time. *)
Overlaps(what, others) ==
    overlaps' = IF others # {} THEN overlaps \cup {what} ELSE overlaps

-----------------------------------------------------------------------------
(* update_tag_usage_count, the trigger on vault_entry_tags: each row that  *)
(* is deleted and each that is inserted, for ts, changes its tag.          *)
Counted(rows, ts) ==
    [t \in Tags |-> (usage[t] - Cardinality({row \in rows : row.tag = t}))
                      + Cardinality({t} \cap ts)]

(* Who has deleted tags of an entry has changed the rows of these tags and *)
(* has them locked.                                                        *)
Unlocked(ts, others) ==
    \A q \in others : At(q, "cleared") => TagsOf(request[q].rows) \cap ts = {}

(* An id for rows inserted beside those that are left: of none of them,    *)
(* and of none that another request has seen.                              *)
FreshRows(i, e, left, others) ==
    /\ \A row \in left : row.by # i
    /\ \A q \in others : \A row \in request[q].rows :
         row.by # i \/ request[q].entry # e

Rows(ts, i) == {[tag |-> t, by |-> i] : t \in ts}

(* CreateEntry: the entry, its secrets, tags and history, in one           *)
(* transaction.                                                            *)
CreateEntry(e, ts, ss) ==
    /\ entry[e] = "none"
    /\ ts \subseteq LiveTags /\ Unlocked(ts, Requests)
    /\ \A s \in ss : secret[s] = NoSecret
    /\ entry' = [entry EXCEPT ![e] = "live"]
    /\ \E i \in Inserts : tagged' = [tagged EXCEPT ![e] = Rows(ts, i)]
    /\ usage' = Counted({}, ts)
    /\ wanted' = [wanted EXCEPT ![e] = ts]
    /\ secret' = [s \in Secrets |->
                    IF s \in ss THEN [NoSecret EXCEPT !.state = "live",
                                                     !.entry = e]
                    ELSE secret[s]]
    /\ UNCHANGED <<tag, attached, request, wrote, overlaps>>

(* UpdateEntry: the entry is there.  Without a column, and without a tag   *)
(* either, nothing is written: an empty list alone does not clear tags.    *)
CheckEntry(r, e, sets, ts) ==
    /\ Live(e)
    /\ sets \subseteq {"columns", "tags"}
    /\ "columns" \in sets \/ ts # {}
    /\ ts # {} => "tags" \in sets
    /\ Start(r, [Idle EXCEPT !.pc = "checked", !.entry = e, !.sets = sets,
                             !.tags = ts])
    /\ UNCHANGED <<entry, tag, usage, tagged, secret, attached, wanted, wrote,
                   overlaps>>

(* The transactions that hold the row of the entry. *)
Holders(e) == {q \in Requests : /\ request[q].pc \in {"locked", "clearing", "cleared"}
                               /\ request[q].entry = e
                               /\ "columns" \in request[q].sets}

(* UPDATE vault_entries, also of an entry that is gone by now. *)
WriteColumns(r) ==
    /\ At(r, "checked")
    /\ "columns" \in request[r].sets
    /\ Holders(request[r].entry) = {}
    /\ GoTo(r, "locked")
    /\ UNCHANGED <<entry, tag, usage, tagged, secret, attached, wanted, wrote,
                   overlaps>>

Clearing(e) == {q \in Requests : /\ request[q].pc \in {"clearing", "cleared"}
                                /\ request[q].entry = e}

ReadyToClear(r) ==
    /\ "tags" \in request[r].sets
    /\ At(r, IF "columns" \in request[r].sets THEN "locked" ELSE "checked")

(* Mutant: tags are cleared only when a column changes too. *)
ClearTagsWithColumns(r) ==
    LET e == request[r].entry IN
    /\ ReadyToClear(r)
    /\ request' = [request EXCEPT ![r] = [request[r] EXCEPT
                      !.pc = "clearing",
                      !.rows = IF "columns" \in request[r].sets THEN tagged[e]
                               ELSE {}]]
    /\ Overlaps(<<"tags", e>>, Clearing(e))
    /\ UNCHANGED <<entry, tag, usage, tagged, secret, attached, wanted, wrote>>

(* DELETE FROM vault_entry_tags begins: it sees the rows committed by now. *)
ClearTags(r) ==
    LET e == request[r].entry IN
    /\ ReadyToClear(r)
    /\ request' = [request EXCEPT ![r] = [request[r] EXCEPT
                                             !.pc = "clearing",
                                             !.rows = tagged[e]]]
    /\ Overlaps(<<"tags", e>>, Clearing(e))
    /\ UNCHANGED <<entry, tag, usage, tagged, secret, attached, wanted, wrote>>

(* It has waited for whoever deletes the same rows, or counts the same     *)
(* tags, and deletes those of its rows that are still there.               *)
DeleteTagRows(r) ==
    LET rows == request[r].rows \cap tagged[request[r].entry] IN
    /\ At(r, "clearing")
    /\ Unlocked(TagsOf(rows), Requests \ {r})
    /\ request' = [request EXCEPT ![r] = [request[r] EXCEPT !.pc = "cleared",
                                                            !.rows = rows]]
    /\ UNCHANGED <<entry, tag, usage, tagged, secret, attached, wanted, wrote,
                   overlaps>>

(* The tags and the history are inserted, and the transaction commits: the *)
(* entry and its new tags are there, and no row of it has one of them.     *)
CommitEntry(r) ==
    LET e == request[r].entry
        ts == request[r].tags
        left == tagged[e] \ request[r].rows
    IN
    /\ At(r, "cleared") \/ (At(r, "locked") /\ "tags" \notin request[r].sets)
    /\ Live(e)
    /\ IF At(r, "cleared")
       THEN /\ ts \subseteq LiveTags \ TagsOf(left)
            /\ Unlocked(ts, Requests \ {r})
            /\ \E i \in Inserts :
                 /\ FreshRows(i, e, left, Requests \ {r})
                 /\ tagged' = [tagged EXCEPT ![e] = left \cup Rows(ts, i)]
            /\ usage' = Counted(request[r].rows, ts)
            /\ wanted' = [wanted EXCEPT ![e] = ts]
       ELSE UNCHANGED <<tagged, usage, wanted>>
    /\ Done(r)
    /\ UNCHANGED <<entry, tag, secret, attached, wrote, overlaps>>

(* Mutant: the code counts down what the trigger counts down already. *)
DeleteEntryTwice(e) ==
    /\ Live(e) /\ Holders(e) = {}
    /\ entry' = [entry EXCEPT ![e] = "gone"]
    /\ usage' = [t \in Tags |-> IF t \in TagsOf(tagged[e]) THEN usage[t] - 2
                               ELSE usage[t]]
    /\ tagged' = [tagged EXCEPT ![e] = {}]
    /\ wanted' = [wanted EXCEPT ![e] = {}]
    /\ UNCHANGED <<tag, secret, attached, request, wrote, overlaps>>

(* DeleteEntry, with everything that belongs to the entry. *)
DeleteEntry(e) ==
    /\ Live(e) /\ Holders(e) = {} /\ Unlocked(TagsOf(tagged[e]), Requests)
    /\ entry' = [entry EXCEPT ![e] = "gone"]
    /\ usage' = Counted(tagged[e], {})
    /\ tagged' = [tagged EXCEPT ![e] = {}]
    /\ wanted' = [wanted EXCEPT ![e] = {}]
    /\ attached' = [attached EXCEPT ![e] = 0]
    /\ secret' = [s \in Secrets |->
                    IF Kept(s) /\ secret[s].entry = e
                    THEN [secret[s] EXCEPT !.state = "gone"] ELSE secret[s]]
    /\ UNCHANGED <<tag, request, wrote, overlaps>>

-----------------------------------------------------------------------------
(* CreateTag: of two that insert the same name the unique index refuses    *)
(* one.                                                                    *)
CreateTag(t) ==
    /\ tag[t] = "none" /\ t \notin SystemTags
    /\ tag' = [tag EXCEPT ![t] = "live"]
    /\ UNCHANGED <<entry, usage, tagged, secret, attached, request, wanted,
                   wrote, overlaps>>

(* EnsureSystemTags inserts those that are missing, one by one, likewise. *)
EnsureSystemTag(t) ==
    /\ tag[t] = "none" /\ t \in SystemTags
    /\ tag' = [tag EXCEPT ![t] = "live"]
    /\ UNCHANGED <<entry, usage, tagged, secret, attached, request, wanted,
                   wrote, overlaps>>

(* UpdateTag reads the tag, which is not a system tag, ... *)
ReadTag(r, t) ==
    /\ t \in LiveTags \ SystemTags
    /\ Start(r, [Idle EXCEPT !.pc = "renaming", !.tag = t, !.usage = usage[t]])
    /\ UNCHANGED <<entry, tag, usage, tagged, secret, attached, wanted, wrote,
                   overlaps>>

(* Mutant: every column is written back, as UpdateSecret does. *)
WriteTagBack(r) ==
    /\ At(r, "renaming")
    /\ usage' = IF request[r].tag \in LiveTags
                THEN [usage EXCEPT ![request[r].tag] = request[r].usage]
                ELSE usage
    /\ Done(r)
    /\ UNCHANGED <<entry, tag, tagged, secret, attached, wanted, wrote, overlaps>>

(* ... and writes name, color and category, and no other column. *)
WriteTag(r) ==
    /\ At(r, "renaming") /\ Unlocked({request[r].tag}, Requests)
    /\ Done(r)
    /\ UNCHANGED <<entry, tag, usage, tagged, secret, attached, wanted, wrote,
                   overlaps>>

(* DeleteTag: entries lose it. *)
DeleteTag(t) ==
    /\ t \in LiveTags \ SystemTags /\ Unlocked({t}, Requests)
    /\ tag' = [tag EXCEPT ![t] = "gone"]
    /\ usage' = [usage EXCEPT ![t] = 0]
    /\ tagged' = [e \in Entries |-> {row \in tagged[e] : row.tag # t}]
    /\ wanted' = [e \in Entries |-> wanted[e] \ {t}]
    /\ UNCHANGED <<entry, secret, attached, request, wrote, overlaps>>

-----------------------------------------------------------------------------
(* AddSecret: a value that has never been rotated. *)
AddSecret(s, e) ==
    /\ Live(e)
    /\ secret[s] = NoSecret
    /\ secret' = [secret EXCEPT ![s] = [NoSecret EXCEPT !.state = "live",
                                                        !.entry = e]]
    /\ UNCHANGED <<entry, tag, usage, tagged, attached, request, wanted, wrote,
                   overlaps>>

Editing(s) == {q \in Requests : At(q, "editing") /\ request[q].secret = s}

(* An edit nothing refers to. *)
Fresh(d) ==
    /\ \A s \in Secrets : /\ \A c \in Columns : wrote[s][c] # d
                          /\ d \notin {secret[s].row.value, secret[s].row.position}
    /\ \A q \in Requests : /\ request[q].edit # d
                           /\ d \notin {request[q].row.value,
                                        request[q].row.position}

(* UpdateSecret reads the whole row, changes some of it or nothing, ...    *)
ReadSecret(r, s, columns, d) ==
    /\ Kept(s)
    /\ Fresh(d)
    /\ Start(r, [Idle EXCEPT !.pc = "editing", !.secret = s,
                             !.columns = columns, !.edit = d,
                             !.row = secret[s].row])
    /\ Overlaps(<<"secret", s>>, Editing(s))
    /\ UNCHANGED <<entry, tag, usage, tagged, secret, attached, wanted, wrote>>

(* What an edit makes of one column. *)
Changed(r, column, old) ==
    IF column \in request[r].columns THEN request[r].edit ELSE old

(* Mutant: the rotation is stamped whatever changes. *)
EditedAndStamped(r) ==
    LET row == request[r].row IN
    [value    |-> Changed(r, "value", row.value),
     rotated  |-> request[r].edit,
     position |-> Changed(r, "position", row.position)]

(* Mutant: the position is not among the columns written. *)
EditedInPlace(r) ==
    LET row == request[r].row IN
    [value    |-> Changed(r, "value", row.value),
     rotated  |-> Changed(r, "value", row.rotated),
     position |-> row.position]

(* A new value is a rotation. *)
Edited(r) ==
    LET row == request[r].row IN
    [value    |-> Changed(r, "value", row.value),
     rotated  |-> Changed(r, "value", row.rotated),
     position |-> Changed(r, "position", row.position)]

(* ... and writes all of it back; a secret that is gone by now is answered *)
(* as updated all the same.                                                *)
WriteSecret(r) ==
    LET s == request[r].secret IN
    /\ At(r, "editing")
    /\ secret' = IF Kept(s) THEN [secret EXCEPT ![s].row = Edited(r)] ELSE secret
    /\ wrote' = [wrote EXCEPT ![s] =
                   [c \in Columns |-> Changed(r, c, wrote[s][c])]]
    /\ Done(r)
    /\ UNCHANGED <<entry, tag, usage, tagged, attached, wanted, overlaps>>

(* ReorderSecrets, as it commits: the positions of secrets of the entry. *)
ReorderSecrets(e, ss, d) ==
    /\ Live(e) /\ ss # {}
    /\ \A s \in ss : Kept(s) /\ secret[s].entry = e
    /\ Fresh(d)
    /\ secret' = [s \in Secrets |-> IF s \in ss
                                    THEN [secret[s] EXCEPT !.row.position = d]
                                    ELSE secret[s]]
    /\ wrote' = [s \in Secrets |-> IF s \in ss
                                   THEN [wrote[s] EXCEPT !["position"] = d]
                                   ELSE wrote[s]]
    /\ overlaps' = overlaps \cup {<<"secret", s>> :
                                    s \in {x \in ss : Editing(x) # {}}}
    /\ UNCHANGED <<entry, tag, usage, tagged, attached, request, wanted>>

DeleteSecret(s) ==
    /\ Kept(s)
    /\ secret' = [secret EXCEPT ![s].state = "gone"]
    /\ UNCHANGED <<entry, tag, usage, tagged, attached, request, wanted, wrote,
                   overlaps>>

-----------------------------------------------------------------------------
Uploading(e) == {q \in Requests : At(q, "uploading") /\ request[q].entry = e}

(* Mutant: the limit itself still passes. *)
CountAttachmentsUpTo(r, e) ==
    /\ Live(e)
    /\ attached[e] <= Limit
    /\ Start(r, [Idle EXCEPT !.pc = "uploading", !.entry = e])
    /\ Overlaps(<<"files", e>>, Uploading(e))
    /\ UNCHANGED <<entry, tag, usage, tagged, secret, attached, wanted, wrote>>

(* CreateAttachment counts, ... *)
CountAttachments(r, e) ==
    /\ Live(e)
    /\ attached[e] < Limit
    /\ Start(r, [Idle EXCEPT !.pc = "uploading", !.entry = e])
    /\ Overlaps(<<"files", e>>, Uploading(e))
    /\ UNCHANGED <<entry, tag, usage, tagged, secret, attached, wanted, wrote>>

(* ... and inserts. *)
InsertAttachment(r) ==
    LET e == request[r].entry IN
    /\ At(r, "uploading")
    /\ Live(e)
    /\ attached' = [attached EXCEPT ![e] = @ + 1]
    /\ Done(r)
    /\ UNCHANGED <<entry, tag, usage, tagged, secret, wanted, wrote, overlaps>>

DeleteAttachment(e) ==
    /\ attached[e] > 0
    /\ attached' = [attached EXCEPT ![e] = @ - 1]
    /\ UNCHANGED <<entry, tag, usage, tagged, secret, request, wanted, wrote,
                   overlaps>>

(* A statement fails or is refused, or the replica stops: what has not     *)
(* been committed is rolled back.                                          *)
Fail(r) ==
    /\ ~At(r, "idle")
    /\ Done(r)
    /\ UNCHANGED <<entry, tag, usage, tagged, secret, attached, wanted, wrote,
                   overlaps>>

-----------------------------------------------------------------------------
EntryCalls(r) ==
    \/ \E e \in Entries, sets \in SUBSET {"columns", "tags"}, ts \in SUBSET Tags :
         CheckEntry(r, e, sets, ts)
    \/ WriteColumns(r) \/ ClearTags(r) \/ DeleteTagRows(r) \/ CommitEntry(r)

TagCalls(r) == (\E t \in Tags : ReadTag(r, t)) \/ WriteTag(r)

SecretCalls(r) ==
    \/ \E s \in Secrets, columns \in SUBSET Columns, d \in Edits :
         ReadSecret(r, s, columns, d)
    \/ WriteSecret(r)

AttachmentCalls(r) ==
    \/ \E e \in Entries : CountAttachments(r, e)
    \/ InsertAttachment(r)

CatalogueNext ==
    \/ \E r \in Requests :
         \/ EntryCalls(r) \/ TagCalls(r) \/ SecretCalls(r) \/ AttachmentCalls(r)
         \/ Fail(r)
    \/ \E e \in Entries, ts \in SUBSET Tags, ss \in SUBSET Secrets :
         CreateEntry(e, ts, ss)
    \/ \E e \in Entries : DeleteEntry(e) \/ DeleteAttachment(e)
    \/ \E t \in Tags : CreateTag(t) \/ EnsureSystemTag(t) \/ DeleteTag(t)
    \/ \E s \in Secrets, e \in Entries : AddSecret(s, e)
    \/ \E e \in Entries, ss \in SUBSET Secrets, d \in Edits :
         ReorderSecrets(e, ss, d)
    \/ \E s \in Secrets : DeleteSecret(s)

CatalogueSpec == CatalogueInit /\ [][CatalogueNext]_vars

-----------------------------------------------------------------------------
(* An entry has the tags its last answered update (or its creation) gave   *)
(* it, without those deleted since, unless two updates of its tags         *)
(* overlapped: the DELETE of UpdateEntry does not see what others insert,  *)
(* and two sets of tags can merge.                                         *)
UpdatesSetTags ==
    \A e \in Entries :
        <<"tags", e>> \notin overlaps => TagsOf(tagged[e]) = wanted[e]

(* The usage count of a tag, changed by a trigger with each row, is the    *)
(* number of entries that carry it, however updates, renamings, deletions  *)
(* of entries and of tags interleave: nobody deletes a row that somebody   *)
(* else deletes, and no entry has a tag twice.                             *)
UsageCountsEntries ==
    \A t \in Tags :
        usage[t] = Cardinality({e \in Entries : t \in TagsOf(tagged[e])})

(* A secret shows the last answered edit of each of its columns, unless    *)
(* an UpdateSecret overlapped another edit: it writes back every column as *)
(* it has read it.                                                         *)
SerialEditsAreKept ==
    \A s \in Secrets :
        Kept(s) /\ <<"secret", s>> \notin overlaps =>
            /\ secret[s].row.value = wrote[s]["value"]
            /\ secret[s].row.position = wrote[s]["position"]

(* last_rotated is the time of the value that is stored, also when edits   *)
(* overlapped: whole rows are written, the stamp with its value.           *)
RotationStampsValue ==
    \A s \in Secrets : secret[s].row.rotated = secret[s].row.value

(* An entry exceeds the limit of attachments only when uploads to it       *)
(* overlapped, and by fewer than there are requests at a time.             *)
AttachmentsBounded ==
    \A e \in Entries :
        /\ attached[e] < Limit + Cardinality(Requests)
        /\ <<"files", e>> \notin overlaps => attached[e] <= Limit
=============================================================================
