----------------------------- MODULE FolderTree -----------------------------
(***************************************************************************)
(* One user's folders (internal/vault/folders.go) and the entries filed in *)
(* them.  FolderService checks first and writes afterwards, one statement  *)
(* at a time and without a transaction (ReorderFolders has one), so other  *)
(* requests run between any two of its statements.                         *)
(*                                                                         *)
(* The foreign keys act with the statement that concerns them: a parent    *)
(* that is gone refuses it, a deleted folder takes its children along (ON  *)
(* DELETE CASCADE) and unfiles its entries (ON DELETE SET NULL).  Names,   *)
(* colours and positions are left out: a name that is taken makes a        *)
(* request fail, and reordering matters for the row locks it holds.        *)
(***************************************************************************)
CONSTANTS
    Folders,  \* folder ids uuid.New can return
    Entries,  \* entries of the user
    Requests, \* requests in progress
    Root,     \* parent_id IS NULL
    None      \* no folder

ASSUME FolderAssumption ==
    /\ Root \notin Folders
    /\ None \notin Folders
    /\ Root # None

VARIABLES
    parent,  \* parent_id of every folder, None for one that does not exist
    made,    \* ids handed out so far: uuid.New repeats none
    filed,   \* folder_id of every entry
    request, \* the requests in progress
    locks,   \* rows each ReorderFolders transaction has updated
    history  \* history: "unchecked" once a move was written whose cycle check
             \* does not hold for the tree as it is then

vars == <<parent, made, filed, request, locks, history>>

(* walking, moving: UpdateFolder in and after wouldCreateCycle, at the     *)
(* folder it looks at next; childless, empty: DeleteFolder after its two   *)
(* counts; picking, reordering: ReorderFolders before and after the SELECT *)
(* of the row at.  basis: whether what a request has checked still holds.   *)
Request == [pc      : {"idle", "walking", "moving", "childless", "empty",
                       "picking", "reordering"},
            folder  : Folders \cup {None},
            parent  : Folders \cup {None},
            at      : Folders \cup {None},
            visited : SUBSET Folders,
            rest    : SUBSET Folders,
            basis   : {"fresh", "stale"}]

Idle == [pc |-> "idle", folder |-> None, parent |-> None, at |-> None,
         visited |-> {}, rest |-> {}, basis |-> "fresh"]

FolderTypeOK ==
    /\ parent \in [Folders -> Folders \cup {Root, None}]
    /\ made \in SUBSET Folders
    /\ filed \in [Entries -> Folders \cup {None}]
    /\ request \in [Requests -> Request]
    /\ locks \in [Requests -> SUBSET Folders]
    /\ history \in {"checked", "unchecked"}

FolderInit ==
    /\ parent = [f \in Folders |-> None]
    /\ made = {}
    /\ filed = [e \in Entries |-> None]
    /\ request = [r \in Requests |-> Idle]
    /\ locks = [r \in Requests |-> {}]
    /\ history = "checked"

Live(f) == parent[f] # None
At(r, pc) == request[r].pc = pc
GoTo(r, pc) == request' = [request EXCEPT ![r].pc = pc]
Start(r, record) == At(r, "idle") /\ request' = [request EXCEPT ![r] = record]
Done(r) == request' = [request EXCEPT ![r] = Idle]

(* Another transaction has updated the row and not ended. *)
Locked(f) == \E q \in Requests : f \in locks[q]

Movers == {q \in Requests : At(q, "walking") \/ At(q, "moving")}
Deleters(f) == {q \in Requests : /\ At(q, "childless") \/ At(q, "empty")
                                 /\ request[q].folder = f}

(* History: the checks of these requests may no longer hold. *)
Unsettled(qs) == [q \in Requests |->
                    IF q \in qs THEN [request[q] EXCEPT !.basis = "stale"]
                    ELSE request[q]]

-----------------------------------------------------------------------------
(* CreateFolder: the parent, if there is one, exists. *)
Create(f, p) ==
    /\ f \notin made
    /\ p = Root \/ (p \in Folders /\ Live(p))
    /\ parent' = [parent EXCEPT ![f] = p]
    /\ made' = made \cup {f}
    /\ request' = Unsettled(Deleters(p))
    /\ UNCHANGED <<filed, locks, history>>

(* CreateEntry, UpdateEntry: an entry is filed in a folder that exists. *)
File(e, f) ==
    /\ Live(f)
    /\ filed' = [filed EXCEPT ![e] = f]
    /\ request' = Unsettled(Deleters(f))
    /\ UNCHANGED <<parent, made, locks, history>>

-----------------------------------------------------------------------------
(* UpdateFolder with a parent_id: both folders exist, and differ.  Without *)
(* one parent_id stays as it is, so that nothing ever moves to the root.   *)
Move(r, f, p) ==
    /\ f # p /\ Live(f) /\ Live(p)
    /\ Start(r, [Idle EXCEPT !.pc = "walking", !.folder = f, !.parent = p,
                             !.at = p])
    /\ UNCHANGED <<parent, made, filed, locks, history>>

(* wouldCreateCycle reads one parent_id after the other on the way up ... *)
WalkUp(r) ==
    LET here == request[r].at IN
    /\ At(r, "walking")
    /\ here # request[r].folder /\ here \notin request[r].visited
    /\ parent[here] \in Folders
    /\ request' = [request EXCEPT ![r] =
                     [request[r] EXCEPT !.visited = @ \cup {here},
                                       !.at = parent[here]]]
    /\ UNCHANGED <<parent, made, filed, locks, history>>

(* Mutant: only the new parent itself is looked at. *)
WalkEndsEarly(r) ==
    /\ At(r, "walking")
    /\ request[r].at # request[r].folder
    /\ GoTo(r, "moving")
    /\ UNCHANGED <<parent, made, filed, locks, history>>

(* ... lets the move pass at the top, at a folder that is gone, and where  *)
(* it has been before ...                                                  *)
WalkEnds(r) ==
    LET here == request[r].at IN
    /\ At(r, "walking")
    /\ here # request[r].folder
    /\ here \in request[r].visited \/ parent[here] \notin Folders
    /\ request' = [request EXCEPT ![r] =
                     [request[r] EXCEPT !.pc = "moving", !.visited = @ \cup {here}]]
    /\ UNCHANGED <<parent, made, filed, locks, history>>

(* ... and also when a query fails, in which case it has checked nothing.  *)
WalkFails(r) ==
    /\ At(r, "walking")
    /\ request[r].at # request[r].folder /\ request[r].at \notin request[r].visited
    /\ request' = [request EXCEPT ![r] =
                     [request[r] EXCEPT !.pc = "moving", !.basis = "stale"]]
    /\ UNCHANGED <<parent, made, filed, locks, history>>

MoveRefused(r) ==
    /\ At(r, "walking")
    /\ request[r].at = request[r].folder
    /\ Done(r)
    /\ UNCHANGED <<parent, made, filed, locks, history>>

(* UPDATE vault_folders SET parent_id, once nobody else has the row. *)
WriteParent(r) ==
    LET f == request[r].folder
        p == request[r].parent
    IN
    /\ At(r, "moving")
    /\ Live(f) /\ Live(p) /\ ~Locked(f)
    /\ parent' = [parent EXCEPT ![f] = p]
    /\ request' = [Unsettled(Movers \cup Deleters(p)) EXCEPT ![r] = Idle]
    /\ history' = IF request[r].basis = "stale" THEN "unchecked" ELSE history
    /\ UNCHANGED <<made, filed, locks>>

(* The folder is gone (no row to update) or the parent is (foreign key).   *)
MoveLost(r) ==
    /\ At(r, "moving")
    /\ ~Live(request[r].folder) \/ ~Live(request[r].parent)
    /\ Done(r)
    /\ UNCHANGED <<parent, made, filed, locks, history>>

-----------------------------------------------------------------------------
(* What ON DELETE CASCADE takes along: the smallest set with f that holds  *)
(* the children of its members.                                            *)
ClosedDown(S) == \A x \in Folders : parent[x] \in S => x \in S
Subtree(f) == {x \in Folders : \A S \in SUBSET Folders :
                                  (f \in S /\ ClosedDown(S)) => x \in S}

Remove(f) ==
    /\ \A x \in Subtree(f) : ~Locked(x)
    /\ parent' = [x \in Folders |-> IF x \in Subtree(f) THEN None ELSE parent[x]]
    /\ filed' = [e \in Entries |-> IF filed[e] \in Subtree(f) THEN None
                                   ELSE filed[e]]
    /\ UNCHANGED <<made, locks, history>>

(* DeleteFolder, recursive: one DELETE. *)
DeleteTree(f) ==
    /\ Live(f)
    /\ Remove(f)
    /\ UNCHANGED request

(* DeleteFolder, not recursive: it has no children ... *)
CountChildren(r, f) ==
    /\ Live(f)
    /\ \A x \in Folders : parent[x] # f
    /\ Start(r, [Idle EXCEPT !.pc = "childless", !.folder = f])
    /\ UNCHANGED <<parent, made, filed, locks, history>>

(* Mutant: the entries are not counted. *)
CountEntriesSkipped(r) ==
    /\ At(r, "childless")
    /\ GoTo(r, "empty")
    /\ UNCHANGED <<parent, made, filed, locks, history>>

(* ... and no entries ... *)
CountEntries(r) ==
    /\ At(r, "childless")
    /\ IF \A e \in Entries : filed[e] # request[r].folder
       THEN GoTo(r, "empty") ELSE Done(r)
    /\ UNCHANGED <<parent, made, filed, locks, history>>

(* ... and is deleted, with whatever it holds by now. *)
DeleteCounted(r) ==
    /\ At(r, "empty")
    /\ Remove(request[r].folder)
    /\ Done(r)

-----------------------------------------------------------------------------
(* ReorderFolders ranges over a Go map, in any order. *)
Reorder(r, fs) ==
    /\ fs # {}
    /\ Start(r, [Idle EXCEPT !.pc = "picking", !.rest = fs])
    /\ UNCHANGED <<parent, made, filed, locks, history>>

(* SELECT user_id: the row exists. *)
PickRow(r) ==
    /\ At(r, "picking")
    /\ \E f \in request[r].rest :
         /\ Live(f)
         /\ request' = [request EXCEPT ![r] =
                          [request[r] EXCEPT !.pc = "reordering", !.at = f,
                                             !.rest = @ \ {f}]]
    /\ UNCHANGED <<parent, made, filed, locks, history>>

(* UPDATE ... SET position locks the row; of a deleted one there is none.  *)
UpdateRow(r) ==
    LET f == request[r].at IN
    /\ At(r, "reordering")
    /\ \A q \in Requests \ {r} : f \notin locks[q]
    /\ locks' = IF Live(f) THEN [locks EXCEPT ![r] = @ \cup {f}] ELSE locks
    /\ GoTo(r, "picking")
    /\ UNCHANGED <<parent, made, filed, history>>

CommitOrder(r) ==
    /\ At(r, "picking") /\ request[r].rest = {}
    /\ locks' = [locks EXCEPT ![r] = {}]
    /\ Done(r)
    /\ UNCHANGED <<parent, made, filed, history>>

(* A statement fails, a name is taken, a folder to reorder is gone, two    *)
(* reorders wait for each other and Postgres ends one, or the process      *)
(* dies: an open transaction rolls back.                                   *)
Fail(r) ==
    /\ ~At(r, "idle")
    /\ locks' = [locks EXCEPT ![r] = {}]
    /\ Done(r)
    /\ UNCHANGED <<parent, made, filed, history>>

-----------------------------------------------------------------------------
Proceed(r) ==
    \/ WalkUp(r) \/ WalkEnds(r) \/ WalkFails(r) \/ MoveRefused(r)
    \/ WriteParent(r) \/ MoveLost(r)
    \/ CountEntries(r) \/ DeleteCounted(r)
    \/ PickRow(r) \/ UpdateRow(r) \/ CommitOrder(r)

Arrive(r) ==
    \/ \E f, p \in Folders : Move(r, f, p)
    \/ \E f \in Folders : CountChildren(r, f)
    \/ \E fs \in SUBSET Folders : Reorder(r, fs)

FolderNext ==
    \/ \E f \in Folders :
         \/ \E p \in Folders \cup {Root} : Create(f, p)
         \/ \E e \in Entries : File(e, f)
         \/ DeleteTree(f)
    \/ \E r \in Requests : Arrive(r) \/ Proceed(r) \/ Fail(r)

FolderSpec == FolderInit /\ [][FolderNext]_vars

-----------------------------------------------------------------------------
(* No set of folders is closed under parent_id: going up from a folder     *)
(* ends at the top, and GetFolderTree reaches every folder from there.     *)
NoCycle == \A S \in SUBSET Folders : S # {} => \E x \in S : parent[x] \notin S

(* As long as every move was written to a tree in which its cycle check    *)
(* still held (no other move was written since the walk began, no query of *)
(* it failed), the folders are a forest, whatever is created or deleted    *)
(* while the walk climbs.                                                  *)
CheckedMovesKeepForest == history = "checked" => NoCycle

(* A folder's parent and an entry's folder exist, whatever is deleted      *)
(* between a check and the write that follows it: together with NoCycle,   *)
(* GetFolderTree leaves nothing out.                                       *)
NothingIsOrphaned ==
    /\ \A f \in Folders : parent[f] \in Folders => Live(parent[f])
    /\ \A e \in Entries : filed[e] \in Folders => Live(filed[e])

(* A delete that is not recursive takes no folder and no entry along that  *)
(* was there when it counted: it removes more than its folder only if      *)
(* something was filed or moved there since.                               *)
DeleteTakesNothingAlong ==
    [][\A r \in Requests :
          (At(r, "empty") /\ request[r].basis = "fresh" /\ parent' # parent
              /\ request'[r].pc = "idle") =>
              /\ \A x \in Folders \ {request[r].folder} : parent'[x] = parent[x]
              /\ filed' = filed]_vars
=============================================================================
