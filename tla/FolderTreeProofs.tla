-------------------------- MODULE FolderTreeProofs --------------------------
(***************************************************************************)
(* Proofs about FolderTree, for any folders, entries and requests.  That   *)
(* there is no cycle is not inductive: a move that has passed its check    *)
(* must be known to be harmless.  It is when the folders its walk visited  *)
(* are closed under parent_id, contain the new parent and not the folder   *)
(* that moves.                                                             *)
(***************************************************************************)
EXTENDS FolderTree, TLAPS

(* A walk under way: the folders below it lead up to where it is. *)
Climbing(r) ==
    /\ request[r].folder \in Folders /\ request[r].parent \in Folders
    /\ request[r].folder \notin request[r].visited
    /\ request[r].parent \in request[r].visited \cup {request[r].at}
    /\ \A x \in request[r].visited :
         parent[x] \in request[r].visited \cup {request[r].at, None}

(* A walk that let the move pass: it has seen all there is above. *)
Passed(r) ==
    /\ request[r].folder \in Folders
    /\ request[r].folder \notin request[r].visited
    /\ request[r].parent \in request[r].visited
    /\ \A x \in request[r].visited :
         parent[x] \in request[r].visited \cup {Root, None}

(* What a delete has counted. *)
Childless(r) == \A x \in Folders : parent[x] # request[r].folder
Empty(r) == \A e \in Entries : filed[e] # request[r].folder

Fresh(r) == request[r].basis = "fresh"
Counting(r) == At(r, "childless") \/ At(r, "empty")

(* What a walk has seen was made, and what a request has checked holds     *)
(* unless something was written that it must be re-checked for.            *)
RequestHolds(r) ==
    /\ request[r].visited \subseteq made
    /\ At(r, "walking") => request[r].at \in made \cap Folders
    /\ (At(r, "walking") /\ Fresh(r)) => Climbing(r)
    /\ (At(r, "moving") /\ Fresh(r)) => Passed(r)
    /\ At(r, "moving") => /\ request[r].folder \in Folders
                          /\ request[r].parent \in Folders
    /\ At(r, "walking") => /\ request[r].folder \in Folders
                           /\ request[r].parent \in Folders
    /\ Counting(r) => request[r].folder \in Folders
    /\ At(r, "reordering") => request[r].at \in Folders
    /\ (Counting(r) /\ Fresh(r)) => Childless(r)
    /\ (At(r, "empty") /\ Fresh(r)) => Empty(r)

LiveWereMade == \A f \in Folders : Live(f) => f \in made

ForestInv ==
    /\ FolderTypeOK
    /\ NothingIsOrphaned
    /\ LiveWereMade
    /\ \A r \in Requests : RequestHolds(r)
    /\ CheckedMovesKeepForest

(***************************************************************************)
(* Lemmas about the tree.                                                  *)
(***************************************************************************)

(* A cascade takes the children of what it takes. *)
LEMMA SubtreeClosed ==
    ASSUME NEW f \in Folders
    PROVE  /\ f \in Subtree(f)
           /\ Subtree(f) \subseteq Folders
           /\ \A x \in Folders : parent[x] \in Subtree(f) => x \in Subtree(f)
  BY DEF Subtree, ClosedDown

(* A folder that is no folder's parent is taken alone. *)
LEMMA LeafSubtree ==
    ASSUME NEW f \in Folders, \A x \in Folders : parent[x] # f
    PROVE  Subtree(f) = {f}
<1>1. ClosedDown({f})
  BY DEF ClosedDown
<1>2. \A x \in Subtree(f) : x \in {f}
  BY <1>1 DEF Subtree
<1>. QED
  BY <1>2, SubtreeClosed

(* A move to a place whose ancestors do not include the folder makes no    *)
(* cycle: a cycle through the folder would pass through its new parent and *)
(* stay among that parent's ancestors.                                     *)
LEMMA MoveKeepsForest ==
    ASSUME NEW r \in Requests,
           FolderAssumption, FolderTypeOK, NoCycle, Passed(r),
           parent' = [parent EXCEPT ![request[r].folder] = request[r].parent]
    PROVE  NoCycle'
<1>. DEFINE f == request[r].folder
            p == request[r].parent
            C == request[r].visited
<1>1. /\ f \in Folders /\ p \in Folders /\ C \subseteq Folders
      /\ f \notin C /\ p \in C
      /\ \A x \in C : parent[x] \in C \cup {Root, None}
  BY DEF FolderTypeOK, Request, Passed
<1>2. SUFFICES ASSUME NEW S \in SUBSET Folders, S # {},
                      \A x \in S : parent'[x] \in S
               PROVE  FALSE
  BY DEF NoCycle
<1>3. parent'[f] = p /\ \A x \in Folders \ {f} : parent'[x] = parent[x]
  BY <1>1 DEF FolderTypeOK
<1>4. CASE f \notin S
  <2>1. \A x \in S : parent[x] \in S
    BY <1>2, <1>3, <1>4
  <2>. QED
    BY <2>1, <1>2 DEF NoCycle
<1>5. CASE f \in S
  <2>1. p \in S \cap C
    BY <1>1, <1>2, <1>3, <1>5
  <2>2. \A x \in S \cap C : parent[x] \in S
    BY <1>1, <1>2, <1>3
  <2>3. \A x \in S \cap C : parent[x] \in S \cap C
    BY <2>2, <1>1, <1>2 DEF FolderAssumption
  <2>. QED
    BY <2>1, <2>3, <1>1 DEF NoCycle
<1>. QED
  BY <1>4, <1>5

(***************************************************************************)
(* Steps.                                                                  *)
(***************************************************************************)

(* A step that leaves the folders and filings alone and changes one        *)
(* request at most.                                                        *)
LEMMA RequestStep ==
    ASSUME ForestInv,
           NEW r \in Requests, NEW record \in Request,
           request' = [request EXCEPT ![r] = record],
           UNCHANGED <<parent, made, filed, history>>,
           locks' \in [Requests -> SUBSET Folders],
           RequestHolds(r)'
    PROVE  ForestInv'
<1>1. FolderTypeOK'
  BY DEF ForestInv, FolderTypeOK
<1>2. NothingIsOrphaned' /\ LiveWereMade' /\ CheckedMovesKeepForest'
  BY DEF ForestInv, NothingIsOrphaned, LiveWereMade, Live,
         CheckedMovesKeepForest, NoCycle
<1>3. ASSUME NEW q \in Requests PROVE RequestHolds(q)'
  <2>1. CASE q = r
    BY <2>1
  <2>2. CASE q # r
    <3>1. request'[q] = request[q] /\ RequestHolds(q)
      BY <2>2 DEF ForestInv, FolderTypeOK
    <3>. QED
      BY <3>1 DEF RequestHolds, At, Fresh, Counting, Climbing, Passed,
                  Childless, Empty
  <2>. QED
    BY <2>1, <2>2
<1>. QED
  BY <1>1, <1>2, <1>3 DEF ForestInv

(* A request that ends, or starts, or reorders, has nothing to hold.       *)
LEMMA NothingToHold ==
    ASSUME ForestInv,
           NEW r \in Requests, NEW record \in Request,
           request' = [request EXCEPT ![r] = record],
           UNCHANGED <<parent, made, filed, history>>,
           locks' \in [Requests -> SUBSET Folders],
           record.visited \subseteq made,
           \/ record.pc \in {"idle", "picking"}
           \/ record.pc = "reordering" /\ record.at \in Folders
    PROVE  ForestInv'
<1>1. request'[r] = record
  BY DEF ForestInv, FolderTypeOK
<1>2. RequestHolds(r)'
  BY <1>1 DEF RequestHolds, At, Counting
<1>. QED
  BY <1>2, RequestStep

LEMMA IdleIsRequest == Idle \in Request /\ Idle.pc = "idle" /\ Idle.visited = {}
  BY DEF Idle, Request

LEMMA DoneKeepsForest ==
    ASSUME ForestInv, NEW r \in Requests, Done(r),
           UNCHANGED <<parent, made, filed, history>>,
           locks' \in [Requests -> SUBSET Folders]
    PROVE  ForestInv'
  BY IdleIsRequest, NothingToHold DEF Done

(* Steps of UpdateFolder before its write. *)
LEMMA MoveInv ==
    ASSUME FolderAssumption, ForestInv, NEW r \in Requests,
           NEW f \in Folders, NEW p \in Folders, Move(r, f, p)
    PROVE  ForestInv'
<1>. DEFINE record == [Idle EXCEPT !.pc = "walking", !.folder = f, !.parent = p,
                                   !.at = p]
<1>1. record \in Request
  BY DEF Idle, Request
<1>2. request' = [request EXCEPT ![r] = record] /\ request'[r] = record
  BY <1>1 DEF Move, Start, ForestInv, FolderTypeOK
<1>3. p \in made /\ f # p /\ made' = made
  BY DEF Move, ForestInv, LiveWereMade
<1>5. /\ record.pc = "walking" /\ record.folder = f /\ record.parent = p
      /\ record.at = p /\ record.visited = {}
  BY DEF Idle
<1>. HIDE DEF record
<1>4. RequestHolds(r)'
  BY <1>2, <1>3, <1>5 DEF RequestHolds, At, Climbing, Counting
<1>. QED
  BY <1>1, <1>2, <1>4, RequestStep DEF Move, ForestInv, FolderTypeOK

LEMMA WalkUpInv ==
    ASSUME FolderAssumption, ForestInv, NEW r \in Requests, WalkUp(r)
    PROVE  ForestInv'
<1>. DEFINE here == request[r].at
            record == [request[r] EXCEPT !.visited = @ \cup {here},
                                         !.at = parent[here]]
<1>1. request[r] \in Request /\ RequestHolds(r) /\ here \in made \cap Folders
  BY DEF WalkUp, ForestInv, FolderTypeOK, RequestHolds
<1>2. parent[here] \in Folders /\ parent[here] \in made
  BY <1>1 DEF WalkUp, ForestInv, NothingIsOrphaned, LiveWereMade
<1>3. record \in Request
  BY <1>1, <1>2 DEF Request
<1>4. request' = [request EXCEPT ![r] = record] /\ request'[r] = record
  <2>1. request' = [request EXCEPT ![r] = record]
    BY DEF WalkUp
  <2>. QED
    BY <2>1 DEF ForestInv, FolderTypeOK
<1>5. /\ record.pc = request[r].pc /\ record.folder = request[r].folder
      /\ record.parent = request[r].parent /\ record.basis = request[r].basis
      /\ record.visited = request[r].visited \cup {here}
      /\ record.at = parent[here]
  BY <1>1 DEF Request
<1>6. request[r].pc = "walking" /\ here # request[r].folder /\ parent' = parent
      /\ made' = made
  BY DEF WalkUp, At
<1>. HIDE DEF record
<1>7. RequestHolds(r)'
  <2>1. Fresh(r) => Climbing(r)'
    BY <1>1, <1>4, <1>5, <1>6 DEF RequestHolds, Climbing, At, Fresh
  <2>. QED
    BY <1>1, <1>2, <1>4, <1>5, <1>6, <2>1
       DEF RequestHolds, At, Fresh, Counting
<1>. QED
  BY <1>3, <1>4, <1>7, RequestStep DEF WalkUp, ForestInv, FolderTypeOK

LEMMA WalkEndsInv ==
    ASSUME FolderAssumption, ForestInv, NEW r \in Requests, WalkEnds(r)
    PROVE  ForestInv'
<1>. DEFINE here == request[r].at
            record == [request[r] EXCEPT !.pc = "moving",
                                         !.visited = @ \cup {here}]
<1>1. request[r] \in Request /\ RequestHolds(r) /\ here \in made \cap Folders
  BY DEF WalkEnds, ForestInv, FolderTypeOK, RequestHolds
<1>2. record \in Request
  BY <1>1 DEF Request
<1>3. request' = [request EXCEPT ![r] = record] /\ request'[r] = record
  <2>1. request' = [request EXCEPT ![r] = record]
    BY DEF WalkEnds
  <2>. QED
    BY <2>1 DEF ForestInv, FolderTypeOK
<1>4. /\ record.pc = "moving" /\ record.folder = request[r].folder
      /\ record.parent = request[r].parent /\ record.basis = request[r].basis
      /\ record.visited = request[r].visited \cup {here}
  BY <1>1 DEF Request
<1>5. /\ request[r].pc = "walking" /\ here # request[r].folder
      /\ here \in request[r].visited \/ parent[here] \in {Root, None}
      /\ parent' = parent /\ made' = made
  BY <1>1 DEF WalkEnds, At, ForestInv, FolderTypeOK
<1>. HIDE DEF record
<1>6. RequestHolds(r)'
  <2>1. Fresh(r) => Passed(r)'
    BY <1>1, <1>3, <1>4, <1>5
       DEF RequestHolds, Climbing, Passed, At, Fresh
  <2>. QED
    BY <1>1, <1>3, <1>4, <1>5, <2>1 DEF RequestHolds, At, Fresh, Counting
<1>. QED
  BY <1>2, <1>3, <1>6, RequestStep DEF WalkEnds, ForestInv, FolderTypeOK

LEMMA WalkFailsInv ==
    ASSUME FolderAssumption, ForestInv, NEW r \in Requests, WalkFails(r)
    PROVE  ForestInv'
<1>. DEFINE record == [request[r] EXCEPT !.pc = "moving", !.basis = "stale"]
<1>1. request[r] \in Request /\ RequestHolds(r)
  BY DEF ForestInv, FolderTypeOK
<1>2. record \in Request
  BY <1>1 DEF Request
<1>3. request' = [request EXCEPT ![r] = record] /\ request'[r] = record
  BY <1>2 DEF WalkFails, ForestInv, FolderTypeOK
<1>5. /\ record.pc = "moving" /\ record.folder = request[r].folder
      /\ record.parent = request[r].parent /\ record.basis = "stale"
      /\ record.visited = request[r].visited
  BY <1>1 DEF Request
<1>6. request[r].pc = "walking" /\ made' = made
  BY DEF WalkFails, At
<1>. HIDE DEF record
<1>4. RequestHolds(r)'
  BY <1>1, <1>3, <1>5, <1>6 DEF RequestHolds, At, Fresh, Counting
<1>. QED
  BY <1>2, <1>3, <1>4, RequestStep DEF WalkFails, ForestInv, FolderTypeOK

(* Steps of the deletes before the DELETE. *)
LEMMA CountChildrenInv ==
    ASSUME FolderAssumption, ForestInv, NEW r \in Requests, NEW f \in Folders,
           CountChildren(r, f)
    PROVE  ForestInv'
<1>. DEFINE record == [Idle EXCEPT !.pc = "childless", !.folder = f]
<1>1. record \in Request
  BY DEF Idle, Request
<1>2. request' = [request EXCEPT ![r] = record] /\ request'[r] = record
  BY <1>1 DEF CountChildren, Start, ForestInv, FolderTypeOK
<1>4. /\ record.pc = "childless" /\ record.folder = f /\ record.visited = {}
  BY DEF Idle
<1>5. made' = made /\ \A x \in Folders : parent'[x] # f
  BY DEF CountChildren
<1>. HIDE DEF record
<1>3. RequestHolds(r)'
  BY <1>2, <1>4, <1>5 DEF RequestHolds, At, Counting, Childless
<1>. QED
  BY <1>1, <1>2, <1>3, RequestStep DEF CountChildren, ForestInv, FolderTypeOK

LEMMA CountEntriesInv ==
    ASSUME FolderAssumption, ForestInv, NEW r \in Requests, CountEntries(r)
    PROVE  ForestInv'
<1>1. CASE Done(r)
  BY <1>1, DoneKeepsForest DEF CountEntries, ForestInv, FolderTypeOK
<1>2. CASE Empty(r) /\ GoTo(r, "empty")
  <2>. DEFINE record == [request[r] EXCEPT !.pc = "empty"]
  <2>1. request[r] \in Request /\ RequestHolds(r)
    BY DEF ForestInv, FolderTypeOK
  <2>2. record \in Request
    BY <2>1 DEF Request
  <2>3. request' = [request EXCEPT ![r] = record] /\ request'[r] = record
    BY <1>2, <2>2 DEF GoTo, ForestInv, FolderTypeOK
  <2>5. /\ record.pc = "empty" /\ record.folder = request[r].folder
        /\ record.visited = request[r].visited
        /\ record.basis = request[r].basis
    BY <2>1 DEF Request
  <2>6. /\ request[r].pc = "childless"
        /\ made' = made /\ parent' = parent /\ filed' = filed
    BY DEF CountEntries, At
  <2>. HIDE DEF record
  <2>4. RequestHolds(r)'
    BY <1>2, <2>1, <2>3, <2>5, <2>6
       DEF RequestHolds, At, Fresh, Counting, Childless, Empty
  <2>. QED
    BY <2>2, <2>3, <2>4, RequestStep DEF CountEntries, ForestInv, FolderTypeOK
<1>. QED
  BY <1>1, <1>2 DEF CountEntries, Empty

(* The steps of ReorderFolders. *)
LEMMA ReorderInv ==
    ASSUME FolderAssumption, ForestInv, NEW r \in Requests,
           \/ \E fs \in SUBSET Folders : Reorder(r, fs)
           \/ PickRow(r) \/ UpdateRow(r) \/ CommitOrder(r)
    PROVE  ForestInv'
<1>1. ASSUME NEW fs \in SUBSET Folders, Reorder(r, fs) PROVE ForestInv'
  <2>. DEFINE record == [Idle EXCEPT !.pc = "picking", !.rest = fs]
  <2>1. record \in Request /\ record.pc = "picking" /\ record.visited = {}
    BY DEF Idle, Request
  <2>2. request' = [request EXCEPT ![r] = record]
    BY <1>1 DEF Reorder, Start
  <2>. HIDE DEF record
  <2>. QED
    BY <1>1, <2>1, <2>2, NothingToHold DEF Reorder, ForestInv, FolderTypeOK
<1>2. CASE PickRow(r)
  <2>1. PICK f \in request[r].rest :
               request' = [request EXCEPT ![r] =
                             [request[r] EXCEPT !.pc = "reordering", !.at = f,
                                                !.rest = @ \ {f}]]
    BY <1>2 DEF PickRow
  <2>. DEFINE record == [request[r] EXCEPT !.pc = "reordering", !.at = f,
                                           !.rest = @ \ {f}]
  <2>2. request[r] \in Request /\ request[r].visited \subseteq made
    BY DEF ForestInv, FolderTypeOK, RequestHolds
  <2>3. /\ record \in Request /\ record.pc = "reordering"
        /\ record.visited = request[r].visited /\ record.at \in Folders
    BY <2>2 DEF Request
  <2>4. request' = [request EXCEPT ![r] = record]
    BY <2>1
  <2>. HIDE DEF record
  <2>. QED
    BY <1>2, <2>2, <2>3, <2>4, NothingToHold DEF PickRow, ForestInv, FolderTypeOK
<1>3. CASE UpdateRow(r)
  <2>. DEFINE record == [request[r] EXCEPT !.pc = "picking"]
  <2>1. request[r] \in Request /\ request[r].visited \subseteq made
    BY DEF ForestInv, FolderTypeOK, RequestHolds
  <2>2. /\ record \in Request /\ record.pc = "picking"
        /\ record.visited = request[r].visited
    BY <2>1 DEF Request
  <2>3. request' = [request EXCEPT ![r] = record]
    BY <1>3 DEF UpdateRow, GoTo
  <2>4. locks' \in [Requests -> SUBSET Folders]
    <3>1. request[r].at \in Folders
      BY <1>3 DEF UpdateRow, ForestInv, RequestHolds
    <3>. QED
      BY <1>3, <3>1 DEF UpdateRow, ForestInv, FolderTypeOK
  <2>. HIDE DEF record
  <2>. QED
    BY <1>3, <2>1, <2>2, <2>3, <2>4, NothingToHold DEF UpdateRow
<1>4. CASE CommitOrder(r)
  BY <1>4, DoneKeepsForest DEF CommitOrder, ForestInv, FolderTypeOK
<1>. QED
  BY <1>1, <1>2, <1>3, <1>4

(* What only ends a request. *)
LEMMA EndInv ==
    ASSUME FolderAssumption, ForestInv, NEW r \in Requests,
           MoveRefused(r) \/ MoveLost(r) \/ Fail(r)
    PROVE  ForestInv'
  BY DoneKeepsForest DEF MoveRefused, MoveLost, Fail, ForestInv, FolderTypeOK

(***************************************************************************)
(* Steps that change the folders or the filings.                           *)
(***************************************************************************)

(* Unsettling changes nothing but the basis. *)
LEMMA UnsettledRequests ==
    ASSUME FolderTypeOK, NEW qs
    PROVE  /\ Unsettled(qs) \in [Requests -> Request]
           /\ \A q \in Requests :
                /\ Unsettled(qs)[q].pc = request[q].pc
                /\ Unsettled(qs)[q].folder = request[q].folder
                /\ Unsettled(qs)[q].parent = request[q].parent
                /\ Unsettled(qs)[q].at = request[q].at
                /\ Unsettled(qs)[q].visited = request[q].visited
                /\ q \in qs => Unsettled(qs)[q].basis = "stale"
                /\ q \notin qs => Unsettled(qs)[q] = request[q]
<1>1. ASSUME NEW q \in Requests
      PROVE  LET u == [request[q] EXCEPT !.basis = "stale"] IN
             /\ u \in Request /\ u.pc = request[q].pc
             /\ u.folder = request[q].folder /\ u.parent = request[q].parent
             /\ u.at = request[q].at /\ u.visited = request[q].visited
             /\ u.basis = "stale"
  BY DEF FolderTypeOK, Request
<1>. QED
  BY <1>1 DEF Unsettled, FolderTypeOK

(* A folder that is new is nobody's parent yet. *)
LEMMA CreateInv ==
    ASSUME FolderAssumption, ForestInv, NEW f \in Folders,
           NEW p \in Folders \cup {Root}, Create(f, p)
    PROVE  ForestInv'
<1>1. /\ parent \in [Folders -> Folders \cup {Root, None}]
      /\ filed \in [Entries -> Folders \cup {None}]
      /\ made \subseteq Folders
  BY DEF ForestInv, FolderTypeOK
<1>2. /\ f \notin made /\ parent[f] = None
      /\ \A x \in Folders : parent[x] # f
      /\ \A e \in Entries : filed[e] # f
  BY DEF Create, ForestInv, LiveWereMade, NothingIsOrphaned, Live
<1>3. /\ p \in Folders => (p # f /\ parent[p] # None)
      /\ p # None
  BY <1>2 DEF Create, Live, FolderAssumption
<1>4. /\ parent' = [parent EXCEPT ![f] = p] /\ parent'[f] = p
      /\ \A x \in Folders \ {f} : parent'[x] = parent[x]
      /\ made' = made \cup {f}
      /\ UNCHANGED <<filed, locks, history>>
      /\ request' = Unsettled(Deleters(p))
  BY <1>1 DEF Create
<1>5. FolderTypeOK'
  BY <1>1, <1>4, UnsettledRequests DEF ForestInv, FolderTypeOK
<1>6. NothingIsOrphaned' /\ LiveWereMade'
  BY <1>1, <1>2, <1>3, <1>4 DEF ForestInv, NothingIsOrphaned, LiveWereMade, Live
<1>7. ASSUME NEW q \in Requests PROVE RequestHolds(q)'
  <2>1. /\ RequestHolds(q) /\ request[q].visited \subseteq made
    BY DEF ForestInv, RequestHolds
  <2>2. /\ request'[q].pc = request[q].pc
        /\ request'[q].folder = request[q].folder
        /\ request'[q].parent = request[q].parent
        /\ request'[q].at = request[q].at
        /\ request'[q].visited = request[q].visited
        /\ request'[q].basis # "stale" =>
             request'[q] = request[q] /\ q \notin Deleters(p)
    BY <1>4, UnsettledRequests DEF ForestInv
  <2>3. \A x \in request[q].visited : x \in Folders /\ parent'[x] = parent[x]
    BY <1>1, <1>2, <1>4, <2>1
  <2>4. (Counting(q) /\ Fresh(q))' =>
          /\ Counting(q) /\ Fresh(q) /\ request[q].folder # p
    BY <2>2 DEF Counting, Fresh, At, Deleters
  <2>5. (Counting(q) /\ Fresh(q))' => Childless(q)'
    BY <1>4, <2>1, <2>2, <2>4 DEF RequestHolds, Childless
  <2>6. (At(q, "empty") /\ Fresh(q))' => Empty(q)'
    BY <1>4, <2>1, <2>2 DEF RequestHolds, Empty, At, Fresh
  <2>7. (At(q, "walking") /\ Fresh(q))' => Climbing(q)'
    BY <2>1, <2>2, <2>3 DEF RequestHolds, Climbing, At, Fresh
  <2>8. (At(q, "moving") /\ Fresh(q))' => Passed(q)'
    BY <2>1, <2>2, <2>3 DEF RequestHolds, Passed, At, Fresh
  <2>. QED
    BY <1>4, <2>1, <2>2, <2>5, <2>6, <2>7, <2>8
       DEF RequestHolds, At, Counting
<1>8. CheckedMovesKeepForest'
  <2>1. SUFFICES ASSUME NoCycle, NEW S \in SUBSET Folders, S # {},
                        \A x \in S : parent'[x] \in S
                 PROVE  FALSE
    BY <1>4 DEF ForestInv, CheckedMovesKeepForest, NoCycle
  <2>2. \A x \in S \ {f} : parent[x] \in S \ {f}
    BY <1>2, <1>4, <2>1
  <2>3. S \ {f} # {}
    BY <1>3, <1>4, <2>1
  <2>. QED
    BY <2>1, <2>2, <2>3 DEF NoCycle
<1>. QED
  BY <1>5, <1>6, <1>7, <1>8 DEF ForestInv

LEMMA FileInv ==
    ASSUME FolderAssumption, ForestInv, NEW e \in Entries, NEW f \in Folders,
           File(e, f)
    PROVE  ForestInv'
<1>1. /\ filed \in [Entries -> Folders \cup {None}]
      /\ parent[f] # None
      /\ filed' = [filed EXCEPT ![e] = f]
      /\ UNCHANGED <<parent, made, locks, history>>
      /\ request' = Unsettled(Deleters(f))
  BY DEF File, Live, ForestInv, FolderTypeOK
<1>2. FolderTypeOK'
  BY <1>1, UnsettledRequests DEF ForestInv, FolderTypeOK
<1>3. NothingIsOrphaned' /\ LiveWereMade' /\ CheckedMovesKeepForest'
  BY <1>1 DEF ForestInv, NothingIsOrphaned, LiveWereMade, Live,
              CheckedMovesKeepForest, NoCycle
<1>4. ASSUME NEW q \in Requests PROVE RequestHolds(q)'
  <2>1. RequestHolds(q)
    BY DEF ForestInv
  <2>2. /\ request'[q].pc = request[q].pc
        /\ request'[q].folder = request[q].folder
        /\ request'[q].parent = request[q].parent
        /\ request'[q].at = request[q].at
        /\ request'[q].visited = request[q].visited
        /\ request'[q].basis # "stale" =>
             request'[q] = request[q] /\ q \notin Deleters(f)
    BY <1>1, UnsettledRequests DEF ForestInv
  <2>3. (At(q, "empty") /\ Fresh(q))' => Empty(q)'
    BY <1>1, <2>1, <2>2 DEF RequestHolds, Empty, At, Fresh, Deleters
  <2>4. (Counting(q) /\ Fresh(q))' => Childless(q)'
    BY <1>1, <2>1, <2>2 DEF RequestHolds, Childless, Counting, At, Fresh
  <2>5. (At(q, "walking") /\ Fresh(q))' => Climbing(q)'
    BY <1>1, <2>1, <2>2 DEF RequestHolds, Climbing, At, Fresh
  <2>6. (At(q, "moving") /\ Fresh(q))' => Passed(q)'
    BY <1>1, <2>1, <2>2 DEF RequestHolds, Passed, At, Fresh
  <2>. QED
    BY <1>1, <2>1, <2>2, <2>3, <2>4, <2>5, <2>6 DEF RequestHolds, At, Counting
<1>. QED
  BY <1>2, <1>3, <1>4 DEF ForestInv

(* A move that was written has made every other walk worthless, and is     *)
(* harmless itself if its own was not.                                     *)
LEMMA WriteParentInv ==
    ASSUME FolderAssumption, ForestInv, NEW r \in Requests, WriteParent(r)
    PROVE  ForestInv'
<1>. DEFINE f == request[r].folder
            p == request[r].parent
            qs == Movers \cup Deleters(p)
<1>1. /\ f \in Folders /\ p \in Folders /\ RequestHolds(r)
      /\ request[r].pc = "moving"
      /\ parent \in [Folders -> Folders \cup {Root, None}]
  BY DEF WriteParent, At, ForestInv, FolderTypeOK, RequestHolds
<1>2. /\ parent[f] # None /\ parent[p] # None /\ p # None
      /\ parent' = [parent EXCEPT ![f] = p] /\ parent'[f] = p
      /\ \A x \in Folders \ {f} : parent'[x] = parent[x]
      /\ UNCHANGED <<made, filed, locks>>
      /\ request' = [Unsettled(qs) EXCEPT ![r] = Idle]
      /\ history' = IF request[r].basis = "stale" THEN "unchecked" ELSE history
  BY <1>1 DEF WriteParent, Live, FolderAssumption
<1>3. FolderTypeOK'
  <2>1. request' \in [Requests -> Request]
    BY <1>2, UnsettledRequests, IdleIsRequest DEF ForestInv
  <2>. QED
    BY <1>1, <1>2, <2>1 DEF ForestInv, FolderTypeOK
<1>4. NothingIsOrphaned' /\ LiveWereMade'
  BY <1>1, <1>2 DEF ForestInv, NothingIsOrphaned, LiveWereMade, Live
<1>5. ASSUME NEW q \in Requests PROVE RequestHolds(q)'
  <2>1. CASE q = r
    <3>1. request'[q].pc = "idle" /\ request'[q].visited = {}
      BY <1>2, <2>1, UnsettledRequests, IdleIsRequest DEF ForestInv
    <3>. QED
      BY <3>1 DEF RequestHolds, At, Counting
  <2>2. CASE q # r
    <3>. HIDE DEF qs
    <3>1. /\ RequestHolds(q)
          /\ request'[q].pc = request[q].pc
          /\ request'[q].folder = request[q].folder
          /\ request'[q].parent = request[q].parent
          /\ request'[q].at = request[q].at
          /\ request'[q].visited = request[q].visited
          /\ q \in qs => request'[q].basis = "stale"
          /\ q \notin qs => request'[q] = request[q]
      BY <1>2, <2>2, UnsettledRequests DEF ForestInv
    <3>. USE DEF qs
    <3>2. Fresh(q)' => /\ request[q].pc \notin {"walking", "moving"}
                       /\ Counting(q) => request[q].folder # p
                       /\ Fresh(q)
      BY <3>1 DEF Movers, Deleters, At, Fresh, Counting
    <3>3. (Counting(q) /\ Fresh(q))' => Childless(q)'
      BY <1>2, <3>1, <3>2 DEF RequestHolds, Childless, Counting, At
    <3>4. (At(q, "empty") /\ Fresh(q))' => Empty(q)'
      BY <1>2, <3>1, <3>2 DEF RequestHolds, Empty, At
    <3>. QED
      BY <1>2, <3>1, <3>2, <3>3, <3>4 DEF RequestHolds, At, Counting
  <2>. QED
    BY <2>1, <2>2
<1>6. CheckedMovesKeepForest'
  <2>1. SUFFICES ASSUME history' = "checked" PROVE NoCycle'
    BY DEF CheckedMovesKeepForest
  <2>2. history = "checked" /\ Fresh(r)
    BY <1>1, <1>2, <2>1 DEF ForestInv, FolderTypeOK, Request, Fresh
  <2>3. NoCycle /\ Passed(r)
    BY <1>1, <2>2 DEF ForestInv, CheckedMovesKeepForest, RequestHolds, At
  <2>. QED
    BY <1>2, <2>3, MoveKeepsForest DEF ForestInv
<1>. QED
  BY <1>3, <1>4, <1>5, <1>6 DEF ForestInv

(* A delete leaves a whole forest behind and unsettles nobody. *)
LEMMA RemoveInv ==
    ASSUME FolderAssumption, ForestInv, NEW f \in Folders, Remove(f),
           request' \in [Requests -> Request],
           \A q \in Requests : request'[q] = request[q] \/ request'[q] = Idle
    PROVE  ForestInv'
<1>. DEFINE gone == Subtree(f)
<1>1. /\ gone \subseteq Folders
      /\ \A x \in Folders : parent[x] \in gone => x \in gone
  BY SubtreeClosed
<1>2. /\ parent' = [x \in Folders |-> IF x \in gone THEN None ELSE parent[x]]
      /\ filed' = [e \in Entries |-> IF filed[e] \in gone THEN None ELSE filed[e]]
      /\ UNCHANGED <<made, locks, history>>
  BY DEF Remove
<1>. HIDE DEF gone
<1>3. /\ \A x \in gone : parent'[x] = None
      /\ \A x \in Folders \ gone : parent'[x] = parent[x]
      /\ \A e \in Entries : filed'[e] \in {filed[e], None} /\ filed'[e] \notin gone
  BY <1>1, <1>2 DEF FolderAssumption
<1>4. FolderTypeOK'
  BY <1>2 DEF ForestInv, FolderTypeOK
<1>5. NothingIsOrphaned' /\ LiveWereMade'
  <2>1. /\ \A x \in Folders : parent[x] \in Folders => parent[parent[x]] # None
        /\ \A e \in Entries : filed[e] \in Folders => parent[filed[e]] # None
        /\ \A x \in Folders : parent[x] # None => x \in made
    BY DEF ForestInv, NothingIsOrphaned, LiveWereMade, Live
  <2>. QED
    BY <1>1, <1>2, <1>3, <2>1 DEF NothingIsOrphaned, LiveWereMade, Live,
       FolderAssumption
<1>6. ASSUME NEW q \in Requests PROVE RequestHolds(q)'
  <2>1. CASE request'[q] = Idle
    BY <2>1, IdleIsRequest DEF RequestHolds, At, Counting
  <2>2. CASE request'[q] = request[q]
    <3>1. /\ RequestHolds(q) /\ request[q].visited \subseteq Folders
      BY DEF ForestInv, FolderTypeOK, Request
    <3>2. \A x \in Folders : parent'[x] \in {parent[x], None}
      BY <1>3
    <3>3. (Counting(q) /\ Fresh(q))' => Childless(q)'
      BY <2>2, <3>1, <3>2
         DEF RequestHolds, Childless, Counting, At, Fresh, FolderAssumption
    <3>4. (At(q, "empty") /\ Fresh(q))' => Empty(q)'
      BY <1>3, <2>2, <3>1
         DEF RequestHolds, Empty, Counting, At, Fresh, FolderAssumption
    <3>5. (At(q, "walking") /\ Fresh(q))' => Climbing(q)'
      BY <2>2, <3>1, <3>2 DEF RequestHolds, Climbing, At, Fresh
    <3>6. (At(q, "moving") /\ Fresh(q))' => Passed(q)'
      BY <2>2, <3>1, <3>2 DEF RequestHolds, Passed, At, Fresh
    <3>. QED
      BY <1>2, <2>2, <3>1, <3>3, <3>4, <3>5, <3>6
         DEF RequestHolds, At, Counting
  <2>. QED
    BY <2>1, <2>2
<1>7. CheckedMovesKeepForest'
  <2>1. SUFFICES ASSUME NoCycle, NEW S \in SUBSET Folders, S # {},
                        \A x \in S : parent'[x] \in S
                 PROVE  FALSE
    BY <1>2 DEF ForestInv, CheckedMovesKeepForest, NoCycle
  <2>2. \A x \in S : parent[x] = parent'[x]
    BY <1>3, <2>1 DEF FolderAssumption
  <2>. QED
    BY <2>1, <2>2 DEF NoCycle
<1>. QED
  BY <1>4, <1>5, <1>6, <1>7 DEF ForestInv

(***************************************************************************)
(* The theorems.                                                           *)
(***************************************************************************)

LEMMA ForestInit == ASSUME FolderAssumption, FolderInit PROVE ForestInv
<1>1. FolderTypeOK
  BY IdleIsRequest DEF FolderInit, FolderTypeOK
<1>2. \A r \in Requests : RequestHolds(r)
  BY IdleIsRequest DEF FolderInit, RequestHolds, At, Counting
<1>3. NothingIsOrphaned /\ LiveWereMade /\ CheckedMovesKeepForest
  BY DEF FolderInit, FolderAssumption, NothingIsOrphaned, LiveWereMade, Live,
         CheckedMovesKeepForest, NoCycle
<1>. QED
  BY <1>1, <1>2, <1>3 DEF ForestInv

LEMMA ForestStep ==
    ASSUME FolderAssumption, ForestInv, [FolderNext]_vars
    PROVE  ForestInv'
<1>1. ASSUME NEW f \in Folders, NEW p \in Folders \cup {Root}, Create(f, p)
      PROVE  ForestInv'
  BY <1>1, CreateInv
<1>2. ASSUME NEW f \in Folders, NEW e \in Entries, File(e, f)
      PROVE  ForestInv'
  BY <1>2, FileInv
<1>3. ASSUME NEW f \in Folders, DeleteTree(f) PROVE ForestInv'
  BY <1>3, RemoveInv DEF DeleteTree, ForestInv, FolderTypeOK
<1>4. ASSUME NEW r \in Requests, DeleteCounted(r) PROVE ForestInv'
  <2>1. request[r].folder \in Folders
    BY <1>4 DEF DeleteCounted, ForestInv, RequestHolds, Counting
  <2>2. request' = [request EXCEPT ![r] = Idle] /\ request \in [Requests -> Request]
    BY <1>4 DEF DeleteCounted, Done, ForestInv, FolderTypeOK
  <2>3. /\ request' \in [Requests -> Request]
        /\ \A q \in Requests : request'[q] = request[q] \/ request'[q] = Idle
    BY <2>2, IdleIsRequest
  <2>. QED
    BY <1>4, <2>1, <2>3, RemoveInv DEF DeleteCounted
<1>5. ASSUME NEW r \in Requests, Arrive(r) PROVE ForestInv'
  BY <1>5, MoveInv, CountChildrenInv, ReorderInv DEF Arrive
<1>6. ASSUME NEW r \in Requests, Proceed(r) PROVE ForestInv'
  BY <1>4, <1>6, WalkUpInv, WalkEndsInv, WalkFailsInv, EndInv, WriteParentInv,
     CountEntriesInv, ReorderInv DEF Proceed
<1>7. ASSUME NEW r \in Requests, Fail(r) PROVE ForestInv'
  BY <1>7, EndInv
<1>8. CASE UNCHANGED vars
  BY <1>8 DEF vars, ForestInv, FolderTypeOK, NothingIsOrphaned, LiveWereMade,
     Live, RequestHolds, At, Fresh, Counting, Climbing, Passed, Childless, Empty,
     CheckedMovesKeepForest, NoCycle
<1>. QED
  BY <1>1, <1>2, <1>3, <1>5, <1>6, <1>7, <1>8 DEF FolderNext

THEOREM ForestInvariant == FolderSpec => []ForestInv
  BY FolderAssumption, ForestInit, ForestStep, PTL DEF FolderSpec

(* The handlers keep the folders, the filings and the requests well typed. *)
THEOREM FolderTypesCorrect == FolderSpec => []FolderTypeOK
<1>1. ForestInv => FolderTypeOK
  BY DEF ForestInv
<1>. QED
  BY <1>1, ForestInvariant, PTL

(* wouldCreateCycle keeps the folders a forest, however many there are and *)
(* whatever is created and deleted around the walk, as long as no other    *)
(* move is written since it began and none of its queries fails.           *)
THEOREM MovesKeepForest == FolderSpec => []CheckedMovesKeepForest
<1>1. ForestInv => CheckedMovesKeepForest
  BY DEF ForestInv
<1>. QED
  BY <1>1, ForestInvariant, PTL

(* No check of UpdateFolder or DeleteFolder that something overtakes       *)
(* leaves a folder without its parent or an entry in a folder that is gone.*)
THEOREM NothingOrphaned == FolderSpec => []NothingIsOrphaned
<1>1. ForestInv => NothingIsOrphaned
  BY DEF ForestInv
<1>. QED
  BY <1>1, ForestInvariant, PTL

(* The two counts of DeleteFolder are enough, unless something is filed or *)
(* created in the folder, or moved there, after them.                      *)
THEOREM DeletesTakeNothingAlong == FolderSpec => DeleteTakesNothingAlong
<1>1. ASSUME FolderAssumption, ForestInv, [FolderNext]_vars, NEW r \in Requests,
             At(r, "empty"), request[r].basis = "fresh", parent' # parent,
             request'[r].pc = "idle"
      PROVE  /\ \A x \in Folders \ {request[r].folder} : parent'[x] = parent[x]
             /\ filed' = filed
  <2>1. DeleteCounted(r)
    <3>1. ASSUME NEW f \in Folders, NEW p \in Folders \cup {Root}, Create(f, p)
          PROVE  FALSE
      BY <1>1, <3>1, UnsettledRequests DEF Create, At, ForestInv
    <3>2. ASSUME NEW f \in Folders, DeleteTree(f) PROVE FALSE
      BY <1>1, <3>2 DEF DeleteTree, At
    <3>3. ASSUME NEW q \in Requests, WriteParent(q) PROVE FALSE
      <4>1. q # r
        BY <1>1, <3>3 DEF WriteParent, At
      <4>2. request'[r] =
              Unsettled(Movers \cup Deleters(request[q].parent))[r]
        BY <3>3, <4>1, UnsettledRequests DEF WriteParent, ForestInv
      <4>. QED
        BY <1>1, <4>2, UnsettledRequests DEF At, ForestInv
    <3>4. ASSUME NEW q \in Requests, DeleteCounted(q) PROVE q = r
      BY <1>1, <3>4 DEF DeleteCounted, Done, At, ForestInv, FolderTypeOK
    <3>5. ASSUME NEW q \in Requests, Arrive(q) \/ Fail(q) PROVE FALSE
      BY <1>1, <3>5 DEF Arrive, Fail, Move, CountChildren, Reorder
    <3>6. ASSUME NEW q \in Requests, Proceed(q) PROVE DeleteCounted(r)
      BY <1>1, <3>3, <3>4, <3>6
         DEF Proceed, WalkUp, WalkEnds, WalkFails, MoveRefused, MoveLost,
             CountEntries, PickRow, UpdateRow, CommitOrder
    <3>7. ~ UNCHANGED vars
      BY <1>1 DEF vars
    <3>8. ASSUME NEW f \in Folders, NEW e \in Entries, File(e, f) PROVE FALSE
      BY <1>1, <3>8 DEF File
    <3>. QED
      BY <1>1, <3>1, <3>2, <3>5, <3>6, <3>7, <3>8 DEF FolderNext
  <2>2. request[r].folder \in Folders /\ Childless(r) /\ Empty(r)
    BY <1>1 DEF ForestInv, RequestHolds, Counting, Fresh
  <2>3. Subtree(request[r].folder) = {request[r].folder}
    BY <2>2, LeafSubtree DEF Childless
  <2>4. /\ parent' = [x \in Folders |-> IF x \in {request[r].folder} THEN None
                                       ELSE parent[x]]
        /\ filed' = [e \in Entries |-> IF filed[e] \in {request[r].folder}
                                      THEN None ELSE filed[e]]
    BY <2>1, <2>3 DEF DeleteCounted, Remove
  <2>5. filed' = filed
    BY <1>1, <2>2, <2>4 DEF Empty, ForestInv, FolderTypeOK
  <2>. QED
    BY <2>4, <2>5
<1>2. ASSUME FolderAssumption, ForestInv, [FolderNext]_vars
      PROVE  [\A r \in Requests :
               (At(r, "empty") /\ request[r].basis = "fresh" /\ parent' # parent
                   /\ request'[r].pc = "idle") =>
                   /\ \A x \in Folders \ {request[r].folder} :
                        parent'[x] = parent[x]
                   /\ filed' = filed]_vars
  BY <1>1, <1>2
<1>. QED
  BY <1>2, FolderAssumption, ForestInvariant, PTL
     DEF FolderSpec, DeleteTakesNothingAlong
=============================================================================
