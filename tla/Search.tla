------------------------------- MODULE Search -------------------------------
(***************************************************************************)
(* Finding entries: EntryService.ListEntries (internal/vault/entries.go)   *)
(* and SearchService (internal/vault/search.go), as operators on the       *)
(* tables of one user.  What a text matches is given with it: the queries  *)
(* an ILIKE finds it for.  An ORDER BY leaves the order of equal rows      *)
(* open, and may settle it differently every time.                         *)
(*                                                                         *)
(* An entry is a record of folder, type, favorite, position, name, the    *)
(* tags and queries it is found by, and how often and when it was used,    *)
(* never being 0.                                                          *)
(***************************************************************************)
EXTENDS Integers, Sequences, SequencesExt, FiniteSetsExt

NoFilter == "any"

(* SearchRequest: tags are a set, a limit of 0 the default one. *)
SearchRequest(folders, types, queries, tags, limits, offsets) ==
    [folder : folders \cup {NoFilter}, type : types \cup {NoFilter},
     query : queries \cup {NoFilter}, tags : SUBSET tags, favorite : BOOLEAN,
     limit : limits, offset : offsets]

(* The WHERE clause of ListEntries: one of the tags suffices. *)
Matching(entries, req) ==
    {e \in entries :
        /\ req.folder \in {NoFilter, e.folder}
        /\ req.type \in {NoFilter, e.type}
        /\ req.favorite => e.favorite
        /\ req.query = NoFilter \/ req.query \in e.queries
        /\ req.tags # {} => e.tags \cap req.tags # {}}

(* ORDER BY is_favorite DESC, position, name *)
Before(d, e) ==
    IF d.favorite # e.favorite THEN d.favorite
    ELSE IF d.position # e.position THEN d.position < e.position
    ELSE d.name < e.name

(* What an ORDER BY may return, and a page of it. *)
Orders(rows, Precedes(_, _)) ==
    {s \in SetToSeqs(rows) :
        \A i, j \in 1 .. Len(s) : Precedes(s[i], s[j]) => i < j}

Page(s, limit, offset) == SubSeq(s, offset + 1, Min({offset + limit, Len(s)}))

LimitOr(n, default) == IF n <= 0 THEN default ELSE n

(* ListEntries: its answers, one for each order of the rows. *)
ListEntries(entries, req) ==
    LET found == Matching(entries, req)
        limit == LimitOr(req.limit, 50)
    IN {[entries |-> Page(s, limit, req.offset),
         total   |-> Cardinality(found),
         more    |-> req.offset + limit < Cardinality(found)] :
        s \in Orders(found, Before)}

(* searchFolders: the first ten by name. *)
FoundFolders(folders, query) ==
    {Page(s, 10, 0) :
        s \in Orders({f \in folders : query \in f.queries},
                     LAMBDA f, g : f.name < g.name)}

(* searchTags: the ten most used. *)
FoundTags(tags, query) ==
    {Page(s, 10, 0) :
        s \in Orders({t \in tags : query \in t.queries},
                     LAMBDA t, u : t.usage > u.usage \/ (t.usage = u.usage /\ t.name < u.name))}

(* Folders and tags are looked at when nothing narrows the search down. *)
Unnarrowed(req) == req.folder = NoFilter /\ req.tags = {} /\ req.type = NoFilter

UnifiedSearch(entries, folders, tags, all, req) ==
    LET Answer(found, fs, ts) ==
            [entries |-> found.entries, folders |-> fs, tags |-> ts,
             total   |-> found.total + Len(fs) + Len(ts)]
        wide == all \/ Unnarrowed(req)
    IN {Answer(found, fs, ts) :
            found \in ListEntries(entries, [req EXCEPT !.limit = LimitOr(req.limit, 20),
                                                       !.favorite = FALSE]),
            fs \in IF wide THEN FoundFolders(folders, req.query) ELSE {<<>>},
            ts \in IF wide THEN FoundTags(tags, req.query) ELSE {<<>>}}

(* The handler of a search passes on no filter, and no empty query.        *)
SearchCall(entries, folders, tags, query, all, limit, offset) ==
    IF query = "" THEN {}
    ELSE UnifiedSearch(entries, folders, tags, all,
                       [folder |-> NoFilter, type |-> NoFilter, query |-> query,
                        tags |-> {}, favorite |-> FALSE, limit |-> limit,
                        offset |-> offset])

(* The handlers of the two below: a limit that is too large, like one that *)
(* is missing, means 10.                                                   *)
AskedLimit(n) == IF n \in 1 .. 50 THEN n ELSE 10

(* GetRecentEntries and GetFrequentEntries leave out what was never used.  *)
RecentEntries(entries, limit) ==
    {Page(s, LimitOr(limit, 10), 0) :
        s \in Orders({e \in entries : e.used > 0}, LAMBDA d, e : d.used > e.used)}

RecentCall(entries, n) == RecentEntries(entries, AskedLimit(n))

FrequentEntries(entries, limit) ==
    {Page(s, LimitOr(limit, 10), 0) :
        s \in Orders({e \in entries : e.usage > 0}, LAMBDA d, e : d.usage > e.usage)}

FrequentCall(entries, n) == FrequentEntries(entries, AskedLimit(n))
=============================================================================
