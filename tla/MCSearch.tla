------------------------------ MODULE MCSearch ------------------------------
(* What is stated of Search, over bounded tables.                          *)
EXTENDS Search

(* Four entries: 1 and 2 the same in everything they are ordered by.       *)
Row(id, favorite, position, name, tags, usage) ==
    [id |-> id, folder |-> "f", type |-> "login", favorite |-> favorite,
     position |-> position, name |-> name, tags |-> tags, queries |-> {"q"},
     usage |-> usage, used |-> usage]

Table == {Row(1, FALSE, 0, 1, {"t"}, 0), Row(2, FALSE, 0, 1, {"u"}, 2),
          Row(3, TRUE, 1, 2, {"t", "u"}, 1), Row(4, FALSE, 1, 3, {}, 2)}
Untied(entries) ==
    \A d, e \in entries : d # e => Before(d, e) \/ Before(e, d)

Asked(limit, offset, tags) ==
    [folder |-> NoFilter, type |-> NoFilter, query |-> "q", tags |-> tags,
     favorite |-> FALSE, limit |-> limit, offset |-> offset]

Returned(answer) == Range(answer.entries)

(* The pages of one listing, each asked for by itself.                     *)
Pages(entries, limit) ==
    [offset \in {limit * i : i \in 0 .. 3} |->
        ListEntries(entries, Asked(limit, offset, {}))]

(* Without ties in the order, pages share nothing and miss nothing, and    *)
(* exactly the last one with entries says that there are no more.          *)
ASSUME PagesPartition ==
    \A entries \in {s \in SUBSET Table : Untied(s)}, limit \in {1, 2, 3} :
        LET pages == Pages(entries, limit) IN
        /\ \A choice \in {f \in [DOMAIN pages -> UNION {pages[o] : o \in DOMAIN pages}] :
                            \A o \in DOMAIN pages : f[o] \in pages[o]} :
             /\ UNION {Returned(choice[o]) : o \in DOMAIN pages} = entries
             /\ \A o, q \in DOMAIN pages :
                  o # q => Returned(choice[o]) \cap Returned(choice[q]) = {}
        /\ \A o \in DOMAIN pages : \A answer \in pages[o] :
             answer.more <=> \E q \in DOMAIN pages :
                q > o /\ \E later \in pages[q] : later.entries # <<>>

(* With a tie, two pages can show the same entry and hide another one.     *)
ASSUME TiedPagesMayMiss ==
    \E first \in Pages(Table, 2)[0], second \in Pages(Table, 2)[2] :
        Returned(first) \cup Returned(second) # Table

(* Any one of the tags is enough, so more tags find more.                  *)
ASSUME TagsWiden ==
    \A few, many \in SUBSET {"t", "u"} :
        few # {} /\ few \subseteq many =>
            Matching(Table, Asked(0, 0, few)) \subseteq Matching(Table, Asked(0, 0, many))

(* The handler filters by nothing, so include_all makes no difference.     *)
ASSUME IncludeAllIsMoot ==
    \A tags \in {{}, {[queries |-> {"q"}, usage |-> 1, name |-> 1]}} :
        SearchCall(Table, {}, tags, "q", TRUE, 2, 0) =
            SearchCall(Table, {}, tags, "q", FALSE, 2, 0)

(* The total counts every entry found, whatever the page, and the folders  *)
(* and tags returned.                                                      *)
ASSUME TotalsCountWhatIsFound ==
    LET tags == {[queries |-> {"q"}, usage |-> i, name |-> i] : i \in 1 .. 3}
    IN \A answer \in SearchCall(Table, {}, tags, "q", FALSE, 2, 0) :
         /\ answer.total = Cardinality(Table) + 3
         /\ Len(answer.entries) = 2

(* What was never used is neither recent nor frequent.                     *)
ASSUME UnusedStaysOut ==
    /\ \A s \in RecentEntries(Table, 3) \cup FrequentEntries(Table, 3) :
         \A e \in Range(s) : e.usage > 0
    /\ \A s \in FrequentEntries(Table, 1) : s[1].usage = 2

(* The limit of the handlers is no cap: who asks for 51 gets 10, and fewer *)
(* than who asks for 11.                                                   *)
ASSUME LargeLimitsShrink ==
    \A few \in 11 .. 50, many \in 51 .. 60 : AskedLimit(many) < AskedLimit(few)
=============================================================================
