---------------------------- MODULE MCCatalogue ----------------------------
(* Instances of Catalogue for TLC: entries and requests are                *)
(* interchangeable, and so are the tags users make.  What is stated of      *)
(* passwords and of searching is evaluated with it.                        *)
EXTENDS Catalogue, MCPasswords, MCSearch

CatalogueSymmetry ==
    Permutations(Entries) \cup Permutations(Tags \ SystemTags)
        \cup Permutations(Requests) \cup Permutations(Inserts)

(* Tags, secrets and attachments share nothing but the entry they belong   *)
(* to: one of the three is explored at a time.                             *)
OneAspect ==
    LET used == {a \in {"tags", "secrets", "files"} :
                   CASE a = "tags" ->
                          \/ \E t \in Tags : tag[t] # "none"
                          \/ \E r \in Requests : request[r].sets # {}
                     [] a = "secrets" -> \E s \in Secrets : secret[s] # NoSecret
                     [] a = "files" ->
                          \/ \E e \in Entries : \/ attached[e] > 0
                                                \/ <<"files", e>> \in overlaps
                          \/ \E r \in Requests : At(r, "uploading")}
    IN Cardinality(used) <= 1
============================================================================
