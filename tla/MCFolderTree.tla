---------------------------- MODULE MCFolderTree ----------------------------
(* Instances of FolderTree for TLC: folders and requests are               *)
(* interchangeable.                                                        *)
EXTENDS FolderTree, TLC

FolderSymmetry == Permutations(Folders) \cup Permutations(Requests)
=============================================================================
