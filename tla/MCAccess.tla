------------------------------ MODULE MCAccess ------------------------------
(* Instances of Access for TLC. *)
EXTENDS Access

(* Sign-ins are not limited here, so that one counter is in play. *)
OneBucket == [auth |-> 0, api |-> 1]
=============================================================================
