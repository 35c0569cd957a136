------------------------------ MODULE MCAccess ------------------------------
(* An instance of Access for TLC. *)
EXTENDS Access

CONSTANTS o1, o2, o3, q1
=============================================================================
