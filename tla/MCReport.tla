------------------------------ MODULE MCReport ------------------------------
(***************************************************************************)
(* An instance of Report for TLC: an index of "pg_catalog", schema 1, that *)
(* both databases have, and two of "public", schema 2.                     *)
(***************************************************************************)
EXTENDS Report, TLC

Indexes == 1..3
Schemas == <<1, 2, 2>>

CONSTANTS d1, d2
Home == (2 :> d1) @@ (3 :> d1)

=============================================================================
