------------------------ MODULE MCImportReservation ------------------------
(* An instance of ImportReservation for TLC. *)
EXTENDS ImportReservation, TLC

CONSTANTS k1, k2, c1, c2, l1, r1, r2

(* Two clients with one key, or with a key each. *)
SomeCreateKeys == c1 :> {k1} @@ c2 :> {k1, k2}
=============================================================================
