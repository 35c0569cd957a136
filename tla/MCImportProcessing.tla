------------------------- MODULE MCImportProcessing -------------------------
(***************************************************************************)
(* Small instances of ImportProcessing for TLC.                            *)
(***************************************************************************)
EXTENDS ImportProcessing, TLC

CONSTANTS j1, v1, v2

TwoAttempts == j1 :> 2

(* A run with results, a run without any. *)
SomeResults == <<1, 0>>
=============================================================================
