--------------------------- MODULE MCBlobAdapters ---------------------------
(* An instance of BlobAdapters for TLC. *)
EXTENDS BlobAdapters, TLC

CONSTANTS p1, p2, p3, o1, d1, d2

CallSymmetry == Permutations(Puts) \cup Permutations(Deletes)
=============================================================================
