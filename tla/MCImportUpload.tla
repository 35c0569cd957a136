---------------------------- MODULE MCImportUpload ----------------------------
(* Instances of ImportUpload for TLC. *)
EXTENDS ImportUpload, TLC

CONSTANTS i1, i2, u1, u2, u3, d1, d2, d3, d4, r1, r2, r3, r4, k1, k2

\* r1 and r2 are what the reservation expects; r3 has another digest, and r4 is
\* over the limit.
Sizes == [c \in Contents |-> IF c = r4 THEN 3 ELSE IF c = r2 THEN 2 ELSE 1]
Undeclared(c) == [content |-> c, declared |-> NoSize]
OneBody == [u \in Uploads |-> {Undeclared(r1)}]

\* Two uploads of one body, and a third of another one, which may be wrong.
MixedBodies ==
    [u \in Uploads |-> IF u = u3
                       THEN {Undeclared(c) : c \in {r2, r3, r4}} \cup {[content |-> r4, declared |-> 3]}
                       ELSE {Undeclared(r1)}]
SameImport == [u \in Uploads |-> i1]
EachImport == [u \in Uploads |-> IF u = u1 THEN i1 ELSE i2]
AnySize == [i \in Imports |-> NoSize]
SizeOne == [i \in Imports |-> 1]
FirstTwo == [i \in Imports |-> {r1, r2}]
ExpiresAtTwo == [i \in Imports |-> 2]

\* Completions: two of the first import under one key, one of it under another,
\* and one of the second import that reuses the first key.
FirstImport == [c \in Completes |-> i1]
CompletedImports == [c \in Completes |-> IF c = d4 THEN i2 ELSE i1]
CompletionKeys == [c \in Completes |-> IF c = d3 THEN k2 ELSE k1]
SameKey == [c \in Completes |-> k1]

\* The uploads of the first body are interchangeable.
UploadSymmetry == Permutations({u1, u2})
=============================================================================
