----------------------------- MODULE BlobStore -----------------------------
(***************************************************************************)
(* What a blob store promises for one key, whatever the backend: versions  *)
(* that are written once.  A version is staged, becomes the committed      *)
(* object of the key if there is none, and is removed; it never comes back *)
(* and is never replaced by another version (blobstore.Store, with the     *)
(* conformance suite of blobstoretest).                                    *)
(***************************************************************************)
CONSTANT Versions       \* each Put draws a version of its own

VARIABLE object         \* the state of each version

StoreInit == object = [v \in Versions |-> "staged"]

Commit(v) ==
    /\ object[v] = "staged"
    /\ \A w \in Versions : object[w] # "committed"
    /\ object' = [object EXCEPT ![v] = "committed"]

Remove(v) ==
    /\ object[v] = "committed"
    /\ object' = [object EXCEPT ![v] = "removed"]

StoreNext == \E v \in Versions : Commit(v) \/ Remove(v)

StoreSpec == StoreInit /\ [][StoreNext]_object
=============================================================================
