---------------------------- MODULE BlobAdapters ----------------------------
(***************************************************************************)
(* The two adapters of internal/blobstore, filesystem and s3store: Put,    *)
(* Open, Stat and Delete of one key (keys share no file or object), called *)
(* concurrently by any number of processes.                                *)
(*                                                                         *)
(* Both keep the bytes of each version under a name of its own and publish *)
(* them with a manifest that is created only where there is none: a hard   *)
(* link, or PutObject with If-None-Match.  A step is one operation of the  *)
(* backend.  They differ in where unverified bytes wait (a staging file,   *)
(* or the data object itself), and in that a call to S3 may take effect    *)
(* although its caller sees an error: the answer is lost, or the SDK's     *)
(* retry of it is refused because the first try succeeded.                 *)
(*                                                                         *)
(* A body is abstracted to what the bounded, verified stream makes of it;  *)
(* module ReportStream has the stream itself.                              *)
(***************************************************************************)
EXTENDS Naturals

CONSTANTS
    Backends,       \* a subset of {"filesystem", "s3"}
    Puts,           \* calls of Put; a call is also the random version it draws
    Opens,          \* calls of Open, each read to EOF
    Deletes,        \* calls of Delete
    Bodies,         \* what is sent: "fits", "too_large" or "mismatch"
    MaxFaults,      \* bound on failing and ambiguous calls, crashes and bit rot
    NoVersion

ASSUME AdapterConstants ==
    /\ Backends \subseteq {"filesystem", "s3"}
    /\ Bodies \subseteq {"fits", "too_large", "mismatch"}
    /\ MaxFaults \in Nat /\ NoVersion \notin Puts

VARIABLES
    backend,
    manifest,       \* the version the key's manifest names
    data,           \* versions whose bytes are stored
    staging,        \* versions with a staging file
    damaged,        \* versions whose stored bytes have changed
    published,      \* versions whose manifest was ever written
    puts,           \* pc, body and result ("none" while running) of each Put
    opens,          \* pc, version read from the manifest, and bytes or error
    deletes,        \* pc, expected version and result
    faults

store == <<manifest, data, staging, damaged, published>>
calls == <<puts, opens, deletes>>
adapters == <<backend, store, calls, faults>>

AdaptersInit ==
    /\ backend \in Backends
    /\ manifest = NoVersion
    /\ data = {} /\ staging = {} /\ damaged = {} /\ published = {}
    /\ puts \in [Puts -> {[pc |-> "check", body |-> b, result |-> "none"] : b \in Bodies}]
    /\ opens = [o \in Opens |-> [pc |-> "manifest", version |-> NoVersion, result |-> "none"]]
    /\ deletes = [d \in Deletes |-> [pc |-> "new", version |-> NoVersion, result |-> "none"]]
    /\ faults = 0

Fault == faults < MaxFaults /\ faults' = faults + 1
S3 == backend = "s3"

PutAt(p, pc) == puts' = [puts EXCEPT ![p].pc = pc]
PutEnds(p, pc, result) == puts' = [puts EXCEPT ![p].pc = pc, ![p].result = result]
OpenEnds(o, result) == opens' = [opens EXCEPT ![o].pc = "done", ![o].result = result]
DeleteEnds(d, result) == deletes' = [deletes EXCEPT ![d].pc = "done", ![d].result = result]
DeleteStops(d, result) == deletes' = [deletes EXCEPT ![d].pc = "stopped", ![d].result = result]

-----------------------------------------------------------------------------
(* Put                                                                     *)

\* readManifest: the key must be free; that is only a hint, commitManifest decides.
PutCheck(p) ==
    /\ puts[p].pc = "check"
    /\ \/ manifest # NoVersion /\ PutEnds(p, "done", "exists") /\ UNCHANGED faults
       \/ manifest = NoVersion /\ PutAt(p, "stream") /\ UNCHANGED faults
       \/ PutEnds(p, "done", "error") /\ Fault
    /\ UNCHANGED <<backend, store, opens, deletes>>

\* io.Copy into the staging file, or UploadObject of the data object, through the
\* BoundedReader.  An interrupted upload may have stored the object.
PutStream(p) ==
    /\ puts[p].pc = "stream"
    /\ \/ /\ puts[p].body = "too_large"
          /\ PutEnds(p, "done", "too_large")
          /\ UNCHANGED <<data, staging, faults>>
       \/ /\ puts[p].body # "too_large"
          /\ IF S3 THEN data' = data \cup {p} /\ UNCHANGED staging
                   ELSE staging' = staging \cup {p} /\ UNCHANGED data
          /\ PutAt(p, "verify") /\ UNCHANGED faults
       \/ /\ data' = IF S3 /\ puts[p].body # "too_large" THEN data \cup {p} ELSE data
          /\ PutEnds(p, "done", "error") /\ Fault
          /\ UNCHANGED staging
       \/ PutEnds(p, "done", "error") /\ Fault /\ UNCHANGED <<data, staging>>
    /\ UNCHANGED <<backend, manifest, damaged, published, opens, deletes>>

\* Mutant: the client's digest is not compared.
PutVerifyBounds(p) ==
    /\ puts[p].pc = "verify"
    /\ data' = data \cup {p}
    /\ staging' = staging \ {p}
    /\ PutAt(p, "publish")
    /\ UNCHANGED <<backend, manifest, damaged, published, opens, deletes, faults>>

\* VerifyExpected; the filesystem then syncs the staging file and renames it.
PutVerify(p) ==
    /\ puts[p].pc = "verify"
    /\ staging' = staging \ {p}
    /\ \/ /\ puts[p].body = "mismatch"
          /\ PutEnds(p, IF S3 THEN "cleanup" ELSE "done", "integrity")
          /\ UNCHANGED <<data, faults>>
       \/ /\ puts[p].body # "mismatch"
          /\ data' = data \cup {p}
          /\ PutAt(p, "publish") /\ UNCHANGED faults
       \/ ~S3 /\ PutEnds(p, "done", "error") /\ Fault /\ UNCHANGED data
    /\ UNCHANGED <<backend, manifest, damaged, published, opens, deletes>>

\* Mutant: the manifest replaces one that is there.
PutPublishOver(p) ==
    /\ puts[p].pc = "publish"
    /\ manifest' = p /\ published' = published \cup {p}
    /\ PutEnds(p, "done", "ok")
    /\ UNCHANGED <<backend, data, staging, damaged, opens, deletes, faults>>

\* commitManifest: created unless one exists.  The process may die right after,
\* and a call to S3 may do it and fail.
PutPublish(p) ==
    /\ puts[p].pc = "publish"
    /\ \/ /\ manifest = NoVersion
          /\ manifest' = p /\ published' = published \cup {p}
          /\ \/ PutEnds(p, "done", "ok") /\ UNCHANGED faults
             \/ PutEnds(p, "done", "error") /\ Fault
             \/ S3 /\ Fault /\ \E e \in {"error", "exists"} : PutEnds(p, "cleanup", e)
       \/ /\ manifest # NoVersion
          /\ PutEnds(p, "cleanup", "exists")
          /\ UNCHANGED <<manifest, published, faults>>
       \/ /\ PutEnds(p, "cleanup", "error") /\ Fault
          /\ UNCHANGED <<manifest, published>>
    /\ UNCHANGED <<backend, data, staging, damaged, opens, deletes>>

\* Mutant: the bytes are cleaned up under the name of the committed version.
PutCleanupNamed(p) ==
    /\ puts[p].pc = "cleanup"
    /\ data' = data \ {IF manifest = NoVersion THEN p ELSE manifest}
    /\ PutAt(p, "done")
    /\ UNCHANGED <<backend, manifest, staging, damaged, published, opens, deletes, faults>>

\* cleanupData, or the deferred removal of the data file; its error is dropped.
PutCleanup(p) ==
    /\ puts[p].pc = "cleanup"
    /\ \/ data' = data \ {p} /\ UNCHANGED faults
       \/ UNCHANGED data /\ Fault
    /\ PutAt(p, "done")
    /\ UNCHANGED <<backend, manifest, staging, damaged, published, opens, deletes>>

\* The process dies and leaves what it has written.
PutCrash(p) ==
    /\ puts[p].pc \in {"verify", "publish", "cleanup"}
    /\ PutEnds(p, "done", "error") /\ Fault
    /\ UNCHANGED <<backend, store, opens, deletes>>

-----------------------------------------------------------------------------
(* Open and Stat                                                           *)

\* readManifest, which is all that Stat does.
OpenManifest(o) ==
    /\ opens[o].pc = "manifest"
    /\ \/ manifest = NoVersion /\ OpenEnds(o, "not_found") /\ UNCHANGED faults
       \/ /\ manifest # NoVersion
          /\ opens' = [opens EXCEPT ![o].pc = "data", ![o].version = manifest]
          /\ UNCHANGED faults
       \/ OpenEnds(o, "error") /\ Fault
    /\ UNCHANGED <<backend, store, puts, deletes>>

\* The bytes stored for v.
Content(v) == IF v \in damaged THEN "damaged" ELSE puts[v].body

\* The data is opened and read to EOF through the verifiedReader.
OpenData(o) ==
    LET v == opens[o].version IN
    /\ opens[o].pc = "data"
    /\ \/ v \in data \ damaged /\ OpenEnds(o, Content(v)) /\ UNCHANGED faults
       \/ v \notin data \ damaged /\ OpenEnds(o, "integrity") /\ UNCHANGED faults
       \/ OpenEnds(o, "error") /\ Fault
    /\ UNCHANGED <<backend, store, puts, deletes>>

-----------------------------------------------------------------------------
(* Delete                                                                  *)

\* A client deletes a version it has learnt from Put or Stat.
DeleteCall(d) ==
    /\ deletes[d].pc = "new"
    /\ \E v \in published :
          deletes' = [deletes EXCEPT ![d].pc = "check", ![d].version = v]
    /\ UNCHANGED <<backend, store, puts, opens, faults>>

\* readManifest; a missing object is a success, another version an error.  A Delete
\* that ends here has changed nothing.
DeleteCheck(d) ==
    /\ deletes[d].pc = "check"
    /\ \/ manifest = NoVersion /\ DeleteStops(d, "ok") /\ UNCHANGED faults
       \/ /\ manifest \notin {NoVersion, deletes[d].version}
          /\ DeleteStops(d, "version") /\ UNCHANGED faults
       \/ /\ manifest = deletes[d].version
          /\ deletes' = [deletes EXCEPT ![d].pc = "data"] /\ UNCHANGED faults
       \/ DeleteStops(d, "error") /\ Fault
    /\ UNCHANGED <<backend, store, puts, opens>>

\* The bytes go first, under the name of the expected version.
DeleteData(d) ==
    /\ deletes[d].pc = "data"
    /\ \/ /\ data' = data \ {deletes[d].version}
          /\ \/ deletes' = [deletes EXCEPT ![d].pc = "manifest"] /\ UNCHANGED faults
             \/ S3 /\ DeleteEnds(d, "error") /\ Fault
       \/ UNCHANGED data /\ DeleteEnds(d, "error") /\ Fault
    /\ UNCHANGED <<backend, manifest, staging, damaged, published, puts, opens>>

\* The manifest goes by its name, whichever version it has by now.
DeleteManifest(d) ==
    /\ deletes[d].pc = "manifest"
    /\ \/ /\ manifest' = NoVersion
          /\ \/ DeleteEnds(d, "ok") /\ UNCHANGED faults
             \/ S3 /\ DeleteEnds(d, "error") /\ Fault
       \/ UNCHANGED manifest /\ DeleteEnds(d, "error") /\ Fault
    /\ UNCHANGED <<backend, data, staging, damaged, published, puts, opens>>

\* Stored bytes change under the store.
BitRot(v) ==
    /\ v \in data \ damaged /\ Fault
    /\ damaged' = damaged \cup {v}
    /\ UNCHANGED <<backend, manifest, data, staging, published, calls>>

AdaptersNext ==
    \/ \E p \in Puts : \/ PutCheck(p) \/ PutStream(p) \/ PutVerify(p) \/ PutPublish(p)
                       \/ PutCleanup(p) \/ PutCrash(p) \/ BitRot(p)
    \/ \E o \in Opens : OpenManifest(o) \/ OpenData(o)
    \/ \E d \in Deletes : DeleteCall(d) \/ DeleteCheck(d) \/ DeleteData(d) \/ DeleteManifest(d)

AdaptersSpec == AdaptersInit /\ [][AdaptersNext]_adapters

-----------------------------------------------------------------------------
(* Properties                                                              *)

\* A Delete has found the manifest to name the version it expects.
PastCheck(d) == deletes[d].pc \in {"data", "manifest", "done"}

\* A Delete that expects v has got past its check.
Deleting(v) == \E d \in Deletes : deletes[d].version = v /\ PastCheck(d)

\* Two Deletes of one version have both got past their checks: the slower one no
\* longer knows what it deletes.
Rivals ==
    \E d, e \in Deletes : /\ d # e /\ deletes[d].version = deletes[e].version
                          /\ PastCheck(d) /\ PastCheck(e)

\* The Put of v to S3 wrote its manifest and was told that it had not.
Misinformed(v) == S3 /\ v \in published /\ puts[v].result \in {"exists", "error"}

\* Open yields the very bytes of a verified upload or no bytes at all, also when
\* versions are written and deleted while it reads; and it reports an integrity
\* error only for bytes that were deleted, damaged, or withdrawn by a Put whose
\* manifest was written against its knowledge.
OpenHonest ==
    \A o \in Opens : LET v == opens[o].version IN
        /\ opens[o].result \notin {"damaged", "mismatch", "too_large"}
        /\ opens[o].result = "integrity" => Deleting(v) \/ v \in damaged \/ Misinformed(v)

\* An acknowledged object stays: its bytes leave the store only through a Delete
\* past its check that expects this version, and so does its manifest, but for the
\* one race Delete has: a second Delete of an earlier version that had got past its
\* check too, and takes the manifest by name (Delete of both adapters).
AcknowledgedKept ==
    \A p \in Puts : puts[p].result = "ok" =>
        /\ p \in data \/ Deleting(p)
        /\ manifest = p \/ Deleting(p) \/ Rivals

Store == INSTANCE BlobStore WITH
    Versions <- Puts,
    object <- [v \in Puts |-> IF manifest = v THEN "committed"
                              ELSE IF v \in published THEN "removed" ELSE "staged"]

\* Both adapters are write-once stores: racing Puts, lost answers and crashes
\* commit at most one version at a time, never replace it in place, and never
\* bring a removed one back.
ImplementsBlobStore == Store!StoreSpec
=============================================================================
