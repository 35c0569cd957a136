----------------------------- MODULE ImportUpload -----------------------------
(***************************************************************************)
(* Uploading the raw artifact of a reserved import and completing it:      *)
(* ingestion/service.go (Upload, Complete) over ingestion/postgres.go      *)
(* (BeginUpload, CommitUpload, EndUpload, Complete) and a blob store.      *)
(*                                                                         *)
(* Every element of Uploads is one upload request, every element of        *)
(* Completes one completeImport request; a client's retry is another       *)
(* request.  A request's identifier also stands for the random identifier  *)
(* it generates (the upload attempt id, the operation id).                 *)
(*                                                                         *)
(* BeginUpload and Complete read the import joined with its artifact FOR   *)
(* UPDATE OF the import alone.  When the statement waits for the import,   *)
(* READ COMMITTED re-reads that row and keeps the artifact row of the      *)
(* statement's snapshot, so both take two steps: the snapshot, then the    *)
(* rest of the transaction with the current import and the remembered      *)
(* artifact.  CommitUpload and EndUpload test and write each row in one    *)
(* statement and are one step each.                                        *)
(*                                                                         *)
(* The blob store is what BlobAdapters makes of it, without Delete, which  *)
(* no upload calls: bytes under a version of their own, a manifest that is *)
(* created where there is none, and a clean-up of the bytes by a Put that  *)
(* failed, or was told so.                                                 *)
(***************************************************************************)
EXTENDS Integers

CONSTANTS
    Imports,           \* reserved imports
    Legacy,            \* those reserved before there were raw_artifacts rows
    Backend,           \* "filesystem" or "s3"
    Uploads,           \* upload requests
    Completes,         \* completeImport requests
    Contents,          \* report bodies; a body is its own SHA-256
    Keys,              \* completeImport idempotency keys
    UploadOf,          \* [Uploads -> Imports]
    Bodies,            \* what each upload may send: a content and a Content-Length
    CompleteOf,        \* [Completes -> Imports]
    KeyOf,             \* [Completes -> Keys]
    SizeOf,            \* [Contents -> Nat]
    ExpectedSize,      \* [Imports -> Nat or NoSize]
    ExpectedSHA256,    \* [Imports -> SUBSET Contents], all when not given
    MaxBytes,          \* the upload limit
    UploadExpiresAt,   \* [Imports -> Nat], the reservation's end
    UploadTimeout,     \* length of an upload lease
    MaxTime,           \* bound on the clock
    MaxFaults,         \* bound on failed calls, lost replies and crashes
    NoUpload, NoContent, NoOperation   \* the absent values

NoSize == -1

ASSUME UploadConstants ==
    /\ Legacy \subseteq Imports /\ Backend \in {"filesystem", "s3"}
    /\ UploadOf \in [Uploads -> Imports]
    /\ Bodies \in [Uploads -> SUBSET [content : Contents, declared : Nat \cup {NoSize}]]
    /\ CompleteOf \in [Completes -> Imports]
    /\ KeyOf \in [Completes -> Keys]
    /\ SizeOf \in [Contents -> Nat]
    /\ ExpectedSize \in [Imports -> Nat \cup {NoSize}]
    /\ \A i \in Imports : ExpectedSize[i] <= MaxBytes
    /\ ExpectedSHA256 \in [Imports -> SUBSET Contents]
    /\ UploadExpiresAt \in [Imports -> Nat]
    /\ MaxBytes \in Nat /\ UploadTimeout \in Nat \ {0}
    /\ MaxTime \in Nat /\ MaxFaults \in Nat
    /\ NoUpload \notin Uploads /\ NoContent \notin Contents
    /\ NoOperation \notin Completes

VARIABLES
    clock,         \* the servers' clock
    faults,        \* failures so far
    imports,       \* imports.state
    artifacts,     \* raw_artifacts rows
    blobs,         \* published manifests, by import (one storage key each)
    bytes,         \* uploads whose verified bytes are stored
    misinformed,   \* uploads that published a manifest and were told otherwise
    up,            \* upload requests in flight
    operations,    \* operations rows, each with its import.process job
    claims,        \* import_complete_idempotency rows
    comp           \* completeImport requests in flight

Storage == <<blobs, bytes, misinformed>>
vars == <<clock, faults, imports, artifacts, Storage, up, operations, claims, comp>>

ImportStates == {"awaiting_upload", "uploading", "uploaded", "queued",
                 "rejected", "abandoned"}
ArtifactRow ==
    [state : {"absent", "pending", "uploading", "committed", "rejected", "abandoned"},
     attempt : Uploads \cup {NoUpload}, lease : Nat,
     sha256 : Contents \cup {NoContent}, version : Uploads \cup {NoUpload},
     committedAt : Nat]
\* A manifest; a version is the upload whose Put drew it.
Blob == [content : Contents \cup {NoContent}, version : Uploads \cup {NoUpload}, at : Nat]
NoBlob == [content |-> NoContent, version |-> NoUpload, at |-> 0]
Unwritten(state) == [state |-> state, attempt |-> NoUpload, lease |-> 0,
                     sha256 |-> NoContent, version |-> NoUpload, committedAt |-> 0]

Results == {"none", "receipt", "conflict", "mismatch", "too_large",
            "in_progress", "expired", "lease_lost", "integrity", "error"}
UploadRequest ==
    [pc : {"new", "begin", "locking", "session", "put", "publish", "commit",
           "cleanup", "release", "reject", "done"},
     started : Nat, snap : ArtifactRow, meta : Blob, result : Results,
     body : [content : Contents \cup {NoContent}, declared : Nat \cup {NoSize}]]
CompleteRequest ==
    [pc : {"new", "locking", "done"}, snap : ArtifactRow,
     op : Completes \cup {NoOperation}, result : Results]

\* Type invariant: the tables and the requests hold only values the schema's
\* checks and the service's code allow.
UploadTypeOK ==
    /\ clock \in 0..MaxTime /\ faults \in 0..MaxFaults
    /\ imports \in [Imports -> ImportStates]
    /\ artifacts \in [Imports -> ArtifactRow]
    /\ blobs \in [Imports -> Blob]
    /\ bytes \subseteq Uploads /\ misinformed \subseteq Uploads
    /\ up \in [Uploads -> UploadRequest]
    /\ operations \subseteq [id : Completes, import : Imports]
    /\ claims \in [Keys -> Completes \cup {NoOperation}]
    /\ comp \in [Completes -> CompleteRequest]

\* Each import has just been reserved (its pending artifact included), or was
\* when reservations made no artifact yet.
Init ==
    /\ clock = 0 /\ faults = 0
    /\ imports = [i \in Imports |-> "awaiting_upload"]
    /\ artifacts = [i \in Imports |-> Unwritten(IF i \in Legacy THEN "absent" ELSE "pending")]
    /\ blobs = [i \in Imports |-> NoBlob]
    /\ bytes = {} /\ misinformed = {}
    /\ up = [u \in Uploads |-> [pc |-> "new", started |-> 0, snap |-> Unwritten("pending"),
                                meta |-> NoBlob, result |-> "none",
                                body |-> [content |-> NoContent, declared |-> NoSize]]]
    /\ operations = {}
    /\ claims = [k \in Keys |-> NoOperation]
    /\ comp = [c \in Completes |-> [pc |-> "new", snap |-> Unwritten("pending"),
                                    op |-> NoOperation, result |-> "none"]]

-----------------------------------------------------------------------------
(* Moving a request along. *)

Go(u, pc) == up' = [up EXCEPT ![u].pc = pc]
Done(u, result) ==
    up' = [up EXCEPT ![u].pc = "done", ![u].result = result, ![u].meta = NoBlob]
\* cleanupData, releaseAttempt or rejectAttempt follow: the result is decided.
EndWith(u, how, result) ==
    up' = [up EXCEPT ![u].pc = how, ![u].result = result, ![u].meta = NoBlob]
Fault == faults < MaxFaults /\ faults' = faults + 1
\* A reply either reaches its caller, or the call took effect and the caller
\* saw an error.
Reply(u, heard, lost) ==
    \/ heard /\ UNCHANGED faults
    \/ lost /\ Fault

Tables == <<imports, artifacts>>
Completion == <<operations, claims, comp>>

-----------------------------------------------------------------------------
(* Upload, up to and including BeginUpload. *)

\* The request is authorized, draws its identifiers and reads the clock.
Upload(u) ==
    /\ up[u].pc = "new"
    /\ \E body \in Bodies[u] :
          up' = [up EXCEPT ![u].pc = "begin", ![u].started = clock, ![u].body = body]
    /\ UNCHANGED <<clock, faults, Tables, Storage, Completion>>

\* BeginUpload's SELECT takes its snapshot.
BeginRead(u) ==
    /\ up[u].pc = "begin"
    /\ up' = [up EXCEPT ![u].pc = "locking", ![u].snap = artifacts[UploadOf[u]]]
    /\ UNCHANGED <<clock, faults, Tables, Storage, Completion>>

\* Mutant: the body is not compared with the committed one.
VerifyMetadata(u, c) ==
    /\ up[u].body.declared \in {NoSize, SizeOf[c]}
    /\ ExpectedSize[UploadOf[u]] \in {NoSize, SizeOf[c]}
    /\ c \in ExpectedSHA256[UploadOf[u]]

\* verifyContent and verifyReplay: the streamed body is the committed one and
\* fits what the client declared and the reservation expects.
VerifyContent(u, c) ==
    /\ up[u].body.declared \in {NoSize, SizeOf[c]}
    /\ ExpectedSize[UploadOf[u]] \in {NoSize, SizeOf[c]}
    /\ c \in ExpectedSHA256[UploadOf[u]]
    /\ up[u].body.content = c

\* The import is uploaded already: the receipt is replayed to a request with
\* the same body.  An interrupted body is reported as a conflict as well.
BeginReplay(u) ==
    /\ imports[UploadOf[u]] = "uploaded"
    /\ \/ /\ up[u].snap.state # "committed"
          /\ Done(u, "integrity") /\ UNCHANGED faults
       \/ /\ up[u].snap.state = "committed"
          /\ VerifyContent(u, up[u].snap.sha256)
          /\ Done(u, "receipt") /\ UNCHANGED faults
       \/ /\ up[u].snap.state = "committed"
          /\ ~VerifyContent(u, up[u].snap.sha256)
          /\ Done(u, "conflict") /\ UNCHANGED faults
       \/ /\ up[u].snap.state = "committed"
          /\ Done(u, "conflict") /\ Fault
    /\ UNCHANGED Tables

\* The reservation has ended: the import is abandoned, and so is the artifact the
\* snapshot shows, whoever holds the upload lease.
BeginExpired(u) ==
    LET i == UploadOf[u] IN
    /\ imports[i] \in {"awaiting_upload", "uploading"}
    /\ up[u].started >= UploadExpiresAt[i]
    /\ artifacts' = [artifacts EXCEPT ![i] =
          IF @.state = "committed" \/ up[u].snap.state = "absent" THEN @
          ELSE [@ EXCEPT !.state = "abandoned", !.attempt = NoUpload, !.lease = 0]]
    /\ imports' = [imports EXCEPT ![i] = "abandoned"]
    /\ Reply(u, Done(u, "expired"), Done(u, "error"))

\* The artifact, as the snapshot shows it, may be taken by this request.
Takeable(u) ==
    \/ up[u].snap.state \in {"absent", "pending"}
    \/ up[u].snap.state = "uploading" /\ up[u].snap.lease <= up[u].started

\* The row that is there lets it: the INSERT of an artifact that the snapshot does
\* not show needs it to be absent still, the UPDATE an open one.
Takes(u) ==
    artifacts[UploadOf[u]].state \in
        IF up[u].snap.state = "absent" THEN {"absent"} ELSE {"pending", "uploading"}

\* Mutant: the import is not marked as uploading.
BeginLeaseArtifact(u) ==
    LET i == UploadOf[u] IN
    /\ imports[i] \in {"awaiting_upload", "uploading"}
    /\ up[u].started < UploadExpiresAt[i]
    /\ Takeable(u) /\ Takes(u)
    /\ artifacts' = [artifacts EXCEPT ![i].state = "uploading", ![i].attempt = u,
                                      ![i].lease = up[u].started + UploadTimeout]
    /\ Reply(u, Go(u, "session"), Done(u, "error"))
    /\ UNCHANGED imports

\* The request takes the upload lease of the artifact, or inserts it leased.
BeginLease(u) ==
    LET i == UploadOf[u] IN
    /\ imports[i] \in {"awaiting_upload", "uploading"}
    /\ up[u].started < UploadExpiresAt[i]
    /\ Takeable(u) /\ Takes(u)
    /\ artifacts' = [artifacts EXCEPT ![i].state = "uploading", ![i].attempt = u,
                                      ![i].lease = up[u].started + UploadTimeout]
    /\ imports' = [imports EXCEPT ![i] = "uploading"]
    /\ Reply(u, Go(u, "session"), Done(u, "error"))

\* The other returns of BeginUpload, which write nothing.  An INSERT fails where
\* another request's came first; the UPDATE of an artifact that is neither pending
\* nor uploading guards against pairs of rows that RowsAgree excludes.
BeginRefused(u) ==
    LET i == UploadOf[u]
        open == imports[i] \in {"awaiting_upload", "uploading"}
    IN
    /\ imports[i] # "uploaded"
    /\ open => /\ up[u].started < UploadExpiresAt[i]
               /\ ~(Takeable(u) /\ Takes(u))
    /\ Done(u, CASE ~open -> "conflict"
                 [] up[u].snap.state = "uploading" /\ ~Takeable(u) -> "in_progress"
                 [] ~Takeable(u) -> "conflict"
                 [] up[u].snap.state = "absent" -> "error"
                 [] OTHER -> "lease_lost")
    /\ UNCHANGED <<Tables, faults>>

\* BeginUpload once it has locked the import.
BeginUpload(u) ==
    /\ up[u].pc = "locking"
    /\ BeginReplay(u) \/ BeginExpired(u) \/ BeginLease(u) \/ BeginRefused(u)
    /\ UNCHANGED <<clock, Storage, Completion>>

-----------------------------------------------------------------------------
(* Upload, from the session to its end. *)

\* The declared size is within the limit and the expected one, if given.
SizesAgree(u) ==
    \/ up[u].body.declared = NoSize
    \/ /\ up[u].body.declared <= MaxBytes
       /\ ExpectedSize[UploadOf[u]] \in {NoSize, up[u].body.declared}

\* Otherwise the import is rejected before any byte is read.
RejectDeclared(u) ==
    /\ up[u].pc = "session" /\ ~SizesAgree(u)
    /\ EndWith(u, "reject",
               IF up[u].body.declared > MaxBytes THEN "too_large" ELSE "mismatch")
    /\ UNCHANGED <<clock, faults, Tables, Storage, Completion>>

\* The blob store is asked whether an earlier attempt published the object; if
\* so, the body is compared with it instead of being stored again.
Stat(u) ==
    LET b == blobs[UploadOf[u]] IN
    /\ up[u].pc = "session" /\ SizesAgree(u)
    /\ \/ b = NoBlob /\ Go(u, "put")
       \/ /\ b # NoBlob /\ VerifyContent(u, b.content)
          /\ up' = [up EXCEPT ![u].pc = "commit", ![u].meta = b]
       \/ /\ b # NoBlob /\ ~VerifyContent(u, b.content)
          /\ EndWith(u, "release", "conflict")
    /\ UNCHANGED <<clock, faults, Tables, Storage, Completion>>

PutExpectedSize(u) ==
    IF up[u].body.declared # NoSize THEN up[u].body.declared ELSE ExpectedSize[UploadOf[u]]
VerifyExpected(u) ==
    /\ PutExpectedSize(u) \in {NoSize, SizeOf[up[u].body.content]}
    /\ up[u].body.content \in ExpectedSHA256[UploadOf[u]]
\* BoundedReader: the body fits in the limit.
Bounded(u) == SizeOf[up[u].body.content] <= MaxBytes

\* Put, up to the manifest: the bytes are streamed, bounded, verified and stored,
\* and the commit time is read.
PutStream(u) ==
    /\ up[u].pc = "put"
    /\ \/ /\ \/ blobs[UploadOf[u]] # NoBlob /\ EndWith(u, "release", "in_progress")
             \/ ~Bounded(u) /\ EndWith(u, "reject", "too_large")
             \/ Bounded(u) /\ ~VerifyExpected(u) /\ EndWith(u, "reject", "mismatch")
          /\ UNCHANGED bytes
       \/ /\ Bounded(u) /\ VerifyExpected(u)
          /\ bytes' = bytes \cup {u}
          /\ up' = [up EXCEPT ![u].pc = "publish",
                ![u].meta = [content |-> up[u].body.content, version |-> u, at |-> clock]]
    /\ UNCHANGED <<clock, faults, Tables, blobs, misinformed, Completion>>

\* Mutant: the manifest is written unconditionally.
PutReplace(u) ==
    LET i == UploadOf[u] IN
    /\ up[u].pc = "publish"
    /\ blobs' = [blobs EXCEPT ![i] = up[u].meta]
    /\ Go(u, "commit")
    /\ UNCHANGED <<clock, faults, bytes, misinformed, Tables, Completion>>

\* commitManifest: created only where there is none.  A request to S3 may create
\* it and fail, or be repeated by the SDK and find its own manifest.
PutPublish(u) ==
    LET i == UploadOf[u] IN
    /\ up[u].pc = "publish"
    /\ \/ /\ blobs[i] # NoBlob
          /\ EndWith(u, "cleanup", "in_progress")
          /\ UNCHANGED <<blobs, misinformed, faults>>
       \/ /\ blobs[i] = NoBlob
          /\ blobs' = [blobs EXCEPT ![i] = up[u].meta]
          /\ \/ Go(u, "commit") /\ UNCHANGED <<misinformed, faults>>
             \/ /\ Backend = "s3" /\ Fault
                /\ \E result \in {"error", "in_progress"} : EndWith(u, "cleanup", result)
                /\ misinformed' = misinformed \cup {u}
    /\ UNCHANGED <<clock, bytes, Tables, Completion>>

\* Mutant: the bytes under the published version are cleaned up.
PutCleanupPublished(u) ==
    /\ up[u].pc = "cleanup"
    /\ bytes' = bytes \ {blobs[UploadOf[u]].version}
    /\ Go(u, "release")
    /\ UNCHANGED <<clock, faults, Tables, blobs, misinformed, Completion>>

\* cleanupData, or the deferred removal of the data file, by a Put that could not
\* publish its manifest, or thinks so; its error is dropped.
PutCleanup(u) ==
    /\ up[u].pc = "cleanup"
    /\ \/ bytes' = bytes \ {u} /\ UNCHANGED faults
       \/ UNCHANGED bytes /\ Fault
    /\ Go(u, "release")
    /\ UNCHANGED <<clock, Tables, blobs, misinformed, Completion>>

\* A call to the blob store fails without effect, or the session names another
\* storage backend or a key that does not parse: the attempt is released, after
\* the clean-up of bytes that were stored.
BlobFails(u) ==
    /\ up[u].pc \in {"session", "put", "publish"}
    /\ Fault
    /\ EndWith(u, IF up[u].pc = "publish" THEN "cleanup" ELSE "release", "error")
    /\ UNCHANGED <<clock, Tables, Storage, Completion>>

\* The attempt still owns the artifact, and its lease covers the time at which
\* the object was published.
CommitMatches(u) ==
    LET a == artifacts[UploadOf[u]] IN
    /\ a.state = "uploading" /\ a.attempt = u
    /\ a.lease >= up[u].meta.at
    /\ imports[UploadOf[u]] = "uploading"

\* CommitUpload: the verified metadata is recorded and the import published.
CommitUpload(u) ==
    LET i == UploadOf[u] IN
    /\ up[u].pc = "commit"
    /\ \/ /\ CommitMatches(u)
          /\ artifacts' = [artifacts EXCEPT ![i] =
                [state |-> "committed", attempt |-> NoUpload, lease |-> 0,
                 sha256 |-> up[u].meta.content, version |-> up[u].meta.version,
                 committedAt |-> up[u].meta.at]]
          /\ imports' = [imports EXCEPT ![i] = "uploaded"]
          /\ Reply(u, Done(u, "receipt"), EndWith(u, "release", "error"))
       \/ /\ ~CommitMatches(u)
          /\ EndWith(u, "release", "lease_lost") /\ UNCHANGED <<Tables, faults>>
    /\ UNCHANGED <<clock, Storage, Completion>>

\* Mutant: any attempt may end the upload.
EndMatchesAny(u) ==
    /\ artifacts[UploadOf[u]].state = "uploading"
    /\ imports[UploadOf[u]] = "uploading"
EndMatches(u) ==
    LET a == artifacts[UploadOf[u]] IN
    /\ a.state = "uploading" /\ a.attempt = u
    /\ imports[UploadOf[u]] = "uploading"

\* EndUpload, from releaseAttempt or rejectAttempt: the attempt goes back to
\* pending or the import is rejected, unless the attempt has lost the lease.
\* Whether its reply is heard makes no difference to the request's result.
EndUpload(u) ==
    LET i == UploadOf[u]
        reject == up[u].pc = "reject"
    IN
    /\ up[u].pc \in {"release", "reject"}
    /\ \/ /\ EndMatches(u)
          /\ artifacts' = [artifacts EXCEPT
                ![i].state = IF reject THEN "rejected" ELSE "pending",
                ![i].attempt = NoUpload, ![i].lease = 0]
          /\ imports' = [imports EXCEPT
                ![i] = IF reject THEN "rejected" ELSE "awaiting_upload"]
       \/ ~EndMatches(u) /\ UNCHANGED Tables
    /\ Done(u, up[u].result)
    /\ UNCHANGED <<clock, faults, Storage, Completion>>

\* A transaction of the request fails and rolls back.
DatabaseFails(u) ==
    /\ Fault
    /\ \/ up[u].pc \in {"begin", "locking"} /\ Done(u, "error")
       \/ up[u].pc = "commit" /\ EndWith(u, "release", "error")
       \/ up[u].pc \in {"release", "reject"} /\ Done(u, up[u].result)
    /\ UNCHANGED <<clock, Tables, Storage, Completion>>

\* The server serving the request stops.
Crash(u) ==
    /\ up[u].pc \notin {"new", "done"}
    /\ Fault /\ Done(u, "error")
    /\ UNCHANGED <<clock, Tables, Storage, Completion>>

-----------------------------------------------------------------------------
(* Complete. *)

Uploading == <<clock, imports, artifacts, Storage, up>>
Reported(c, op, result) ==
    comp' = [comp EXCEPT ![c].pc = "done", ![c].op = op, ![c].result = result]

\* The completion's idempotency key is locked, without waiting, from its
\* transaction's first statement to its end.
KeyLocked(c) ==
    \E d \in Completes \ {c} : KeyOf[d] = KeyOf[c] /\ comp[d].pc = "locking"

ImportOfOperation(id) == (CHOOSE o \in operations : o.id = id).import

\* Complete, up to the snapshot of its SELECT: the key is taken, or its first
\* result replayed to a request with the same fingerprint.
CompleteClaim(c) ==
    LET claimed == claims[KeyOf[c]] IN
    /\ comp[c].pc = "new"
    /\ \/ KeyLocked(c) /\ Reported(c, NoOperation, "in_progress")
       \/ /\ ~KeyLocked(c) /\ claimed = NoOperation
          /\ comp' = [comp EXCEPT ![c].pc = "locking",
                                  ![c].snap = artifacts[CompleteOf[c]]]
       \/ /\ ~KeyLocked(c) /\ claimed # NoOperation
          /\ IF ImportOfOperation(claimed) = CompleteOf[c]
             THEN Reported(c, claimed, "receipt")
             ELSE Reported(c, NoOperation, "conflict")
    /\ UNCHANGED <<Uploading, faults, operations, claims>>

\* Mutant: the import's own state is not consulted.
CompletableByArtifact(c) == comp[c].snap.state = "committed"
Completable(c) ==
    imports[CompleteOf[c]] = "uploaded" /\ comp[c].snap.state = "committed"

\* Complete once it has locked the import: claim, operation, job and the
\* import's transition commit together, or none of them does.
Complete(c) ==
    LET i == CompleteOf[c] IN
    /\ comp[c].pc = "locking"
    /\ \/ /\ Completable(c)
          /\ operations' = operations \cup {[id |-> c, import |-> i]}
          /\ claims' = [claims EXCEPT ![KeyOf[c]] = c]
          /\ imports' = [imports EXCEPT ![i] = "queued"]
          /\ \/ Reported(c, c, "receipt") /\ UNCHANGED faults
             \/ Reported(c, NoOperation, "error") /\ Fault
       \/ /\ ~Completable(c)
          /\ Reported(c, NoOperation, "conflict")
          /\ UNCHANGED <<imports, operations, claims, faults>>
    /\ UNCHANGED <<clock, artifacts, Storage, up>>

\* The transaction fails and rolls back, its claim included.
CompleteFails(c) ==
    /\ comp[c].pc \in {"new", "locking"}
    /\ Fault /\ Reported(c, NoOperation, "error")
    /\ UNCHANGED <<Uploading, operations, claims>>

-----------------------------------------------------------------------------
Tick ==
    /\ clock < MaxTime /\ clock' = clock + 1
    /\ UNCHANGED <<faults, Tables, Storage, up, Completion>>

UploadStep(u) ==
    \/ Upload(u) \/ BeginRead(u) \/ BeginUpload(u) \/ RejectDeclared(u)
    \/ Stat(u) \/ PutStream(u) \/ PutPublish(u) \/ PutCleanup(u) \/ BlobFails(u)
    \/ CommitUpload(u) \/ EndUpload(u) \/ DatabaseFails(u) \/ Crash(u)
CompleteStep(c) == CompleteClaim(c) \/ Complete(c) \/ CompleteFails(c)

Next ==
    \/ \E u \in Uploads : UploadStep(u)
    \/ \E c \in Completes : CompleteStep(c)
    \/ Tick

Spec == Init /\ [][Next]_vars

-----------------------------------------------------------------------------
(* Properties. *)

\* The content meets what the reservation expects of it.
Expected(i, c) ==
    /\ c \in ExpectedSHA256[i]
    /\ SizeOf[c] <= MaxBytes
    /\ ExpectedSize[i] \in {NoSize, SizeOf[c]}

\* Metadata never gets ahead of storage: a committed artifact describes the very
\* object whose manifest is published under its key, that object meets the
\* reservation's expectations, and its bytes are stored, whichever attempt stored
\* it and whichever attempt recorded it (Upload's Stat, Put and CommitUpload).
\* There is one exception: on S3 the bytes may be withdrawn by the Put that
\* published them and was told it had not, since Stat, which lets a later attempt
\* record them, looks at the manifest alone.
EvidenceIntact ==
    \A i \in Imports : LET a == artifacts[i] IN a.state = "committed" =>
        /\ blobs[i] = [content |-> a.sha256, version |-> a.version, at |-> a.committedAt]
        /\ Expected(i, a.sha256)
        /\ a.version \in bytes \/ (Backend = "s3" /\ a.version \in misinformed)

\* The state of the artifact that belongs to a state of the import.
ArtifactOf(state) ==
    CASE state = "awaiting_upload" -> "pending"
      [] state = "uploading" -> "uploading"
      [] state \in {"uploaded", "queued"} -> "committed"
      [] OTHER -> state

\* The two rows of an import move together: every transaction that changes one
\* of them leaves the pair in one of the six states of the upload protocol
\* (BeginUpload, CommitUpload, EndUpload and Complete).  An import without an
\* artifact gets it with its first lease; abandoning it leaves alone an artifact
\* that was inserted after the snapshot.
RowsAgree ==
    \A i \in Imports :
        \/ artifacts[i].state = ArtifactOf(imports[i])
        \/ /\ i \in Legacy
           /\ \/ imports[i] \in {"awaiting_upload", "abandoned"} /\ artifacts[i].state = "absent"
              \/ imports[i] = "abandoned" /\ artifacts[i].state \in {"pending", "uploading"}

\* A client holding a receipt sent exactly the bytes that are now the import's
\* committed evidence, by whatever path it got the receipt: its own commit,
\* an orphan left by another attempt, or a replay (verifyContent, verifyReplay).
ReceiptHonest ==
    \A u \in Uploads : up[u].result = "receipt" =>
        /\ artifacts[UploadOf[u]].state = "committed"
        /\ artifacts[UploadOf[u]].sha256 = up[u].body.content

\* Completing is exactly-once: an import has an operation (with its job) when
\* and only when it is queued, never two; every successful reply names that
\* operation; and replies under one idempotency key name one operation, also
\* when the first reply was lost (Complete).
CompletionExactlyOnce ==
    /\ \A i \in Imports :
          LET ops == {o \in operations : o.import = i} IN
          IF imports[i] = "queued" THEN \E o \in ops : ops = {o} ELSE ops = {}
    /\ \A c \in Completes : comp[c].result = "receipt" =>
          /\ [id |-> comp[c].op, import |-> CompleteOf[c]] \in operations
          /\ claims[KeyOf[c]] = comp[c].op

\* Evidence is final: a published object is never replaced, and a committed
\* artifact row never changes again (Put's manifest, raw_artifacts).
EvidenceFinal ==
    [][\A i \in Imports :
          /\ blobs[i] # NoBlob => blobs'[i] = blobs[i]
          /\ artifacts[i].state = "committed" => artifacts'[i] = artifacts[i]]_vars

\* The upload lease is fenced: only the attempt that holds it commits, releases
\* or rejects the artifact; others can only take it over in BeginUpload or
\* abandon an expired reservation (the upload_attempt_id of CommitUpload and
\* EndUpload).
AttemptFenced ==
    [][\A i \in Imports, u \in Uploads :
          /\ artifacts[i].state = "uploading" /\ artifacts[i].attempt # u
          /\ up'[u] # up[u] /\ artifacts'[i] # artifacts[i]
          => \/ artifacts'[i].attempt = u
             \/ artifacts'[i].state = "abandoned"]_vars
=============================================================================
