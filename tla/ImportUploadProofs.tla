------------------------- MODULE ImportUploadProofs -------------------------
(***************************************************************************)
(* The safety properties of ImportUpload for any number of imports,        *)
(* uploads, completions, keys and contents.                                *)
(***************************************************************************)
EXTENDS ImportUpload, TLAPS

(* What a published object owes to the reservation. *)
BlobsExpected ==
    \A i \in Imports : blobs[i] # NoBlob =>
        blobs[i].content \in Contents /\ Expected(i, blobs[i].content)

(* What a committed artifact owes to the published object, its bytes apart. *)
EvidenceRecorded ==
    \A i \in Imports : LET a == artifacts[i] IN a.state = "committed" =>
        /\ blobs[i] = [content |-> a.sha256, version |-> a.version, at |-> a.committedAt]
        /\ Expected(i, a.sha256)

(* What an upload request knows at each point: the body it sends, that the  *)
(* declared size was accepted, that the object it will publish was verified,*)
(* and that the object it will record is the published one and its own.     *)
Checked(u) ==
    /\ up[u].pc # "new" => up[u].body.content \in Contents
    /\ up[u].pc = "put" => SizesAgree(u)
    /\ up[u].pc = "publish" => /\ up[u].meta.content = up[u].body.content
                               /\ Expected(UploadOf[u], up[u].meta.content)
    /\ up[u].pc = "commit" => /\ blobs[UploadOf[u]] # NoBlob
                              /\ up[u].meta = blobs[UploadOf[u]]
                              /\ up[u].meta.content = up[u].body.content

(* A snapshot that shows a committed artifact does not become stale, and    *)
(* only an old reservation shows none.                                      *)
SnapTrue(u) ==
    /\ up[u].snap.state = "committed" => artifacts[UploadOf[u]] = up[u].snap
    /\ up[u].snap.state = "absent" => UploadOf[u] \in Legacy

Honest(u) ==
    up[u].result = "receipt" =>
        /\ artifacts[UploadOf[u]].state = "committed"
        /\ artifacts[UploadOf[u]].sha256 = up[u].body.content
        /\ up[u].pc = "done"

Request(u) == Checked(u) /\ SnapTrue(u) /\ Honest(u)

(* The inductive invariant of the upload. *)
UploadInv ==
    /\ UploadTypeOK /\ RowsAgree /\ EvidenceRecorded /\ BlobsExpected
    /\ \A u \in Uploads : Request(u)

(* The step EvidenceFinal allows. *)
Kept ==
    \A i \in Imports :
        /\ blobs[i] # NoBlob => blobs'[i] = blobs[i]
        /\ artifacts[i].state = "committed" => artifacts'[i] = artifacts[i]

-----------------------------------------------------------------------------
(* One request moves, the others stay. *)

(* The fields of an upload request. *)
LEMMA RequestFields ==
    ASSUME UploadTypeOK, NEW u \in Uploads
    PROVE  /\ up[u].pc \in {"new", "begin", "locking", "session", "put", "publish", "commit",
                            "cleanup", "release", "reject", "done"}
           /\ up[u].started \in Nat /\ up[u].snap \in ArtifactRow /\ up[u].meta \in Blob
           /\ up[u].result \in Results
           /\ up[u].body \in [content : Contents \cup {NoContent}, declared : Nat \cup {NoSize}]
           /\ up[u] = [pc |-> up[u].pc, started |-> up[u].started, snap |-> up[u].snap,
                       meta |-> up[u].meta, result |-> up[u].result, body |-> up[u].body]
  <1>1. up[u] \in UploadRequest
    BY DEF UploadTypeOK
  <1>2. QED
    BY <1>1 DEF UploadRequest

(* A request goes on. *)
LEMMA GoEffect ==
    ASSUME UploadTypeOK, NEW u \in Uploads,
           NEW pc \in {"session", "put", "commit", "release"}, Go(u, pc)
    PROVE  /\ up' \in [Uploads -> UploadRequest]
           /\ \A v \in Uploads : v # u => up'[v] = up[v]
           /\ up'[u] = [up[u] EXCEPT !.pc = pc]
  <1>1. up \in [Uploads -> UploadRequest]
    BY DEF UploadTypeOK
  <1>2. up[u] \in UploadRequest
    BY <1>1
  <1>3. [up[u] EXCEPT !.pc = pc] \in UploadRequest
    BY <1>2 DEF UploadRequest
  <1>4. QED
    BY <1>1, <1>3 DEF Go

(* A request has its result. *)
LEMMA DoneEffect ==
    ASSUME UploadTypeOK, NEW u \in Uploads, NEW result \in Results,
           NEW pc \in {"done", "cleanup", "release", "reject"},
           up' = [up EXCEPT ![u].pc = pc, ![u].result = result, ![u].meta = NoBlob]
    PROVE  /\ up' \in [Uploads -> UploadRequest]
           /\ \A v \in Uploads : v # u => up'[v] = up[v]
           /\ up'[u].pc = pc /\ up'[u].result = result
           /\ up'[u].body = up[u].body /\ up'[u].snap = up[u].snap
  <1> DEFINE request == [up[u] EXCEPT !.pc = pc, !.result = result, !.meta = NoBlob]
  <1>1. NoBlob \in Blob
    BY DEF NoBlob, Blob
  <1>2. request \in UploadRequest
    <2>1. up[u] \in UploadRequest
      BY DEF UploadTypeOK
    <2>2. QED
      BY <1>1, <2>1, Zenon DEF UploadRequest
  <1>3. up \in [Uploads -> UploadRequest]
    BY DEF UploadTypeOK
  <1>4. /\ DOMAIN up' = Uploads /\ up'[u] = request
        /\ \A v \in Uploads : v # u => up'[v] = up[v]
    BY <1>3
  <1>5. up' = [v \in Uploads |-> up'[v]]
    BY <1>3, Zenon
  <1>6. QED
    BY <1>2, <1>3, <1>4, <1>5, RequestFields

(* A request that did not move keeps what it knows, because evidence is     *)
(* kept.                                                                    *)
LEMMA OthersKeep ==
    ASSUME UploadInv, Kept, NEW v \in Uploads, up'[v] = up[v]
    PROVE  Request(v)'
  <1>1. UploadOf[v] \in Imports
    BY UploadConstants
  <1>2. Checked(v)'
    BY <1>1 DEF UploadInv, Request, Checked, Kept, SizesAgree, Expected
  <1>3. SnapTrue(v)'
    BY <1>1 DEF UploadInv, Request, SnapTrue, Kept
  <1>4. Honest(v)'
    BY <1>1 DEF UploadInv, Request, Honest, Kept
  <1>5. QED
    BY <1>2, <1>3, <1>4 DEF Request

(* Rows that stay satisfy what is said of them. *)
LEMMA TablesKept ==
    ASSUME UploadInv, UNCHANGED <<imports, artifacts, blobs>>
    PROVE  RowsAgree' /\ EvidenceRecorded' /\ BlobsExpected' /\ Kept
  BY DEF UploadInv, RowsAgree, EvidenceRecorded, BlobsExpected, Kept, Expected, NoBlob

(* A request that ends, or goes on to end its attempt, without a receipt. *)
LEMMA EndedKnows ==
    ASSUME UploadInv, Kept, NEW u \in Uploads, up[u].pc # "new",
           NEW result \in Results \ {"receipt"}, NEW pc \in {"done", "cleanup", "release", "reject"},
           up' = [up EXCEPT ![u].pc = pc, ![u].result = result, ![u].meta = NoBlob]
    PROVE  up' \in [Uploads -> UploadRequest] /\ \A v \in Uploads : Request(v)'
  <1>1. UploadTypeOK /\ Request(u)
    BY DEF UploadInv
  <1>2. /\ up' \in [Uploads -> UploadRequest]
        /\ \A v \in Uploads : v # u => up'[v] = up[v]
        /\ up'[u].pc = pc /\ up'[u].result = result
        /\ up'[u].body = up[u].body /\ up'[u].snap = up[u].snap
    BY <1>1, DoneEffect, Zenon
  <1>3. UploadOf[u] \in Imports
    BY UploadConstants
  <1>4. Request(u)'
    BY <1>1, <1>2, <1>3 DEF Request, Checked, SnapTrue, Honest, Kept
  <1>5. QED
    BY <1>2, <1>4, OthersKeep

(* The steps of an upload that only read the tables and the blob store. *)
LEMMA UploadSafe ==
    ASSUME UploadInv, NEW u \in Uploads, Upload(u)
    PROVE  up' \in [Uploads -> UploadRequest] /\ \A v \in Uploads : Request(v)'
  <1>1. PICK body \in Bodies[u] :
          up' = [up EXCEPT ![u].pc = "begin", ![u].started = clock, ![u].body = body]
    BY Zenon DEF Upload
  <1>2. body \in [content : Contents, declared : Nat \cup {NoSize}]
    BY <1>1, UploadConstants
  <1>3. up \in [Uploads -> UploadRequest] /\ up[u] \in UploadRequest /\ clock \in Nat
    BY UploadConstants DEF UploadInv, UploadTypeOK
  <1> DEFINE request == [up[u] EXCEPT !.pc = "begin", !.started = clock, !.body = body]
  <1>4. request \in UploadRequest
    BY <1>2, <1>3, Zenon DEF UploadRequest
  <1>5. /\ up' \in [Uploads -> UploadRequest] /\ up'[u] = request
        /\ \A v \in Uploads : v # u => up'[v] = up[v]
    BY <1>1, <1>3, <1>4
  <1>6. /\ request.pc = "begin" /\ request.body = body
        /\ request.snap = up[u].snap /\ request.result = up[u].result
    BY <1>3 DEF UploadRequest
  <1>7. Kept
    BY TablesKept DEF Upload, Tables, Storage
  <1>8. Request(u)'
    <2>1. Request(u) /\ up[u].pc = "new" /\ UploadOf[u] \in Imports
      BY UploadConstants DEF UploadInv, Upload
    <2>2. QED
      BY <2>1, <1>2, <1>5, <1>6, <1>7 DEF Request, Checked, SnapTrue, Honest, Kept
  <1>9. QED
    BY <1>5, <1>7, <1>8, OthersKeep

(* BeginUpload reads the two rows without a lock. *)
LEMMA BeginReadSafe ==
    ASSUME UploadInv, NEW u \in Uploads, BeginRead(u)
    PROVE  up' \in [Uploads -> UploadRequest] /\ \A v \in Uploads : Request(v)'
  <1>1. UploadOf[u] \in Imports /\ artifacts[UploadOf[u]] \in ArtifactRow
    BY UploadConstants DEF UploadInv, UploadTypeOK
  <1>2. up \in [Uploads -> UploadRequest] /\ up[u] \in UploadRequest
    BY DEF UploadInv, UploadTypeOK
  <1> DEFINE request == [up[u] EXCEPT !.pc = "locking", !.snap = artifacts[UploadOf[u]]]
  <1>3. request \in UploadRequest
    BY <1>1, <1>2, Zenon DEF UploadRequest
  <1>4. /\ up' \in [Uploads -> UploadRequest] /\ up'[u] = request
        /\ \A v \in Uploads : v # u => up'[v] = up[v]
    BY <1>2, <1>3 DEF BeginRead
  <1>5. /\ request.pc = "locking" /\ request.body = up[u].body
        /\ request.snap = artifacts[UploadOf[u]] /\ request.result = up[u].result
    BY <1>2 DEF UploadRequest
  <1>6. Kept /\ artifacts' = artifacts
    BY TablesKept DEF BeginRead, Tables, Storage
  <1>7. Request(u)'
    <2>1. Request(u) /\ up[u].pc = "begin"
      BY DEF UploadInv, BeginRead
    <2>2. artifacts[UploadOf[u]].state = "absent" => UploadOf[u] \in Legacy
      <3>1. imports[UploadOf[u]] \in ImportStates
        BY <1>1 DEF UploadInv, UploadTypeOK
      <3>2. "absent" # ArtifactOf(imports[UploadOf[u]])
        BY <3>1 DEF ImportStates, ArtifactOf
      <3>3. QED
        BY <1>1, <3>2 DEF UploadInv, RowsAgree
    <2>3. QED
      BY <2>1, <2>2, <1>1, <1>4, <1>5, <1>6 DEF Request, Checked, SnapTrue, Honest, Kept
  <1>8. QED
    BY <1>4, <1>6, <1>7, OthersKeep

(* A replayed receipt: the snapshot is the committed row of today. *)
LEMMA BeginReplaySafe ==
    ASSUME UploadInv, NEW u \in Uploads, up[u].pc = "locking", BeginReplay(u),
           UNCHANGED blobs
    PROVE  up' \in [Uploads -> UploadRequest] /\ \A v \in Uploads : Request(v)'
  <1>1. Kept
    BY TablesKept DEF BeginReplay, Tables, Storage
  <1>2. CASE Done(u, "integrity") \/ Done(u, "conflict")
    BY <1>1, <1>2, EndedKnows, Zenon DEF Done, Results
  <1>3. CASE /\ up[u].snap.state = "committed" /\ VerifyContent(u, up[u].snap.sha256)
             /\ Done(u, "receipt")
    <2>1. UploadTypeOK /\ Request(u) /\ "receipt" \in Results /\ UploadOf[u] \in Imports
      BY UploadConstants DEF UploadInv, Results
    <2>2. /\ up' \in [Uploads -> UploadRequest]
          /\ \A v \in Uploads : v # u => up'[v] = up[v]
          /\ up'[u].pc = "done" /\ up'[u].result = "receipt"
          /\ up'[u].body = up[u].body /\ up'[u].snap = up[u].snap
      BY <1>3, <2>1, DoneEffect, Zenon DEF Done
    <2>3. artifacts'[UploadOf[u]] = up[u].snap
      BY <1>3, <2>1, <1>1, Zenon DEF Request, SnapTrue, Kept
    <2>4. Request(u)'
      BY <1>3, <2>1, <2>2, <2>3 DEF Request, Checked, SnapTrue, Honest, VerifyContent
    <2>5. QED
      BY <2>2, <2>4, <1>1, OthersKeep
  <1>4. QED
    BY <1>2, <1>3 DEF BeginReplay

-----------------------------------------------------------------------------
(* The steps that write the rows of an import. *)

(* A state of the artifact that may stand beside a state of the import. *)
Beside(i, s, t) ==
    \/ t = ArtifactOf(s)
    \/ /\ i \in Legacy
       /\ \/ s \in {"awaiting_upload", "abandoned"} /\ t = "absent"
          \/ s = "abandoned" /\ t \in {"pending", "uploading"}

(* Writing an import and its artifact together, while the artifact is not   *)
(* committed, keeps the rows in step.                                       *)
LEMMA RowsWritten ==
    ASSUME UploadInv, NEW i \in Imports, NEW s \in ImportStates, NEW a \in ArtifactRow,
           imports' = [imports EXCEPT ![i] = s], artifacts' = [artifacts EXCEPT ![i] = a],
           UNCHANGED blobs, artifacts[i].state # "committed", Beside(i, s, a.state),
           a.state = "committed" =>
               /\ blobs[i] # NoBlob
               /\ blobs[i] = [content |-> a.sha256, version |-> a.version, at |-> a.committedAt]
    PROVE  /\ imports' \in [Imports -> ImportStates] /\ artifacts' \in [Imports -> ArtifactRow]
           /\ RowsAgree' /\ EvidenceRecorded' /\ BlobsExpected' /\ Kept
  <1>1. imports \in [Imports -> ImportStates] /\ artifacts \in [Imports -> ArtifactRow]
    BY DEF UploadInv, UploadTypeOK
  <1>2. imports' \in [Imports -> ImportStates] /\ artifacts' \in [Imports -> ArtifactRow]
    BY <1>1
  <1>3. /\ imports'[i] = s /\ artifacts'[i] = a
        /\ \A j \in Imports : j # i => imports'[j] = imports[j] /\ artifacts'[j] = artifacts[j]
    BY <1>1
  <1>4. RowsAgree'
    BY <1>3 DEF UploadInv, RowsAgree, Beside
  <1>5. a.state = "committed" => Expected(i, a.sha256)
    <2>1. a.state = "committed" => Expected(i, blobs[i].content)
      BY DEF UploadInv, BlobsExpected
    <2>2. QED
      BY <2>1
  <1>6. EvidenceRecorded'
    BY <1>3, <1>5 DEF UploadInv, EvidenceRecorded, Expected
  <1>7. BlobsExpected'
    BY DEF UploadInv, BlobsExpected, Expected, NoBlob
  <1>8. Kept
    BY <1>3 DEF Kept
  <1>9. QED
    BY <1>2, <1>4, <1>6, <1>7, <1>8

(* An import that is still open has an artifact that is not committed. *)
LEMMA OpenRows ==
    ASSUME UploadInv, NEW i \in Imports, imports[i] \in {"awaiting_upload", "uploading"}
    PROVE  artifacts[i].state \in {"absent", "pending", "uploading"}
  BY DEF UploadInv, RowsAgree, ArtifactOf

RowsSafe ==
    /\ imports' \in [Imports -> ImportStates] /\ artifacts' \in [Imports -> ArtifactRow]
    /\ RowsAgree' /\ EvidenceRecorded' /\ BlobsExpected' /\ Kept

(* BeginUpload finds the reservation expired and rejects it. *)
LEMMA BeginExpiredSafe ==
    ASSUME UploadInv, NEW u \in Uploads, up[u].pc = "locking", BeginExpired(u),
           UNCHANGED blobs
    PROVE  /\ RowsSafe
           /\ up' \in [Uploads -> UploadRequest] /\ \A v \in Uploads : Request(v)'
  <1> DEFINE i == UploadOf[u]
             a == IF up[u].snap.state = "absent" THEN artifacts[i]
                  ELSE [artifacts[i] EXCEPT !.state = "abandoned", !.attempt = NoUpload,
                                            !.lease = 0]
  <1>1. i \in Imports /\ artifacts[i] \in ArtifactRow /\ artifacts \in [Imports -> ArtifactRow]
    BY UploadConstants DEF UploadInv, UploadTypeOK
  <1>2. artifacts[i].state \in {"absent", "pending", "uploading"}
    BY <1>1, OpenRows DEF BeginExpired
  <1>3. /\ a \in ArtifactRow /\ a.state # "committed"
        /\ up[u].snap.state # "absent" => a.state = "abandoned"
        /\ up[u].snap.state = "absent" => a.state = artifacts[i].state /\ i \in Legacy
    <2>1. up[u].snap.state = "absent" => i \in Legacy
      BY DEF UploadInv, Request, SnapTrue
    <2>2. CASE up[u].snap.state = "absent"
      BY <1>1, <1>2, <2>1, <2>2
    <2>3. CASE up[u].snap.state # "absent"
      BY <1>1, <2>3, Zenon DEF ArtifactRow
    <2>4. QED
      BY <2>2, <2>3
  <1>4. artifacts' = [artifacts EXCEPT ![i] = a] /\ imports' = [imports EXCEPT ![i] = "abandoned"]
    BY <1>1, <1>2, Zenon DEF BeginExpired
  <1>5. "abandoned" \in ImportStates /\ Beside(i, "abandoned", a.state)
    BY <1>2, <1>3 DEF ImportStates, Beside, ArtifactOf
  <1> HIDE DEF i, a
  <1>6. RowsSafe
    BY <1>1, <1>2, <1>3, <1>4, <1>5, RowsWritten, Zenon DEF RowsSafe
  <1>7. Done(u, "expired") \/ Done(u, "error")
    BY DEF BeginExpired, Reply
  <1>8. QED
    BY <1>6, <1>7, EndedKnows, Zenon DEF Done, Results, RowsSafe

(* BeginUpload takes the upload lease. *)
LEMMA BeginLeaseSafe ==
    ASSUME UploadInv, NEW u \in Uploads, up[u].pc = "locking", BeginLease(u),
           UNCHANGED blobs
    PROVE  /\ RowsSafe
           /\ up' \in [Uploads -> UploadRequest] /\ \A v \in Uploads : Request(v)'
  <1> DEFINE i == UploadOf[u]
             a == [artifacts[i] EXCEPT !.state = "uploading", !.attempt = u,
                                       !.lease = up[u].started + UploadTimeout]
  <1>1. i \in Imports /\ artifacts[i] \in ArtifactRow /\ artifacts \in [Imports -> ArtifactRow]
    BY UploadConstants DEF UploadInv, UploadTypeOK
  <1>2. artifacts[i].state # "committed"
    BY <1>1, OpenRows DEF BeginLease
  <1>3. up[u].started + UploadTimeout \in Nat
    <2>1. up[u].started \in Nat
      BY RequestFields, Zenon DEF UploadInv
    <2>2. QED
      BY <2>1, UploadConstants
  <1>4. a \in ArtifactRow /\ a.state = "uploading"
    BY <1>1, <1>3, Zenon DEF ArtifactRow
  <1>5. artifacts' = [artifacts EXCEPT ![i] = a] /\ imports' = [imports EXCEPT ![i] = "uploading"]
    BY <1>1, Zenon DEF BeginLease
  <1>6. "uploading" \in ImportStates /\ Beside(i, "uploading", "uploading")
    BY DEF ImportStates, Beside, ArtifactOf
  <1> HIDE DEF i, a
  <1>7. RowsSafe
    BY <1>1, <1>2, <1>4, <1>5, <1>6, RowsWritten, Zenon DEF RowsSafe
  <1>8. CASE Done(u, "error")
    BY <1>7, <1>8, EndedKnows, Zenon DEF Done, Results, RowsSafe
  <1>9. CASE Go(u, "session")
    <2>1. UploadTypeOK /\ Request(u) /\ UploadOf[u] \in Imports
      BY UploadConstants DEF UploadInv
    <2>2. /\ up' \in [Uploads -> UploadRequest]
          /\ \A v \in Uploads : v # u => up'[v] = up[v]
          /\ up'[u] = [up[u] EXCEPT !.pc = "session"]
      BY <1>9, <2>1, GoEffect, Zenon
    <2>3. /\ up'[u].pc = "session" /\ up'[u].body = up[u].body
          /\ up'[u].snap = up[u].snap /\ up'[u].result = up[u].result
      BY <2>1, <2>2, RequestFields, Zenon
    <2>4. Request(u)'
      BY <1>7, <2>1, <2>3 DEF RowsSafe, Request, Checked, SnapTrue, Honest, Kept
    <2>5. QED
      BY <1>7, <2>2, <2>4, OthersKeep DEF RowsSafe
  <1>10. QED
    BY <1>8, <1>9 DEF BeginLease, Reply

(* The refusals of BeginUpload, and every other step that writes no row and *)
(* ends the request, or goes on to end its attempt.                         *)
LEMMA EndsSafe ==
    ASSUME UploadInv, NEW u \in Uploads, up[u].pc # "new",
           NEW result \in Results \ {"receipt"}, NEW pc \in {"done", "cleanup", "release", "reject"},
           up' = [up EXCEPT ![u].pc = pc, ![u].result = result, ![u].meta = NoBlob],
           UNCHANGED <<imports, artifacts, blobs>>
    PROVE  up' \in [Uploads -> UploadRequest] /\ \A v \in Uploads : Request(v)'
  BY TablesKept, EndedKnows, Zenon

(* BeginUpload refuses: the lease is held or the state is final. *)
LEMMA BeginRefusedSafe ==
    ASSUME UploadInv, NEW u \in Uploads, up[u].pc = "locking", BeginRefused(u),
           UNCHANGED blobs
    PROVE  up' \in [Uploads -> UploadRequest] /\ \A v \in Uploads : Request(v)'
  <1>1. PICK result \in {"conflict", "in_progress", "lease_lost", "error"} : Done(u, result)
    BY DEF BeginRefused
  <1>2. QED
    BY <1>1, EndsSafe, Zenon DEF Done, Results, BeginRefused, Tables, Storage

(* The declared size is refused before a byte is read. *)
LEMMA RejectDeclaredSafe ==
    ASSUME UploadInv, NEW u \in Uploads, RejectDeclared(u)
    PROVE  up' \in [Uploads -> UploadRequest] /\ \A v \in Uploads : Request(v)'
  <1>1. PICK result \in {"too_large", "mismatch"} : EndWith(u, "reject", result)
    BY DEF RejectDeclared
  <1>2. QED
    BY <1>1, EndsSafe, Zenon DEF EndWith, Results, RejectDeclared, Tables, Storage

(* A call of the blob store fails. *)
LEMMA BlobFailsSafe ==
    ASSUME UploadInv, NEW u \in Uploads, BlobFails(u)
    PROVE  up' \in [Uploads -> UploadRequest] /\ \A v \in Uploads : Request(v)'
  BY EndsSafe, Zenon DEF EndWith, Results, BlobFails, Tables, Storage

(* A request whose attempt is being ended has not been given a receipt. *)
LEMMA EndingResult ==
    ASSUME UploadInv, NEW u \in Uploads, up[u].pc # "done"
    PROVE  up[u].result \in Results \ {"receipt"}
  BY RequestFields, Zenon DEF UploadInv, Request, Honest

(* A call of the database fails. *)
LEMMA DatabaseFailsSafe ==
    ASSUME UploadInv, NEW u \in Uploads, DatabaseFails(u)
    PROVE  up' \in [Uploads -> UploadRequest] /\ \A v \in Uploads : Request(v)'
  <1>1. up[u].pc # "new" /\ up[u].pc # "done" /\ UNCHANGED <<imports, artifacts, blobs>>
    BY DEF DatabaseFails, Tables, Storage
  <1>2. CASE Done(u, "error") \/ EndWith(u, "release", "error")
    BY <1>1, <1>2, EndsSafe, Zenon DEF Done, EndWith, Results
  <1>3. CASE Done(u, up[u].result)
    BY <1>1, <1>3, EndsSafe, EndingResult, Zenon DEF Done
  <1>4. QED
    BY <1>2, <1>3 DEF DatabaseFails

(* The server dies in the middle of an upload. *)
LEMMA CrashSafe ==
    ASSUME UploadInv, NEW u \in Uploads, Crash(u)
    PROVE  up' \in [Uploads -> UploadRequest] /\ \A v \in Uploads : Request(v)'
  BY EndsSafe, Zenon DEF Done, Results, Crash, Tables, Storage

(* The published object is compared with the body before it is recorded. *)
LEMMA StatSafe ==
    ASSUME UploadInv, NEW u \in Uploads, Stat(u)
    PROVE  up' \in [Uploads -> UploadRequest] /\ \A v \in Uploads : Request(v)'
  <1> DEFINE b == blobs[UploadOf[u]]
  <1>1. /\ UploadTypeOK /\ Request(u) /\ UploadOf[u] \in Imports /\ b \in Blob
        /\ up[u].pc = "session" /\ SizesAgree(u) /\ UNCHANGED <<imports, artifacts, blobs>>
    BY UploadConstants DEF UploadInv, UploadTypeOK, Stat, Tables, Storage
  <1>2. Kept
    BY <1>1, TablesKept
  <1>3. CASE Go(u, "put")
    <2>1. /\ up' \in [Uploads -> UploadRequest]
          /\ \A v \in Uploads : v # u => up'[v] = up[v]
          /\ up'[u] = [up[u] EXCEPT !.pc = "put"]
      BY <1>1, <1>3, GoEffect, Zenon
    <2>2. /\ up'[u].pc = "put" /\ up'[u].body = up[u].body
          /\ up'[u].snap = up[u].snap /\ up'[u].result = up[u].result
      BY <1>1, <2>1, RequestFields, Zenon
    <2>3. Request(u)'
      BY <1>1, <1>2, <2>2 DEF Request, Checked, SnapTrue, Honest, Kept, SizesAgree
    <2>4. QED
      BY <1>2, <2>1, <2>3, OthersKeep
  <1>4. CASE /\ b # NoBlob /\ VerifyContent(u, b.content)
             /\ up' = [up EXCEPT ![u].pc = "commit", ![u].meta = b]
    <2> DEFINE request == [up[u] EXCEPT !.pc = "commit", !.meta = b]
    <2>1. up \in [Uploads -> UploadRequest] /\ up[u] \in UploadRequest
      BY <1>1 DEF UploadTypeOK
    <2>2. request \in UploadRequest
      BY <1>1, <2>1, Zenon DEF UploadRequest
    <2>3. /\ up' \in [Uploads -> UploadRequest] /\ up'[u] = request
          /\ \A v \in Uploads : v # u => up'[v] = up[v]
      BY <1>4, <2>1, <2>2
    <2>4. /\ request.pc = "commit" /\ request.body = up[u].body /\ request.meta = b
          /\ request.snap = up[u].snap /\ request.result = up[u].result
      BY <2>1, Zenon DEF UploadRequest
    <2>5. Request(u)'
      BY <1>1, <1>2, <1>4, <2>3, <2>4
        DEF Request, Checked, SnapTrue, Honest, Kept, VerifyContent, NoBlob
    <2>6. QED
      BY <1>2, <2>3, <2>5, OthersKeep
  <1>5. CASE EndWith(u, "release", "conflict")
    BY <1>1, <1>5, EndsSafe, Zenon DEF EndWith, Results
  <1>6. QED
    BY <1>3, <1>4, <1>5 DEF Stat

(* What Put has verified meets the reservation's expectations.  The size is *)
(* compared with the declared one where there is one, which SizesAgree has  *)
(* compared with the expected one.                                          *)
LEMMA VerifiedExpected ==
    ASSUME UploadInv, NEW u \in Uploads, up[u].pc = "put", Bounded(u), VerifyExpected(u)
    PROVE  Expected(UploadOf[u], up[u].body.content)
  BY DEF UploadInv, Request, Checked, SizesAgree, Bounded, VerifyExpected, PutExpectedSize,
         Expected

(* The body is streamed, and verified against the reservation. *)
LEMMA PutStreamSafe ==
    ASSUME UploadInv, NEW u \in Uploads, PutStream(u)
    PROVE  up' \in [Uploads -> UploadRequest] /\ \A v \in Uploads : Request(v)'
  <1> DEFINE meta == [content |-> up[u].body.content, version |-> u, at |-> clock]
  <1>1. /\ UploadTypeOK /\ Request(u) /\ UploadOf[u] \in Imports /\ up[u].pc = "put"
        /\ UNCHANGED <<imports, artifacts, blobs>>
    BY UploadConstants DEF UploadInv, PutStream, Tables, Storage
  <1>2. Kept
    BY <1>1, TablesKept
  <1>3. CASE \/ EndWith(u, "release", "in_progress") \/ EndWith(u, "reject", "too_large")
             \/ EndWith(u, "reject", "mismatch")
    BY <1>1, <1>3, EndsSafe, Zenon DEF EndWith, Results
  <1>4. CASE /\ Bounded(u) /\ VerifyExpected(u)
             /\ up' = [up EXCEPT ![u].pc = "publish", ![u].meta = meta]
    <2> DEFINE request == [up[u] EXCEPT !.pc = "publish", !.meta = meta]
    <2>1. up \in [Uploads -> UploadRequest] /\ up[u] \in UploadRequest /\ clock \in Nat
      BY <1>1, UploadConstants DEF UploadTypeOK
    <2>2. meta \in Blob
      BY <1>1, <2>1 DEF Blob, Request, Checked
    <2>3. request \in UploadRequest
      BY <2>1, <2>2, Zenon DEF UploadRequest
    <2>4. /\ up' \in [Uploads -> UploadRequest] /\ up'[u] = request
          /\ \A v \in Uploads : v # u => up'[v] = up[v]
      BY <1>4, <2>1, <2>3
    <2>5. /\ request.pc = "publish" /\ request.body = up[u].body
          /\ request.meta.content = up[u].body.content
          /\ request.snap = up[u].snap /\ request.result = up[u].result
      BY <2>1 DEF UploadRequest
    <2>6. Expected(UploadOf[u], up[u].body.content)
      BY <1>1, <1>4, VerifiedExpected
    <2>7. Request(u)'
      BY <1>1, <1>2, <2>4, <2>5, <2>6 DEF Request, Checked, SnapTrue, Honest, Kept, Expected
    <2>8. QED
      BY <1>2, <2>4, <2>7, OthersKeep
  <1>5. QED
    BY <1>3, <1>4 DEF PutStream

(* An object appears only where there is none, and is a verified one. *)
LEMMA PutPublishSafe ==
    ASSUME UploadInv, NEW u \in Uploads, PutPublish(u)
    PROVE  /\ blobs' \in [Imports -> Blob]
           /\ RowsAgree' /\ EvidenceRecorded' /\ BlobsExpected' /\ Kept
           /\ up' \in [Uploads -> UploadRequest] /\ \A v \in Uploads : Request(v)'
  <1> DEFINE i == UploadOf[u]
  <1>1. /\ UploadTypeOK /\ Request(u) /\ i \in Imports /\ up[u].pc = "publish"
        /\ UNCHANGED <<imports, artifacts>> /\ blobs \in [Imports -> Blob]
    BY UploadConstants DEF UploadInv, UploadTypeOK, PutPublish, Tables, Storage
  <1>2. CASE EndWith(u, "cleanup", "in_progress") /\ UNCHANGED blobs
    BY <1>1, <1>2, EndsSafe, TablesKept, Zenon DEF EndWith, Results
  <1>3. CASE /\ blobs[i] = NoBlob /\ blobs' = [blobs EXCEPT ![i] = up[u].meta]
             /\ \/ Go(u, "commit")
                \/ \E result \in {"error", "in_progress"} : EndWith(u, "cleanup", result)
    <2>1. /\ up[u].meta \in Blob /\ up[u].meta.content = up[u].body.content
          /\ up[u].body.content \in Contents /\ Expected(i, up[u].meta.content)
      BY <1>1, RequestFields, Zenon DEF Request, Checked
    <2>2. up[u].meta # NoBlob
      BY <2>1, UploadConstants DEF NoBlob
    <2>3. /\ blobs' \in [Imports -> Blob] /\ blobs'[i] = up[u].meta
          /\ \A j \in Imports : j # i => blobs'[j] = blobs[j]
      BY <1>1, <1>3, <2>1, Zenon
    <2>4. artifacts[i].state # "committed"
      <3> SUFFICES ASSUME artifacts[i].state = "committed" PROVE FALSE
        BY Zenon
      <3>1. /\ NoBlob = [content |-> artifacts[i].sha256, version |-> artifacts[i].version,
                        at |-> artifacts[i].committedAt]
            /\ artifacts[i].sha256 \in ExpectedSHA256[i]
        BY <1>1, <1>3, Zenon DEF UploadInv, EvidenceRecorded, Expected
      <3>2. artifacts[i].sha256 = NoContent
        BY <3>1 DEF NoBlob
      <3>3. ExpectedSHA256[i] \subseteq Contents /\ NoContent \notin Contents
        BY <1>1, UploadConstants, Zenon
      <3>4. QED
        BY <3>1, <3>2, <3>3, Zenon
    <2>5. RowsAgree'
      BY <1>1 DEF UploadInv, RowsAgree
    <2>6. EvidenceRecorded'
      BY <1>1, <2>3, <2>4, Zenon DEF UploadInv, EvidenceRecorded, Expected
    <2>7. BlobsExpected'
      BY <2>1, <2>3, Zenon DEF UploadInv, BlobsExpected, Expected, NoBlob
    <2>8. Kept
      BY <1>1, <1>3, <2>3 DEF Kept
    <2>9. CASE \E result \in {"error", "in_progress"} : EndWith(u, "cleanup", result)
      BY <1>1, <2>3, <2>5, <2>6, <2>7, <2>8, <2>9, EndedKnows, Zenon DEF EndWith, Results
    <2>10. CASE Go(u, "commit")
      <3>1. /\ up' \in [Uploads -> UploadRequest]
            /\ \A v \in Uploads : v # u => up'[v] = up[v]
            /\ up'[u] = [up[u] EXCEPT !.pc = "commit"]
        BY <1>1, <2>10, GoEffect, Zenon
      <3>2. /\ up'[u].pc = "commit" /\ up'[u].body = up[u].body /\ up'[u].meta = up[u].meta
            /\ up'[u].snap = up[u].snap /\ up'[u].result = up[u].result
        BY <1>1, <3>1, RequestFields, Zenon
      <3>3. Request(u)'
        BY <1>1, <2>1, <2>2, <2>3, <2>8, <3>2, Zenon
          DEF Request, Checked, SnapTrue, Honest, Kept, NoBlob
      <3>4. QED
        BY <2>3, <2>5, <2>6, <2>7, <2>8, <3>1, <3>3, OthersKeep
    <2>11. QED
      BY <1>3, <2>9, <2>10
  <1>4. QED
    BY <1>2, <1>3 DEF PutPublish

(* A Put that published nothing, or thinks so, removes its bytes. *)
LEMMA PutCleanupSafe ==
    ASSUME UploadInv, NEW u \in Uploads, PutCleanup(u)
    PROVE  up' \in [Uploads -> UploadRequest] /\ \A v \in Uploads : Request(v)'
  <1>1. /\ UploadTypeOK /\ Request(u) /\ UploadOf[u] \in Imports /\ up[u].pc = "cleanup"
        /\ UNCHANGED <<imports, artifacts, blobs>> /\ Go(u, "release")
    BY UploadConstants DEF UploadInv, PutCleanup, Tables, Storage
  <1>2. Kept
    BY <1>1, TablesKept
  <1>3. /\ up' \in [Uploads -> UploadRequest]
        /\ \A v \in Uploads : v # u => up'[v] = up[v]
        /\ up'[u] = [up[u] EXCEPT !.pc = "release"]
    BY <1>1, GoEffect, Zenon
  <1>4. /\ up'[u].pc = "release" /\ up'[u].body = up[u].body
        /\ up'[u].snap = up[u].snap /\ up'[u].result = up[u].result
    BY <1>1, <1>3, RequestFields, Zenon
  <1>5. Request(u)'
    BY <1>1, <1>2, <1>4 DEF Request, Checked, SnapTrue, Honest, Kept
  <1>6. QED
    BY <1>2, <1>3, <1>5, OthersKeep

(* The object that is recorded is the published one and the request's own. *)
LEMMA CommitUploadSafe ==
    ASSUME UploadInv, NEW u \in Uploads, CommitUpload(u)
    PROVE  /\ RowsSafe
           /\ up' \in [Uploads -> UploadRequest] /\ \A v \in Uploads : Request(v)'
  <1> DEFINE i == UploadOf[u]
             a == [state |-> "committed", attempt |-> NoUpload, lease |-> 0,
                   sha256 |-> up[u].meta.content, version |-> up[u].meta.version,
                   committedAt |-> up[u].meta.at]
  <1>1. /\ UploadTypeOK /\ Request(u) /\ i \in Imports /\ up[u].pc = "commit" /\ UNCHANGED blobs
        /\ imports \in [Imports -> ImportStates] /\ artifacts \in [Imports -> ArtifactRow]
    BY UploadConstants DEF UploadInv, UploadTypeOK, CommitUpload, Storage
  <1>2. CASE EndWith(u, "release", "lease_lost") /\ UNCHANGED Tables
    BY <1>1, <1>2, EndsSafe, TablesKept, Zenon DEF EndWith, Results, Tables, Storage, RowsSafe
  <1>3. CASE /\ CommitMatches(u)
             /\ artifacts' = [artifacts EXCEPT ![i] = a]
             /\ imports' = [imports EXCEPT ![i] = "uploaded"]
             /\ Reply(u, Done(u, "receipt"), EndWith(u, "release", "error"))
    <2>1. /\ blobs[i] # NoBlob /\ up[u].meta = blobs[i] /\ up[u].meta.content = up[u].body.content
      BY <1>1 DEF Request, Checked
    <2>2. up[u].meta \in Blob
      BY <1>1, RequestFields, Zenon
    <2>3. a \in ArtifactRow /\ a.state = "committed" /\ a.sha256 = up[u].meta.content
      BY <2>2, Zenon DEF Blob, ArtifactRow
    <2>4. blobs[i] = [content |-> a.sha256, version |-> a.version, at |-> a.committedAt]
      BY <2>1, <2>2, Zenon DEF Blob
    <2>5. artifacts[i].state # "committed"
      BY <1>3 DEF CommitMatches
    <2>6. "uploaded" \in ImportStates /\ Beside(i, "uploaded", "committed")
      BY Zenon DEF ImportStates, Beside, ArtifactOf
    <2>7. artifacts'[i] = a
      BY <1>1, <1>3
    <2> HIDE DEF a
    <2>8. RowsSafe
      BY <1>1, <1>3, <2>1, <2>3, <2>4, <2>5, <2>6, RowsWritten, Zenon DEF RowsSafe
    <2>9. CASE EndWith(u, "release", "error")
      BY <1>1, <2>8, <2>9, EndedKnows, Zenon DEF EndWith, Results, RowsSafe
    <2>10. CASE Done(u, "receipt")
      <3>1. /\ up' \in [Uploads -> UploadRequest]
            /\ \A v \in Uploads : v # u => up'[v] = up[v]
            /\ up'[u].pc = "done" /\ up'[u].result = "receipt"
            /\ up'[u].body = up[u].body /\ up'[u].snap = up[u].snap
        BY <1>1, <2>10, DoneEffect, Zenon DEF Done, Results
      <3>2. Request(u)'
        BY <1>1, <2>1, <2>3, <2>5, <2>7, <2>8, <3>1
          DEF RowsSafe, Request, Checked, SnapTrue, Honest, Kept
      <3>3. QED
        BY <2>8, <3>1, <3>2, OthersKeep DEF RowsSafe
    <2>11. QED
      BY <1>3, <2>9, <2>10, Zenon DEF Reply
  <1>4. QED
    BY <1>2, <1>3, Zenon DEF CommitUpload

(* The lease is given back, or the import rejected. *)
LEMMA EndUploadSafe ==
    ASSUME UploadInv, NEW u \in Uploads, EndUpload(u)
    PROVE  /\ RowsSafe
           /\ up' \in [Uploads -> UploadRequest] /\ \A v \in Uploads : Request(v)'
  <1> DEFINE i == UploadOf[u]
             reject == up[u].pc = "reject"
             s == IF reject THEN "rejected" ELSE "awaiting_upload"
             a == [artifacts[i] EXCEPT !.state = IF reject THEN "rejected" ELSE "pending",
                                       !.attempt = NoUpload, !.lease = 0]
  <1>1. /\ UploadTypeOK /\ i \in Imports /\ up[u].pc \in {"release", "reject"}
        /\ UNCHANGED blobs /\ artifacts[i] \in ArtifactRow
        /\ imports \in [Imports -> ImportStates] /\ artifacts \in [Imports -> ArtifactRow]
    BY UploadConstants DEF UploadInv, UploadTypeOK, EndUpload, Storage
  <1>2. RowsSafe
    <2>1. CASE UNCHANGED Tables
      BY <1>1, <2>1, TablesKept DEF Tables, Storage, RowsSafe
    <2>2. CASE /\ EndMatches(u) /\ artifacts' = [artifacts EXCEPT ![i] = a]
               /\ imports' = [imports EXCEPT ![i] = s]
      <3>1. s \in ImportStates /\ a \in ArtifactRow
        BY <1>1, Zenon DEF ImportStates, ArtifactRow
      <3>2. Beside(i, s, a.state) /\ a.state # "committed"
        BY <1>1 DEF ArtifactRow, Beside, ArtifactOf
      <3>3. artifacts[i].state # "committed"
        BY <2>2 DEF EndMatches
      <3> HIDE DEF a, s
      <3>4. QED
        BY <1>1, <2>2, <3>1, <3>2, <3>3, RowsWritten, Zenon DEF RowsSafe
    <2>3. QED
      BY <1>1, <2>1, <2>2, Zenon DEF EndUpload
  <1>3. Done(u, up[u].result) /\ up[u].result \in Results \ {"receipt"}
    BY <1>1, EndingResult DEF EndUpload
  <1>4. QED
    BY <1>1, <1>2, <1>3, EndedKnows, Zenon DEF Done, RowsSafe

-----------------------------------------------------------------------------
(* Completions, time, and the invariant. *)

(* Upload requests leave the completions alone, and count their faults. *)
LEMMA UploadRest ==
    ASSUME UploadTypeOK, NEW u \in Uploads, UploadStep(u)
    PROVE  /\ clock' = clock /\ UNCHANGED <<operations, claims, comp>>
           /\ faults' \in 0..MaxFaults
           /\ bytes' \subseteq Uploads /\ misinformed' \subseteq Uploads
  <1>1. /\ faults \in 0..MaxFaults /\ MaxFaults \in Nat
        /\ bytes \subseteq Uploads /\ misinformed \subseteq Uploads
    BY UploadConstants DEF UploadTypeOK
  <1>2. Fault => faults' \in 0..MaxFaults
    BY <1>1 DEF Fault
  <1>3. faults' = faults \/ Fault
    BY Zenon DEF UploadStep, Upload, BeginRead, BeginUpload, BeginReplay, BeginExpired,
           BeginLease, BeginRefused, RejectDeclared, Stat, PutStream, PutPublish, PutCleanup,
           BlobFails, CommitUpload, EndUpload, DatabaseFails, Crash, Reply
  <1>4. clock' = clock /\ UNCHANGED <<operations, claims, comp>>
    BY DEF UploadStep, Upload, BeginRead, BeginUpload, RejectDeclared, Stat, PutStream,
           PutPublish, PutCleanup, BlobFails, CommitUpload, EndUpload, DatabaseFails, Crash,
           Completion
  <1>5. bytes' \in {bytes, bytes \cup {u}, bytes \ {u}}
    BY Zenon DEF UploadStep, Upload, BeginRead, BeginUpload, RejectDeclared, Stat, PutStream,
           PutPublish, PutCleanup, BlobFails, CommitUpload, EndUpload, DatabaseFails, Crash,
           Storage
  <1>6. misinformed' \in {misinformed, misinformed \cup {u}}
    BY Zenon DEF UploadStep, Upload, BeginRead, BeginUpload, RejectDeclared, Stat, PutStream,
           PutPublish, PutCleanup, BlobFails, CommitUpload, EndUpload, DatabaseFails, Crash,
           Storage
  <1>7. QED
    BY <1>1, <1>2, <1>3, <1>4, <1>5, <1>6

Safe ==
    /\ RowsSafe /\ blobs' \in [Imports -> Blob]
    /\ up' \in [Uploads -> UploadRequest] /\ \A v \in Uploads : Request(v)'

(* Every step of an upload keeps what holds of the rows, the objects and    *)
(* all requests.                                                            *)
LEMMA UploadStepSafe ==
    ASSUME UploadInv, NEW u \in Uploads, UploadStep(u)
    PROVE  Safe
  <1>1. /\ imports \in [Imports -> ImportStates] /\ artifacts \in [Imports -> ArtifactRow]
        /\ blobs \in [Imports -> Blob]
    BY DEF UploadInv, UploadTypeOK
  <1>2. UNCHANGED <<imports, artifacts, blobs>> => RowsSafe /\ blobs' \in [Imports -> Blob]
    BY <1>1, TablesKept DEF RowsSafe
  <1>3. CASE Upload(u)
    BY <1>2, <1>3, UploadSafe, Zenon DEF Upload, Tables, Storage, Safe
  <1>4. CASE BeginRead(u)
    BY <1>2, <1>4, BeginReadSafe, Zenon DEF BeginRead, Tables, Storage, Safe
  <1>5. CASE BeginUpload(u)
    <2>1. up[u].pc = "locking" /\ UNCHANGED blobs
      BY <1>5, Zenon DEF BeginUpload, Storage
    <2>2. CASE BeginReplay(u)
      BY <1>2, <2>1, <2>2, BeginReplaySafe DEF BeginReplay, Tables, Storage, Safe
    <2>3. CASE BeginExpired(u)
      BY <1>1, <2>1, <2>3, BeginExpiredSafe DEF Safe
    <2>4. CASE BeginLease(u)
      BY <1>1, <2>1, <2>4, BeginLeaseSafe DEF Safe
    <2>5. CASE BeginRefused(u)
      BY <1>2, <2>1, <2>5, BeginRefusedSafe, Zenon DEF BeginRefused, Tables, Storage, Safe
    <2>6. QED
      BY <1>5, <2>2, <2>3, <2>4, <2>5 DEF BeginUpload
  <1>6. CASE RejectDeclared(u)
    BY <1>2, <1>6, RejectDeclaredSafe DEF RejectDeclared, Tables, Storage, Safe
  <1>7. CASE Stat(u)
    BY <1>2, <1>7, StatSafe DEF Stat, Tables, Storage, Safe
  <1>8. CASE PutStream(u)
    BY <1>2, <1>8, PutStreamSafe, Zenon DEF PutStream, Tables, Storage, Safe
  <1>9. CASE PutPublish(u)
    BY <1>1, <1>9, PutPublishSafe, Zenon DEF PutPublish, Tables, Storage, Safe, RowsSafe
  <1>10. CASE PutCleanup(u)
    BY <1>2, <1>10, PutCleanupSafe, Zenon DEF PutCleanup, Tables, Storage, Safe
  <1>11. CASE BlobFails(u)
    BY <1>2, <1>11, BlobFailsSafe, Zenon DEF BlobFails, Tables, Storage, Safe
  <1>12. CASE CommitUpload(u)
    BY <1>1, <1>12, CommitUploadSafe DEF CommitUpload, Storage, Safe
  <1>13. CASE EndUpload(u)
    BY <1>1, <1>13, EndUploadSafe, Zenon DEF EndUpload, Storage, Safe
  <1>14. CASE DatabaseFails(u)
    BY <1>2, <1>14, DatabaseFailsSafe, Zenon DEF DatabaseFails, Tables, Storage, Safe
  <1>15. CASE Crash(u)
    BY <1>2, <1>15, CrashSafe DEF Crash, Tables, Storage, Safe
  <1>16. QED
    BY <1>3, <1>4, <1>5, <1>6, <1>7, <1>8, <1>9, <1>10, <1>11, <1>12, <1>13,
       <1>14, <1>15 DEF UploadStep

(* A completion request has its reply. *)
LEMMA ReportedEffect ==
    ASSUME UploadTypeOK, NEW c \in Completes, NEW op \in Completes \cup {NoOperation},
           NEW result \in Results, Reported(c, op, result)
    PROVE  /\ comp' \in [Completes -> CompleteRequest]
           /\ \A d \in Completes : d # c => comp'[d] = comp[d]
           /\ comp'[c].pc = "done" /\ comp'[c].op = op /\ comp'[c].result = result
  <1> DEFINE request == [comp[c] EXCEPT !.pc = "done", !.op = op, !.result = result]
  <1>1. comp \in [Completes -> CompleteRequest] /\ comp[c] \in CompleteRequest
    BY DEF UploadTypeOK
  <1>2. request \in CompleteRequest
    BY <1>1, Zenon DEF CompleteRequest
  <1>3. request.pc = "done" /\ request.op = op /\ request.result = result
    BY <1>1 DEF CompleteRequest
  <1>4. comp' = [comp EXCEPT ![c] = request]
    BY <1>1, Zenon DEF Reported
  <1> HIDE DEF request
  <1>5. QED
    BY <1>1, <1>2, <1>3, <1>4

(* The request that takes its key for a completion. *)
LEMMA ClaimEffect ==
    ASSUME UploadTypeOK, NEW c \in Completes,
           comp' = [comp EXCEPT ![c].pc = "locking", ![c].snap = artifacts[CompleteOf[c]]]
    PROVE  /\ comp' \in [Completes -> CompleteRequest]
           /\ \A d \in Completes : d # c => comp'[d] = comp[d]
           /\ comp'[c].pc = "locking" /\ comp'[c].op = comp[c].op
           /\ comp'[c].result = comp[c].result /\ comp'[c].snap = artifacts[CompleteOf[c]]
  <1> DEFINE snap == artifacts[CompleteOf[c]]
             request == [comp[c] EXCEPT !.pc = "locking", !.snap = snap]
  <1>1. comp \in [Completes -> CompleteRequest] /\ comp[c] \in CompleteRequest
    BY DEF UploadTypeOK
  <1>2. snap \in ArtifactRow
    BY UploadConstants, Zenon DEF UploadTypeOK
  <1>3. comp' = [comp EXCEPT ![c] = request]
    BY <1>1, Zenon
  <1> HIDE DEF snap
  <1>4. request \in CompleteRequest
    BY <1>1, <1>2, Zenon DEF CompleteRequest
  <1>5. /\ request.pc = "locking" /\ request.snap = snap
        /\ request.op = comp[c].op /\ request.result = comp[c].result
    BY <1>1 DEF CompleteRequest
  <1> HIDE DEF request
  <1>6. QED
    BY <1>1, <1>3, <1>4, <1>5, ZenonT(60) DEF snap

(* Completing an import leaves uploads, artifacts and objects alone. *)
LEMMA CompleteStepTypes ==
    ASSUME UploadInv, NEW c \in Completes, CompleteStep(c)
    PROVE  /\ operations' \subseteq [id : Completes, import : Imports]
           /\ claims' \in [Keys -> Completes \cup {NoOperation}]
           /\ comp' \in [Completes -> CompleteRequest]
           /\ faults' \in 0..MaxFaults
           /\ UNCHANGED <<clock, artifacts, blobs, bytes, misinformed, up>>
  <1>1. /\ UploadTypeOK /\ CompleteOf[c] \in Imports /\ KeyOf[c] \in Keys
        /\ operations \subseteq [id : Completes, import : Imports]
        /\ claims \in [Keys -> Completes \cup {NoOperation}]
        /\ comp \in [Completes -> CompleteRequest]
        /\ faults \in 0..MaxFaults /\ MaxFaults \in Nat
    BY UploadConstants, Zenon DEF UploadInv, UploadTypeOK
  <1>2. Fault => faults' \in 0..MaxFaults
    BY <1>1 DEF Fault
  <1>3. CASE CompleteClaim(c)
    <2>1. claims[KeyOf[c]] \in Completes \cup {NoOperation}
      BY <1>1
    <2>2. comp' \in [Completes -> CompleteRequest]
      <3>1. CASE \/ Reported(c, NoOperation, "in_progress")
                 \/ Reported(c, NoOperation, "conflict")
                 \/ Reported(c, claims[KeyOf[c]], "receipt")
        BY <1>1, <2>1, <3>1, ReportedEffect DEF Results
      <3>2. CASE comp' = [comp EXCEPT ![c].pc = "locking",
                                      ![c].snap = artifacts[CompleteOf[c]]]
        BY <1>1, <3>2, ClaimEffect, Zenon
      <3>3. QED
        BY <1>3, <3>1, <3>2, Zenon DEF CompleteClaim
    <2>3. QED
      BY <1>1, <1>3, <2>2, Zenon DEF CompleteClaim, Uploading, Storage
  <1>4. CASE Complete(c)
    <2>1. comp' \in [Completes -> CompleteRequest]
      BY <1>1, <1>4, ReportedEffect DEF Complete, Results
    <2>2. [id |-> c, import |-> CompleteOf[c]] \in [id : Completes, import : Imports]
      BY <1>1, Zenon
    <2>3. operations' \subseteq [id : Completes, import : Imports]
      BY <1>1, <1>4, <2>2, Zenon DEF Complete
    <2>4. claims' \in [Keys -> Completes \cup {NoOperation}]
      BY <1>1, <1>4, Zenon DEF Complete
    <2>5. faults' \in 0..MaxFaults /\ UNCHANGED <<clock, artifacts, Storage, up>>
      BY <1>1, <1>2, <1>4, Zenon DEF Complete
    <2>6. QED
      BY <2>1, <2>3, <2>4, <2>5, Zenon DEF Storage
  <1>5. CASE CompleteFails(c)
    <2>1. comp' \in [Completes -> CompleteRequest]
      BY <1>1, <1>5, ReportedEffect DEF CompleteFails, Results
    <2>2. QED
      BY <1>1, <1>2, <1>5, <2>1, Zenon DEF CompleteFails, Uploading, Storage
  <1>6. QED
    BY <1>3, <1>4, <1>5 DEF CompleteStep

(* A completion moves an uploaded import on, whose artifact is committed. *)
LEMMA CompleteStepSafe ==
    ASSUME UploadInv, NEW c \in Completes, CompleteStep(c)
    PROVE  Safe
  <1>1. UNCHANGED <<artifacts, blobs, up>>
    BY CompleteStepTypes
  <1>2. /\ imports \in [Imports -> ImportStates] /\ artifacts \in [Imports -> ArtifactRow]
        /\ blobs \in [Imports -> Blob] /\ up \in [Uploads -> UploadRequest]
        /\ CompleteOf[c] \in Imports
    BY UploadConstants DEF UploadInv, UploadTypeOK
  <1>3. imports' \in [Imports -> ImportStates] /\ RowsAgree'
    <2>1. CASE UNCHANGED imports
      BY <1>1, <1>2, <2>1 DEF UploadInv, RowsAgree
    <2>2. CASE /\ imports[CompleteOf[c]] = "uploaded"
               /\ imports' = [imports EXCEPT ![CompleteOf[c]] = "queued"]
      <3>1. imports' \in [Imports -> ImportStates]
        BY <1>2, <2>2 DEF ImportStates
      <3>2. RowsAgree'
        BY <1>1, <1>2, <2>2, Zenon DEF UploadInv, RowsAgree, ArtifactOf
      <3>3. QED
        BY <3>1, <3>2
    <2>3. QED
      BY <2>1, <2>2 DEF CompleteStep, CompleteClaim, Complete, Completable, CompleteFails,
                        Uploading
  <1>4. EvidenceRecorded' /\ BlobsExpected' /\ Kept
    BY <1>1, Zenon DEF UploadInv, EvidenceRecorded, BlobsExpected, Kept, Expected, NoBlob
  <1>5. \A v \in Uploads : Request(v)'
    BY <1>1, <1>4, OthersKeep
  <1>6. QED
    BY <1>1, <1>2, <1>3, <1>4, <1>5 DEF Safe, RowsSafe

(* Reserved imports, no objects, no requests. *)
LEMMA UploadInitially ==
    ASSUME Init PROVE UploadInv
  <1>1. /\ \A state \in {"absent", "pending"} :
              Unwritten(state) \in ArtifactRow /\ Unwritten(state).state = state
        /\ NoBlob \in Blob
    BY Zenon DEF Unwritten, ArtifactRow, NoBlob, Blob
  <1>2. clock \in 0..MaxTime /\ faults \in 0..MaxFaults
    BY UploadConstants DEF Init
  <1>3. imports \in [Imports -> ImportStates]
    BY DEF Init, ImportStates
  <1>4. artifacts \in [Imports -> ArtifactRow] /\ blobs \in [Imports -> Blob]
    BY <1>1, Zenon DEF Init
  <1>5. up \in [Uploads -> UploadRequest]
    BY <1>1, Zenon DEF Init, UploadRequest, Results
  <1>6. /\ operations \subseteq [id : Completes, import : Imports]
        /\ claims \in [Keys -> Completes \cup {NoOperation}]
    BY Zenon DEF Init
  <1>7. comp \in [Completes -> CompleteRequest]
    BY <1>1 DEF Init, CompleteRequest, Results
  <1>8. RowsAgree /\ EvidenceRecorded /\ BlobsExpected
    BY <1>1, Zenon DEF Init, RowsAgree, ArtifactOf, EvidenceRecorded, BlobsExpected
  <1>9. \A u \in Uploads : Request(u)
    BY <1>1 DEF Init, Request, Checked, SnapTrue, Honest
  <1>10. bytes \subseteq Uploads /\ misinformed \subseteq Uploads
    BY DEF Init
  <1>11. QED
    BY <1>2, <1>3, <1>4, <1>5, <1>6, <1>7, <1>8, <1>9, <1>10, Zenon
      DEF UploadInv, UploadTypeOK

(* The invariant is inductive, and evidence is kept. *)
LEMMA UploadStepsSafe ==
    ASSUME UploadInv, [Next]_vars
    PROVE  UploadInv' /\ Kept
  <1>1. /\ UploadTypeOK
        /\ imports \in [Imports -> ImportStates] /\ artifacts \in [Imports -> ArtifactRow]
        /\ blobs \in [Imports -> Blob] /\ bytes \subseteq Uploads
        /\ misinformed \subseteq Uploads /\ up \in [Uploads -> UploadRequest]
        /\ clock \in 0..MaxTime /\ faults \in 0..MaxFaults
        /\ operations \subseteq [id : Completes, import : Imports]
        /\ claims \in [Keys -> Completes \cup {NoOperation}]
        /\ comp \in [Completes -> CompleteRequest]
    BY Zenon DEF UploadInv, UploadTypeOK
  <1>2. CASE \E u \in Uploads : UploadStep(u)
    <2>1. PICK u \in Uploads : UploadStep(u)
      BY <1>2
    <2>2. /\ clock' = clock /\ UNCHANGED <<operations, claims, comp>>
          /\ faults' \in 0..MaxFaults
          /\ bytes' \subseteq Uploads /\ misinformed' \subseteq Uploads
      BY <1>1, <2>1, UploadRest
    <2>3. Safe
      BY <2>1, UploadStepSafe, Zenon
    <2>4. QED
      BY <1>1, <2>2, <2>3 DEF UploadInv, UploadTypeOK, Safe, RowsSafe
  <1>3. CASE \E c \in Completes : CompleteStep(c)
    <2>1. PICK c \in Completes : CompleteStep(c)
      BY <1>3
    <2>2. /\ operations' \subseteq [id : Completes, import : Imports]
          /\ claims' \in [Keys -> Completes \cup {NoOperation}]
          /\ comp' \in [Completes -> CompleteRequest]
          /\ faults' \in 0..MaxFaults /\ UNCHANGED <<clock, bytes, misinformed>>
      BY <2>1, CompleteStepTypes
    <2>3. Safe
      BY <2>1, CompleteStepSafe
    <2>4. QED
      BY <1>1, <2>2, <2>3 DEF UploadInv, UploadTypeOK, Safe, RowsSafe
  <1>4. CASE Tick \/ UNCHANGED vars
    <2>1. /\ UNCHANGED <<faults, imports, artifacts, blobs, bytes, misinformed, up,
                         operations, claims, comp>>
          /\ clock' \in 0..MaxTime
      BY <1>1, <1>4, UploadConstants DEF Tick, Tables, Storage, Completion, vars
    <2>2. RowsAgree' /\ EvidenceRecorded' /\ BlobsExpected' /\ Kept
      BY <2>1, TablesKept
    <2>3. \A v \in Uploads : Request(v)'
      BY <2>1, <2>2, OthersKeep, Zenon
    <2>4. UploadTypeOK'
      BY <1>1, <2>1 DEF UploadTypeOK
    <2>5. QED
      BY <2>2, <2>3, <2>4, Zenon DEF UploadInv
  <1>5. QED
    BY <1>2, <1>3, <1>4 DEF Next

(* The invariant of the upload holds in every reachable state. *)
LEMMA UploadInvariant == Spec => []UploadInv
  <1>1. Init => UploadInv
    BY UploadInitially
  <1>2. UploadInv /\ [Next]_vars => UploadInv'
    BY UploadStepsSafe
  <1>3. QED
    BY <1>1, <1>2, PTL DEF Spec

(* The import and its artifact row agree in every reachable state           *)
(* (ingestion/postgres.go, every transaction of the upload protocol).       *)
THEOREM UploadRowsAgree == Spec => []RowsAgree
  <1>1. UploadInv => RowsAgree
    BY Zenon DEF UploadInv
  <1>2. QED
    BY <1>1, UploadInvariant, PTL

(* Whoever holds a receipt sent the committed bytes (verifyContent,         *)
(* verifyReplay and CommitUpload).                                          *)
THEOREM UploadReceiptHonest == Spec => []ReceiptHonest
  <1>1. UploadInv => ReceiptHonest
    BY DEF UploadInv, Request, Honest, ReceiptHonest
  <1>2. QED
    BY <1>1, UploadInvariant, PTL

(* Published objects and committed rows never change (the manifest that is  *)
(* created only where there is none, and the guards of the row updates).    *)
THEOREM UploadEvidenceFinal == Spec => EvidenceFinal
  <1>1. UploadInv /\ [Next]_vars =>
          [\A i \in Imports :
              /\ blobs[i] # NoBlob => blobs'[i] = blobs[i]
              /\ artifacts[i].state = "committed" => artifacts'[i] = artifacts[i]]_vars
    BY UploadStepsSafe, Zenon DEF Kept
  <1>2. QED
    BY <1>1, UploadInvariant, PTL DEF Spec, EvidenceFinal

-----------------------------------------------------------------------------
(* Fencing. *)

(* A request that writes the artifact row held the lease, takes it, or      *)
(* abandons an expired reservation; and only rows of its own import.        *)
LEMMA ArtifactWriter ==
    ASSUME UploadInv, NEW u \in Uploads, UploadStep(u), NEW i \in Imports,
           artifacts'[i] # artifacts[i], artifacts[i].state = "uploading"
    PROVE  artifacts[i].attempt = u \/ artifacts'[i].attempt = u \/ artifacts'[i].state = "abandoned"
  <1> DEFINE j == UploadOf[u]
  <1>1. /\ artifacts \in [Imports -> ArtifactRow] /\ artifacts[i] \in ArtifactRow
        /\ j \in Imports
    BY UploadConstants, Zenon DEF UploadInv, UploadTypeOK
  <1>2. \/ BeginExpired(u) \/ BeginLease(u)
        \/ CommitUpload(u) /\ CommitMatches(u)
        \/ EndUpload(u) /\ EndMatches(u)
    <2>1. artifacts' # artifacts
      BY Zenon
    <2>2. CommitUpload(u) => CommitMatches(u)
      BY <2>1 DEF CommitUpload, Tables, Storage
    <2>3. EndUpload(u) => EndMatches(u)
      BY <2>1 DEF EndUpload, Tables, Storage
    <2>4. BeginUpload(u) => BeginExpired(u) \/ BeginLease(u)
      BY <2>1, Zenon DEF BeginUpload, BeginReplay, BeginRefused, Tables, Storage
    <2>5. BeginUpload(u) \/ CommitUpload(u) \/ EndUpload(u)
      BY <2>1 DEF UploadStep, Upload, BeginRead, RejectDeclared, Stat, PutStream, PutPublish,
                  PutCleanup, BlobFails, DatabaseFails, Crash, Tables, Storage
    <2>6. QED
      BY <2>2, <2>3, <2>4, <2>5
  <1>3. CASE BeginExpired(u)
    <2>1. i = j /\ up[u].snap.state # "absent"
      BY <1>1, <1>3 DEF BeginExpired
    <2>2. artifacts'[i] = [artifacts[i] EXCEPT !.state = "abandoned", !.attempt = NoUpload,
                                               !.lease = 0]
      BY <1>1, <1>3, <2>1, Zenon DEF BeginExpired
    <2>3. QED
      BY <1>1, <2>2 DEF ArtifactRow
  <1>4. CASE BeginLease(u)
    <2>1. i = j
      BY <1>1, <1>4 DEF BeginLease
    <2>2. artifacts'[i] = [artifacts[i] EXCEPT !.state = "uploading", !.attempt = u,
                                               !.lease = up[u].started + UploadTimeout]
      BY <1>1, <1>4, <2>1, Zenon DEF BeginLease
    <2>3. QED
      BY <1>1, <2>2 DEF ArtifactRow
  <1>5. CASE CommitUpload(u) /\ CommitMatches(u)
    BY <1>1, <1>5 DEF CommitUpload, CommitMatches
  <1>6. CASE EndUpload(u) /\ EndMatches(u)
    BY <1>1, <1>6, Zenon DEF EndUpload, EndMatches
  <1>7. QED
    BY <1>2, <1>3, <1>4, <1>5, <1>6, Zenon

(* A step of a request changes no other request. *)
LEMMA OneRequestMoves ==
    ASSUME UploadInv, NEW u \in Uploads, UploadStep(u), NEW v \in Uploads, v # u
    PROVE  up'[v] = up[v]
  <1>1. up \in [Uploads -> UploadRequest]
    BY DEF UploadInv, UploadTypeOK
  <1>2. \A pc : Go(u, pc) => up'[v] = up[v]
    BY <1>1 DEF Go
  <1>3. \A result : Done(u, result) => up'[v] = up[v]
    BY <1>1 DEF Done
  <1>4. \A how, result : EndWith(u, how, result) => up'[v] = up[v]
    BY <1>1 DEF EndWith
  <1>5. CASE Upload(u) \/ BeginRead(u)
    BY <1>1, <1>5, Zenon DEF Upload, BeginRead
  <1>6. CASE BeginUpload(u)
    BY <1>2, <1>3, <1>6 DEF BeginUpload, BeginReplay, BeginExpired, BeginLease, BeginRefused,
                            Reply
  <1>7. CASE Stat(u) \/ PutStream(u)
    BY <1>1, <1>2, <1>4, <1>7, Zenon DEF Stat, PutStream
  <1>8. CASE \/ RejectDeclared(u) \/ PutPublish(u) \/ PutCleanup(u) \/ BlobFails(u)
           \/ CommitUpload(u)
    BY <1>2, <1>3, <1>4, <1>8
      DEF RejectDeclared, PutPublish, PutCleanup, BlobFails, CommitUpload, Reply
  <1>9. CASE EndUpload(u) \/ DatabaseFails(u) \/ Crash(u)
    BY <1>3, <1>4, <1>9 DEF EndUpload, DatabaseFails, Crash
  <1>10. QED
    BY <1>5, <1>6, <1>7, <1>8, <1>9 DEF UploadStep

(* The upload lease is fenced: the upload_attempt_id that CommitUpload and  *)
(* EndUpload compare keeps every other attempt from ending the upload.      *)
THEOREM UploadAttemptFenced == Spec => AttemptFenced
  <1>1. UploadInv /\ [Next]_vars =>
          [\A i \in Imports, u \in Uploads :
              /\ artifacts[i].state = "uploading" /\ artifacts[i].attempt # u
              /\ up'[u] # up[u] /\ artifacts'[i] # artifacts[i]
              => \/ artifacts'[i].attempt = u
                 \/ artifacts'[i].state = "abandoned"]_vars
    <2> SUFFICES ASSUME UploadInv, Next, NEW i \in Imports, NEW u \in Uploads,
                        artifacts[i].state = "uploading", artifacts[i].attempt # u,
                        up'[u] # up[u], artifacts'[i] # artifacts[i]
                 PROVE  artifacts'[i].attempt = u \/ artifacts'[i].state = "abandoned"
      OBVIOUS
    <2>1. CASE \E v \in Uploads : UploadStep(v)
      BY <2>1, ArtifactWriter, OneRequestMoves, Zenon
    <2>2. CASE \E c \in Completes : CompleteStep(c)
      BY <2>2, CompleteStepTypes
    <2>3. CASE Tick
      BY <2>3, Zenon DEF Tick, Tables, Storage
    <2>4. QED
      BY <2>1, <2>2, <2>3, Zenon DEF Next
  <1>2. QED
    BY <1>1, UploadInvariant, PTL DEF Spec, AttemptFenced

-----------------------------------------------------------------------------
(* The bytes behind the manifests. *)

Stored(v) == v \in bytes \/ (Backend = "s3" /\ v \in misinformed)

(* A published version is stored, or its own Put was misinformed. *)
ObjectsStored ==
    \A i \in Imports : blobs[i] # NoBlob =>
        blobs[i].version \in Uploads /\ Stored(blobs[i].version)
(* The version an upload has published: it has not been on its way to the   *)
(* manifest since, and cleans up only if it was misinformed.                *)
Placed(u) ==
    \A i \in Imports : blobs[i].version = u =>
        \/ up[u].pc \in {"commit", "release", "done"}
        \/ up[u].pc = "cleanup" /\ Backend = "s3" /\ u \in misinformed
Sent(u) == up[u].pc = "publish" => u \in bytes /\ up[u].meta.version = u

StorageInv == ObjectsStored /\ \A u \in Uploads : Placed(u) /\ Sent(u)

(* The steps that leave the storage alone only lead towards the end. *)
LEMMA QuietMoves ==
    ASSUME UploadInv, NEW u \in Uploads, UploadStep(u),
           ~PutStream(u), ~PutPublish(u), ~PutCleanup(u)
    PROVE  /\ UNCHANGED <<blobs, bytes, misinformed>>
           /\ up'[u].pc # "publish"
           /\ up[u].pc \in {"commit", "cleanup", "release", "done"} =>
                 up'[u].pc \in {"release", "done"}
  <1>1. up \in [Uploads -> UploadRequest] /\ up[u] \in UploadRequest
    BY Zenon DEF UploadInv, UploadTypeOK
  <1>2. UNCHANGED <<blobs, bytes, misinformed>>
    BY DEF UploadStep, Upload, BeginRead, BeginUpload, RejectDeclared, Stat, BlobFails,
           CommitUpload, EndUpload, DatabaseFails, Crash, Storage
  <1>3. \A pc : Go(u, pc) => up'[u].pc = pc
    BY <1>1 DEF Go, UploadRequest
  <1>4. \A result : Done(u, result) => up'[u].pc = "done"
    BY <1>1 DEF Done, UploadRequest
  <1>5. \A how, result : EndWith(u, how, result) => up'[u].pc = how
    BY <1>1 DEF EndWith, UploadRequest
  <1>6. CASE Upload(u)
    BY <1>1, <1>2, <1>6 DEF Upload, UploadRequest
  <1>7. CASE BeginRead(u)
    BY <1>1, <1>2, <1>7, Zenon DEF BeginRead, UploadRequest
  <1>8. CASE BeginUpload(u)
    <2>1. up[u].pc = "locking" /\ up'[u].pc \in {"session", "done"}
      BY <1>3, <1>4, <1>8, Zenon DEF BeginUpload, BeginReplay, BeginExpired, BeginLease,
                                     BeginRefused, Reply
    <2>2. QED
      BY <1>2, <2>1
  <1>9. CASE Stat(u)
    <2>1. up' = [up EXCEPT ![u].pc = "commit", ![u].meta = blobs[UploadOf[u]]] =>
            up'[u].pc = "commit"
      BY <1>1 DEF UploadRequest
    <2>2. up[u].pc = "session" /\ up'[u].pc \in {"put", "commit", "release"}
      BY <1>3, <1>5, <1>9, <2>1, Zenon DEF Stat
    <2>3. QED
      BY <1>2, <2>2
  <1>10. CASE RejectDeclared(u) \/ BlobFails(u)
    <2>1. /\ up[u].pc \in {"session", "put", "publish"}
          /\ up'[u].pc \in {"reject", "cleanup", "release"}
      BY <1>5, <1>10, Zenon DEF RejectDeclared, BlobFails
    <2>2. QED
      BY <1>2, <2>1
  <1>11. CASE CommitUpload(u) \/ EndUpload(u) \/ DatabaseFails(u) \/ Crash(u)
    <2>1. up'[u].pc \in {"release", "done"}
      BY <1>4, <1>5, <1>11, Zenon DEF CommitUpload, EndUpload, DatabaseFails, Crash, Reply
    <2>2. QED
      BY <1>2, <2>1
  <1>12. QED
    BY <1>6, <1>7, <1>8, <1>9, <1>10, <1>11, Zenon DEF UploadStep

(* Bytes are stored under the upload's own version. *)
LEMMA PutStreamStores ==
    ASSUME UploadInv, StorageInv, NEW u \in Uploads, PutStream(u)
    PROVE  StorageInv'
  <1>1. up \in [Uploads -> UploadRequest] /\ up[u] \in UploadRequest
    BY DEF UploadInv, UploadTypeOK
  <1>2. /\ up[u].pc = "put" /\ bytes \subseteq bytes' /\ UNCHANGED <<blobs, misinformed>>
        /\ up'[u].pc = "publish" => u \in bytes' /\ up'[u].meta.version = u
    <2>1. \A how, result : EndWith(u, how, result) => up'[u].pc = how
      BY <1>1 DEF EndWith, UploadRequest
    <2>2. ASSUME NEW m, up' = [up EXCEPT ![u].pc = "publish", ![u].meta = m]
          PROVE  up'[u].meta = m
      BY <1>1, <2>2, Zenon DEF UploadRequest
    <2>3. QED
      BY <2>1, <2>2 DEF PutStream
  <1>3. \A v \in Uploads : v # u => up'[v] = up[v]
    BY OneRequestMoves, Zenon DEF UploadStep
  <1>4. ObjectsStored'
    BY <1>2, Zenon DEF StorageInv, ObjectsStored, Stored, NoBlob
  <1>5. \A v \in Uploads : Sent(v)'
    BY <1>2, <1>3 DEF StorageInv, Sent
  <1>6. \A i \in Imports : blobs[i].version # u
    BY <1>2, Zenon DEF StorageInv, Placed
  <1>7. \A v \in Uploads : Placed(v)'
    BY <1>2, <1>3, <1>6 DEF StorageInv, Placed
  <1>8. QED
    BY <1>4, <1>5, <1>7 DEF StorageInv

(* The manifest names bytes that are stored. *)
LEMMA PutPublishStores ==
    ASSUME UploadInv, StorageInv, NEW u \in Uploads, PutPublish(u)
    PROVE  StorageInv'
  <1> DEFINE i == UploadOf[u]
  <1>1. /\ up \in [Uploads -> UploadRequest] /\ up[u] \in UploadRequest
        /\ blobs \in [Imports -> Blob] /\ i \in Imports
    BY UploadConstants, Zenon DEF UploadInv, UploadTypeOK
  <1>2. /\ \A how, result : EndWith(u, how, result) => up'[u].pc = how
        /\ Go(u, "commit") => up'[u].pc = "commit"
    <2>1. \A how, result : EndWith(u, how, result) => up'[u].pc = how
      BY <1>1 DEF EndWith, UploadRequest
    <2>2. Go(u, "commit") => up'[u].pc = "commit"
      BY <1>1 DEF Go, UploadRequest
    <2>3. QED
      BY <2>1, <2>2
  <1>3. /\ up[u].pc = "publish" /\ u \in bytes /\ up[u].meta.version = u /\ UNCHANGED bytes
        /\ misinformed \subseteq misinformed'
        /\ up'[u].pc \in {"commit", "cleanup"}
    BY <1>2, Zenon DEF StorageInv, Sent, PutPublish
  <1>4. \A v \in Uploads : v # u => up'[v] = up[v]
    BY OneRequestMoves, Zenon DEF UploadStep
  <1>5. \A j \in Imports : blobs[j].version # u
    BY <1>3 DEF StorageInv, Placed
  <1>6. \/ UNCHANGED blobs
        \/ /\ blobs'[i] = up[u].meta /\ \A j \in Imports : j # i => blobs'[j] = blobs[j]
           /\ up'[u].pc = "commit" \/ (Backend = "s3" /\ u \in misinformed')
    BY <1>1, <1>2, Zenon DEF PutPublish
  <1>7. ObjectsStored'
    BY <1>3, <1>6, Zenon DEF StorageInv, ObjectsStored, Stored, NoBlob
  <1>8. \A v \in Uploads : Sent(v)'
    BY <1>3, <1>4 DEF StorageInv, Sent
  <1>9. ASSUME NEW v \in Uploads PROVE Placed(v)'
    <2>1. CASE v = u
      BY <1>3, <1>5, <1>6, <2>1, Zenon DEF Placed
    <2>2. CASE v # u
      <3>1. Placed(v) /\ up'[v] = up[v]
        BY <1>4, <2>2, Zenon DEF StorageInv
      <3>2. \A j \in Imports : blobs'[j].version = v => blobs[j].version = v
        BY <1>3, <1>6, <2>2
      <3>3. QED
        BY <1>3, <3>1, <3>2, Zenon DEF Placed
    <2>3. QED
      BY <2>1, <2>2, Zenon
  <1>10. QED
    BY <1>7, <1>8, <1>9, Zenon DEF StorageInv

(* An upload withdraws its own bytes, published only if it was misinformed. *)
LEMMA PutCleanupStores ==
    ASSUME UploadInv, StorageInv, NEW u \in Uploads, PutCleanup(u)
    PROVE  StorageInv'
  <1>1. up \in [Uploads -> UploadRequest] /\ up[u] \in UploadRequest
    BY DEF UploadInv, UploadTypeOK
  <1>2. /\ up[u].pc = "cleanup" /\ up'[u].pc = "release" /\ UNCHANGED <<blobs, misinformed>>
        /\ bytes' \in {bytes, bytes \ {u}}
    BY <1>1, Zenon DEF PutCleanup, Go, UploadRequest
  <1>3. \A v \in Uploads : v # u => up'[v] = up[v]
    BY OneRequestMoves, Zenon DEF UploadStep
  <1>4. \A i \in Imports : blobs[i].version = u => Backend = "s3" /\ u \in misinformed
    BY <1>2, Zenon DEF StorageInv, Placed
  <1>5. ObjectsStored'
    BY <1>2, <1>4, Zenon DEF StorageInv, ObjectsStored, Stored, NoBlob
  <1>6. \A v \in Uploads : Sent(v)'
    BY <1>2, <1>3, Zenon DEF StorageInv, Sent
  <1>7. \A v \in Uploads : Placed(v)'
    BY <1>2, <1>3 DEF StorageInv, Placed
  <1>8. QED
    BY <1>5, <1>6, <1>7 DEF StorageInv

(* The invariant of the storage is inductive. *)
LEMMA StorageSteps ==
    ASSUME UploadInv, StorageInv, [Next]_vars
    PROVE  StorageInv'
  <1>1. ASSUME NEW u \in Uploads, UploadStep(u), ~PutStream(u), ~PutPublish(u), ~PutCleanup(u)
        PROVE  StorageInv'
    <2>1. /\ UNCHANGED <<blobs, bytes, misinformed>>
          /\ up'[u].pc # "publish"
          /\ up[u].pc \in {"commit", "cleanup", "release", "done"} =>
                 up'[u].pc \in {"release", "done"}
      BY <1>1, QuietMoves, Zenon
    <2>2. \A v \in Uploads : v # u => up'[v] = up[v]
      BY <1>1, OneRequestMoves, Zenon
    <2>3. ObjectsStored'
      BY <2>1, Zenon DEF StorageInv, ObjectsStored, Stored, NoBlob
    <2>4. \A v \in Uploads : Sent(v)'
      BY <2>1, <2>2, Zenon DEF StorageInv, Sent
    <2>5. \A v \in Uploads : Placed(v)'
      BY <2>1, <2>2 DEF StorageInv, Placed
    <2>6. QED
      BY <2>3, <2>4, <2>5, Zenon DEF StorageInv
  <1>2. CASE \E u \in Uploads : UploadStep(u)
    BY <1>1, <1>2, PutStreamStores, PutPublishStores, PutCleanupStores, Zenon
  <1>3. ASSUME UNCHANGED <<blobs, bytes, misinformed, up>> PROVE StorageInv'
    BY <1>3 DEF StorageInv, ObjectsStored, Stored, Placed, Sent, NoBlob
  <1>4. CASE \E c \in Completes : CompleteStep(c)
    BY <1>3, <1>4, CompleteStepTypes
  <1>5. CASE Tick \/ UNCHANGED vars
    BY <1>3, <1>5 DEF Tick, Storage, vars
  <1>6. QED
    BY <1>2, <1>4, <1>5 DEF Next

(* A committed artifact describes the published object, which the           *)
(* reservation expects, and whose bytes are stored unless an S3 Put that    *)
(* was misinformed withdrew them (ingestion/service.go, Upload).            *)
THEOREM UploadEvidenceIntact == Spec => []EvidenceIntact
  <1>1. Init => StorageInv
    BY UploadConstants DEF Init, StorageInv, ObjectsStored, Placed, Sent, NoBlob
  <1>2. UploadInv /\ StorageInv /\ [Next]_vars => StorageInv'
    BY StorageSteps, Zenon
  <1>3. ASSUME UploadInv, StorageInv PROVE EvidenceIntact
    <2> SUFFICES ASSUME NEW i \in Imports, artifacts[i].state = "committed"
                 PROVE  Stored(artifacts[i].version)
      BY <1>3, Zenon DEF UploadInv, EvidenceRecorded, EvidenceIntact, Stored
    <2>1. /\ blobs[i] = [content |-> artifacts[i].sha256, version |-> artifacts[i].version,
                         at |-> artifacts[i].committedAt]
          /\ artifacts[i].sha256 \in ExpectedSHA256[i]
      BY <1>3, Zenon DEF UploadInv, EvidenceRecorded, Expected
    <2>2. artifacts[i].sha256 # NoContent
      BY <2>1, UploadConstants, Zenon
    <2>3. blobs[i] # NoBlob /\ blobs[i].version = artifacts[i].version
      BY <2>1, <2>2 DEF NoBlob
    <2>4. QED
      BY <1>3, <2>3, Zenon DEF StorageInv, ObjectsStored
  <1>4. QED
    BY <1>1, <1>2, <1>3, UploadInvariant, PTL DEF Spec

-----------------------------------------------------------------------------
(* Completion. *)

Op(c) == [id |-> c, import |-> CompleteOf[c]]

(* Every operation was created by the request it is named after, which is   *)
(* over, and its key names it.                                              *)
OperationsMade ==
    \A o \in operations :
        /\ o = Op(o.id) /\ comp[o.id].pc = "done"
        /\ claims[KeyOf[o.id]] = o.id
(* One operation for every queued import, and none for the others. *)
OperationsMatch ==
    /\ \A o, p \in operations : o.import = p.import => o = p
    /\ \A i \in Imports : imports[i] = "queued" <=> \E o \in operations : o.import = i
(* A key names an operation that exists. *)
ClaimsNamed ==
    \A k \in Keys : claims[k] # NoOperation =>
        Op(claims[k]) \in operations /\ KeyOf[claims[k]] = k
(* A request that holds its key is the only one, and the key is unused. *)
LockersAlone ==
    \A c \in Completes : comp[c].pc = "locking" =>
        claims[KeyOf[c]] = NoOperation /\ ~KeyLocked(c)
ReceiptsNamed ==
    \A c \in Completes : comp[c].result = "receipt" =>
        /\ comp[c].pc = "done"
        /\ [id |-> comp[c].op, import |-> CompleteOf[c]] \in operations
        /\ claims[KeyOf[c]] = comp[c].op

CompletionInv ==
    /\ OperationsMade /\ OperationsMatch /\ ClaimsNamed /\ LockersAlone /\ ReceiptsNamed

(* The upload protocol neither queues an import nor takes a queued one. *)
LEMMA UploadKeepsQueued ==
    ASSUME UploadInv, NEW u \in Uploads, UploadStep(u), NEW i \in Imports
    PROVE  imports'[i] = "queued" <=> imports[i] = "queued"
  <1>1. imports \in [Imports -> ImportStates] /\ UploadOf[u] \in Imports
    BY UploadConstants DEF UploadInv, UploadTypeOK
  <1>2. \/ UNCHANGED imports
        \/ /\ imports[UploadOf[u]] \in {"awaiting_upload", "uploading"}
           /\ \E s \in ImportStates \ {"queued"} :
                 imports' = [imports EXCEPT ![UploadOf[u]] = s]
    <2>1. CASE BeginUpload(u)
      BY <2>1, Zenon DEF BeginUpload, BeginReplay, BeginExpired, BeginLease, BeginRefused,
         Tables, Storage,
                  ImportStates
    <2>2. CASE CommitUpload(u)
      BY <2>2 DEF CommitUpload, CommitMatches, Tables, Storage, ImportStates
    <2>3. CASE EndUpload(u)
      BY <2>3, Zenon DEF EndUpload, EndMatches, Tables, Storage, ImportStates
    <2>4. CASE ~(BeginUpload(u) \/ CommitUpload(u) \/ EndUpload(u))
      BY <2>4, Zenon DEF UploadStep, Upload, BeginRead, RejectDeclared, Stat, PutStream, PutPublish,
                  PutCleanup, BlobFails, DatabaseFails, Crash, Tables, Storage
    <2>5. QED
      BY <2>1, <2>2, <2>3, <2>4, Zenon
  <1>3. QED
    BY <1>1, <1>2, Zenon

(* A step that queues nothing and writes no operation, claim or reply owes  *)
(* nothing.                                                                 *)
LEMMA CompletionKept ==
    ASSUME CompletionInv, UNCHANGED <<operations, claims, comp>>,
           \A i \in Imports : imports'[i] = "queued" <=> imports[i] = "queued"
    PROVE  CompletionInv'
  <1>1. OperationsMade' /\ OperationsMatch'
    BY Zenon DEF CompletionInv, OperationsMade, OperationsMatch, Op
  <1>2. ClaimsNamed' /\ ReceiptsNamed'
    BY Zenon DEF CompletionInv, ClaimsNamed, ReceiptsNamed, Op
  <1>3. LockersAlone'
    BY Zenon DEF CompletionInv, LockersAlone, KeyLocked
  <1>4. QED
    BY <1>1, <1>2, <1>3 DEF CompletionInv

(* A request that reports without creating an operation. *)
LEMMA ReportKeeps ==
    ASSUME UploadInv, CompletionInv, NEW c \in Completes, comp[c].pc # "done",
           NEW op \in Completes \cup {NoOperation}, NEW result \in Results,
           Reported(c, op, result), UNCHANGED <<imports, operations, claims>>,
           result = "receipt" =>
               /\ [id |-> op, import |-> CompleteOf[c]] \in operations
               /\ claims[KeyOf[c]] = op
    PROVE  CompletionInv'
  <1>1. /\ \A d \in Completes : d # c => comp'[d] = comp[d]
        /\ comp'[c].pc = "done" /\ comp'[c].op = op /\ comp'[c].result = result
    BY ReportedEffect, Zenon DEF UploadInv
  <1>2. operations \subseteq [id : Completes, import : Imports]
    BY Zenon DEF UploadInv, UploadTypeOK
  <1>3. OperationsMade'
    BY <1>1, <1>2, Zenon DEF CompletionInv, OperationsMade, Op
  <1>4. OperationsMatch' /\ ClaimsNamed'
    BY Zenon DEF CompletionInv, OperationsMatch, ClaimsNamed, Op
  <1>5. LockersAlone'
    BY <1>1, Zenon DEF CompletionInv, LockersAlone, KeyLocked
  <1>6. ReceiptsNamed'
    BY <1>1 DEF CompletionInv, ReceiptsNamed
  <1>7. QED
    BY <1>3, <1>4, <1>5, <1>6, Zenon DEF CompletionInv

(* Complete claims its idempotency key. *)
LEMMA CompleteClaimKeeps ==
    ASSUME UploadInv, CompletionInv, NEW c \in Completes, CompleteClaim(c)
    PROVE  CompletionInv'
  <1> DEFINE claimed == claims[KeyOf[c]]
  <1>1. /\ UploadTypeOK /\ KeyOf[c] \in Keys /\ claimed \in Completes \cup {NoOperation}
        /\ comp[c].pc = "new" /\ UNCHANGED <<imports, operations, claims>>
    BY UploadConstants DEF UploadInv, UploadTypeOK, CompleteClaim, Uploading
  <1>2. CASE Reported(c, NoOperation, "in_progress") \/ Reported(c, NoOperation, "conflict")
    BY <1>1, <1>2, ReportKeeps, Zenon DEF Results
  <1>3. CASE /\ claimed # NoOperation /\ ImportOfOperation(claimed) = CompleteOf[c]
             /\ Reported(c, claimed, "receipt")
    <2>1. Op(claimed) \in operations /\ Op(claimed).id = claimed
      BY <1>1, <1>3 DEF CompletionInv, ClaimsNamed, Op
    <2> DEFINE o == CHOOSE o \in operations : o.id = claimed
    <2>2. o \in operations /\ o.id = claimed
      BY <2>1
    <2>3. o.import = CompleteOf[c]
      BY <1>3, Zenon DEF ImportOfOperation
    <2> HIDE DEF o
    <2>4. o = Op(claimed) /\ o.import = CompleteOf[claimed]
      BY <2>2 DEF CompletionInv, OperationsMade, Op
    <2>5. [id |-> claimed, import |-> CompleteOf[c]] \in operations
      BY <2>1, <2>3, <2>4 DEF Op
    <2>6. QED
      BY <1>1, <1>3, <2>5, ReportKeeps, Zenon DEF Results
  <1>4. CASE /\ ~KeyLocked(c) /\ claimed = NoOperation
             /\ comp' = [comp EXCEPT ![c].pc = "locking", ![c].snap = artifacts[CompleteOf[c]]]
    <2>1. /\ \A d \in Completes : d # c => comp'[d] = comp[d]
          /\ comp'[c].pc = "locking" /\ comp'[c].op = comp[c].op
          /\ comp'[c].result = comp[c].result
      BY <1>1, <1>4, ClaimEffect, Zenon
    <2>2. operations \subseteq [id : Completes, import : Imports]
      BY <1>1, Zenon DEF UploadTypeOK
    <2>3. OperationsMade'
      BY <1>1, <2>1, <2>2, Zenon DEF CompletionInv, OperationsMade, Op
    <2>4. OperationsMatch' /\ ClaimsNamed'
      BY <1>1, Zenon DEF CompletionInv, OperationsMatch, ClaimsNamed, Op
    <2>5. LockersAlone'
      <3>1. \A d \in Completes \ {c} : KeyOf[d] = KeyOf[c] => comp[d].pc # "locking"
        BY <1>4, Zenon DEF KeyLocked
      <3>2. \A d \in Completes : comp[d].pc = "locking" =>
              /\ claims[KeyOf[d]] = NoOperation
              /\ \A e \in Completes \ {d} : KeyOf[e] = KeyOf[d] => comp[e].pc # "locking"
        BY DEF CompletionInv, LockersAlone, KeyLocked
      <3>3. \A d \in Completes : comp'[d].pc = "locking" =>
              /\ claims[KeyOf[d]] = NoOperation
              /\ \A e \in Completes \ {d} : KeyOf[e] = KeyOf[d] => comp'[e].pc # "locking"
        BY <1>4, <2>1, <3>1, <3>2, Zenon
      <3>4. QED
        BY <1>1, <3>3 DEF LockersAlone, KeyLocked
    <2>6. ReceiptsNamed'
      BY <1>1, <2>1 DEF CompletionInv, ReceiptsNamed
    <2>7. QED
      BY <2>3, <2>4, <2>5, <2>6 DEF CompletionInv
  <1>5. QED
    BY <1>2, <1>3, <1>4 DEF CompleteClaim

(* The operation, the claim and the import's new state appear together. *)
LEMMA CompleteKeeps ==
    ASSUME UploadInv, CompletionInv, NEW c \in Completes, Complete(c), Completable(c)
    PROVE  CompletionInv'
  <1> DEFINE i == CompleteOf[c]
             k == KeyOf[c]
  <1>1. /\ i \in Imports /\ k \in Keys /\ comp[c].pc = "locking" /\ imports[i] = "uploaded"
        /\ imports' = [imports EXCEPT ![i] = "queued"]
        /\ operations' = operations \cup {Op(c)} /\ claims' = [claims EXCEPT ![k] = c]
        /\ Reported(c, c, "receipt") \/ Reported(c, NoOperation, "error")
    BY UploadConstants, Zenon DEF Complete, Completable, Op
  <1>2. /\ imports \in [Imports -> ImportStates] /\ c # NoOperation
        /\ claims \in [Keys -> Completes \cup {NoOperation}]
        /\ operations \subseteq [id : Completes, import : Imports]
    BY UploadConstants, Zenon DEF UploadInv, UploadTypeOK
  <1>3. /\ imports'[i] = "queued" /\ \A j \in Imports : j # i => imports'[j] = imports[j]
        /\ claims'[k] = c /\ \A l \in Keys : l # k => claims'[l] = claims[l]
    BY <1>1, <1>2
  <1>4. /\ \A d \in Completes : d # c => comp'[d] = comp[d]
        /\ comp'[c].pc = "done"
        /\ comp'[c].result \in {"receipt", "error"}
        /\ comp'[c].result = "receipt" => comp'[c].op = c
    BY <1>1, ReportedEffect, Zenon DEF UploadInv, Results
  <1>5. Op(c).id = c /\ Op(c).import = i
    BY DEF Op
  <1>6. claims[k] = NoOperation
    BY <1>1, Zenon DEF CompletionInv, LockersAlone
  <1>7. \A o \in operations : o.import # i /\ o.id # c /\ KeyOf[o.id] # k
    <2>1. \A o \in operations : o.import # i
      BY <1>1, Zenon DEF CompletionInv, OperationsMatch
    <2>2. \A o \in operations : o.id # c
      BY <1>1, Zenon DEF CompletionInv, OperationsMade
    <2>3. \A o \in operations : KeyOf[o.id] # k
      BY <1>2, <1>6, UploadConstants, Zenon DEF CompletionInv, OperationsMade
    <2>4. QED
      BY <2>1, <2>2, <2>3, Zenon
  <1> HIDE DEF i, k
  <1>8. OperationsMade'
    <2>1. ASSUME NEW o \in operations
          PROVE  o = Op(o.id) /\ comp'[o.id].pc = "done" /\ claims'[KeyOf[o.id]] = o.id
      BY <1>2, <1>3, <1>4, <1>7, UploadConstants, ZenonT(60) DEF CompletionInv, OperationsMade
    <2>2. Op(c) = Op(Op(c).id) /\ comp'[Op(c).id].pc = "done"
          /\ claims'[KeyOf[Op(c).id]] = Op(c).id
      BY <1>3, <1>4, <1>5, Zenon DEF k
    <2>3. \A o \in operations' : o = Op(o.id) /\ comp'[o.id].pc = "done"
                                  /\ claims'[KeyOf[o.id]] = o.id
      BY <1>1, <2>1, <2>2, Zenon
    <2>4. QED
      BY <2>3 DEF OperationsMade, Op
  <1>9. OperationsMatch'
    <2>1. \A o, p \in operations' : o.import = p.import => o = p
      BY <1>1, <1>5, <1>7, Zenon DEF CompletionInv, OperationsMatch
    <2>2. \A j \in Imports : imports'[j] = "queued" <=> \E o \in operations' : o.import = j
      BY <1>1, <1>3, <1>5, <1>7 DEF CompletionInv, OperationsMatch
    <2>3. QED
      BY <2>1, <2>2, Zenon DEF OperationsMatch
  <1>10. ClaimsNamed'
    <2>1. ASSUME NEW l \in Keys, claims'[l] # NoOperation
          PROVE  Op(claims'[l]) \in operations' /\ KeyOf[claims'[l]] = l
      <3>1. CASE l = k
        BY <1>1, <1>3, <3>1 DEF k
      <3>2. CASE l # k
        BY <1>1, <1>3, <2>1, <3>2 DEF CompletionInv, ClaimsNamed
      <3>3. QED
        BY <3>1, <3>2, Zenon
    <2>2. QED
      BY <2>1, Zenon DEF ClaimsNamed, Op
  <1>11. LockersAlone'
    <2>1. \A d \in Completes \ {c} : KeyOf[d] = k => comp[d].pc # "locking"
      BY <1>1, Zenon DEF CompletionInv, LockersAlone, KeyLocked, k
    <2>2. \A d \in Completes : comp[d].pc = "locking" =>
            /\ claims[KeyOf[d]] = NoOperation
            /\ \A e \in Completes \ {d} : KeyOf[e] = KeyOf[d] => comp[e].pc # "locking"
      BY DEF CompletionInv, LockersAlone, KeyLocked
    <2>3. \A d \in Completes : comp'[d].pc = "locking" =>
            /\ claims'[KeyOf[d]] = NoOperation
            /\ \A e \in Completes \ {d} : KeyOf[e] = KeyOf[d] => comp'[e].pc # "locking"
      BY <1>3, <1>4, <2>1, <2>2, UploadConstants, ZenonT(60)
    <2>4. QED
      BY <2>3, Zenon DEF LockersAlone, KeyLocked
  <1>12. ReceiptsNamed'
    <2>1. ASSUME NEW d \in Completes, comp'[d].result = "receipt"
          PROVE  /\ comp'[d].pc = "done"
                 /\ [id |-> comp'[d].op, import |-> CompleteOf[d]] \in operations'
                 /\ claims'[KeyOf[d]] = comp'[d].op
      <3>1. CASE d = c
        BY <1>1, <1>3, <1>4, <2>1, <3>1, Zenon DEF Op, k
      <3>2. CASE d # c
        <4>1. /\ comp'[d] = comp[d] /\ comp[d].pc = "done"
              /\ [id |-> comp[d].op, import |-> CompleteOf[d]] \in operations
              /\ claims[KeyOf[d]] = comp[d].op
          BY <1>4, <2>1, <3>2, Zenon DEF CompletionInv, ReceiptsNamed
        <4>2. comp[d].op \in Completes
          BY <1>2, <4>1, Zenon
        <4>3. KeyOf[d] # k
          BY <1>2, <1>6, <4>1, <4>2, UploadConstants, Zenon
        <4>4. QED
          BY <1>1, <1>3, <4>1, <4>3, UploadConstants, Zenon
      <3>3. QED
        BY <3>1, <3>2, Zenon
    <2>2. QED
      BY <2>1, Zenon DEF ReceiptsNamed
  <1>13. QED
    BY <1>8, <1>9, <1>10, <1>11, <1>12, Zenon DEF CompletionInv

(* The invariant of completion is inductive. *)
LEMMA CompletionSteps ==
    ASSUME UploadInv, CompletionInv, [Next]_vars
    PROVE  CompletionInv'
  <1>1. CASE \E u \in Uploads : UploadStep(u)
    <2>1. PICK u \in Uploads : UploadStep(u)
      BY <1>1
    <2>2. UNCHANGED <<operations, claims, comp>>
      BY <2>1, UploadRest DEF UploadInv
    <2>3. QED
      BY <2>1, <2>2, UploadKeepsQueued, CompletionKept
  <1>2. CASE \E c \in Completes : CompleteStep(c)
    <2>1. PICK c \in Completes : CompleteStep(c)
      BY <1>2
    <2>2. CASE CompleteClaim(c)
      BY <2>2, CompleteClaimKeeps
    <2>3. CASE Complete(c) /\ Completable(c)
      BY <2>3, CompleteKeeps
    <2>4. CASE Complete(c) /\ ~Completable(c)
      BY <2>4, ReportKeeps, Zenon DEF Complete, Results
    <2>5. CASE CompleteFails(c)
      BY <2>5, ReportKeeps, Zenon DEF CompleteFails, Uploading, Results
    <2>6. QED
      BY <2>1, <2>2, <2>3, <2>4, <2>5 DEF CompleteStep
  <1>3. CASE Tick \/ UNCHANGED vars
    BY <1>3, CompletionKept, Zenon DEF Tick, Tables, Storage, Completion, vars
  <1>4. QED
    BY <1>1, <1>2, <1>3 DEF Next

(* A queued import has its one operation, any other import has none.        *)
LEMMA CompletionCounts ==
    ASSUME UploadInv, CompletionInv
    PROVE  CompletionExactlyOnce
  <1>1. ASSUME NEW i \in Imports
        PROVE  LET ops == {o \in operations : o.import = i} IN
               IF imports[i] = "queued" THEN \E o \in ops : ops = {o} ELSE ops = {}
    <2> DEFINE ops == {o \in operations : o.import = i}
    <2>1. ASSUME imports[i] = "queued" PROVE \E o \in ops : ops = {o}
      <3>1. PICK o \in operations : o.import = i
        BY <2>1 DEF CompletionInv, OperationsMatch
      <3>2. ops = {o}
        BY <3>1 DEF CompletionInv, OperationsMatch
      <3>3. QED
        BY <3>1, <3>2
    <2>2. ASSUME imports[i] # "queued" PROVE ops = {}
      BY <2>2 DEF CompletionInv, OperationsMatch
    <2>3. QED
      BY <2>1, <2>2
  <1>2. QED
    BY <1>1 DEF CompletionExactlyOnce, CompletionInv, ReceiptsNamed

(* Completion is exactly-once for any number of concurrent requests, keys   *)
(* and lost replies (ingestion/postgres.go, Complete).                      *)
THEOREM UploadCompletionExactlyOnce == Spec => []CompletionExactlyOnce
  <1>1. Init => CompletionInv
    <2>1. ASSUME Init PROVE OperationsMade /\ OperationsMatch
      BY <2>1, Zenon DEF Init, OperationsMade, OperationsMatch
    <2>2. ASSUME Init PROVE ClaimsNamed
      BY <2>2, Zenon DEF Init, ClaimsNamed
    <2>3. ASSUME Init PROVE LockersAlone
      BY <2>3 DEF Init, LockersAlone
    <2>4. ASSUME Init PROVE ReceiptsNamed
      BY <2>4, Zenon DEF Init, ReceiptsNamed
    <2>5. QED
      BY <2>1, <2>2, <2>3, <2>4, Zenon DEF CompletionInv
  <1>2. UploadInv /\ CompletionInv /\ [Next]_vars => CompletionInv'
    BY CompletionSteps
  <1>3. UploadInv /\ CompletionInv => CompletionExactlyOnce
    BY CompletionCounts
  <1>4. QED
    BY <1>1, <1>2, <1>3, UploadInvariant, PTL DEF Spec
=============================================================================
