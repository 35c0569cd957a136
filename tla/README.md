# TLA+ verification of Open ASPM

This directory holds TLA+ models of the stateful parts of Open ASPM, the TLC
configurations that check them on small instances, and TLAPS proofs of their safety
properties. `PROJECT.json` maps every definition to the source lines it models and
lists runs, mutants, findings, hazards and theorems.

To check: `tlc -config X.cfg MCModule` for a run, `tlapm Module.tla` for proofs.

## 1. The system

| Part | State | Operations | Module |
|---|---|---|---|
| Job queue (`jobqueue/queue.go`) | `jobs`, `job_attempts`, database clock | Enqueue, Acquire, Start, Heartbeat, Succeed, CancelActive, Fail, RequestCancellation, RecoverExpired | `JobQueue`, abstract `LeaseLedger` |
| Job worker (`jobqueue/worker.go`) | slots, handler and heartbeat goroutines, context | Run, runSlot, process, shutdown, retryDelay | `JobWorker` (on `JobQueue`), `RetryBackoff` |
| Reservation (`ingestion`) and catalog (`catalog`) | repositories, links, imports, idempotency claims, advisory locks | CreateRepository, LinkRepository, resolution, Reserve, ReplayReservation | `ImportReservation` (on `Catalog`) |
| Upload and completion (`ingestion`) | `imports`, `raw_artifacts`, published objects, `operations`, idempotency claims | Upload, BeginUpload, Stat, Put, CommitUpload, EndUpload, Complete | `ImportUpload` |
| Blob stores (`blobstore/filesystem`, `blobstore/s3store`) | data objects, manifests | Put, Open, Stat, Delete | `BlobAdapters`, abstract `BlobStore` |
| Streams (`blobstore/stream.go`) | bytes read so far, digest, limits | BoundedReader, verified reader, the parser's ReadAll | `ReportStream` |
| SARIF parser (`parsing/sarif`) | decoder position, open containers, warnings | Parse | `SarifParser` (on `ReportStream`) |
| Import processing (`processing/importjob`, `ingestion`, `finding`, `correlation`) | `operations`, `imports`, five record tables, handlers | Handle and every call it makes | `ImportProcessing` (on `LeaseLedger`) |
| Bootstrap, identity, authentication, authorization | installation, API tokens | Initialize, RotateToken, Authenticate, IsAllowed | `Access` |
| HTTP server (`server`) | listener, connections, two goroutines, channels | Run, Serve, shutdown | `HttpServer` |

How the parts interact: an operator initializes the database and receives a token. A
client creates a repository, links it to an application, reserves an import, uploads
the report (upload lease in the database, bytes in the blob store), and completes it.
Completion creates the public operation and an `import.process` job in one
transaction. A worker leases the job and runs the handler, which reads the report
through the verified stream into the parser and writes scans, observations,
normalizations and correlation outcomes, each in a transaction of its own, publishes
the operation's verdict, and reports to the queue.

What makes this hard, and is modelled:

- leases that expire while their holder is still at work, so that two attempts of
  one job, or two uploads of one import, overlap;
- PostgreSQL's READ COMMITTED: `now()` is the start of the transaction; after
  waiting for a row lock only the locked row is re-read, and joined rows and CTEs
  keep the statement's snapshot; SERIALIZABLE transactions that abort each other;
  advisory locks that are tried and not waited for;
- crashes, failing calls and lost replies of committed transactions at any point, and
  calls to S3 that take effect although their caller sees an error;
- servers whose clocks differ from the database's;
- cancellation, revoked capabilities, ageing and worker upgrades between attempts.

## 2. The modules

**`JobQueue`.** Each database session has at most one open transaction `txs[s]`. A
call is a *Begin* step, which fixes `now()`, and a step that runs its statements and
commits. `BeginLeaseCall` lets any session present any lease ever issued: the most
general client. `RecoverExpired` is two steps: `BeginRecover` freezes the CTE's
result, `Recover` locks and updates by primary key, which is all that PostgreSQL
re-evaluates. `Contended` allows `SKIP LOCKED` to pass over rows other transactions
may hold. A lease token is a fresh number; the row stores its hash in the code, the
number here. `Fail` computes the next `available_at` from the transaction's time: in
the code it comes from the worker's clock, which is taken to agree with the
database's.

**`LeaseLedger`.** What the queue promises without rows, tokens, time or
transactions: waiting, held by its current attempt, or ended. `Reclaim` may take
back *any* job that was ever leased, an ended one included, because the update of
`RecoverExpired` is not fenced (run `queue_succeeded`).

**`JobWorker`.** A slot moves through `runSlot` and `process`; `beat` is the
heartbeat goroutine, `beatError` the error it passes to `process`. Any error but a
missed lease stops the slot, and `Run` then cancels all slots. The handler is any
function of its context that reports a cancellation only when its context is done.
No code under `src/` calls `RecoverExpired`, `RequestCancellation` or `NewWorker`
outside tests yet; the module supplies these callers.

**`ImportUpload`.** An upload request walks through `Service.Upload`. `BeginUpload`
is two steps: the SELECT's snapshot of the artifact row, and the step after the
import row was locked, which decides on the *snapshot* of the artifact and the
*latest* import, as `FOR UPDATE OF imp` does. A body is its own digest. `Reserve`
makes an artifact row for every import; imports in `Legacy` have none, for which
`BeginUpload` has its INSERT. `Put` is what `BlobAdapters` shows of it: `PutStream`
stores the bytes under a version of their own (`bytes`), `PutPublish` creates the
manifest where there is none (`blobs`), `PutCleanup` removes the bytes of a Put that
could not publish. On S3 (`Backend`) a Put may publish and be told that it had not
(`misinformed`). `Complete` is split in two like `BeginUpload`.

**`ImportProcessing`.** One handler per attempt, each with its own program counter;
an attempt that lost its lease keeps running. A record is identified by the report
element it came from, the attempt that generated its identifier and the build whose
parser made it; the unique keys and fingerprints are those of the five inserts. The
job is an entry of `LeaseLedger`, which `JobQueue` is proved to implement. Which
step refuses a defective report is the constant choice `defect`.

**`Catalog` and `ImportReservation`.** A client repeats its call, with the same key and
body, until it has a definite answer. A request is the read of a previous result, the
resolution of the target, the tried lock, and the transaction that inserts the claim and
its result. A link that disappears between a skipped insert and the look at it is a
definite answer (`ErrLinkTargetNotFound`). Link times come from the server's clock,
which is up to `Skew` off; resolution compares them with the database's. `EndLink` is a
step of the environment: the schema provides for the end of a link, and no code writes
it yet.

**`BlobStore` and `BlobAdapters`.** `BlobStore` is the promise: a version is staged,
committed when no other is, and removed; it never comes back. `BlobAdapters` has both
adapters, chosen in the initial state. A step is one operation of the backend: write
the bytes, verify, create the manifest where there is none, clean up, read the
manifest, read the bytes, remove the bytes, remove the manifest. A Delete that ends at
its check has `stopped` and changed nothing.

**`ReportStream`.** Each step is one `Read` that returns any number of the bytes asked
for, with or without EOF. The body passes the `BoundedReader` into the store, may be
damaged there, and is read back through verification and the parser's limit. Bytes are
counted; one byte may be altered, which a digest reveals.

**`SarifParser`.** `validateJSONValue` is a stack machine over tokens, one frame per
call of the recursion with its local counter and set of names. The second half walks
the document in the order of `Parse`: runs, driver, rules, invocations, results,
locations, fingerprints, with the limits and the warnings of `recordUnsupported`. The
value of a field is valid or not.

**`RetryBackoff`.** `retryDelay` in signed words of `DurationBits` bits, its loop as a
recursive function, with a reference in unbounded integers. `JobWorker` extends it;
in `JobWorker` itself a retry waits one unit.

**`Access`.** Operators run `bootstrap init` or `bootstrap token` and repeat what
failed. `Initialize` and `RotateToken` are a snapshot and a commit; the commit fails
when a row it updates has changed since, which a mere authentication brings about. A
request reads its token's row, records its use, and is authorized, in three steps. The
module joins `Authenticate` to `IsAllowed` by the token; outside tests no code does yet.

**`HttpServer`.** `Serve`, the goroutine that selects between the cancelled context
and the end of `Serve`, the result channel, and the connections with their handlers.
`net/http` is modelled from how it is used; that `Shutdown` also closes new connections
that sent nothing for five seconds is left out.

The `MC*` modules only give the constants values. `MCReport` follows the parser from
one of the states in which a report was read whole (`OneHandOver`), since the two
machines share only the hand-over.

## 3. The runs

Passing runs (distinct states in brackets):

| Run | Shows |
|---|---|
| `queue` (1.78 M) | two jobs of one workspace with a limit of one, any session presenting any lease ever issued: attempt history, in-flight limit, newest lease is the current one, fencing; `JobQueue` implements `LeaseLedger` |
| `worker` (0.22 M) | nobody cancels a job that was not asked to, success is earned, every job finishes, cancellations are honoured, shutdown completes, with a fault at any point; `retryDelay` is exact for every word of 4 bits |
| `upload_races` (1.97 M) | three uploads to S3, one of another, a wrong or an oversized body: rows agree, receipts are honest, committed metadata describes the published, expected and stored object, evidence is final, attempts are fenced |
| `upload_complete` (0.24 M) | four completions, two imports, two keys, a repetition of the same import and key (also after a lost reply), another key for that import, another import under that key; an import without an artifact row: exactly once |
| `processing_safety` (1.92 M) | two overlapping attempts of two builds with every fault: states agree, one record per source, success means one complete interpretation, outcomes are published, verdicts are final |
| `processing_liveness` (84 k) | two builds: after a lost handler or reply the next attempt finishes a sound report and acknowledges the job, unless it meets scans of another build; with every call failing a verdict is still published |
| `blob` (0.70 M) | both adapters, three Puts, an Open and two Deletes: reads are honest, acknowledged objects stay, and `BlobAdapters` implements `BlobStore` |
| `reservation` (0.36 M) | two creations, of one repository or of two, a link and two reservations under one key: one result per key, a context true of the very repository asked for, everyone who keeps calling is answered |
| `access` (0.31 M) | three operators and a request: one live token, a rotation cuts off the old token at once, every operator gets through |
| `server` (433) | three clients: success only after a complete drain; a signal or a failing listener ends both goroutines |
| `report` (0.12 M) | the parser's input is the client's body, the recursion decides what the structure says, warnings are accounted for |

One run ends in a violation, a disagreement between a document and the code (quoted
under `findings`): `queue_succeeded`. `RecoverExpired` finds expired jobs in the
snapshot of its statement. `SKIP LOCKED` skips a row only while it is locked; when the
success commits before that, the row is returned by its primary key and set back to
`queued`, or to `dead_letter` after the last attempt.

Further disagreements were met while modelling and have no run:

- `BeginUpload` (`ingestion/postgres.go:309`) decides on the artifact's snapshot, so a
  request that waited for the import's lock takes over a live lease; the test at
  `postgres_integration_test.go:679-680` expects `ErrUploadInProgress`.
- An identical upload after completion is a conflict (`postgres.go:261`), not the replay
  of `docs/api/openapi.yaml:303-304`.
- `Handle` authorizes before it looks at the operation (`processor.go:127`): with the
  capability revoked, a retry dead-letters the job of a succeeded operation, which
  `docs/adr/0003-postgresql-job-leasing.md:242` says is marked as succeeded.
- `CommitUpload` compares the lease with the time the object was published, so it
  accepts an attempt whose lease has expired and not been taken.
- With S3, metadata gets ahead of storage. A Put whose manifest was written and whose
  answer was an error removes its bytes (`s3store.go:147-149`), and a later upload of
  the same body adopts the manifest through `Stat` (184-194) and commits it.
  `docs/adr/0005-raw-artifact-storage-and-retention.md:84` has "commits metadata only
  after storage success", line 109 "writes either become committed objects or remain
  identifiable staging data". Readers get an integrity error.
- `Delete` (`filesystem.go:191`: "removes the expected immutable version";
  `s3store.go:196` likewise) takes the manifest by name. When two Deletes of one version
  have both passed their checks and a Put comes between them, the slower one removes the
  manifest of the newer version.
- An attempt of a newer parser version that meets scans of an earlier one gets
  `ErrScanConflict` (`scan_postgres.go:83-85`, `processor.go:213`) and the operation
  fails; `docs/parsing/sarif.md:42` says "Reprocessing retained evidence under a newer
  version is replay, not a new scan."
- `RotateToken` revokes the old token in the transaction that creates the new one;
  `docs/adr/0004-initial-authorization-model.md:178-179` says "Rotation creates a new
  token and allows a bounded overlap; revocation is immediate for new requests."
- A cancelled job's operation stays queued: no code writes the operation state
  `cancelled`.

Five properties make exceptions for these. `OpenHonest` and `EvidenceIntact` except the
bytes of a Put to S3 that was misinformed, and of no other. `AcknowledgedKept` excepts
the manifest, never the bytes, once two Deletes of one version have both passed their
checks (`Rivals`); a Delete that was refused or stopped excuses nothing.
`SoundReportSucceeds` and `SuccessReachesJob` are about behaviours in which no attempt
is at work after one of another build stored a scan (`Upgraded`). `RotationCutsOff`
states what the code does, which is stricter than the document.

**Bounds.** Two attempts are the least with a retry, a last attempt and a stale
lease. Time bounds (`MaxTime` up to 6, leases and back-off of length 1) let a lease be
live, expire, and be taken over by an attempt that expires too. One or two faults
reach every pair of a fault and its recovery; two errors use up all attempts of the
processing run. One job suffices for `ImportProcessing` because jobs share no row.
Runs with two results, one and none exercise each loop's first, next and last
iteration. Three Puts are a version, its successor after a Delete, and a rival; two
Deletes are a stale one and the one that made room. Four completions are one, its
repetition under its key, a rival under another key, and another import under the same
key. The races of uploads run on S3, whose behaviours include those of the filesystem.
The liveness run of processing has a report with results in one of its two runs.
The reservation run has targeted and oversized requests; it also passes (in three
minutes) with plain ones. Three operators are an initializer
and two rotations that race. `Skew` 1 makes a server fast, exact or slow. Sizes to 5
with a buffer of 3 put every limit inside, at and beyond a Read; three levels of
containers with two members let each limit be passed after another container was
closed. Four bits contain all boundaries of the doubling loop. The proofs of section
4 need none of these bounds.

**Deadlock** is checked for the queue and the worker only: the other modules describe
requests that come to their end.

**Fairness.** `JobWorker`: weak fairness for the goroutines' own steps (the Go
scheduler), their timers, handlers returning, the caller of `RecoverExpired` and the
supervisor that restarts the process; strong fairness for time. The clock is
bounded, so after `SlowTime` it advances only when nothing else can be done
(`Quiet`): the bound is then never the reason why a job hangs. `BeginBeat` has no
fairness: the ticker may be late. `ImportProcessing`: weak fairness for polling, for
handler steps (a call made with a done context fails) and for the recovery of
abandoned attempts. `ImportReservation` and `Access`: weak fairness for the steps of
each request or transaction, for the client or operator repeating a call that had no
definite answer, and for time. `HttpServer`: weak fairness for the two goroutines and
the shutdown timer; nothing is assumed of clients, handlers, signals or the listener.
Faults, revocation and cancellation are never forced.

**Mutants.** Every property of a passing run has a mutant, a plausible bug in the
mapped code, that TLC finds.

## 4. What is proved

Every safety property that a passing run checks, invariants, action properties and the
two refinements, for all values of the constants under the named assumptions of the
modules (a finite set of jobs in the queue, natural numbers for times, sizes and
limits, as the code validates them; any sets of clients, keys, imports and contents; the
keys of reservations and of each creation any subset of the keys).

**`JobQueueProofs`**: `TypeOK`, `RowChecks`, `AttemptHistory`, `CancellationSticky`,
`NewestLeaseHolds`, `InFlightLimit`, and the action properties `Fenced`,
`FinishedJobsStay`, `AttemptsAppendOnly`. The inductive invariant `IndInv` is the
properties themselves and three facts they need. `ScansStarted`: a job in a recovery's
frozen scan has had an attempt, so that the stale update writes an attempt row that
exists. `TokensIssued`: tokens in rows and leases are at most `issued`, so that a new
token differs from all others. `AbsentFresh`: a job that was never enqueued has no
attempt. The proof goes action by action; the in-flight limit uses a cardinality
lemma about adding one job to a workspace below its limit.

The module ends with the refinement: every step of the queue maps to a step of
`LeaseLedger` or a stutter, from `IndInv`.

**`RetryBackoffProofs`**: `DelaysExact`, the arithmetic of `retryDelay` for words of
every width. The loop compares with half the maximum before it doubles, so it never
overflows, and its value is the capped doubling. This is an induction over the
attempt. The library states induction for predicates, which the installed provers
cannot instantiate; it is proved here for sets, from the least element of a set of
naturals. That the recursive functions `TwoTo` and `delay` are what their equations
say is shown by approximation.

**`JobWorkerProofs`**: `CancelledOnlyOnRequest`, `BackoffExact`, the action property
`SuccessIsEarned`, and that the worker with its queue implements `LeaseLedger`. Every
step of the worker is a step that `JobQueue` allows its most general client, or the
death of the process, which rolls its transactions back (`WorkerSteps`). So `IndInv`
is kept, and `WorkerInv` adds what holds of each slot: `Session`, what its database
session is doing, and `Conduct`, why it may say what it says. A slot acknowledges a
cancellation only if the lease it holds is no longer current or a cancellation of its
job was requested, and success only if its handler returned it and no heartbeat had
failed. Conduct survives the steps of everybody else because leases are not handed out
again and requests are not withdrawn.

**`ImportUploadProofs`**: `RowsAgree`, `EvidenceIntact`, `ReceiptHonest`,
`EvidenceFinal`, `AttemptFenced` and `CompletionExactlyOnce`. `UploadInv` adds what a
request knows at each of its points: the object it will publish was verified, the one it
will record is published and meets the expectations, and a snapshot that shows a
committed artifact does not become stale. `StorageInv` says where the bytes are: a
published manifest has its bytes or its Put was misinformed, and a Put that cleans up
did not publish, or was misinformed. `EvidenceIntact` follows from the two.
`CompletionInv` adds that an operation was made by a finished request whose key names
it, that a queued import and no other has one, and that a request holding its key's lock
found no claim and is alone with it.

**`ImportProcessingProofs`**: `StatesAgree`, `OneRecordPerSource`, `OutcomePublished`,
`SucceededIsComplete`, `OperationFinal`. `ProcessingInv` is a conjunction over jobs;
its core, `Sound`, says how much of the report is stored when a handler stands at a
given point. It mentions operation and records only through facts that the steps of
other attempts do not undo (`Forward`), which is why overlapping attempts are
harmless.

**`ImportReservationProofs`**: `KeyNamesOneResult` and `ContextTruthful`.
`ReservationInv` ties claims and rows to each other and carries the truth of a
resolved link (`TrueLink`) from its resolution to the commit.

**`ServerProofs`** has three components that share no state. `BlobAdapters`:
`OpenHonest`, `AcknowledgedKept`, and that both adapters implement `BlobStore`.
`AdaptersInv` says that unverified bytes are never published, that an Open or a
Delete only follows a manifest that was, and that a Delete past its check either still
finds its version or has a rival. `Access`: `OneLiveToken` and
`RotationCutsOff`. `AccessInv` adds that a rotation in progress has an installation and
a time to revoke with, and how far each request has come with its token. `HttpServer`:
`SuccessMeansDrained`. `ShutdownInv` says that Serve returns without an error only
after the goroutine began to drain, and that connections are dropped before the end of
the process only by a Close whose error is in the result channel.

**`ReportProofs`**: `ReadWhole`, `ValidatorExact` and `WarningsAccounted`. `StreamInv`
says that the parser's input ends one byte beyond its limit or with the verified EOF.
The validator's invariant relates the stack of the recursion to the tokens read so
far: there is a frame for each container that is open, its counter is the number of
values read in that container and its set the names, whatever was opened and closed in
between. The reference counts (`Nesting` is the number of containers opened minus the
number closed before a token), and lemmas say how one more token changes its parts, so
that no induction over the text is needed.

Only model-checked: the liveness properties (the prover handles neither fairness nor
ENABLED).

## 5. What is not modelled

- The SARIF normalizer and the correlation dispatch: stateless mappings of fields
  and a switch over two enumerations; nothing in them depends on an earlier step.
  They are deterministic steps of `ImportProcessing`.
- The parser's copying of field values, and the canonical forms behind fingerprints:
  told apart only as valid or invalid, equal or different.
- Authorization's capabilities, roles and scopes: `IsAllowed` is one read-only query;
  its token side is in `Access`, the rest is one flag.
- The command line, the migration library, logging, metrics, wording and codes of
  errors, SQL column by column.
- Clock skew between workers (timestamps are raised to their predecessor's by
  `Processor.timestamp`; remaining CHECK violations appear as failing calls), and the
  loss of unsynced directory entries in a power failure.
- Job payloads that do not decode or name no operation: completion cannot produce them.
- `expires_at` of idempotency claims: it is written and never read.
