------------------------------ MODULE JobQueue ------------------------------
(***************************************************************************)
(* The lease-fenced PostgreSQL job queue of internal/jobqueue/queue.go.    *)
(*                                                                         *)
(* State: the rows of open_aspm.jobs and open_aspm.job_attempts, the       *)
(* database clock, the leases handed out so far, and one transaction per   *)
(* database session.  The queue name is fixed: the advisory lock, the      *)
(* in-flight count and the recovery scan are all per queue.                *)
(*                                                                         *)
(* What PostgreSQL contributes, and the queue relies on:                   *)
(*  - now() is the start time of the transaction.  Every call therefore    *)
(*    has a Begin step, which fixes "at", and a later step that executes   *)
(*    its statements and commits; other sessions may commit in between.    *)
(*  - READ COMMITTED: an UPDATE, or a SELECT ... FOR UPDATE with its       *)
(*    predicate on the locked table, re-evaluates the predicate on the     *)
(*    latest committed row.  Executing the guard and the update in one     *)
(*    step models that.                                                    *)
(*  - RecoverExpired selects the expired rows in a CTE and locks the rows  *)
(*    of a second reference to the table, joined by primary key.  Only the *)
(*    join is re-evaluated on the latest row, not the predicate in the     *)
(*    CTE.  The scan (BeginRecover) and the locking update (Recover) are   *)
(*    therefore two steps with a frozen result in between.                 *)
(*  - SKIP LOCKED may pass over a row that another open transaction holds. *)
(*                                                                         *)
(* Any session may present any lease that was ever handed out, however     *)
(* stale: this is the most general client of the queue.                    *)
(***************************************************************************)
EXTENDS Integers, FiniteSets

CONSTANTS
    Jobs,           \* identities (workspace, queue, kind, idempotency key)
    Workspaces,
    WorkspaceOf,    \* [Jobs -> Workspaces]
    AttemptLimit,   \* the bound validateSpec puts on Spec.MaxAttempts
    MaxAttempts,    \* [Jobs -> 1..AttemptLimit], Spec.MaxAttempts
    Priority,       \* [Jobs -> -1000..1000], Spec.Priority
    EnqueueDelays,  \* Spec.AvailableAt relative to the time of the call
    Sessions,       \* database sessions of workers, callers and reapers
    MaxInFlight,    \* maxInFlightPerWorkspace
    LeaseDuration,
    RetryDelay,     \* retryDelay of RecoverExpired, back-off of Fail
    RecoverLimit,   \* limit of RecoverExpired
    MaxTime         \* bound on the clock

ASSUME ConstantsAssumption ==
    /\ IsFiniteSet(Jobs)
    /\ WorkspaceOf \in [Jobs -> Workspaces]
    /\ AttemptLimit \in 1..100
    /\ MaxAttempts \in [Jobs -> 1..AttemptLimit]
    /\ Priority \in [Jobs -> -1000..1000]
    /\ EnqueueDelays \subseteq Nat
    /\ MaxInFlight \in 1..100
    /\ LeaseDuration \in Nat \ {0}
    /\ RetryDelay \in Nat
    /\ RecoverLimit \in 1..1000
    /\ MaxTime \in Nat

VARIABLES
    jobs,       \* open_aspm.jobs
    attempts,   \* open_aspm.job_attempts, by job and attempt number
    leases,     \* every Lease value returned by Acquire
    issued,     \* number of lease tokens generated; tokens are 1..issued
    txs,        \* the open transaction of each session
    clock       \* the database clock

vars == <<jobs, attempts, leases, issued, txs, clock>>

-----------------------------------------------------------------------------
(* Rows                                                                    *)

ActiveStates == {"leased", "running"}
WaitingStates == {"queued", "retry_wait"}
TerminalStates == {"succeeded", "dead_letter", "cancelled"}
States == {"absent"} \cup WaitingStates \cup ActiveStates \cup TerminalStates

\* token 0 stands for the four NULL lease columns.
NoToken == 0

JobRow == [state : States, attempt : Nat, available : Nat,
           token : Nat, expires : Nat, cancellation : {"none", "requested"}]

NoRow == [state |-> "absent", attempt |-> 0, available |-> 0,
          token |-> NoToken, expires |-> 0, cancellation |-> "none"]

ClosedOutcomes == {"succeeded", "retry", "dead_letter", "cancelled", "lease_expired"}
Outcomes == {"absent", "open"} \cup ClosedOutcomes

LeaseOps == {"start", "heartbeat", "succeed", "cancel_active",
             "fail_retryable", "fail_permanent"}

LeaseTx == [op : LeaseOps, job : Jobs, token : Nat, at : Nat]
AcquireTx == [op : {"acquire"}, at : Nat]
RecoverTx == [op : {"recover"}, ranked : [Jobs -> Nat \cup {-1}]]
Idle == [op |-> "idle"]

\* The rows a recovery's scan returned; ranked is their expiry, -1 elsewhere.
Scanned(tx) == {j \in Jobs : tx.ranked[j] # -1}

\* Every variable holds a value of the column or structure it models.
TypeOK ==
    /\ jobs \in [Jobs -> JobRow]
    /\ attempts \in [Jobs -> [1..AttemptLimit -> Outcomes]]
    /\ leases \subseteq [job : Jobs, token : Nat]
    /\ issued \in Nat
    /\ txs \in [Sessions -> LeaseTx \cup AcquireTx \cup RecoverTx \cup {Idle}]
    /\ clock \in Nat

Init ==
    /\ jobs = [j \in Jobs |-> NoRow]
    /\ attempts = [j \in Jobs |-> [n \in 1..AttemptLimit |-> "absent"]]
    /\ leases = {}
    /\ issued = 0
    /\ txs = [s \in Sessions |-> Idle]
    /\ clock = 0

-----------------------------------------------------------------------------
(* Enqueue, Acquire                                                        *)

\* Enqueue and EnqueueTx insert a row unless the idempotency identity exists;
\* a replay returns the stored row, or ErrConflict, and changes nothing.
Enqueue(j) ==
    /\ jobs[j].state = "absent"
    /\ \E delay \in EnqueueDelays :
          jobs' = [jobs EXCEPT ![j] = [@ EXCEPT !.state = "queued", !.available = clock + delay]]
    /\ UNCHANGED <<attempts, leases, issued, txs, clock>>

\* Jobs counted against a workspace's in-flight limit.
ActiveIn(w) == {j \in Jobs : WorkspaceOf[j] = w /\ jobs[j].state \in ActiveStates}

\* Mutant: the limit is compared with <=.
EligibleAtLimit(at) ==
    {j \in Jobs :
        /\ jobs[j].state \in WaitingStates
        /\ jobs[j].available <= at
        /\ jobs[j].cancellation = "none"
        /\ Cardinality(ActiveIn(WorkspaceOf[j])) <= MaxInFlight}

\* The WHERE clause of the candidate query, with now() = at.
Eligible(at) ==
    {j \in Jobs :
        /\ jobs[j].state \in WaitingStates
        /\ jobs[j].available <= at
        /\ jobs[j].cancellation = "none"
        /\ Cardinality(ActiveIn(WorkspaceOf[j])) < MaxInFlight}

\* The ORDER BY of the candidate query; ties, which created_at decides, are
\* left open.
Precedes(k, j) ==
    LET load(i) == Cardinality(ActiveIn(WorkspaceOf[i])) IN
    \/ load(k) < load(j)
    \/ /\ load(k) = load(j)
       /\ \/ Priority[k] > Priority[j]
          \/ Priority[k] = Priority[j] /\ jobs[k].available < jobs[j].available

\* A row that SKIP LOCKED may pass over: another session has a transaction on it.
Contended(s, j) ==
    \E o \in Sessions \ {s} :
        \/ txs[o].op \in LeaseOps /\ txs[o].job = j
        \/ txs[o].op = "recover" /\ j \in Scanned(txs[o])

Close(s) == txs' = [txs EXCEPT ![s] = Idle]

\* Acquire waits for the advisory lock inside its transaction, so "at" may lie
\* well before the step that picks the job.
BeginAcquire(s) ==
    /\ txs[s] = Idle
    /\ txs' = [txs EXCEPT ![s] = [op |-> "acquire", at |-> clock]]
    /\ UNCHANGED <<jobs, attempts, leases, issued, clock>>

\* Mutant: the attempt number serves as the lease token.
LeasedRowByAttempt(row, token, at) ==
    [row EXCEPT !.state = "leased", !.attempt = row.attempt + 1,
                !.token = row.attempt + 1, !.expires = at + LeaseDuration]

\* The row after the UPDATE of Acquire, in a transaction that began at "at".
LeasedRow(row, token, at) ==
    [row EXCEPT !.state = "leased", !.attempt = row.attempt + 1,
                !.token = token, !.expires = at + LeaseDuration]

\* The UPDATE of the candidate, the INSERT of its attempt and the returned Lease.
AcquireJob(s, j) ==
    /\ issued' = issued + 1
    /\ leases' = leases \cup {[job |-> j, token |-> issued + 1]}
    /\ jobs' = [jobs EXCEPT ![j] = LeasedRow(jobs[j], issued + 1, txs[s].at)]
    /\ attempts' = [attempts EXCEPT ![j] = [@ EXCEPT ![jobs[j].attempt + 1] = "open"]]

Acquire(s) ==
    /\ txs[s].op = "acquire"
    /\ \E j \in Eligible(txs[s].at) :
          /\ \A k \in Eligible(txs[s].at) : Precedes(k, j) => Contended(s, k)
          /\ AcquireJob(s, j)
    /\ Close(s)
    /\ UNCHANGED clock

\* Acquire returns false: every eligible row was passed over, or there is none.
AcquireNone(s) ==
    /\ txs[s].op = "acquire"
    /\ \A k \in Eligible(txs[s].at) : Contended(s, k)
    /\ Close(s)
    /\ UNCHANGED <<jobs, attempts, leases, issued, clock>>

-----------------------------------------------------------------------------
(* Calls that present a lease: Start, Heartbeat, Succeed, CancelActive, Fail *)

BeginLeaseCall(s, op, lease) ==
    /\ txs[s] = Idle
    /\ txs' = [txs EXCEPT ![s] = [op |-> op, job |-> lease.job,
                                  token |-> lease.token, at |-> clock]]
    /\ UNCHANGED <<jobs, attempts, leases, issued, clock>>

\* Mutant: the token is not compared.
LeaseUnexpired(tx) == jobs[tx.job].expires > tx.at

\* lease_token_hash = token AND lease_expires_at > now()
LeaseCurrent(tx) ==
    /\ jobs[tx.job].token = tx.token
    /\ jobs[tx.job].expires > tx.at

StartMatches(tx) ==
    /\ LeaseCurrent(tx)
    /\ jobs[tx.job].state = "leased"
    /\ jobs[tx.job].cancellation = "none"

HeartbeatMatches(tx) ==
    /\ LeaseCurrent(tx)
    /\ jobs[tx.job].state \in ActiveStates
    /\ jobs[tx.job].cancellation = "none"

SucceedMatches(tx) ==
    /\ LeaseCurrent(tx)
    /\ jobs[tx.job].state = "running"
    /\ jobs[tx.job].cancellation = "none"

CancelActiveMatches(tx) ==
    /\ LeaseCurrent(tx)
    /\ jobs[tx.job].state \in ActiveStates

FailMatches(tx) ==
    /\ LeaseCurrent(tx)
    /\ jobs[tx.job].state = "running"

Matches(tx) ==
    \/ tx.op = "start" /\ StartMatches(tx)
    \/ tx.op = "heartbeat" /\ HeartbeatMatches(tx)
    \/ tx.op = "succeed" /\ SucceedMatches(tx)
    \/ tx.op = "cancel_active" /\ CancelActiveMatches(tx)
    \/ tx.op \in {"fail_retryable", "fail_permanent"} /\ FailMatches(tx)

Start(s) ==
    /\ txs[s].op = "start"
    /\ StartMatches(txs[s])
    /\ jobs' = [jobs EXCEPT ![txs[s].job] = [@ EXCEPT !.state = "running"]]
    /\ Close(s)
    /\ UNCHANGED <<attempts, leases, issued, clock>>

Heartbeat(s) ==
    /\ txs[s].op = "heartbeat"
    /\ HeartbeatMatches(txs[s])
    /\ jobs' = [jobs EXCEPT ![txs[s].job] = [@ EXCEPT !.expires = txs[s].at + LeaseDuration]]
    /\ Close(s)
    /\ UNCHANGED <<attempts, leases, issued, clock>>

\* The row after its lease columns are cleared and its state set.
Released(row, state) ==
    [row EXCEPT !.state = state, !.token = NoToken, !.expires = 0]

\* The two UPDATEs that end the current attempt of job j.
EndAttempt(j, row, outcome) ==
    /\ jobs' = [jobs EXCEPT ![j] = row]
    /\ attempts' = [attempts EXCEPT ![j] = [@ EXCEPT ![jobs[j].attempt] = outcome]]

Succeed(s) ==
    /\ txs[s].op = "succeed"
    /\ SucceedMatches(txs[s])
    /\ LET j == txs[s].job IN
          EndAttempt(j, Released(jobs[j], "succeeded"), "succeeded")
    /\ Close(s)
    /\ UNCHANGED <<leases, issued, clock>>

CancelActive(s) ==
    /\ txs[s].op = "cancel_active"
    /\ CancelActiveMatches(txs[s])
    /\ LET j == txs[s].job IN
          EndAttempt(j, Released(jobs[j], "cancelled"), "cancelled")
    /\ Close(s)
    /\ UNCHANGED <<leases, issued, clock>>

\* A cancellation request wins over the failure, an exhausted retryable
\* failure is a dead letter.
Fail(s) ==
    /\ txs[s].op \in {"fail_retryable", "fail_permanent"}
    /\ FailMatches(txs[s])
    /\ LET j == txs[s].job
           retry == txs[s].op = "fail_retryable" /\ jobs[j].attempt < MaxAttempts[j]
       IN \/ /\ jobs[j].cancellation = "requested"
             /\ EndAttempt(j, Released(jobs[j], "cancelled"), "cancelled")
          \/ /\ jobs[j].cancellation = "none"
             /\ retry
             /\ EndAttempt(j, [Released(jobs[j], "retry_wait") EXCEPT
                                  !.available = txs[s].at + RetryDelay], "retry")
          \/ /\ jobs[j].cancellation = "none"
             /\ ~retry
             /\ EndAttempt(j, Released(jobs[j], "dead_letter"), "dead_letter")
    /\ Close(s)
    /\ UNCHANGED <<leases, issued, clock>>

\* The call finds no row: it returns ErrLeaseLost or ErrCancellationRequested
\* and its transaction is rolled back.
LeaseMiss(s) ==
    /\ txs[s].op \in LeaseOps
    /\ ~Matches(txs[s])
    /\ Close(s)
    /\ UNCHANGED <<jobs, attempts, leases, issued, clock>>

-----------------------------------------------------------------------------
(* RequestCancellation                                                     *)

\* One UPDATE: a waiting job is cancelled at once, an active one is marked.
RequestCancellation(j) ==
    /\ jobs[j].state \in WaitingStates \cup ActiveStates
    /\ jobs' = [jobs EXCEPT ![j] = [@ EXCEPT
                  !.cancellation = "requested",
                  !.state = IF jobs[j].state \in WaitingStates THEN "cancelled" ELSE jobs[j].state]]
    /\ UNCHANGED <<attempts, leases, issued, txs, clock>>

-----------------------------------------------------------------------------
(* RecoverExpired                                                          *)

\* Mutant: a job that was leased and never started is not scanned.
BeginRecoverRunning(s) ==
    LET expired == {j \in Jobs : jobs[j].state = "running" /\ jobs[j].expires <= clock}
    IN /\ txs[s] = Idle
       /\ expired # {}
       /\ txs' = [txs EXCEPT ![s] =
                    [op |-> "recover",
                     ranked |-> [j \in Jobs |-> IF j \in expired THEN jobs[j].expires ELSE -1]]]
       /\ UNCHANGED <<jobs, attempts, leases, issued, clock>>

\* The CTE "ranked": rows whose lease has expired, frozen with their expiry.
BeginRecover(s) ==
    LET expired == {j \in Jobs : jobs[j].state \in ActiveStates
                                 /\ jobs[j].expires <= clock}
    IN /\ txs[s] = Idle
       /\ expired # {}
       /\ txs' = [txs EXCEPT ![s] =
                    [op |-> "recover",
                     ranked |-> [j \in Jobs |-> IF j \in expired THEN jobs[j].expires ELSE -1]]]
       /\ UNCHANGED <<jobs, attempts, leases, issued, clock>>

\* row_number() within the workspace, then the expiry: k is recovered before j.
RecoveredBefore(tx, k, j) ==
    LET rank(i) == Cardinality({h \in Scanned(tx) : WorkspaceOf[h] = WorkspaceOf[i]
                                                   /\ tx.ranked[h] < tx.ranked[i]})
    IN \/ rank(k) < rank(j)
       \/ rank(k) = rank(j) /\ tx.ranked[k] < tx.ranked[j]

\* The rows locked and returned: at most RecoverLimit of them, in order, a
\* contended one possibly passed over.
RecoverBatch(s, batch) ==
    /\ Cardinality(batch) <= RecoverLimit
    /\ \A k \in Scanned(txs[s]) \ batch :
          \/ Contended(s, k)
          \/ /\ Cardinality(batch) = RecoverLimit
             /\ \A j \in batch : ~RecoveredBefore(txs[s], k, j)

\* Mutants: the last attempt is not the last; a cancellation request is not
\* consulted.
RecoveredRowOneMore(j) ==
    LET row == jobs[j] IN
    IF row.cancellation = "requested" THEN [Released(row, "cancelled") EXCEPT !.available = clock]
    ELSE IF row.attempt > MaxAttempts[j] THEN [Released(row, "dead_letter") EXCEPT !.available = clock]
    ELSE [Released(row, "retry_wait") EXCEPT !.available = clock + RetryDelay]

RecoveredRowUncancelled(j) ==
    LET row == jobs[j] IN
    IF row.attempt >= MaxAttempts[j] THEN [Released(row, "dead_letter") EXCEPT !.available = clock]
    ELSE [Released(row, "retry_wait") EXCEPT !.available = clock + RetryDelay]

\* The row after recovery, computed from the row version that was locked.
RecoveredRow(j) ==
    LET row == jobs[j] IN
    IF row.cancellation = "requested" THEN [Released(row, "cancelled") EXCEPT !.available = clock]
    ELSE IF row.attempt >= MaxAttempts[j] THEN [Released(row, "dead_letter") EXCEPT !.available = clock]
    ELSE IF row.state = "running" THEN [Released(row, "retry_wait") EXCEPT !.available = clock + RetryDelay]
    ELSE [Released(row, "queued") EXCEPT !.available = clock]

\* Mutant: the new state is recorded as the outcome, as finishTx does.
RecoveredStateAsOutcome(j) == RecoveredRow(j).state

RecoveredOutcome(j) ==
    IF jobs[j].cancellation = "requested" THEN "cancelled"
    ELSE IF jobs[j].attempt >= MaxAttempts[j] THEN "dead_letter"
    ELSE "lease_expired"

\* Mutant: the attempt is not closed.
RecoverJobsOnly(batch) ==
    /\ jobs' = [j \in Jobs |-> IF j \in batch THEN RecoveredRow(j) ELSE jobs[j]]
    /\ UNCHANGED attempts

\* The UPDATEs of the batch.  They name a row by its key alone: neither the lease
\* token nor the expiry is tested again.
RecoverRows(batch) ==
    /\ jobs' = [j \in Jobs |-> IF j \in batch THEN RecoveredRow(j) ELSE jobs[j]]
    /\ attempts' = [j \in Jobs |->
          IF j \in batch
          THEN [attempts[j] EXCEPT ![jobs[j].attempt] = RecoveredOutcome(j)]
          ELSE attempts[j]]

Recover(s) ==
    /\ txs[s].op = "recover"
    /\ \E batch \in SUBSET Scanned(txs[s]) :
          RecoverBatch(s, batch) /\ RecoverRows(batch)
    /\ Close(s)
    /\ UNCHANGED <<leases, issued, clock>>

-----------------------------------------------------------------------------
\* The caller's context is cancelled, its process or its connection dies: the
\* open transaction is rolled back.
Rollback(s) ==
    /\ txs[s] # Idle
    /\ Close(s)
    /\ UNCHANGED <<jobs, attempts, leases, issued, clock>>

Tick ==
    /\ clock < MaxTime
    /\ clock' = clock + 1
    /\ UNCHANGED <<jobs, attempts, leases, issued, txs>>

SessionStep(s) ==
    \/ BeginAcquire(s) \/ Acquire(s) \/ AcquireNone(s)
    \/ \E op \in LeaseOps, lease \in leases : BeginLeaseCall(s, op, lease)
    \/ Start(s) \/ Heartbeat(s) \/ Succeed(s) \/ CancelActive(s) \/ Fail(s)
    \/ LeaseMiss(s)
    \/ BeginRecover(s) \/ Recover(s)
    \/ Rollback(s)

Next ==
    \/ \E j \in Jobs : Enqueue(j) \/ RequestCancellation(j)
    \/ \E s \in Sessions : SessionStep(s)
    \/ Tick

Spec == Init /\ [][Next]_vars

-----------------------------------------------------------------------------
(* Properties                                                              *)

\* No statement of the queue is ever refused by a CHECK of the jobs table: the
\* lease columns are set exactly in the active states, a waiting job has
\* attempts left, and no path spends more attempts than Spec.MaxAttempts.
RowChecks ==
    \A j \in Jobs :
        /\ jobs[j].state \in ActiveStates <=> jobs[j].token # NoToken
        /\ jobs[j].state \in ActiveStates => jobs[j].attempt > 0
        /\ jobs[j].state \in WaitingStates => jobs[j].attempt < MaxAttempts[j]
        /\ jobs[j].attempt <= MaxAttempts[j]

\* job_attempts agrees with jobs whatever the order of finishes, recoveries and
\* new leases: attempts 1..attempt_count have a row and no later one has, and
\* the only attempt that can be open is the current one of an active job.
AttemptHistory ==
    \A j \in Jobs : \A n \in 1..AttemptLimit :
        /\ attempts[j][n] = "absent" <=> n > jobs[j].attempt
        /\ attempts[j][n] = "open" <=>
              n = jobs[j].attempt /\ jobs[j].state \in ActiveStates

\* Acquire keeps every workspace within maxInFlightPerWorkspace although each
\* session counts the active jobs for itself.
InFlightLimit ==
    \A w \in Workspaces : Cardinality(ActiveIn(w)) <= MaxInFlight

\* A cancellation request is never lost: whatever a worker, a failure or a
\* recovery does afterwards, the job ends cancelled.
CancellationSticky ==
    \A j \in Jobs : jobs[j].cancellation = "requested" =>
        jobs[j].state \in ActiveStates \cup {"cancelled"}

\* An active row carries the newest lease handed out for its job, and no other
\* row carries that token: every earlier Lease value is superseded.
NewestLeaseHolds ==
    \A j \in Jobs : jobs[j].state \in ActiveStates =>
        /\ [job |-> j, token |-> jobs[j].token] \in leases
        /\ \A l \in leases : l.job = j => l.token <= jobs[j].token
        /\ \A k \in Jobs : jobs[k].token = jobs[j].token => k = j

\* The transaction of session s commits in this step on behalf of the current,
\* unexpired (at its now()) lease of job j.
CommitsAsHolder(s, j) ==
    /\ txs[s].op \in LeaseOps
    /\ txs[s].job = j
    /\ txs[s].token = jobs[j].token
    /\ txs[s].at < jobs[j].expires
    /\ txs'[s] = Idle

\* The recovery of session s, whose scan returned job j, commits in this step.
CommitsAsRecovery(s, j) ==
    /\ txs[s].op = "recover"
    /\ j \in Scanned(txs[s])
    /\ txs'[s] = Idle

\* Fencing: apart from a cancellation mark, an active row changes only through
\* its current lease or through RecoverExpired; a superseded or expired lease
\* never changes it.
Fenced ==
    [][\A j \in Jobs :
          /\ jobs[j].state \in ActiveStates
          /\ jobs[j] # [jobs'[j] EXCEPT !.cancellation = jobs[j].cancellation]
          => \E s \in Sessions : CommitsAsHolder(s, j) \/ CommitsAsRecovery(s, j)]_vars

\* The only step that can move a job out of a terminal state is a RecoverExpired
\* that scanned the job while it was still active.
FinishedJobsStay ==
    [][\A j \in Jobs :
          jobs[j].state \in TerminalStates /\ jobs'[j] # jobs[j]
          => \E s \in Sessions : CommitsAsRecovery(s, j)]_vars

\* Attempts are only ever added: the count never falls, a row is never reopened
\* or removed, and INSERT never meets an existing (job, attempt) key.
AttemptsAppendOnly ==
    [][\A j \in Jobs :
          /\ jobs'[j].attempt >= jobs[j].attempt
          /\ \A n \in 1..AttemptLimit :
                attempts'[j][n] = "open" => attempts[j][n] \in {"absent", "open"}]_vars

\* ADR-0003, worker termination table: after the success transaction commits,
\* "Job remains succeeded and cannot be leased again".
SucceededStays ==
    [][\A j \in Jobs : jobs[j].state = "succeeded" => jobs'[j].state = "succeeded"]_vars
-----------------------------------------------------------------------------
(* What the queue promises: LeaseLedger, an attempt ledger without leases.  *)

LedgerStatus(row) ==
    IF row.state \in WaitingStates THEN "waiting"
    ELSE IF row.state \in ActiveStates THEN "held"
    ELSE row.state

Ledger == INSTANCE LeaseLedger WITH
    status <- [j \in Jobs |-> LedgerStatus(jobs[j])],
    used <- [j \in Jobs |-> jobs[j].attempt],
    withdrawn <- [j \in Jobs |-> jobs[j].cancellation = "requested"]

\* The queue implements the ledger: whatever its sessions, leases and clock do,
\* a job only moves by being submitted, granted to its next attempt, finished by
\* the attempt that holds it, withdrawn or reclaimed.
ImplementsLedger == Ledger!LedgerSpec
=============================================================================
