--------------------------- MODULE JobQueueProofs ---------------------------
(***************************************************************************)
(* Proofs about JobQueue, for any number of jobs, workspaces and sessions  *)
(* and any lease duration, retry delay and limits.                         *)
(***************************************************************************)
EXTENDS JobQueue, FiniteSetTheorems, TLAPS

(* The shape of an open transaction follows from its op. *)
LEMMA TxShape ==
    ASSUME TypeOK, NEW s \in Sessions
    PROVE  /\ txs[s].op \in LeaseOps => txs[s] \in LeaseTx
           /\ txs[s].op = "acquire" => txs[s] \in AcquireTx
           /\ txs[s].op = "recover" => txs[s] \in RecoverTx
  BY DEF TypeOK, LeaseTx, AcquireTx, RecoverTx, Idle, LeaseOps

(* Clearing the lease columns yields a row. *)
LEMMA ReleasedType ==
    ASSUME NEW row \in JobRow, NEW state \in States
    PROVE  /\ Released(row, state) \in JobRow
           /\ Released(row, state).state = state
           /\ Released(row, state).attempt = row.attempt
           /\ Released(row, state).available = row.available
           /\ Released(row, state).token = NoToken
           /\ Released(row, state).cancellation = row.cancellation
  BY Zenon DEF JobRow, Released, NoToken

(* So does leasing a row. *)
LEMMA LeasedType ==
    ASSUME NEW row \in JobRow, NEW token \in Nat, NEW at \in Nat
    PROVE  /\ LeasedRow(row, token, at) \in JobRow
           /\ LeasedRow(row, token, at).state = "leased"
           /\ LeasedRow(row, token, at).attempt = row.attempt + 1
           /\ LeasedRow(row, token, at).token = token
           /\ LeasedRow(row, token, at).cancellation = row.cancellation
<1>1. row.attempt + 1 \in Nat /\ at + LeaseDuration \in Nat /\ "leased" \in States
  BY ConstantsAssumption DEF JobRow, States, ActiveStates
<1> QED
  BY <1>1, Zenon DEF LeasedRow, JobRow

(* So does what RecoverExpired writes, and it leaves the attempt count and the
   cancellation mark as they were. *)
LEMMA RecoveredType ==
    ASSUME TypeOK, NEW j \in Jobs
    PROVE  /\ RecoveredRow(j) \in JobRow
           /\ RecoveredRow(j).attempt = jobs[j].attempt
           /\ RecoveredRow(j).token = NoToken
           /\ RecoveredRow(j).cancellation = jobs[j].cancellation
           /\ RecoveredOutcome(j) \in ClosedOutcomes
<1> DEFINE row == jobs[j]
<1>1. row \in JobRow /\ clock \in Nat /\ clock + RetryDelay \in Nat
  BY ConstantsAssumption DEF TypeOK
<1>2. ASSUME NEW state \in States, NEW at \in Nat
      PROVE  /\ [Released(row, state) EXCEPT !.available = at] \in JobRow
             /\ [Released(row, state) EXCEPT !.available = at].attempt = row.attempt
             /\ [Released(row, state) EXCEPT !.available = at].token = NoToken
             /\ [Released(row, state) EXCEPT !.available = at].cancellation = row.cancellation
  BY <1>1, ReleasedType DEF JobRow
<1>3. {"cancelled", "dead_letter", "retry_wait", "queued"} \subseteq States
  BY DEF States, WaitingStates, TerminalStates
<1>4. RecoveredOutcome(j) \in ClosedOutcomes
  BY DEF RecoveredOutcome, ClosedOutcomes
<1> HIDE DEF row
<1> QED
  BY <1>1, <1>2, <1>3, <1>4, ZenonT(60) DEF RecoveredRow, row

USE DEF Close

(* Every step keeps the variables within their types. *)
LEMMA TypeStep == ASSUME TypeOK, [Next]_vars PROVE TypeOK'
<1>1. ASSUME NEW j \in Jobs, Enqueue(j) PROVE TypeOK'
  <2>1. PICK delay \in EnqueueDelays :
          jobs' = [jobs EXCEPT ![j] = [@ EXCEPT !.state = "queued", !.available = clock + delay]]
    BY <1>1, Zenon DEF Enqueue
  <2>2. jobs[j] \in JobRow /\ clock + delay \in Nat /\ "queued" \in States
    BY ConstantsAssumption DEF TypeOK, States, WaitingStates
  <2>3. [jobs[j] EXCEPT !.state = "queued", !.available = clock + delay] \in JobRow
    BY <2>2, Zenon DEF JobRow
  <2> QED
    BY <1>1, <2>1, <2>3 DEF Enqueue, TypeOK
<1>2. ASSUME NEW j \in Jobs, RequestCancellation(j) PROVE TypeOK'
  <2> DEFINE st == IF jobs[j].state \in WaitingStates THEN "cancelled" ELSE jobs[j].state
  <2>1. jobs[j] \in JobRow /\ st \in States
    BY DEF TypeOK, JobRow, States, TerminalStates
  <2>2. [jobs[j] EXCEPT !.cancellation = "requested", !.state = st] \in JobRow
    BY <2>1, Zenon DEF JobRow
  <2> QED
    BY <1>2, <2>2 DEF RequestCancellation, TypeOK
<1>3. ASSUME NEW s \in Sessions, SessionStep(s) PROVE TypeOK'
  <2>1. CASE BeginAcquire(s)
    BY <2>1 DEF BeginAcquire, TypeOK, AcquireTx
  <2>2. CASE Acquire(s)
    <3>1. PICK j \in Jobs : AcquireJob(s, j)
      BY <2>2 DEF Acquire, Eligible
    <3>2. jobs[j] \in JobRow /\ issued + 1 \in Nat /\ txs[s].at \in Nat
      BY <2>2, TxShape DEF Acquire, TypeOK, AcquireTx
    <3>3. LeasedRow(jobs[j], issued + 1, txs[s].at) \in JobRow
      BY <3>2, LeasedType, Zenon
    <3>4. attempts' \in [Jobs -> [1..AttemptLimit -> Outcomes]]
      BY <3>1, Zenon DEF AcquireJob, TypeOK, Outcomes
    <3> QED
      BY <2>2, <3>1, <3>2, <3>3, <3>4 DEF Acquire, AcquireJob, TypeOK
  <2>3. CASE AcquireNone(s)
    BY <2>3 DEF AcquireNone, TypeOK
  <2>4. ASSUME NEW op \in LeaseOps, NEW lease \in leases, BeginLeaseCall(s, op, lease)
        PROVE  TypeOK'
    BY <2>4 DEF BeginLeaseCall, TypeOK, LeaseTx
  <2>5. CASE Start(s)
    <3> DEFINE j == txs[s].job
    <3>1. jobs[j] \in JobRow /\ "running" \in States
      BY <2>5, TxShape DEF Start, TypeOK, LeaseOps, LeaseTx, States, ActiveStates
    <3>2. [jobs[j] EXCEPT !.state = "running"] \in JobRow
      BY <3>1 DEF JobRow
    <3> QED
      BY <2>5, <3>2, Zenon DEF Start, TypeOK
  <2>6. CASE Heartbeat(s)
    <3> DEFINE j == txs[s].job
    <3>1. jobs[j] \in JobRow /\ txs[s].at + LeaseDuration \in Nat
      BY <2>6, TxShape, ConstantsAssumption DEF Heartbeat, TypeOK, LeaseOps, LeaseTx
    <3>2. [jobs[j] EXCEPT !.expires = txs[s].at + LeaseDuration] \in JobRow
      BY <3>1 DEF JobRow
    <3> QED
      BY <2>6, <3>2, Zenon DEF Heartbeat, TypeOK
  <2>7. CASE Succeed(s)
    BY <2>7, TxShape, ReleasedType, ZenonT(60)
       DEF Succeed, EndAttempt, TypeOK, States, TerminalStates, Outcomes, ClosedOutcomes,
           LeaseOps, LeaseTx
  <2>8. CASE CancelActive(s)
    BY <2>8, TxShape, ReleasedType, ZenonT(60)
       DEF CancelActive, EndAttempt, TypeOK, States, TerminalStates, Outcomes,
           ClosedOutcomes, LeaseOps, LeaseTx
  <2>9. CASE Fail(s)
    <3> DEFINE j == txs[s].job
    <3>1. j \in Jobs /\ jobs[j] \in JobRow /\ txs[s].at + RetryDelay \in Nat
      BY <2>9, TxShape, ConstantsAssumption, SMTT(60) DEF Fail, TypeOK, LeaseOps, LeaseTx
    <3>2. /\ {"cancelled", "dead_letter", "retry_wait"} \subseteq States
          /\ {"cancelled", "dead_letter", "retry"} \subseteq Outcomes
      BY DEF States, WaitingStates, TerminalStates, Outcomes, ClosedOutcomes
    <3>3. [Released(jobs[j], "retry_wait") EXCEPT !.available = txs[s].at + RetryDelay] \in JobRow
      BY <3>1, <3>2, ReleasedType DEF JobRow
    <3>4. PICK row \in JobRow, outcome \in Outcomes : EndAttempt(j, row, outcome)
      BY <2>9, <3>1, <3>2, <3>3, ReleasedType DEF Fail
    <3> QED
      BY <2>9, <3>1, <3>4, Zenon DEF Fail, EndAttempt, TypeOK
  <2>10. CASE LeaseMiss(s)
    BY <2>10 DEF LeaseMiss, TypeOK
  <2>11. CASE BeginRecover(s)
    <3> DEFINE expired == {j \in Jobs : jobs[j].state \in ActiveStates /\ jobs[j].expires <= clock}
               ranked == [j \in Jobs |-> IF j \in expired THEN jobs[j].expires ELSE -1]
    <3>1. ranked \in [Jobs -> Nat \cup {-1}]
      BY DEF TypeOK, JobRow
    <3> HIDE DEF ranked
    <3>2. [op |-> "recover", ranked |-> ranked] \in RecoverTx
      BY <3>1 DEF RecoverTx
    <3>3. txs' = [txs EXCEPT ![s] = [op |-> "recover", ranked |-> ranked]]
      BY <2>11 DEF BeginRecover, ranked
    <3> QED
      BY <2>11, <3>2, <3>3 DEF BeginRecover, TypeOK
  <2>12. CASE Recover(s)
    <3>1. PICK batch \in SUBSET Jobs : RecoverRows(batch)
      BY <2>12 DEF Recover, Scanned
    <3>2. jobs' \in [Jobs -> JobRow]
      BY <3>1, RecoveredType DEF RecoverRows, TypeOK
    <3>3. \A j \in Jobs : [attempts[j] EXCEPT ![jobs[j].attempt] = RecoveredOutcome(j)]
                              \in [1..AttemptLimit -> Outcomes]
      BY RecoveredType, Zenon DEF TypeOK, Outcomes
    <3>4. attempts' \in [Jobs -> [1..AttemptLimit -> Outcomes]]
      BY <3>1, <3>3 DEF RecoverRows, TypeOK
    <3> QED
      BY <2>12, <3>2, <3>4 DEF Recover, TypeOK
  <2>13. CASE Rollback(s)
    BY <2>13 DEF Rollback, TypeOK
  <2> QED
    BY <1>3, <2>1, <2>2, <2>3, <2>4, <2>5, <2>6, <2>7, <2>8, <2>9, <2>10, <2>11, <2>12, <2>13,
       Zenon
       DEF SessionStep
<1>4. CASE Tick
  BY <1>4 DEF Tick, TypeOK
<1>5. CASE UNCHANGED vars
  BY <1>5, Zenon DEF vars, TypeOK
<1> QED
  BY <1>1, <1>2, <1>3, <1>4, <1>5 DEF Next

(* Initially the variables are within their types. *)
LEMMA TypeInit == ASSUME Init PROVE TypeOK
  BY ConstantsAssumption
     DEF Init, TypeOK, JobRow, NoRow, NoToken, States, Outcomes, Idle

-----------------------------------------------------------------------------
(* The strengthening.  RowChecks, AttemptHistory and CancellationSticky are  *)
(* not inductive on their own: RecoverExpired writes a row by key, so what   *)
(* keeps it within the table's checks is that every row it scanned has at    *)
(* least one attempt, and stays that way until the recovery commits.         *)

\* Every row a recovery scanned has an attempt for it to close.
ScansStarted ==
    \A s \in Sessions : txs[s].op = "recover" =>
        \A j \in Scanned(txs[s]) : jobs[j].attempt >= 1

\* Tokens are handed out once: those in use and those handed out are 1..issued.
TokensIssued ==
    /\ \A l \in leases : l.token \in 1..issued
    /\ \A j \in Jobs : jobs[j].token <= issued

\* A job that was never enqueued has no attempt.
AbsentFresh ==
    \A j \in Jobs : jobs[j].state = "absent" => jobs[j].attempt = 0

RowInv ==
    /\ TypeOK /\ RowChecks /\ AttemptHistory /\ CancellationSticky
    /\ ScansStarted /\ AbsentFresh

IndInv == RowInv /\ TokensIssued /\ NewestLeaseHolds /\ InFlightLimit

(* What one step can do to the row of job j and its attempts. *)

Untouched(j) == jobs'[j] = jobs[j] /\ attempts'[j] = attempts[j]

Enqueued(j) ==
    /\ jobs[j].state = "absent" /\ jobs'[j].state = "queued"
    /\ jobs'[j].attempt = jobs[j].attempt
    /\ jobs'[j].token = jobs[j].token
    /\ jobs'[j].cancellation = jobs[j].cancellation
    /\ attempts'[j] = attempts[j]

Renewed(j) ==
    /\ jobs[j].state \in ActiveStates /\ jobs'[j].state \in ActiveStates
    /\ jobs'[j].attempt = jobs[j].attempt
    /\ jobs'[j].token = jobs[j].token
    /\ jobs'[j].cancellation = jobs[j].cancellation
    /\ attempts'[j] = attempts[j]

Marked(j) ==
    /\ \/ jobs[j].state \in WaitingStates /\ jobs'[j].state = "cancelled"
       \/ jobs[j].state \in ActiveStates /\ jobs'[j].state = jobs[j].state
    /\ jobs'[j].attempt = jobs[j].attempt
    /\ jobs'[j].token = jobs[j].token
    /\ jobs'[j].cancellation = "requested"
    /\ attempts'[j] = attempts[j]

Ended(j) ==
    /\ jobs[j].attempt >= 1
    /\ jobs'[j].state \in WaitingStates \cup TerminalStates
    /\ jobs'[j].state \in WaitingStates => jobs[j].attempt < MaxAttempts[j]
    /\ jobs[j].cancellation = "requested" => jobs'[j].state = "cancelled"
    /\ jobs'[j].attempt = jobs[j].attempt
    /\ jobs'[j].token = NoToken
    /\ jobs'[j].cancellation = jobs[j].cancellation
    /\ \E o \in ClosedOutcomes :
          attempts'[j] = [attempts[j] EXCEPT ![jobs[j].attempt] = o]

NotLeased(j) == Untouched(j) \/ Enqueued(j) \/ Renewed(j) \/ Marked(j) \/ Ended(j)

Leased(j) ==
    /\ jobs[j].state \in WaitingStates /\ jobs'[j].state = "leased"
    /\ jobs[j].cancellation = "none" /\ jobs'[j].cancellation = "none"
    /\ Cardinality(ActiveIn(WorkspaceOf[j])) < MaxInFlight
    /\ jobs'[j].attempt = jobs[j].attempt + 1
    /\ jobs'[j].token = issued + 1
    /\ issued' = issued + 1
    /\ leases' = leases \cup {[job |-> j, token |-> issued + 1]}
    /\ attempts'[j] = [attempts[j] EXCEPT ![jobs[j].attempt + 1] = "open"]
    /\ \A k \in Jobs \ {j} : Untouched(k)

(* A call that ends an attempt of an active job writes an Ended row. *)
LEMMA EndAttemptEnds ==
    ASSUME RowInv, NEW j \in Jobs, NEW row \in JobRow, NEW o \in ClosedOutcomes,
           jobs[j].state \in ActiveStates,
           EndAttempt(j, row, o),
           row.state \in WaitingStates \cup TerminalStates,
           row.state \in WaitingStates => jobs[j].attempt < MaxAttempts[j],
           jobs[j].cancellation = "requested" => row.state = "cancelled",
           row.attempt = jobs[j].attempt,
           row.token = NoToken,
           row.cancellation = jobs[j].cancellation
    PROVE  \A k \in Jobs : NotLeased(k)
<1>1. jobs[j].attempt >= 1
  BY DEF RowInv, RowChecks, TypeOK, JobRow
<1>2. jobs'[j] = row /\ attempts'[j] = [attempts[j] EXCEPT ![jobs[j].attempt] = o]
  BY DEF EndAttempt, RowInv, TypeOK
<1>3. Ended(j)
  BY <1>1, <1>2 DEF Ended
<1>4. \A k \in Jobs \ {j} : Untouched(k)
  BY DEF EndAttempt, Untouched, RowInv, TypeOK
<1> QED
  BY <1>3, <1>4 DEF NotLeased

(* What RecoverExpired writes is an Ended row, whatever was committed since its
   scan. *)
LEMMA RecoverEnds ==
    ASSUME RowInv, NEW j \in Jobs, NEW batch \in SUBSET Jobs, j \in batch,
           RecoverRows(batch), jobs[j].attempt >= 1
    PROVE  Ended(j)
<1>1. jobs'[j] = RecoveredRow(j)
      /\ attempts'[j] = [attempts[j] EXCEPT ![jobs[j].attempt] = RecoveredOutcome(j)]
  BY Zenon DEF RecoverRows
<1>2. TypeOK /\ jobs[j] \in JobRow /\ MaxAttempts[j] \in Nat
  BY ConstantsAssumption DEF RowInv, TypeOK
<1>3. /\ RecoveredRow(j).state \in WaitingStates \cup TerminalStates
      /\ RecoveredRow(j).state \in WaitingStates => jobs[j].attempt < MaxAttempts[j]
      /\ jobs[j].cancellation = "requested" => RecoveredRow(j).state = "cancelled"
  BY <1>2 DEF RecoveredRow, Released, JobRow, WaitingStates, TerminalStates
<1> QED
  BY <1>1, <1>2, <1>3, RecoveredType DEF Ended

(* Every step leaves each row in one of the ways above. *)
LEMMA StepKinds ==
    ASSUME RowInv, [Next]_vars
    PROVE  \/ /\ leases' = leases /\ issued' = issued
              /\ \A j \in Jobs : NotLeased(j)
           \/ \E j \in Jobs : Leased(j)
<1> DEFINE Quiet == leases' = leases /\ issued' = issued /\ \A j \in Jobs : NotLeased(j)
<1> USE DEF RowInv
<1>1. ASSUME UNCHANGED <<jobs, attempts, leases, issued>> PROVE Quiet
  BY <1>1 DEF NotLeased, Untouched
<1>2. ASSUME NEW j \in Jobs, Enqueue(j) PROVE Quiet
  <2>1. PICK delay \in EnqueueDelays :
          jobs' = [jobs EXCEPT ![j] = [@ EXCEPT !.state = "queued", !.available = clock + delay]]
    BY <1>2, Zenon DEF Enqueue
  <2>2. jobs[j] \in JobRow
    BY DEF TypeOK
  <2>3. Enqueued(j)
    BY <1>2, <2>1, <2>2 DEF Enqueue, Enqueued, TypeOK, JobRow
  <2>4. \A k \in Jobs \ {j} : Untouched(k)
    BY <1>2, <2>1 DEF Enqueue, Untouched, TypeOK
  <2> QED
    BY <1>2, <2>3, <2>4 DEF Enqueue, NotLeased
<1>3. ASSUME NEW j \in Jobs, RequestCancellation(j) PROVE Quiet
  <2>1. jobs[j] \in JobRow
    BY DEF TypeOK
  <2>2. Marked(j)
    BY <1>3, <2>1 DEF RequestCancellation, Marked, TypeOK, JobRow, WaitingStates, ActiveStates
  <2>3. \A k \in Jobs \ {j} : Untouched(k)
    BY <1>3 DEF RequestCancellation, Untouched, TypeOK
  <2> QED
    BY <1>3, <2>2, <2>3 DEF RequestCancellation, NotLeased
<1>4. ASSUME NEW s \in Sessions, Acquire(s) PROVE \E j \in Jobs : Leased(j)
  <2>1. PICK j \in Eligible(txs[s].at) : AcquireJob(s, j)
    BY <1>4 DEF Acquire
  <2>2. j \in Jobs /\ jobs[j] \in JobRow /\ issued + 1 \in Nat /\ txs[s].at \in Nat
    BY <1>4, <2>1, TxShape DEF Acquire, Eligible, TypeOK, AcquireTx
  <2>3. jobs'[j] = LeasedRow(jobs[j], issued + 1, txs[s].at)
    BY <2>1, <2>2 DEF AcquireJob, TypeOK
  <2>4. \A k \in Jobs \ {j} : Untouched(k)
    BY <2>1, <2>2 DEF AcquireJob, Untouched, TypeOK
  <2>5. attempts'[j] = [attempts[j] EXCEPT ![jobs[j].attempt + 1] = "open"]
    BY <2>1, <2>2 DEF AcquireJob, TypeOK
  <2>6. /\ jobs[j].state \in WaitingStates /\ jobs[j].cancellation = "none"
        /\ Cardinality(ActiveIn(WorkspaceOf[j])) < MaxInFlight
    BY <2>1 DEF Eligible
  <2>7. /\ jobs'[j].state = "leased" /\ jobs'[j].attempt = jobs[j].attempt + 1
        /\ jobs'[j].token = issued + 1 /\ jobs'[j].cancellation = jobs[j].cancellation
    BY <2>2, <2>3, Zenon DEF LeasedRow, JobRow
  <2>8. Leased(j)
    BY <2>1, <2>4, <2>5, <2>6, <2>7, Zenon DEF AcquireJob, Leased
  <2> QED
    BY <2>2, <2>8
<1>5. ASSUME NEW s \in Sessions, Start(s) \/ Heartbeat(s) PROVE Quiet
  <2> DEFINE j == txs[s].job
  <2>1. j \in Jobs /\ jobs[j] \in JobRow
    BY <1>5, TxShape, Zenon DEF Start, Heartbeat, TypeOK, LeaseTx, LeaseOps
  <2>2. PICK row : jobs' = [jobs EXCEPT ![j] = row] /\ attempts' = attempts
                   /\ row \in {[jobs[j] EXCEPT !.state = "running"],
                               [jobs[j] EXCEPT !.expires = txs[s].at + LeaseDuration]}
    BY <1>5, Zenon DEF Start, Heartbeat
  <2>3. jobs[j].state \in ActiveStates
    BY <1>5, Zenon DEF Start, Heartbeat, StartMatches, HeartbeatMatches, ActiveStates
  <2>4. /\ row.state \in ActiveStates /\ row.attempt = jobs[j].attempt
        /\ row.token = jobs[j].token /\ row.cancellation = jobs[j].cancellation
    BY <2>1, <2>2, <2>3 DEF JobRow, ActiveStates
  <2>5. jobs'[j] = row
    BY <2>1, <2>2, Zenon DEF TypeOK
  <2>6. Renewed(j)
    BY <2>2, <2>3, <2>4, <2>5 DEF Renewed
  <2>7. \A k \in Jobs \ {j} : Untouched(k)
    BY <2>2 DEF Untouched, TypeOK
  <2> QED
    BY <1>5, <2>6, <2>7 DEF Start, Heartbeat, NotLeased
<1>6. ASSUME NEW s \in Sessions, Succeed(s) \/ CancelActive(s) PROVE Quiet
  <2> DEFINE j == txs[s].job
  <2>1. j \in Jobs /\ jobs[j] \in JobRow
    BY <1>6, TxShape, Zenon DEF Succeed, CancelActive, TypeOK, LeaseTx, LeaseOps
  <2>2. PICK state \in {"succeeded", "cancelled"} : EndAttempt(j, Released(jobs[j], state), state)
    BY <1>6, Zenon DEF Succeed, CancelActive
  <2>3. jobs[j].state \in ActiveStates
    BY <1>6 DEF Succeed, CancelActive, SucceedMatches, CancelActiveMatches, ActiveStates
  <2>4. state \in TerminalStates /\ state \in States /\ state \in ClosedOutcomes
        /\ state \notin WaitingStates
    BY Zenon DEF TerminalStates, States, ClosedOutcomes, WaitingStates
  <2>5. CASE Succeed(s)
    <3>1. jobs[j].cancellation = "none"
      BY <2>5, Zenon DEF Succeed, SucceedMatches
    <3> QED
      BY <2>1, <2>2, <2>3, <2>4, <2>5, <3>1, ReleasedType, EndAttemptEnds, ZenonT(60) DEF Succeed
  <2>6. CASE CancelActive(s)
    <3>1. EndAttempt(j, Released(jobs[j], "cancelled"), "cancelled")
      BY <2>6 DEF CancelActive
    <3>2. "cancelled" \in TerminalStates /\ "cancelled" \in States
          /\ "cancelled" \in ClosedOutcomes /\ "cancelled" \notin WaitingStates
      BY Zenon DEF TerminalStates, States, ClosedOutcomes, WaitingStates
    <3> QED
      BY <2>1, <2>3, <2>6, <3>1, <3>2, ReleasedType, EndAttemptEnds, Zenon DEF CancelActive
  <2> QED
    BY <1>6, <2>5, <2>6
<1>7. ASSUME NEW s \in Sessions, Fail(s) PROVE Quiet
  <2> DEFINE j == txs[s].job
             back == [Released(jobs[j], "retry_wait") EXCEPT !.available = txs[s].at + RetryDelay]
  <2>1. j \in Jobs /\ jobs[j] \in JobRow /\ txs[s].at + RetryDelay \in Nat
    BY <1>7, TxShape, ConstantsAssumption DEF Fail, TypeOK, LeaseTx, LeaseOps
  <2>2. jobs[j].state \in ActiveStates
    BY <1>7 DEF Fail, FailMatches, ActiveStates
  <2>3. /\ {"cancelled", "dead_letter", "retry_wait"} \subseteq States
        /\ {"cancelled", "dead_letter", "retry"} \subseteq ClosedOutcomes
        /\ {"cancelled", "dead_letter", "retry_wait"} \subseteq WaitingStates \cup TerminalStates
        /\ "cancelled" \notin WaitingStates /\ "dead_letter" \notin WaitingStates
    BY Zenon DEF States, WaitingStates, TerminalStates, ClosedOutcomes
  <2>4. /\ back \in JobRow /\ back.state = "retry_wait" /\ back.attempt = jobs[j].attempt
        /\ back.token = NoToken /\ back.cancellation = jobs[j].cancellation
    BY <2>1, <2>3, ReleasedType DEF JobRow
  <2>5. leases' = leases /\ issued' = issued
    BY <1>7, Zenon DEF Fail
  <2>6. CASE jobs[j].cancellation = "requested"
             /\ EndAttempt(j, Released(jobs[j], "cancelled"), "cancelled")
    <3> DEFINE row == Released(jobs[j], "cancelled")
    <3>1. /\ row \in JobRow /\ row.state = "cancelled" /\ row.attempt = jobs[j].attempt
          /\ row.token = NoToken /\ row.cancellation = jobs[j].cancellation
      BY <2>1, <2>3, ReleasedType, Zenon
    <3>2. EndAttempt(j, row, "cancelled")
      BY <2>6
    <3> HIDE DEF row
    <3> QED
      BY <2>1, <2>2, <2>3, <2>5, <3>1, <3>2, EndAttemptEnds, Zenon
  <2>7. CASE /\ jobs[j].cancellation = "none" /\ jobs[j].attempt < MaxAttempts[j]
             /\ EndAttempt(j, back, "retry")
    <3> HIDE DEF back
    <3> QED
      BY <2>1, <2>2, <2>3, <2>4, <2>5, <2>7, EndAttemptEnds
  <2>8. CASE jobs[j].cancellation = "none"
             /\ EndAttempt(j, Released(jobs[j], "dead_letter"), "dead_letter")
    <3> DEFINE row == Released(jobs[j], "dead_letter")
    <3>1. /\ row \in JobRow /\ row.state = "dead_letter" /\ row.attempt = jobs[j].attempt
          /\ row.token = NoToken /\ row.cancellation = jobs[j].cancellation
      BY <2>1, <2>3, ReleasedType, Zenon
    <3>2. EndAttempt(j, row, "dead_letter") /\ jobs[j].cancellation = "none"
      BY <2>8
    <3> HIDE DEF row
    <3> QED
      BY <2>1, <2>2, <2>3, <2>5, <3>1, <3>2, EndAttemptEnds, Zenon
  <2> QED
    BY <1>7, <2>6, <2>7, <2>8, Zenon DEF Fail
<1>8. ASSUME NEW s \in Sessions, Recover(s) PROVE Quiet
  <2>1. PICK batch \in SUBSET Scanned(txs[s]) : RecoverRows(batch)
    BY <1>8 DEF Recover
  <2>2. batch \in SUBSET Jobs /\ \A j \in batch : jobs[j].attempt >= 1
    BY <1>8, <2>1 DEF Recover, Scanned, ScansStarted
  <2>3. \A j \in batch : Ended(j)
    BY <2>1, <2>2, RecoverEnds
  <2>4. \A j \in Jobs \ batch : Untouched(j)
    BY <2>1 DEF RecoverRows, Untouched
  <2> QED
    BY <1>8, <2>3, <2>4 DEF Recover, NotLeased
<1>9. ASSUME NEW s \in Sessions, SessionStep(s) PROVE Quiet \/ \E j \in Jobs : Leased(j)
  <2>1. CASE Acquire(s) \/ Start(s) \/ Heartbeat(s) \/ Succeed(s) \/ CancelActive(s)
             \/ Fail(s) \/ Recover(s)
    BY <2>1, <1>4, <1>5, <1>6, <1>7, <1>8, ZenonT(60)
  <2>2. CASE BeginAcquire(s) \/ AcquireNone(s) \/ LeaseMiss(s) \/ BeginRecover(s) \/ Rollback(s)
    BY <2>2, <1>1 DEF BeginAcquire, AcquireNone, LeaseMiss, BeginRecover, Rollback
  <2>3. ASSUME NEW op \in LeaseOps, NEW lease \in leases, BeginLeaseCall(s, op, lease)
        PROVE  Quiet
    BY <2>3, <1>1 DEF BeginLeaseCall
  <2> HIDE DEF Quiet
  <2> QED
    BY <1>9, <2>1, <2>2, <2>3 DEF SessionStep
<1>10. ASSUME Tick \/ UNCHANGED vars PROVE Quiet
  BY <1>10, <1>1 DEF Tick, vars
<1> HIDE DEF Quiet
<1>11. Quiet \/ \E j \in Jobs : Leased(j)
  BY <1>2, <1>3, <1>9, <1>10 DEF Next
<1> QED
  BY <1>11 DEF Quiet

(* Initially the invariant holds: the tables are empty. *)
LEMMA InitInv == ASSUME Init PROVE IndInv
<1>1. TypeOK
  BY TypeInit, Zenon
<1>2. RowChecks /\ CancellationSticky /\ TokensIssued /\ NewestLeaseHolds
  BY ConstantsAssumption, SMTT(60)
     DEF Init, RowChecks, CancellationSticky, TokensIssued, NewestLeaseHolds,
         NoRow, NoToken, ActiveStates, WaitingStates
<1>3. AttemptHistory
  BY ConstantsAssumption DEF Init, AttemptHistory, NoRow, ActiveStates
<1>4. ScansStarted /\ AbsentFresh
  BY DEF Init, ScansStarted, AbsentFresh, NoRow, Idle
<1>5. \A w \in Workspaces : ActiveIn(w) = {}
  BY DEF Init, ActiveIn, NoRow, ActiveStates
<1>6. InFlightLimit
  <2>1. Cardinality({}) = 0 /\ 0 <= MaxInFlight
    BY FS_EmptySet, ConstantsAssumption
  <2> QED
    BY <1>5, <2>1, Zenon DEF InFlightLimit
<1> QED
  BY <1>1, <1>2, <1>3, <1>4, <1>6 DEF IndInv, RowInv

(* Whatever a step does to a row, it keeps the row within the table's checks,
   in agreement with job_attempts, and keeps a cancellation request. *)
LEMMA RowsKept ==
    ASSUME RowInv, TypeOK', [Next]_vars
    PROVE  RowChecks' /\ AttemptHistory' /\ CancellationSticky' /\ AbsentFresh'
<1> USE DEF RowInv
<1>1. ASSUME NEW j \in Jobs
      PROVE  NotLeased(j) \/ Leased(j)
  BY StepKinds, Zenon DEF Leased, NotLeased
<1>2. \A j \in Jobs : /\ jobs[j].attempt \in Nat /\ jobs'[j].attempt \in Nat
                      /\ MaxAttempts[j] \in 1..AttemptLimit /\ AttemptLimit \in Nat
                      /\ jobs[j].state \in States /\ jobs'[j].state \in States
                      /\ jobs[j].token \in Nat /\ issued \in Nat
                      /\ jobs[j].cancellation \in {"none", "requested"}
                      /\ attempts[j] \in [1..AttemptLimit -> Outcomes]
  BY ConstantsAssumption, SMTT(60) DEF TypeOK, JobRow
<1>3. RowChecks'
  <2> SUFFICES ASSUME NEW j \in Jobs
               PROVE  /\ jobs'[j].state \in ActiveStates <=> jobs'[j].token # NoToken
                      /\ jobs'[j].state \in ActiveStates => jobs'[j].attempt > 0
                      /\ jobs'[j].state \in WaitingStates => jobs'[j].attempt < MaxAttempts[j]
                      /\ jobs'[j].attempt <= MaxAttempts[j]
    BY Zenon DEF RowChecks
  <2> USE <1>2 DEF RowChecks, ActiveStates, WaitingStates, TerminalStates, NoToken
  <2>1. CASE Untouched(j) \/ Renewed(j) \/ Marked(j)
    BY <2>1, Zenon DEF Untouched, Renewed, Marked
  <2>2. CASE Enqueued(j)
    <3>1. jobs[j].attempt = 0
      BY <2>2, Zenon DEF Enqueued, AbsentFresh
    <3> QED
      BY <2>2, <3>1 DEF Enqueued
  <2>3. CASE Ended(j)
    BY <2>3, Zenon DEF Ended
  <2>4. CASE Leased(j)
    BY <2>4, SMTT(60) DEF Leased
  <2> QED
    BY <1>1, <2>1, <2>2, <2>3, <2>4, Zenon DEF NotLeased
<1>4. AttemptHistory'
  <2> SUFFICES ASSUME NEW j \in Jobs, NEW n \in 1..AttemptLimit
               PROVE  /\ attempts'[j][n] = "absent" <=> n > jobs'[j].attempt
                      /\ attempts'[j][n] = "open" <=>
                            n = jobs'[j].attempt /\ jobs'[j].state \in ActiveStates
    BY DEF AttemptHistory
  <2>0. /\ attempts[j][n] = "absent" <=> n > jobs[j].attempt
        /\ attempts[j][n] = "open" <=> n = jobs[j].attempt /\ jobs[j].state \in ActiveStates
    BY Zenon DEF AttemptHistory
  <2> USE <1>2, <2>0 DEF ActiveStates, WaitingStates, TerminalStates
  <2>1. CASE Untouched(j) \/ Renewed(j) \/ Marked(j) \/ Enqueued(j)
    BY <2>1, Zenon DEF Untouched, Renewed, Marked, Enqueued
  <2>2. CASE Ended(j)
    BY <2>2 DEF Ended, ClosedOutcomes
  <2>3. CASE Leased(j)
    BY <2>3 DEF Leased
  <2> QED
    BY <1>1, <2>1, <2>2, <2>3, Zenon DEF NotLeased
<1>5. CancellationSticky'
  <2> SUFFICES ASSUME NEW j \in Jobs, jobs'[j].cancellation = "requested"
               PROVE  jobs'[j].state \in ActiveStates \cup {"cancelled"}
    BY Zenon DEF CancellationSticky
  <2> USE <1>2 DEF CancellationSticky, ActiveStates, WaitingStates, TerminalStates
  <2>1. CASE Untouched(j) \/ Renewed(j) \/ Marked(j) \/ Enqueued(j)
    BY <2>1, Zenon DEF Untouched, Renewed, Marked, Enqueued
  <2>2. CASE Ended(j)
    BY <2>2, Zenon DEF Ended
  <2>3. CASE Leased(j)
    BY <2>3 DEF Leased
  <2> QED
    BY <1>1, <2>1, <2>2, <2>3 DEF NotLeased
<1>6. AbsentFresh'
  <2> SUFFICES ASSUME NEW j \in Jobs, jobs'[j].state = "absent"
               PROVE  jobs'[j].attempt = 0
    BY DEF AbsentFresh
  <2> QED
    BY <1>1, <1>2, ZenonT(60) DEF AbsentFresh, NotLeased, Untouched, Renewed, Marked, Enqueued,
       Ended,
                      Leased, ActiveStates, WaitingStates, TerminalStates
<1> QED
  BY <1>3, <1>4, <1>5, <1>6

(* A recovery's scan returns active rows, and no step lowers an attempt count. *)
LEMMA ScansKept ==
    ASSUME RowInv, TypeOK', [Next]_vars
    PROVE  ScansStarted'
<1> USE DEF RowInv
<1>1. ASSUME NEW j \in Jobs PROVE jobs'[j].attempt >= jobs[j].attempt
  <2>1. jobs[j].attempt \in Nat
    BY Zenon DEF TypeOK, JobRow
  <2>2. NotLeased(j) \/ Leased(j)
    BY StepKinds, Zenon DEF Leased, NotLeased
  <2>3. jobs'[j].attempt = jobs[j].attempt \/ jobs'[j].attempt = jobs[j].attempt + 1
    BY <2>2, Zenon DEF Leased, NotLeased, Untouched, Enqueued, Renewed, Marked, Ended
  <2> QED
    BY <2>1, <2>3
<1>2. ASSUME NEW s \in Sessions, txs'[s].op = "recover"
      PROVE  txs'[s] = txs[s] \/ BeginRecover(s)
  <2>1. ASSUME NEW o \in Sessions, SessionStep(o), o # s PROVE txs'[s] = txs[s]
    <3>1. PICK tx : txs' = [txs EXCEPT ![o] = tx]
      <4>1. CASE Close(o)
        BY <4>1, Zenon
      <4>2. CASE BeginAcquire(o) \/ BeginRecover(o)
        BY <4>2, Zenon DEF BeginAcquire, BeginRecover
      <4>3. ASSUME NEW op \in LeaseOps, NEW lease \in leases, BeginLeaseCall(o, op, lease)
            PROVE  \E tx : txs' = [txs EXCEPT ![o] = tx]
        BY <4>3, Zenon DEF BeginLeaseCall
      <4> HIDE DEF Close
      <4> QED
        BY <2>1, <4>1, <4>2, <4>3
           DEF SessionStep, Acquire, AcquireNone, Start, Heartbeat, Succeed, CancelActive,
               Fail, LeaseMiss, Recover, Rollback
    <3> QED
      BY <2>1, <3>1, Zenon DEF TypeOK
  <2>2. ASSUME SessionStep(s) PROVE BeginRecover(s)
    <3>1. txs'[s] # Idle
      BY <1>2 DEF Idle
    <3>2. ~Close(s)
      BY <3>1 DEF TypeOK
    <3>3. ~BeginAcquire(s)
      BY <1>2 DEF BeginAcquire, TypeOK
    <3>4. ASSUME NEW op \in LeaseOps, NEW lease \in leases PROVE ~BeginLeaseCall(s, op, lease)
      BY <1>2 DEF BeginLeaseCall, LeaseOps, TypeOK
    <3> HIDE DEF Close
    <3> QED
      BY <2>2, <3>2, <3>3, <3>4
         DEF SessionStep, Acquire, AcquireNone, Start, Heartbeat, Succeed, CancelActive,
             Fail, LeaseMiss, Recover, Rollback
  <2>3. CASE (\E j \in Jobs : Enqueue(j) \/ RequestCancellation(j)) \/ Tick \/ UNCHANGED vars
    BY <2>3, Zenon DEF Enqueue, RequestCancellation, Tick, vars
  <2> QED
    BY <2>1, <2>2, <2>3 DEF Next
<1>3. SUFFICES ASSUME NEW s \in Sessions, txs'[s].op = "recover", NEW j \in Scanned(txs'[s])
               PROVE  jobs'[j].attempt >= 1
  BY Zenon DEF ScansStarted, Scanned
<1>4. /\ j \in Jobs /\ txs'[s].ranked[j] # -1
      /\ jobs[j].attempt \in Nat /\ jobs'[j].attempt \in Nat
  BY Zenon DEF Scanned, TypeOK, JobRow
<1>5. CASE txs'[s] = txs[s]
  <2>1. jobs[j].attempt >= 1
    BY <1>3, <1>4, <1>5, Zenon DEF ScansStarted, Scanned
  <2> QED
    BY <1>1, <1>4, <2>1
<1>6. CASE BeginRecover(s)
  <2>1. txs'[s].ranked = [k \in Jobs |-> IF /\ jobs[k].state \in ActiveStates
                                             /\ jobs[k].expires <= clock
                                         THEN jobs[k].expires ELSE -1]
    BY <1>6, Zenon DEF BeginRecover, TypeOK
  <2>2. jobs[j].state \in ActiveStates
    BY <1>4, <2>1, Zenon
  <2>3. jobs[j].attempt >= 1
    BY <1>4, <2>2 DEF RowChecks
  <2> QED
    BY <1>1, <1>4, <2>3
<1> QED
  BY <1>2, <1>3, <1>5, <1>6

(* Only Acquire makes a lease current, and it does so with a token nobody has. *)
LEMMA LeasesKept ==
    ASSUME IndInv, RowInv', [Next]_vars
    PROVE  TokensIssued' /\ NewestLeaseHolds'
<1> USE DEF IndInv, RowInv
<1>1. /\ issued \in Nat /\ leases \subseteq [job : Jobs, token : Nat]
      /\ \A j \in Jobs : jobs[j].token \in Nat
  BY DEF TypeOK, JobRow
<1>2. CASE leases' = leases /\ issued' = issued /\ \A j \in Jobs : NotLeased(j)
  <2>1. ASSUME NEW j \in Jobs
        PROVE  \/ jobs'[j].token = NoToken /\ jobs'[j].state \notin ActiveStates
               \/ /\ jobs'[j].token = jobs[j].token
                  /\ jobs'[j].state \in ActiveStates => jobs[j].state \in ActiveStates
    BY <1>2, Zenon DEF NotLeased, Untouched, Enqueued, Renewed, Marked, Ended, ActiveStates,
                WaitingStates, TerminalStates
  <2>2. TokensIssued'
    BY <1>1, <1>2, <2>1 DEF TokensIssued, NoToken
  <2>3. NewestLeaseHolds'
    <3> SUFFICES ASSUME NEW j \in Jobs, jobs'[j].state \in ActiveStates
                 PROVE  /\ [job |-> j, token |-> jobs'[j].token] \in leases'
                        /\ \A l \in leases' : l.job = j => l.token <= jobs'[j].token
                        /\ \A k \in Jobs : jobs'[k].token = jobs'[j].token => k = j
      BY DEF NewestLeaseHolds
    <3>1. jobs'[j].token = jobs[j].token /\ jobs[j].state \in ActiveStates
      BY <2>1
    <3>2. jobs[j].token # NoToken
      BY <3>1 DEF RowChecks
    <3> QED
      BY <1>2, <2>1, <3>1, <3>2, Zenon DEF NewestLeaseHolds
  <2> QED
    BY <2>2, <2>3, Zenon
<1>3. ASSUME NEW j \in Jobs, Leased(j) PROVE TokensIssued' /\ NewestLeaseHolds'
  <2>1. /\ jobs'[j].token = issued + 1 /\ issued' = issued + 1
        /\ leases' = leases \cup {[job |-> j, token |-> issued + 1]}
        /\ \A k \in Jobs \ {j} : jobs'[k] = jobs[k]
    BY <1>3, Zenon DEF Leased, Untouched
  <2>2. TokensIssued'
    BY <1>1, <2>1 DEF TokensIssued
  <2>3. NewestLeaseHolds'
    <3> SUFFICES ASSUME NEW k \in Jobs, jobs'[k].state \in ActiveStates
                 PROVE  /\ [job |-> k, token |-> jobs'[k].token] \in leases'
                        /\ \A l \in leases' : l.job = k => l.token <= jobs'[k].token
                        /\ \A h \in Jobs : jobs'[h].token = jobs'[k].token => h = k
      BY DEF NewestLeaseHolds
    <3>1. CASE k = j
      BY <1>1, <2>1, <3>1 DEF TokensIssued
    <3>2. CASE k # j
      <4>1. jobs[k].state \in ActiveStates /\ jobs'[k].token = jobs[k].token
            /\ jobs[k].token <= issued
        BY <2>1, <3>2 DEF TokensIssued
      <4> QED
        BY <1>1, <2>1, <3>2, <4>1 DEF NewestLeaseHolds
    <3> QED
      BY <3>1, <3>2, Zenon
  <2> QED
    BY <2>2, <2>3, Zenon
<1> QED
  BY <1>2, <1>3, StepKinds

(* The count of active jobs of a workspace grows only in Acquire, by one, and
   only below the limit. *)
LEMMA LimitKept ==
    ASSUME IndInv, [Next]_vars
    PROVE  InFlightLimit'
<1> USE DEF IndInv, RowInv
<1> SUFFICES ASSUME NEW w \in Workspaces
             PROVE  Cardinality(ActiveIn(w)') <= MaxInFlight
  BY Zenon DEF InFlightLimit
<1>1. /\ IsFiniteSet(ActiveIn(w)) /\ Cardinality(ActiveIn(w)) \in Nat
      /\ IsFiniteSet(ActiveIn(w)') /\ Cardinality(ActiveIn(w)') \in Nat
      /\ MaxInFlight \in Nat
  <2>1. IsFiniteSet(Jobs) /\ ActiveIn(w) \in SUBSET Jobs /\ ActiveIn(w)' \in SUBSET Jobs
    BY ConstantsAssumption DEF ActiveIn
  <2> QED
    BY <2>1, FS_Subset, FS_CardinalityType, ConstantsAssumption, SMTT(60)
<1>2. Cardinality(ActiveIn(w)) <= MaxInFlight
  BY DEF InFlightLimit
<1>3. CASE \A j \in Jobs : NotLeased(j)
  <2>1. ActiveIn(w)' \in SUBSET ActiveIn(w)
    BY <1>3 DEF ActiveIn, NotLeased, Untouched, Enqueued, Renewed, Marked, Ended,
                ActiveStates, WaitingStates, TerminalStates
  <2>2. Cardinality(ActiveIn(w)') <= Cardinality(ActiveIn(w))
    BY <1>1, <2>1, FS_Subset
  <2> QED
    BY <1>1, <1>2, <2>2, SMTT(60)
<1>4. ASSUME NEW j \in Jobs, Leased(j) PROVE Cardinality(ActiveIn(w)') <= MaxInFlight
  <2>1. \A k \in Jobs \ {j} : jobs'[k] = jobs[k]
    BY <1>4, Zenon DEF Leased, Untouched
  <2>2. jobs'[j].state \in ActiveStates /\ jobs[j].state \notin ActiveStates
    BY <1>4 DEF Leased, ActiveStates, WaitingStates
  <2>3. CASE WorkspaceOf[j] = w
    <3>1. ActiveIn(w)' = ActiveIn(w) \cup {j} /\ j \notin ActiveIn(w)
      BY <2>1, <2>2, <2>3 DEF ActiveIn
    <3>2. Cardinality(ActiveIn(w)') = Cardinality(ActiveIn(w)) + 1
      BY <1>1, <3>1, FS_AddElement, Zenon
    <3>3. Cardinality(ActiveIn(w)) < MaxInFlight
      BY <1>4, <2>3 DEF Leased
    <3> QED
      BY <1>1, <3>2, <3>3
  <2>4. CASE WorkspaceOf[j] # w
    <3>1. ActiveIn(w)' = ActiveIn(w)
      BY <2>1, <2>4 DEF ActiveIn
    <3> QED
      BY <1>2, <3>1
  <2> QED
    BY <2>3, <2>4, Zenon
<1> QED
  BY <1>3, <1>4, StepKinds

(* No step of the queue leaves the invariant. *)
LEMMA Inductive ==
    ASSUME IndInv, [Next]_vars
    PROVE  IndInv'
<1>1. TypeOK'
  BY TypeStep DEF IndInv, RowInv
<1>2. RowInv'
  BY <1>1, RowsKept, ScansKept DEF IndInv, RowInv
<1> QED
  BY <1>2, LeasesKept, LimitKept DEF IndInv

(* The strengthened invariant holds in every reachable state. *)
THEOREM Invariance == Spec => []IndInv
<1>1. Init => IndInv
  BY InitInv
<1>2. IndInv /\ [Next]_vars => IndInv'
  BY Inductive
<1> QED
  BY <1>1, <1>2, PTL DEF Spec

(* Every variable keeps its type. *)
THEOREM TypeCorrect == Spec => []TypeOK
  BY Invariance, PTL DEF IndInv, RowInv

(* No statement of the queue is refused by a CHECK of the jobs table, in
   particular no order of finishes, cancellations and recoveries spends more
   than max_attempts attempts. *)
THEOREM RowChecksHold == Spec => []RowChecks
  BY Invariance, PTL DEF IndInv, RowInv

(* job_attempts agrees with jobs in every reachable state. *)
THEOREM AttemptHistoryHolds == Spec => []AttemptHistory
  BY Invariance, PTL DEF IndInv, RowInv

(* A cancellation request is never lost. *)
THEOREM CancellationIsSticky == Spec => []CancellationSticky
  BY Invariance, PTL DEF IndInv, RowInv

(* At most one lease per job is current, and it is the newest one. *)
THEOREM NewestLeaseIsCurrent == Spec => []NewestLeaseHolds
  BY Invariance, PTL DEF IndInv

(* No workspace exceeds maxInFlightPerWorkspace. *)
THEOREM InFlightIsLimited == Spec => []InFlightLimit
  BY Invariance, PTL DEF IndInv

-----------------------------------------------------------------------------
(* Action properties                                                         *)

(* A row changes in one of five ways: it is enqueued, marked for cancellation,
   leased while waiting, changed by its current lease, or recovered. *)
LEMMA Writers ==
    ASSUME TypeOK, [Next]_vars, NEW j \in Jobs, jobs'[j] # jobs[j]
    PROVE  \/ Enqueue(j)
           \/ RequestCancellation(j)
           \/ jobs[j].state \in WaitingStates
           \/ \E s \in Sessions :
                 \/ CommitsAsHolder(s, j) /\ jobs[j].state \in ActiveStates
                 \/ CommitsAsRecovery(s, j)
<1>1. ASSUME NEW k \in Jobs, NEW row, jobs' = [jobs EXCEPT ![k] = row] PROVE k = j
  BY <1>1 DEF TypeOK
<1>2. ASSUME NEW k \in Jobs, Enqueue(k) \/ RequestCancellation(k)
      PROVE  Enqueue(j) \/ RequestCancellation(j)
  <2>1. \E row : jobs' = [jobs EXCEPT ![k] = row]
    BY <1>2, Zenon DEF Enqueue, RequestCancellation
  <2> QED
    BY <1>1, <1>2, <2>1
<1>3. ASSUME NEW s \in Sessions, Acquire(s) PROVE jobs[j].state \in WaitingStates
  <2>1. PICK k \in Eligible(txs[s].at) : AcquireJob(s, k)
    BY <1>3, Zenon DEF Acquire
  <2>2. k \in Jobs /\ jobs[k].state \in WaitingStates
    BY Zenon DEF Eligible
  <2> QED
    BY <1>1, <2>1, <2>2, Zenon DEF AcquireJob
<1>4. ASSUME NEW s \in Sessions,
             Start(s) \/ Heartbeat(s) \/ Succeed(s) \/ CancelActive(s) \/ Fail(s)
      PROVE  CommitsAsHolder(s, j) /\ jobs[j].state \in ActiveStates
  <2>1. txs[s].op \in LeaseOps /\ Close(s)
    BY <1>4, Zenon DEF Start, Heartbeat, Succeed, CancelActive, Fail, LeaseOps
  <2>2. LeaseCurrent(txs[s]) /\ jobs[txs[s].job].state \in ActiveStates
    BY <1>4 DEF Start, Heartbeat, Succeed, CancelActive, Fail, StartMatches, HeartbeatMatches,
                SucceedMatches, CancelActiveMatches, FailMatches, ActiveStates
  <2>3. txs[s].job \in Jobs
    BY <2>1, TxShape DEF LeaseTx
  <2>4. \E row : jobs' = [jobs EXCEPT ![txs[s].job] = row]
    BY <1>4, Zenon DEF Start, Heartbeat, Succeed, CancelActive, Fail, EndAttempt
  <2>5. txs[s].job = j
    BY <1>1, <2>3, <2>4
  <2>6. txs[s].at \in Nat /\ jobs[j].expires \in Nat
    BY <2>1, TxShape, Zenon DEF LeaseTx, TypeOK, JobRow
  <2> QED
    BY <2>1, <2>2, <2>5, <2>6, Zenon DEF CommitsAsHolder, LeaseCurrent, TypeOK
<1>5. ASSUME NEW s \in Sessions, Recover(s) PROVE CommitsAsRecovery(s, j)
  <2>1. PICK batch \in SUBSET Scanned(txs[s]) : RecoverRows(batch)
    BY <1>5, Zenon DEF Recover
  <2>2. j \in batch
    BY <2>1, Zenon DEF RecoverRows
  <2> QED
    BY <1>5, <2>1, <2>2, Zenon DEF Recover, CommitsAsRecovery, TypeOK
<1>6. ASSUME NEW s \in Sessions, SessionStep(s)
      PROVE  \/ Acquire(s) \/ Recover(s)
             \/ Start(s) \/ Heartbeat(s) \/ Succeed(s) \/ CancelActive(s) \/ Fail(s)
  BY <1>6 DEF SessionStep, BeginAcquire, AcquireNone, BeginLeaseCall, LeaseMiss,
              BeginRecover, Rollback
<1>7. ~Tick /\ ~UNCHANGED vars
  BY DEF Tick, vars
<1> QED
  BY <1>2, <1>3, <1>4, <1>5, <1>6, <1>7, Zenon DEF Next

(* Fencing: a superseded or expired lease never changes an active row. *)
THEOREM FencingHolds == Spec => Fenced
<1> DEFINE A == \A j \in Jobs :
          /\ jobs[j].state \in ActiveStates
          /\ jobs[j] # [jobs'[j] EXCEPT !.cancellation = jobs[j].cancellation]
          => \E s \in Sessions : CommitsAsHolder(s, j) \/ CommitsAsRecovery(s, j)
<1>1. TypeOK /\ [Next]_vars => [A]_vars
  <2> SUFFICES ASSUME TypeOK, [Next]_vars, NEW j \in Jobs,
                      jobs[j].state \in ActiveStates,
                      jobs[j] # [jobs'[j] EXCEPT !.cancellation = jobs[j].cancellation]
               PROVE  \E s \in Sessions : CommitsAsHolder(s, j) \/ CommitsAsRecovery(s, j)
    OBVIOUS
  <2>1. jobs[j] \in JobRow
    BY DEF TypeOK
  <2>2. jobs'[j] # jobs[j]
    BY <2>1 DEF JobRow
  <2>3. ~Enqueue(j)
    BY Zenon DEF Enqueue, ActiveStates
  <2>4. ~RequestCancellation(j)
    <3>1. ASSUME RequestCancellation(j)
          PROVE  jobs'[j] = [jobs[j] EXCEPT !.cancellation = "requested", !.state = jobs[j].state]
      BY <3>1, Zenon DEF RequestCancellation, TypeOK, ActiveStates, WaitingStates
    <3>2. ASSUME RequestCancellation(j)
          PROVE  jobs[j] = [jobs'[j] EXCEPT !.cancellation = jobs[j].cancellation]
      BY <2>1, <3>1, <3>2, Zenon DEF JobRow
    <3> QED
      BY <3>2
  <2>5. jobs[j].state \notin WaitingStates
    BY DEF ActiveStates, WaitingStates
  <2> QED
    BY <2>2, <2>3, <2>4, <2>5, Writers
<1> QED
  BY <1>1, TypeCorrect, PTL DEF Spec, Fenced

(* A finished job is moved only by a recovery that scanned it before it
   finished. *)
THEOREM FinishedStay == Spec => FinishedJobsStay
<1> DEFINE A == \A j \in Jobs :
          jobs[j].state \in TerminalStates /\ jobs'[j] # jobs[j]
          => \E s \in Sessions : CommitsAsRecovery(s, j)
<1>1. TypeOK /\ [Next]_vars => [A]_vars
  <2> SUFFICES ASSUME TypeOK, [Next]_vars, NEW j \in Jobs,
                      jobs[j].state \in TerminalStates, jobs'[j] # jobs[j]
               PROVE  \E s \in Sessions : CommitsAsRecovery(s, j)
    OBVIOUS
  <2>1. ~Enqueue(j) /\ ~RequestCancellation(j)
        /\ jobs[j].state \notin WaitingStates /\ jobs[j].state \notin ActiveStates
    BY Zenon DEF Enqueue, RequestCancellation, TerminalStates, WaitingStates, ActiveStates
  <2> QED
    BY <2>1, Writers, Zenon
<1> QED
  BY <1>1, TypeCorrect, PTL DEF Spec, FinishedJobsStay

(* The attempt history is append-only: no recovery or late finish lowers the
   count, and no attempt that was closed is open again. *)
THEOREM AttemptsAreAppendOnly == Spec => AttemptsAppendOnly
<1> DEFINE A == \A j \in Jobs :
          /\ jobs'[j].attempt >= jobs[j].attempt
          /\ \A n \in 1..AttemptLimit :
                attempts'[j][n] = "open" => attempts[j][n] \in {"absent", "open"}
<1>1. IndInv /\ [Next]_vars => [A]_vars
  <2> SUFFICES ASSUME IndInv, [Next]_vars, NEW j \in Jobs
               PROVE  /\ jobs'[j].attempt >= jobs[j].attempt
                      /\ \A n \in 1..AttemptLimit :
                            attempts'[j][n] = "open" => attempts[j][n] \in {"absent", "open"}
    OBVIOUS
  <2>1. NotLeased(j) \/ Leased(j)
    BY StepKinds, Zenon DEF IndInv, Leased, NotLeased
  <2>2. jobs[j].attempt \in Nat /\ attempts[j] \in [1..AttemptLimit -> Outcomes]
    BY Zenon DEF IndInv, RowInv, TypeOK, JobRow
  <2>3. CASE Untouched(j) \/ Enqueued(j) \/ Renewed(j) \/ Marked(j)
    BY <2>2, <2>3, SMTT(60) DEF Untouched, Enqueued, Renewed, Marked
  <2>4. CASE Ended(j)
    BY <2>2, <2>4 DEF Ended, ClosedOutcomes
  <2>5. CASE Leased(j)
    <3>1. \A n \in 1..AttemptLimit : n = jobs[j].attempt + 1 => attempts[j][n] = "absent"
      BY <2>2 DEF IndInv, RowInv, AttemptHistory
    <3> QED
      BY <2>2, <2>5, <3>1 DEF Leased
  <2> QED
    BY <2>1, <2>3, <2>4, <2>5, Zenon DEF NotLeased
<1> QED
  BY <1>1, Invariance, PTL DEF Spec, AttemptsAppendOnly

-----------------------------------------------------------------------------
(* JobQueue implements LeaseLedger                                           *)

(* The empty table is the empty ledger. *)
LEMMA LedgerStarts == ASSUME Init PROVE Ledger!LedgerInit
  BY Zenon DEF Init, NoRow, LedgerStatus, Ledger!LedgerInit, WaitingStates, ActiveStates

(* A step that leaves the jobs table alone leaves the ledger alone. *)
LEMMA LedgerStutters == ASSUME UNCHANGED jobs PROVE UNCHANGED Ledger!ledger
  BY DEF Ledger!ledger, LedgerStatus

(* A step that writes one row changes that entry of the ledger only. *)
LEMMA OneRow ==
    ASSUME NEW j \in Jobs, NEW row, jobs \in [Jobs -> JobRow],
           jobs' = [jobs EXCEPT ![j] = row]
    PROVE  /\ [k \in Jobs |-> LedgerStatus(jobs'[k])] =
                 [[k \in Jobs |-> LedgerStatus(jobs[k])] EXCEPT ![j] = LedgerStatus(row)]
           /\ [k \in Jobs |-> jobs'[k].attempt] =
                 [[k \in Jobs |-> jobs[k].attempt] EXCEPT ![j] = row.attempt]
           /\ [k \in Jobs |-> jobs'[k].cancellation = "requested"] =
                 [[k \in Jobs |-> jobs[k].cancellation = "requested"]
                     EXCEPT ![j] = (row.cancellation = "requested")]
  BY Zenon

(* A row that keeps its standing, its attempt and its cancellation mark. *)
LEMMA SameStanding ==
    ASSUME NEW j \in Jobs, NEW row, jobs \in [Jobs -> JobRow],
           jobs' = [jobs EXCEPT ![j] = row],
           LedgerStatus(row) = LedgerStatus(jobs[j]),
           row.attempt = jobs[j].attempt, row.cancellation = jobs[j].cancellation
    PROVE  UNCHANGED Ledger!ledger
<1>1. \A k \in Jobs : /\ LedgerStatus(jobs'[k]) = LedgerStatus(jobs[k])
                      /\ jobs'[k].attempt = jobs[k].attempt
                      /\ jobs'[k].cancellation = jobs[k].cancellation
  BY Zenon
<1> QED
  BY <1>1 DEF Ledger!ledger

(* The end of an attempt that holds its job is the ledger's Finish. *)
LEMMA AttemptFinishes ==
    ASSUME NEW j \in Jobs, NEW row, jobs \in [Jobs -> JobRow],
           jobs' = [jobs EXCEPT ![j] = row],
           jobs[j].state \in ActiveStates,
           row.state \in WaitingStates \cup TerminalStates,
           row.state \in WaitingStates => jobs[j].attempt < MaxAttempts[j],
           jobs[j].cancellation = "requested" => row.state = "cancelled",
           row.attempt = jobs[j].attempt, row.cancellation = jobs[j].cancellation
    PROVE  Ledger!LedgerNext
<1>1. LedgerStatus(jobs[j]) = "held"
  BY Zenon DEF LedgerStatus, ActiveStates, WaitingStates
<1>2. /\ LedgerStatus(row) \in Ledger!EndStates \cup {"waiting"}
      /\ LedgerStatus(row) = "waiting" => jobs[j].attempt < MaxAttempts[j]
      /\ jobs[j].cancellation = "requested" => LedgerStatus(row) = "cancelled"
  BY DEF LedgerStatus, ActiveStates, WaitingStates, TerminalStates, Ledger!EndStates
<1>3. /\ [[k \in Jobs |-> jobs[k].attempt] EXCEPT ![j] = row.attempt]
           = [k \in Jobs |-> jobs[k].attempt]
      /\ [[k \in Jobs |-> jobs[k].cancellation = "requested"]
             EXCEPT ![j] = (row.cancellation = "requested")]
           = [k \in Jobs |-> jobs[k].cancellation = "requested"]
  BY Zenon
<1>4. Ledger!Finish(j, LedgerStatus(row))
  BY <1>1, <1>2, <1>3, OneRow, Zenon DEF Ledger!Finish
<1> QED
  BY <1>2, <1>4, Zenon DEF Ledger!LedgerNext

(* RecoverExpired, whatever its scan has missed, is the ledger's Reclaim. *)
LEMMA BatchReclaims ==
    ASSUME TypeOK, NEW batch \in SUBSET Jobs, RecoverRows(batch),
           \A j \in batch : jobs[j].attempt >= 1
    PROVE  Ledger!LedgerNext
<1>1. ASSUME NEW j \in batch
      PROVE  /\ LedgerStatus(jobs'[j]) = Ledger!Reclaimed(j)
             /\ jobs'[j].attempt = jobs[j].attempt
             /\ jobs'[j].cancellation = jobs[j].cancellation
  <2>1. jobs'[j] = RecoveredRow(j) /\ jobs[j] \in JobRow
    BY Zenon DEF RecoverRows, TypeOK
  <2>2. jobs[j].attempt \in Nat /\ MaxAttempts[j] \in Nat
    BY <2>1, ConstantsAssumption, SMTT(60) DEF JobRow
  <2>3. LedgerStatus(RecoveredRow(j)) = Ledger!Reclaimed(j)
    <3>1. Ledger!Reclaimed(j) = IF jobs[j].cancellation = "requested" THEN "cancelled"
                                ELSE IF jobs[j].attempt < MaxAttempts[j] THEN "waiting"
                                ELSE "dead_letter"
      BY Zenon DEF Ledger!Reclaimed
    <3>2. RecoveredRow(j).state = IF jobs[j].cancellation = "requested" THEN "cancelled"
                                  ELSE IF jobs[j].attempt >= MaxAttempts[j] THEN "dead_letter"
                                  ELSE IF jobs[j].state = "running" THEN "retry_wait"
                                  ELSE "queued"
      BY <2>1 DEF RecoveredRow, Released, JobRow
    <3> QED
      BY <2>2, <3>1, <3>2 DEF LedgerStatus, WaitingStates, ActiveStates
  <2>4. /\ RecoveredRow(j).attempt = jobs[j].attempt
        /\ RecoveredRow(j).cancellation = jobs[j].cancellation
    BY <2>1, Zenon DEF RecoveredRow, Released, JobRow
  <2> QED
    BY <2>1, <2>3, <2>4, Zenon
<1>2. \A j \in Jobs \ batch : jobs'[j] = jobs[j]
  BY Zenon DEF RecoverRows
<1>3. [j \in Jobs |-> LedgerStatus(jobs'[j])]
        = [j \in Jobs |-> IF j \in batch THEN Ledger!Reclaimed(j)
                          ELSE [k \in Jobs |-> LedgerStatus(jobs[k])][j]]
  BY <1>1, <1>2, Zenon
<1>4. /\ [j \in Jobs |-> jobs'[j].attempt] = [j \in Jobs |-> jobs[j].attempt]
      /\ [j \in Jobs |-> jobs'[j].cancellation = "requested"]
           = [j \in Jobs |-> jobs[j].cancellation = "requested"]
  BY <1>1, <1>2, Zenon
<1>5. \A j \in batch : [k \in Jobs |-> jobs[k].attempt][j] > 0
  BY SMTT(60) DEF TypeOK, JobRow
<1>6. Ledger!Reclaim(batch)
  BY <1>3, <1>4, <1>5, Zenon DEF Ledger!Reclaim
<1> QED
  BY <1>6, Zenon DEF Ledger!LedgerNext

(* Every step of the queue is a step of the ledger or leaves it unchanged. *)
LEMMA LedgerSteps ==
    ASSUME IndInv, [Next]_vars
    PROVE  Ledger!LedgerNext \/ UNCHANGED Ledger!ledger
<1>0. TypeOK /\ RowChecks /\ ScansStarted /\ jobs \in [Jobs -> JobRow]
  BY DEF IndInv, RowInv, TypeOK
<1>1. ASSUME NEW j \in Jobs, Enqueue(j) PROVE Ledger!LedgerNext
  <2>1. PICK delay \in EnqueueDelays :
          jobs' = [jobs EXCEPT ![j] = [@ EXCEPT !.state = "queued", !.available = clock + delay]]
    BY <1>1, Zenon DEF Enqueue
  <2> DEFINE row == [jobs[j] EXCEPT !.state = "queued", !.available = clock + delay]
  <2>2. /\ jobs[j].state = "absent" /\ row.state = "queued"
        /\ row.attempt = jobs[j].attempt /\ row.cancellation = jobs[j].cancellation
    BY <1>0, <1>1 DEF Enqueue, JobRow
  <2>3. jobs' = [jobs EXCEPT ![j] = row]
    BY <2>1, Zenon
  <2> HIDE DEF row
  <2>4. LedgerStatus(jobs[j]) = "absent" /\ LedgerStatus(row) = "waiting"
    BY <2>2 DEF LedgerStatus, WaitingStates, ActiveStates
  <2>5. /\ [[k \in Jobs |-> jobs[k].attempt] EXCEPT ![j] = row.attempt]
             = [k \in Jobs |-> jobs[k].attempt]
        /\ [[k \in Jobs |-> jobs[k].cancellation = "requested"]
               EXCEPT ![j] = (row.cancellation = "requested")]
             = [k \in Jobs |-> jobs[k].cancellation = "requested"]
    BY <2>2, Zenon
  <2>6. Ledger!Submit(j)
    BY <1>0, <2>3, <2>4, <2>5, OneRow, Zenon DEF Ledger!Submit
  <2> QED
    BY <2>6 DEF Ledger!LedgerNext
<1>2. ASSUME NEW j \in Jobs, RequestCancellation(j) PROVE Ledger!LedgerNext
  <2> DEFINE row == [jobs[j] EXCEPT
                       !.cancellation = "requested",
                       !.state = IF jobs[j].state \in WaitingStates THEN "cancelled"
                                 ELSE jobs[j].state]
  <2>1. jobs' = [jobs EXCEPT ![j] = row]
    BY <1>2 DEF RequestCancellation
  <2>2. /\ jobs[j].state \in WaitingStates \cup ActiveStates
        /\ row.state = IF jobs[j].state \in WaitingStates THEN "cancelled" ELSE jobs[j].state
        /\ row.attempt = jobs[j].attempt /\ row.cancellation = "requested"
    BY <1>0, <1>2, Zenon DEF RequestCancellation, JobRow
  <2> HIDE DEF row
  <2>3. /\ LedgerStatus(jobs[j]) \in {"waiting", "held"}
        /\ LedgerStatus(row) = IF LedgerStatus(jobs[j]) = "waiting" THEN "cancelled"
                               ELSE LedgerStatus(jobs[j])
    BY <2>2, Zenon DEF LedgerStatus, WaitingStates, ActiveStates
  <2>4. [[k \in Jobs |-> jobs[k].attempt] EXCEPT ![j] = row.attempt]
             = [k \in Jobs |-> jobs[k].attempt]
    BY <2>2
  <2>5. Ledger!Withdraw(j)
    BY <1>0, <2>1, <2>2, <2>3, <2>4, OneRow, Zenon DEF Ledger!Withdraw
  <2> QED
    BY <2>5 DEF Ledger!LedgerNext
<1>3. ASSUME NEW s \in Sessions, Acquire(s) PROVE Ledger!LedgerNext
  <2>1. PICK j \in Eligible(txs[s].at) : AcquireJob(s, j)
    BY <1>3, Zenon DEF Acquire
  <2>2. /\ j \in Jobs /\ jobs[j].state \in WaitingStates /\ jobs[j].cancellation = "none"
        /\ jobs[j] \in JobRow
    BY <1>0, <2>1, Zenon DEF Eligible
  <2> DEFINE row == LeasedRow(jobs[j], issued + 1, txs[s].at)
  <2>3. jobs' = [jobs EXCEPT ![j] = row]
    BY <2>1 DEF AcquireJob
  <2>4. /\ row.state = "leased" /\ row.attempt = jobs[j].attempt + 1
        /\ row.cancellation = jobs[j].cancellation
    BY <2>2, Zenon DEF LeasedRow, JobRow
  <2>5. jobs[j].attempt < MaxAttempts[j]
    BY <1>0, <2>2, Zenon DEF RowChecks
  <2> HIDE DEF row
  <2>6. LedgerStatus(jobs[j]) = "waiting" /\ LedgerStatus(row) = "held"
    BY <2>2, <2>4, Zenon DEF LedgerStatus, WaitingStates, ActiveStates
  <2>7. /\ [[k \in Jobs |-> jobs[k].cancellation = "requested"]
               EXCEPT ![j] = (row.cancellation = "requested")]
             = [k \in Jobs |-> jobs[k].cancellation = "requested"]
        /\ [[k \in Jobs |-> jobs[k].attempt] EXCEPT ![j] = row.attempt]
             = [[k \in Jobs |-> jobs[k].attempt] EXCEPT ![j] = @ + 1]
    BY <2>2, <2>4, Zenon
  <2>8. Ledger!Grant(j)
    BY <1>0, <2>2, <2>3, <2>5, <2>6, <2>7, OneRow, ZenonT(60) DEF Ledger!Grant
  <2> QED
    BY <2>2, <2>8, Zenon DEF Ledger!LedgerNext
<1>4. ASSUME NEW s \in Sessions, Start(s) \/ Heartbeat(s) PROVE UNCHANGED Ledger!ledger
  <2> DEFINE j == txs[s].job
  <2>0. txs[s].op \in LeaseOps
    BY <1>4, Zenon DEF Start, Heartbeat, LeaseOps
  <2>1. j \in Jobs /\ jobs[j].state \in ActiveStates
    <3>1. j \in Jobs
      BY <1>0, <2>0, TxShape, Zenon DEF LeaseTx
    <3>2. jobs[j].state \in ActiveStates
      BY <1>4 DEF Start, StartMatches, Heartbeat, HeartbeatMatches, ActiveStates
    <3> QED
      BY <3>1, <3>2, Zenon
  <2>2. CASE Start(s)
    <3> DEFINE row == [jobs[j] EXCEPT !.state = "running"]
    <3>1. jobs' = [jobs EXCEPT ![j] = row]
      BY <2>2 DEF Start
    <3>2. /\ row.state = "running" /\ row.attempt = jobs[j].attempt
          /\ row.cancellation = jobs[j].cancellation
      BY <1>0, <2>1, ZenonT(60) DEF JobRow
    <3> HIDE DEF row, j
    <3>3. LedgerStatus(row) = LedgerStatus(jobs[j])
      BY <2>1, <3>2 DEF LedgerStatus, WaitingStates, ActiveStates
    <3> QED
      BY <1>0, <2>1, <3>1, <3>2, <3>3, SameStanding, ZenonT(60)
  <2>3. CASE Heartbeat(s)
    <3> DEFINE row == [jobs[j] EXCEPT !.expires = txs[s].at + LeaseDuration]
    <3>1. jobs' = [jobs EXCEPT ![j] = row]
      BY <2>3 DEF Heartbeat
    <3>2. /\ row.state = jobs[j].state /\ row.attempt = jobs[j].attempt
          /\ row.cancellation = jobs[j].cancellation
      BY <1>0, <2>1, Zenon DEF JobRow
    <3> HIDE DEF row, j
    <3>3. LedgerStatus(row) = LedgerStatus(jobs[j])
      BY <3>2 DEF LedgerStatus
    <3> QED
      BY <1>0, <2>1, <3>1, <3>2, <3>3, SameStanding, ZenonT(60)
  <2> QED
    BY <1>4, <2>2, <2>3, Zenon
<1>5. ASSUME NEW s \in Sessions, Succeed(s) \/ CancelActive(s) \/ Fail(s)
      PROVE  Ledger!LedgerNext
  <2> DEFINE j == txs[s].job
  <2>0. txs[s].op \in LeaseOps
    BY <1>5, Zenon DEF Succeed, CancelActive, Fail, LeaseOps
  <2>1. j \in Jobs /\ jobs[j] \in JobRow
    BY <1>0, <2>0, TxShape, Zenon DEF LeaseTx
  <2>2. jobs[j].state \in ActiveStates
    BY <1>5, Zenon DEF Succeed, SucceedMatches, CancelActive, CancelActiveMatches, Fail,
       FailMatches,
               ActiveStates
  <2>3. PICK row, o :
          /\ EndAttempt(j, row, o)
          /\ row.state \in WaitingStates \cup TerminalStates
          /\ row.state \in WaitingStates => jobs[j].attempt < MaxAttempts[j]
          /\ jobs[j].cancellation = "requested" => row.state = "cancelled"
          /\ row.attempt = jobs[j].attempt /\ row.cancellation = jobs[j].cancellation
    <3> DEFINE Ends(row) ==
          /\ row.state \in WaitingStates \cup TerminalStates
          /\ row.state \in WaitingStates => jobs[j].attempt < MaxAttempts[j]
          /\ jobs[j].cancellation = "requested" => row.state = "cancelled"
          /\ row.attempt = jobs[j].attempt /\ row.cancellation = jobs[j].cancellation
    <3>1. CASE Succeed(s)
      <4>1. EndAttempt(j, Released(jobs[j], "succeeded"), "succeeded")
            /\ jobs[j].cancellation = "none"
        BY <3>1 DEF Succeed, SucceedMatches
      <4>2. Ends(Released(jobs[j], "succeeded"))
        BY <2>1, <4>1, Zenon DEF Released, JobRow, WaitingStates, TerminalStates
      <4> QED
        BY <4>1, <4>2, Zenon
    <3>2. CASE CancelActive(s)
      <4>1. EndAttempt(j, Released(jobs[j], "cancelled"), "cancelled")
        BY <3>2 DEF CancelActive
      <4>2. Ends(Released(jobs[j], "cancelled"))
        BY <2>1, Zenon DEF Released, JobRow, WaitingStates, TerminalStates
      <4> QED
        BY <4>1, <4>2, Zenon
    <3>3. CASE Fail(s)
      <4> DEFINE retry == txs[s].op = "fail_retryable" /\ jobs[j].attempt < MaxAttempts[j]
                 later == [Released(jobs[j], "retry_wait") EXCEPT !.available = txs[s].at + RetryDelay]
      <4>1. \/ EndAttempt(j, Released(jobs[j], "cancelled"), "cancelled")
            \/ /\ jobs[j].cancellation = "none" /\ retry
               /\ EndAttempt(j, later, "retry")
            \/ /\ jobs[j].cancellation = "none"
               /\ EndAttempt(j, Released(jobs[j], "dead_letter"), "dead_letter")
        BY <3>3, Zenon DEF Fail
      <4>2. Ends(Released(jobs[j], "cancelled"))
        BY <2>1 DEF Released, JobRow, WaitingStates, TerminalStates
      <4>3. jobs[j].cancellation = "none" /\ retry => Ends(later)
        BY <2>1 DEF Released, JobRow, WaitingStates, TerminalStates
      <4>4. jobs[j].cancellation = "none" => Ends(Released(jobs[j], "dead_letter"))
        BY <2>1, Zenon DEF Released, JobRow, WaitingStates, TerminalStates
      <4> HIDE DEF retry, later, Ends, j
      <4> QED
        BY <4>1, <4>2, <4>3, <4>4, Zenon DEF Ends
    <3> QED
      BY <1>5, <3>1, <3>2, <3>3, Zenon
  <2>4. jobs' = [jobs EXCEPT ![j] = row]
    BY <2>3 DEF EndAttempt
  <2> HIDE DEF j
  <2> QED
    BY <1>0, <2>1, <2>2, <2>3, <2>4, AttemptFinishes, ZenonT(60)
<1>6. ASSUME NEW s \in Sessions, Recover(s) PROVE Ledger!LedgerNext
  <2>1. PICK batch \in SUBSET Scanned(txs[s]) : RecoverRows(batch)
    BY <1>6, Zenon DEF Recover
  <2>2. batch \in SUBSET Jobs /\ \A j \in batch : jobs[j].attempt >= 1
    BY <1>0, <1>6, <2>1 DEF Scanned, ScansStarted, Recover
  <2> QED
    BY <1>0, <2>1, <2>2, BatchReclaims, Zenon
<1>7. ASSUME UNCHANGED jobs PROVE UNCHANGED Ledger!ledger
  BY <1>7, LedgerStutters
<1>8. ASSUME NEW s \in Sessions, SessionStep(s)
      PROVE  \/ Acquire(s) \/ Start(s) \/ Heartbeat(s) \/ Succeed(s) \/ CancelActive(s)
             \/ Fail(s) \/ Recover(s) \/ UNCHANGED jobs
  BY <1>8, Zenon DEF SessionStep, BeginAcquire, AcquireNone, BeginLeaseCall, LeaseMiss,
     BeginRecover,
              Rollback
<1>9. CASE UNCHANGED vars
  BY <1>7, <1>9 DEF vars
<1>10. CASE Next
  <2>1. CASE \E j \in Jobs : Enqueue(j) \/ RequestCancellation(j)
    BY <1>1, <1>2, <2>1, Zenon
  <2>2. CASE \E s \in Sessions : SessionStep(s)
    BY <1>3, <1>4, <1>5, <1>6, <1>7, <1>8, <2>2, ZenonT(60)
  <2>3. CASE Tick
    BY <1>7, <2>3 DEF Tick
  <2> QED
    BY <1>10, <2>1, <2>2, <2>3, Zenon DEF Next
<1> QED
  BY <1>9, <1>10, Zenon

(* The queue keeps the ledger's promise for every number of jobs, sessions and
   attempts: code that relies on LeaseLedger may rely on the leases of queue.go. *)
THEOREM LedgerImplemented == Spec => ImplementsLedger
<1>1. Init => Ledger!LedgerInit
  BY LedgerStarts
<1>2. IndInv /\ [Next]_vars => [Ledger!LedgerNext]_(Ledger!ledger)
  BY LedgerSteps
<1> QED
  BY <1>1, <1>2, Invariance, PTL DEF Spec, ImplementsLedger, Ledger!LedgerSpec
=============================================================================
