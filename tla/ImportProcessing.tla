-------------------------- MODULE ImportProcessing --------------------------
(***************************************************************************)
(* The import.process job: the handler of internal/processing/importjob    *)
(* (Processor.Handle), the tables it writes through internal/ingestion,    *)
(* internal/finding and internal/correlation, and the public operation.    *)
(*                                                                         *)
(* The job is an entry of LeaseLedger.  Each attempt has a handler of its  *)
(* own; one that lost its lease keeps running beside its successor, since  *)
(* no statement it makes compares the lease.  A statement or a short       *)
(* transaction is one step: BeginProcessing, CompleteProcessing and        *)
(* FailProcessing lock the operation and the import together.              *)
(*                                                                         *)
(* The parser and the normalizer are deterministic for a build of the      *)
(* worker, and a build has one parser version.  Timestamps and candidate   *)
(* identifiers are in no fingerprint, and Processor.timestamp raises a     *)
(* timestamp to that of the row it must not precede: they are left out.    *)
(***************************************************************************)
EXTENDS LeaseLedger

CONSTANTS
    AttemptLimit,
    Runs,           \* the report has the runs 1..Runs
    ResultsIn,      \* results of each run
    Builds,         \* parser versions of the workers that may take the job
    Defects,        \* what may be wrong with the report: "none" or the step refusing it
    Revocable,      \* jobs whose principal may lose the capability
    Cancellable,    \* jobs whose cancellation may be requested
    Aging,          \* jobs that may reach RetryMaximumAge
    MaxErrors,      \* bound on calls that fail and replies that are lost
    MaxFaults       \* bound on crashes, panics, shutdowns, lost leases and
                    \* failures that cannot be persisted

ASSUME ProcessingConstants ==
    /\ AttemptLimit \in Nat /\ MaxAttempts \in [Jobs -> 1..AttemptLimit]
    /\ Runs \in Nat /\ ResultsIn \in [1..Runs -> Nat]
    /\ Revocable \subseteq Jobs /\ Cancellable \subseteq Jobs /\ Aging \subseteq Jobs
    /\ MaxErrors \in Nat /\ MaxFaults \in Nat

VARIABLES
    operation,      \* open_aspm.operations: state, failure_code, result.scans_created
    importState,    \* open_aspm.imports.state
    records,        \* parse outputs, scans, observations, normalizations, outcomes
    handler,        \* the handler of each attempt
    defect,         \* what is wrong with the report
    allowed,        \* the principal still has imports:process
    old,            \* the job has reached RetryMaximumAge
    errors,
    faults

domain == <<operation, importState, records>>
environment == <<defect, allowed, old>>
bounds == <<errors, faults>>
processing == <<ledger, domain, handler, environment, bounds>>

-----------------------------------------------------------------------------
(* Rows and handlers                                                       *)

RecordKinds == {"parse", "scan", "observation", "normalization", "correlation"}
Codes == {"none", "denied", "conflict", "rejected", "unavailable"}
OperationStates == {"absent", "queued", "running", "succeeded", "failed"}
ImportStates == {"absent", "queued", "processing", "succeeded", "failed"}
Attempts == 1..AttemptLimit

\* A row of one of the five tables: the identifier is the attempt that made it,
\* the parent the scan of an observation or the observation of an interpretation.
Record == [kind : RecordKinds, run : 0..Runs, result : Nat, build : Builds,
           id : Attempts, parent : 0..AttemptLimit]

Operation == [state : OperationStates, code : Codes, scans : 0..Runs]

Pcs == {"idle", "resolve", "authorize", "begin", "evidence", "record", "complete",
        "fail", "report", "ended"}

Handler == [pc : Pcs, ctx : {"live", "done"}, build : Builds \cup {"none"},
            seen : OperationStates,                  \* target.State
            step : [kind : RecordKinds, run : 0..Runs, result : Nat],
            scan : 0..AttemptLimit,                  \* storedScan.ID
            observation : 0..AttemptLimit,           \* storedObservation.ID
            code : Codes,
            outcome : {"none", "succeeded", "retryable", "permanent", "cancelled"}]

FirstStep == [kind |-> "parse", run |-> 0, result |-> 0]

NoHandler == [pc |-> "idle", ctx |-> "live", build |-> "none", seen |-> "absent",
              step |-> FirstStep, scan |-> 0, observation |-> 0, code |-> "none",
              outcome |-> "none"]

ProcessingInit ==
    /\ LedgerInit
    /\ operation = [j \in Jobs |-> [state |-> "absent", code |-> "none", scans |-> 0]]
    /\ importState = [j \in Jobs |-> "absent"]
    /\ records = [j \in Jobs |-> {}]
    /\ handler = [j \in Jobs |-> [a \in Attempts |-> NoHandler]]
    /\ defect \in [Jobs -> Defects]
    /\ allowed = [j \in Jobs |-> TRUE]
    /\ old = [j \in Jobs |-> FALSE]
    /\ errors = 0 /\ faults = 0

Error == errors < MaxErrors /\ errors' = errors + 1 /\ UNCHANGED faults
Fault == faults < MaxFaults /\ faults' = faults + 1 /\ UNCHANGED errors
Go(j, a, h) == handler' = [handler EXCEPT ![j] = [@ EXCEPT ![a] = h]]
Holder(j, a) == status[j] = "held" /\ used[j] = a
Active(j, a) == handler[j][a].pc \notin {"idle", "ended"}

\* A call of Handle is made: its context must be live.
Calling(j, a, pc) == handler[j][a].pc = pc /\ handler[j][a].ctx = "live"

-----------------------------------------------------------------------------
(* The job                                                                 *)

\* Service.Complete creates the operation, queues the import and enqueues the job
\* in one transaction.
CompleteImport(j) ==
    /\ Submit(j)
    /\ operation' = [operation EXCEPT ![j] = [@ EXCEPT !.state = "queued"]]
    /\ importState' = [importState EXCEPT ![j] = "queued"]
    /\ UNCHANGED <<records, handler, environment, bounds>>

\* A worker acquires the job and calls Handle.
AcquireImport(j) ==
    /\ Grant(j)
    /\ \E b \in Builds :
          Go(j, used[j] + 1, [NoHandler EXCEPT !.pc = "resolve", !.build = b])
    /\ UNCHANGED <<domain, environment, bounds>>

\* Handle returns, or moves on to permanent's FailProcessing.
Reporting(j, a, outcome) ==
    [NoHandler EXCEPT !.pc = "report", !.ctx = handler[j][a].ctx,
                      !.build = handler[j][a].build, !.outcome = outcome]
Failing(j, a, code) ==
    [NoHandler EXCEPT !.pc = "fail", !.ctx = handler[j][a].ctx,
                      !.build = handler[j][a].build, !.code = code]

\* Mutant: the last attempt is retried like any other.
RetryingOn(j, a) == Reporting(j, a, "retryable")

\* retry: a failure that may pass is permanent on the last attempt and at the
\* maximum age.
Retrying(j, a) ==
    IF a >= MaxAttempts[j] \/ old[j] THEN Failing(j, a, "unavailable")
    ELSE Reporting(j, a, "retryable")

-----------------------------------------------------------------------------
(* Handle: target, authorization, BeginProcessing, evidence                *)

\* target.State, read without a lock before the authorization.
ResolveProcessingTarget(j, a) ==
    /\ Calling(j, a, "resolve")
    /\ Go(j, a, [handler[j][a] EXCEPT !.pc = "authorize", !.seen = operation[j].state])
    /\ UNCHANGED <<ledger, domain, environment, bounds>>

Terminal == {"succeeded", "failed"}

\* terminalOutcome: the outcome that replays a finished operation.
TerminalOutcome(state) == IF state = "succeeded" THEN "succeeded" ELSE "permanent"

Authorize(j, a) ==
    /\ Calling(j, a, "authorize")
    /\ LET seen == handler[j][a].seen IN
          \/ ~allowed[j] /\ Go(j, a, Failing(j, a, "denied"))
          \/ /\ allowed[j] /\ seen \in Terminal
             /\ Go(j, a, Reporting(j, a, TerminalOutcome(seen)))
          \/ /\ allowed[j] /\ seen \notin Terminal
             /\ Go(j, a, [handler[j][a] EXCEPT !.pc = "begin", !.seen = "absent"])
    /\ UNCHANGED <<ledger, domain, environment, bounds>>

Unfinished(j) ==
    /\ operation[j].state \in {"queued", "running"}
    /\ importState[j] \in {"queued", "processing"}

\* Mutant: a failed operation is started again.
BeginEffectAgain(j) ==
    /\ operation' = [operation EXCEPT ![j] =
          [@ EXCEPT !.state = IF @ = "succeeded" THEN @ ELSE "running"]]
    /\ importState' = [importState EXCEPT ![j] = IF @ = "succeeded" THEN @ ELSE "processing"]
    /\ UNCHANGED records

\* What BeginProcessing commits, and what Handle does with its reply.
BeginEffect(j) ==
    /\ operation' = [operation EXCEPT ![j] =
          IF Unfinished(j) THEN [@ EXCEPT !.state = "running"] ELSE @]
    /\ importState' = [importState EXCEPT ![j] = IF Unfinished(j) THEN "processing" ELSE @]
    /\ UNCHANGED records

BeginReply(j, a) ==
    IF operation[j].state \in Terminal
    THEN Reporting(j, a, TerminalOutcome(operation[j].state))
    ELSE IF Unfinished(j) THEN [handler[j][a] EXCEPT !.pc = "evidence"]
    ELSE Failing(j, a, "conflict")

BeginProcessing(j, a) ==
    /\ Calling(j, a, "begin")
    /\ BeginEffect(j)
    /\ Go(j, a, BeginReply(j, a))
    /\ UNCHANGED <<ledger, environment, bounds>>

\* The checks of the source, Open, matchingEvidence and Parse: the report is read,
\* or refused for good.
OpenAndParse(j, a) ==
    /\ Calling(j, a, "evidence")
    /\ \/ /\ defect[j] = "evidence"
          /\ Go(j, a, Failing(j, a, "rejected"))
       \/ /\ defect[j] # "evidence"
          /\ Go(j, a, [handler[j][a] EXCEPT !.pc = "record"])
    /\ UNCHANGED <<ledger, domain, environment, bounds>>

-----------------------------------------------------------------------------
(* Handle: the loops over runs and results, one Record call at a time      *)

NextRun(r) ==
    IF r < Runs THEN [kind |-> "scan", run |-> r + 1, result |-> 0] ELSE FirstStep

\* Mutant: the last result of a run is left out.
NextResultShort(r, k) ==
    IF k + 1 < ResultsIn[r] THEN [kind |-> "observation", run |-> r, result |-> k + 1]
    ELSE NextRun(r)

NextResult(r, k) ==
    IF k < ResultsIn[r] THEN [kind |-> "observation", run |-> r, result |-> k + 1]
    ELSE NextRun(r)

\* The call after a step; FirstStep once the loops are done.
Following(step) ==
    CASE step.kind = "parse" -> NextRun(0)
      [] step.kind = "scan" -> NextResult(step.run, 0)
      [] step.kind = "observation" -> [step EXCEPT !.kind = "normalization"]
      [] step.kind = "normalization" -> [step EXCEPT !.kind = "correlation"]
      [] step.kind = "correlation" -> NextResult(step.run, step.result)

\* The row a handler asks to insert.
RowOf(h, a) ==
    [kind |-> h.step.kind, run |-> h.step.run, result |-> h.step.result, build |-> h.build,
     id |-> a,
     parent |-> CASE h.step.kind = "observation" -> h.scan
                  [] h.step.kind \in {"normalization", "correlation"} -> h.observation
                  [] OTHER -> 0]

\* The unique keys the five inserts name in ON CONFLICT.
ParseOutputKey(e, row) == e.build = row.build

\* Mutant: a scan is unique per parser version, as an observation is.
ScanKeyPerBuild(e, row) == e.run = row.run /\ e.build = row.build

ScanKey(e, row) == e.run = row.run

ObservationKey(e, row) ==
    /\ e.run = row.run /\ e.parent = row.parent
    /\ e.result = row.result /\ e.build = row.build

InterpretationKey(e, row) ==
    e.run = row.run /\ e.result = row.result /\ e.parent = row.parent

\* The stored row with the key of the row to insert, if any.
Existing(j, row) ==
    {e \in records[j] :
        /\ e.kind = row.kind
        /\ CASE row.kind = "parse" -> ParseOutputKey(e, row)
             [] row.kind = "scan" -> ScanKey(e, row)
             [] row.kind = "observation" -> ObservationKey(e, row)
             [] OTHER -> InterpretationKey(e, row)}

\* An insert finds no row, its own row, or a row with another fingerprint.
Found(j, row) ==
    IF Existing(j, row) = {} THEN "new"
    ELSE IF \E e \in Existing(j, row) : e.build # row.build THEN "conflict"
    ELSE "replay"

Invalid(j, row) == defect[j] = row.kind

\* What each Record call reports.  Parse outputs and scans belong to the committed
\* artifact, the other rows to the row they were made from.
RecordParseOutput(j, row) == IF Invalid(j, row) THEN "invalid" ELSE Found(j, row)

RecordScan(j, row) == IF Invalid(j, row) THEN "invalid" ELSE Found(j, row)

RecordObservation(j, row) ==
    CASE Invalid(j, row) -> "invalid"
      [] \E e \in records[j] : e.kind = "scan" /\ e.run = row.run /\ e.id = row.parent
            -> Found(j, row)
      [] OTHER -> "no source"

RecordNormalization(j, row) ==
    CASE Invalid(j, row) -> "invalid"
      [] \E e \in records[j] : /\ e.kind = "observation" /\ e.run = row.run
                               /\ e.result = row.result /\ e.id = row.parent
            -> Found(j, row)
      [] OTHER -> "no source"

RecordUncorrelated(j, row) ==
    CASE Invalid(j, row) -> "invalid"
      [] \E e \in records[j] : /\ e.kind = "normalization" /\ e.run = row.run
                               /\ e.result = row.result /\ e.parent = row.parent
            -> Found(j, row)
      [] OTHER -> "no source"

Verdict(j, row) ==
    CASE row.kind = "parse" -> RecordParseOutput(j, row)
      [] row.kind = "scan" -> RecordScan(j, row)
      [] row.kind = "observation" -> RecordObservation(j, row)
      [] row.kind = "normalization" -> RecordNormalization(j, row)
      [] row.kind = "correlation" -> RecordUncorrelated(j, row)

RecordEffect(j, row) ==
    /\ records' = [records EXCEPT ![j] = IF Verdict(j, row) = "new" THEN @ \cup {row} ELSE @]
    /\ UNCHANGED <<operation, importState>>

\* Mutant: the loop goes on with the identifier it generated.
RecordedOwn(j, a, row) ==
    LET h == handler[j][a]
        next == Following(h.step)
    IN [h EXCEPT !.pc = IF next = FirstStep THEN "complete" ELSE "record",
                 !.step = next,
                 !.scan = IF row.kind = "scan" THEN row.id ELSE @,
                 !.observation = IF row.kind = "observation" THEN row.id ELSE @]

\* The handler after a row was stored or replayed: the loop goes on with the
\* identifier that is stored, not with the one it generated.
Recorded(j, a, row) ==
    LET h == handler[j][a]
        stored == CHOOSE e \in Existing(j, row) \cup {row} :
                     Existing(j, row) # {} => e \in Existing(j, row)
        next == Following(h.step)
    IN [h EXCEPT !.pc = IF next = FirstStep THEN "complete" ELSE "record",
                 !.step = next,
                 !.scan = IF row.kind = "scan" THEN stored.id ELSE @,
                 !.observation = IF row.kind = "observation" THEN stored.id ELSE @]

RecordReply(j, a, row) ==
    CASE Verdict(j, row) \in {"new", "replay"} -> Recorded(j, a, row)
      [] Verdict(j, row) = "invalid" -> Failing(j, a, "rejected")
      [] Verdict(j, row) = "conflict" -> Failing(j, a, "conflict")
      [] Verdict(j, row) = "no source" ->
            IF row.kind = "observation" THEN Retrying(j, a) ELSE Failing(j, a, "rejected")

\* RecordParseOutput, RecordScan, RecordObservation, RecordNormalization,
\* RecordUncorrelated: one transaction each.
RecordRow(j, a) ==
    /\ Calling(j, a, "record")
    /\ LET row == RowOf(handler[j][a], a) IN
          RecordEffect(j, row) /\ Go(j, a, RecordReply(j, a, row))
    /\ UNCHANGED <<ledger, environment, bounds>>

-----------------------------------------------------------------------------
(* Handle: CompleteProcessing, FailProcessing, and the outcome             *)

Completes(j) == operation[j].state = "running" /\ importState[j] = "processing"

CompleteEffect(j) ==
    /\ operation' = [operation EXCEPT ![j] =
          IF Completes(j) THEN [@ EXCEPT !.state = "succeeded", !.scans = Runs] ELSE @]
    /\ importState' = [importState EXCEPT ![j] = IF Completes(j) THEN "succeeded" ELSE @]
    /\ UNCHANGED records

\* Mutant: completing a completed operation is a conflict.
CompleteReplyOnce(j, a) ==
    IF Completes(j) THEN Reporting(j, a, "succeeded") ELSE Failing(j, a, "conflict")

CompleteReply(j, a) ==
    IF \/ Completes(j)
       \/ /\ operation[j].state = "succeeded" /\ operation[j].scans = Runs
          /\ importState[j] = "succeeded"
    THEN Reporting(j, a, "succeeded")
    ELSE Failing(j, a, "conflict")

CompleteProcessing(j, a) ==
    /\ Calling(j, a, "complete")
    /\ CompleteEffect(j)
    /\ Go(j, a, CompleteReply(j, a))
    /\ UNCHANGED <<ledger, environment, bounds>>

\* Mutant: an import that was not begun keeps its state.
FailEffectBegun(j, code) ==
    /\ operation' = [operation EXCEPT ![j] =
          IF Unfinished(j) THEN [@ EXCEPT !.state = "failed", !.code = code] ELSE @]
    /\ importState' = [importState EXCEPT ![j] =
          IF Unfinished(j) /\ @ = "processing" THEN "failed" ELSE @]
    /\ UNCHANGED records

FailEffect(j, code) ==
    /\ operation' = [operation EXCEPT ![j] =
          IF Unfinished(j) THEN [@ EXCEPT !.state = "failed", !.code = code] ELSE @]
    /\ importState' = [importState EXCEPT ![j] = IF Unfinished(j) THEN "failed" ELSE @]
    /\ UNCHANGED records

\* permanent: FailProcessing runs under a context of its own; a conflict with a
\* finished operation is as good as success.
FailProcessing(j, a) ==
    /\ handler[j][a].pc = "fail"
    /\ FailEffect(j, handler[j][a].code)
    /\ Go(j, a, Reporting(j, a, "permanent"))
    /\ UNCHANGED <<ledger, environment, bounds>>

\* What the queue makes of an outcome.
EndOf(j, a, outcome) ==
    CASE outcome = "succeeded" -> "succeeded"
      [] outcome = "retryable" /\ a < MaxAttempts[j] /\ ~old[j] -> "waiting"
      [] OTHER -> "dead_letter"

\* The worker reports the outcome under the attempt's lease.  A cancellation is
\* acknowledged instead; a lost lease or a dead context leaves the job alone.
Report(j, a) ==
    /\ handler[j][a].pc = "report"
    /\ \/ /\ Holder(j, a) /\ withdrawn[j]
          /\ Finish(j, "cancelled")
       \/ /\ Holder(j, a) /\ ~withdrawn[j] /\ handler[j][a].ctx = "live"
          /\ Finish(j, EndOf(j, a, handler[j][a].outcome))
       \/ /\ ~Holder(j, a) \/ handler[j][a].ctx = "done"
          /\ UNCHANGED ledger
    /\ Go(j, a, [NoHandler EXCEPT !.pc = "ended"])
    /\ UNCHANGED <<domain, environment, bounds>>

-----------------------------------------------------------------------------
(* Faults and the environment                                              *)

Calls == {"resolve", "authorize", "begin", "record", "complete"}

\* A call fails without effect: its context is done, or its backend fails.
CallFails(j, a) ==
    /\ handler[j][a].pc \in Calls
    /\ \/ handler[j][a].ctx = "done" /\ UNCHANGED bounds
       \/ handler[j][a].ctx = "live" /\ Error
    /\ Go(j, a, Retrying(j, a))
    /\ UNCHANGED <<ledger, domain, environment>>

\* Evidence cannot be read: cancelled with the context, otherwise retried.
EvidenceFails(j, a) ==
    /\ handler[j][a].pc = "evidence"
    /\ \/ /\ handler[j][a].ctx = "done" /\ UNCHANGED bounds
          /\ Go(j, a, Reporting(j, a, "cancelled"))
       \/ /\ handler[j][a].ctx = "live" /\ Error
          /\ Go(j, a, Retrying(j, a))
    /\ UNCHANGED <<ledger, domain, environment>>

\* A transaction commits and Handle sees an error.
ReplyLost(j, a) ==
    /\ Error
    /\ \/ Calling(j, a, "begin") /\ BeginEffect(j)
       \/ Calling(j, a, "record") /\ RecordEffect(j, RowOf(handler[j][a], a))
       \/ Calling(j, a, "complete") /\ CompleteEffect(j)
    /\ Go(j, a, Retrying(j, a))
    /\ UNCHANGED <<ledger, environment>>

\* Mutant: the error of FailProcessing is ignored.
UnpersistedIgnored(j, a) == Reporting(j, a, "permanent")

Unpersisted(j, a) == Reporting(j, a, "retryable")

\* FailProcessing itself fails, before or after its commit.
FailureUnpersisted(j, a) ==
    /\ handler[j][a].pc = "fail"
    /\ Fault
    /\ UNCHANGED domain \/ FailEffect(j, handler[j][a].code)
    /\ Go(j, a, Unpersisted(j, a))
    /\ UNCHANGED <<ledger, environment>>

\* Handle panics: callHandler turns that into a retryable outcome.
Panic(j, a) ==
    /\ handler[j][a].pc \in Calls \cup {"evidence"}
    /\ Fault
    /\ Go(j, a, Reporting(j, a, "retryable"))
    /\ UNCHANGED <<ledger, domain, environment>>

\* The worker dies with the handler.
Crash(j, a) ==
    /\ Active(j, a)
    /\ Fault
    /\ Go(j, a, [NoHandler EXCEPT !.pc = "ended"])
    /\ UNCHANGED <<ledger, domain, environment>>

\* The handler's context ends: a heartbeat finds the lease lost or the job
\* withdrawn, or the worker shuts down.
Interrupt(j, a) ==
    /\ Active(j, a) /\ handler[j][a].ctx = "live"
    /\ \/ (~Holder(j, a) \/ withdrawn[j]) /\ UNCHANGED bounds
       \/ Holder(j, a) /\ ~withdrawn[j] /\ Fault
    /\ Go(j, a, [handler[j][a] EXCEPT !.ctx = "done"])
    /\ UNCHANGED <<ledger, domain, environment>>

\* RecoverExpired takes the job from an attempt that has ended without a report.
RecoverAbandoned(j) ==
    /\ status[j] = "held" /\ handler[j][used[j]].pc = "ended"
    /\ Reclaim({j})
    /\ UNCHANGED <<domain, handler, environment, bounds>>

\* RecoverExpired takes the job from a slow attempt, or commits a stale scan.
RecoverActive(j) ==
    /\ used[j] > 0
    /\ status[j] = "held" => Active(j, used[j])
    /\ Fault
    /\ Reclaim({j})
    /\ UNCHANGED <<domain, handler, environment>>

RequestCancellation(j) ==
    /\ j \in Cancellable
    /\ Withdraw(j)
    /\ UNCHANGED <<domain, handler, environment, bounds>>

\* The principal loses the capability the job was accepted with.
Revoke(j) ==
    /\ j \in Revocable /\ allowed[j]
    /\ allowed' = [allowed EXCEPT ![j] = FALSE]
    /\ UNCHANGED <<ledger, domain, handler, defect, old, bounds>>

Age(j) ==
    /\ j \in Aging /\ ~old[j]
    /\ old' = [old EXCEPT ![j] = TRUE]
    /\ UNCHANGED <<ledger, domain, handler, defect, allowed, bounds>>

HandleStep(j, a) ==
    \/ ResolveProcessingTarget(j, a) \/ Authorize(j, a) \/ BeginProcessing(j, a)
    \/ OpenAndParse(j, a) \/ RecordRow(j, a) \/ CompleteProcessing(j, a)
    \/ FailProcessing(j, a) \/ Report(j, a)

HandleFault(j, a) ==
    \/ CallFails(j, a) \/ EvidenceFails(j, a) \/ ReplyLost(j, a)
    \/ FailureUnpersisted(j, a) \/ Panic(j, a) \/ Crash(j, a) \/ Interrupt(j, a)

ProcessingNext ==
    \E j \in Jobs :
        \/ CompleteImport(j) \/ AcquireImport(j)
        \/ \E a \in Attempts : HandleStep(j, a) \/ HandleFault(j, a)
        \/ RecoverAbandoned(j) \/ RecoverActive(j)
        \/ RequestCancellation(j) \/ Revoke(j) \/ Age(j)

\* Workers poll, handlers make progress, their contexts' end is noticed, and
\* RecoverExpired is called.
ProcessingFairness ==
    \A j \in Jobs :
        /\ WF_processing(AcquireImport(j)) /\ WF_processing(RecoverAbandoned(j))
        /\ \A a \in Attempts :
              WF_processing(HandleStep(j, a) \/ CallFails(j, a) \/ EvidenceFails(j, a))

ProcessingSpec == ProcessingInit /\ [][ProcessingNext]_processing /\ ProcessingFairness

-----------------------------------------------------------------------------
(* Properties                                                              *)

\* The two public resources never disagree, whichever attempt moved them last.
StatesAgree ==
    \A j \in Jobs :
        <<operation[j].state, importState[j]>> \in
            {<<"absent", "absent">>, <<"queued", "queued">>, <<"running", "processing">>,
             <<"succeeded", "succeeded">>, <<"failed", "failed">>}

\* The report as build b reads it is stored in full, every row under the row it
\* came from.
Interpreted(j, b) ==
    /\ \E e \in records[j] : e.kind = "parse" /\ e.build = b
    /\ \A r \in 1..Runs : \E scan \in records[j] :
          /\ scan.kind = "scan" /\ scan.run = r /\ scan.build = b
          /\ \A k \in 1..ResultsIn[r] : \E o \in records[j] :
                /\ o.kind = "observation" /\ o.run = r /\ o.result = k
                /\ o.parent = scan.id /\ o.build = b
                /\ \A kind \in {"normalization", "correlation"} : \E e \in records[j] :
                      /\ e.kind = kind /\ e.run = r /\ e.result = k /\ e.parent = o.id

\* A succeeded operation promises what is there: every record of the report, in
\* one interpretation, and one scan for each of the scans it counts.
SucceededIsComplete ==
    \A j \in Jobs : operation[j].state = "succeeded" =>
        /\ \E b \in Builds : Interpreted(j, b)
        /\ LET scans == {e \in records[j] : e.kind = "scan"} IN
           /\ {e.run : e \in scans} = 1..operation[j].scans
           /\ \A e, f \in scans : e.run = f.run => e = f

\* Attempts that overlap, repeat each other or run different builds leave one row
\* for each element of the report (and one parse output per parser version).
OneRecordPerSource ==
    \A j \in Jobs : \A e, f \in records[j] :
        /\ e.kind = f.kind /\ e.run = f.run /\ e.result = f.result
        /\ e.kind = "parse" => e.build = f.build
        => e = f

\* An outcome handed to the queue is already public: success means that the
\* operation succeeded, a permanent failure that it is finished; so a job is
\* acknowledged only for a succeeded operation, although the two are written in
\* separate transactions.
OutcomePublished ==
    \A j \in Jobs :
        /\ \A a \in Attempts : handler[j][a].pc = "report" =>
              /\ handler[j][a].outcome = "succeeded" => operation[j].state = "succeeded"
              /\ handler[j][a].outcome = "permanent" => operation[j].state \in Terminal
        /\ status[j] = "succeeded" => operation[j].state = "succeeded"

\* A finished operation keeps its state, code and result: no late attempt
\* overwrites what a client has seen.
OperationFinal ==
    [][\A j \in Jobs : operation[j].state \in Terminal
          => operation'[j] = operation[j] /\ importState'[j] = importState[j]]_processing

\* However many calls fail, an accepted import gets a public verdict: the last
\* attempt publishes the failure it cannot retry (retry and permanent, in the
\* absence of crashes, age and cancellation).
EveryOperationFinishes ==
    \A j \in Jobs : operation[j].state # "absent"
        ~> operation[j].state \in Terminal \/ faults > 0

\* Fewer attempts have been lost to failures than the job has.
Spared(j) == errors + faults < MaxAttempts[j]

\* An attempt is under way after one of another build has stored a scan.
Upgraded(j) ==
    \E a \in Attempts, e \in records[j] :
        Active(j, a) /\ e.kind = "scan" /\ e.build # handler[j][a].build

\* With an attempt left, a sound report is processed: what a lost attempt of the
\* same build has stored never stops a later one, nor what one of another build
\* stored before its first scan (the replays of the Record calls).  A scan belongs
\* to one parser version, so an upgrade after that fails the operation.
SoundReportSucceeds ==
    \A j \in Jobs : []~Upgraded(j) =>
        (operation[j].state # "absent" /\ defect[j] = "none"
            ~> operation[j].state = "succeeded" \/ ~allowed[j] \/ ~Spared(j))

\* A durable success reaches the job, also when its attempt was lost after
\* CompleteProcessing, unless the principal has lost the capability or the attempt
\* that holds the job met the scans of another build.
SuccessReachesJob ==
    \A j \in Jobs : []~Upgraded(j) =>
        (operation[j].state = "succeeded"
            ~> status[j] = "succeeded" \/ ~allowed[j] \/ ~Spared(j))
=============================================================================
