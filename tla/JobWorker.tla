----------------------------- MODULE JobWorker -----------------------------
(***************************************************************************)
(* The worker of internal/jobqueue/worker.go on top of JobQueue: the slots *)
(* of one Worker.Run, each with its handler and heartbeat goroutines, the  *)
(* caller of RecoverExpired, and the faults the worker has to survive.     *)
(*                                                                         *)
(* A slot has one database session: process makes its own calls only       *)
(* before the heartbeat goroutine starts and after it has stopped.         *)
(*                                                                         *)
(* A handler is any function of its context; it returns OutcomeCancelled   *)
(* only once its context is done, as the import handler does.              *)
(***************************************************************************)
EXTENDS JobQueue, RetryBackoff

CONSTANTS
    Slots,            \* the goroutines of Run, by their sessions
    Reaper,           \* the session that calls RecoverExpired
    RetryMaximumAge,
    MaxFaults,        \* bound on crashes, shutdowns, failed calls, lost replies
    SlowTime          \* until then time passes whatever the processes do

ASSUME WorkerAssumption ==
    /\ Sessions = Slots \cup {Reaper}
    /\ Reaper \notin Slots
    /\ RetryMaximumAge \in Nat
    /\ MaxFaults \in Nat
    /\ SlowTime \in Nat /\ SlowTime <= MaxTime

VARIABLES
    slots,      \* the local state of each slot
    ctx,        \* the context shared by the slots of Run
    created,    \* jobs.created_at
    handled,    \* jobs whose kind is in the handler registry
    faults

workerVars == <<vars, slots, ctx, created, handled, faults>>

HandlerOutcomes == {"succeeded", "retryable", "permanent", "cancelled", "invalid"}
NoLease == [job |-> "none", token |-> NoToken]

At(pc) == [pc |-> pc, op |-> "start", lease |-> NoLease, handlerContext |-> "done",
           beat |-> "off", beatError |-> "none", outcome |-> "none"]

WorkerInit ==
    /\ Init
    /\ slots = [w \in Slots |-> At("polling")]
    /\ ctx = "live"
    /\ created = [j \in Jobs |-> 0]
    /\ handled \in SUBSET Jobs
    /\ faults = 0

-----------------------------------------------------------------------------
(* runSlot                                                                 *)

Move(w, slot) == slots' = [slots EXCEPT ![w] = slot]
Call(w, op) == [slots[w] EXCEPT !.pc = "calling", !.op = op]
UnchangedWorker == UNCHANGED <<ctx, created, handled, faults>>

Poll(w) ==
    /\ slots[w].pc = "polling" /\ ctx = "live"
    /\ BeginAcquire(w)
    /\ Move(w, At("acquiring"))
    /\ UnchangedWorker

Acquired(w) ==
    /\ slots[w].pc = "acquiring"
    /\ Acquire(w)
    /\ \E lease \in leases' \ leases :
          Move(w, [At("calling") EXCEPT !.lease = lease])
    /\ UnchangedWorker

NoWork(w) ==
    /\ slots[w].pc = "acquiring"
    /\ AcquireNone(w)
    /\ Move(w, At("waiting"))
    /\ UnchangedWorker

PollTimer(w) ==
    /\ slots[w].pc = "waiting" /\ ctx = "live"
    /\ Move(w, At("polling"))
    /\ UNCHANGED vars /\ UnchangedWorker

\* Mutant: a slot whose call or wait was cut short polls again.
StopSlotRetry(w) ==
    /\ ctx = "cancelled" /\ txs[w] = Idle
    /\ slots[w].pc \in {"polling", "waiting", "calling"}
    /\ Move(w, At("polling"))
    /\ UNCHANGED vars /\ UnchangedWorker

\* Every call of a slot whose context is cancelled fails before it begins, and
\* so does its wait.
StopSlot(w) ==
    /\ ctx = "cancelled" /\ txs[w] = Idle
    /\ slots[w].pc \in {"polling", "waiting", "calling"}
    /\ Move(w, At("stopped"))
    /\ UNCHANGED vars /\ UnchangedWorker

-----------------------------------------------------------------------------
(* process: the calls that present the lease                               *)

BeginCall(w) ==
    /\ slots[w].pc = "calling" /\ ctx = "live"
    /\ BeginLeaseCall(w, slots[w].op, slots[w].lease)
    /\ UNCHANGED slots /\ UnchangedWorker

\* Start succeeded: run the handler and its heartbeat, or fail a job without one.
Started(w) ==
    /\ slots[w].pc = "calling"
    /\ Start(w)
    /\ \/ /\ slots[w].lease.job \in handled
          /\ Move(w, [slots[w] EXCEPT !.pc = "handling", !.handlerContext = "live",
                                      !.beat = "ticking"])
       \/ /\ slots[w].lease.job \notin handled
          /\ Move(w, Call(w, "fail_permanent"))
    /\ UnchangedWorker

Finished(w) ==
    /\ slots[w].pc = "calling"
    /\ Succeed(w) \/ CancelActive(w) \/ Fail(w)
    /\ Move(w, At("polling"))
    /\ UnchangedWorker

\* classifyLeaseMiss finds the lease current and a cancellation requested.
CancellationMiss(tx) ==
    /\ tx.op \in {"start", "heartbeat", "succeed"}
    /\ CancelActiveMatches(tx)
    /\ jobs[tx.job].cancellation = "requested"

\* The call matched no row: acknowledge a cancellation, or drop the lease.
Missed(w) ==
    /\ slots[w].pc = "calling"
    /\ LeaseMiss(w)
    /\ Move(w, IF CancellationMiss(txs[w]) THEN Call(w, "cancel_active") ELSE At("polling"))
    /\ UnchangedWorker

-----------------------------------------------------------------------------
(* process: the handler and its heartbeat goroutine                        *)

HandlerDone(w) == slots[w].handlerContext = "done" \/ ctx = "cancelled"

BeginBeat(w) ==
    /\ slots[w].beat = "ticking" /\ ~HandlerDone(w)
    /\ BeginLeaseCall(w, "heartbeat", slots[w].lease)
    /\ Move(w, [slots[w] EXCEPT !.beat = "beating"])
    /\ UnchangedWorker

Beat(w) ==
    /\ slots[w].beat = "beating"
    /\ Heartbeat(w)
    /\ Move(w, [slots[w] EXCEPT !.beat = "ticking"])
    /\ UnchangedWorker

\* Mutant: the handler is cancelled, the error is not reported.
BeatFailedSilently(w, err) ==
    Move(w, [slots[w] EXCEPT !.beat = "off", !.handlerContext = "done"])

\* The goroutine after a failed Heartbeat: it reports the error and cancels the
\* handler, unless the handler's context is done already.
BeatFailed(w, err) ==
    Move(w, IF HandlerDone(w) THEN [slots[w] EXCEPT !.beat = "off"]
            ELSE [slots[w] EXCEPT !.beat = "off", !.beatError = err,
                                  !.handlerContext = "done"])

BeatMissed(w) ==
    /\ slots[w].beat = "beating"
    /\ LeaseMiss(w)
    /\ BeatFailed(w, IF CancellationMiss(txs[w]) THEN "cancellation" ELSE "lost")
    /\ UnchangedWorker

\* Heartbeat's context is the handler's: it is abandoned when that is done.
BeatAbandoned(w) ==
    /\ slots[w].beat = "beating" /\ HandlerDone(w)
    /\ Rollback(w)
    /\ BeatFailed(w, "error")
    /\ UnchangedWorker

BeatStop(w) ==
    /\ slots[w].beat = "ticking" /\ HandlerDone(w)
    /\ Move(w, [slots[w] EXCEPT !.beat = "off"])
    /\ UNCHANGED vars /\ UnchangedWorker

\* callHandler returns, a panic as a retryable outcome; process then cancels the
\* handler's context.
HandlerReturns(w) ==
    /\ slots[w].pc = "handling"
    /\ \E outcome \in HandlerOutcomes :
          /\ outcome = "cancelled" => HandlerDone(w)
          /\ Move(w, [slots[w] EXCEPT !.pc = "joining", !.outcome = outcome,
                                      !.handlerContext = "done"])
    /\ UNCHANGED vars /\ UnchangedWorker

\* Mutant: an unknown outcome is acknowledged.
OutcomeOpLenient(outcome, age) ==
    CASE outcome = "cancelled" -> "cancel_active"
      [] outcome = "retryable" /\ age < RetryMaximumAge -> "fail_retryable"
      [] outcome \in {"retryable", "permanent"} -> "fail_permanent"
      [] OTHER -> "succeed"

\* The call that reports an outcome; a retryable one is permanent once the job
\* has reached its maximum age.
OutcomeOp(outcome, age) ==
    CASE outcome = "succeeded" -> "succeed"
      [] outcome = "cancelled" -> "cancel_active"
      [] outcome = "retryable" /\ age < RetryMaximumAge -> "fail_retryable"
      [] OTHER -> "fail_permanent"

\* The heartbeat has stopped: its error, then the context, then the outcome
\* decide what process does.
Joined(w) ==
    /\ slots[w].pc = "joining" /\ slots[w].beat = "off"
    /\ LET err == slots[w].beatError
           age == clock - created[slots[w].lease.job]
       IN \/ err = "cancellation" /\ Move(w, Call(w, "cancel_active")) /\ UNCHANGED ctx
          \/ err = "lost" /\ Move(w, At("polling")) /\ UNCHANGED ctx
          \/ err = "error" /\ Move(w, At("stopped")) /\ ctx' = "cancelled"
          \/ err = "none" /\ ctx = "cancelled" /\ Move(w, At("stopped")) /\ UNCHANGED ctx
          \/ /\ err = "none" /\ ctx = "live"
             /\ Move(w, Call(w, OutcomeOp(slots[w].outcome, age)))
             /\ UNCHANGED ctx
    /\ UNCHANGED vars /\ UNCHANGED <<created, handled, faults>>

-----------------------------------------------------------------------------
(* Faults, shutdown and restart                                            *)

Fault == faults < MaxFaults /\ faults' = faults + 1

\* A call of process fails: its context is cancelled, or the database fails.
\* The slot returns the error, and Run cancels the context of all slots.
CallFails(w) ==
    /\ slots[w].pc \in {"acquiring", "calling"}
    /\ Rollback(w)
    /\ (ctx = "cancelled" /\ UNCHANGED faults) \/ (ctx = "live" /\ Fault)
    /\ Move(w, At("stopped"))
    /\ ctx' = "cancelled"
    /\ UNCHANGED <<created, handled>>

\* The transaction commits and its reply is lost.
ReplyLost(w) ==
    /\ slots[w].pc \in {"acquiring", "calling"}
    /\ Acquire(w) \/ Start(w) \/ Succeed(w) \/ CancelActive(w) \/ Fail(w)
    /\ Fault
    /\ Move(w, At("stopped"))
    /\ ctx' = "cancelled"
    /\ UNCHANGED <<created, handled>>

BeatFails(w) ==
    /\ slots[w].beat = "beating" /\ ~HandlerDone(w)
    /\ Rollback(w) \/ Heartbeat(w)
    /\ Fault
    /\ BeatFailed(w, "error")
    /\ UNCHANGED <<ctx, created, handled>>

\* The context given to Run is cancelled.
Shutdown ==
    /\ ctx = "live"
    /\ ctx' = "cancelled"
    /\ Fault
    /\ UNCHANGED vars /\ UNCHANGED <<slots, created, handled>>

\* The process dies: PostgreSQL rolls back the transactions of its sessions.
Crash ==
    /\ \E w \in Slots : slots[w].pc # "stopped"
    /\ Fault
    /\ slots' = [w \in Slots |-> At("stopped")]
    /\ txs' = [s \in Sessions |-> IF s \in Slots THEN Idle ELSE txs[s]]
    /\ ctx' = "cancelled"
    /\ UNCHANGED <<jobs, attempts, leases, issued, clock, created, handled>>

\* Run has returned in every slot, or died: the process is started again.
Restart ==
    /\ \A w \in Slots : slots[w].pc = "stopped"
    /\ slots' = [w \in Slots |-> At("polling")]
    /\ ctx' = "live"
    /\ UNCHANGED vars /\ UNCHANGED <<created, handled, faults>>

-----------------------------------------------------------------------------
(* The environment                                                         *)

Submit(j) ==
    /\ Enqueue(j)
    /\ created' = [created EXCEPT ![j] = clock]
    /\ UNCHANGED <<slots, ctx, handled, faults>>

RequestStop(j) == RequestCancellation(j) /\ UNCHANGED slots /\ UnchangedWorker

Reap == (BeginRecover(Reaper) \/ Recover(Reaper)) /\ UNCHANGED slots /\ UnchangedWorker

\* Nobody works on a lease and nothing can be leased or recovered before time
\* passes.
Quiet ==
    /\ \A w \in Slots : slots[w].pc \in {"polling", "waiting", "acquiring", "stopped"}
    /\ txs[Reaper] = Idle
    /\ \A j \in Jobs :
          /\ jobs[j].state \in ActiveStates => jobs[j].expires > clock
          /\ jobs[j].state \in WaitingStates => jobs[j].available > clock
    /\ \E j \in Jobs : jobs[j].state \in ActiveStates \cup WaitingStates

\* Up to SlowTime any step may take arbitrarily long; from then on work is
\* prompt, so that the bound MaxTime is never the reason for a job to hang.
Pass ==
    /\ clock < SlowTime \/ Quiet
    /\ Tick
    /\ UNCHANGED slots /\ UnchangedWorker

MainStep(w) ==
    \/ Poll(w) \/ Acquired(w) \/ NoWork(w) \/ StopSlot(w)
    \/ BeginCall(w) \/ Started(w) \/ Finished(w) \/ Missed(w) \/ Joined(w)

BeatStep(w) == Beat(w) \/ BeatMissed(w) \/ BeatAbandoned(w) \/ BeatStop(w)

WorkerNext ==
    \/ \E w \in Slots :
          \/ MainStep(w) \/ PollTimer(w) \/ BeginBeat(w) \/ BeatStep(w) \/ HandlerReturns(w)
          \/ CallFails(w) \/ ReplyLost(w) \/ BeatFails(w)
    \/ \E j \in Jobs : Submit(j) \/ RequestStop(j)
    \/ Reap \/ Shutdown \/ Crash \/ Restart \/ Pass

\* The goroutines run, the timers fire, handlers return, RecoverExpired is
\* called, a stopped process is started again, and time passes.
Fairness ==
    /\ \A w \in Slots :
          /\ WF_workerVars(MainStep(w)) /\ WF_workerVars(BeatStep(w))
          /\ WF_workerVars(PollTimer(w)) /\ WF_workerVars(HandlerReturns(w))
    /\ WF_workerVars(Reap)
    /\ WF_workerVars(Restart)
    /\ SF_workerVars(Pass)

WorkerSpec == WorkerInit /\ [][WorkerNext]_workerVars /\ Fairness

-----------------------------------------------------------------------------
(* Properties                                                              *)

\* A job ends cancelled only if someone requested it: shutting the worker down,
\* losing a lease or a failing heartbeat cancels the handler, never the job.
CancelledOnlyOnRequest ==
    \A j \in Jobs : jobs[j].state = "cancelled" => jobs[j].cancellation = "requested"

\* Whenever process reports a retryable outcome, the delay is the exact one for this
\* attempt and the ones that may follow, under every configuration NewWorker accepts
\* and up to the limits of a time.Duration.
BackoffExact ==
    \A w \in Slots : slots[w].pc = "calling" /\ slots[w].op = "fail_retryable" =>
        LET attempt == jobs[slots[w].lease.job].attempt
        IN  \A later \in 0..DurationBits, minimum \in Durations :
                \A maximum \in minimum..MaxDuration : ExactDelay(attempt + later, minimum, maximum)

\* A job is acknowledged as succeeded only by a slot whose handler returned
\* success under the lease that is current, with no failed heartbeat.
SuccessIsEarned ==
    [][\A j \in Jobs :
          jobs'[j].state = "succeeded" /\ jobs[j].state # "succeeded"
          => \E w \in Slots : /\ slots[w].lease = [job |-> j, token |-> jobs[j].token]
                              /\ slots[w].outcome = "succeeded"
                              /\ slots[w].beatError = "none"]_workerVars

\* Every submitted job reaches a terminal state, whatever faults occur: no crash
\* or lost reply leaves a lease that nobody ends.
EveryJobFinishes ==
    \A j \in Jobs : jobs[j].state # "absent" ~> jobs[j].state \in TerminalStates

\* A cancellation request takes effect: the job ends cancelled.
CancellationHonoured ==
    \A j \in Jobs : jobs[j].cancellation = "requested" ~> jobs[j].state = "cancelled"

\* Cancelling the context of Run makes every slot return, also one whose handler
\* and heartbeat are running.
ShutdownCompletes ==
    ctx = "cancelled" ~> \A w \in Slots : slots[w].pc = "stopped"
=============================================================================
