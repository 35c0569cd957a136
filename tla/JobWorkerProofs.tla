-------------------------- MODULE JobWorkerProofs --------------------------
(***************************************************************************)
(* The safety properties of JobWorker for any number of jobs, slots,       *)
(* attempts and faults.                                                    *)
(*                                                                         *)
(* The inductive invariant is WorkerInv.  The queue's own                  *)
(* invariant, IndInv, is kept because every step of the worker is a step   *)
(* the queue allows its clients, or the death of the process.  SlotInv     *)
(* says of a slot what its session is doing (Session) and why it may say   *)
(* what it says to the queue (Conduct).                                    *)
(***************************************************************************)
EXTENDS JobWorker, JobQueueProofs, RetryBackoffProofs

-----------------------------------------------------------------------------
(* What holds of a slot and its session                                    *)

Pcs == {"polling", "waiting", "stopped", "acquiring", "calling", "handling", "joining"}
Busy == {"calling", "handling", "joining"}

Slot == [pc : Pcs, op : LeaseOps, lease : [job : Jobs, token : Nat] \cup {NoLease},
         handlerContext : {"live", "done"}, beat : {"off", "ticking", "beating"},
         beatError : {"none", "cancellation", "lost", "error"},
         outcome : HandlerOutcomes \cup {"none"}]

(* The transaction presents this lease. *)
Presents(tx, op, lease) ==
    tx \in LeaseTx /\ tx.op = op /\ tx.job = lease.job /\ tx.token = lease.token

(* What the database session of a slot is doing follows from the slot. *)
Session(slot, tx) ==
    /\ slot.pc \in {"polling", "waiting", "stopped"} => tx = Idle
    /\ slot.pc = "acquiring" => tx \in AcquireTx
    /\ slot.pc = "calling" => tx = Idle \/ Presents(tx, slot.op, slot.lease)
    /\ slot.pc \in {"handling", "joining"} =>
          IF slot.beat = "beating" THEN Presents(tx, "heartbeat", slot.lease) ELSE tx = Idle
    /\ slot.pc \notin {"handling", "joining"} => slot.beat = "off"

(* If the lease is current, a cancellation of its job has been requested. *)
Requested(lease) ==
    jobs[lease.job].token = lease.token => jobs[lease.job].cancellation = "requested"

(* The slot acknowledges a cancellation only if there is one, and success   *)
(* only of its handler.  A handler sees its context done, and may return    *)
(* OutcomeCancelled, only after a failed heartbeat or when Run is stopping; *)
(* in both cases the outcome is not reported.                               *)
Conduct(slot, context) ==
    /\ slot.pc \in Busy => slot.lease \in leases
    /\ slot.pc \notin Busy => slot.beatError = "none"
    /\ slot.pc = "calling" /\ slot.op = "cancel_active" => Requested(slot.lease)
    /\ slot.beatError = "cancellation" => Requested(slot.lease)
    /\ slot.pc = "handling" /\ slot.handlerContext = "done" => slot.beatError # "none"
    /\ slot.pc = "joining" /\ slot.outcome = "cancelled" /\ slot.beatError = "none" =>
          context = "cancelled"
    /\ slot.pc = "calling" /\ slot.op = "succeed" =>
          slot.outcome = "succeeded" /\ slot.beatError = "none"

SlotInv(slot, tx, context) == slot \in Slot /\ Session(slot, tx) /\ Conduct(slot, context)

SlotsInv ==
    /\ slots \in [Slots -> Slot] /\ ctx \in {"live", "cancelled"}
    /\ \A w \in Slots : SlotInv(slots[w], txs[w], ctx)

WorkerInv ==
    /\ IndInv
    /\ SlotsInv
    /\ txs[Reaper].op \in {"idle", "recover"}
    /\ \A l \in leases : jobs[l.job].attempt >= 1
    /\ CancelledOnlyOnRequest

-----------------------------------------------------------------------------
(* The worker is one of the clients that JobQueue allows. *)

(* The slots and the reaper have sessions of their own. *)
LEMMA SlotSessions == Slots \subseteq Sessions /\ Reaper \in Sessions /\ Reaper \notin Slots
  BY WorkerAssumption

(* A slot that works on a job presents a lease that Acquire returned. *)
LEMMA PresentsOne ==
    ASSUME WorkerInv, NEW w \in Slots, slots[w].pc \in Busy
    PROVE  slots[w].lease \in leases /\ slots[w].op \in LeaseOps
  BY DEF WorkerInv, SlotsInv, SlotInv, Conduct, Slot

(* A crash rolls the transactions of the slots back, one by one. *)
LEMMA CrashKeeps ==
    ASSUME IndInv, Crash
    PROVE  IndInv'
  <1>1. UNCHANGED <<jobs, attempts, leases, issued, clock>>
    BY DEF Crash
  <1>2. \A s \in Sessions : txs'[s] = Idle \/ txs'[s] = txs[s]
    BY DEF Crash
  <1>3. TypeOK'
    <2>1. txs' \in [Sessions -> LeaseTx \cup AcquireTx \cup RecoverTx \cup {Idle}]
      BY DEF Crash, IndInv, RowInv, TypeOK
    <2>2. QED
      BY <1>1, <2>1, Zenon DEF IndInv, RowInv, TypeOK
  <1>4. ScansStarted'
    BY <1>1, <1>2 DEF IndInv, RowInv, ScansStarted, Scanned, Idle
  <1>5. QED
    BY <1>1, <1>3, <1>4
       DEF IndInv, RowInv, RowChecks, AttemptHistory, CancellationSticky, AbsentFresh,
           TokensIssued, NewestLeaseHolds, InFlightLimit, ActiveIn

(* Every step of the worker and its environment is one the queue allows,    *)
(* or the death of the process.                                             *)
LEMMA WorkerSteps ==
    ASSUME WorkerInv, [WorkerNext]_workerVars
    PROVE  [Next]_vars \/ Crash
  <1> USE SlotSessions
  <1>1. ASSUME NEW w \in Slots, MainStep(w) PROVE [Next]_vars
    <2>1. CASE Poll(w) \/ Acquired(w) \/ NoWork(w)
      BY <2>1, Zenon DEF Poll, Acquired, NoWork, SessionStep, Next
    <2>2. CASE StopSlot(w) \/ Joined(w)
      BY <2>2 DEF StopSlot, Joined
    <2>3. CASE BeginCall(w)
      <3>1. slots[w].lease \in leases /\ slots[w].op \in LeaseOps
        BY <2>3, PresentsOne, ZenonT(60) DEF BeginCall, Busy
      <3>2. SessionStep(w)
        BY <2>3, <3>1, ZenonT(60) DEF BeginCall, SessionStep
      <3>3. QED
        BY <3>2 DEF Next
    <2>4. CASE Started(w) \/ Finished(w) \/ Missed(w)
      BY <2>4, Zenon DEF Started, Finished, Missed, SessionStep, Next
    <2>5. QED
      BY <1>1, <2>1, <2>2, <2>3, <2>4, Zenon DEF MainStep
  <1>2. ASSUME NEW w \in Slots, PollTimer(w) \/ HandlerReturns(w) PROVE [Next]_vars
    BY <1>2, Zenon DEF PollTimer, HandlerReturns
  <1>3. ASSUME NEW w \in Slots, BeginBeat(w) PROVE [Next]_vars
    <2>1. slots[w].pc \in Busy
      BY <1>3 DEF BeginBeat, WorkerInv, SlotsInv, SlotInv, Session, Slot, Busy
    <2>2. slots[w].lease \in leases /\ "heartbeat" \in LeaseOps
      BY <2>1, PresentsOne DEF LeaseOps
    <2>3. SessionStep(w)
      BY <1>3, <2>2 DEF BeginBeat, SessionStep
    <2>4. QED
      BY <2>3 DEF Next
  <1>4. ASSUME NEW w \in Slots, BeatStep(w) PROVE [Next]_vars
    BY <1>4, Zenon DEF BeatStep, Beat, BeatMissed, BeatAbandoned, BeatStop, SessionStep, Next
  <1>5. ASSUME NEW w \in Slots, CallFails(w) \/ ReplyLost(w) \/ BeatFails(w) PROVE [Next]_vars
    BY <1>5 DEF CallFails, ReplyLost, BeatFails, SessionStep, Next
  <1>6. ASSUME NEW j \in Jobs, Submit(j) \/ RequestStop(j) PROVE [Next]_vars
    BY <1>6 DEF Submit, RequestStop, Next
  <1>7. Reap \/ Shutdown \/ Restart \/ Pass => [Next]_vars
    BY DEF Reap, Shutdown, Restart, Pass, SessionStep, Next
  <1>8. UNCHANGED workerVars => [Next]_vars
    BY DEF workerVars
  <1>9. QED
    BY <1>1, <1>2, <1>3, <1>4, <1>5, <1>6, <1>7, <1>8, Zenon DEF WorkerNext

(* What no step undoes: a lease stays handed out, its job keeps an attempt, *)
(* and a requested cancellation stays requested as long as the lease is     *)
(* current.                                                                 *)
Lasting ==
    /\ leases \subseteq leases'
    /\ \A l \in leases : Requested(l) => Requested(l)'

(* No step of the queue takes a lease back, or a cancellation request from  *)
(* the lease it concerns.                                                   *)
LEMMA QueueLasts ==
    ASSUME IndInv, [Next]_vars
    PROVE  Lasting
  <1>1. /\ \A l \in leases : l.job \in Jobs /\ l.token \in 1..issued
        /\ issued \in Nat
    BY Zenon DEF IndInv, RowInv, TypeOK, TokensIssued
  <1>2. ASSUME NEW l \in leases, NotLeased(l.job), Requested(l) PROVE Requested(l)'
    BY <1>1, <1>2 DEF NotLeased, Untouched, Enqueued, Renewed, Marked, Ended, Requested, NoToken
  <1>3. CASE leases' = leases /\ issued' = issued /\ \A j \in Jobs : NotLeased(j)
    BY <1>1, <1>2, <1>3 DEF Lasting
  <1>4. ASSUME NEW j \in Jobs, Leased(j) PROVE Lasting
    <2>1. leases \subseteq leases'
      BY <1>4 DEF Leased
    <2>2. ASSUME NEW l \in leases, Requested(l) PROVE Requested(l)'
      <3>1. CASE l.job = j
        BY <1>1, <1>4, <3>1 DEF Leased, Requested
      <3>2. CASE l.job # j
        BY <1>1, <1>4, <2>2, <3>2, Zenon DEF Leased, Untouched, Requested
      <3>3. QED
        BY <3>1, <3>2, Zenon
    <2>3. QED
      BY <2>1, <2>2, Zenon DEF Lasting
  <1>5. QED
    BY <1>3, <1>4, StepKinds DEF IndInv

(* A slot that a step does not move. *)
LEMMA OtherSlots ==
    ASSUME NEW slot, NEW tx, SlotInv(slot, tx, ctx), Lasting,
    ctx = "cancelled" => ctx' = "cancelled"
    PROVE  SlotInv(slot, tx, ctx)'
  BY DEF SlotInv, Session, Conduct, Lasting, Busy

-----------------------------------------------------------------------------
(* The slots, step by step                                                 *)

(* At most slot w moves, in its own session. *)
Moves(w) ==
    /\ slots' = [slots EXCEPT ![w] = slots'[w]]
    /\ \A v \in Slots \ {w} : txs'[v] = txs[v]
    /\ ctx' \in {"live", "cancelled"}
    /\ ctx = "cancelled" => ctx' = "cancelled"

(* A step that moves one slot. *)
LEMMA OneSlot ==
    ASSUME SlotsInv, Lasting, NEW w \in Slots, Moves(w), SlotInv(slots[w], txs[w], ctx)'
    PROVE  SlotsInv'
  <1>1. slots' \in [Slots -> Slot]
    BY DEF SlotsInv, SlotInv, Moves
  <1>2. ASSUME NEW v \in Slots PROVE SlotInv(slots[v], txs[v], ctx)'
    <2>1. CASE v = w
      BY <2>1 DEF SlotsInv
    <2>2. CASE v # w
      <3>1. slots'[v] = slots[v] /\ txs'[v] = txs[v]
        BY <2>2, Zenon DEF SlotsInv, Moves
      <3>2. SlotInv(slots[v], txs[v], ctx)
        BY DEF SlotsInv
      <3>3. QED
        BY <3>1, <3>2, OtherSlots, ZenonT(60) DEF Moves
    <2>3. QED
      BY <2>1, <2>2, Zenon
  <1>3. QED
    BY <1>1, <1>2, Zenon DEF SlotsInv, Moves

(* A step that moves no slot. *)
LEMMA NoSlot ==
    ASSUME SlotsInv, Lasting, slots' = slots, \A v \in Slots : txs'[v] = txs[v],
           ctx' \in {"live", "cancelled"}, ctx = "cancelled" => ctx' = "cancelled"
    PROVE  SlotsInv'
  <1>1. ASSUME NEW v \in Slots PROVE SlotInv(slots[v], txs[v], ctx)'
    <2>1. slots'[v] = slots[v] /\ txs'[v] = txs[v] /\ SlotInv(slots[v], txs[v], ctx)
      BY Zenon DEF SlotsInv
    <2>2. QED
      BY <2>1, OtherSlots, Zenon
  <1>2. QED
    BY <1>1, Zenon DEF SlotsInv

(* A slot without a lease. *)
LEMMA RestingSlot ==
    ASSUME NEW pc \in {"polling", "waiting", "stopped"}, NEW context
    PROVE  SlotInv(At(pc), Idle, context) /\ SlotInv(At(pc), Idle, context)'
  BY DEF SlotInv, Slot, Session, Conduct, At, Pcs, Busy, LeaseOps

(* A slot that drops its lease, or never had one, owes nothing. *)
LEMMA RestingMoves ==
    ASSUME SlotsInv, Lasting, NEW w \in Slots, Moves(w),
           NEW pc \in {"polling", "waiting", "stopped"}, slots'[w] = At(pc), txs'[w] = Idle
    PROVE  SlotsInv'
  <1>1. SlotInv(slots[w], txs[w], ctx)'
    BY RestingSlot, Zenon
  <1>2. QED
    BY <1>1, OneSlot, Zenon

(* How the steps of runSlot and of the calls change the slot. *)
LEMMA RunSlotMoves ==
    ASSUME SlotsInv, IndInv, IndInv', Lasting, NEW w \in Slots,
           Poll(w) \/ Acquired(w) \/ NoWork(w) \/ PollTimer(w) \/ StopSlot(w)
    PROVE  SlotsInv'
  <1> USE SlotSessions
  <1> /\ SlotInv(slots[w], txs[w], ctx) /\ w \in DOMAIN slots /\ w \in DOMAIN txs
      /\ ctx \in {"live", "cancelled"}
    BY Zenon DEF SlotsInv, IndInv, RowInv, TypeOK
  <1>1. CASE Poll(w)
    <2>1. slots'[w] = At("acquiring") /\ txs'[w] = [op |-> "acquire", at |-> clock] /\ Moves(w)
      BY <1>1 DEF Poll, BeginAcquire, Move, Moves, UnchangedWorker
    <2>2. txs'[w] \in AcquireTx
      BY <2>1, SMTT(60) DEF AcquireTx, IndInv, RowInv, TypeOK
    <2>3. SlotInv(slots[w], txs[w], ctx)'
      BY <2>1, <2>2, SMTT(60) DEF SlotInv, Slot, Session, Conduct, At, Pcs, Busy, LeaseOps
    <2>4. QED
      BY <2>1, <2>3, OneSlot, ZenonT(60)
  <1>2. CASE Acquired(w)
    <2>1. PICK lease \in leases' \ leases : slots'[w] = [At("calling") EXCEPT !.lease = lease]
      BY <1>2 DEF Acquired, Move
    <2>2. txs'[w] = Idle /\ Moves(w)
      BY <1>2 DEF Acquired, Acquire, Close, Move, Moves, UnchangedWorker
    <2>3. lease \in [job : Jobs, token : Nat]
      BY DEF IndInv, RowInv, TypeOK
    <2>4. SlotInv(slots[w], txs[w], ctx)'
      BY <2>1, <2>2, <2>3, ZenonT(60) DEF SlotInv, Slot, Session, Conduct, At, Pcs, Busy,
         LeaseOps
    <2>5. QED
      BY <2>2, <2>4, OneSlot, Zenon
  <1>3. CASE NoWork(w)
    <2>1. slots'[w] = At("waiting") /\ txs'[w] = Idle /\ Moves(w)
      BY <1>3, SMTT(60) DEF NoWork, AcquireNone, Close, Move, Moves, UnchangedWorker
    <2>2. QED
      BY <2>1, RestingMoves, Zenon
  <1>4. CASE PollTimer(w)
    <2>1. slots'[w] = At("polling") /\ txs'[w] = Idle /\ Moves(w)
      BY <1>4, Zenon DEF PollTimer, Move, Moves, UnchangedWorker, vars, SlotInv, Session
    <2>2. QED
      BY <2>1, RestingMoves, Zenon
  <1>5. CASE StopSlot(w)
    <2>1. slots'[w] = At("stopped") /\ txs'[w] = Idle /\ Moves(w)
      BY <1>5, Zenon DEF StopSlot, Move, Moves, UnchangedWorker, vars
    <2>2. QED
      BY <2>1, RestingMoves, Zenon
  <1>6. QED
    BY <1>1, <1>2, <1>3, <1>4, <1>5, ZenonT(60)

(* The slot goes on to present its lease in another call. *)
LEMMA CallMoves ==
    ASSUME SlotsInv, Lasting, NEW w \in Slots, Moves(w), txs'[w] = Idle,
           slots[w].pc \in Busy, slots[w].beat = "off",
           NEW op \in LeaseOps, slots'[w] = Call(w, op),
           op = "cancel_active" => Requested(slots[w].lease),
           op = "succeed" => slots[w].outcome = "succeeded" /\ slots[w].beatError = "none"
    PROVE  SlotsInv'
  <1>1. SlotInv(slots[w], txs[w], ctx)
    BY DEF SlotsInv
  <1>2. slots'[w] = [slots[w] EXCEPT !.pc = "calling", !.op = op] /\ slots[w] \in Slot
    BY <1>1 DEF Call, SlotInv
  <1>3. /\ slots'[w] \in Slot /\ slots'[w].pc = "calling" /\ slots'[w].op = op
        /\ slots'[w].lease = slots[w].lease /\ slots'[w].beat = "off"
        /\ slots'[w].beatError = slots[w].beatError /\ slots'[w].outcome = slots[w].outcome
    BY <1>2, ZenonT(60) DEF Slot, Pcs
  <1>4. slots[w].lease \in leases
    BY <1>1, Zenon DEF SlotInv, Conduct
  <1>5. Conduct(slots[w], ctx)'
    BY <1>1, <1>3, <1>4, ZenonT(60) DEF SlotInv, Conduct, Lasting, Busy, Requested
  <1>6. SlotInv(slots[w], txs[w], ctx)'
    BY <1>3, <1>5, Zenon DEF SlotInv, Session
  <1>7. QED
    BY <1>6, OneSlot, Zenon

(* How the calls of process that present the lease change the slot. *)
LEMMA ProcessMoves ==
    ASSUME SlotsInv, IndInv, IndInv', Lasting, NEW w \in Slots,
           BeginCall(w) \/ Started(w) \/ Finished(w) \/ Missed(w)
    PROVE  SlotsInv'
  <1> USE SlotSessions
  <1>0. /\ SlotInv(slots[w], txs[w], ctx) /\ w \in DOMAIN slots /\ w \in DOMAIN txs
        /\ ctx \in {"live", "cancelled"} /\ clock \in Nat
    BY Zenon DEF SlotsInv, IndInv, RowInv, TypeOK
  <1>1. /\ slots[w].pc = "calling" /\ slots[w].pc \in Busy /\ slots[w].beat = "off"
        /\ slots[w].lease \in leases /\ slots[w].lease \in [job : Jobs, token : Nat]
        /\ slots[w] \in Slot /\ Conduct(slots[w], ctx)
    BY <1>0, Zenon DEF BeginCall, Started, Finished, Missed, SlotInv, Session, Conduct, Busy,
                IndInv, RowInv, TypeOK
  <1>2. CASE BeginCall(w)
    <2>1. /\ txs'[w] = [op |-> slots[w].op, job |-> slots[w].lease.job,
                        token |-> slots[w].lease.token, at |-> clock]
          /\ slots' = slots /\ Moves(w)
      BY <1>0, <1>2, SMTT(60) DEF BeginCall, BeginLeaseCall, Moves, UnchangedWorker, SlotsInv
    <2>2. Presents(txs'[w], slots[w].op, slots[w].lease)
      BY <1>0, <1>1, <2>1, SMTT(60) DEF Presents, LeaseTx, Slot
    <2>3. Session(slots[w], txs[w])'
      BY <1>1, <2>1, <2>2, ZenonT(60) DEF Session
    <2>4. Conduct(slots[w], ctx)'
      BY <1>1, <2>1, ZenonT(60) DEF Conduct, Lasting, Busy, Moves
    <2>5. QED
      BY <1>1, <2>1, <2>3, <2>4, OneSlot, ZenonT(60) DEF SlotInv
  <1>3. CASE Started(w)
    <2>1. txs'[w] = Idle /\ Moves(w)
      BY <1>0, <1>3, SMTT(60) DEF Started, Start, Close, Move, Moves, UnchangedWorker
    <2>2. CASE slots'[w] = Call(w, "fail_permanent")
      BY <1>1, <2>1, <2>2, CallMoves, Zenon DEF LeaseOps
    <2>3. CASE slots'[w] = [slots[w] EXCEPT !.pc = "handling", !.handlerContext = "live",
                                            !.beat = "ticking"]
      <3>1. /\ slots'[w] \in Slot /\ slots'[w].pc = "handling"
            /\ slots'[w].handlerContext = "live" /\ slots'[w].beat = "ticking"
            /\ slots'[w].lease = slots[w].lease /\ slots'[w].beatError = slots[w].beatError
        BY <1>1, <2>3, ZenonT(60) DEF Slot, Pcs
      <3>2. Conduct(slots[w], ctx)'
        BY <1>1, <3>1, Zenon DEF Conduct, Lasting, Busy, Requested
      <3>3. SlotInv(slots[w], txs[w], ctx)'
        BY <2>1, <3>1, <3>2, Zenon DEF SlotInv, Session
      <3>4. QED
        BY <2>1, <3>3, OneSlot, Zenon
    <2>4. \/ slots'[w] = Call(w, "fail_permanent")
          \/ slots'[w] = [slots[w] EXCEPT !.pc = "handling", !.handlerContext = "live",
                                          !.beat = "ticking"]
      BY <1>0, <1>3, Zenon DEF Started, Move
    <2>5. QED
      BY <2>2, <2>3, <2>4, ZenonT(60)
  <1>4. CASE Finished(w)
    <2>1. Close(w)
      BY <1>4, Zenon DEF Finished, Succeed, CancelActive, Fail
    <2>2. slots'[w] = At("polling") /\ txs'[w] = Idle /\ Moves(w)
      BY <1>0, <1>4, <2>1 DEF Finished, Close, Move, Moves, UnchangedWorker
    <2>3. QED
      BY <2>2, RestingMoves, Zenon
  <1>5. CASE Missed(w)
    <2>1. txs'[w] = Idle /\ Moves(w) /\ txs[w] # Idle
      BY <1>0, <1>5, SMTT(60) DEF Missed, LeaseMiss, Close, Move, Moves, UnchangedWorker, Idle,
         LeaseOps
    <2>2. CASE CancellationMiss(txs[w])
      <3>1. Presents(txs[w], slots[w].op, slots[w].lease)
        BY <1>0, <1>1, <2>1, Zenon DEF SlotInv, Session
      <3>2. Requested(slots[w].lease)
        BY <2>2, <3>1, Zenon DEF CancellationMiss, Presents, Requested
      <3>3. slots'[w] = Call(w, "cancel_active")
        BY <1>0, <1>5, <2>2, Zenon DEF Missed, Move
      <3>4. QED
        BY <1>1, <2>1, <3>2, <3>3, CallMoves, Zenon DEF LeaseOps
    <2>3. CASE ~CancellationMiss(txs[w])
      <3>1. slots'[w] = At("polling")
        BY <1>0, <1>5, <2>3, Zenon DEF Missed, Move
      <3>2. QED
        BY <2>1, <3>1, RestingMoves, Zenon
    <2>4. QED
      BY <2>2, <2>3, Zenon
  <1>6. QED
    BY <1>2, <1>3, <1>4, <1>5, Zenon

(* The call that reports an outcome. *)
LEMMA OutcomeCalls ==
    ASSUME NEW outcome, NEW age
    PROVE  /\ OutcomeOp(outcome, age) \in LeaseOps
           /\ OutcomeOp(outcome, age) = "cancel_active" => outcome = "cancelled"
           /\ OutcomeOp(outcome, age) = "succeed" => outcome = "succeeded"
  BY DEF OutcomeOp, HandlerOutcomes, LeaseOps

(* The handler's end. *)
LEMMA HandlerMoves ==
    ASSUME SlotsInv, IndInv, Lasting, NEW w \in Slots, HandlerReturns(w) \/ Joined(w)
    PROVE  SlotsInv'
  <1> USE SlotSessions
  <1>0. /\ SlotInv(slots[w], txs[w], ctx) /\ w \in DOMAIN slots /\ ctx \in {"live", "cancelled"}
        /\ slots[w] \in Slot
    BY Zenon DEF SlotsInv, SlotInv
  <1>1. slots[w].pc \in Busy /\ slots[w].lease \in leases
    BY <1>0, Zenon DEF HandlerReturns, Joined, SlotInv, Conduct, Busy
  <1>2. CASE HandlerReturns(w)
    <2>1. PICK outcome \in HandlerOutcomes :
            /\ outcome = "cancelled" => HandlerDone(w)
            /\ slots'[w] = [slots[w] EXCEPT !.pc = "joining", !.outcome = outcome,
                                            !.handlerContext = "done"]
      BY <1>0, <1>2, Zenon DEF HandlerReturns, Move
    <2>2. txs' = txs /\ ctx' = ctx /\ Moves(w)
      BY <1>0, <1>2, Zenon DEF HandlerReturns, vars, Move, Moves, UnchangedWorker
    <2>3. /\ slots'[w] \in Slot /\ slots'[w].pc = "joining" /\ slots'[w].outcome = outcome
          /\ slots'[w].lease = slots[w].lease /\ slots'[w].beat = slots[w].beat
          /\ slots'[w].beatError = slots[w].beatError
      BY <1>0, <2>1, ZenonT(60) DEF Slot, Pcs
    <2>4. slots[w].pc = "handling"
      BY <1>2, Zenon DEF HandlerReturns
    <2>5. Session(slots[w], txs[w])'
      BY <1>0, <2>2, <2>3, <2>4, ZenonT(60) DEF SlotInv, Session
    <2>6. outcome = "cancelled" /\ slots[w].beatError = "none" => ctx = "cancelled"
      BY <1>0, <2>1, <2>4, ZenonT(60) DEF HandlerDone, SlotInv, Conduct
    <2>7. Conduct(slots[w], ctx)'
      BY <1>0, <1>1, <2>2, <2>3, <2>6, ZenonT(60) DEF SlotInv, Conduct, Lasting, Busy, Requested
    <2>8. QED
      BY <2>2, <2>3, <2>5, <2>7, OneSlot, ZenonT(60) DEF SlotInv
  <1>3. CASE Joined(w)
    <2> DEFINE op == OutcomeOp(slots[w].outcome, clock - created[slots[w].lease.job])
    <2>1. txs'[w] = Idle /\ Moves(w) /\ slots[w].beat = "off"
      BY <1>0, <1>3, ZenonT(60) DEF Joined, vars, Move, Moves, SlotInv, Session
    <2>2. \/ slots[w].beatError = "cancellation" /\ slots'[w] = Call(w, "cancel_active")
          \/ slots'[w] = At("polling") \/ slots'[w] = At("stopped")
          \/ /\ slots[w].beatError = "none" /\ ctx = "live"
             /\ slots'[w] = Call(w, op)
      BY <1>0, <1>3, Zenon DEF Joined, Move
    <2>3. CASE slots[w].beatError = "cancellation" /\ slots'[w] = Call(w, "cancel_active")
      <3>1. Requested(slots[w].lease)
        BY <1>0, <2>3, Zenon DEF SlotInv, Conduct
      <3>2. QED
        BY <1>1, <2>1, <2>3, <3>1, CallMoves, ZenonT(60) DEF LeaseOps
    <2>4. CASE slots'[w] = At("polling") \/ slots'[w] = At("stopped")
      BY <2>1, <2>4, RestingMoves, Zenon
    <2>5. CASE slots[w].beatError = "none" /\ ctx = "live" /\ slots'[w] = Call(w, op)
      <3>1. /\ op \in LeaseOps /\ (op = "cancel_active" => slots[w].outcome = "cancelled")
            /\ op = "succeed" => slots[w].outcome = "succeeded"
        BY OutcomeCalls, Zenon
      <3>2. slots[w].outcome # "cancelled"
        BY <1>0, <1>3, <2>5, ZenonT(60) DEF Joined, SlotInv, Conduct
      <3> HIDE DEF op
      <3>3. QED
        BY <1>1, <2>1, <2>5, <3>1, <3>2, CallMoves, ZenonT(60)
    <2>6. QED
      BY <2>2, <2>3, <2>4, <2>5, ZenonT(60)
  <1>4. QED
    BY <1>2, <1>3, Zenon

(* The heartbeat goroutine ends, with an error or because the handler did. *)
LEMMA BeatEnds ==
    ASSUME SlotsInv, Lasting, NEW w \in Slots, Moves(w), txs'[w] = Idle, slots[w].beat # "off",
           NEW err \in {"cancellation", "lost", "error"}, BeatFailed(w, err),
           err = "cancellation" => Requested(slots[w].lease)
    PROVE  SlotsInv'
  <1>0. /\ SlotInv(slots[w], txs[w], ctx) /\ w \in DOMAIN slots /\ slots[w] \in Slot
        /\ slots[w].pc \in {"handling", "joining"} /\ slots[w].lease \in leases
    BY ZenonT(60) DEF SlotsInv, SlotInv, Session, Conduct, Busy
  <1>1. CASE slots'[w] = [slots[w] EXCEPT !.beat = "off"]
    <2>1. /\ slots'[w] \in Slot /\ slots'[w].pc = slots[w].pc /\ slots'[w].beat = "off"
          /\ slots'[w].lease = slots[w].lease /\ slots'[w].beatError = slots[w].beatError
          /\ slots'[w].handlerContext = slots[w].handlerContext
          /\ slots'[w].outcome = slots[w].outcome
      BY <1>0, <1>1, Zenon DEF Slot
    <2>2. Conduct(slots[w], ctx)'
      BY <1>0, <2>1, ZenonT(60) DEF SlotInv, Conduct, Lasting, Busy, Requested, Moves
    <2>3. SlotInv(slots[w], txs[w], ctx)'
      BY <1>0, <2>1, <2>2, Zenon DEF SlotInv, Session
    <2>4. QED
      BY <2>3, OneSlot, Zenon
  <1>2. CASE slots'[w] = [slots[w] EXCEPT !.beat = "off", !.beatError = err,
                                          !.handlerContext = "done"]
    <2>1. /\ slots'[w] \in Slot /\ slots'[w].pc = slots[w].pc /\ slots'[w].beat = "off"
          /\ slots'[w].lease = slots[w].lease /\ slots'[w].beatError = err
      BY <1>0, <1>2, ZenonT(60) DEF Slot
    <2>2. Conduct(slots[w], ctx)'
      BY <1>0, <2>1, Zenon DEF Conduct, Lasting, Busy, Requested
    <2>3. SlotInv(slots[w], txs[w], ctx)'
      BY <1>0, <2>1, <2>2, ZenonT(60) DEF SlotInv, Session
    <2>4. QED
      BY <2>3, OneSlot
  <1>3. QED
    BY <1>0, <1>1, <1>2, ZenonT(60) DEF BeatFailed, Move

(* How the heartbeat goroutine changes the slot. *)
LEMMA HeartbeatMoves ==
    ASSUME SlotsInv, IndInv, Lasting, NEW w \in Slots,
    BeginBeat(w) \/ BeatStep(w) \/ BeatFails(w)
    PROVE  SlotsInv'
  <1> USE SlotSessions
  <1>0. /\ SlotInv(slots[w], txs[w], ctx) /\ w \in DOMAIN slots /\ w \in DOMAIN txs
        /\ ctx \in {"live", "cancelled"} /\ slots[w] \in Slot /\ clock \in Nat
    BY DEF SlotsInv, SlotInv, IndInv, RowInv, TypeOK
  <1>1. slots[w].beat # "off"
    BY Zenon DEF BeginBeat, BeatStep, Beat, BeatMissed, BeatAbandoned, BeatStop, BeatFails
  <1>2. /\ slots[w].pc \in {"handling", "joining"} /\ slots[w].lease \in leases
        /\ slots[w].lease \in [job : Jobs, token : Nat]
    BY <1>0, <1>1, Zenon DEF SlotInv, Session, Conduct, Busy, IndInv, RowInv, TypeOK
  <1>3. ASSUME NEW beat \in {"ticking", "beating", "off"}, Moves(w), ctx' = ctx,
               slots'[w] = [slots[w] EXCEPT !.beat = beat],
               IF beat = "beating" THEN Presents(txs'[w], "heartbeat", slots[w].lease)
               ELSE txs'[w] = Idle
        PROVE  SlotsInv'
    <2>1. /\ slots'[w] \in Slot /\ slots'[w].pc = slots[w].pc /\ slots'[w].beat = beat
          /\ slots'[w].lease = slots[w].lease /\ slots'[w].beatError = slots[w].beatError
          /\ slots'[w].handlerContext = slots[w].handlerContext
          /\ slots'[w].outcome = slots[w].outcome
      BY <1>0, <1>3, Zenon DEF Slot
    <2>2. Conduct(slots[w], ctx)'
      BY <1>0, <1>2, <1>3, <2>1, ZenonT(60) DEF SlotInv, Conduct, Lasting, Busy, Requested
    <2>3. Session(slots[w], txs[w])'
      BY <1>2, <1>3, <2>1, Zenon DEF Session
    <2>4. QED
      BY <1>3, <2>1, <2>2, <2>3, OneSlot, ZenonT(60) DEF SlotInv
  <1>4. CASE BeginBeat(w)
    <2>1. /\ txs'[w] = [op |-> "heartbeat", job |-> slots[w].lease.job,
                        token |-> slots[w].lease.token, at |-> clock]
          /\ Moves(w) /\ ctx' = ctx /\ slots'[w] = [slots[w] EXCEPT !.beat = "beating"]
      BY <1>0, <1>4 DEF BeginBeat, BeginLeaseCall, Move, Moves, UnchangedWorker
    <2>2. Presents(txs'[w], "heartbeat", slots[w].lease)
      BY <1>0, <1>2, <2>1 DEF Presents, LeaseTx, LeaseOps
    <2>3. QED
      BY <1>3, <2>1, <2>2, Zenon
  <1>5. CASE Beat(w)
    <2>1. txs'[w] = Idle /\ Moves(w) /\ ctx' = ctx /\ slots'[w] = [slots[w] EXCEPT !.beat = "ticking"]
      BY <1>0, <1>5 DEF Beat, Heartbeat, Close, Move, Moves, UnchangedWorker
    <2>2. QED
      BY <1>3, <2>1, Zenon
  <1>6. CASE BeatStop(w)
    <2>1. Moves(w) /\ ctx' = ctx /\ txs' = txs /\ slots'[w] = [slots[w] EXCEPT !.beat = "off"]
      BY <1>0, <1>6, Zenon DEF BeatStop, vars, Move, Moves, UnchangedWorker
    <2>2. txs[w] = Idle
      BY <1>0, <1>2, <1>6, Zenon DEF BeatStop, SlotInv, Session
    <2>3. QED
      BY <1>3, <2>1, <2>2, Zenon
  <1>7. CASE BeatMissed(w)
    <2> DEFINE err == IF CancellationMiss(txs[w]) THEN "cancellation" ELSE "lost"
    <2>1. BeatFailed(w, err) /\ err \in {"cancellation", "lost", "error"}
      BY <1>7, Zenon DEF BeatMissed
    <2>2. txs'[w] = Idle /\ Moves(w)
      BY <1>0, <1>7, SMTT(60) DEF BeatMissed, LeaseMiss, Close, BeatFailed, Move, Moves,
         UnchangedWorker
    <2>3. ASSUME err = "cancellation" PROVE Requested(slots[w].lease)
      <3>1. CancellationMiss(txs[w])
        BY <2>3, Zenon
      <3>2. Presents(txs[w], "heartbeat", slots[w].lease)
        BY <1>0, <1>2, <1>7, Zenon DEF BeatMissed, SlotInv, Session
      <3>3. QED
        BY <3>1, <3>2, Zenon DEF CancellationMiss, Presents, Requested
    <2> HIDE DEF err
    <2>4. QED
      BY <1>1, <2>1, <2>2, <2>3, BeatEnds, Zenon
  <1>8. CASE BeatAbandoned(w) \/ BeatFails(w)
    <2>1. BeatFailed(w, "error")
      BY <1>8, Zenon DEF BeatAbandoned, BeatFails
    <2>2. Close(w) /\ ctx' = ctx
      BY <1>8, Zenon DEF BeatAbandoned, BeatFails, Rollback, Heartbeat, UnchangedWorker
    <2>3. txs'[w] = Idle /\ Moves(w)
      BY <1>0, <2>1, <2>2, SMTT(60) DEF Close, BeatFailed, Move, Moves
    <2>4. QED
      BY <1>1, <2>1, <2>3, BeatEnds, Zenon
  <1>9. QED
    BY <1>4, <1>5, <1>6, <1>7, <1>8, ZenonT(60) DEF BeatStep

(* A call of process that fails stops the slot. *)
LEMMA FailureMoves ==
    ASSUME SlotsInv, IndInv, Lasting, NEW w \in Slots, CallFails(w) \/ ReplyLost(w)
    PROVE  SlotsInv'
  <1> USE SlotSessions
  <1>1. w \in DOMAIN slots /\ w \in DOMAIN txs
    BY Zenon DEF SlotsInv, IndInv, RowInv, TypeOK
  <1>2. Close(w)
    BY Zenon DEF CallFails, ReplyLost, Rollback, Acquire, Start, Succeed, CancelActive, Fail
  <1>3. Move(w, At("stopped")) /\ ctx' = "cancelled"
    BY DEF CallFails, ReplyLost
  <1>4. slots'[w] = At("stopped") /\ txs'[w] = Idle /\ Moves(w)
    BY <1>1, <1>2, <1>3 DEF Close, Move, Moves
  <1>5. QED
    BY <1>4, RestingMoves, Zenon

(* The process dies, or is started again. *)
LEMMA ProcessEnds ==
    ASSUME SlotsInv, IndInv, Crash \/ Restart
    PROVE  SlotsInv'
  <1> USE SlotSessions
  <1>1. PICK pc \in {"polling", "stopped"} :
            slots' = [w \in Slots |-> At(pc)] /\ ctx' \in {"live", "cancelled"}
    BY DEF Crash, Restart
  <1>2. ASSUME NEW w \in Slots PROVE txs'[w] = Idle
    <2>1. CASE Crash
      BY <2>1, Zenon DEF Crash
    <2>2. CASE Restart
      BY <2>2, Zenon DEF Restart, vars, SlotsInv, SlotInv, Session
    <2>3. QED
      BY <2>1, <2>2, Zenon
  <1>3. ASSUME NEW w \in Slots PROVE SlotInv(slots[w], txs[w], ctx)' /\ At(pc) \in Slot
    BY <1>1, <1>2, RestingSlot, Zenon DEF SlotInv
  <1>4. QED
    BY <1>1, <1>3, Zenon DEF SlotsInv

(* The environment moves no slot. *)
LEMMA EnvironmentMoves ==
    ASSUME SlotsInv, IndInv, Lasting,
           \/ \E j \in Jobs : Submit(j) \/ RequestStop(j)
           \/ Reap \/ Shutdown \/ Pass \/ UNCHANGED workerVars
    PROVE  SlotsInv'
  <1> USE SlotSessions
  <1>1. slots' = slots /\ (ctx' = ctx \/ ctx' = "cancelled")
    BY DEF Submit, RequestStop, Reap, Shutdown, Pass, UnchangedWorker, workerVars
  <1>2. CASE txs' = txs
    BY <1>1, <1>2, NoSlot, Zenon DEF SlotsInv
  <1>3. CASE Reap
    <2>1. \A v \in Slots : txs'[v] = txs[v]
      BY <1>3, Zenon DEF Reap, BeginRecover, Recover, Close, IndInv, RowInv, TypeOK
    <2>2. QED
      BY <1>1, <2>1, NoSlot, Zenon DEF SlotsInv
  <1>4. QED
    BY <1>2, <1>3, Zenon DEF Submit, Enqueue, RequestStop, RequestCancellation, Shutdown, Pass,
       Tick,
                      workerVars, vars

-----------------------------------------------------------------------------
(* The calls that end a job                                                *)

(* Which call ends a job as succeeded or cancelled. *)
LEMMA Endings ==
    ASSUME TypeOK, [Next]_vars, NEW j \in Jobs, jobs'[j] # jobs[j],
           jobs'[j].state \in {"succeeded", "cancelled"}
    PROVE  \/ jobs'[j].cancellation = "requested" /\ jobs'[j].state = "cancelled"
           \/ \E s \in Sessions :
                 /\ \/ txs[s].op = "succeed" /\ jobs'[j].state = "succeeded"
                    \/ txs[s].op = "cancel_active" /\ jobs'[j].state = "cancelled"
                 /\ txs[s].job = j /\ txs[s].token = jobs[j].token
                 /\ jobs'[j].cancellation = jobs[j].cancellation
  <1> DEFINE Asked == jobs'[j].cancellation = "requested" /\ jobs'[j].state = "cancelled"
             By(s) == /\ \/ txs[s].op = "succeed" /\ jobs'[j].state = "succeeded"
                         \/ txs[s].op = "cancel_active" /\ jobs'[j].state = "cancelled"
                      /\ txs[s].job = j /\ txs[s].token = jobs[j].token
                      /\ jobs'[j].cancellation = jobs[j].cancellation
  <1>0. jobs[j] \in JobRow
    BY Zenon DEF TypeOK
  <1>1. ASSUME NEW k \in Jobs, NEW row, jobs' = [jobs EXCEPT ![k] = row]
        PROVE  k = j /\ jobs'[j] = row
    BY <1>1, Zenon DEF TypeOK
  <1>2. ASSUME NEW k \in Jobs, Enqueue(k) PROVE FALSE
    <2>1. PICK delay \in EnqueueDelays :
            jobs' = [jobs EXCEPT ![k] = [jobs[k] EXCEPT !.state = "queued", !.available = clock + delay]]
      BY <1>2, Zenon DEF Enqueue
    <2>2. jobs'[j].state = "queued"
      BY <1>0, <1>1, <2>1 DEF JobRow
    <2>3. QED
      BY <2>2, Zenon
  <1>3. ASSUME NEW k \in Jobs, RequestCancellation(k) PROVE Asked
    <2> DEFINE state == IF jobs[k].state \in WaitingStates THEN "cancelled" ELSE jobs[k].state
    <2>1. jobs' = [jobs EXCEPT ![k] = [jobs[k] EXCEPT !.cancellation = "requested", !.state = state]]
      BY <1>3 DEF RequestCancellation
    <2>2. k = j /\ jobs'[j] = [jobs[j] EXCEPT !.cancellation = "requested", !.state = state]
      BY <1>1, <2>1, Zenon
    <2>3. jobs'[j].cancellation = "requested" /\ jobs'[j].state = state
      BY <1>0, <2>2, Zenon DEF JobRow
    <2>4. jobs[j].state \in WaitingStates \cup ActiveStates
      BY <1>3, <2>2, Zenon DEF RequestCancellation
    <2>5. QED
      BY <2>2, <2>3, <2>4, Zenon DEF WaitingStates, ActiveStates
  <1>4. ASSUME NEW s \in Sessions, Acquire(s) PROVE FALSE
    <2>1. PICK k \in Eligible(txs[s].at) : AcquireJob(s, k)
      BY <1>4, Zenon DEF Acquire
    <2>2. k \in Jobs
      BY Zenon DEF Eligible
    <2>3. jobs'[j] = LeasedRow(jobs[j], issued + 1, txs[s].at)
      BY <1>1, <2>1, <2>2, Zenon DEF AcquireJob
    <2>4. jobs'[j].state = "leased"
      BY <1>0, <2>3, Zenon DEF LeasedRow, JobRow
    <2>5. QED
      BY <2>4, Zenon
  <1>5. ASSUME NEW s \in Sessions, Start(s) PROVE FALSE
    <2>1. txs[s].job \in Jobs
      BY <1>5, TxShape, Zenon DEF Start, LeaseTx, LeaseOps
    <2>2. jobs'[j] = [jobs[j] EXCEPT !.state = "running"]
      BY <1>1, <1>5, <2>1, Zenon DEF Start
    <2>3. QED
      BY <1>0, <2>2, Zenon DEF JobRow
  <1>6. ASSUME NEW s \in Sessions, Heartbeat(s) PROVE FALSE
    <2>1. txs[s].job \in Jobs
      BY <1>6, TxShape, Zenon DEF Heartbeat, LeaseTx, LeaseOps
    <2>2. txs[s].job = j /\ jobs'[j] = [jobs[j] EXCEPT !.expires = txs[s].at + LeaseDuration]
      BY <1>1, <1>6, <2>1, ZenonT(60) DEF Heartbeat
    <2>3. jobs'[j].state = jobs[j].state /\ jobs[j].state \in ActiveStates
      BY <1>0, <1>6, <2>2, SMTT(60) DEF JobRow, Heartbeat, HeartbeatMatches
    <2>4. QED
      BY <2>3, Zenon DEF ActiveStates
  <1>7. ASSUME NEW s \in Sessions, Succeed(s) \/ CancelActive(s) PROVE By(s)
    <2>1. txs[s].job \in Jobs
      BY <1>7, TxShape, Zenon DEF Succeed, CancelActive, LeaseTx, LeaseOps
    <2>2. PICK state : /\ jobs' = [jobs EXCEPT ![txs[s].job] = Released(jobs[txs[s].job], state)]
                       /\ \/ txs[s].op = "succeed" /\ state = "succeeded"
                          \/ txs[s].op = "cancel_active" /\ state = "cancelled"
      BY <1>7, Zenon DEF Succeed, CancelActive, EndAttempt
    <2>3. txs[s].job = j /\ jobs'[j] = Released(jobs[j], state)
      BY <1>1, <2>1, <2>2, Zenon
    <2>4. jobs'[j].state = state /\ jobs'[j].cancellation = jobs[j].cancellation
      BY <1>0, <2>3, Zenon DEF Released, JobRow
    <2>5. txs[s].token = jobs[j].token
      BY <1>7, <2>3, Zenon DEF Succeed, SucceedMatches, CancelActive, CancelActiveMatches,
         LeaseCurrent
    <2>6. QED
      BY <2>2, <2>3, <2>4, <2>5, Zenon
  <1>8. ASSUME NEW s \in Sessions, Fail(s) PROVE Asked
    <2>1. txs[s].job \in Jobs
      BY <1>8, TxShape, Zenon DEF Fail, LeaseTx, LeaseOps
    <2>2. PICK row :
            /\ jobs' = [jobs EXCEPT ![txs[s].job] = row]
            /\ \/ row = Released(jobs[txs[s].job], "cancelled") /\ jobs[txs[s].job].cancellation = "requested"
               \/ row = [Released(jobs[txs[s].job], "retry_wait") EXCEPT !.available = txs[s].at + RetryDelay]
               \/ row = Released(jobs[txs[s].job], "dead_letter")
      BY <1>8, Zenon DEF Fail, EndAttempt
    <2>3. txs[s].job = j /\ jobs'[j] = row
      BY <1>1, <2>1, <2>2, Zenon
    <2>4. CASE row = Released(jobs[j], "cancelled") /\ jobs[j].cancellation = "requested"
      BY <1>0, <2>3, <2>4, ZenonT(60) DEF Released, JobRow
    <2>5. CASE row = [Released(jobs[j], "retry_wait") EXCEPT !.available = txs[s].at + RetryDelay]
      BY <1>0, <2>3, <2>5, ZenonT(60) DEF Released, JobRow
    <2>6. CASE row = Released(jobs[j], "dead_letter")
      BY <1>0, <2>3, <2>6, ZenonT(60) DEF Released, JobRow
    <2>7. QED
      BY <2>2, <2>3, <2>4, <2>5, <2>6, Zenon
  <1>9. ASSUME NEW s \in Sessions, Recover(s) PROVE Asked
    <2>1. PICK batch \in SUBSET Scanned(txs[s]) : RecoverRows(batch)
      BY <1>9, Zenon DEF Recover
    <2>2. jobs'[j] = RecoveredRow(j)
      BY <2>1, Zenon DEF RecoverRows
    <2>3. QED
      BY <1>0, <2>2, Zenon DEF RecoveredRow, Released, JobRow
  <1>10. ASSUME NEW s \in Sessions, SessionStep(s)
         PROVE  \/ Acquire(s) \/ Start(s) \/ Heartbeat(s) \/ Fail(s) \/ Recover(s)
                \/ Succeed(s) \/ CancelActive(s)
    BY <1>10, Zenon DEF SessionStep, BeginAcquire, AcquireNone, BeginLeaseCall, LeaseMiss,
                 BeginRecover, Rollback
  <1>11. ~Tick /\ ~UNCHANGED vars
    BY Zenon DEF Tick, vars
  <1>12. (\E k \in Jobs : Enqueue(k) \/ RequestCancellation(k)) \/ (\E s \in Sessions : SessionStep(s))
    BY <1>11, Zenon DEF Next
  <1> HIDE DEF By, Asked
  <1>13. Asked \/ \E s \in Sessions : By(s)
    BY <1>2, <1>3, <1>4, <1>5, <1>6, <1>7, <1>8, <1>9, <1>10, <1>12, ZenonT(60)
  <1>14. QED
    BY <1>13, Zenon DEF By, Asked

-----------------------------------------------------------------------------
(* The invariant is inductive                                              *)

(* Initially no slot has a lease. *)
LEMMA WorkerStarts ==
    ASSUME WorkerInit
    PROVE  WorkerInv
  <1> USE SlotSessions
  <1>1. IndInv
    BY InitInv, Zenon DEF WorkerInit
  <1>2. \A w \in Slots : SlotInv(At("polling"), Idle, ctx) /\ At("polling") \in Slot
    BY RestingSlot, Zenon DEF SlotInv
  <1>3. SlotsInv
    BY <1>2, Zenon DEF SlotsInv, WorkerInit, Init
  <1>4. /\ txs[Reaper].op \in {"idle", "recover"}
        /\ \A l \in leases : jobs[l.job].attempt >= 1
        /\ CancelledOnlyOnRequest
    BY Zenon DEF WorkerInit, Init, Idle, CancelledOnlyOnRequest, NoRow
  <1>5. QED
    BY <1>1, <1>3, <1>4, ZenonT(60) DEF WorkerInv

(* Every step keeps what is known of the slots. *)
LEMMA SlotsKept ==
    ASSUME WorkerInv, [WorkerNext]_workerVars, IndInv', Lasting
    PROVE  SlotsInv'
  <1>1. SlotsInv /\ IndInv
    BY Zenon DEF WorkerInv
  <1>2. ASSUME NEW w \in Slots, MainStep(w) PROVE SlotsInv'
    BY <1>1, <1>2, RunSlotMoves, ProcessMoves, HandlerMoves, ZenonT(60) DEF MainStep
  <1>3. ASSUME NEW w \in Slots,
               PollTimer(w) \/ BeginBeat(w) \/ BeatStep(w) \/ HandlerReturns(w)
               \/ CallFails(w) \/ ReplyLost(w) \/ BeatFails(w)
        PROVE  SlotsInv'
    BY <1>1, <1>3, RunSlotMoves, HandlerMoves, HeartbeatMoves, FailureMoves, ZenonT(60)
  <1>4. CASE Crash \/ Restart
    BY <1>1, <1>4, ProcessEnds, ZenonT(60)
  <1>5. CASE (\E j \in Jobs : Submit(j) \/ RequestStop(j))
             \/ Reap \/ Shutdown \/ Pass \/ UNCHANGED workerVars
    BY <1>1, <1>5, EnvironmentMoves, ZenonT(60)
  <1>6. QED
    BY <1>2, <1>3, <1>4, <1>5, ZenonT(60) DEF WorkerNext

(* The session that calls RecoverExpired does nothing else. *)
LEMMA ReaperKept ==
    ASSUME WorkerInv, [WorkerNext]_workerVars
    PROVE  txs'[Reaper].op \in {"idle", "recover"}
  <1> USE SlotSessions
  <1>0. txs \in [Sessions -> LeaseTx \cup AcquireTx \cup RecoverTx \cup {Idle}]
    BY DEF WorkerInv, IndInv, RowInv, TypeOK
  <1>1. ASSUME NEW s \in Sessions, s # Reaper, NEW tx, txs' = [txs EXCEPT ![s] = tx]
        PROVE  txs'[Reaper] = txs[Reaper]
    BY <1>0, <1>1, Zenon
  <1>2. ASSUME NEW w \in Slots, MainStep(w) PROVE txs'[Reaper] = txs[Reaper]
    <2>1. txs' = txs \/ \E tx : txs' = [txs EXCEPT ![w] = tx]
      BY <1>2, ZenonT(60)
         DEF MainStep, Poll, Acquired, NoWork, StopSlot, BeginCall, Started, Finished, Missed,
         Joined,
             BeginAcquire, Acquire, AcquireNone, BeginLeaseCall, Start, Succeed, CancelActive,
             Fail,
             LeaseMiss, Close, vars
    <2>2. QED
      BY <1>1, <2>1, ZenonT(60)
  <1>3. ASSUME NEW w \in Slots,
               PollTimer(w) \/ BeginBeat(w) \/ BeatStep(w) \/ HandlerReturns(w)
               \/ CallFails(w) \/ ReplyLost(w) \/ BeatFails(w)
        PROVE  txs'[Reaper] = txs[Reaper]
    <2>1. txs' = txs \/ \E tx : txs' = [txs EXCEPT ![w] = tx]
      BY <1>3, ZenonT(60)
         DEF PollTimer, BeginBeat, BeatStep, Beat, BeatMissed, BeatAbandoned, BeatStop,
         HandlerReturns,
             CallFails, ReplyLost, BeatFails, BeginLeaseCall, Heartbeat, LeaseMiss, Rollback,
             Acquire, Start, Succeed, CancelActive, Fail, Close, vars
    <2>2. QED
      BY <1>1, <2>1
  <1>4. CASE Crash
    BY <1>0, <1>4, ZenonT(60) DEF Crash, WorkerInv
  <1>5. CASE Reap
    <2>1. PICK tx : txs' = [txs EXCEPT ![Reaper] = tx] /\ tx.op \in {"idle", "recover"}
      BY <1>5 DEF Reap, BeginRecover, Recover, Close, Idle
    <2>2. QED
      BY <1>0, <2>1, ZenonT(60)
  <1>6. CASE (\E j \in Jobs : Submit(j) \/ RequestStop(j)) \/ Shutdown \/ Restart \/ Pass
             \/ UNCHANGED workerVars
    <2>1. txs' = txs
      BY <1>6, Zenon DEF Submit, Enqueue, RequestStop, RequestCancellation, Shutdown, Restart,
         Pass, Tick,
                  workerVars, vars
    <2>2. QED
      BY <2>1, Zenon DEF WorkerInv
  <1>7. QED
    BY <1>2, <1>3, <1>4, <1>5, <1>6, ZenonT(60) DEF WorkerNext, WorkerInv

(* A job that was ever leased keeps an attempt. *)
LEMMA AttemptsLast ==
    ASSUME WorkerInv, [Next]_vars
    PROVE  \A l \in leases' : jobs'[l.job].attempt >= 1
  <1>1. /\ \A l \in leases : l.job \in Jobs /\ jobs[l.job].attempt >= 1
        /\ \A j \in Jobs : jobs[j].attempt \in Nat
    BY Zenon DEF WorkerInv, IndInv, RowInv, TypeOK, JobRow
  <1>2. CASE leases' = leases /\ \A j \in Jobs : NotLeased(j)
    BY <1>1, <1>2, Zenon DEF NotLeased, Untouched, Enqueued, Renewed, Marked, Ended
  <1>3. ASSUME NEW j \in Jobs, Leased(j) PROVE \A l \in leases' : jobs'[l.job].attempt >= 1
    <2>1. jobs'[j].attempt >= 1
      BY <1>1, <1>3, SMTT(60) DEF Leased
    <2>2. \A k \in Jobs \ {j} : jobs'[k].attempt = jobs[k].attempt
      BY <1>3 DEF Leased, Untouched
    <2>3. \A l \in leases' : l \in leases \/ l.job = j
      BY <1>3 DEF Leased
    <2>4. QED
      BY <1>1, <2>1, <2>2, <2>3, Zenon
  <1>4. QED
    BY <1>2, <1>3, StepKinds, Zenon DEF WorkerInv, IndInv

(* A call that succeeds or acknowledges a cancellation is that of a slot    *)
(* with the lease in hand.                                                  *)
LEMMA Caller ==
    ASSUME WorkerInv, NEW s \in Sessions, txs[s].op \in {"succeed", "cancel_active"}
    PROVE  /\ s \in Slots /\ slots[s].pc = "calling" /\ slots[s].op = txs[s].op
           /\ slots[s].lease = [job |-> txs[s].job, token |-> txs[s].token]
           /\ Conduct(slots[s], ctx)
  <1>1. s \in Slots
    BY SlotSessions, WorkerAssumption DEF WorkerInv
  <1>2. SlotInv(slots[s], txs[s], ctx)
    BY <1>1 DEF WorkerInv, SlotsInv
  <1>3. txs[s] # Idle /\ txs[s] \notin AcquireTx /\ ~Presents(txs[s], "heartbeat", slots[s].lease)
    BY DEF Idle, AcquireTx, Presents
  <1>4. slots[s].pc = "calling" /\ Presents(txs[s], slots[s].op, slots[s].lease)
    BY <1>2, <1>3 DEF SlotInv, Slot, Pcs, Session
  <1>5. slots[s].lease \in [job : Jobs, token : Nat]
    BY <1>2, <1>4 DEF SlotInv, Conduct, Busy, WorkerInv, IndInv, RowInv, TypeOK
  <1>6. slots[s].lease = [job |-> txs[s].job, token |-> txs[s].token]
    BY <1>4, <1>5 DEF Presents
  <1>7. QED
    BY <1>1, <1>2, <1>4, <1>6 DEF Presents, SlotInv

(* A job that is cancelled in this step was asked to be: by                 *)
(* RequestCancellation itself, by the request that Fail and RecoverExpired  *)
(* found on the row, or by the request that a slot was told of before it    *)
(* called CancelActive.                                                     *)
LEMMA RequestsKept ==
    ASSUME WorkerInv, [Next]_vars
    PROVE  CancelledOnlyOnRequest'
  <1> SUFFICES ASSUME NEW j \in Jobs, jobs'[j].state = "cancelled"
               PROVE  jobs'[j].cancellation = "requested"
    BY DEF CancelledOnlyOnRequest
  <1>1. CASE jobs'[j] = jobs[j]
    BY <1>1 DEF WorkerInv, CancelledOnlyOnRequest
  <1>2. ASSUME NEW s \in Sessions, txs[s].op = "cancel_active", txs[s].job = j,
               txs[s].token = jobs[j].token
        PROVE  jobs[j].cancellation = "requested"
    <2>1. /\ slots[s].pc = "calling" /\ slots[s].op = "cancel_active"
          /\ slots[s].lease = [job |-> j, token |-> jobs[j].token]
          /\ Conduct(slots[s], ctx)
      BY <1>2, Caller
    <2>2. QED
      BY <2>1 DEF Conduct, Requested
  <1>3. CASE jobs'[j] # jobs[j]
    BY <1>2, <1>3, Endings, ZenonT(60) DEF WorkerInv, IndInv, RowInv
  <1>4. QED
    BY <1>1, <1>3

(* A slot that reports a retryable outcome has a lease, and so an attempt to *)
(* compute the delay from.                                                   *)
LEMMA DelaysFollow ==
    ASSUME WorkerInv
    PROVE  BackoffExact
  <1> SUFFICES ASSUME NEW w \in Slots, slots[w].pc = "calling",
                      NEW later \in 0..DurationBits, NEW minimum \in Durations,
                      NEW maximum \in minimum..MaxDuration
               PROVE  ExactDelay(jobs[slots[w].lease.job].attempt + later, minimum, maximum)
    BY Zenon DEF BackoffExact
  <1>1. slots[w].lease \in leases
    BY PresentsOne, Zenon DEF Busy
  <1>2. slots[w].lease.job \in Jobs
    BY <1>1, Zenon DEF WorkerInv, IndInv, RowInv, TypeOK
  <1>3. jobs[slots[w].lease.job].attempt \in Nat /\ jobs[slots[w].lease.job].attempt >= 1
    BY <1>1, <1>2, ZenonT(60) DEF WorkerInv, IndInv, RowInv, TypeOK, JobRow
  <1>4. jobs[slots[w].lease.job].attempt + later \in Nat \ {0}
    BY <1>3, BackoffConstants, SMTT(60)
  <1>5. QED
    BY <1>4, DelaysExact, ZenonT(60)

(* Every step of the worker keeps the invariant. *)
LEMMA WorkerInductive ==
    ASSUME WorkerInv, [WorkerNext]_workerVars
    PROVE  WorkerInv'
  <1>1. [Next]_vars \/ Crash
    BY WorkerSteps, Zenon
  <1>2. IndInv' /\ Lasting
    <2>1. CASE [Next]_vars
      BY <2>1, Inductive, QueueLasts, Zenon DEF WorkerInv
    <2>2. CASE Crash
      <3>1. IndInv'
        BY <2>2, CrashKeeps, Zenon DEF WorkerInv
      <3>2. leases' = leases /\ jobs' = jobs
        BY <2>2, Zenon DEF Crash
      <3>3. QED
        BY <3>1, <3>2, Zenon DEF Lasting, Requested
    <2>3. QED
      BY <1>1, <2>1, <2>2, Zenon
  <1>3. SlotsInv' /\ txs'[Reaper].op \in {"idle", "recover"}
    BY <1>2, SlotsKept, ReaperKept, Zenon
  <1>4. (\A l \in leases' : jobs'[l.job].attempt >= 1) /\ CancelledOnlyOnRequest'
    <2>1. CASE [Next]_vars
      BY <2>1, AttemptsLast, RequestsKept, Zenon
    <2>2. CASE Crash
      BY <2>2 DEF Crash, WorkerInv, CancelledOnlyOnRequest
    <2>3. QED
      BY <1>1, <2>1, <2>2, Zenon
  <1>5. QED
    BY <1>2, <1>3, <1>4, Zenon DEF WorkerInv

(* The invariant of the worker of worker.go holds in every reachable        *)
(* state, whatever crashes, shutdowns, failed calls and lost replies        *)
(* occur.                                                                   *)
THEOREM WorkerInvariance == WorkerSpec => []WorkerInv
  <1>1. WorkerInit => WorkerInv
    BY WorkerStarts, Zenon
  <1>2. WorkerInv /\ [WorkerNext]_workerVars => WorkerInv'
    BY WorkerInductive
  <1>3. QED
    BY <1>1, <1>2, PTL DEF WorkerSpec

(* The worker is a client within the rules of queue.go: with it, in spite   *)
(* of crashes in the middle of its transactions, everything proved of the   *)
(* queue holds.                                                             *)
THEOREM WorkerKeepsQueue == WorkerSpec => []IndInv
  <1>1. WorkerInv => IndInv
    BY ZenonT(60) DEF WorkerInv
  <1>2. QED
    BY <1>1, WorkerInvariance, PTL

(* process never turns a shutdown, a lost lease or a failed heartbeat into  *)
(* a cancelled job.                                                         *)
THEOREM WorkerCancelsOnRequest == WorkerSpec => []CancelledOnlyOnRequest
  <1>1. WorkerInv => CancelledOnlyOnRequest
    BY ZenonT(60) DEF WorkerInv
  <1>2. QED
    BY <1>1, WorkerInvariance, PTL

(* Whenever process reports a retryable outcome, retryDelay and the jitter  *)
(* give the exact delay for this attempt, for Durations of every width.     *)
THEOREM WorkerBackoffExact == WorkerSpec => []BackoffExact
  <1>1. WorkerInv => BackoffExact
    BY DelaysFollow, Zenon
  <1>2. QED
    BY <1>1, WorkerInvariance, PTL

(* The step SuccessIsEarned allows. *)
Earned ==
    \A j \in Jobs :
        jobs'[j].state = "succeeded" /\ jobs[j].state # "succeeded"
        => \E w \in Slots : /\ slots[w].lease = [job |-> j, token |-> jobs[j].token]
                            /\ slots[w].outcome = "succeeded"
                            /\ slots[w].beatError = "none"

(* A job that succeeds in this step does so by the call of a slot whose     *)
(* handler returned success.                                                *)
LEMMA StepEarned ==
    ASSUME WorkerInv, [WorkerNext]_workerVars
    PROVE  Earned
  <1> SUFFICES ASSUME NEW j \in Jobs, jobs'[j].state = "succeeded", jobs[j].state # "succeeded"
               PROVE  \E w \in Slots : /\ slots[w].lease = [job |-> j, token |-> jobs[j].token]
                                       /\ slots[w].outcome = "succeeded"
                                       /\ slots[w].beatError = "none"
    BY Zenon DEF Earned
  <1>1. ~Crash
    BY Zenon DEF Crash
  <1>2. [Next]_vars
    BY <1>1, WorkerSteps, Zenon
  <1>3. jobs'[j] # jobs[j] /\ TypeOK
    BY Zenon DEF WorkerInv, IndInv, RowInv
  <1>4. PICK s \in Sessions : /\ txs[s].op = "succeed" /\ txs[s].job = j
                              /\ txs[s].token = jobs[j].token
    BY <1>2, <1>3, Endings, ZenonT(60)
  <1>5. /\ s \in Slots /\ slots[s].pc = "calling" /\ slots[s].op = "succeed"
        /\ slots[s].lease = [job |-> j, token |-> jobs[j].token] /\ Conduct(slots[s], ctx)
    BY <1>4, Caller, Zenon
  <1>6. QED
    BY <1>5, Zenon DEF Conduct

(* process acknowledges success only for a handler that returned it under   *)
(* the current lease, with no failed heartbeat.                             *)
THEOREM WorkerSuccessEarned == WorkerSpec => SuccessIsEarned
  <1>1. WorkerInv /\ [WorkerNext]_workerVars => [Earned]_workerVars
    BY StepEarned
  <1>2. QED
    BY <1>1, WorkerInvariance, PTL DEF WorkerSpec, SuccessIsEarned, Earned

-----------------------------------------------------------------------------
(* The worker with its queue implements LeaseLedger.                       *)

(* Whatever the worker, its handlers and its faults do, a job only moves by being
   submitted, granted, finished by the attempt that holds it, withdrawn or
   reclaimed. *)
THEOREM WorkerImplementsLedger == WorkerSpec => ImplementsLedger
  <1>1. WorkerInit => Ledger!LedgerInit
    BY LedgerStarts, Zenon DEF WorkerInit
  <1>2. WorkerInv /\ [WorkerNext]_workerVars => [Ledger!LedgerNext]_(Ledger!ledger)
    <2> SUFFICES ASSUME WorkerInv, [WorkerNext]_workerVars
                 PROVE  [Ledger!LedgerNext]_(Ledger!ledger)
      BY Zenon
    <2>1. CASE [Next]_vars
      BY <2>1, LedgerSteps, Zenon DEF WorkerInv
    <2>2. CASE Crash
      <3>1. UNCHANGED jobs
        BY <2>2 DEF Crash
      <3>2. QED
        BY <3>1, LedgerStutters, Zenon
    <2>3. QED
      BY <2>1, <2>2, WorkerSteps, ZenonT(60)
  <1>3. QED
    BY <1>1, <1>2, WorkerInvariance, PTL DEF WorkerSpec, ImplementsLedger, Ledger!LedgerSpec
=============================================================================
