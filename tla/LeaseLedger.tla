---------------------------- MODULE LeaseLedger ----------------------------
(***************************************************************************)
(* What internal/jobqueue promises to the code that uses it, without rows, *)
(* tokens, clocks or transactions: a job is waiting, held by its current   *)
(* attempt, or ended; attempts are numbered and limited; an attempt ends   *)
(* once; a withdrawn job only ever ends as cancelled.  RecoverExpired may  *)
(* reclaim any job that was ever leased, an ended one included: its update *)
(* is not fenced (see JobQueue).                                           *)
(*                                                                         *)
(* JobQueue is shown to implement this module; ImportProcessing uses it.   *)
(***************************************************************************)
EXTENDS Integers

CONSTANTS
    Jobs,
    MaxAttempts     \* [Jobs -> Nat \ {0}], Spec.MaxAttempts

VARIABLES
    status,         \* where each job stands
    used,           \* attempts handed out; the current attempt has this number
    withdrawn       \* a cancellation was requested

ledger == <<status, used, withdrawn>>

EndStates == {"succeeded", "dead_letter", "cancelled"}
Statuses == {"absent", "waiting", "held"} \cup EndStates

LedgerInit ==
    /\ status = [j \in Jobs |-> "absent"]
    /\ used = [j \in Jobs |-> 0]
    /\ withdrawn = [j \in Jobs |-> FALSE]

\* Enqueue, EnqueueTx
Submit(j) ==
    /\ status[j] = "absent"
    /\ status' = [status EXCEPT ![j] = "waiting"]
    /\ UNCHANGED <<used, withdrawn>>

\* Acquire
Grant(j) ==
    /\ status[j] = "waiting" /\ ~withdrawn[j] /\ used[j] < MaxAttempts[j]
    /\ status' = [status EXCEPT ![j] = "held"]
    /\ used' = [used EXCEPT ![j] = @ + 1]
    /\ UNCHANGED withdrawn

\* Succeed, Fail, CancelActive: the current attempt ends, and the job with it or not.
Finish(j, s) ==
    /\ status[j] = "held"
    /\ s = "waiting" => used[j] < MaxAttempts[j]
    /\ withdrawn[j] => s = "cancelled"
    /\ status' = [status EXCEPT ![j] = s]
    /\ UNCHANGED <<used, withdrawn>>

\* RequestCancellation
Withdraw(j) ==
    /\ status[j] \in {"waiting", "held"}
    /\ status' = [status EXCEPT ![j] = IF @ = "waiting" THEN "cancelled" ELSE @]
    /\ withdrawn' = [withdrawn EXCEPT ![j] = TRUE]
    /\ UNCHANGED used

Reclaimed(j) ==
    IF withdrawn[j] THEN "cancelled"
    ELSE IF used[j] < MaxAttempts[j] THEN "waiting"
    ELSE "dead_letter"

\* RecoverExpired, for a whole batch at once
Reclaim(batch) ==
    /\ \A j \in batch : used[j] > 0
    /\ status' = [j \in Jobs |-> IF j \in batch THEN Reclaimed(j) ELSE status[j]]
    /\ UNCHANGED <<used, withdrawn>>

LedgerNext ==
    \/ \E j \in Jobs :
          \/ Submit(j) \/ Grant(j) \/ Withdraw(j)
          \/ \E s \in EndStates \cup {"waiting"} : Finish(j, s)
    \/ \E batch \in SUBSET Jobs : Reclaim(batch)

LedgerSpec == LedgerInit /\ [][LedgerNext]_ledger
=============================================================================
