----------------------------- MODULE MCJobQueue -----------------------------
(***************************************************************************)
(* Small instances of JobQueue for TLC.                                    *)
(***************************************************************************)
EXTENDS JobQueue, TLC

CONSTANTS j1, j2, w1, s1, s2, s3

(* One job with two attempts, contended by every session. *)
OneJobWorkspace == j1 :> w1
OneJobAttempts == j1 :> 2
OneJobPriority == j1 :> 0

(* Two jobs of one workspace; the second has priority and a single attempt. *)
SharedWorkspace == j1 :> w1 @@ j2 :> w1
TwoJobsAttempts == j1 :> 2 @@ j2 :> 1
TwoJobsPriority == j1 :> 0 @@ j2 :> 1

SessionSymmetry == Permutations(Sessions)
=============================================================================
