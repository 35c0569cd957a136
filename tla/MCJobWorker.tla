---------------------------- MODULE MCJobWorker ----------------------------
(***************************************************************************)
(* A small instance of JobWorker for TLC.                                  *)
(***************************************************************************)
EXTENDS JobWorker, TLC

CONSTANTS j1, w1, s1, s2, reaper

(* One job with two attempts. *)
OneJobWorkspace == j1 :> w1
OneJobAttempts == j1 :> 2
OneJobPriority == j1 :> 0
=============================================================================
