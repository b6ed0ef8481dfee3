--------------------------- MODULE MCTaskExecutor ---------------------------
(***************************************************************************)
(* Instances of TaskExecutor for TLC.  Tasks that fit the resources are    *)
(* interchangeable.                                                        *)
(***************************************************************************)
EXTENDS TaskExecutor, TLC

TaskSymmetry == Permutations(Tasks \ Oversized)
=============================================================================
