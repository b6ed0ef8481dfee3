---------------------------- MODULE MCThreadPool ----------------------------
(***************************************************************************)
(* Instances of ThreadPool for TLC.  Tasks, threads and calls are model    *)
(* values; threads and tasks (other than the throwing ones) are            *)
(* interchangeable.                                                        *)
(***************************************************************************)
EXTENDS ThreadPool, TLC

PoolSymmetry == Permutations(Threads) \cup Permutations(Tasks \ Throwers)
                    \cup Permutations(Removals)
=============================================================================
