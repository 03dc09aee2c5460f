-------------------------- MODULE MCCriticalBuild --------------------------
(***************************************************************************)
(* Values of the constants of CriticalBuild for TLC.                       *)
(***************************************************************************)
EXTENDS CleanupLoop, CriticalPath

CONSTANTS t1, t2

(* Threads are interchangeable where none of them is a journaling thread.  *)
ThreadSymmetry == Permutations(Threads)
============================================================================
