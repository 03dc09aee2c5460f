--------------------------- MODULE MCStateBlocks ---------------------------
(***************************************************************************)
(* Values of the constants of StateBlocks for TLC.                         *)
(***************************************************************************)
EXTENDS StateBlocks, TLC

CONSTANTS t1, t2, c0, c1, v0, v1

(* The CPUs, and the values of an attribute, are interchangeable.          *)
CpuSymmetry   == Permutations(Cpus)
ValueSymmetry == Permutations(StateValues)
============================================================================
