---------------------------- MODULE MCInterrupts ----------------------------
(***************************************************************************)
(* MCCriticalBuild with the unit tests of the repository, which TLC        *)
(* evaluates before it starts.                                             *)
(***************************************************************************)
EXTENDS MCCriticalBuild, PathTests, UnitTests
=============================================================================
