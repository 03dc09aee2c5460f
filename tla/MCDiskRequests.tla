--------------------------- MODULE MCDiskRequests ---------------------------
(***************************************************************************)
(* Values of the constants of DiskRequests for TLC.                        *)
(***************************************************************************)
EXTENDS DiskRequests

CONSTANTS t1, t2
============================================================================
