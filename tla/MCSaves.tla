------------------------------- MODULE MCSaves ------------------------------
EXTENDS Report

MCSampleFrames == <<"run">>

(* Both threads are analyzed.                                              *)
MCThreadName(thread) == "exec"

(* What an execution spent: on the profiler's stack, and on one of two     *)
(* that lie on it.                                                         *)
MCSamplesOf(execution) ==
    IF execution.startThread = 1
    THEN <<[frames |-> <<"run">>, value |-> 3], [frames |-> <<"run", "disk">>, value |-> 1]>>
    ELSE <<[frames |-> <<"run", "run">>, value |-> 2]>>
=============================================================================
