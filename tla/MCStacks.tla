------------------------------ MODULE MCStacks ------------------------------
(***************************************************************************)
(* Values of the constants of StacksBlocks and ExtractStacks for TLC.      *)
(* t1 is profiled; t2 and t3 preempt it and wake it up.                    *)
(***************************************************************************)
EXTENDS ExtractStacks

CONSTANTS t1, t2, t3

(* A sample in main, called by the profiler, and one in f, called by main. *)
MCSamples == {<< "lttng_profile_on_sample", "main" >>, << "f", "main" >>}

Frames(prefix) == t1 :> prefix \o "t1]" @@ t2 :> prefix \o "t2]" @@ t3 :> prefix \o "t3]"

MCThreadFrame    == Frames("[thread ")
MCRequesterFrame == Frames("[")

Segment(start, end, tid, type) == [start |-> start, end |-> end, tid |-> tid, type |-> type]

(* t3 waited for t1 when it preempted t1.                                  *)
MCPathOf(start, end, tid) ==
    IF tid = t3 THEN << Segment(start, start, t3, "kEpsilon"), Segment(start, end, t1, "kRun") >>
    ELSE << Segment(start, end, tid, "kRun") >>

MCLastCpu(tid, ts) == IF ts < 2 THEN Unknown ELSE 0

(* The CPU has t2, t3 and the idle thread in turn.                         *)
Tenant(u) == CASE u % 3 = 0 -> t2 [] u % 3 = 1 -> t3 [] OTHER -> 0

MCRanOn(cpu, start, end) ==
    [i \in 1..(end - start) |->
       Segment(start + i - 1, start + i, Tenant(start + i - 1), "kRun")]

(* t2 used the disk all the time, and so did t1 for its own request.       *)
MCOthersRequests(start, end) == << [low |-> start, high |-> end, tid |-> t2] >>

MCOwnRequests(start, end) ==
    << [low |-> start, high |-> end, tid |-> t1] >> \o MCOthersRequests(start, end)

(* t1 runs, waits for t2 and runs again, or waits for something else.      *)
MCPaths ==
    UNION {{<< Segment(s, s + 1, t1, "kRun"), Segment(s + 1, s + 1, t2, "kEpsilon"),
               Segment(s + 1, s + 2, t2, "kRun"), Segment(s + 2, MaxTs, t1, "kRun") >>,
            << Segment(s, s + 1, t1, "kRun"), Segment(s + 1, s + 2, t2, "kWaitCpu"),
               Segment(s + 2, s + 2, t1, "kTimer"), Segment(s + 2, MaxTs, t1, "kWaitCpu") >>,
            << Segment(s, s + 1, t2, "kInterrupted"), Segment(s + 1, s + 2, t1, "kWaitBlocked"),
               Segment(s + 2, MaxTs, t3, "kRun") >>} : s \in 1..(MaxTs - 2)}

MCDiskPaths ==
    {<< Segment(s, s + 1, t1, "kBlockDevice"), Segment(s + 1, MaxTs, t1, "kRun") >> :
        s \in 1..(MaxTs - 1)}
============================================================================
