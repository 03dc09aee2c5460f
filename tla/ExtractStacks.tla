---------------------------- MODULE ExtractStacks ----------------------------
(***************************************************************************)
(* src/execution/ExtractStacks.cpp and ExtractMetrics.cpp: how the time of *)
(* a critical path is told as samples of stacks.  An extraction is a fold  *)
(* over the segments of the path; its state is the samples, the threads    *)
(* that the path has come through, each with its stack, and whether it has *)
(* stopped early.                                                          *)
(*                                                                         *)
(* The stacks are those of StacksBlocks.  The other services answer as the *)
(* constants below: their own modules say what they answer.                *)
(***************************************************************************)
EXTENDS StacksBlocks

CONSTANTS
    Paths,              \* bound: the critical paths that are extracted
    ThreadFrame,        \* the frame "[thread name]" of each thread
    RequesterFrame,     \* the frame "[name]" of each thread
    PathOf(_, _, _),    \* ComputeCriticalPath, of the threads that preempt
    LastCpu(_, _),      \* GetUIntegerValue of a thread's cur_cpu, or Unknown
    RanOn(_, _, _),     \* EnumerateUIntegerValues of a CPU's cur_thread
    GetIntervals(_, _)  \* DiskRequests::GetIntervals

IdleTids == {0, -1}     \* in RanOn: the CPU was idle, or it is not known

Length(segment) == segment.end - segment.start

PushOnStack(bottom, function) == Append(bottom, function)

ConcatenateStacks(bottom, onTop) == bottom \o onTop

ThreadInfo(tid, stack) == [tid |-> tid, stack |-> stack, cleanStack |-> stack]

IncrementSample(samples, stackId, value) ==
    IF stackId \in DOMAIN samples THEN [samples EXCEPT ![stackId] = @ + value]
    ELSE samples @@ (stackId :> value)

StackAt(tid, ts) == IF tid \in Profiled THEN GetStack(Saved(tid), ts) ELSE kEmptyStackId

(* The threads above the current one stay.                                 *)
MutThreadsUpTo(threads, segment, base) ==
    IF threads = << >> THEN << ThreadInfo(segment.tid,
                                    PushOnStack(base, ThreadFrame[segment.tid])) >>
    ELSE Append(threads, ThreadInfo(segment.tid, PushOnStack(
                   Last(threads).stack, ThreadFrame[segment.tid])))

(* A thread that the path comes back to is the top again; a new one is     *)
(* pushed on the stack of the one that was waiting for it.                 *)
ThreadsUpTo(threads, segment, base) ==
    LET known  == {d \in DOMAIN threads : threads[d].tid = segment.tid}
        bottom == IF threads = << >> THEN base ELSE Last(threads).stack
    IN  IF known # {} THEN SubSeq(threads, 1, Min(known))
        ELSE Append(threads, ThreadInfo(segment.tid,
                               PushOnStack(bottom, ThreadFrame[segment.tid])))

(* threads.back().stack = the stack of the thread at the time.             *)
SetTopStack(threads, segment, ts) ==
    [threads EXCEPT ![Len(threads)].stack =
       ConcatenateStacks(Last(threads).cleanStack, StackAt(segment.tid, ts))]

EnsureCurrentThreadIsOnThreadsStack(threads, segment, base) ==
    SetTopStack(ThreadsUpTo(threads, segment, base), segment, segment.end)

(* The stack of a thread without one at the end of a wait is the one at    *)
(* its start.                                                              *)
StackOfWait(threads, segment) ==
    IF Last(threads).stack = Last(threads).cleanStack
    THEN SetTopStack(threads, segment, segment.start)
    ELSE threads

----------------------------------------------------------------------------
(* The samples of one segment, by its type.  What is missing from the      *)
(* samples of a run has no stack.                                          *)
MutRunSamples(samples, threads, segment) ==
    LET calls == IF segment.tid \in Profiled
                 THEN EnumerateStacks(Saved(segment.tid), segment.start, segment.end)
                 ELSE << >>
    IN  FoldSet(LAMBDA i, acc : IncrementSample(acc,
                    ConcatenateStacks(Last(threads).cleanStack, calls[i].stackId),
                    calls[i].duration),
                samples, DOMAIN calls)

RunSamples(samples, threads, segment) ==
    LET calls == IF segment.tid \in Profiled
                 THEN EnumerateStacks(Saved(segment.tid), segment.start, segment.end)
                 ELSE << >>
        total == FoldSet(LAMBDA i, sum : sum + calls[i].duration, 0, DOMAIN calls)
        found == FoldSet(LAMBDA i, acc : IncrementSample(acc,
                             ConcatenateStacks(Last(threads).cleanStack, calls[i].stackId),
                             calls[i].duration),
                         samples, DOMAIN calls)
    IN  IF total >= Length(segment) THEN found
        ELSE IncrementSample(found, PushOnStack(Last(threads).cleanStack, "No stack"),
                             Length(segment) - total)

WaitSamples(samples, threads, segment) ==
    IncrementSample(samples, PushOnStack(Last(threads).stack, segment.type), Length(segment))

OtherSamples(samples, threads, segment) ==
    IncrementSample(samples, PushOnStack(Last(threads).cleanStack, segment.type),
                    Length(segment))

(* The wait for a disk is told by who else used it.  Each of them gets the *)
(* whole wait, its share only counts towards the end of the loop; a        *)
(* request of the thread itself ends the extraction.                       *)
DiskSamples(samples, threads, segment) ==
    LET requests == GetIntervals(segment.start, segment.end)
        onDisk   == PushOnStack(Last(threads).stack, segment.type)
        others   == {i \in DOMAIN requests : requests[i].tid # segment.tid}
        Lasted(i) == requests[i].high - requests[i].low
        total    == FoldSet(LAMBDA i, sum : sum + Lasted(i), 0, others)
        StackOfRequest(r) ==
            ConcatenateStacks(PushOnStack(onDisk, RequesterFrame[r.tid]),
                              StackAt(r.tid, r.low))
        Share(i, told) == Min({(Length(segment) * Lasted(i)) \div total,
                               Length(segment) - told})
        Tell(acc, i) ==
            IF acc.stopped \/ (i > 1 /\ acc.told >= Length(segment)) THEN acc
            ELSE IF i \notin others THEN [acc EXCEPT !.stopped = TRUE]
            ELSE [acc EXCEPT !.samples = IncrementSample(@, StackOfRequest(requests[i]),
                                                         Length(segment)),
                             !.told = @ + Share(i, acc.told)]
        end == FoldLeft(Tell, [samples |-> samples, told |-> 0, stopped |-> FALSE],
                        [i \in DOMAIN requests |-> i])
    IN  IF end.stopped THEN end
        ELSE [end EXCEPT !.samples =
                IncrementSample(@, onDisk, Length(segment) - end.told)]

RECURSIVE ExtractStacks(_, _, _)

(* The wait for a CPU is told by the paths of the threads that had it.     *)
CpuSamples(samples, threads, segment) ==
    LET waiting == PushOnStack(Last(threads).cleanStack, segment.type)
        cpu     == LastCpu(segment.tid, segment.start)
        ran     == IF cpu = Unknown THEN << >>
                   ELSE SelectSeq(RanOn(cpu, segment.start, segment.end),
                                  LAMBDA r : r.tid \notin IdleTids)
        total   == FoldLeft(LAMBDA sum, r : sum + Length(r), 0, ran)
        told    == FoldLeft(LAMBDA acc, r :
                              ExtractStacks(PathOf(r.start, r.end, r.tid), waiting, acc),
                            samples, ran)
    IN  IF Length(segment) > total
        THEN IncrementSample(told, waiting, Length(segment) - total)
        ELSE told

ExtractSegment(acc, segment, base) ==
    LET ensured == EnsureCurrentThreadIsOnThreadsStack(acc.threads, segment, base)
        waited  == StackOfWait(ensured, segment)
        type    == segment.type
        disk    == DiskSamples(acc.samples, waited, segment)
        samples ==
            CASE type = "kRun" -> RunSamples(acc.samples, ensured, segment)
              [] type \in {"kWaitBlocked", "kTimer", "kNetwork", "kUserInput"} ->
                   WaitSamples(acc.samples, waited, segment)
              [] type = "kBlockDevice" -> disk.samples
              [] type = "kWaitCpu" -> CpuSamples(acc.samples, ensured, segment)
              [] OTHER -> OtherSamples(acc.samples, ensured, segment)
    IN  IF acc.stopped THEN acc
        ELSE IF type = "kEpsilon" THEN [acc EXCEPT !.threads = ensured]
        ELSE [samples |-> samples,
              threads |-> SetTopStack(ensured, segment, segment.end),
              stopped |-> type = "kBlockDevice" /\ disk.stopped]

ExtractStacks(path, base, samples) ==
    FoldLeft(LAMBDA acc, segment : ExtractSegment(acc, segment, base),
             [samples |-> samples, threads |-> << >>, stopped |-> FALSE], path).samples

(* The samples of an execution with this path.                             *)
SamplesOf(path) == ExtractStacks(path, kEmptyStackId, [stackId \in {} |-> 0])

(* Empty segments count like the others.                                   *)
ExtractTimingMetrics(path) ==
    [type \in {path[i].type : i \in DOMAIN path} \ {"kEpsilon"} |->
       FoldLeft(LAMBDA sum, s : IF s.type = type THEN sum + Length(s) ELSE sum, 0, path)]

----------------------------------------------------------------------------
Of(types, path) == \E i \in DOMAIN path : path[i].type \in types

(* The executions of the last save: those on the part of the trace that is *)
(* not cleaned.                                                            *)
Extracted ==
    IF now < MaxTs THEN {}
    ELSE {path \in Paths : \A i \in DOMAIN path : path[i].start >= lastCleanupTs}

FrameOwner(function) == {tid \in DOMAIN ThreadFrame : ThreadFrame[tid] = function}

(* The thread that a sample is about: the innermost one in its stack.      *)
About(stackId, tid) ==
    LET frames == {i \in DOMAIN stackId : FrameOwner(stackId[i]) # {}}
    IN  frames # {} /\ tid \in FrameOwner(stackId[Max(frames)])

SampleTime(samples, tid) ==
    FoldSet(LAMBDA stackId, sum : sum + samples[stackId], 0,
            {stackId \in DOMAIN samples : About(stackId, tid)})

RECURSIVE TimeOf(_, _)

(* The time of a thread on a path, where the wait for a CPU is the time of *)
(* those that had it.                                                      *)
TimeOf(path, tid) ==
    LET Ran(s) == IF s.type # "kWaitCpu" \/ LastCpu(s.tid, s.start) = Unknown THEN << >>
                  ELSE SelectSeq(RanOn(LastCpu(s.tid, s.start), s.start, s.end),
                                 LAMBDA r : r.tid \notin IdleTids)
        Others(s) == FoldLeft(LAMBDA sum, r : sum + TimeOf(PathOf(r.start, r.end, r.tid), tid),
                              0, Ran(s))
        Own(s) == IF s.tid # tid THEN 0
                  ELSE Length(s) - FoldLeft(LAMBDA sum, r : sum + Length(r), 0, Ran(s))
    IN  FoldLeft(LAMBDA sum, s : IF s.type = "kEpsilon" THEN sum
                                 ELSE sum + Own(s) + Others(s), 0, path)

(* The samples of an execution account for each thread's part of the       *)
(* critical path, no more and no less, whatever of it the stacks cover,    *)
(* and so for its whole duration, as its metrics do (ExtractStacks.cpp:84- *)
(* 118, 170-213; ExtractMetrics.cpp:43-56).                                *)
SamplesConserve ==
    \A path \in Extracted :
        LET samples == SamplesOf(path)
            metrics == ExtractTimingMetrics(path)
        IN  ~Of({"kBlockDevice"}, path) =>
              /\ \A tid \in DOMAIN ThreadFrame : SampleTime(samples, tid) = TimeOf(path, tid)
              /\ FoldSet(LAMBDA id, sum : sum + samples[id], 0, DOMAIN samples)
                   = FoldSet(LAMBDA t, sum : sum + metrics[t], 0, DOMAIN metrics)

(* Every sample hangs under the thread of the execution, and a path that   *)
(* comes back to a thread leaves the threads that it waited for            *)
(* (ExtractStacks.cpp:319-358): in a stack no thread waits for itself.     *)
NoThreadTwice ==
    \A path \in Extracted :
        LET samples == SamplesOf(path)
        IN  ~Of({"kWaitCpu"}, path) =>
              \A id \in DOMAIN samples :
                /\ id[1] = ThreadFrame[path[1].tid]
                /\ \A i, j \in DOMAIN id :
                     id[i] = id[j] /\ FrameOwner(id[i]) # {} => i = j

(* "Extract the stacks that belong to the execution." (BuildBlock.cpp:164) *)
(* and "Find threads that waited for the disk at the same time as us."     *)
(* (ExtractStacks.cpp:134): the stacks of what a thread does after it      *)
(* waited for the disk belong to the execution too.                        *)
ExtractedAfterDisk ==
    \A path \in Extracted :
        \A tid \in DOMAIN ThreadFrame :
            SampleTime(SamplesOf(path), tid) >=
                TimeOf(SelectSeq(path, LAMBDA s : s.type # "kBlockDevice"), tid)

============================================================================
