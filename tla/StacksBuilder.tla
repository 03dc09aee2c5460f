--------------------------- MODULE StacksBuilder ---------------------------
(***************************************************************************)
(* src/stacks/StacksBuilder.{hpp,cpp}.  The stacks of a thread over time   *)
(* are a sequence of wrappers, oldest first; a method is an operator on    *)
(* the sequence of its thread.  An interned stack is the sequence of its   *)
(* functions, outermost first: what the identifier stands for (Database    *)
(* shows that a stack has one identifier and an identifier one stack).     *)
(***************************************************************************)
EXTENDS Integers, SequencesExt

CONSTANTS
    kMinSyscallDuration,  \* from this duration a system call is long
    kMaxRewind,           \* how far back a long system call is looked for
    TsModulus             \* 2^64: durations are unsigned

ASSUME SyscallAssumption ==
    /\ kMinSyscallDuration \in Nat
    /\ kMaxRewind \in Nat \ {0}
    /\ TsModulus \in Nat \ {0}

kEmptyStackId == << >>

StackWrapper(stackId, ts, isSyscall) ==
    [stackId |-> stackId, startTs |-> ts, endTs |-> ts,
     isSyscall |-> isSyscall, isResolved |-> FALSE]

(* The innermost function comes first in a sample.                         *)
GetStackIdentifier(frames) ==
    IF frames = << >> THEN << "empty" >> ELSE Reverse(frames)

Duration(from, to) == (to - from) % TsModulus

----------------------------------------------------------------------------
(* The previous stack is not ended.                                        *)
MutSetStack(h, ts, stackId, isSyscall) ==
    IF h # << >> /\ Last(h).stackId = stackId THEN h
    ELSE Append(h, StackWrapper(stackId, ts, isSyscall))

(* The previous stack ends now; one that does not change goes on, and      *)
(* stays the system call, or not, that it was.                             *)
SetStack(h, ts, stackId, isSyscall) ==
    LET ended == IF h = << >> THEN h ELSE [h EXCEPT ![Len(h)].endTs = ts]
    IN  IF h # << >> /\ Last(h).stackId = stackId THEN ended
        ELSE Append(ended, StackWrapper(stackId, ts, isSyscall))

SetNoStack(h, ts) == SetStack(h, ts, GetStackIdentifier(<< "No Stack" >>), TRUE)

StartSystemCall(h, ts, syscall) ==
    SetStack(h, ts, GetStackIdentifier(<< syscall >>), TRUE)

(* EndSytemCall (sic) goes back to the stack before the system call.       *)
EndSytemCall(h, ts) ==
    IF h = << >> \/ ~Last(h).isSyscall THEN h
    ELSE IF Len(h) = 1 THEN SetNoStack(h, ts)
    ELSE SetStack(h, ts, h[Len(h) - 1].stackId, FALSE)

(* Any system call will do.                                                *)
MutLongSystemCalls(h) ==
    {i \in DOMAIN h : i > Len(h) - kMaxRewind /\ h[i].isSyscall}

(* The long system calls among the last kMaxRewind stacks.                 *)
LongSystemCalls(h) ==
    {i \in DOMAIN h : /\ i > Len(h) - kMaxRewind
                      /\ h[i].isSyscall
                      /\ Duration(h[i].startTs, h[i].endTs) >= kMinSyscallDuration}

(* The last of them gets the stack that it was called from, once.          *)
SetLastSystemCallStack(h, stackId) ==
    LET last == Max(LongSystemCalls(h))
    IN  IF LongSystemCalls(h) = {} \/ h[last].isResolved THEN h
        ELSE [h EXCEPT ![last].stackId = Append(stackId, Last(@)),
                       ![last].isResolved = TRUE]

Terminate(h, ts) == IF h = << >> THEN h ELSE [h EXCEPT ![Len(h)].endTs = ts]

----------------------------------------------------------------------------
(* Queries.  The entries in front of std::lower_bound and std::upper_bound *)
(* by start; the sequence must be in the order of the starts for these to  *)
(* be what a binary search finds.                                          *)
Before(h, ts) == {i \in DOMAIN h : h[i].startTs < ts}
UpTo(h, ts)   == {i \in DOMAIN h : h[i].startTs <= ts}

Cleanup(h, ts) ==
    IF Before(h, ts) = {} THEN h ELSE SubSeq(h, Max(Before(h, ts)), Len(h))

(* The search does not step back.                                          *)
MutFirstShown(h, start) ==
    IF Before(h, start) = {} THEN 1 ELSE Max(Before(h, start)) + 1

FirstShown(h, start) == IF Before(h, start) = {} THEN 1 ELSE Max(Before(h, start))

(* The calls of the callback, by the entry that each is about.             *)
EnumerateStacks(h, start, end) ==
    LET first == FirstShown(h, start)
        shown == {i \in first..Len(h) : \A j \in first..i : h[j].startTs <= end}
    IN  [i \in shown |-> [stackId  |-> h[i].stackId,
                          duration |-> Duration(Max({start, h[i].startTs}),
                                                Min({end, h[i].endTs}))]]

Covers(entry, ts) == entry.startTs <= ts /\ entry.endTs > ts

GetStack(h, ts) ==
    LET it == IF UpTo(h, ts) = {} THEN 1 ELSE Max(UpTo(h, ts))
    IN  IF h # << >> /\ Covers(h[it], ts) THEN h[it].stackId ELSE kEmptyStackId

============================================================================
