---------------------------- MODULE StacksBlocks ----------------------------
(***************************************************************************)
(* ProfilerBlock (src/stacks_blocks/), which fills the stacks builder from *)
(* the events of the profiler, and BuildBlock, which ends the current      *)
(* stacks at each save and cleans them.                                    *)
(*                                                                         *)
(* The traced machine is external.  A thread is in a system call or not,   *)
(* and the profiler samples it outside of one only.  A long system call is *)
(* followed by a sample that tells where it was called from.  The tracer   *)
(* reports calls by an entry and an exit, or by one event at their end     *)
(* with their duration, and any of these events may be lost.               *)
(***************************************************************************)
EXTENDS StacksBuilder

CONSTANTS
    Profiled,       \* the profiled threads
    Samples,        \* the addresses of a sample, as symbols, innermost first
    Syscalls,       \* the names of system calls
    ProfilerFrames, \* the symbols of the profiler itself
    Unknown,        \* external: what a thread does is not known
    NoCall,         \* external: a thread is not in a system call
    SaveInterval,   \* kSaveInterval
    MaxTs,          \* bound: the last timestamp
    MaxEntries,     \* bound: the entries of a history
    MaxLost         \* bound: the lost events

ASSUME StacksTimeAssumption ==
    MaxTs \in Nat /\ SaveInterval \in Nat /\ MaxTs < TsModulus

(* A stack is a sequence of these.                                         *)
Symbols  == UNION {{s[i] : i \in DOMAIN s} : s \in Samples}
StackIds == Seq(Symbols \cup Syscalls \cup {"No Stack", "empty"})

(* The name of a system call begins with "sys:" (StacksBuilder.cpp:97),    *)
(* which the name of a function does not.                                  *)
ASSUME StacksNamesAssumption ==
    /\ Samples \subseteq Seq(Symbols)
    /\ Syscalls \cap (Symbols \cup {"No Stack", "empty"}) = {}
    /\ "No Stack" \notin Symbols

ASSUME StacksUnknownAssumption ==
    /\ Unknown \notin StackIds
    /\ NoCall \notin [since : Nat, name : Syscalls, reported : BOOLEAN,
                      from : StackIds \cup {Unknown}, until : Nat]

VARIABLES
    stacks,         \* _stacks: the history of each thread
    now,            \* _ts
    saveTs,         \* BuildBlock::_saveTs
    lastCleanupTs,  \* BuildBlock::_lastCleanupTs
    reports,        \* external: how the tracer reports system calls
    call,           \* external: the system call that a thread is in
    top,            \* external: the stack that a thread was last reported in
    line,           \* external: the reported stack at each past time
    owed,           \* external: the long call that a sample is due for
    lost            \* external: the number of lost events

timeVars    == <<now, saveTs, lastCleanupTs>>
machineVars == <<reports, call, top, line, owed, lost>>
vars        == <<stacks, timeVars, machineVars>>

Init ==
    /\ stacks = [tid \in Profiled |-> << >>]
    /\ now = 0 /\ saveTs = 0 /\ lastCleanupTs = 0
    /\ reports \in {"events", "latency"}
    /\ call = [tid \in Profiled |-> NoCall]
    /\ top = [tid \in Profiled |-> kEmptyStackId]
    /\ line = [tid \in Profiled |-> [u \in 0..MaxTs |-> kEmptyStackId]]
    /\ owed = [tid \in Profiled |-> NoCall]
    /\ lost = 0

----------------------------------------------------------------------------
(* BuildBlock::onTimestamp, as far as the stacks are concerned: a save     *)
(* ends the stacks where they are, then the old ones are cleaned.          *)

SaveIsDue(ts) == saveTs # 0 /\ ts > saveTs + SaveInterval

OnTimestamp(ts) ==
    /\ ts > now
    /\ now' = ts
    /\ saveTs' = IF saveTs = 0 \/ SaveIsDue(ts) THEN ts ELSE saveTs
    /\ lastCleanupTs' = IF SaveIsDue(ts) THEN saveTs ELSE lastCleanupTs
    /\ stacks' = [tid \in Profiled |->
                    IF SaveIsDue(ts) THEN Cleanup(Terminate(stacks[tid], ts), saveTs)
                    ELSE stacks[tid]]
    /\ line' = [tid \in Profiled |->
                  [u \in 0..MaxTs |-> IF u \in now..(ts - 1) THEN top[tid]
                                      ELSE line[tid][u]]]
    /\ UNCHANGED <<reports, call, top, owed, lost>>

----------------------------------------------------------------------------
(* ProfilerBlock.                                                          *)

(* The profiler's own functions are not part of the stack.                 *)
ReadStack(sample) ==
    FlattenSeq([i \in DOMAIN sample |->
                  IF sample[i] \in ProfilerFrames THEN << >> ELSE << sample[i] >>])

StackOf(sample) == GetStackIdentifier(ReadStack(sample))

SetHistory(tid, h) == stacks' = [stacks EXCEPT ![tid] = h]

OnOnCpuSample(tid, sample) ==
    /\ call[tid] = NoCall
    /\ SetHistory(tid, SetStack(stacks[tid], now, StackOf(sample), FALSE))
    /\ top' = [top EXCEPT ![tid] = StackOf(sample)]
    /\ owed' = [owed EXCEPT ![tid] = NoCall]
    /\ UNCHANGED <<timeVars, reports, call, line, lost>>

OnOffCpuSample(tid, sample) ==
    /\ call[tid] = NoCall /\ owed[tid] # NoCall
    /\ SetHistory(tid, SetLastSystemCallStack(stacks[tid], StackOf(sample)))
    /\ owed' = [owed EXCEPT ![tid] = NoCall]
    /\ UNCHANGED <<timeVars, reports, call, top, line, lost>>

OnSyscallEntry(tid, syscall) ==
    SetHistory(tid, StartSystemCall(stacks[tid], now, syscall))

OnSyscallExit(tid) == SetHistory(tid, EndSytemCall(stacks[tid], now))

(* The time is taken from the latency.                                     *)
MutOnSyscallLatency(tid, duration, syscall) ==
    SetHistory(tid, EndSytemCall(
        StartSystemCall(stacks[tid], Duration(now, duration), syscall), now))

(* Every system call that is reported at its end has the name "syscall".   *)
OnSyscallLatency(tid, duration, syscall) ==
    SetHistory(tid, EndSytemCall(
        StartSystemCall(stacks[tid], Duration(duration, now), syscall), now))

----------------------------------------------------------------------------
(* The traced machine: what it does, and what of it is reported.           *)

StackOfCall(syscall) == GetStackIdentifier(<< syscall >>)
NoStack == GetStackIdentifier(<< "No Stack" >>)

Called(tid, syscall, reported) ==
    [since |-> now, name |-> syscall, reported |-> reported,
     from |-> top[tid], until |-> now]

Enter(tid, syscall) ==
    /\ call[tid] = NoCall
    /\ owed' = [owed EXCEPT ![tid] = NoCall]
    /\ \/ /\ reports = "events"
          /\ OnSyscallEntry(tid, syscall)
          /\ call' = [call EXCEPT ![tid] = Called(tid, syscall, TRUE)]
          /\ top' = [top EXCEPT ![tid] = IF @ = Unknown THEN @ ELSE StackOfCall(syscall)]
          /\ UNCHANGED lost
       \/ /\ reports = "events" /\ lost < MaxLost
          /\ call' = [call EXCEPT ![tid] = Called(tid, syscall, FALSE)]
          /\ lost' = lost + 1
          /\ UNCHANGED <<stacks, top>>
       \/ /\ reports = "latency"
          /\ call' = [call EXCEPT ![tid] = Called(tid, syscall, FALSE)]
          /\ UNCHANGED <<stacks, top, lost>>
    /\ UNCHANGED <<timeVars, reports, line>>

(* Where a thread is after an exit that is reported.  The stack from which *)
(* a call was made is forgotten if the call is older than the cleaning.    *)
Back(c) ==
    IF ~c.reported \/ c.from = Unknown THEN Unknown
    ELSE IF c.from = kEmptyStackId \/ c.since < lastCleanupTs THEN NoStack
    ELSE c.from

Owed(c, reported) ==
    IF now - c.since < kMinSyscallDuration THEN NoCall
    ELSE [c EXCEPT !.until = now, !.reported = reported /\ c.from # Unknown]

Leave(tid) ==
    LET c == call[tid]
    IN  /\ c # NoCall
        /\ call' = [call EXCEPT ![tid] = NoCall]
        /\ \/ /\ reports = "events"
              /\ OnSyscallExit(tid)
              /\ top' = [top EXCEPT ![tid] = Back(c)]
              /\ owed' = [owed EXCEPT ![tid] = Owed(c, c.reported)]
              /\ UNCHANGED <<line, lost>>
           \/ /\ reports = "events" /\ lost < MaxLost
              /\ top' = [top EXCEPT ![tid] = IF c.reported THEN Unknown ELSE @]
              /\ owed' = [owed EXCEPT ![tid] = Owed(c, FALSE)]
              /\ lost' = lost + 1
              /\ UNCHANGED <<stacks, line>>
           \/ /\ reports = "latency"
              /\ OnSyscallLatency(tid, now - c.since, c.name)
              /\ line' = [line EXCEPT ![tid] =
                            [u \in 0..MaxTs |->
                               IF u \in c.since..(now - 1) THEN StackOfCall(c.name)
                               ELSE @[u]]]
              /\ top' = [top EXCEPT ![tid] = IF @ = kEmptyStackId THEN NoStack ELSE @]
              /\ owed' = [owed EXCEPT ![tid] = Owed(c, TRUE)]
              /\ UNCHANGED lost
           \/ /\ reports = "latency" /\ lost < MaxLost
              /\ owed' = [owed EXCEPT ![tid] = Owed(c, FALSE)]
              /\ lost' = lost + 1
              /\ UNCHANGED <<stacks, line, top>>
        /\ UNCHANGED <<timeVars, reports>>

Events ==
    \E tid \in Profiled :
        /\ \/ \E sample \in Samples : OnOnCpuSample(tid, sample)
           \/ \E sample \in Samples : OnOffCpuSample(tid, sample)
           \/ \E syscall \in Syscalls : Enter(tid, syscall)
           \/ Leave(tid)
        /\ Len(stacks'[tid]) <= MaxEntries

Next ==
    \/ saveTs # 0 /\ Events
    \/ \E ts \in 1..MaxTs : OnTimestamp(ts)

Spec == Init /\ [][Next]_vars

----------------------------------------------------------------------------
(* The types of the histories and of the program's times.                  *)
TypeOK ==
    /\ now \in Nat /\ saveTs \in Nat /\ lastCleanupTs \in Nat
    /\ stacks \in [Profiled -> Seq([stackId : StackIds, startTs : 0..MaxTs, endTs : 0..MaxTs,
                                    isSyscall : BOOLEAN, isResolved : BOOLEAN])]

(* The stacks of a thread as the extraction of a save would find them.     *)
Saved(tid) == Terminate(stacks[tid], now)

(* The times at which the tracer has told all that it will.                *)
Told(tid) ==
    lastCleanupTs..((IF reports = "latency" /\ call[tid] # NoCall THEN call[tid].since
                     ELSE now) - 1)

(* A stack shows what was reported, or a system call that was resolved.    *)
(* "No Stack" counts as a system call (StacksBuilder.cpp:104).             *)
Shows(stackId, reported) ==
    \/ stackId = reported
    \/ /\ reported # kEmptyStackId /\ stackId # kEmptyStackId
       /\ Len(reported) = 1 /\ reported[1] \in Syscalls \cup {"No Stack"}
       /\ Last(stackId) = reported[1]

(* A thread is found in the stack that it was last reported in, at every   *)
(* time since the last cleaning: however samples, system calls, saves in   *)
(* the middle of a call and back-dated calls are mixed (StacksBuilder.cpp  *)
(* :69-139, 210-228; ProfilerBlock.cpp:153-165).  After a lost event this  *)
(* is known again from the next sample on.                                 *)
FoundWhereReported ==
    \A tid \in Profiled : \A u \in Told(tid) :
        line[tid][u] # Unknown => Shows(GetStack(Saved(tid), u), line[tid][u])

(* Enumerating the stacks between two times (StacksBuilder.cpp:184-208)    *)
(* gives each stack as long as asking for each time finds it, and never a  *)
(* duration below zero, which would wrap.                                  *)
DurationsAgree ==
    \A tid \in Profiled : \A start \in lastCleanupTs..now : \A end \in start..now :
        LET h     == Saved(tid)
            calls == EnumerateStacks(h, start, end)
            Of(id)    == {i \in DOMAIN calls : calls[i].stackId = id}
            Found(id) == {u \in start..(end - 1) : GetStack(h, u) = id}
        IN  \A id \in {h[i].stackId : i \in DOMAIN h} :
              FoldSet(LAMBDA i, sum : sum + calls[i].duration, 0, Of(id))
                = Cardinality(Found(id))

(* The sample after a long system call (StacksBuilder.cpp:141-176) goes to *)
(* that call and to no other: if the call was reported, is still kept and  *)
(* is no longer ended than a call must be to be long, what the call shows  *)
(* becomes the sample with the call on top, and nothing else changes.      *)
SampleGoesToOwnCall ==
    \A tid \in Profiled : \A sample \in Samples :
        LET c    == owed[tid]
            h    == stacks[tid]
            own  == {i \in DOMAIN h : /\ h[i].startTs = c.since /\ h[i].endTs = c.until
                                      /\ h[i].stackId = StackOfCall(c.name)}
        IN  OnOffCpuSample(tid, sample) /\ c.reported
            /\ now - c.until < kMinSyscallDuration /\ own # {} =>
              \E i \in own : stacks'[tid] =
                [h EXCEPT ![i].stackId = StackOf(sample) \o StackOfCall(c.name),
                          ![i].isResolved = TRUE]

SampleOfOwnCall == [][SampleGoesToOwnCall]_vars

============================================================================
