---------------------------- MODULE StateBlocks ----------------------------
(***************************************************************************)
(* The blocks that fill the state history (src/state_blocks/), and         *)
(* BuildBlock, which cleans it.  StateHistoryBlock enters the attributes   *)
(* that the current-state tracker reports; PerfCountersBlock turns the     *)
(* hardware counters that come with events into one counter per thread.    *)
(*                                                                         *)
(* The traced machine is external: which thread runs on which CPU, what    *)
(* its counters count, and when it restarts a thread under an old tid.  No *)
(* event of it is lost here.  One performance counter stands for all: they *)
(* have keys of their own and never meet.                                  *)
(***************************************************************************)
EXTENDS StateHistory

CONSTANTS
    StateKeys,      \* keys of the attributes cur_cpu and cur_thread
    StateValues,    \* the values they take; the code writes 2^32 - 1 for none
    Threads,        \* the traced threads
    IdleThread,     \* tid 0: runs on every CPU that has nothing to run
    Cpus,
    UstThreads,     \* the threads that have userspace events
    ReusedTids,     \* the tids that the machine gives to a second thread
    SaveInterval,   \* kSaveInterval
    MaxTs,          \* bound: the last timestamp of the trace
    MaxCount,       \* bound: how far the hardware counts
    MaxEntries      \* bound: how many values of one attribute are kept

ASSUME UnknownAssumption == Unknown \notin StateValues
ASSUME IdleAssumption == IdleThread \notin Threads
ASSUME SubsetAssumption == UstThreads \subseteq Threads /\ ReusedTids \subseteq Threads
ASSUME CountAssumption == MaxCount \in Nat /\ MaxCount < kInvalid
ASSUME TimeAssumption == MaxTs \in Nat /\ SaveInterval \in Nat

Tids == Threads \cup {IdleThread}

VARIABLES
    now,                \* _ts
    saveTs,             \* BuildBlock::_saveTs
    lastCleanupTs,      \* BuildBlock::_lastCleanupTs
    uIntegerHistory,    \* _uIntegerHistory
    counters,           \* _uLongHistory and _perfCounterStates, per thread
    attribute,          \* external: the current state of the tracker
    running,            \* external: the thread on each CPU
    cpuCount,           \* external: what each CPU has counted
    threadCount,        \* external: what each thread has counted
    counted             \* external: what was counted on a tid since it has a history

historyVars == <<uIntegerHistory, counters>>
timeVars    == <<now, saveTs, lastCleanupTs>>
machineVars == <<attribute, running, cpuCount, threadCount, counted>>
vars        == <<historyVars, timeVars, machineVars>>

Init ==
    /\ now = 0 /\ saveTs = 0 /\ lastCleanupTs = 0
    /\ uIntegerHistory = [k \in StateKeys |-> << >>]
    /\ counters = [tid \in Tids |-> NewCounter]
    /\ attribute = [k \in StateKeys |-> Unknown]
    /\ running \in [Cpus -> Tids]
    /\ \A c1, c2 \in Cpus : running[c1] = running[c2] => c1 = c2 \/ running[c1] = IdleThread
    /\ cpuCount = [c \in Cpus |-> 0]
    /\ threadCount = [tid \in Threads |-> 0]
    /\ counted = [tid \in Threads |-> 0]

----------------------------------------------------------------------------
(* BuildBlock::onTimestamp, as far as the state history is concerned.      *)

SaveIsDue(ts) == saveTs # 0 /\ ts > saveTs + SaveInterval

OnTimestamp(ts) ==
    /\ ts >= now
    /\ now' = ts
    /\ saveTs' = IF saveTs = 0 \/ SaveIsDue(ts) THEN ts ELSE saveTs
    /\ IF SaveIsDue(ts)
       THEN /\ lastCleanupTs' = saveTs
            /\ uIntegerHistory' =
                 [k \in StateKeys |-> Cleanup(uIntegerHistory[k], saveTs)]
            /\ counters' =
                 [tid \in Tids |->
                    [counters[tid] EXCEPT !.history = Cleanup(@, saveTs)]]
       ELSE UNCHANGED <<lastCleanupTs, historyVars>>
    /\ UNCHANGED machineVars

----------------------------------------------------------------------------
(* StateHistoryBlock: the tracker has set an attribute, maybe to the value *)
(* that it had.                                                            *)

OnState(key, v) ==
    /\ attribute' = [attribute EXCEPT ![key] = v]
    /\ uIntegerHistory' =
         [uIntegerHistory EXCEPT ![key] = SetValue(@, now, v)]
    /\ UNCHANGED <<counters, timeVars, running, cpuCount, threadCount, counted>>

----------------------------------------------------------------------------
(* PerfCountersBlock.                                                      *)

(* The next thread is not based.                                           *)
MutOnSchedSwitchEvent(cpu, next) ==
    /\ running[cpu] # next
    /\ counters' =
         [counters EXCEPT ![running[cpu]] = SetPerfCounterCpuValue(@, now, cpuCount[cpu])]
    /\ running' = [running EXCEPT ![cpu] = next]
    /\ UNCHANGED <<uIntegerHistory, timeVars, attribute, cpuCount, threadCount, counted>>

OnSchedSwitchEvent(cpu, next) ==
    /\ running[cpu] # next
    /\ counters' =
         [counters EXCEPT
            ![running[cpu]] = SetPerfCounterCpuValue(@, now, cpuCount[cpu]),
            ![next] = SetPerfCounterCpuBaseValue(@, now, cpuCount[cpu])]
    /\ running' = [running EXCEPT ![cpu] = next]
    /\ UNCHANGED <<uIntegerHistory, timeVars, attribute, cpuCount, threadCount, counted>>

(* A wake-up by the thread that runs on the CPU.                           *)
OnTTWUEvent(cpu) ==
    /\ counters' =
         [counters EXCEPT ![running[cpu]] = SetPerfCounterCpuValue(@, now, cpuCount[cpu])]
    /\ UNCHANGED <<uIntegerHistory, timeVars, machineVars>>

OnUstEvent(tid) ==
    /\ counters' =
         [counters EXCEPT ![tid] = SetPerfCounterThreadValue(@, now, threadCount[tid])]
    /\ UNCHANGED <<uIntegerHistory, timeVars, machineVars>>

----------------------------------------------------------------------------
(* The traced machine.                                                     *)

IsRunning(tid) == \E cpu \in Cpus : running[cpu] = tid

(* The thread that runs on the CPU makes its counters go up.               *)
Count(cpu) ==
    LET tid == running[cpu]
    IN  /\ cpuCount[cpu] < MaxCount
        /\ tid # IdleThread => threadCount[tid] < MaxCount
        /\ cpuCount' = [cpuCount EXCEPT ![cpu] = @ + 1]
        /\ IF tid = IdleThread THEN UNCHANGED <<threadCount, counted>>
           ELSE /\ threadCount' = [threadCount EXCEPT ![tid] = @ + 1]
                /\ counted' = IF counters[tid].history = << >> THEN counted
                              ELSE [counted EXCEPT ![tid] = @ + 1]
        /\ UNCHANGED <<historyVars, timeVars, attribute, running>>

(* A thread has exited and a new one has its tid: it counts from zero.     *)
ReuseTid(tid) ==
    /\ ~IsRunning(tid) /\ threadCount[tid] # 0
    /\ threadCount' = [threadCount EXCEPT ![tid] = 0]
    /\ UNCHANGED <<historyVars, timeVars, attribute, running, cpuCount, counted>>

Machine ==
    \/ \E cpu \in Cpus : Count(cpu)
    \/ \E tid \in ReusedTids : ReuseTid(tid)

KernelEvents ==
    \E cpu \in Cpus :
        \/ OnTTWUEvent(cpu)
        \/ \E next \in Tids : (next = IdleThread \/ ~IsRunning(next))
                              /\ OnSchedSwitchEvent(cpu, next)

UstEvents == \E tid \in UstThreads : IsRunning(tid) /\ OnUstEvent(tid)

StateChanges ==
    \E key \in StateKeys, v \in StateValues :
        OnState(key, v) /\ Len(uIntegerHistory'[key]) <= MaxEntries

(* Every event comes after the notification of its timestamp.              *)
Next ==
    \/ Machine
    \/ saveTs # 0 /\ (KernelEvents \/ UstEvents \/ StateChanges)
    \/ \E ts \in 1..MaxTs : OnTimestamp(ts)

Spec == Init /\ [][Next]_vars

----------------------------------------------------------------------------
Entries(values) == Seq([ts : Nat, value : values])
ULongs == 0..kInvalid

(* The types of the histories and counters.                                *)
TypeOK ==
    /\ now \in Nat /\ saveTs \in Nat /\ lastCleanupTs \in Nat
    /\ uIntegerHistory \in [StateKeys -> Entries(StateValues)]
    /\ counters \in
         [Tids -> [history : Entries(ULongs),
                   state : [cpuAbsolute : ULongs, cpuReal : ULongs,
                            threadAbsolute : ULongs, threadReal : ULongs]]]

(* The value of every attribute over time, as the two queries answer it    *)
(* for the times that are still in the history.                            *)
Known(h) == [t \in 0..MaxTs |->
               IF t < lastCleanupTs THEN Unknown ELSE GetValue(h, t)]

UIntegers == INSTANCE TimedMap WITH
    Keys <- StateKeys, Values <- StateValues, horizon <- lastCleanupTs,
    current <- attribute,
    value <- [k \in StateKeys |-> Known(uIntegerHistory[k])]

ULongMap == INSTANCE TimedMap WITH
    Keys <- Tids, Values <- ULongs, horizon <- lastCleanupTs,
    current <- [tid \in Tids |-> Known(counters[tid].history)[MaxTs]],
    value <- [tid \in Tids |-> Known(counters[tid].history)]

(* The two histories implement the map over time, whatever writes at one   *)
(* timestamp and cleanups come between a write and the query (StateHistory *)
(* .cpp:52-57, 96-99): a query about a time from the last cleanup on has   *)
(* the answer that it had when that time was the present.                  *)
UIntegersKept == UIntegers!Spec
ULongsKept    == ULongMap!Spec

(* Enumerating the values between two times (StateHistory.cpp:111-143)     *)
(* agrees with asking for each time: the calls stay between the two times, *)
(* each time lies in one of them, which has its value, or in none if it    *)
(* has no value.                                                           *)
EnumerationAgrees ==
    \A key \in StateKeys : \A start \in lastCleanupTs..MaxTs : \A end \in start..MaxTs :
        LET h     == uIntegerHistory[key]
            calls == Enumerated(h, start, end)
            At(t) == {i \in DOMAIN calls : calls[i].start <= t /\ t < calls[i].end}
        IN  /\ \A i \in DOMAIN calls :
                  /\ start <= calls[i].start /\ calls[i].start <= calls[i].end
                  /\ calls[i].end <= end
            /\ \A t \in start..(end - 1) :
                  IF GetValue(h, t) = Unknown THEN At(t) = {}
                  ELSE \E i \in At(t) : At(t) = {i} /\ calls[i].value = GetValue(h, t)

Recorded(tid) == GetLastValue(counters[tid].history)

(* The counter of a thread never runs ahead of what the hardware counted   *)
(* on that tid, however scheduler events of several CPUs and userspace     *)
(* events of the thread are mixed (StateHistory.cpp:179-248): a metric is  *)
(* never charged with another thread's work.                               *)
NeverAhead == \A tid \in Threads : Recorded(tid) <= counted[tid]

(* The counter of a thread that only the scheduler tells of is exact as    *)
(* soon as the thread leaves the CPU.                                      *)
ExactOffCpu ==
    \A tid \in Threads :
        counters[tid].state.threadAbsolute = kInvalid /\ ~IsRunning(tid) =>
            Recorded(tid) = counted[tid]

(* A counter never goes back, so that the difference between two answers   *)
(* is a count (ExtractMetrics.cpp:98).                                     *)
NeverBack == [][\A tid \in Threads : Recorded(tid)' >= Recorded(tid)]_vars

(* "Compute the minimum value that the thread perf counter must have now." *)
(* (StateHistory.cpp:234): what the next value of a thread would make its  *)
(* counter at least is no more than what was counted on the tid, also when *)
(* the tid was given to a second thread.                                   *)
MinimumOfThread ==
    \A tid \in Threads :
        LET s == counters[tid].state
        IN  s.threadAbsolute # kInvalid =>
              MinReal(s.threadReal, s.threadAbsolute, threadCount[tid]) <= counted[tid]

============================================================================
