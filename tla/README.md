# TLA+ verification of tibeecompare

tibeecompare reads an LTTng trace of a Linux kernel, finds the *executions* of
interest in it, computes for each one its critical path (what the thread, or
the threads that it waited for, did meanwhile) with call stacks and metrics,
stores them in a LevelDB database, and writes reports that compare two sets of
executions. The build program is one thread: the trace reader sends a
notification for every event, and the blocks that observe it run to their end,
one after the other, before the next. What makes it hard is not parallelism
inside the program but that it follows the parallelism of the *traced* machine:
events of several CPUs and threads in any order, traces that begin late or have
lost events, several events at one timestamp, and a cleanup that, every twelve
seconds of trace, deletes the old part of the tables that all blocks share.

Paths below are relative to `src/src/`.

## Inventory

| Part | State | Operations | Used by | What makes it correct |
|---|---|---|---|---|
| Critical graph, `critical/CriticalGraph` | per thread a vector of nodes; edges by id; the time | create node / horizontal edge / vertical edge; last node; node at a time, node after a time; Cleanup | CriticalBlock writes, ComputeCriticalPath reads, BuildBlock sets the time and cleans | ids in nodes resolve, edges hang on live nodes, history sorted, edges join neighbours, queries find what is there, Cleanup deletes exactly the old |
| Critical block, `critical_blocks/CriticalBlock` | stack of interrupt contexts per CPU; type of each thread's next edge; packets in flight; jbd2 threads | a handler per event: wake-up, softirq, irq, hrtimer entry and exit, packet in and out, thread status, thread name | the graph, the disk requests; the current-state tracker | each packet claimed once, hops have a sender, edge types follow the status, nothing freed is used |
| Disk requests, `disk/DiskRequests` over `containers/RedBlackIntervalTree` | the time; intervals with a thread | AddInterval, EnumerateIntervals, Cleanup | CriticalBlock adds, BuildBlock queries and cleans | requests nest; the search finds what intersects |
| Critical path, `critical/ComputeCriticalPath` | none (a recursive function) | path of a thread between two times | BuildBlock at save | segments contiguous and inside the interval, terminates |
| Stacks builder, `stacks/StacksBuilder` and `stacks_blocks/ProfilerBlock` | per thread a list of stacks over time, syscall state | SetStack, SetNoStack, start and end of a syscall, Cleanup, enumeration | ProfilerBlock writes, ExtractStacks reads | stacks sorted and without gap, restored after a syscall |
| State history, `state/StateHistory` and `state_blocks/` | per attribute a list of (time, value); state of the counters | set, get, enumerate, Cleanup, three counter helpers | state blocks write, ExtractMetrics reads | a query answers the last value set at or before its time; counters never decrease |
| Executions builder, `execution/ExecutionsBuilder`, `execution_blocks/` | active execution per thread; the finished ones | start, end, enumerate, Cleanup | PunchBlock and SpecialBlock, BuildBlock | each execution saved once, or dropped for being too old |
| Build block, `build_blocks/BuildBlock` | the save time and the cleanup time | time notification, end of trace, SaveExecutions | owns all of the above | nothing needed later is cleaned |
| Extraction, `execution/ExtractStacks`, `ExtractMetrics` | none | samples per stack and metrics of one execution | BuildBlock | durations add up to that of the path |
| Database, `db/Database` | LevelDB; id counters and caches of interned stacks and functions | add and read stacks, function names, executions | StacksBuilder, BuildBlock, report | an id is never given twice; what is read is what was written |
| Report, `report/`, `base/JsonWriter` | a stack of open JSON sections; the stacks that were reversed | write executions, write stacks | `report/main` | sections balanced |
| Symbols, `symbols/` | symbol table of an ELF image | load, look up | ProfilerBlock | - |
| Programs, `build/main`, `build/TibeeBuild`, `report/main` | options | wiring | - | - |

Interactions. `TibeeBuild` registers the blocks; each asks the service list for
the shared tables that `BuildBlock` owns. The time of a trace event reaches
`BuildBlock::onTimestamp` before the event reaches its observers, so every
handler sees the tables at the time of its event, and a cleanup happens between
two events, never inside a handler. `CriticalBlock` keeps `CriticalNode`
pointers across notifications, and so across cleanups.

Everything that lasts longer than a run of the build is in the database, where the build may
be stopped between any two writes.

Hard behaviours, each listed with its line under `hazards` in `PROJECT.json`:
order of events of several CPUs and threads, several events at one time, lost
entries and exits, threads that appear late or whose status the tracker does
not know, everything that refers to something which a cleanup deletes, system calls that are
told about at their end, and a build that is stopped and run again.

## What is modelled

| Module | Models | State and actions |
|---|---|---|
| `CriticalGraph` | `critical/CriticalGraph`, `CriticalNode`, `CriticalEdge` | A graph is a value; each method is an operator from graph to graph, since one handler calls several. A node pointer is the node's creation number, never reused, so that a dangling pointer is told from a valid one. The vector of a thread is the set of its live nodes in the order of these numbers. |
| `CriticalBlock` | `critical_blocks/CriticalBlock` | One variable per member, one action per handler. A handler that only reports (exit without entry, packet out of an interrupt) changes nothing and is not an action. The thread of a CPU and the new status of a thread come from the external tracker: any value, any time. |
| `CriticalBuild` | `build_blocks/BuildBlock::onTimestamp`, and the cleanup of the disk requests | `OnTimestamp(ts)` sets the clock, and when a save is due cleans the graph and the requests. Composes the two modules above into `Spec` and states the properties. |
| `CleanupLoop` | the loop of `CriticalGraph::Cleanup` | `Cleanup` of `CriticalGraph` says at once which nodes and edges go. Here the loop is written as the code runs it, thread by thread in the order of a hash table, slot by slot, and compared with it. |
| `CriticalPath` | `critical/ComputeCriticalPath`, and which paths `BuildBlock::SaveExecutions` asks for | The code passes a path along and inserts segments into it. Here a call is the sequence of the segments that it inserts, and the path is what inserting all of them makes. A call, and each round of a loop, is one step of a recursive function (`Computed`). One that would need more than `MaxSteps` inserts the mark `Endless`, one that reads a deleted node the mark `Undefined`. |
| `IntervalTree` | `containers/RedBlackIntervalTree.hpp` | A node is a record that holds its children; insertion, rotations and the search are recursive operators from tree to tree. |
| `DiskRequests` | `disk/DiskRequests` on `IntervalTree`, as `BuildBlock` and `CriticalBlock` use it | The tree, the time and the last cleanup; actions `AddInterval`, `Cleanup`, `Tick`. |
| `RequestBag` | what the disk requests promise | A bag of requests; a cleanup takes those that ended before its time, and none that goes on after it. What becomes of those that end just then is open: comments and code differ, see below. `CriticalBlock` and `CriticalBuild` keep such a bag, with the cleanup of the code. |
| `StacksBuilder` | `stacks/StacksBuilder` | Operators on the history of one thread, a sequence of entries. A stack is the sequence of its frames, bottom first; the identifier that the database gives it is in `Saves`. |
| `StacksBlocks` | `stacks_blocks/ProfilerBlock` and the blocks that feed it, `BuildBlock::onTimestamp` for the stacks | One action per handler, composed with an external profiled machine: what a thread was last seen in, which system call it is in, which events were lost. |
| `ExtractStacks` | `execution/ExtractStacks`, and the timing metrics of `ExtractMetrics` | Recursive operators over the segments of a path, from the histories of `StacksBlocks`. Who preempted a thread and who used the disk are constants. |
| `Database` | `db/Database` | The store is a record with a field per key type, a method an operator. An execution is put as a buffer of numbers and read back from it. |
| `Interning` | what the identifiers of names and stacks promise | Values in the order of their identifiers; one more may be added, a crash takes back the last ones. |
| `Executions` | `execution/ExecutionsBuilder` | The builder is a record, a method an operator. |
| `Saves` | `BuildBlock::onTimestamp`, `onEnd` and `SaveExecutions`, `PunchBlock`, and the order of the calls of the database | The trace, the state of a build, the store and what of it is on the disk. One call of the database is one step. Crashes, reruns and reports are actions outside the program. |
| `JsonWriter` | `base/JsonWriter` | The writer is its open sections and its output, a sequence of tokens; `ReadAll` reads it back. |
| `Report` | `report/WriteExecutions`, `WriteStacks`, `TibeeReport::run` | Operators from the store to the output; extends `Saves`, of which it reads every state that is reached. |
| `TimedMap` | what `state/StateHistory` promises | The value of every attribute at every time from a horizon on; a write holds from now on, a cleanup moves the horizon. |
| `StateHistory` | `state/StateHistory` | Operators on the history of one key (a sequence of entries) and on a counter (a history and its `PerfCounterState`). 64-bit arithmetic is modulo `ULongModulus`. |
| `StateBlocks` | `state_blocks/`, and `BuildBlock::onTimestamp` for the state history | One action per handler, composed with an external traced machine: what runs where, what the CPUs count, tids that are reused. |
| `PathTests`, `UnitTests` | the unit tests of `critical/`, and those of the database, executions, stacks, intervals and state | Each test is a formula over the operators of the models that it tests; the modules assume them, so TLC evaluates them before the run `interrupts`. They tie the models to what the repository itself expects of the code. |
| `MCCriticalBuild`, `MCInterrupts`, `MCStateBlocks`, `MCStacks`, `MCDiskRequests`, `MCSaves` | - | Constants for TLC. |
| `Maps` | `operator[]` of a map, for `Database` and `Executions` | One operator. |
| `CriticalGraph_proofs`, `CriticalBuild_proofs`, `CleanupLoop_proofs`, `CriticalPath_proofs`, `StateBlocks_proofs`, `Stacks_proofs`, `Saves_proofs` | - | Theorems and proofs. |
| `DataInduction` | - | Induction over numbers, finite sets and sequences, as far as the proofs need it. |

Undefined behaviour: writing through a pointer to a deleted node sets
`memory = "corrupt"`, after which the model stops and claims nothing.
Definitions named `Mut...` are slips of the operator that follows them; they
document which property notices which mistake and are used by no specification.

Three refinements relate a component to what it promises. The two histories of
`StateBlocks`, through `GetValue`, implement `TimedMap`. The interval tree of `DiskRequests`,
through its own search, implements `RequestBag`, so that the critical block may be modelled
with a bag. The identifiers of the store in `Saves` implement `Interning`, over crashes and reruns.

### Crashes

The program writes to LevelDB without sync (`Database.cpp:337` and the like). So `Saves`
has two stores: `db`, which the program sees, and `durable`, what the disk has. `Sync` may happen at any
time and makes them equal. `Crash` stops the build anywhere; if only the program
stopped, all writes survive, and if the machine did, those since the last `Sync` are lost. LevelDB
keeps the order of writes and applies a batch whole, so a prefix is lost or nothing is.
Nothing tells a stopped database from a finished one, and nothing of the state of a build is stored:
`Rerun` reads the same trace from its start into the database that is there.

## Runs

Deadlock is not checked, because a trace ends (and because the bounds end it).

| Run | Instance | Shows |
|---|---|---|
| `paths` | 2 threads, 6 nodes, 3 timestamps, no cleanup | `VerticalSimultaneous`, `IntersectingComplete`, `PathContiguous`, `PathHonest`, `PathBlamesWaker`, `PathEnds` |
| `network` | 1 thread that waits, 1 packet, softirq NET_RX, 7 nodes, 3 timestamps, save interval 0 | `TypeOK`, `SlotsResolve`, `EdgesAnchored`, `ThreadEdgesAdjacent`, `HopHasSender`, `PacketHeldOnce`, `CleanupOrderFree`, `PathContiguous`, `CleanupForgetsOnlyOld` |
| `interrupts` | 2 threads (one jbd2), block, user-input and timer interrupts, exits, 3 nodes, save interval 1; before it the unit tests | `TypeFollowsStatus`, `RequestsNested` |
| `state_over_time` | 1 attribute with 2 values, the counter of 1 thread on 1 CPU, 4 timestamps, save interval 0, tid reused | `TypeOK`, `EnumerationAgrees`, `UIntegersKept`, `ULongsKept` |
| `counters` | 1 thread and the idle thread, 2 CPUs that each count to 3, userspace events | `NeverAhead`, `ExactOffCpu`, `NeverBack` |
| `stacks` | 1 profiled thread, 2 stacks, 1 system call, 5 timestamps, 4 entries, 1 lost event, save interval 0 | `TypeOK`, `FoundWhereReported`, `DurationsAgree`, `SampleOfOwnCall`, `SamplesConserve`, `NoThreadTwice` |
| `tree` | 5 requests over 5 timestamps, cleanups | `TreeOK`, `FindsRequests`, `IsRequestBag` |
| `saves` | 2 threads, both analyzed, traces of up to 4 events, or 3 where a build is stopped, save interval 1, 1 crash, 1 report | `TypeOK`, `ReferencesResolve`, `StoredIsReal`, `ShortExecutionsStored`, `ReportComplete`, `EndedIsStored`, `IdentifiersAreInterned` |
| `freed_node` | 1 thread, 1 packet, 6 nodes | `NoUseAfterFree` is violated |
| `path_duration` | 2 threads, 7 nodes, 4 timestamps | `PathDuration` is violated |
| `reused_tid` | as `counters`, with reused tids | `MinimumOfThread` is violated |
| `disk_wait` | as `stacks`, 4 timestamps, with a disk request of the thread itself | `ExtractedAfterDisk` is violated |

### Fairness

`EndedIsStored` is the one liveness property: a short execution that has ended is stored some time later,
unless the build is stopped. `Saves` assumes weak fairness of `Build`, the steps of the
program. This is what a single thread gives that reads a finite file and waits for nobody: while it can
take a step, it takes one. No step outside the program is fair: nobody need run the build again, the
writes need not reach the disk, and no report need be asked for. All other specifications state none; they do only what the
trace makes them do, and their properties are of safety.

### Bounds

`MaxNodes` limits how many nodes a trace creates, `MaxTs` the
times, `MaxDepth` the nesting of interrupts, `MaxSameRequests` how often one
disk request repeats; all are guards in `Bounded`. A save interval of 0 makes
a cleanup due at every advance of the time, the most adverse setting, as three
timestamps then give two cleanups; where older nodes must stay, as for disk requests
and for paths over several timestamps, it is 1 or beyond the trace. Six nodes are enough for two
threads that are first seen (two nodes) and then wake each other (two nodes each time),
the shortest history that can send the recursion of the critical path to and fro. `MaxSteps` 20 is more than
any path needs in a graph of six nodes unless it goes on for ever, as `PathEnds` shows, and 16 for those of one thread; seven nodes are needed
for a departure (2 nodes and the cut), two wake-ups in one interrupt (2 nodes each)
and the cleanup that deletes the departure. One CPU suffices for most
properties since the code keeps CPUs apart except through the threads, which
any CPU may name; the theorems hold for every number of CPUs.

In `StateBlocks` the history of a key grows by at most one entry per change, and
`MaxTs` of 4 with `MaxEntries` 3 gives several entries at one time, entries on
both sides of a cleanup and two cleanups in a row; keys never meet, so one is
enough. `MaxCount` 3 makes a CPU count before, between and after two runs of a
thread; two CPUs are the fewest whose counters can be confused, and the idle
thread stands for every other thread. `ULongModulus` 8 leaves room for all sums
of two counts (at most 6), so that only a wrap of the code's own making wraps in the model.
`CountAssumption` says that no counter reaches the sentinel 2^64 - 1.

In `StacksBlocks` threads do not meet either. A call that lasts `kMinSyscallDuration` = 2, with a sample
before and one after, takes four timestamps; the fifth puts a save in the middle. `MaxEntries` 4 is one more
than `kMaxRewind`, 3 here and 20 in the code, so that a call can lie out of reach.
`TsModulus` 16 is beyond every sum of times. The paths along which samples are extracted are three
shapes that name every type of segment, shifted over time: a thread that waits for another, one that
is preempted with another thread's path on its CPU, one that is interrupted and blocked (`MCStacks`).

In `DiskRequests` five requests, from among those of five timestamps, in every order take the insertion through each of
its rotations and the colour flip, two levels below the root. The first
request ends at time 4, when requests of every length are possible.

In `Saves` four events are the fewest that two executions take, one after the other or one within the time of the other, on two
threads or on one. Three, `MaxStoppedEvents`, are the fewest that begin an execution, end it and make a save due after it, or put a save between begin and
end: with these the build may be stopped, and writes may reach the disk one by one. Steps of 0 or 1 against an interval of 1 make
saves due or not, and a first time of 0 or 1 both
values that the code treats apart. To store one execution takes up to nine calls of the database, any two of
which a crash may part; a second crash would meet a store that the first one could have left. The stacks of the two threads lie on
one that they share, so that a report finds stacks that an earlier execution has met, and adds others to the same bottom.
The one report is asked for a name that the database lacks, so that it adds one.
The unit test of the interval tree inserts 100 intervals; `InsertManyElementsTest` inserts 40,
which TLC's stack admits.

### What the runs show

`UIntegersKept` and `ULongsKept` say that the two histories, seen through
`GetValue` at every time since the last cleanup, implement `TimedMap`, whose
current value is that of the tracker: a write that the code drops, a cleanup
that cuts too much, or a query that finds the wrong neighbour break it.

The four properties of `CriticalPath` hold of every path between two times of
the trace for which the code ends: whoever it is led to, the path has no
gap, says nothing that the graph does not say, and never shows a wait whose waker
is known. They ask that no tid begins again after its end (`Unbroken`): what comes
before the gap in its history and what comes after do not meet. With packets a segment may also begin before
the last one ended, or before the path does, and the last may end after it: the way of a packet is told whole, though it left before
its receiver began to wait, or arrives at the end of the path or later (`ComputeCriticalPath.cpp:104` and `196`). `PathEnds` says what makes the recursion end: the times of the wake-ups. Only if
two threads wake each other at one and the same time can each be explained by
the other, for ever.

`FoundWhereReported` compares the stacks builder with what the tracer told, at every time since the last cleaning: a call
that is back-dated, whose begin or end was lost, or that a save cuts in two, leaves no wrong stack behind
it beyond the next sample. `DurationsAgree` ties the two ways of asking together, and `SampleOfOwnCall` says that a
sample after a long call is given to that call. `SamplesConserve` says that the samples of an execution add up to
its critical path, and `NoThreadTwice` that a thread stands in a stack at most once.

`ReferencesResolve` holds of both stores in every state: the code writes a name before the stack that
has it, a stack before those that lie on it, and all before the execution. With `StoredIsReal` this says that no crash and no
rerun leaves an execution that a reader gets wrong. `ShortExecutionsStored` says what the skip of old executions may not cost: an
execution that lasts at most the save interval began after the last cleanup, wherever the saves fall. Longer ones may be
skipped, and are, by design. `ReportComplete` reads the written JSON back: it is well formed, each stack that the samples need is there
once below its bottom, and the samples of each execution add up, as if it were alone, though the map of the stacks is shared by all
executions of the report, and they are told in the order of their starts, not in that in which they ended.

`FindsRequests` and `IsRequestBag` say that the tree, however it was turned, neither loses nor invents a request. Both leave open what
becomes of a request that ends just where a search begins, or at the time of a cleanup (see the observations).

What the violated properties show.

* `freed_node`: a thread sends a packet, two saves pass, the packet arrives and
  wakes the thread. The packet table still has the node of the departure that the
  cleanup deleted (`CriticalBlock.cpp:318`).
* `path_duration`: a wait is traced to a waker that has no node yet at the start
  of the path; the segment made up for it goes on to its first node, past the end
  of the path (`ComputeCriticalPath.cpp:182-185`), so the path lasts longer than the execution.
* `reused_tid`: the userspace counter of a second thread with the same tid begins
  below the last value of the first, and the unsigned difference wraps, where the
  CPU counters are tested for this (`StateHistory.cpp:235` and `194`).
* `disk_wait`: a thread waits for its own disk request. The search for threads that used the disk
  meanwhile finds the thread itself, and the extraction returns instead of going on
  to the next segment (`ExtractStacks.cpp:147`).

Observations that no run states, met while reading:

* The edge that spans the cleanup time is deleted with the node at its start, so a thread has no node at times that the
  graph should still answer for, and the critical path concludes that
  it did not exist (`CriticalGraph.cpp:67`, `ComputeCriticalPath.cpp:146`).
* "No status" and "unknown status" have the same edge type: a thread of unknown status that exits is taken for one that did
  not change and is not forgotten (`CriticalBlock.cpp:373`, comment at 393).
* The key of an execution is its name and start (`Database.cpp:537-540`): of two that begin at one time one is
  lost, though both are counted (`BuildBlock.cpp:137`).
* "No Stack" is set as a system call (`StacksBuilder.cpp:104`), and may be given the sample of one.
* After a cleanup during a long call, only the entry of the call is left, and its end goes back to no stack (`StacksBuilder.cpp:129`).
* A search leaves out an interval that ends just where the search begins, unless another of the same start goes on: its node, or the
  subtree, is entered only if the greatest upper bound is strictly after (`RedBlackIntervalTree.hpp:279` and `293`), though an element is then compared
  with `<` (`296`). The comments say otherwise: "Enumerate all the intervals that intersect with [interval.low(), interval.high()]"
  (`RedBlackIntervalTree.hpp:56-57`), "The 2 bounds of the interval are included in it" (`Interval.hpp:28`). So a cleanup, which "Removes everything
  that is before the specified timestamp" (`DiskRequests.hpp:43`), may also take a request that ended at that timestamp.
* A wait for the disk gives each thread that used it the whole wait (`ExtractStacks.cpp:161`); `SamplesConserve` leaves such paths out.
* `EscapeString` writes bytes as `\x..`, which JSON does not have; `TibeeReport` does not look at the result of `Open`.

## What is proved

Each theorem is of the form `Spec => []P` or `Spec => P`, for any values of the constants that meet the named assumptions of the
modules, any bounds included. Each rests on an inductive invariant of its component, which TLC
checked on the instances of the runs before it was proved.

### The critical-path half

`CriticalBuild_proofs`: `TypeOK`, `SlotsResolve`, `EdgesAnchored`, `HistoryOrdered`, `ThreadEdgesAdjacent`,
`VerticalSimultaneous`, `HopHasSender`, and `CleanupForgetsOnlyOld`; `TypeFollowsStatus`,
`IntersectingComplete`, `RequestsNested` and `PacketHeldOnce`. For any sets of threads, CPUs and packets, and any save interval.

The inductive invariant `IInv` is `TypeOK /\ GraphSound(graph) /\ HeldSound`.
`GraphSound` joins the graph properties: none
is inductive alone. That an edge still hangs on its nodes after a
cleanup needs that every slot resolves to an edge that has the node at that
end; that a thread edge joins neighbours after a cut needs that the last node has the
greatest number and time; that a vertical edge loses both ends or none
needs that they are simultaneous. `HeldSound` says that every node number in the packet
table or in an interrupt context was given out, and is that of a packet node if it is
live: without it the hop of a wake-up could start anywhere.
`CriticalGraph_proofs` has the lemmas on graph operators (`CreateEdgeSound`, `CutSound`,
`CleanupSound`, ...), each about any sound graph.

The tables beside the graph need more, and one lemma on the graph serves them: within a notification the graph is only
`Extended`, by nodes of the present time, and no node of a packet gets a hop but the one of the innermost interrupt.
`RequestsOK` strengthens `RequestsNested`: a request of a thread ends before the thread's last node or begins with it, so
whatever begins at the last node is nested; a cleanup takes all nodes of a thread or leaves the last (`CleanupLast`).
`HeldApart` strengthens `PacketHeldOnce`: no node is in two entries of the table, in an entry and a context, or in two contexts
anywhere on their stacks. A node that enters the table is new, by `HeldSound`, and one that enters a context leaves the table.
`IntersectingComplete` follows from `GraphSound` alone; `TypeFollowsStatus` is inductive with `TypeOK`.

### The loop of the cleanup

`CleanupLoop_proofs`: `CleanupOrderFree`, for any finite number of threads (`Cleanup` is one step of `CriticalBuild`, whatever
the order of the hash table). `Swept` says what the graph is when some slots have been swept and some nodes deleted: an edge is gone
if it was in one of these slots, and a slot that was not swept is cleared if the other end of its edge was. Each slot, node and
thread sweeps a little more (`EraseSlotSweeps`, `EraseNodeSweeps`, `ThreadSweeps`), and when all old nodes are swept the graph is that
of `Cleanup` (`SweptIsClean`). The order of nodes within a thread matters: an edge between two nodes of packets hangs in the one slot of
the later node only, and if that were swept first, the slot of the earlier one would be cleared although it holds another edge
(`InTurn`, `HitHolds`).

### The critical path

`CriticalPath_proofs`: `PathContiguous`, `PathHonest` and `PathBlamesWaker`, for any graph that a build reaches, any number of threads
that the path leads through, and any `MaxSteps`. The hypotheses are those of the properties (`IsPath`): no tid that was used
again, packets of which the graph has the departure, and a computation that ends and reads no deleted node.

The proof says of a sequence of segments what it says once it is inserted into a path that ends at a given time with a given thread
(`Good`). Joining two such sequences keeps this (`GoodJoin`), and so does inserting, which may lengthen a segment
(`GoodInsert`). By induction over the steps (`ComputedRight`), every call inserts such segments from its start to its end, where each step may
rely on those it leads to: the loop over the edges reaches from one node to the next, because in an unbroken history each node but the
last has an edge to its neighbour (`ThreadEdgesAdjacent`); a wait is told from its start to its end by whoever ended it, as the wake-up is
of the time at which the wait ends (`VerticalSimultaneous`); and who woke is known from the time of the wake-up on (`StaysUnknown` and
`KnownBetween` say what a gap at the start costs). The first attempt, with packets that join exactly, failed at the
last: the loop goes on at a node that lies exactly on the end of the path, and a packet that arrives there is told beyond it.

### The state over time

`StateBlocks_proofs`: `TypeOK`, `EnumerationAgrees`, `NeverBack`, and that both histories implement `TimedMap`
(`UIntegersKept`, `ULongsKept`): an initial state maps to an initial state, a handler that writes to `Write`, the passing of time with its cleanup to `Pass`, and
everything else to a stutter. The invariant says that the entries of a history are in the order of their times,
that none is ahead of the trace, and that the last one is the current value (`TimesOK`, `UIntegersOK`, `CountersOK`); and of the
traced machine that a thread runs on one CPU at a time (`MachineOK`). `GetValue` of an ordered history is the last entry at or before a
time, and `Cleanup` and a write leave this as it was before now.

`NeverAhead` and `ExactOffCpu` are proved where `ReusedTids = {}`, as their runs check them. What a counter will be charged with next is bounded by what its
thread has been counted since: `CountersKeepUp` says this of both sources of counts, the CPU that the thread runs on and the
thread itself, and that without userspace events the first one catches up exactly. With reused tids it fails, as the run `reused_tid` shows.

### The stacks

`Stacks_proofs`: `TypeOK`, `FoundWhereReported`, `DurationsAgree` and `SampleOfOwnCall`, for any number of threads, stacks, system calls
and lost events; the last one where `kMaxRewind > 1`, without which only the last entry is looked at, and that is never the call.
`StacksNamesAssumption` says that the name of a system call is not that of a function or of a mark: it begins with `sys:`
(`StacksBuilder.cpp:97`). `StacksUnknownAssumption` tells the two model values of the traced machine from what they are not.

The invariant is about one thread at a time (`ThreadOK`), and has five parts. The entries of a history join in time and begin no later than
the tracer has told (`HistoryOK`): a call that is told about at its end is appended where it began, behind all others.
At each past time that counts the last entry that starts by then shows what was reported (`LineOK`), and the last of all
shows where the thread was last reported (`TopOK`). In a call that was reported, its entry is the last, with the one to
go back to before it, unless a cleaning has removed that (`CallOK`). The entry of a call whose sample is due comes
just before the last one (`OwedOK`), so that it is the last long one as long as nothing after it is.
That a call is never merged with what lies before it needs that a history tells names of calls from samples (`Named`, `UserStack`).

For `DurationsAgree`, every entry that overlaps the time asked for is called back with the size of the overlap (`EnumerationParts`), the overlaps
are disjoint, and `GetStack` finds an entry at the times of its overlap and at no other (`GetStackCovers`); the sum of sizes is then the size of the union.

### What is saved

`Saves_proofs`: `TypeOK`, `ReferencesResolve`, `StoredIsReal`, `ShortExecutionsStored`, and that names and stacks implement `Interning`
(`IdentifiersAreInterned`), for any trace, any number of crashes, reruns and reports. From `SavesAssumption` and
`SamplesAssumption`, which say what a trace and the extraction give: names that are strings, samples that have frames, at most one amount per stack.

The invariant has these parts. The trace goes on in time, and the builder has what the events handled so far make of it (`BuilderOK`). Saves lie more than an
interval apart, and the last one is not ahead of the clock (`TimesOK`): with both, an execution that lasts at most the interval began after
the last cleanup, so that `ShortKept` holds: as soon as it has ended it is among the completed ones still to be saved, or in the database. Each store is
sound: identifiers resolve, a stack lies on one with a smaller identifier, names and stacks have one identifier each, and every buffer is that of an execution of
the trace. What the disk has is a part of what the program sees, from the beginning (`StoresOK`). The calls still to be made are the rest of a
stack's or of an execution's (`CallsOK`): this is what makes a write in the middle land on a store that has all that
it refers to, and what a crash cuts off. It begins with the lemmas on each method of the store: what `AddStack` adds, that
`GetStack` finds it, that a buffer is read back as it was put.

### Induction over data

The library's induction theorems have an operator as parameter, which the provers at hand cannot instantiate. `DataInduction` takes
the least element of a well-founded order instead, for a set of the counterexamples, and has what follows from that: induction
over finite sets, the greatest element of a bounded set, the flattening of sequences of sequences, the folds over the first numbers, and the sum of the sizes
of disjoint sets as a fold.

### Only model-checked

* What is recursive, which the provers cannot reason about: `IntervalTree` with `DiskRequests` (`TreeOK`, `FindsRequests`,
  `IsRequestBag`), `ExtractStacks` (`SamplesConserve`, `NoThreadTwice`), `JsonWriter` with `Report` (`ReportComplete`).
* `PathEnds`, which is about whether `MaxSteps` suffices.
* `EndedIsStored`: liveness is out of the prover's reach.

## Plan

What is left is to write the recursion of `IntervalTree` and of `ExtractStacks` as functions, as in `CriticalPath`, and to
prove what the search finds.

## Not modelled

* `symbols/` reads ELF files, a table without further state, and `ProfilerBlock::OnBaddr` fills it from the maps of a
  process: a symbol is given with a sample. (When the symbols of an image cannot be read, `SymbolLookup.cpp:57` leaves an
  entry for it, so that the next look-up takes it for read.)
* `SpecialBlock`, which prints durations of one instrumented program; no other part reads what it keeps.
* The metrics that `ExtractMetrics` takes from the performance counters, and the metrics in an execution's buffer and
  in the report: differences of what `StateHistory` answers, carried along like the samples.
* The statistics mode, in which `PunchBlock` prints the long executions. It prints none: the build block then returns before it
  tells the executions builder the time, so every duration is 0 (`BuildBlock.cpp:98`, `PunchBlock.cpp:98`).
* Option parsing and wiring in `build/` and `report/main.cpp`; string
  escaping and display names in `base/` and `critical/GetStatusString.cpp`; logging.
* In `Database`, the caches, which hold what the store holds, and LevelDB's estimate of sizes, by which a report of very many
  executions leaves some out: the number to leave out is a parameter.
* LevelDB and the trace library are external.
