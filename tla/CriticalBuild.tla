--------------------------- MODULE CriticalBuild ---------------------------
(***************************************************************************)
(* The critical-path half of a build: BuildBlock (build_blocks/) advances  *)
(* the time, and every SaveInterval deletes the old part of the graph and  *)
(* of the disk requests, under the feet of CriticalBlock, which goes on    *)
(* with the pointers it kept.  The program is one thread: a step is one    *)
(* notification of the trace reader, handled to its end.                   *)
(*                                                                         *)
(* After undefined behaviour (memory = "corrupt") nothing is claimed and   *)
(* the model stops.                                                        *)
(***************************************************************************)
EXTENDS CriticalBlock

CONSTANTS
    SaveInterval,       \* kSaveInterval
    SoftIrqVectors,     \* the vectors of the softirq events of the trace
    IrqNumbers,         \* the numbers of its irq_handler events
    HrtimerCpus,        \* the CPUs whose hrtimer events are in the trace
    ReportedStatuses,   \* the thread statuses the tracker notifies
    MaxTs,              \* bound: the last timestamp of the trace
    MaxNodes,           \* bound: how many nodes a trace creates
    MaxDepth,           \* bound: how deep interrupts nest on a CPU
    MaxSameRequests     \* bound: how often one disk request repeats

ASSUME SaveIntervalAssumption == SaveInterval \in Nat
ASSUME HrtimerAssumption == HrtimerCpus \subseteq Cpus
ASSUME StatusAssumption == ReportedStatuses \subseteq Statuses

VARIABLES
    saveTs,         \* _saveTs: time of the last save, 0 before the first event
    lastCleanupTs   \* _lastCleanupTs: what is older has been deleted

vars == <<blockVars, saveTs, lastCleanupTs>>

BuildInit ==
    /\ Init
    /\ saveTs = 0
    /\ lastCleanupTs = 0

----------------------------------------------------------------------------
(* DiskRequests::Cleanup re-inserts what EnumerateIntersection finds in    *)
(* [ts, infinity).  The intervals with one lower bound share a tree node,  *)
(* and the search enters a node only if its greatest higher bound is       *)
(* strictly after ts, but then takes all that end at or after ts.          *)
KeptRequest(d, ts) ==
    /\ d.high >= ts
    /\ \E other \in DOMAIN diskRequests : other.low = d.low /\ other.high > ts

CleanupRequests(ts) ==
    Restrict(diskRequests, {d \in DOMAIN diskRequests : KeptRequest(d, ts)})

SaveIsDue(ts) == saveTs # 0 /\ ts > saveTs + SaveInterval

(* BuildBlock::onTimestamp, less the saving of the executions, which only  *)
(* reads the graph.  The trace is in the order of its timestamps.          *)
OnTimestamp(ts) ==
    /\ ts >= graph.ts
    /\ saveTs' = IF saveTs = 0 \/ SaveIsDue(ts) THEN ts ELSE saveTs
    /\ lastCleanupTs' = IF SaveIsDue(ts) THEN saveTs ELSE lastCleanupTs
    /\ diskRequests' = IF SaveIsDue(ts) THEN CleanupRequests(saveTs) ELSE diskRequests
    /\ LET now == SetTimestamp(graph, ts)
       IN  IF SaveIsDue(ts) /\ CleanupWritesFreedNode(graph, saveTs)
           THEN graph' = now /\ memory' = "corrupt"
           ELSE /\ graph' = IF SaveIsDue(ts) THEN Cleanup(now, saveTs) ELSE now
                /\ UNCHANGED memory
    /\ UNCHANGED <<context, lastEdgeType, networkNodes, diskThreads, status>>

----------------------------------------------------------------------------
(* The bounds, on the state that a step reaches.                           *)
Bounded ==
    /\ graph'.nextNode <= MaxNodes + 1
    /\ \A cpu \in Cpus : Len(context'[cpu]) <= MaxDepth
    /\ \A d \in DOMAIN diskRequests' : diskRequests'[d] <= MaxSameRequests

WakeUps ==
    \E cpu \in Cpus, source \in Threads \cup {InvalidThread}, target \in Threads :
        OnTTWU(cpu, source, target)

SoftIrqs ==
    \E cpu \in Cpus, vec \in SoftIrqVectors :
        OnSoftIrqEntry(cpu, vec) \/ OnSoftIrqExit(cpu, vec)

IrqHandlers ==
    \E cpu \in Cpus, irq \in IrqNumbers :
        OnIrqHandlerEntry(cpu, irq) \/ OnIrqHandlerExit(cpu, irq)

Hrtimers ==
    \E cpu \in HrtimerCpus : OnHrtimerExpireEntry(cpu) \/ OnHrtimerExpireExit(cpu)

Packets ==
    \E cpu \in Cpus, key \in PacketKeys :
        \/ OnInetSockLocalIn(cpu, key)
        \/ \E tid \in Threads : OnInetSockLocalOut(cpu, tid, key)

ThreadStates ==
    \E tid \in Threads :
        \/ \E new \in ReportedStatuses : OnThreadStatus(tid, new)
        \/ OnThreadName(tid)

(* Every event comes after the notification of its timestamp.              *)
Event ==
    /\ saveTs # 0
    /\ WakeUps \/ SoftIrqs \/ IrqHandlers \/ Hrtimers \/ Packets \/ ThreadStates
    /\ Bounded
    /\ UNCHANGED <<saveTs, lastCleanupTs>>

Next ==
    /\ memory = "sound"
    /\ Event \/ \E ts \in 1..MaxTs : OnTimestamp(ts)

Spec == BuildInit /\ [][Next]_vars

----------------------------------------------------------------------------
(* The type invariant of the graph, of CriticalBlock's own tables and of   *)
(* BuildBlock's two timestamps.                                            *)
TypeOK ==
    /\ IsGraph(graph)
    /\ context \in [Cpus -> Seq(InterruptContext)]
    /\ DOMAIN lastEdgeType \subseteq Threads
    /\ \A tid \in DOMAIN lastEdgeType : lastEdgeType[tid] \in SpentTypes
    /\ DOMAIN networkNodes \subseteq PacketKeys
    /\ \A key \in DOMAIN networkNodes : networkNodes[key] \in Nat \ {NoNode}
    /\ diskThreads \subseteq Threads \ {IdleThread}
    /\ DOMAIN diskRequests \subseteq [low : Nat, high : Nat, tid : Threads]
    /\ \A d \in DOMAIN diskRequests : diskRequests[d] \in Nat \ {0}
    /\ status \in [Threads -> Statuses]
    /\ memory \in {"sound", "corrupt"}
    /\ saveTs \in Nat /\ lastCleanupTs \in Nat

(* Whatever is deleted, every id in a slot of a live node is the id of an  *)
(* edge of the graph that has the node at that end: GetEdge, which ends    *)
(* the program on an unknown id (CriticalGraph.hpp:80-88), always answers. *)
SlotsResolve == SlotsResolveIn(graph)

(* Conversely an edge of the graph hangs on live nodes that hold it, so    *)
(* that Cleanup (CriticalGraph.cpp:70-97) finds it from either end.  The   *)
(* one exception are the hops of packets: a second wake-up in the same     *)
(* interrupt overwrites the outgoing slot of the packet's node, and the    *)
(* first hop outlives that node (CriticalBlock.cpp:318).                   *)
EdgesAnchored == EdgesAnchoredIn(graph)

(* The vector of a thread is sorted by time: what std::upper_bound assumes *)
(* (CriticalGraph.cpp:138, 162) and what lets Cleanup stop at the first    *)
(* recent node.                                                            *)
HistoryOrdered == HistoryOrderedIn(graph)

(* A horizontal edge of a thread joins two neighbours in the history of    *)
(* that one thread: following the edges (ComputeCriticalPath.cpp:195-222)  *)
(* neither skips a node nor changes thread.                                *)
ThreadEdgesAdjacent == ThreadEdgesAdjacentIn(graph)

(* A wake-up takes no time: the two ends of a vertical edge are            *)
(* simultaneous, so a Cleanup removes both or none and the critical path   *)
(* continues on the waking thread where it left the woken one.             *)
VerticalSimultaneous == VerticalSimultaneousIn(graph)

(* A hop on the network thread starts at the node of a packet that some    *)
(* thread sent at that very time: ComputeCriticalPath never has to report  *)
(* "Invalid network edge (a)" (ComputeCriticalPath.cpp:94-113).            *)
HopHasSender == HopHasSenderIn(graph)

Live(n) == n \in DOMAIN graph.nodes
Node(n) == graph.nodes[n]

(* The node of a packet is awaited in one place: in the table, under one   *)
(* key, or in one interrupt context, and while it is in the table no hop   *)
(* has left it.  Two holders would let two receivers claim one departure.  *)
HeldIn(n) ==
    {<<"table", key>> : key \in {k \in DOMAIN networkNodes : networkNodes[k] = n}}
    \cup {h \in Cpus \X (1..MaxDepth) :
             h[2] <= Len(context[h[1]]) /\ context[h[1]][h[2]].node = n}

PacketHeldOnce ==
    /\ \A n \in 1..(graph.nextNode - 1) :
          \A h1, h2 \in HeldIn(n) : h1 = h2
    /\ \A key \in DOMAIN networkNodes :
          Live(networkNodes[key]) =>
              Node(networkNodes[key]).edge["outHorizontal"] = NoEdge

(* GetNodeIntersecting misses nothing that the graph still holds: if an    *)
(* edge of a thread covers a time, the answer is a node of the thread at   *)
(* that time or with an edge over it (CriticalGraph.hpp:59-60), whatever   *)
(* zero-length edges pile up there.                                        *)
IntersectingComplete ==
    \A e \in DOMAIN graph.edges : IsThreadEdge(graph, e) =>
        \A ts \in From(graph, e).ts..To(graph, e).ts :
            LET n   == GetNodeIntersecting(graph, ts, To(graph, e).tid)
                out == Node(n).edge["outHorizontal"]
            IN  /\ n # NoNode
                /\ Node(n).tid = To(graph, e).tid /\ Node(n).ts <= ts
                /\ Node(n).ts = ts \/ (out # NoEdge /\ To(graph, out).ts >= ts)

(* The type that the next edge of a thread will get is the one of the      *)
(* thread's current status, except while it is blocked, when an interrupt  *)
(* may have replaced it (CriticalBlock.cpp:345) for that one wait.         *)
TypeFollowsStatus ==
    \A tid \in DOMAIN lastEdgeType :
        \/ lastEdgeType[tid] = StatusEdgeType(status[tid])
        \/ status[tid] = "wait_blocked"

(* Two disk requests of one thread are disjoint in time, or start at the   *)
(* same node: a request is never opened in the middle of an earlier one.   *)
RequestsNested ==
    \A d1, d2 \in DOMAIN diskRequests :
        /\ d1.low <= d1.high
        /\ d1.tid = d2.tid =>
             d1.low = d2.low \/ d1.high <= d2.low \/ d2.high <= d1.low

(* A cleanup deletes exactly the nodes older than the previous save, and   *)
(* leaves every edge between the nodes it keeps as it was, in its slots.   *)
ForgetsOnlyOld ==
    lastCleanupTs' # lastCleanupTs /\ memory' = "sound" =>
        /\ DOMAIN graph'.nodes = {n \in DOMAIN graph.nodes : Node(n).ts >= saveTs}
        /\ \A e \in DOMAIN graph.edges :
              Anchored(graph, e) /\ From(graph, e).ts >= saveTs =>
                  /\ e \in DOMAIN graph'.edges
                  /\ graph'.edges[e] = graph.edges[e]
                  /\ graph'.nodes[graph.edges[e].to].edge[InSlot(graph, e)] = e

(* Every step of a build is one of those, or no cleanup (CriticalGraph.cpp *)
(* 60-108).                                                                *)
CleanupForgetsOnlyOld == [][ForgetsOnlyOld]_vars

----------------------------------------------------------------------------
(* What the code says of itself and does not do.                           *)

(* "Clean everything that is |kSaveInterval| old." (BuildBlock.cpp:116):   *)
(* nothing deleted is used afterwards.                                     *)
NoUseAfterFree == memory = "sound"

============================================================================
