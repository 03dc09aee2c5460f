--------------------------- MODULE CriticalBlock ---------------------------
(***************************************************************************)
(* The observer of src/critical_blocks/CriticalBlock.cpp: it turns the     *)
(* wake-ups, interrupts, packets and thread status changes of a kernel     *)
(* trace into nodes and edges of the CriticalGraph and into disk requests. *)
(* One action per handler.  The current-state tracker of the trace library *)
(* is external: the thread that a CPU runs, and the status changes that it *)
(* notifies, are inputs of the handlers, any value at any time, as they    *)
(* are for traces that start late or lose events.                          *)
(***************************************************************************)
EXTENDS CriticalGraph, Sequences, BagsExt

CONSTANTS
    InvalidThread,  \* kInvalidThread, the thread of a CPU not yet known
    IdleThread,     \* tid 0
    JournalThreads, \* threads with, at some time, a name that begins with jbd2
    Cpus,           \* the CPUs of the traced machine
    PacketKeys      \* PacketKey: (seq, ack_seq, flags) of a TCP segment

ASSUME InvalidThreadAssumption == InvalidThread \notin Tids

VARIABLES
    graph,         \* CriticalGraph()
    context,       \* _context: stack of interrupt contexts per CPU
    lastEdgeType,  \* _lastEdgeTypePerThread, a partial map
    networkNodes,  \* _networkNodes, a partial map: PacketKey to CriticalNode*
    diskThreads,   \* _diskThreads: the jbd2 threads
    diskRequests,  \* DiskRequests(): a bag of intervals with their thread
    status,        \* external: the tracker's current status of each thread
    memory         \* "corrupt" once a deleted node was written to

blockVars == <<graph, context, lastEdgeType, networkNodes, diskThreads,
               diskRequests, status, memory>>

(* The types of horizontal edges.                                          *)
SpentTypes == EdgeTypes \ {"kVertical", "kEpsilon"}

InterruptContext == [type : SpentTypes, node : Nat]

(* The values of a thread's status; null when the thread does not exist.   *)
NullStatus == "null"

Statuses == {"usermode", "syscall", "interrupted", "wait_for_cpu",
             "wait_blocked", "unknown", NullStatus}

(* f with k bound to v, as operator[] of an unordered_map does it.         *)
Bind(f, k, v) == [x \in DOMAIN f \cup {k} |-> IF x = k THEN v ELSE f[x]]

Init ==
    /\ graph = EmptyGraph
    /\ context = [c \in Cpus |-> << >>]
    /\ lastEdgeType = << >>
    /\ networkNodes = << >>
    /\ diskThreads = {}
    /\ diskRequests = << >>
    /\ status = [tid \in Threads |-> NullStatus]
    /\ memory = "sound"

----------------------------------------------------------------------------
(* Interrupt contexts.  std::stack grows at the end of the sequence.       *)

Top(cpu)           == context[cpu][Len(context[cpu])]
InInterrupt(cpu)   == context[cpu] # << >>
Push(cpu, ctx)     == context' = [context EXCEPT ![cpu] = Append(@, ctx)]
Pop(cpu)           == context' = [context EXCEPT ![cpu] = SubSeq(@, 1, Len(@) - 1)]

ResolveIRQ(irq) ==
    CASE irq = 0          -> "kInterrupted"
      [] irq \in {19, 23} -> "kUserInput"
      [] OTHER            -> "kWaitBlocked"

ResolveSoftIRQ(vec) ==
    CASE vec \in {1, 8} -> "kTimer"
      [] vec \in {4, 5} -> "kBlockDevice"
      [] vec \in {2, 3} -> "kNetwork"
      [] vec = 7        -> "kInterrupted"
      [] OTHER          -> "kWaitBlocked"

EnterInterrupt(cpu, type) ==
    /\ Push(cpu, [type |-> type, node |-> NoNode])
    /\ UNCHANGED <<graph, lastEdgeType, networkNodes, diskThreads,
                   diskRequests, status, memory>>

(* An exit that does not match the innermost entry is reported and         *)
(* ignored: the handler returns and nothing changes.                       *)
ExitInterrupt(cpu, type) ==
    /\ InInterrupt(cpu) /\ Top(cpu).type = type
    /\ Pop(cpu)
    /\ UNCHANGED <<graph, lastEdgeType, networkNodes, diskThreads,
                   diskRequests, status, memory>>

OnSoftIrqEntry(cpu, vec)     == EnterInterrupt(cpu, ResolveSoftIRQ(vec))
OnSoftIrqExit(cpu, vec)      == ExitInterrupt(cpu, ResolveSoftIRQ(vec))
OnIrqHandlerEntry(cpu, irq)  == EnterInterrupt(cpu, ResolveIRQ(irq))
OnIrqHandlerExit(cpu, irq)   == ExitInterrupt(cpu, ResolveIRQ(irq))
OnHrtimerExpireEntry(cpu)    == EnterInterrupt(cpu, "kTimer")
OnHrtimerExpireExit(cpu)     == ExitInterrupt(cpu, "kTimer")

----------------------------------------------------------------------------
(* CutThread ends the current edge of a thread at a new node.              *)

CanCut(g, tid) == LastNode(g, tid) # NoNode /\ tid \in DOMAIN lastEdgeType

CutThread(g, tid) ==
    CreateHorizontalEdge(CreateNode(g, tid), lastEdgeType[tid],
                         LastNode(g, tid), g.nextNode)

(* The request starts one node too early.                                  *)
MutAddDiskRequest(tid) ==
    LET last  == LastNode(graph, tid)
        older == NodesOf(graph, tid) \ {last}
        first == IF older = {} THEN last ELSE Max(older)
    IN  IF last = NoNode THEN diskRequests
        ELSE BagAdd(diskRequests, [low |-> graph.nodes[first].ts,
                                   high |-> graph.ts, tid |-> tid])

(* AddInterval(begin of the thread's current edge, now, tid), where the    *)
(* thread has a node.                                                      *)
AddDiskRequest(tid) ==
    IF LastNode(graph, tid) = NoNode THEN diskRequests
    ELSE BagAdd(diskRequests,
                [low |-> graph.nodes[LastNode(graph, tid)].ts,
                 high |-> graph.ts, tid |-> tid])

----------------------------------------------------------------------------
(* sched_ttwu: OnTTWU dispatches on the context of the CPU.                *)

(* The source is not cut: the wake-up leaves from its last node.           *)
MutOnTTWUBetweenThreads(cpu, source, target) ==
    /\ ~InInterrupt(cpu)
    /\ source # InvalidThread /\ CanCut(graph, source) /\ CanCut(graph, target)
    /\ graph' = CreateVerticalEdge(CutThread(graph, target),
                                   LastNode(graph, source), graph.nextNode)
    /\ UNCHANGED <<context, lastEdgeType, networkNodes, diskThreads, diskRequests,
                   status, memory>>

(* The source is cut, then the target, then the wake-up edge joins the two *)
(* new nodes; a thread that cannot be cut ends the handler where it is.    *)
OnTTWUBetweenThreads(cpu, source, target) ==
    /\ ~InInterrupt(cpu)
    /\ source # InvalidThread /\ target # InvalidThread
    /\ diskRequests' = IF source \in diskThreads THEN AddDiskRequest(target)
                       ELSE diskRequests
    /\ LET cut1 == CutThread(graph, source)
           cut2 == CutThread(cut1, target)
       IN  graph' = IF ~CanCut(graph, source) THEN graph
                    ELSE IF ~CanCut(cut1, target) THEN cut1
                    ELSE CreateVerticalEdge(cut2, graph.nextNode, cut1.nextNode)
    /\ UNCHANGED <<context, lastEdgeType, networkNodes, diskThreads, status,
                   memory>>

(* Any thread with a type may be retyped.                                  *)
MutWaitsBlocked(tid) == tid \in DOMAIN lastEdgeType

WaitsBlocked(tid) ==
    tid \in DOMAIN lastEdgeType /\ lastEdgeType[tid] = "kWaitBlocked"

(* A wake-up by a packet: the network edge goes from the node made when    *)
(* the packet left to a new node.  CreateHorizontalEdge writes through the *)
(* pointer that the context kept: undefined if Cleanup deleted that node.  *)
OnWakeupFromNetwork(cpu, target) ==
    /\ InInterrupt(cpu) /\ WaitsBlocked(target)
    /\ Top(cpu).node # NoNode
    /\ IF Top(cpu).node \notin DOMAIN graph.nodes
       THEN memory' = "corrupt" /\ UNCHANGED graph
       ELSE LET hop == CreateHorizontalEdge(CreateNode(graph, NetworkThread),
                                            "kRun", Top(cpu).node, graph.nextNode)
                cut == CutThread(hop, target)
            IN  /\ graph' = IF ~CanCut(hop, target) THEN hop
                            ELSE CreateVerticalEdge(cut, graph.nextNode, hop.nextNode)
                /\ UNCHANGED memory
    /\ UNCHANGED <<context, lastEdgeType, networkNodes, diskThreads, diskRequests,
                   status>>

(* Any other interrupt: the edge that the thread is waiting on gets the    *)
(* type of the interrupt, when it will be created.                         *)
OnWakeupFromInterrupt(cpu, target) ==
    /\ InInterrupt(cpu) /\ WaitsBlocked(target)
    /\ Top(cpu).node = NoNode
    /\ diskRequests' = IF Top(cpu).type = "kBlockDevice"
                       THEN AddDiskRequest(target) ELSE diskRequests
    /\ lastEdgeType' = [lastEdgeType EXCEPT ![target] = Top(cpu).type]
    /\ UNCHANGED <<graph, context, networkNodes, diskThreads, status, memory>>

OnTTWU(cpu, source, target) ==
    \/ OnTTWUBetweenThreads(cpu, source, target)
    \/ OnWakeupFromNetwork(cpu, target)
    \/ OnWakeupFromInterrupt(cpu, target)

----------------------------------------------------------------------------
(* Packets.                                                                *)

(* The packet stays in the table.                                          *)
MutOnInetSockLocalIn(cpu, key) ==
    /\ key \in DOMAIN networkNodes
    /\ InInterrupt(cpu)
    /\ context' = [context EXCEPT ![cpu][Len(context[cpu])].node = networkNodes[key]]
    /\ UNCHANGED <<graph, networkNodes, lastEdgeType, diskThreads, diskRequests,
                   status, memory>>

(* A received packet marks the innermost context with the node of its      *)
(* departure; outside of any interrupt it is reported and stays known.     *)
OnInetSockLocalIn(cpu, key) ==
    /\ key \in DOMAIN networkNodes
    /\ InInterrupt(cpu)
    /\ context' = [context EXCEPT ![cpu][Len(context[cpu])].node = networkNodes[key]]
    /\ networkNodes' = Restrict(networkNodes, DOMAIN networkNodes \ {key})
    /\ UNCHANGED <<graph, lastEdgeType, diskThreads, diskRequests, status, memory>>

(* The network node is not joined to its sender.                           *)
MutOnInetSockLocalOut(cpu, tid, key) ==
    /\ ~InInterrupt(cpu)
    /\ CanCut(graph, tid)
    /\ LET cut == CutThread(graph, tid)
       IN  /\ graph' = CreateNode(cut, NetworkThread)
           /\ networkNodes' = Bind(networkNodes, key, cut.nextNode)
    /\ UNCHANGED <<context, lastEdgeType, diskThreads, diskRequests, status, memory>>

(* A packet sent by a thread, out of any interrupt, cuts the thread and    *)
(* starts a node of the network thread.                                    *)
OnInetSockLocalOut(cpu, tid, key) ==
    /\ ~InInterrupt(cpu)
    /\ CanCut(graph, tid)
    /\ LET cut == CutThread(graph, tid)
       IN  /\ graph' = CreateVerticalEdge(CreateNode(cut, NetworkThread),
                                          graph.nextNode, cut.nextNode)
           /\ networkNodes' = Bind(networkNodes, key, cut.nextNode)
    /\ UNCHANGED <<context, lastEdgeType, diskThreads, diskRequests, status, memory>>

----------------------------------------------------------------------------
(* Thread state.                                                           *)

StatusEdgeType(s) ==
    CASE s \in {"usermode", "syscall"} -> "kRun"
      [] s = "interrupted"             -> "kInterrupted"
      [] s = "wait_for_cpu"            -> "kWaitCpu"
      [] s = "wait_blocked"            -> "kWaitBlocked"
      [] OTHER                         -> "kUnknown"

(* The thread goes on with an edge of the type it has: nothing to record.  *)
SameEdgeType(tid, new) ==
    tid \in DOMAIN lastEdgeType /\ lastEdgeType[tid] = StatusEdgeType(new)

StartEdge(tid, new) ==
    /\ LET prev  == LastNode(graph, tid)
           added == CreateNode(graph, tid)
       IN  graph' = IF prev # NoNode /\ tid \in DOMAIN lastEdgeType
                    THEN CreateHorizontalEdge(added, lastEdgeType[tid],
                                              prev, graph.nextNode)
                    ELSE added
    /\ lastEdgeType' = IF new # NullStatus
                       THEN Bind(lastEdgeType, tid, StatusEdgeType(new))
                       ELSE Restrict(lastEdgeType, DOMAIN lastEdgeType \ {tid})

OnThreadStatus(tid, new) ==
    /\ status' = [status EXCEPT ![tid] = new]
    /\ \/ SameEdgeType(tid, new) /\ UNCHANGED <<graph, lastEdgeType>>
       \/ ~SameEdgeType(tid, new) /\ StartEdge(tid, new)
    /\ UNCHANGED <<context, networkNodes, diskThreads, diskRequests, memory>>

(* Only the names of the journaling threads leave a trace.                 *)
OnThreadName(tid) ==
    /\ tid # IdleThread /\ tid \in JournalThreads
    /\ diskThreads' = diskThreads \cup {tid}
    /\ UNCHANGED <<graph, context, lastEdgeType, networkNodes, diskRequests, status,
                   memory>>

============================================================================
