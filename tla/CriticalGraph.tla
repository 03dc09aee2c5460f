--------------------------- MODULE CriticalGraph ---------------------------
(***************************************************************************)
(* The graph of src/critical/CriticalGraph.{hpp,cpp}: per thread, a        *)
(* vector of nodes ordered by creation; horizontal edges between the nodes *)
(* of one thread (what the thread did meanwhile) and vertical edges        *)
(* between threads (who woke whom).  A graph is a value here and every     *)
(* method an operator that returns the new graph, because one handler of   *)
(* CriticalBlock calls several methods within one step.                    *)
(*                                                                         *)
(* A CriticalNode* is the node's creation number: an address that is never *)
(* reused, so that a pointer to a node that was deleted can be told from a *)
(* pointer to a live one.  The vector of a thread is the set of its live   *)
(* nodes in the order of these numbers (push_back is the only insertion).  *)
(*                                                                         *)
(* Definitions named Mut... are deliberate slips, each beside the operator *)
(* that it imitates: they show which property would notice the slip.       *)
(***************************************************************************)
EXTENDS Integers, FiniteSetsExt

CONSTANTS
    Threads,        \* the tids that the trace names
    NetworkThread   \* kNetworkThread, the pseudo thread of packets in flight

(* The code reserves kMaxTid + 1 for the network; tids are below kMaxTid.  *)
ASSUME NetworkThreadAssumption == NetworkThread \notin Threads

Tids == Threads \cup {NetworkThread}

NoNode == 0    \* nullptr
NoEdge == -1   \* kInvalidCriticalEdgeId

EdgeTypes == {"kUnknown", "kVertical", "kRun", "kInterrupted", "kWaitCpu",
              "kWaitBlocked", "kTimer", "kNetwork", "kBlockDevice",
              "kUserInput", "kEpsilon"}

Positions == {"outVertical", "inVertical", "outHorizontal", "inHorizontal"}

(* The slot in which the other end of an edge holds it.                    *)
Opposite(p) == CASE p = "outVertical"   -> "inVertical"
                 [] p = "inVertical"    -> "outVertical"
                 [] p = "outHorizontal" -> "inHorizontal"
                 [] p = "inHorizontal"  -> "outHorizontal"

NodeRecord == [ts : Nat, tid : Tids, edge : [Positions -> Nat \cup {NoEdge}]]
EdgeRecord == [type : EdgeTypes, from : Nat, to : Nat]

EmptyGraph == [ts |-> 0, nodes |-> << >>, nextNode |-> 1,
               edges |-> << >>, nextEdge |-> 0]

SetTimestamp(g, ts) == [g EXCEPT !.ts = ts]

----------------------------------------------------------------------------
(* Creation.                                                               *)

CreateNode(g, tid) ==
    [g EXCEPT
        !.nodes = [n \in DOMAIN g.nodes \cup {g.nextNode} |->
                     IF n = g.nextNode
                     THEN [ts |-> g.ts, tid |-> tid,
                           edge |-> [p \in Positions |-> NoEdge]]
                     ELSE g.nodes[n]],
        !.nextNode = g.nextNode + 1]

(* The node seen through slot p of an edge of node n, set to edge e.       *)
SetEdge(node, p, e) == [node EXCEPT !.edge = [@ EXCEPT ![p] = e]]

(* The edge counter is not advanced.                                       *)
MutCreateEdge(g, p, type, from, to) ==
    [g EXCEPT !.edges = [e \in DOMAIN g.edges \cup {g.nextEdge} |->
                           IF e = g.nextEdge
                           THEN [type |-> type, from |-> from, to |-> to]
                           ELSE g.edges[e]],
              !.nodes[from].edge[p] = g.nextEdge,
              !.nodes[to].edge[Opposite(p)] = g.nextEdge]

(* What CreateHorizontalEdge and CreateVerticalEdge share: a new edge,     *)
(* entered in slot p of its source and in the opposite slot of its target. *)
CreateEdge(g, p, type, from, to) ==
    [g EXCEPT
        !.edges = [e \in DOMAIN g.edges \cup {g.nextEdge} |->
                     IF e = g.nextEdge
                     THEN [type |-> type, from |-> from, to |-> to]
                     ELSE g.edges[e]],
        !.nextEdge = g.nextEdge + 1,
        !.nodes = [n \in DOMAIN g.nodes |->
                     IF n = from THEN SetEdge(g.nodes[n], p, g.nextEdge)
                     ELSE IF n = to
                     THEN SetEdge(g.nodes[n], Opposite(p), g.nextEdge)
                     ELSE g.nodes[n]]]

CreateHorizontalEdge(g, type, from, to) ==
    CreateEdge(g, "outHorizontal", type, from, to)

CreateVerticalEdge(g, from, to) ==
    CreateEdge(g, "outVertical", "kVertical", from, to)

----------------------------------------------------------------------------
(* Queries.                                                                *)

NodesOf(g, tid) == {n \in DOMAIN g.nodes : g.nodes[n].tid = tid}

(* front() for back().                                                     *)
MutLastNode(g, tid) ==
    IF NodesOf(g, tid) = {} THEN NoNode ELSE Min(NodesOf(g, tid))

LastNode(g, tid) ==
    IF NodesOf(g, tid) = {} THEN NoNode ELSE Max(NodesOf(g, tid))

(* std::lower_bound for std::upper_bound.                                  *)
MutNodesAfter(g, ts, tid)  == {n \in NodesOf(g, tid) : g.nodes[n].ts >= ts}

(* std::upper_bound over the vector of the thread: the number of its first *)
(* node after ts.  The iterator before it is the last node at or before.   *)
NodesAfter(g, ts, tid) == {n \in NodesOf(g, tid) : g.nodes[n].ts > ts}
NodesUpTo(g, ts, tid) == NodesOf(g, tid) \ NodesAfter(g, ts, tid)

GetNodeIntersecting(g, ts, tid) ==
    IF NodesUpTo(g, ts, tid) = {} THEN NoNode
    ELSE LET n == Max(NodesUpTo(g, ts, tid))
             e == g.nodes[n].edge["outHorizontal"]
             covers == IF e = NoEdge THEN g.nodes[n].ts = ts
                       ELSE g.nodes[g.edges[e].to].ts >= ts
         IN  IF covers THEN n ELSE NoNode

GetNodeStartingAfter(g, ts, tid) ==
    IF NodesAfter(g, ts, tid) = {} THEN NoNode
    ELSE Min(NodesAfter(g, ts, tid))

----------------------------------------------------------------------------
(* > for >= in the test that stops the loop.                               *)
MutRemoved(g, ts) ==
    {n \in DOMAIN g.nodes :
        \A m \in DOMAIN g.nodes :
            g.nodes[m].tid = g.nodes[n].tid /\ m <= n => g.nodes[m].ts <= ts}

(* Cleanup(ts): of every thread, the nodes in front of its first node at   *)
(* or after ts go away, every edge in a slot of theirs is erased, and the  *)
(* node at the other end of it forgets what its slot holds.                *)

Removed(g, ts) ==
    {n \in DOMAIN g.nodes :
        \A m \in DOMAIN g.nodes :
            g.nodes[m].tid = g.nodes[n].tid /\ m <= n => g.nodes[m].ts < ts}

(* Only the vertical edges are erased.                                     *)
MutErasedEdges(g, ts) ==
    {g.nodes[n].edge[p] : n \in Removed(g, ts),
                          p \in {"outVertical", "inVertical"}} \ {NoEdge}

ErasedEdges(g, ts) ==
    {g.nodes[n].edge[p] : n \in Removed(g, ts), p \in Positions} \ {NoEdge}

(* The end of edge e whose slot p holds it.                                *)
Holder(e, p) ==
    IF p \in {"outVertical", "outHorizontal"} THEN e.from ELSE e.to

(* The survivors of a horizontal edge keep its id.                         *)
MutCleared(g, ts, n, p) ==
    /\ p \in {"outVertical", "inVertical"}
    /\ \E m \in Removed(g, ts) :
          LET e == g.nodes[m].edge[Opposite(p)]
          IN  e # NoEdge /\ Holder(g.edges[e], p) = n

(* Slot p of the surviving node n is cleared by the removal of some node.  *)
Cleared(g, ts, n, p) ==
    \E m \in Removed(g, ts) :
        LET e == g.nodes[m].edge[Opposite(p)]
        IN  e # NoEdge /\ Holder(g.edges[e], p) = n

Cleanup(g, ts) ==
    [g EXCEPT
        !.nodes = [n \in DOMAIN g.nodes \ Removed(g, ts) |->
                     [g.nodes[n] EXCEPT !.edge =
                        [p \in Positions |->
                           IF Cleared(g, ts, n, p) THEN NoEdge
                           ELSE g.nodes[n].edge[p]]]],
        !.edges = Restrict(g.edges, DOMAIN g.edges \ ErasedEdges(g, ts))]

(* Cleanup writes through the other end of every edge it erases: undefined *)
(* when that node was deleted by an earlier Cleanup.                       *)
CleanupWritesFreedNode(g, ts) ==
    \E n \in Removed(g, ts), p \in Positions :
        LET e == g.nodes[n].edge[p]
        IN  e # NoEdge
            /\ Holder(g.edges[e], Opposite(p)) \notin DOMAIN g.nodes

----------------------------------------------------------------------------
(* What a graph must satisfy for the queries and the critical path.        *)

IsGraph(g) ==
    /\ g = [ts |-> g.ts, nodes |-> g.nodes, nextNode |-> g.nextNode,
            edges |-> g.edges, nextEdge |-> g.nextEdge]
    /\ g.ts \in Nat /\ g.nextNode \in Nat \ {NoNode} /\ g.nextEdge \in Nat
    /\ g.nodes \in [DOMAIN g.nodes -> NodeRecord]
    /\ \A n \in DOMAIN g.nodes : n \in 1..(g.nextNode - 1)
    /\ g.edges \in [DOMAIN g.edges -> EdgeRecord]
    /\ \A e \in DOMAIN g.edges : e \in 0..(g.nextEdge - 1)

IsVertical(g, e)   == g.edges[e].type = "kVertical"
OutSlot(g, e)      == IF IsVertical(g, e) THEN "outVertical" ELSE "outHorizontal"
InSlot(g, e)       == IF IsVertical(g, e) THEN "inVertical" ELSE "inHorizontal"
From(g, e)         == g.nodes[g.edges[e].from]
To(g, e)           == g.nodes[g.edges[e].to]
Anchored(g, e)     == g.edges[e].from \in DOMAIN g.nodes
IsHop(g, e)        == ~IsVertical(g, e) /\ To(g, e).tid = NetworkThread
IsThreadEdge(g, e) == ~IsVertical(g, e) /\ To(g, e).tid # NetworkThread

SlotsResolveIn(g) ==
    \A n \in DOMAIN g.nodes, p \in Positions :
        LET e == g.nodes[n].edge[p]
        IN  e # NoEdge =>
                /\ e \in DOMAIN g.edges
                /\ p \in {OutSlot(g, e), InSlot(g, e)}
                /\ Holder(g.edges[e], p) = n

EdgesAnchoredIn(g) ==
    \A e \in DOMAIN g.edges :
        /\ g.edges[e].from < g.edges[e].to
        /\ g.edges[e].to \in DOMAIN g.nodes /\ To(g, e).edge[InSlot(g, e)] = e
        /\ ~IsHop(g, e) => Anchored(g, e) /\ From(g, e).edge[OutSlot(g, e)] = e

HistoryOrderedIn(g) ==
    \A m, n \in DOMAIN g.nodes :
        /\ g.nodes[n].ts <= g.ts
        /\ m < n => g.nodes[m].ts <= g.nodes[n].ts

ThreadEdgesAdjacentIn(g) ==
    \A e \in DOMAIN g.edges :
        IsThreadEdge(g, e) =>
            /\ From(g, e).tid = To(g, e).tid
            /\ \A n \in NodesOf(g, To(g, e).tid) :
                  n <= g.edges[e].from \/ n >= g.edges[e].to

VerticalSimultaneousIn(g) ==
    \A e \in DOMAIN g.edges :
        IsVertical(g, e) => From(g, e).ts = To(g, e).ts

(* n is the node of a packet: on the network thread, with its sender.      *)
IsPacketNode(g, n) ==
    LET sent == g.nodes[n].edge["inVertical"]
    IN  /\ g.nodes[n].tid = NetworkThread
        /\ sent # NoEdge
        /\ From(g, sent).tid \in Threads

HopHasSenderIn(g) ==
    \A e \in DOMAIN g.edges :
        IsHop(g, e) /\ Anchored(g, e) => IsPacketNode(g, g.edges[e].from)

============================================================================
