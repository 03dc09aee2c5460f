---------------------------- MODULE CleanupLoop ----------------------------
(***************************************************************************)
(* CriticalGraph::Cleanup as the code computes it: thread by thread, in    *)
(* the order of a hash table, node by node and slot by slot, on the graph  *)
(* that the slots before it have left.  Cleanup of CriticalGraph says at   *)
(* once what this loop does; the two are compared on the graphs that a     *)
(* build reaches.                                                          *)
(***************************************************************************)
EXTENDS CriticalBuild, SequencesExt

(* The other end keeps the id of the edge.                                 *)
MutEraseSlot(g, n, p) ==
    LET e == g.nodes[n].edge[p]
    IN  IF e = NoEdge THEN g
        ELSE [g EXCEPT !.edges = Restrict(@, DOMAIN @ \ {e})]

(* The body of the loop over the positions of one node.                    *)
EraseSlot(g, n, p) ==
    LET e     == g.nodes[n].edge[p]
        other == Holder(g.edges[e], Opposite(p))
    IN  IF e = NoEdge THEN g
        ELSE [g EXCEPT
                !.nodes = [g.nodes EXCEPT ![other] = SetEdge(@, Opposite(p), NoEdge)],
                !.edges = Restrict(g.edges, DOMAIN g.edges \ {e})]

(* The loop over the positions, in the order of CriticalEdgePosition.      *)
EraseNode(g, n) ==
    EraseSlot(EraseSlot(EraseSlot(EraseSlot(g, n, "outVertical"), n, "inVertical"),
                        n, "outHorizontal"), n, "inHorizontal")

(* The front of the vector of a thread, up to its first node at or after   *)
(* ts.                                                                     *)
OldNodes(g, ts, tid) ==
    {n \in NodesOf(g, tid) : \A m \in NodesOf(g, tid) : g.nodes[m].ts >= ts => n < m}

CleanupThread(g, ts, tid) ==
    LET old    == OldNodes(g, ts, tid)
        erased == FoldLeft(LAMBDA h, n : IF n \in old THEN EraseNode(h, n) ELSE h,
                           g, [n \in 1..(g.nextNode - 1) |-> n])
    IN  [erased EXCEPT !.nodes = Restrict(@, DOMAIN @ \ old)]

CleanupInOrder(g, ts, order) ==
    FoldLeft(LAMBDA h, tid : CleanupThread(h, ts, tid), g, order)

(* The order in which the hash table lists the threads makes no difference *)
(* (CriticalGraph.cpp:62), and no slot is read after the edge in it is     *)
(* gone (CriticalGraph.cpp:76): every order leaves the graph of Cleanup.   *)
CleanupOrderFree ==
    CleanupWritesFreedNode(graph, saveTs)
    \/ \A order \in SetToSeqs(Tids) :
          CleanupInOrder(graph, saveTs, order) = Cleanup(graph, saveTs)

============================================================================
