------------------------ MODULE CriticalGraph_proofs ------------------------
(***************************************************************************)
(* What the operators of CriticalGraph preserve, for every graph.  The     *)
(* conjunction GraphSound is inductive: each part needs others.  A new     *)
(* edge leaves slots resolved only because slots hold edges of the graph,  *)
(* Cleanup keeps edges anchored only because nodes are in time order and   *)
(* wake-ups are simultaneous.                                              *)
(***************************************************************************)
EXTENDS CriticalGraph, DataInduction

(* A sound graph. No part is inductive alone. *)
GraphSound(g) ==
    /\ IsGraph(g)
    /\ SlotsResolveIn(g)
    /\ EdgesAnchoredIn(g)
    /\ HistoryOrderedIn(g)
    /\ ThreadEdgesAdjacentIn(g)
    /\ VerticalSimultaneousIn(g)
    /\ HopHasSenderIn(g)

----------------------------------------------------------------------------
(* GetLastNodeForThread returns null or the newest live node of the thread.*)
LEMMA LastNodeNewest ==
  ASSUME NEW g, IsGraph(g), NEW tid
  PROVE  LET n == LastNode(g, tid)
         IN  /\ n = NoNode <=> NodesOf(g, tid) = {}
             /\ n # NoNode => /\ n \in DOMAIN g.nodes
                              /\ g.nodes[n].tid = tid
                              /\ \A m \in NodesOf(g, tid) : m <= n
<1>1. NodesOf(g, tid) \in SUBSET (0..(g.nextNode - 1)) /\ g.nextNode - 1 \in Nat
  BY DEF IsGraph, NodesOf, NoNode
<1>2. CASE NodesOf(g, tid) = {}
  BY <1>2 DEF LastNode
<1>3. CASE NodesOf(g, tid) # {}
  <2>1. Max(NodesOf(g, tid)) \in NodesOf(g, tid)
        /\ \A m \in NodesOf(g, tid) : m <= Max(NodesOf(g, tid))
    BY <1>1, <1>3, MaxBelow
  <2>2. \A m \in NodesOf(g, tid) : m # NoNode
    BY DEF IsGraph, NodesOf, NoNode
  <2>3. QED
    BY <1>3, <2>1, <2>2 DEF LastNode, NodesOf
<1>4. QED
  BY <1>2, <1>3

----------------------------------------------------------------------------
(* SetTimestamp and CreateNode.                                            *)

(* The clock is no part of what makes a graph sound. *)
LEMMA SetTimestampSound ==
  ASSUME NEW g, GraphSound(g), NEW ts \in Nat, g.ts <= ts
  PROVE  GraphSound(SetTimestamp(g, ts))
<1> DEFINE h == SetTimestamp(g, ts)
<1>1. /\ IsGraph(h) /\ h.ts = ts /\ h.nodes = g.nodes /\ h.edges = g.edges
      /\ h.nextNode = g.nextNode /\ h.nextEdge = g.nextEdge
  BY DEF SetTimestamp, GraphSound, IsGraph
<1> HIDE DEF h
<1>2. SlotsResolveIn(h)
  BY <1>1 DEF GraphSound, SlotsResolveIn, OutSlot, InSlot, IsVertical
<1>3. EdgesAnchoredIn(h)
  BY <1>1 DEF GraphSound, EdgesAnchoredIn, OutSlot, InSlot, IsVertical, IsHop,
              Anchored, From, To
<1>4. HistoryOrderedIn(h)
  BY <1>1 DEF GraphSound, HistoryOrderedIn, IsGraph, NodeRecord
<1>5. ThreadEdgesAdjacentIn(h)
  BY <1>1 DEF GraphSound, ThreadEdgesAdjacentIn, IsVertical, IsThreadEdge,
              From, To, NodesOf
<1>6. VerticalSimultaneousIn(h)
  BY <1>1 DEF GraphSound, VerticalSimultaneousIn, IsVertical, From, To
<1>7. HopHasSenderIn(h)
  BY <1>1 DEF GraphSound, HopHasSenderIn, IsHop, IsVertical, Anchored,
              IsPacketNode, From, To
<1>8. QED
  BY <1>1, <1>2, <1>3, <1>4, <1>5, <1>6, <1>7 DEF GraphSound, h

(* What CreateNode changes: one more node, the newest, with empty slots.   *)
LEMMA CreateNodeShape ==
  ASSUME NEW g, IsGraph(g), NEW tid \in Tids
  PROVE  LET h == CreateNode(g, tid)
         IN  /\ IsGraph(h) /\ h.ts = g.ts /\ h.edges = g.edges
             /\ h.nextNode = g.nextNode + 1 /\ h.nextEdge = g.nextEdge
             /\ DOMAIN h.nodes = DOMAIN g.nodes \cup {g.nextNode}
             /\ \A n \in DOMAIN g.nodes : h.nodes[n] = g.nodes[n] /\ n < g.nextNode
             /\ g.nextNode \in Nat \ {NoNode}
             /\ g.nextNode \notin DOMAIN g.nodes
             /\ h.nodes[g.nextNode].ts = g.ts
             /\ h.nodes[g.nextNode].tid = tid
             /\ \A p \in Positions : h.nodes[g.nextNode].edge[p] = NoEdge
<1> DEFINE h == CreateNode(g, tid)
           new == [ts |-> g.ts, tid |-> tid, edge |-> [p \in Positions |-> NoEdge]]
           nodes == [n \in DOMAIN g.nodes \cup {g.nextNode} |->
                       IF n = g.nextNode THEN new ELSE g.nodes[n]]
<1>1. new \in NodeRecord
  BY DEF NodeRecord, IsGraph
<1>0. h = [g EXCEPT !.nodes = nodes, !.nextNode = g.nextNode + 1]
  BY DEF CreateNode
<1> HIDE DEF h, nodes
<1>2. /\ h.ts = g.ts /\ h.edges = g.edges /\ h.nextEdge = g.nextEdge
      /\ h.nextNode = g.nextNode + 1
      /\ h.nodes = nodes
      /\ h = [ts |-> h.ts, nodes |-> h.nodes, nextNode |-> h.nextNode,
              edges |-> h.edges, nextEdge |-> h.nextEdge]
  BY <1>0 DEF IsGraph
<1> HIDE DEF new
<1>3. g.nextNode \notin DOMAIN g.nodes /\ g.nextNode \in Nat \ {NoNode}
      /\ \A n \in DOMAIN g.nodes : n < g.nextNode
  BY DEF IsGraph, NoNode
<1>4. IsGraph(h)
  BY <1>1, <1>2, <1>3 DEF IsGraph, NoNode, nodes
<1>5. QED
  BY <1>2, <1>3, <1>4 DEF h, new, nodes

(* A new node has the greatest number and time, and no edge. *)
LEMMA CreateNodeSound ==
  ASSUME NEW g, GraphSound(g), NEW tid \in Tids
  PROVE  GraphSound(CreateNode(g, tid))
<1> DEFINE h == CreateNode(g, tid)
<1>1. /\ IsGraph(h) /\ h.ts = g.ts /\ h.edges = g.edges
      /\ DOMAIN h.nodes = DOMAIN g.nodes \cup {g.nextNode}
      /\ \A n \in DOMAIN g.nodes : h.nodes[n] = g.nodes[n] /\ n < g.nextNode
      /\ g.nextNode \notin DOMAIN g.nodes
      /\ g.nextNode \in Nat
      /\ h.nodes[g.nextNode].ts = g.ts
      /\ \A p \in Positions : h.nodes[g.nextNode].edge[p] = NoEdge
  BY CreateNodeShape DEF GraphSound
<1> HIDE DEF h
<1>2. \A e \in DOMAIN g.edges :
         /\ g.edges[e].from \in Nat /\ g.edges[e].to \in Nat
         /\ g.edges[e].to \in DOMAIN g.nodes
         /\ g.edges[e].from < g.edges[e].to
         /\ g.edges[e].from # g.nextNode
  BY <1>1 DEF GraphSound, IsGraph, EdgeRecord, EdgesAnchoredIn
<1>3. \A e \in DOMAIN g.edges :
         /\ To(h, e) = To(g, e) /\ Anchored(h, e) = Anchored(g, e)
         /\ Anchored(g, e) => From(h, e) = From(g, e)
         /\ IsVertical(h, e) = IsVertical(g, e)
         /\ OutSlot(h, e) = OutSlot(g, e) /\ InSlot(h, e) = InSlot(g, e)
         /\ IsHop(h, e) = IsHop(g, e) /\ IsThreadEdge(h, e) = IsThreadEdge(g, e)
  BY <1>1, <1>2 DEF To, From, Anchored, IsVertical, OutSlot, InSlot, IsHop, IsThreadEdge
<1>4. SlotsResolveIn(h)
  BY <1>1, <1>3 DEF GraphSound, SlotsResolveIn
<1>5. EdgesAnchoredIn(h)
  BY <1>1, <1>2, <1>3 DEF GraphSound, EdgesAnchoredIn
<1>6. HistoryOrderedIn(h)
  BY <1>1 DEF GraphSound, HistoryOrderedIn, IsGraph, NodeRecord
<1>7. ThreadEdgesAdjacentIn(h)
  <2> SUFFICES ASSUME NEW e \in DOMAIN g.edges, IsThreadEdge(h, e)
               PROVE  /\ From(h, e).tid = To(h, e).tid
                      /\ \A n \in NodesOf(h, To(h, e).tid) :
                            n <= g.edges[e].from \/ n >= g.edges[e].to
    BY <1>1 DEF ThreadEdgesAdjacentIn
  <2>1. ~IsHop(g, e) /\ Anchored(g, e)
    BY <1>3 DEF GraphSound, EdgesAnchoredIn, IsHop, IsThreadEdge
  <2>2. \A n \in NodesOf(g, To(g, e).tid) : n <= g.edges[e].from \/ n >= g.edges[e].to
    BY <1>3 DEF GraphSound, ThreadEdgesAdjacentIn
  <2>3. g.nextNode >= g.edges[e].to
    BY <1>1, <1>2
  <2>4. QED
    BY <1>1, <1>3, <2>1, <2>2, <2>3 DEF GraphSound, ThreadEdgesAdjacentIn, NodesOf
<1>8. VerticalSimultaneousIn(h)
  BY <1>1, <1>3 DEF GraphSound, VerticalSimultaneousIn, EdgesAnchoredIn, IsHop
<1>9. HopHasSenderIn(h)
  <2> SUFFICES ASSUME NEW e \in DOMAIN g.edges, IsHop(h, e), Anchored(h, e)
               PROVE  IsPacketNode(h, g.edges[e].from)
    BY <1>1 DEF HopHasSenderIn
  <2> DEFINE n == g.edges[e].from
             s == g.nodes[n].edge["inVertical"]
  <2>1. n \in DOMAIN g.nodes /\ IsPacketNode(g, n) /\ h.nodes[n] = g.nodes[n]
    BY <1>1, <1>3 DEF GraphSound, HopHasSenderIn, Anchored
  <2>2. s \in DOMAIN g.edges /\ IsVertical(g, s)
    BY <2>1 DEF GraphSound, SlotsResolveIn, IsPacketNode, OutSlot, InSlot, Positions
  <2>3. Anchored(g, s)
    BY <2>2 DEF GraphSound, EdgesAnchoredIn, IsHop
  <2>4. QED
    BY <1>3, <2>1, <2>2, <2>3 DEF IsPacketNode
<1>10. QED
  BY <1>1, <1>4, <1>5, <1>6, <1>7, <1>8, <1>9 DEF GraphSound, h

----------------------------------------------------------------------------
(* CreateHorizontalEdge and CreateVerticalEdge.                            *)

(* What CreateEdge changes: one more edge, in one slot of each end.        *)
EdgeAdded(g, f, p, type, from, to) ==
    /\ IsGraph(f) /\ f.ts = g.ts /\ f.nextNode = g.nextNode
    /\ DOMAIN f.nodes = DOMAIN g.nodes
    /\ \A n \in DOMAIN g.nodes :
          /\ f.nodes[n].ts = g.nodes[n].ts
          /\ f.nodes[n].tid = g.nodes[n].tid
          /\ \A q \in Positions :
                f.nodes[n].edge[q] =
                   IF (n = from /\ q = p) \/ (n = to /\ q = Opposite(p))
                   THEN g.nextEdge ELSE g.nodes[n].edge[q]
    /\ g.nextEdge \in Nat /\ g.nextEdge \notin DOMAIN g.edges
    /\ DOMAIN f.edges = DOMAIN g.edges \cup {g.nextEdge}
    /\ \A e \in DOMAIN g.edges : f.edges[e] = g.edges[e]
    /\ f.edges[g.nextEdge] = [type |-> type, from |-> from, to |-> to]

(* CreateEdge, written out. *)
LEMMA CreateEdgeShape ==
  ASSUME NEW g, IsGraph(g), NEW p \in Positions, NEW type \in EdgeTypes,
         NEW from \in DOMAIN g.nodes, NEW to \in DOMAIN g.nodes, from < to
  PROVE  EdgeAdded(g, CreateEdge(g, p, type, from, to), p, type, from, to)
<1> DEFINE h == CreateEdge(g, p, type, from, to)
           e0 == g.nextEdge
           new == [type |-> type, from |-> from, to |-> to]
           edges == [e \in DOMAIN g.edges \cup {e0} |->
                       IF e = e0 THEN new ELSE g.edges[e]]
           nodes == [n \in DOMAIN g.nodes |->
                       IF n = from THEN SetEdge(g.nodes[n], p, e0)
                       ELSE IF n = to THEN SetEdge(g.nodes[n], Opposite(p), e0)
                       ELSE g.nodes[n]]
<1>1. h = [g EXCEPT !.edges = edges, !.nextEdge = e0 + 1, !.nodes = nodes]
  BY DEF CreateEdge
<1>2. Opposite(p) \in Positions /\ from # to /\ e0 \in Nat
      /\ from \in Nat /\ to \in Nat
  BY DEF Opposite, Positions, IsGraph
<1>3. \A n \in DOMAIN g.nodes, q \in Positions :
         LET x == SetEdge(g.nodes[n], q, e0)
         IN  /\ x \in NodeRecord
             /\ x.ts = g.nodes[n].ts /\ x.tid = g.nodes[n].tid
             /\ \A r \in Positions :
                   x.edge[r] = IF r = q THEN e0 ELSE g.nodes[n].edge[r]
  BY <1>2 DEF SetEdge, IsGraph, NodeRecord
<1>4. nodes \in [DOMAIN g.nodes -> NodeRecord]
  BY <1>2, <1>3 DEF IsGraph
<1>5. new \in EdgeRecord
  BY <1>2 DEF EdgeRecord
<1>6. /\ edges \in [DOMAIN edges -> EdgeRecord]
      /\ DOMAIN edges = DOMAIN g.edges \cup {e0}
      /\ e0 \notin DOMAIN g.edges
      /\ \A e \in DOMAIN g.edges : edges[e] = g.edges[e]
      /\ edges[e0] = new
  BY <1>2, <1>5 DEF IsGraph
<1>7. \A n \in DOMAIN g.nodes :
         /\ nodes[n].ts = g.nodes[n].ts /\ nodes[n].tid = g.nodes[n].tid
         /\ \A q \in Positions :
               nodes[n].edge[q] =
                  IF (n = from /\ q = p) \/ (n = to /\ q = Opposite(p))
                  THEN e0 ELSE g.nodes[n].edge[q]
  BY <1>2, <1>3
<1> HIDE DEF h, nodes, edges, new
<1>8. /\ h.ts = g.ts /\ h.nextNode = g.nextNode /\ h.nextEdge = e0 + 1
      /\ h.nodes = nodes /\ h.edges = edges
      /\ h = [ts |-> h.ts, nodes |-> h.nodes, nextNode |-> h.nextNode,
              edges |-> h.edges, nextEdge |-> h.nextEdge]
  BY <1>1 DEF IsGraph
<1>9. IsGraph(h) /\ DOMAIN h.nodes = DOMAIN g.nodes
  BY <1>2, <1>4, <1>6, <1>8 DEF IsGraph
<1>10. /\ IsGraph(h) /\ h.ts = g.ts /\ h.nextNode = g.nextNode
       /\ DOMAIN h.nodes = DOMAIN g.nodes
       /\ e0 \in Nat /\ e0 \notin DOMAIN g.edges
       /\ DOMAIN h.edges = DOMAIN g.edges \cup {e0}
       /\ \A e \in DOMAIN g.edges : h.edges[e] = g.edges[e]
       /\ h.edges[e0] = new
  BY <1>2, <1>6, <1>8, <1>9
<1>11. \A n \in DOMAIN g.nodes :
         /\ h.nodes[n].ts = g.nodes[n].ts /\ h.nodes[n].tid = g.nodes[n].tid
         /\ \A q \in Positions :
               h.nodes[n].edge[q] =
                  IF (n = from /\ q = p) \/ (n = to /\ q = Opposite(p))
                  THEN e0 ELSE g.nodes[n].edge[q]
  BY <1>7, <1>8
<1>12. EdgeAdded(g, h, p, type, from, to)
  BY <1>10, <1>11, Zenon DEF EdgeAdded, new
<1>13. QED
  BY <1>12 DEF h

(* A new edge keeps the graph sound when its target's slot is free, when   *)
(* the source's slot is free or belongs to the network thread, when a      *)
(* wake-up is instantaneous, a thread edge joins neighbours and a hop      *)
(* leaves the node of a packet.                                            *)
LEMMA CreateEdgeSound ==
  ASSUME NEW g, GraphSound(g),
         NEW p \in {"outVertical", "outHorizontal"}, NEW type \in EdgeTypes,
         (p = "outVertical") <=> (type = "kVertical"),
         NEW from \in DOMAIN g.nodes, NEW to \in DOMAIN g.nodes, from < to,
         \/ g.nodes[from].edge[p] = NoEdge
         \/ p = "outHorizontal" /\ g.nodes[from].tid = NetworkThread,
         g.nodes[to].edge[Opposite(p)] = NoEdge,
         p = "outVertical" =>
            /\ g.nodes[from].ts = g.nodes[to].ts
            /\ g.nodes[to].tid = NetworkThread => g.nodes[from].tid \in Threads,
         p = "outHorizontal" =>
            /\ g.nodes[from].tid = g.nodes[to].tid
            /\ \/ \A n \in NodesOf(g, g.nodes[to].tid) : n <= from \/ n >= to
               \/ g.nodes[to].tid = NetworkThread
            /\ g.nodes[to].tid = NetworkThread => IsPacketNode(g, from)
  PROVE  GraphSound(CreateEdge(g, p, type, from, to))
<1> DEFINE h == CreateEdge(g, p, type, from, to)
           e0 == g.nextEdge
<1>1. /\ p \in Positions /\ Opposite(p) \in Positions /\ p # Opposite(p)
      /\ p = "outVertical" => Opposite(p) = "inVertical"
      /\ p = "outHorizontal" => Opposite(p) = "inHorizontal"
  BY DEF Positions, Opposite
<1>2. /\ IsGraph(h) /\ h.ts = g.ts
      /\ DOMAIN h.nodes = DOMAIN g.nodes
      /\ \A n \in DOMAIN g.nodes :
            /\ h.nodes[n].ts = g.nodes[n].ts
            /\ h.nodes[n].tid = g.nodes[n].tid
            /\ \A q \in Positions :
                  h.nodes[n].edge[q] =
                     IF (n = from /\ q = p) \/ (n = to /\ q = Opposite(p))
                     THEN e0 ELSE g.nodes[n].edge[q]
      /\ e0 \in Nat /\ e0 \notin DOMAIN g.edges
      /\ DOMAIN h.edges = DOMAIN g.edges \cup {e0}
      /\ \A e \in DOMAIN g.edges : h.edges[e] = g.edges[e]
      /\ h.edges[e0] = [type |-> type, from |-> from, to |-> to]
  <2>1. EdgeAdded(g, h, p, type, from, to)
    BY <1>1, CreateEdgeShape DEF GraphSound
  <2> HIDE DEF h
  <2>2. QED
    BY <2>1, Zenon DEF EdgeAdded
<1> HIDE DEF h, e0
<1>3. \A e \in DOMAIN g.edges :
         /\ IsVertical(h, e) = IsVertical(g, e)
         /\ OutSlot(h, e) = OutSlot(g, e) /\ InSlot(h, e) = InSlot(g, e)
         /\ Anchored(h, e) = Anchored(g, e)
         /\ To(h, e).tid = To(g, e).tid /\ To(h, e).ts = To(g, e).ts
         /\ Anchored(g, e) => /\ From(h, e).tid = From(g, e).tid
                              /\ From(h, e).ts = From(g, e).ts
         /\ IsHop(h, e) = IsHop(g, e) /\ IsThreadEdge(h, e) = IsThreadEdge(g, e)
  <2> SUFFICES ASSUME NEW e \in DOMAIN g.edges
               PROVE  /\ IsVertical(h, e) = IsVertical(g, e)
                      /\ OutSlot(h, e) = OutSlot(g, e) /\ InSlot(h, e) = InSlot(g, e)
                      /\ Anchored(h, e) = Anchored(g, e)
                      /\ To(h, e).tid = To(g, e).tid /\ To(h, e).ts = To(g, e).ts
                      /\ Anchored(g, e) => /\ From(h, e).tid = From(g, e).tid
                                           /\ From(h, e).ts = From(g, e).ts
                      /\ IsHop(h, e) = IsHop(g, e)
                      /\ IsThreadEdge(h, e) = IsThreadEdge(g, e)
    OBVIOUS
  <2>1. h.edges[e] = g.edges[e] /\ DOMAIN h.nodes = DOMAIN g.nodes
    BY <1>2
  <2>2. g.edges[e].to \in DOMAIN g.nodes
    BY DEF GraphSound, EdgesAnchoredIn
  <2>3. \A n \in DOMAIN g.nodes : h.nodes[n].tid = g.nodes[n].tid
                                 /\ h.nodes[n].ts = g.nodes[n].ts
    BY <1>2
  <2>4. IsVertical(h, e) = IsVertical(g, e) /\ Anchored(h, e) = Anchored(g, e)
    BY <2>1 DEF IsVertical, Anchored
  <2>5. To(h, e).tid = To(g, e).tid /\ To(h, e).ts = To(g, e).ts
    BY <2>1, <2>2, <2>3 DEF To
  <2>6. Anchored(g, e) => From(h, e).tid = From(g, e).tid /\ From(h, e).ts = From(g, e).ts
    BY <2>1, <2>3 DEF From, Anchored
  <2>7. QED
    BY <2>4, <2>5, <2>6 DEF OutSlot, InSlot, IsHop, IsThreadEdge
<1>4. /\ IsVertical(h, e0) <=> p = "outVertical"
      /\ OutSlot(h, e0) = p /\ InSlot(h, e0) = Opposite(p)
      /\ h.edges[e0].from = from /\ h.edges[e0].to = to
      /\ From(h, e0) = h.nodes[from] /\ To(h, e0) = h.nodes[to] /\ Anchored(h, e0)
  BY <1>1, <1>2 DEF IsVertical, OutSlot, InSlot, From, To, Anchored
<1>5. from # to /\ Holder(h.edges[e0], p) = from /\ Holder(h.edges[e0], Opposite(p)) = to
  BY <1>1, <1>4 DEF Holder, GraphSound, IsGraph
<1>6. SlotsResolveIn(h)
  BY <1>1, <1>2, <1>3, <1>4, <1>5, SMTT(30) DEF GraphSound, SlotsResolveIn
<1>7. EdgesAnchoredIn(h)
  <2> SUFFICES ASSUME NEW e \in DOMAIN h.edges
               PROVE  /\ h.edges[e].from < h.edges[e].to
                      /\ h.edges[e].to \in DOMAIN h.nodes
                      /\ To(h, e).edge[InSlot(h, e)] = e
                      /\ ~IsHop(h, e) => Anchored(h, e)
                                         /\ From(h, e).edge[OutSlot(h, e)] = e
    BY DEF EdgesAnchoredIn
  <2>1. CASE e = e0
    BY <1>1, <1>2, <1>4, <2>1
  <2>2. CASE e \in DOMAIN g.edges
    <3>1. /\ g.edges[e].from < g.edges[e].to
          /\ g.edges[e].to \in DOMAIN g.nodes
          /\ To(g, e).edge[InSlot(g, e)] = e
          /\ InSlot(g, e) \in Positions /\ OutSlot(g, e) \in Positions
          /\ e # NoEdge /\ e # e0
      BY <1>2, <2>2 DEF GraphSound, EdgesAnchoredIn, InSlot, OutSlot, Positions, IsGraph, NoEdge
    <3>2. To(h, e).edge[InSlot(h, e)] = e
      <4>1. InSlot(g, e) # p
        BY <1>1 DEF InSlot
      <4>2. ~(g.edges[e].to = to /\ InSlot(g, e) = Opposite(p))
        BY <3>1 DEF To
      <4>3. h.nodes[g.edges[e].to].edge[InSlot(g, e)] = g.nodes[g.edges[e].to].edge[InSlot(g, e)]
        BY <1>2, <3>1, <4>1, <4>2
      <4>4. h.edges[e] = g.edges[e] /\ InSlot(h, e) = InSlot(g, e)
        BY <1>2, <1>3, <2>2
      <4>5. QED
        BY <3>1, <4>3, <4>4 DEF To
    <3>3. ASSUME ~IsHop(h, e)
          PROVE  Anchored(h, e) /\ From(h, e).edge[OutSlot(h, e)] = e
      <4>1. ~IsHop(g, e) /\ Anchored(g, e) /\ From(g, e).edge[OutSlot(g, e)] = e
        BY <1>3, <2>2, <3>3 DEF GraphSound, EdgesAnchoredIn
      <4>2. ~(g.edges[e].from = from /\ OutSlot(g, e) = p)
        <5> SUFFICES ASSUME g.edges[e].from = from, OutSlot(g, e) = p
                     PROVE  FALSE
          OBVIOUS
        <5>1. g.nodes[from].edge[p] = e
          BY <4>1 DEF From
        <5>2. p = "outHorizontal" /\ g.nodes[from].tid = NetworkThread
          BY <3>1, <5>1
        <5>3. IsThreadEdge(g, e)
          BY <4>1, <5>2 DEF IsHop, IsThreadEdge, OutSlot
        <5>4. From(g, e).tid # NetworkThread
          BY <2>2, <5>3 DEF GraphSound, ThreadEdgesAdjacentIn, IsThreadEdge
        <5>5. QED
          BY <5>2, <5>4 DEF From
      <4>3. OutSlot(g, e) # Opposite(p)
        BY <1>1 DEF OutSlot
      <4>4. g.edges[e].from \in DOMAIN g.nodes
        BY <4>1 DEF Anchored
      <4>5. h.nodes[g.edges[e].from].edge[OutSlot(g, e)] = g.nodes[g.edges[e].from].edge[OutSlot(g, e)]
        BY <1>2, <3>1, <4>2, <4>3, <4>4
      <4>6. h.edges[e] = g.edges[e] /\ OutSlot(h, e) = OutSlot(g, e)
            /\ DOMAIN h.nodes = DOMAIN g.nodes
        BY <1>2, <1>3, <2>2
      <4>7. QED
        BY <4>1, <4>4, <4>5, <4>6 DEF From, Anchored
    <3>4. QED
      BY <1>2, <2>2, <3>1, <3>2, <3>3
  <2>3. QED
    BY <1>2, <2>1, <2>2
<1>8. HistoryOrderedIn(h)
  BY <1>2 DEF GraphSound, HistoryOrderedIn
<1>9. ThreadEdgesAdjacentIn(h)
  <2> SUFFICES ASSUME NEW e \in DOMAIN h.edges, IsThreadEdge(h, e)
               PROVE  /\ From(h, e).tid = To(h, e).tid
                      /\ \A n \in NodesOf(h, To(h, e).tid) :
                            n <= h.edges[e].from \/ n >= h.edges[e].to
    BY DEF ThreadEdgesAdjacentIn
  <2>1. \A tid : NodesOf(h, tid) = NodesOf(g, tid)
    BY <1>2 DEF NodesOf
  <2>2. CASE e = e0
    BY <1>1, <1>2, <1>4, <2>1, <2>2 DEF IsThreadEdge
  <2>3. CASE e \in DOMAIN g.edges
    <3>1. Anchored(g, e) /\ IsThreadEdge(g, e)
      BY <1>3, <2>3 DEF GraphSound, EdgesAnchoredIn, IsHop, IsThreadEdge
    <3>2. QED
      BY <1>2, <1>3, <2>1, <2>3, <3>1 DEF GraphSound, ThreadEdgesAdjacentIn
  <2>4. QED
    BY <1>2, <2>2, <2>3
<1>10. VerticalSimultaneousIn(h)
  <2> SUFFICES ASSUME NEW e \in DOMAIN h.edges, IsVertical(h, e)
               PROVE  From(h, e).ts = To(h, e).ts
    BY DEF VerticalSimultaneousIn
  <2>1. CASE e = e0
    BY <1>2, <1>4, <2>1
  <2>2. CASE e \in DOMAIN g.edges
    BY <1>3, <2>2 DEF GraphSound, VerticalSimultaneousIn, EdgesAnchoredIn, IsHop
  <2>3. QED
    BY <1>2, <2>1, <2>2
<1>11. ASSUME NEW n \in DOMAIN g.nodes, IsPacketNode(g, n)
       PROVE  IsPacketNode(h, n)
  <2> DEFINE s == g.nodes[n].edge["inVertical"]
  <2>1. s \in DOMAIN g.edges /\ IsVertical(g, s) /\ g.edges[s].to = n
    BY <1>11 DEF GraphSound, SlotsResolveIn, IsPacketNode, OutSlot, InSlot,
                 Positions, Holder
  <2>2. Anchored(g, s)
    BY <2>1 DEF GraphSound, EdgesAnchoredIn, IsHop
  <2>3. h.nodes[n].edge["inVertical"] = s /\ h.nodes[n].tid = NetworkThread
    BY <1>1, <1>2, <1>11, <2>1 DEF IsPacketNode, Positions
  <2>4. QED
    BY <1>3, <1>11, <2>1, <2>2, <2>3 DEF IsPacketNode
<1>12. HopHasSenderIn(h)
  <2> SUFFICES ASSUME NEW e \in DOMAIN h.edges, IsHop(h, e), Anchored(h, e)
               PROVE  IsPacketNode(h, h.edges[e].from)
    BY DEF HopHasSenderIn
  <2>1. CASE e = e0
    BY <1>2, <1>4, <1>11, <2>1 DEF IsHop
  <2>2. CASE e \in DOMAIN g.edges
    BY <1>2, <1>3, <1>11, <2>2 DEF GraphSound, HopHasSenderIn, Anchored
  <2>3. QED
    BY <1>2, <2>1, <2>2
<1>13. QED
  BY <1>2, <1>6, <1>7, <1>8, <1>9, <1>10, <1>12 DEF GraphSound, h

----------------------------------------------------------------------------
(* The steps that CriticalBlock composes of these.                         *)

(* The newest node of a thread has no outgoing horizontal edge yet.        *)
LEMMA LastNodeOpen ==
  ASSUME NEW g, GraphSound(g), NEW tid \in Threads, LastNode(g, tid) # NoNode
  PROVE  g.nodes[LastNode(g, tid)].edge["outHorizontal"] = NoEdge
<1> DEFINE n == LastNode(g, tid)
           e == g.nodes[n].edge["outHorizontal"]
<1> SUFFICES ASSUME e # NoEdge PROVE FALSE
  OBVIOUS
<1>1. /\ n \in DOMAIN g.nodes /\ g.nodes[n].tid = tid
      /\ \A m \in NodesOf(g, tid) : m <= n
  BY LastNodeNewest DEF GraphSound
<1> HIDE DEF n
<1>2. /\ e \in DOMAIN g.edges /\ OutSlot(g, e) = "outHorizontal"
      /\ g.edges[e].from = n
  BY <1>1 DEF GraphSound, SlotsResolveIn, Positions, OutSlot, InSlot, Holder
<1>3. /\ g.edges[e].to \in DOMAIN g.nodes /\ n < g.edges[e].to
      /\ Anchored(g, e) /\ From(g, e) = g.nodes[n]
  BY <1>1, <1>2 DEF GraphSound, EdgesAnchoredIn, Anchored, From
<1>4. n \in Nat /\ g.edges[e].to \in Nat
  BY <1>1, <1>3 DEF GraphSound, IsGraph
<1> HIDE DEF e
<1>5. ~IsHop(g, e)
  <2>1. g.nodes[n].tid # NetworkThread
    BY <1>1, NetworkThreadAssumption
  <2>2. QED
    BY <1>2, <1>3, <2>1 DEF GraphSound, HopHasSenderIn, IsPacketNode
<1>6. To(g, e).tid = tid
  <2>1. IsThreadEdge(g, e)
    BY <1>2, <1>5 DEF IsHop, IsThreadEdge, OutSlot
  <2>2. QED
    BY <1>1, <1>2, <1>3, <2>1 DEF GraphSound, ThreadEdgesAdjacentIn
<1>7. QED
  BY <1>1, <1>3, <1>4, <1>6 DEF NodesOf, To

(* CutThread: the thread's open edge ends at a new node, at the present    *)
(* time, whose other slots are free; nothing else changes.                 *)
LEMMA CutSound ==
  ASSUME NEW g, GraphSound(g), NEW tid \in Threads, LastNode(g, tid) # NoNode,
         NEW type \in EdgeTypes \ {"kVertical"}
  PROVE  LET h == CreateHorizontalEdge(CreateNode(g, tid), type,
                                       LastNode(g, tid), g.nextNode)
         IN  /\ GraphSound(h)
             /\ h.ts = g.ts /\ h.nextNode = g.nextNode + 1
             /\ g.nextNode \in Nat \ {NoNode}
             /\ g.nextNode \notin DOMAIN g.nodes
             /\ DOMAIN h.nodes = DOMAIN g.nodes \cup {g.nextNode}
             /\ h.nodes[g.nextNode].tid = tid
             /\ h.nodes[g.nextNode].ts = g.ts
             /\ \A p \in Positions \ {"inHorizontal"} :
                   h.nodes[g.nextNode].edge[p] = NoEdge
             /\ \A n \in DOMAIN g.nodes :
                   /\ h.nodes[n].tid = g.nodes[n].tid
                   /\ h.nodes[n].ts = g.nodes[n].ts
                   /\ \A p \in Positions \ {"outHorizontal"} :
                         h.nodes[n].edge[p] = g.nodes[n].edge[p]
             /\ \A e \in DOMAIN g.edges :
                   e \in DOMAIN h.edges /\ h.edges[e] = g.edges[e]
<1> DEFINE c == CreateNode(g, tid)
           from == LastNode(g, tid)
           to == g.nextNode
           h == CreateEdge(c, "outHorizontal", type, from, to)
<1>1. /\ from \in DOMAIN g.nodes /\ g.nodes[from].tid = tid
      /\ \A m \in NodesOf(g, tid) : m <= from
      /\ g.nodes[from].edge["outHorizontal"] = NoEdge
  BY LastNodeNewest, LastNodeOpen DEF GraphSound
<1>2. tid \in Tids /\ tid # NetworkThread
  BY NetworkThreadAssumption DEF Tids
<1>3. /\ GraphSound(c) /\ IsGraph(c) /\ c.ts = g.ts /\ c.edges = g.edges
      /\ c.nextNode = to + 1 /\ c.nextEdge = g.nextEdge
      /\ DOMAIN c.nodes = DOMAIN g.nodes \cup {to}
      /\ \A n \in DOMAIN g.nodes : c.nodes[n] = g.nodes[n] /\ n < to
      /\ to \in Nat \ {NoNode} /\ to \notin DOMAIN g.nodes
      /\ c.nodes[to].ts = g.ts /\ c.nodes[to].tid = tid
      /\ \A p \in Positions : c.nodes[to].edge[p] = NoEdge
  BY <1>2, CreateNodeShape, CreateNodeSound DEF GraphSound
<1>4. h = CreateHorizontalEdge(c, type, from, to)
  BY DEF CreateHorizontalEdge
<1> HIDE DEF c, from, to, h
<1>5. \A n \in NodesOf(c, tid) : n <= from \/ n >= to
  BY <1>1, <1>3 DEF NodesOf
<1>6. /\ "outHorizontal" \in Positions /\ "inHorizontal" \in Positions
      /\ Opposite("outHorizontal") = "inHorizontal"
  BY DEF Positions, Opposite
<1>7. GraphSound(h)
  BY <1>1, <1>2, <1>3, <1>5, <1>6, CreateEdgeSound DEF h
<1>8. /\ h.ts = c.ts /\ h.nextNode = c.nextNode
      /\ DOMAIN h.nodes = DOMAIN c.nodes
      /\ DOMAIN h.edges = DOMAIN c.edges \cup {c.nextEdge}
      /\ \A e \in DOMAIN c.edges : h.edges[e] = c.edges[e]
      /\ \A n \in DOMAIN c.nodes :
            /\ h.nodes[n].ts = c.nodes[n].ts
            /\ h.nodes[n].tid = c.nodes[n].tid
            /\ \A q \in Positions :
                  h.nodes[n].edge[q] =
                     IF (n = from /\ q = "outHorizontal")
                        \/ (n = to /\ q = "inHorizontal")
                     THEN c.nextEdge ELSE c.nodes[n].edge[q]
  <2>1. from \in DOMAIN c.nodes /\ to \in DOMAIN c.nodes /\ from < to
        /\ type \in EdgeTypes
    BY <1>1, <1>3
  <2>2. EdgeAdded(c, h, "outHorizontal", type, from, to)
    BY <1>3, <1>6, <2>1, CreateEdgeShape DEF h
  <2>3. QED
    BY <1>6, <2>2 DEF EdgeAdded
<1>9. /\ h.ts = g.ts /\ h.nextNode = to + 1
      /\ DOMAIN h.nodes = DOMAIN g.nodes \cup {to}
      /\ h.nodes[to].tid = tid /\ h.nodes[to].ts = g.ts
      /\ \A p \in Positions \ {"inHorizontal"} : h.nodes[to].edge[p] = NoEdge
      /\ \A e \in DOMAIN g.edges : e \in DOMAIN h.edges /\ h.edges[e] = g.edges[e]
  BY <1>1, <1>3, <1>8
<1>10. \A n \in DOMAIN g.nodes :
          /\ h.nodes[n].tid = g.nodes[n].tid
          /\ h.nodes[n].ts = g.nodes[n].ts
          /\ \A p \in Positions \ {"outHorizontal"} :
                h.nodes[n].edge[p] = g.nodes[n].edge[p]
  BY <1>3, <1>8
<1>11. h = CreateHorizontalEdge(CreateNode(g, tid), type, LastNode(g, tid), g.nextNode)
  BY <1>4 DEF c, from, to
<1>12. QED
  BY <1>3, <1>7, <1>9, <1>10, <1>11 DEF to

(* A packet node stays one while threads are cut and nodes are created.    *)
LEMMA PacketNodeStays ==
  ASSUME NEW g, GraphSound(g), NEW h, NEW n \in DOMAIN g.nodes, IsPacketNode(g, n),
         DOMAIN g.nodes \subseteq DOMAIN h.nodes,
         \A m \in DOMAIN g.nodes : h.nodes[m].tid = g.nodes[m].tid,
         h.nodes[n].edge["inVertical"] = g.nodes[n].edge["inVertical"],
         \A e \in DOMAIN g.edges : e \in DOMAIN h.edges /\ h.edges[e] = g.edges[e]
  PROVE  n \in DOMAIN h.nodes /\ IsPacketNode(h, n)
<1> DEFINE s == g.nodes[n].edge["inVertical"]
<1>1. s \in DOMAIN g.edges /\ IsVertical(g, s)
  BY DEF GraphSound, SlotsResolveIn, IsPacketNode, OutSlot, InSlot, Positions
<1>2. s # NoEdge /\ g.nodes[n].tid = NetworkThread
      /\ g.nodes[g.edges[s].from].tid \in Threads
  BY DEF IsPacketNode, From
<1>3. h.nodes[n].edge["inVertical"] = s /\ h.nodes[n].tid = g.nodes[n].tid
  OBVIOUS
<1> HIDE DEF s
<1>4. g.edges[s].from \in DOMAIN g.nodes
  BY <1>1 DEF GraphSound, EdgesAnchoredIn, IsHop, Anchored
<1>5. h.edges[s] = g.edges[s]
      /\ h.nodes[g.edges[s].from].tid = g.nodes[g.edges[s].from].tid
  BY <1>1, <1>4
<1>6. QED
  BY <1>2, <1>3, <1>5 DEF IsPacketNode, From

----------------------------------------------------------------------------
(* Cleanup.                                                                *)

(* In time order, the prefix that Cleanup removes is all that is old.      *)
LEMMA RemovedIsOld ==
  ASSUME NEW g, IsGraph(g), HistoryOrderedIn(g), NEW ts \in Nat
  PROVE  Removed(g, ts) = {n \in DOMAIN g.nodes : g.nodes[n].ts < ts}
<1>1. \A n \in DOMAIN g.nodes : n \in Nat /\ g.nodes[n].ts \in Nat
  BY DEF IsGraph, NodeRecord
<1>2. \A m, n \in DOMAIN g.nodes : m <= n => g.nodes[m].ts <= g.nodes[n].ts
  <2> SUFFICES ASSUME NEW m \in DOMAIN g.nodes, NEW n \in DOMAIN g.nodes, m <= n
               PROVE  g.nodes[m].ts <= g.nodes[n].ts
    OBVIOUS
  <2>1. m = n \/ m < n
    BY <1>1
  <2>2. QED
    BY <1>1, <2>1 DEF HistoryOrderedIn
<1>3. QED
  BY <1>1, <1>2 DEF Removed

(* What is erased is an edge of the graph with an end that is removed.     *)
LEMMA ErasedEnds ==
  ASSUME NEW g, GraphSound(g), NEW ts, NEW e \in ErasedEdges(g, ts)
  PROVE  /\ e \in DOMAIN g.edges
         /\ g.edges[e].from \in Removed(g, ts) \/ g.edges[e].to \in Removed(g, ts)
<1>1. PICK m \in Removed(g, ts), q \in Positions :
         g.nodes[m].edge[q] = e /\ e # NoEdge
  BY DEF ErasedEdges
<1>2. m \in DOMAIN g.nodes
  BY DEF Removed
<1>3. e \in DOMAIN g.edges /\ Holder(g.edges[e], q) = m
  BY <1>1, <1>2 DEF GraphSound, SlotsResolveIn
<1>4. QED
  BY <1>3 DEF Holder

(* The edges that stay have a target that stays, and a source that stays   *)
(* unless it is a hop.                                                     *)
LEMMA KeptEnds ==
  ASSUME NEW g, GraphSound(g), NEW ts,
         NEW e \in DOMAIN g.edges \ ErasedEdges(g, ts)
  PROVE  /\ g.edges[e].to \in DOMAIN g.nodes \ Removed(g, ts)
         /\ ~IsHop(g, e) => g.edges[e].from \in DOMAIN g.nodes \ Removed(g, ts)
<1>1. /\ g.edges[e].to \in DOMAIN g.nodes
      /\ g.nodes[g.edges[e].to].edge[InSlot(g, e)] = e
      /\ ~IsHop(g, e) => /\ g.edges[e].from \in DOMAIN g.nodes
                         /\ g.nodes[g.edges[e].from].edge[OutSlot(g, e)] = e
  BY DEF GraphSound, EdgesAnchoredIn, To, From, Anchored
<1>2. e # NoEdge /\ InSlot(g, e) \in Positions /\ OutSlot(g, e) \in Positions
  BY DEF GraphSound, IsGraph, NoEdge, InSlot, OutSlot, Positions
<1>3. \A m \in Removed(g, ts), q \in Positions : g.nodes[m].edge[q] # e
  BY <1>2 DEF ErasedEdges
<1>4. QED
  BY <1>1, <1>2, <1>3

(* What a surviving node forgets is exactly what is erased.                *)
LEMMA ClearedIsErased ==
  ASSUME NEW g, GraphSound(g), NEW ts \in Nat,
         NEW n \in DOMAIN g.nodes \ Removed(g, ts), NEW p \in Positions
  PROVE  Cleared(g, ts, n, p) <=> g.nodes[n].edge[p] \in ErasedEdges(g, ts)
<1> DEFINE R == Removed(g, ts)
           old == {k \in DOMAIN g.nodes : g.nodes[k].ts < ts}
<1>1. R = old /\ \A k \in DOMAIN g.nodes : k \in Nat /\ g.nodes[k].ts \in Nat
  BY RemovedIsOld DEF GraphSound, IsGraph, NodeRecord
<1>2. ASSUME g.nodes[n].edge[p] \in ErasedEdges(g, ts)
      PROVE  Cleared(g, ts, n, p)
  <2> DEFINE e == g.nodes[n].edge[p]
  <2>1. PICK m \in R, q \in Positions : g.nodes[m].edge[q] = e /\ e # NoEdge
    BY <1>2 DEF ErasedEdges
  <2>2. /\ p \in {OutSlot(g, e), InSlot(g, e)} /\ Holder(g.edges[e], p) = n
        /\ q \in {OutSlot(g, e), InSlot(g, e)} /\ Holder(g.edges[e], q) = m
    BY <1>1, <2>1 DEF GraphSound, SlotsResolveIn
  <2>3. q # p
    BY <2>1, <2>2
  <2>4. q = Opposite(p)
    BY <2>2, <2>3 DEF OutSlot, InSlot, Opposite
  <2>5. QED
    BY <2>1, <2>2, <2>4 DEF Cleared
<1>3. ASSUME Cleared(g, ts, n, p)
      PROVE  g.nodes[n].edge[p] \in ErasedEdges(g, ts)
  <2>1. PICK m \in R : /\ g.nodes[m].edge[Opposite(p)] # NoEdge
                       /\ Holder(g.edges[g.nodes[m].edge[Opposite(p)]], p) = n
    BY <1>3 DEF Cleared
  <2> DEFINE e == g.nodes[m].edge[Opposite(p)]
  <2>2. Opposite(p) \in Positions
    BY DEF Opposite, Positions
  <2>3. /\ e \in DOMAIN g.edges /\ Opposite(p) \in {OutSlot(g, e), InSlot(g, e)}
        /\ Holder(g.edges[e], Opposite(p)) = m
    BY <1>1, <2>1, <2>2 DEF GraphSound, SlotsResolveIn
  <2>4. p \in {OutSlot(g, e), InSlot(g, e)} /\ Holder(g.edges[e], p) = n
    BY <2>1, <2>3 DEF OutSlot, InSlot, Opposite, Positions
  <2>5. g.edges[e].from < g.edges[e].to
    BY <2>3 DEF GraphSound, EdgesAnchoredIn
  <2>6. p = InSlot(g, e)
    <3> SUFFICES ASSUME p = OutSlot(g, e) PROVE FALSE
      BY <2>4
    <3>1. n = g.edges[e].from /\ m = g.edges[e].to
      BY <2>3, <2>4 DEF OutSlot, Opposite, Holder
    <3>2. n < m
      BY <2>5, <3>1
    <3>3. g.nodes[n].ts <= g.nodes[m].ts
      BY <1>1, <3>2 DEF GraphSound, HistoryOrderedIn
    <3>4. QED
      BY <1>1, <3>3
  <2>7. n = g.edges[e].to
    BY <2>4, <2>6 DEF InSlot, Holder
  <2>8. g.nodes[n].edge[p] = e
    BY <2>3, <2>6, <2>7 DEF GraphSound, EdgesAnchoredIn, To
  <2>9. e \in ErasedEdges(g, ts)
    BY <2>1, <2>2 DEF ErasedEdges
  <2>10. QED
    BY <2>8, <2>9
<1>4. QED
  BY <1>2, <1>3

(* Cleanup, as the nodes and the edges that it leaves.                     *)
LEMMA CleanupForm ==
    ASSUME NEW g, NEW ts
    PROVE  LET slots(n) == [p \in Positions |-> IF Cleared(g, ts, n, p) THEN NoEdge
                                                ELSE g.nodes[n].edge[p]]
               nodes == [n \in DOMAIN g.nodes \ Removed(g, ts) |->
                           [g.nodes[n] EXCEPT !.edge = slots(n)]]
               edges == [e \in DOMAIN g.edges \ ErasedEdges(g, ts) |-> g.edges[e]]
           IN  Cleanup(g, ts) = [g EXCEPT !.nodes = nodes, !.edges = edges]
BY DEF Cleanup, Restrict

(* What Cleanup leaves.                                                    *)
LEMMA CleanupShape ==
  ASSUME NEW g, GraphSound(g), NEW ts \in Nat
  PROVE  LET h == Cleanup(g, ts)
         IN  /\ IsGraph(h) /\ h.ts = g.ts /\ h.nextNode = g.nextNode
             /\ DOMAIN h.nodes = DOMAIN g.nodes \ Removed(g, ts)
             /\ \A n \in DOMAIN h.nodes :
                   /\ h.nodes[n].ts = g.nodes[n].ts
                   /\ h.nodes[n].tid = g.nodes[n].tid
                   /\ \A p \in Positions :
                         h.nodes[n].edge[p] =
                            IF g.nodes[n].edge[p] \in ErasedEdges(g, ts)
                            THEN NoEdge ELSE g.nodes[n].edge[p]
             /\ DOMAIN h.edges = DOMAIN g.edges \ ErasedEdges(g, ts)
             /\ \A e \in DOMAIN h.edges : h.edges[e] = g.edges[e]
<1> DEFINE h == Cleanup(g, ts)
           slots(n) == [p \in Positions |-> IF Cleared(g, ts, n, p) THEN NoEdge
                                            ELSE g.nodes[n].edge[p]]
           nodes == [n \in DOMAIN g.nodes \ Removed(g, ts) |->
                       [g.nodes[n] EXCEPT !.edge = slots(n)]]
           edges == [e \in DOMAIN g.edges \ ErasedEdges(g, ts) |-> g.edges[e]]
<1>1. h = [g EXCEPT !.nodes = nodes, !.edges = edges]
  BY DEF Cleanup, Restrict
<1>2. \A n \in DOMAIN g.nodes \ Removed(g, ts) :
         /\ slots(n) \in [Positions -> Nat \cup {NoEdge}]
         /\ \A p \in Positions :
               slots(n)[p] = IF g.nodes[n].edge[p] \in ErasedEdges(g, ts)
                             THEN NoEdge ELSE g.nodes[n].edge[p]
  BY ClearedIsErased DEF GraphSound, IsGraph, NodeRecord
<1> HIDE DEF slots
<1>3. \A n \in DOMAIN g.nodes \ Removed(g, ts) :
         /\ nodes[n] \in NodeRecord
         /\ nodes[n].ts = g.nodes[n].ts /\ nodes[n].tid = g.nodes[n].tid
         /\ nodes[n].edge = slots(n)
  BY <1>2 DEF GraphSound, IsGraph, NodeRecord
<1>4. /\ DOMAIN nodes = DOMAIN g.nodes \ Removed(g, ts)
      /\ DOMAIN edges = DOMAIN g.edges \ ErasedEdges(g, ts)
      /\ \A e \in DOMAIN edges : edges[e] = g.edges[e]
      /\ nodes \in [DOMAIN nodes -> NodeRecord]
      /\ edges \in [DOMAIN edges -> EdgeRecord]
  BY <1>3 DEF GraphSound, IsGraph
<1> HIDE DEF nodes, edges, h
<1>5. /\ h.ts = g.ts /\ h.nextNode = g.nextNode /\ h.nextEdge = g.nextEdge
      /\ h.nodes = nodes /\ h.edges = edges
      /\ h = [ts |-> h.ts, nodes |-> h.nodes, nextNode |-> h.nextNode,
              edges |-> h.edges, nextEdge |-> h.nextEdge]
  BY <1>1 DEF GraphSound, IsGraph
<1>6. IsGraph(h)
  BY <1>4, <1>5 DEF GraphSound, IsGraph
<1>7. QED
  BY <1>2, <1>3, <1>4, <1>5, <1>6 DEF h

(* Cleanup keeps the graph sound: a wake-up loses both ends or none, a     *)
(* thread edge that loses its source is erased with it, and what is left   *)
(* with one end are hops, which nobody follows backwards.                  *)
LEMMA CleanupSound ==
  ASSUME NEW g, GraphSound(g), NEW ts \in Nat
  PROVE  /\ GraphSound(Cleanup(g, ts))
         /\ \A n \in DOMAIN Cleanup(g, ts).nodes :
               IsPacketNode(g, n) => IsPacketNode(Cleanup(g, ts), n)
<1> DEFINE h == Cleanup(g, ts)
<1>1. /\ IsGraph(h) /\ h.ts = g.ts
      /\ DOMAIN h.nodes = DOMAIN g.nodes \ Removed(g, ts)
      /\ \A n \in DOMAIN h.nodes :
            /\ h.nodes[n].ts = g.nodes[n].ts
            /\ h.nodes[n].tid = g.nodes[n].tid
            /\ \A p \in Positions :
                  h.nodes[n].edge[p] = IF g.nodes[n].edge[p] \in ErasedEdges(g, ts)
                                       THEN NoEdge ELSE g.nodes[n].edge[p]
      /\ DOMAIN h.edges = DOMAIN g.edges \ ErasedEdges(g, ts)
      /\ \A e \in DOMAIN h.edges : h.edges[e] = g.edges[e]
  BY CleanupShape
<1> HIDE DEF h
<1>2. \A e \in DOMAIN h.edges :
         /\ g.edges[e].to \in DOMAIN h.nodes
         /\ ~IsHop(g, e) => g.edges[e].from \in DOMAIN h.nodes
  BY <1>1, KeptEnds
<1>3. \A e \in DOMAIN h.edges :
         /\ IsVertical(h, e) = IsVertical(g, e)
         /\ OutSlot(h, e) = OutSlot(g, e) /\ InSlot(h, e) = InSlot(g, e)
         /\ To(h, e).tid = To(g, e).tid /\ To(h, e).ts = To(g, e).ts
         /\ IsHop(h, e) = IsHop(g, e) /\ IsThreadEdge(h, e) = IsThreadEdge(g, e)
         /\ Anchored(h, e) => /\ Anchored(g, e)
                              /\ From(h, e).tid = From(g, e).tid
                              /\ From(h, e).ts = From(g, e).ts
  BY <1>1, <1>2 DEF IsVertical, OutSlot, InSlot, Anchored, To, From, IsHop, IsThreadEdge
<1>4. \A e \in DOMAIN h.edges :
         /\ e \in DOMAIN g.edges /\ e \notin ErasedEdges(g, ts)
         /\ OutSlot(g, e) \in Positions /\ InSlot(g, e) \in Positions
  BY <1>1 DEF OutSlot, InSlot, Positions
<1>5. SlotsResolveIn(h)
  BY <1>1, <1>3, <1>4 DEF GraphSound, SlotsResolveIn
<1>6. EdgesAnchoredIn(h)
  <2> SUFFICES ASSUME NEW e \in DOMAIN h.edges
               PROVE  /\ h.edges[e].from < h.edges[e].to
                      /\ h.edges[e].to \in DOMAIN h.nodes
                      /\ To(h, e).edge[InSlot(h, e)] = e
                      /\ ~IsHop(h, e) => Anchored(h, e)
                                         /\ From(h, e).edge[OutSlot(h, e)] = e
    BY DEF EdgesAnchoredIn
  <2>1. /\ g.edges[e].from < g.edges[e].to
        /\ g.nodes[g.edges[e].to].edge[InSlot(g, e)] = e
        /\ ~IsHop(g, e) => g.nodes[g.edges[e].from].edge[OutSlot(g, e)] = e
    BY <1>4 DEF GraphSound, EdgesAnchoredIn, To, From
  <2>2. /\ h.edges[e] = g.edges[e]
        /\ h.edges[e].from < h.edges[e].to
        /\ h.edges[e].to \in DOMAIN h.nodes
    BY <1>1, <1>2, <2>1
  <2>3. h.nodes[g.edges[e].to].edge[InSlot(g, e)] = e
    BY <1>1, <1>2, <1>4, <2>1
  <2>4. ~IsHop(g, e) => /\ g.edges[e].from \in DOMAIN h.nodes
                        /\ h.nodes[g.edges[e].from].edge[OutSlot(g, e)] = e
    BY <1>1, <1>2, <1>4, <2>1
  <2>5. IsHop(h, e) = IsHop(g, e) /\ OutSlot(h, e) = OutSlot(g, e)
        /\ InSlot(h, e) = InSlot(g, e)
    BY <1>3
  <2>6. QED
    BY <2>2, <2>3, <2>4, <2>5 DEF To, From, Anchored
<1>7. HistoryOrderedIn(h)
  BY <1>1 DEF GraphSound, HistoryOrderedIn
<1>8. ThreadEdgesAdjacentIn(h)
  <2> SUFFICES ASSUME NEW e \in DOMAIN h.edges, IsThreadEdge(h, e)
               PROVE  /\ From(h, e).tid = To(h, e).tid
                      /\ \A n \in NodesOf(h, To(h, e).tid) :
                            n <= h.edges[e].from \/ n >= h.edges[e].to
    BY DEF ThreadEdgesAdjacentIn
  <2>1. Anchored(h, e) /\ IsThreadEdge(g, e)
    BY <1>1, <1>2, <1>3 DEF IsHop, IsThreadEdge, Anchored
  <2>2. \A n \in NodesOf(h, To(h, e).tid) : n \in NodesOf(g, To(g, e).tid)
    BY <1>1, <1>3 DEF NodesOf
  <2>3. QED
    BY <1>1, <1>3, <1>4, <2>1, <2>2 DEF GraphSound, ThreadEdgesAdjacentIn
<1>9. VerticalSimultaneousIn(h)
  BY <1>1, <1>2, <1>3, <1>4
     DEF GraphSound, VerticalSimultaneousIn, IsHop, Anchored
<1>10. ASSUME NEW n \in DOMAIN h.nodes, IsPacketNode(g, n)
       PROVE  IsPacketNode(h, n)
  <2> DEFINE s == g.nodes[n].edge["inVertical"]
  <2>1. n \in DOMAIN g.nodes /\ n \notin Removed(g, ts)
    BY <1>1
  <2>2. s \in DOMAIN g.edges /\ IsVertical(g, s) /\ g.edges[s].to = n
    BY <1>10, <2>1 DEF GraphSound, SlotsResolveIn, IsPacketNode, OutSlot, InSlot,
                       Positions, Holder
  <2>3. g.edges[s].from \in DOMAIN g.nodes /\ From(g, s).ts = g.nodes[n].ts
    BY <2>2 DEF GraphSound, EdgesAnchoredIn, VerticalSimultaneousIn, IsHop,
                Anchored, To
  <2>4. g.edges[s].from \notin Removed(g, ts)
    BY <2>1, <2>3, RemovedIsOld DEF GraphSound, From
  <2>5. s \notin ErasedEdges(g, ts) /\ s \in DOMAIN h.edges
    BY <1>1, <2>1, <2>2, <2>4, ErasedEnds
  <2>6. h.nodes[n].edge["inVertical"] = s /\ From(h, s).tid = From(g, s).tid
    BY <1>1, <2>3, <2>4, <2>5 DEF From, Positions
  <2>7. QED
    BY <1>1, <1>10, <2>6 DEF IsPacketNode
<1>11. HopHasSenderIn(h)
  BY <1>1, <1>3, <1>4, <1>10 DEF GraphSound, HopHasSenderIn, Anchored
<1>12. QED
  BY <1>1, <1>5, <1>6, <1>7, <1>8, <1>9, <1>10, <1>11 DEF GraphSound, h

----------------------------------------------------------------------------
(* A pointer to the node of a packet that somebody keeps across a step     *)
(* points to the node of a packet afterwards, unless the node is deleted.  *)

(* From g to h no node comes back, and a packet node stays one as long as
   it lives. *)
Evolves(g, h) ==
    /\ g.nextNode <= h.nextNode
    /\ \A n \in DOMAIN h.nodes :
          n < g.nextNode =>
             /\ n \in DOMAIN g.nodes
             /\ IsPacketNode(g, n) => IsPacketNode(h, n)

(* Evolves is transitive, and each operation of the graph is such a step. *)
LEMMA EvolvesTransitive ==
  ASSUME NEW f, NEW g, NEW h, IsGraph(f), IsGraph(g), IsGraph(h),
         Evolves(f, g), Evolves(g, h)
  PROVE  Evolves(f, h)
BY DEF Evolves, IsGraph

(* A new node has a new number. *)
LEMMA CreateNodeEvolves ==
  ASSUME NEW g, GraphSound(g), NEW tid \in Tids
  PROVE  Evolves(g, CreateNode(g, tid))
<1> DEFINE h == CreateNode(g, tid)
<1>1. /\ h.edges = g.edges /\ h.nextNode = g.nextNode + 1
      /\ DOMAIN h.nodes = DOMAIN g.nodes \cup {g.nextNode}
      /\ \A n \in DOMAIN g.nodes : h.nodes[n] = g.nodes[n]
      /\ g.nextNode \in Nat
  BY CreateNodeShape DEF GraphSound
<1> HIDE DEF h
<1>2. \A n \in DOMAIN g.nodes : IsPacketNode(g, n) => IsPacketNode(h, n)
  BY <1>1, PacketNodeStays
<1>3. QED
  BY <1>1, <1>2 DEF Evolves, h

(* Only a vertical edge into a node could make it something else than the
   node of a packet. *)
LEMMA CreateEdgeEvolves ==
  ASSUME NEW g, GraphSound(g), NEW p \in Positions, NEW type \in EdgeTypes,
         NEW from \in DOMAIN g.nodes, NEW to \in DOMAIN g.nodes, from < to,
         g.nodes[to].edge[Opposite(p)] = NoEdge, p # "inVertical"
  PROVE  Evolves(g, CreateEdge(g, p, type, from, to))
<1> DEFINE h == CreateEdge(g, p, type, from, to)
<1>1. EdgeAdded(g, h, p, type, from, to)
  BY CreateEdgeShape DEF GraphSound
<1> HIDE DEF h
<1>2. ASSUME NEW n \in DOMAIN g.nodes, IsPacketNode(g, n)
      PROVE  IsPacketNode(h, n)
  <2>1. h.nodes[n].edge["inVertical"] = g.nodes[n].edge["inVertical"]
    BY <1>1, <1>2 DEF EdgeAdded, IsPacketNode, Positions
  <2>2. QED
    BY <1>1, <1>2, <2>1, PacketNodeStays DEF EdgeAdded
<1>3. DOMAIN h.nodes = DOMAIN g.nodes /\ h.nextNode = g.nextNode /\ g.nextNode \in Nat
  BY <1>1 DEF EdgeAdded, GraphSound, IsGraph
<1>4. QED
  BY <1>2, <1>3 DEF Evolves, h

(* Cutting the history of a thread at the present time. *)
LEMMA CutEvolves ==
  ASSUME NEW g, GraphSound(g), NEW tid \in Threads, LastNode(g, tid) # NoNode,
         NEW type \in EdgeTypes \ {"kVertical"}
  PROVE  Evolves(g, CreateHorizontalEdge(CreateNode(g, tid), type,
                                         LastNode(g, tid), g.nextNode))
<1> DEFINE h == CreateHorizontalEdge(CreateNode(g, tid), type,
                                     LastNode(g, tid), g.nextNode)
<1>1. /\ h.nextNode = g.nextNode + 1 /\ g.nextNode \in Nat
      /\ DOMAIN h.nodes = DOMAIN g.nodes \cup {g.nextNode}
      /\ \A n \in DOMAIN g.nodes :
            /\ h.nodes[n].tid = g.nodes[n].tid
            /\ \A p \in Positions \ {"outHorizontal"} :
                  h.nodes[n].edge[p] = g.nodes[n].edge[p]
      /\ \A e \in DOMAIN g.edges : e \in DOMAIN h.edges /\ h.edges[e] = g.edges[e]
  BY CutSound
<1> HIDE DEF h
<1>2. \A n \in DOMAIN g.nodes : IsPacketNode(g, n) => IsPacketNode(h, n)
  BY <1>1, PacketNodeStays DEF Positions
<1>3. QED
  BY <1>1, <1>2 DEF Evolves, h

(* The clock. *)
LEMMA SetTimestampEvolves ==
  ASSUME NEW g, GraphSound(g), NEW ts
  PROVE  Evolves(g, SetTimestamp(g, ts))
<1> DEFINE h == SetTimestamp(g, ts)
<1>1. /\ h.nodes = g.nodes /\ h.edges = g.edges /\ h.nextNode = g.nextNode
      /\ g.nextNode \in Nat
  BY DEF SetTimestamp, GraphSound, IsGraph
<1> HIDE DEF h
<1>2. \A n : IsPacketNode(h, n) = IsPacketNode(g, n)
  BY <1>1 DEF IsPacketNode, From
<1>3. QED
  BY <1>1, <1>2 DEF Evolves, h

(* A cleanup takes nodes and gives none. *)
LEMMA CleanupEvolves ==
  ASSUME NEW g, GraphSound(g), NEW ts \in Nat
  PROVE  Evolves(g, Cleanup(g, ts))
<1> DEFINE h == Cleanup(g, ts)
<1>1. /\ DOMAIN h.nodes = DOMAIN g.nodes \ Removed(g, ts)
      /\ h.nextNode = g.nextNode /\ g.nextNode \in Nat
  BY CleanupShape DEF GraphSound, IsGraph
<1>2. \A n \in DOMAIN h.nodes : IsPacketNode(g, n) => IsPacketNode(h, n)
  BY CleanupSound
<1> HIDE DEF h
<1>3. QED
  BY <1>1, <1>2 DEF Evolves, h

=============================================================================
