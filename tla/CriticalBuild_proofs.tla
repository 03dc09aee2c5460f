------------------------ MODULE CriticalBuild_proofs ------------------------
(***************************************************************************)
(* The type and the soundness of the critical graph hold in every state of *)
(* CriticalBuild, for any threads, CPUs, packets and bounds.               *)
(*                                                                         *)
(* The graph alone is not inductive: a wake-up by a packet extends the     *)
(* graph at a node whose number a table kept since the packet left, over   *)
(* any number of cleanups.  HeldSound says what such a number may still    *)
(* mean: a deleted node, or the node of a packet.                          *)
(***************************************************************************)
EXTENDS CriticalBuild, CriticalGraph_proofs, SequenceTheorems

(* CriticalBlock keeps the node n, in its table of packets or in the
   context of an interrupt. *)
IsHeld(n) ==
    \/ \E key \in DOMAIN networkNodes : networkNodes[key] = n
    \/ \E cpu \in Cpus : \E i \in DOMAIN context[cpu] : context[cpu][i].node = n

(* Whatever node it keeps was created, and is the node of a packet if it
   is still live. *)
HeldSound ==
    \A n \in Nat \ {NoNode} :
        IsHeld(n) => /\ n < graph.nextNode
                     /\ n \in DOMAIN graph.nodes => IsPacketNode(graph, n)

(* The inductive invariant. *)
IInv == TypeOK /\ GraphSound(graph) /\ HeldSound

----------------------------------------------------------------------------
(* What one handler does to the graph.                                     *)

(* A handler makes a sound graph of a sound one, at the same time. *)
Grown(g, h) == GraphSound(h) /\ h.ts = g.ts /\ Evolves(g, h)

(* So do two handlers in a row, and each operation of the graph that the
   handlers use. *)
LEMMA GrownTransitive ==
  ASSUME NEW f, NEW g, NEW h, GraphSound(f), Grown(f, g), Grown(g, h)
  PROVE  Grown(f, h)
BY EvolvesTransitive DEF Grown, GraphSound

(* A new node. *)
LEMMA NodeGrown ==
  ASSUME NEW g, GraphSound(g), NEW tid \in Tids
  PROVE  Grown(g, CreateNode(g, tid))
BY CreateNodeSound, CreateNodeEvolves, CreateNodeShape DEF Grown, GraphSound

(* A cut of the history of a thread, the edge of which has a type that
   the status of a thread has. *)
LEMMA CutGrown ==
  ASSUME NEW g, GraphSound(g), NEW tid \in Threads, NEW type \in SpentTypes,
         LastNode(g, tid) # NoNode
  PROVE  Grown(g, CreateHorizontalEdge(CreateNode(g, tid), type,
                                       LastNode(g, tid), g.nextNode))
BY CutSound, CutEvolves DEF Grown, SpentTypes

(* h is g with thread tid cut: a new node, at the present time, that no    *)
(* wake-up has reached or left yet.                                        *)
IsCut(g, h, tid) ==
    /\ Grown(g, h) /\ GraphSound(h) /\ IsGraph(h)
    /\ h.nextNode = g.nextNode + 1 /\ g.nextNode \in Nat \ {NoNode}
    /\ DOMAIN h.nodes = DOMAIN g.nodes \cup {g.nextNode}
    /\ h.nodes[g.nextNode].tid = tid
    /\ h.nodes[g.nextNode].ts = g.ts /\ h.ts = g.ts
    /\ h.nodes[g.nextNode].edge["outVertical"] = NoEdge
    /\ h.nodes[g.nextNode].edge["inVertical"] = NoEdge
    /\ \A n \in DOMAIN g.nodes :
          /\ h.nodes[n].ts = g.nodes[n].ts
          /\ h.nodes[n].edge["outVertical"] = g.nodes[n].edge["outVertical"]

(* What a cut does: one node more, which is the last of the thread. *)
LEMMA CutIsCut ==
  ASSUME NEW g, GraphSound(g), NEW tid \in Threads, NEW type \in SpentTypes,
         LastNode(g, tid) # NoNode,
         NEW h, h = CreateHorizontalEdge(CreateNode(g, tid), type,
                                         LastNode(g, tid), g.nextNode)
  PROVE  IsCut(g, h, tid)
<1>1. type \in EdgeTypes \ {"kVertical"}
  BY DEF SpentTypes
<1>2. /\ GraphSound(h)
      /\ h.ts = g.ts /\ h.nextNode = g.nextNode + 1
      /\ g.nextNode \in Nat \ {NoNode}
      /\ DOMAIN h.nodes = DOMAIN g.nodes \cup {g.nextNode}
      /\ h.nodes[g.nextNode].tid = tid
      /\ h.nodes[g.nextNode].ts = g.ts
      /\ \A p \in Positions \ {"inHorizontal"} :
            h.nodes[g.nextNode].edge[p] = NoEdge
      /\ \A n \in DOMAIN g.nodes :
            /\ h.nodes[n].ts = g.nodes[n].ts
            /\ \A p \in Positions \ {"outHorizontal"} :
                  h.nodes[n].edge[p] = g.nodes[n].edge[p]
  BY <1>1, CutSound
<1>3. Grown(g, h)
  BY CutGrown
<1>4. {"outVertical", "inVertical"} \subseteq Positions \ {"inHorizontal", "outHorizontal"}
  BY DEF Positions
<1>5. IsGraph(h)
  BY <1>2 DEF GraphSound
<1>6. QED
  BY <1>2, <1>3, <1>4, <1>5 DEF IsCut

(* A wake-up edge between simultaneous nodes with free slots.              *)
LEMMA VerticalGrown ==
  ASSUME NEW g, GraphSound(g),
         NEW from \in DOMAIN g.nodes, NEW to \in DOMAIN g.nodes, from < to,
         g.nodes[from].edge["outVertical"] = NoEdge,
         g.nodes[to].edge["inVertical"] = NoEdge,
         g.nodes[from].ts = g.nodes[to].ts,
         g.nodes[to].tid = NetworkThread => g.nodes[from].tid \in Threads
  PROVE  Grown(g, CreateVerticalEdge(g, from, to))
<1> DEFINE h == CreateEdge(g, "outVertical", "kVertical", from, to)
<1>1. /\ g.nodes[to].edge[Opposite("outVertical")] = NoEdge
      /\ "outVertical" \in Positions /\ "kVertical" \in EdgeTypes
  BY DEF Opposite, Positions, EdgeTypes
<1>2. GraphSound(h)
  BY <1>1, CreateEdgeSound
<1>3. Evolves(g, h)
  BY <1>1, CreateEdgeEvolves
<1>4. IsGraph(g)
  BY DEF GraphSound
<1>5. EdgeAdded(g, h, "outVertical", "kVertical", from, to)
  BY <1>1, <1>4, CreateEdgeShape
<1>6. h.ts = g.ts
  BY <1>5 DEF EdgeAdded
<1>7. QED
  BY <1>2, <1>3, <1>6, Zenon DEF Grown, CreateVerticalEdge

(* OnTTWUBetweenThreads: the wake-up edge joins two nodes just made.       *)
LEMMA WakeupBetweenThreads ==
  ASSUME NEW g, GraphSound(g), NEW source \in Threads, NEW target \in Threads,
         NEW type1 \in SpentTypes, NEW type2 \in SpentTypes,
         LastNode(g, source) # NoNode,
         NEW cut1, cut1 = CreateHorizontalEdge(CreateNode(g, source), type1,
                                               LastNode(g, source), g.nextNode),
         LastNode(cut1, target) # NoNode,
         NEW cut2, cut2 = CreateHorizontalEdge(CreateNode(cut1, target), type2,
                                               LastNode(cut1, target), cut1.nextNode)
  PROVE  Grown(g, CreateVerticalEdge(cut2, g.nextNode, cut1.nextNode))
<1>1. IsCut(g, cut1, source)
  BY CutIsCut
<1>2. /\ Grown(g, cut1) /\ GraphSound(cut1)
      /\ cut1.nextNode = g.nextNode + 1 /\ g.nextNode \in Nat
      /\ DOMAIN cut1.nodes = DOMAIN g.nodes \cup {g.nextNode}
      /\ cut1.nodes[g.nextNode].ts = cut1.ts
      /\ cut1.nodes[g.nextNode].edge["outVertical"] = NoEdge
  BY <1>1 DEF IsCut
<1>0. IsCut(cut1, cut2, target)
  BY <1>2, CutIsCut
<1>3. /\ Grown(cut1, cut2) /\ GraphSound(cut2)
      /\ DOMAIN cut2.nodes = DOMAIN cut1.nodes \cup {cut1.nextNode}
      /\ cut2.nodes[cut1.nextNode].tid = target
      /\ cut2.nodes[cut1.nextNode].ts = cut1.ts
      /\ cut2.nodes[cut1.nextNode].edge["inVertical"] = NoEdge
      /\ \A n \in DOMAIN cut1.nodes :
            /\ cut2.nodes[n].ts = cut1.nodes[n].ts
            /\ cut2.nodes[n].edge["outVertical"] = cut1.nodes[n].edge["outVertical"]
  BY <1>0, Zenon DEF IsCut
<1>4. /\ g.nextNode \in DOMAIN cut2.nodes /\ cut1.nextNode \in DOMAIN cut2.nodes
      /\ g.nextNode < cut1.nextNode
      /\ cut2.nodes[g.nextNode].edge["outVertical"] = NoEdge
      /\ cut2.nodes[g.nextNode].ts = cut2.nodes[cut1.nextNode].ts
      /\ cut2.nodes[cut1.nextNode].tid # NetworkThread
  <2>1. g.nextNode \in DOMAIN cut1.nodes /\ cut1.nextNode > g.nextNode
    BY <1>2
  <2>2. g.nextNode \in DOMAIN cut2.nodes /\ cut1.nextNode \in DOMAIN cut2.nodes
    BY <1>3, <2>1
  <2>3. /\ cut2.nodes[g.nextNode].edge["outVertical"] = NoEdge
        /\ cut2.nodes[g.nextNode].ts = cut1.ts
    BY <1>2, <1>3, <2>1
  <2>4. target # NetworkThread
    BY NetworkThreadAssumption
  <2>5. g.nextNode < cut1.nextNode
    BY <1>2
  <2>6. QED
    BY <1>3, <2>2, <2>3, <2>4, <2>5
<1>5. Grown(cut2, CreateVerticalEdge(cut2, g.nextNode, cut1.nextNode))
  BY <1>3, <1>4, VerticalGrown
<1>6. QED
  BY <1>2, <1>3, <1>5, GrownTransitive

(* OnInetSockLocalOut: what leaves the thread is the node of a packet.     *)
LEMMA PacketSent ==
  ASSUME NEW g, GraphSound(g), NEW tid \in Threads, NEW type \in SpentTypes,
         LastNode(g, tid) # NoNode,
         NEW cut, cut = CreateHorizontalEdge(CreateNode(g, tid), type,
                                             LastNode(g, tid), g.nextNode),
         NEW h, h = CreateVerticalEdge(CreateNode(cut, NetworkThread),
                                       g.nextNode, cut.nextNode)
  PROVE  /\ Grown(g, h)
         /\ cut.nextNode \in Nat \ {NoNode} /\ cut.nextNode < h.nextNode
         /\ IsPacketNode(h, cut.nextNode)
<1>1. type \in EdgeTypes \ {"kVertical"} /\ NetworkThread \in Tids
  BY DEF SpentTypes, Tids
<1>2. /\ Grown(g, cut) /\ GraphSound(cut) /\ IsGraph(cut)
      /\ cut.nextNode = g.nextNode + 1 /\ g.nextNode \in Nat
      /\ DOMAIN cut.nodes = DOMAIN g.nodes \cup {g.nextNode}
      /\ cut.nodes[g.nextNode].ts = cut.ts
      /\ cut.nodes[g.nextNode].tid = tid
      /\ cut.nodes[g.nextNode].edge["outVertical"] = NoEdge
  <2>1. IsCut(g, cut, tid)
    BY CutIsCut
  <2>2. QED
    BY <2>1 DEF IsCut
<1> DEFINE c == CreateNode(cut, NetworkThread)
           from == g.nextNode
           to == cut.nextNode
<1>3. /\ Grown(cut, c) /\ GraphSound(c) /\ IsGraph(c)
      /\ c.nextNode = cut.nextNode + 1
      /\ DOMAIN c.nodes = DOMAIN cut.nodes \cup {to}
      /\ c.nodes[from] = cut.nodes[from]
      /\ c.nodes[to].ts = cut.ts /\ c.nodes[to].tid = NetworkThread
      /\ c.nodes[to].edge["inVertical"] = NoEdge
  <2>1. "inVertical" \in Positions /\ from \in DOMAIN cut.nodes
    BY <1>2 DEF Positions
  <2>2. Grown(cut, c)
    BY <1>1, <1>2, NodeGrown
  <2>3. /\ IsGraph(c) /\ c.nextNode = cut.nextNode + 1
        /\ DOMAIN c.nodes = DOMAIN cut.nodes \cup {to}
        /\ \A n \in DOMAIN cut.nodes : c.nodes[n] = cut.nodes[n]
        /\ c.nodes[to].ts = cut.ts /\ c.nodes[to].tid = NetworkThread
        /\ \A p \in Positions : c.nodes[to].edge[p] = NoEdge
    BY <1>1, <1>2, CreateNodeShape
  <2>4. QED
    BY <2>1, <2>2, <2>3 DEF Grown
<1> HIDE DEF c
<1>4. /\ from \in DOMAIN c.nodes /\ to \in DOMAIN c.nodes /\ from < to
      /\ c.nodes[from].edge["outVertical"] = NoEdge
      /\ c.nodes[from].ts = c.nodes[to].ts /\ c.nodes[from].tid = tid
  BY <1>2, <1>3
<1> HIDE DEF from, to
<1>5. h = CreateVerticalEdge(c, from, to)
  BY DEF c, from, to
<1>6. Grown(c, h)
  BY <1>3, <1>4, <1>5, VerticalGrown
<1>7. Grown(g, h)
  BY <1>2, <1>3, <1>6, GrownTransitive
<1>8. EdgeAdded(c, h, "outVertical", "kVertical", from, to)
  BY <1>3, <1>4, <1>5, CreateEdgeShape DEF CreateVerticalEdge, Positions, EdgeTypes
<1>9. /\ h.nodes[to].edge["inVertical"] = c.nextEdge
      /\ c.nextEdge # NoEdge /\ h.edges[c.nextEdge].from = from
      /\ h.nodes[from].tid = tid /\ h.nodes[to].tid = NetworkThread
      /\ h.nextNode = c.nextNode
  <2>1. "inVertical" \in Positions /\ Opposite("outVertical") = "inVertical"
    BY DEF Positions, Opposite
  <2>2. /\ h.nodes[from].tid = c.nodes[from].tid /\ h.nodes[to].tid = c.nodes[to].tid
        /\ h.nextNode = c.nextNode /\ c.nextEdge \in Nat
    BY <1>4, <1>8 DEF EdgeAdded
  <2>3. h.nodes[to].edge["inVertical"] = c.nextEdge
    BY <1>4, <1>8, <2>1 DEF EdgeAdded
  <2>4. h.edges[c.nextEdge] = [type |-> "kVertical", from |-> from, to |-> to]
    BY <1>8, Zenon DEF EdgeAdded
  <2>5. h.edges[c.nextEdge].from = from
    BY <2>4
  <2>6. QED
    BY <1>3, <1>4, <2>2, <2>3, <2>5 DEF NoEdge
<1>10. IsPacketNode(h, to)
  BY <1>9 DEF IsPacketNode, From
<1>11. cut.nextNode \in Nat \ {NoNode} /\ cut.nextNode < h.nextNode
  BY <1>2, <1>3, <1>9 DEF NoNode
<1>12. QED
  BY <1>7, <1>10, <1>11 DEF to

(* OnWakeupFromNetwork: the hop leaves the packet's node, and wakes up the *)
(* target, if it can be cut, from a new node of the network thread.        *)
LEMMA PacketReceived ==
  ASSUME NEW g, GraphSound(g), NEW n \in DOMAIN g.nodes, IsPacketNode(g, n),
         NEW hop, hop = CreateHorizontalEdge(CreateNode(g, NetworkThread), "kRun",
                                             n, g.nextNode)
  PROVE  /\ Grown(g, hop)
         /\ \A target \in Threads, type \in SpentTypes :
               LastNode(hop, target) # NoNode =>
                  Grown(g, CreateVerticalEdge(
                              CreateHorizontalEdge(CreateNode(hop, target), type,
                                                   LastNode(hop, target), hop.nextNode),
                              g.nextNode, hop.nextNode))
<1>1. NetworkThread \in Tids
  BY DEF Tids
<1> DEFINE c == CreateNode(g, NetworkThread)
           to == g.nextNode
<1>2. /\ Grown(g, c) /\ GraphSound(c) /\ IsGraph(c)
      /\ c.nextNode = to + 1 /\ to \in Nat /\ n < to
      /\ DOMAIN c.nodes = DOMAIN g.nodes \cup {to}
      /\ c.nodes[n] = g.nodes[n]
      /\ c.nodes[to].ts = c.ts /\ c.nodes[to].tid = NetworkThread
      /\ c.nodes[to].edge["inHorizontal"] = NoEdge
      /\ c.nodes[to].edge["outVertical"] = NoEdge
  BY <1>1, CreateNodeShape, NodeGrown DEF Grown, GraphSound, Positions
<1>3. IsPacketNode(c, n) /\ n < g.nextNode
  BY <1>2 DEF Grown, Evolves
<1> HIDE DEF c, to
<1>4. /\ n \in DOMAIN c.nodes /\ to \in DOMAIN c.nodes /\ n < to
      /\ c.nodes[n].tid = NetworkThread
      /\ "outHorizontal" \in Positions /\ "kRun" \in EdgeTypes
      /\ c.nodes[to].edge[Opposite("outHorizontal")] = NoEdge
  BY <1>2, <1>3 DEF IsPacketNode, Opposite, Positions, EdgeTypes
<1>5. hop = CreateEdge(c, "outHorizontal", "kRun", n, to)
  BY DEF c, to, CreateHorizontalEdge
<1>6. GraphSound(hop)
  BY <1>2, <1>3, <1>4, <1>5, CreateEdgeSound
<1>7. Evolves(c, hop)
  BY <1>2, <1>4, <1>5, CreateEdgeEvolves
<1>8. EdgeAdded(c, hop, "outHorizontal", "kRun", n, to)
  BY <1>2, <1>4, <1>5, CreateEdgeShape
<1>9. /\ hop.ts = c.ts /\ hop.nextNode = to + 1 /\ to \in DOMAIN hop.nodes
      /\ hop.nodes[to].ts = hop.ts
      /\ hop.nodes[to].edge["outVertical"] = NoEdge
  BY <1>2, <1>4, <1>8 DEF EdgeAdded, Positions, Opposite
<1>10. Grown(c, hop) /\ Grown(g, hop)
  BY <1>2, <1>6, <1>7, <1>9, GrownTransitive DEF Grown
<1>11. ASSUME NEW target \in Threads, NEW type \in SpentTypes,
              LastNode(hop, target) # NoNode,
              NEW cut, cut = CreateHorizontalEdge(CreateNode(hop, target), type,
                                                  LastNode(hop, target), hop.nextNode)
       PROVE  Grown(g, CreateVerticalEdge(cut, to, hop.nextNode))
  <2>1. IsCut(hop, cut, target)
    BY <1>6, <1>11, CutIsCut
  <2>2. /\ Grown(hop, cut) /\ GraphSound(cut)
        /\ DOMAIN cut.nodes = DOMAIN hop.nodes \cup {hop.nextNode}
        /\ cut.nodes[hop.nextNode].tid = target
        /\ cut.nodes[hop.nextNode].ts = hop.ts
        /\ cut.nodes[hop.nextNode].edge["inVertical"] = NoEdge
        /\ cut.nodes[to].ts = hop.nodes[to].ts
        /\ cut.nodes[to].edge["outVertical"] = hop.nodes[to].edge["outVertical"]
    BY <1>9, <2>1 DEF IsCut
  <2>3. Grown(cut, CreateVerticalEdge(cut, to, hop.nextNode))
    <3>1. target # NetworkThread /\ to < hop.nextNode
      BY <1>2, <1>9, NetworkThreadAssumption
    <3>2. QED
      BY <1>9, <2>2, <3>1, VerticalGrown
  <2>4. QED
    BY <1>6, <1>10, <2>2, <2>3, GrownTransitive
<1>12. QED
  BY <1>10, <1>11 DEF to

----------------------------------------------------------------------------
(* The invariant is inductive.                                             *)

(* IInv holds initially; one lemma for each action says that it is kept. *)
LEMMA InitIInv == BuildInit => IInv
<1> SUFFICES ASSUME BuildInit PROVE IInv
  OBVIOUS
<1>1. /\ graph.ts = 0 /\ graph.nextNode = 1 /\ graph.nextEdge = 0
      /\ DOMAIN graph.nodes = {} /\ DOMAIN graph.edges = {}
      /\ graph = [ts |-> graph.ts, nodes |-> graph.nodes,
                  nextNode |-> graph.nextNode, edges |-> graph.edges,
                  nextEdge |-> graph.nextEdge]
      /\ graph.nodes \in [DOMAIN graph.nodes -> NodeRecord]
      /\ graph.edges \in [DOMAIN graph.edges -> EdgeRecord]
  BY DEF BuildInit, Init, EmptyGraph
<1>2. GraphSound(graph)
  BY <1>1 DEF GraphSound, IsGraph, NoNode, SlotsResolveIn, EdgesAnchoredIn,
              HistoryOrderedIn, ThreadEdgesAdjacentIn, VerticalSimultaneousIn,
              HopHasSenderIn
<1>3. TypeOK
  BY <1>2 DEF TypeOK, GraphSound, BuildInit, Init, Statuses, NullStatus
<1>4. HeldSound
  BY DEF HeldSound, IsHeld, BuildInit, Init, NoNode
<1>5. QED
  BY <1>2, <1>3, <1>4 DEF IInv

(* Whatever the tables keep across a step is as good after it as before.   *)
LEMMA HeldStep ==
  ASSUME IInv, Evolves(graph, graph'), IsGraph(graph'),
         \A n \in Nat \ {NoNode} :
            IsHeld(n)' => \/ IsHeld(n)
                          \/ n < graph'.nextNode /\ IsPacketNode(graph', n)
  PROVE  HeldSound'
<1> SUFFICES ASSUME NEW n \in Nat \ {NoNode}, IsHeld(n)'
             PROVE  /\ n < graph'.nextNode
                    /\ n \in DOMAIN graph'.nodes => IsPacketNode(graph', n)
  BY DEF HeldSound
<1>1. CASE n < graph'.nextNode /\ IsPacketNode(graph', n)
  BY <1>1
<1>2. CASE IsHeld(n)
  <2>1. n < graph.nextNode /\ (n \in DOMAIN graph.nodes => IsPacketNode(graph, n))
    BY <1>2 DEF IInv, HeldSound
  <2>2. graph.nextNode \in Nat /\ graph'.nextNode \in Nat
    BY DEF IInv, GraphSound, IsGraph
  <2>3. QED
    BY <2>1, <2>2 DEF Evolves
<1>3. QED
  BY <1>1, <1>2

(* A step that leaves the graph and what points into it alone.             *)
LEMMA QuietStep ==
  ASSUME IInv, UNCHANGED <<graph, context, networkNodes>>, TypeOK'
  PROVE  IInv'
<1>1. GraphSound(graph')
  BY DEF IInv
<1>2. HeldSound'
  BY DEF IInv, HeldSound, IsHeld
<1>3. QED
  BY <1>1, <1>2 DEF IInv

(* A step that only makes the graph grow.                                  *)
LEMMA GrownStep ==
  ASSUME IInv, Grown(graph, graph'), UNCHANGED <<context, networkNodes>>, TypeOK'
  PROVE  IInv'
<1>1. GraphSound(graph') /\ IsGraph(graph') /\ Evolves(graph, graph')
  BY DEF Grown, GraphSound
<1>2. \A n : IsHeld(n)' => IsHeld(n)
  BY DEF IsHeld
<1>3. HeldSound'
  BY <1>1, <1>2, HeldStep
<1>4. QED
  BY <1>1, <1>3 DEF IInv

(* An interrupt is pushed on its CPU, with no node. *)
LEMMA EnterInterruptStep ==
  ASSUME IInv, NEW cpu \in Cpus, NEW type \in SpentTypes,
         EnterInterrupt(cpu, type), UNCHANGED <<saveTs, lastCleanupTs>>
  PROVE  IInv'
<1> DEFINE ctx == [type |-> type, node |-> NoNode]
<1>1. /\ context[cpu] \in Seq(InterruptContext) /\ ctx \in InterruptContext
      /\ context' = [context EXCEPT ![cpu] = Append(@, ctx)]
      /\ context \in [Cpus -> Seq(InterruptContext)]
  BY DEF IInv, TypeOK, EnterInterrupt, Push, InterruptContext, NoNode
<1>2. /\ Append(context[cpu], ctx) \in Seq(InterruptContext)
      /\ \A i \in DOMAIN Append(context[cpu], ctx) :
            \/ Append(context[cpu], ctx)[i] = ctx
            \/ i \in DOMAIN context[cpu]
               /\ Append(context[cpu], ctx)[i] = context[cpu][i]
  BY <1>1
<1> HIDE DEF ctx
<1>3. TypeOK'
  BY <1>1, <1>2 DEF IInv, TypeOK, EnterInterrupt
<1>4. \A n \in Nat \ {NoNode} : IsHeld(n)' => IsHeld(n)
  BY <1>1, <1>2 DEF IsHeld, EnterInterrupt, ctx
<1>5. GraphSound(graph') /\ HeldSound'
  BY <1>4 DEF IInv, HeldSound, EnterInterrupt
<1>6. QED
  BY <1>3, <1>5 DEF IInv

(* It is popped. *)
LEMMA ExitInterruptStep ==
  ASSUME IInv, NEW cpu \in Cpus, NEW type,
         ExitInterrupt(cpu, type), UNCHANGED <<saveTs, lastCleanupTs>>
  PROVE  IInv'
<1> DEFINE s == context[cpu]
           t == SubSeq(s, 1, Len(s) - 1)
<1>1. /\ s \in Seq(InterruptContext) /\ s # << >>
      /\ context' = [context EXCEPT ![cpu] = t]
      /\ context \in [Cpus -> Seq(InterruptContext)]
  BY DEF IInv, TypeOK, ExitInterrupt, InInterrupt, Pop
<1>2. /\ t \in Seq(InterruptContext)
      /\ \A i \in DOMAIN t : i \in DOMAIN s /\ t[i] = s[i]
  BY <1>1
<1> HIDE DEF t
<1>3. TypeOK'
  BY <1>1, <1>2 DEF IInv, TypeOK, ExitInterrupt
<1>4. \A n \in Nat \ {NoNode} : IsHeld(n)' => IsHeld(n)
  BY <1>1, <1>2 DEF IsHeld, ExitInterrupt
<1>5. GraphSound(graph') /\ HeldSound'
  BY <1>4 DEF IInv, HeldSound, ExitInterrupt
<1>6. QED
  BY <1>3, <1>5 DEF IInv

(* A disk request starts at the newest node of its thread.                 *)
LEMMA AddDiskRequestType ==
  ASSUME TypeOK, NEW tid \in Threads
  PROVE  LET r == AddDiskRequest(tid)
         IN  /\ DOMAIN r \subseteq [low : Nat, high : Nat, tid : Threads]
             /\ \A d \in DOMAIN r : r[d] \in Nat \ {0}
<1> DEFINE d0 == [low |-> graph.nodes[LastNode(graph, tid)].ts,
                  high |-> graph.ts, tid |-> tid]
           old == diskRequests
<1>1. /\ DOMAIN old \subseteq [low : Nat, high : Nat, tid : Threads]
      /\ \A d \in DOMAIN old : old[d] \in Nat \ {0}
  BY DEF TypeOK
<1>2. CASE LastNode(graph, tid) = NoNode
  BY <1>1, <1>2 DEF AddDiskRequest
<1>3. CASE LastNode(graph, tid) # NoNode
  <2>1. d0 \in [low : Nat, high : Nat, tid : Threads]
    BY <1>3, LastNodeNewest DEF TypeOK, IsGraph, NodeRecord
  <2> HIDE DEF d0
  <2>2. /\ DOMAIN BagAdd(old, d0) = DOMAIN old \cup {d0}
        /\ \A d \in DOMAIN BagAdd(old, d0) : BagAdd(old, d0)[d] \in Nat \ {0}
    BY <1>1 DEF BagAdd
  <2>3. AddDiskRequest(tid) = BagAdd(old, d0)
    BY <1>3 DEF AddDiskRequest, d0
  <2>4. QED
    BY <1>1, <2>1, <2>2, <2>3
<1>4. QED
  BY <1>2, <1>3

(* Cutting a thread uses the type that it has for its next edge. *)
LEMMA CutThreadGrown ==
  ASSUME TypeOK, NEW g, GraphSound(g), NEW tid \in Threads, CanCut(g, tid)
  PROVE  Grown(g, CutThread(g, tid)) /\ lastEdgeType[tid] \in SpentTypes
BY CutGrown DEF CanCut, CutThread, TypeOK

(* A wake-up of one thread by another: two cuts and an edge, at one time. *)
LEMMA BetweenThreadsStep ==
  ASSUME IInv, NEW cpu \in Cpus, NEW source \in Threads \cup {InvalidThread},
         NEW target \in Threads, OnTTWUBetweenThreads(cpu, source, target),
         UNCHANGED <<saveTs, lastCleanupTs>>
  PROVE  IInv'
<1>1. source \in Threads /\ UNCHANGED <<context, networkNodes>>
  BY DEF OnTTWUBetweenThreads
<1> DEFINE cut1 == CutThread(graph, source)
           cut2 == CutThread(cut1, target)
<1>2. GraphSound(graph) /\ TypeOK
  BY DEF IInv
<1>3. CASE ~CanCut(graph, source)
  <2>1. graph' = graph
    BY <1>3 DEF OnTTWUBetweenThreads
  <2>2. QED
    <3>1. TypeOK'
      BY <1>2, <2>1, AddDiskRequestType DEF OnTTWUBetweenThreads, TypeOK
    <3>2. QED
      BY <1>1, <2>1, <3>1, QuietStep
<1>4. ASSUME Grown(graph, graph') PROVE IInv'
  <2>1. IsGraph(graph')
    BY <1>4 DEF Grown, GraphSound
  <2>2. TypeOK'
    BY <1>2, <2>1, AddDiskRequestType DEF OnTTWUBetweenThreads, TypeOK
  <2>3. QED
    BY <1>1, <1>4, <2>2, GrownStep
<1>5. CASE CanCut(graph, source) /\ ~CanCut(cut1, target)
  <2>1. graph' = cut1
    BY <1>5 DEF OnTTWUBetweenThreads
  <2>2. QED
    BY <1>1, <1>2, <1>4, <1>5, <2>1, CutThreadGrown
<1>6. CASE CanCut(graph, source) /\ CanCut(cut1, target)
  <2>1. graph' = CreateVerticalEdge(cut2, graph.nextNode, cut1.nextNode)
    BY <1>6 DEF OnTTWUBetweenThreads
  <2>2. GraphSound(cut1) /\ lastEdgeType[source] \in SpentTypes
    BY <1>1, <1>2, <1>6, CutThreadGrown DEF Grown
  <2>3. lastEdgeType[target] \in SpentTypes
    BY <1>2, <1>6, <2>2, CutThreadGrown
  <2>4. Grown(graph, CreateVerticalEdge(cut2, graph.nextNode, cut1.nextNode))
    BY <1>1, <1>2, <1>6, <2>2, <2>3, WakeupBetweenThreads DEF CanCut, CutThread
  <2>5. QED
    BY <1>4, <2>1, <2>4
<1>7. QED
  BY <1>3, <1>5, <1>6

(* The innermost context of a CPU that is in an interrupt.                 *)
LEMMA TopContext ==
  ASSUME TypeOK, NEW cpu \in Cpus, InInterrupt(cpu)
  PROVE  /\ Len(context[cpu]) \in DOMAIN context[cpu]
         /\ Top(cpu) = context[cpu][Len(context[cpu])]
         /\ Top(cpu) \in InterruptContext
         /\ Top(cpu).type \in SpentTypes /\ Top(cpu).node \in Nat
<1>1. context[cpu] \in Seq(InterruptContext) /\ context[cpu] # << >>
  BY DEF TypeOK, InInterrupt
<1>2. Len(context[cpu]) \in DOMAIN context[cpu]
  BY <1>1
<1>3. Top(cpu) \in InterruptContext
  BY <1>1, <1>2 DEF Top
<1>4. QED
  BY <1>2, <1>3 DEF Top, InterruptContext

(* A wake-up by the packet of the interrupt: the hop starts at the node
   that the context keeps. *)
LEMMA FromNetworkStep ==
  ASSUME IInv, NEW cpu \in Cpus, NEW target \in Threads,
         OnWakeupFromNetwork(cpu, target), UNCHANGED <<saveTs, lastCleanupTs>>
  PROVE  IInv'
<1> DEFINE n == Top(cpu).node
           hop == CreateHorizontalEdge(CreateNode(graph, NetworkThread), "kRun",
                                       n, graph.nextNode)
           cut == CutThread(hop, target)
<1>1. /\ GraphSound(graph) /\ TypeOK /\ HeldSound
      /\ UNCHANGED <<context, networkNodes>>
  BY DEF IInv, OnWakeupFromNetwork
<1>2. IsHeld(n) /\ n \in Nat \ {NoNode}
  <2>1. /\ Len(context[cpu]) \in DOMAIN context[cpu]
        /\ Top(cpu) = context[cpu][Len(context[cpu])] /\ n \in Nat
    BY <1>1, TopContext DEF OnWakeupFromNetwork
  <2>2. QED
    BY <2>1 DEF IsHeld, OnWakeupFromNetwork
<1>3. CASE n \notin DOMAIN graph.nodes
  <2>1. graph' = graph /\ memory' = "corrupt"
    BY <1>3 DEF OnWakeupFromNetwork
  <2>2. TypeOK'
    BY <1>1, <2>1 DEF OnWakeupFromNetwork, TypeOK
  <2>3. QED
    BY <1>1, <2>1, <2>2, QuietStep
<1>4. CASE n \in DOMAIN graph.nodes
  <2>1. /\ graph' = IF ~CanCut(hop, target) THEN hop
                    ELSE CreateVerticalEdge(cut, graph.nextNode, hop.nextNode)
        /\ memory' = memory
    BY <1>4 DEF OnWakeupFromNetwork
  <2>2. IsPacketNode(graph, n)
    BY <1>1, <1>2, <1>4 DEF HeldSound
  <2>3. Grown(graph, hop)
    BY <1>1, <1>4, <2>2, PacketReceived
  <2>4. ASSUME CanCut(hop, target)
        PROVE  Grown(graph, CreateVerticalEdge(cut, graph.nextNode, hop.nextNode))
    <3>1. lastEdgeType[target] \in SpentTypes
      BY <1>1, <2>3, <2>4, CutThreadGrown DEF Grown
    <3>2. QED
      BY <1>1, <1>4, <2>2, <2>4, <3>1, PacketReceived DEF CanCut, CutThread
  <2>5. Grown(graph, graph')
    BY <2>1, <2>3, <2>4
  <2>6. IsGraph(graph')
    BY <2>5 DEF Grown, GraphSound
  <2>7. TypeOK'
    BY <1>1, <2>1, <2>6 DEF OnWakeupFromNetwork, TypeOK
  <2>8. QED
    BY <1>1, <2>5, <2>7, GrownStep
<1>5. QED
  BY <1>3, <1>4

(* A wake-up in an interrupt that no packet came with. *)
LEMMA FromInterruptStep ==
  ASSUME IInv, NEW cpu \in Cpus, NEW target \in Threads,
         OnWakeupFromInterrupt(cpu, target), UNCHANGED <<saveTs, lastCleanupTs>>
  PROVE  IInv'
<1>1. TypeOK
  BY DEF IInv
<1>2. Top(cpu).type \in SpentTypes
  BY <1>1, TopContext DEF OnWakeupFromInterrupt
<1>3. /\ DOMAIN lastEdgeType' = DOMAIN lastEdgeType
      /\ \A tid \in DOMAIN lastEdgeType' : lastEdgeType'[tid] \in SpentTypes
  BY <1>1, <1>2 DEF TypeOK, OnWakeupFromInterrupt
<1>4. TypeOK'
  BY <1>1, <1>3, AddDiskRequestType DEF TypeOK, OnWakeupFromInterrupt
<1>5. QED
  BY <1>4, QuietStep DEF OnWakeupFromInterrupt

(* A packet arrives: its node goes from the table to the context. *)
LEMMA LocalInStep ==
  ASSUME IInv, NEW cpu \in Cpus, NEW key \in PacketKeys,
         OnInetSockLocalIn(cpu, key), UNCHANGED <<saveTs, lastCleanupTs>>
  PROVE  IInv'
<1> DEFINE s == context[cpu]
           top == [s[Len(s)] EXCEPT !.node = networkNodes[key]]
           t == [s EXCEPT ![Len(s)] = top]
<1>1. /\ TypeOK /\ graph' = graph
      /\ networkNodes[key] \in Nat \ {NoNode} /\ key \in DOMAIN networkNodes
  BY DEF IInv, TypeOK, OnInetSockLocalIn
<1>2. /\ s \in Seq(InterruptContext) /\ Len(s) \in DOMAIN s
      /\ s[Len(s)] \in InterruptContext
  BY <1>1, TopContext DEF TypeOK, OnInetSockLocalIn
<1>3. /\ context \in [Cpus -> Seq(InterruptContext)]
      /\ context' = [context EXCEPT ![cpu] = t]
  BY <1>1 DEF TypeOK, OnInetSockLocalIn
<1>4. top \in InterruptContext /\ top.node = networkNodes[key]
  BY <1>1, <1>2 DEF InterruptContext
<1> HIDE DEF top
<1>5. /\ t \in Seq(InterruptContext) /\ DOMAIN t = DOMAIN s
      /\ \A i \in DOMAIN s : t[i] = IF i = Len(s) THEN top ELSE s[i]
  BY <1>2, <1>4
<1> HIDE DEF t
<1>6. /\ DOMAIN networkNodes' \subseteq DOMAIN networkNodes
      /\ \A k \in DOMAIN networkNodes' : networkNodes'[k] = networkNodes[k]
  BY DEF OnInetSockLocalIn, Restrict
<1>7. TypeOK'
  BY <1>1, <1>3, <1>5, <1>6 DEF TypeOK, OnInetSockLocalIn
<1>8. \A n \in Nat \ {NoNode} : IsHeld(n)' => IsHeld(n)
  BY <1>1, <1>3, <1>4, <1>5, <1>6 DEF IsHeld
<1>9. GraphSound(graph') /\ HeldSound'
  BY <1>1, <1>8 DEF IInv, HeldSound
<1>10. QED
  BY <1>7, <1>9 DEF IInv

(* A packet leaves: its node goes into the table. *)
LEMMA LocalOutStep ==
  ASSUME IInv, NEW cpu \in Cpus, NEW tid \in Threads, NEW key \in PacketKeys,
         OnInetSockLocalOut(cpu, tid, key), UNCHANGED <<saveTs, lastCleanupTs>>
  PROVE  IInv'
<1> DEFINE cut == CutThread(graph, tid)
           n0 == cut.nextNode
<1>1. TypeOK /\ GraphSound(graph) /\ context' = context
  BY DEF IInv, OnInetSockLocalOut
<1>2. lastEdgeType[tid] \in SpentTypes
  BY <1>1, CutThreadGrown DEF OnInetSockLocalOut
<1>3. graph' = CreateVerticalEdge(CreateNode(cut, NetworkThread),
                                  graph.nextNode, n0)
  BY DEF OnInetSockLocalOut
<1>4. /\ Grown(graph, graph') /\ n0 \in Nat \ {NoNode} /\ n0 < graph'.nextNode
      /\ IsPacketNode(graph', n0)
  BY <1>1, <1>2, <1>3, PacketSent DEF OnInetSockLocalOut, CanCut, CutThread
<1>5. networkNodes' = Bind(networkNodes, key, n0)
  BY DEF OnInetSockLocalOut
<1> HIDE DEF n0
<1>6. /\ DOMAIN networkNodes' = DOMAIN networkNodes \cup {key}
      /\ \A k \in DOMAIN networkNodes' :
            \/ networkNodes'[k] = n0
            \/ k \in DOMAIN networkNodes /\ networkNodes'[k] = networkNodes[k]
  BY <1>5 DEF Bind
<1>7. IsGraph(graph') /\ GraphSound(graph') /\ Evolves(graph, graph')
  BY <1>4 DEF Grown, GraphSound
<1>8. TypeOK'
  BY <1>1, <1>4, <1>6, <1>7 DEF TypeOK, OnInetSockLocalOut
<1>9. \A n : IsHeld(n)' => IsHeld(n) \/ n = n0
  BY <1>1, <1>6 DEF IsHeld
<1>10. HeldSound'
  BY <1>4, <1>7, <1>9, HeldStep
<1>11. QED
  BY <1>7, <1>8, <1>10 DEF IInv

(* The type of an edge that a status gives. *)
LEMMA StatusEdgeTypeSpent == ASSUME NEW s PROVE StatusEdgeType(s) \in SpentTypes
BY DEF StatusEdgeType, SpentTypes, EdgeTypes

(* A thread changes its status or exits. *)
LEMMA ThreadStatusStep ==
  ASSUME IInv, NEW tid \in Threads, NEW new \in ReportedStatuses,
         OnThreadStatus(tid, new), UNCHANGED <<saveTs, lastCleanupTs>>
  PROVE  IInv'
<1>1. /\ TypeOK /\ GraphSound(graph) /\ tid \in Tids
      /\ UNCHANGED <<context, networkNodes, diskThreads, diskRequests, memory>>
  BY DEF IInv, OnThreadStatus, Tids
<1>2. status' \in [Threads -> Statuses]
  BY <1>1, StatusAssumption DEF TypeOK, OnThreadStatus
<1>3. CASE UNCHANGED <<graph, lastEdgeType>>
  <2>1. TypeOK'
    BY <1>1, <1>2, <1>3 DEF TypeOK
  <2>2. QED
    BY <1>1, <1>3, <2>1, QuietStep
<1>4. CASE StartEdge(tid, new)
  <2>1. /\ DOMAIN lastEdgeType' \subseteq Threads
        /\ \A t \in DOMAIN lastEdgeType' : lastEdgeType'[t] \in SpentTypes
    BY <1>1, <1>4, StatusEdgeTypeSpent DEF StartEdge, Bind, Restrict, TypeOK
  <2>2. Grown(graph, graph')
    <3>1. CASE CanCut(graph, tid)
      <4>1. graph' = CutThread(graph, tid)
        BY <1>4, <3>1 DEF StartEdge, CanCut, CutThread
      <4>2. QED
        BY <1>1, <3>1, <4>1, CutThreadGrown
    <3>2. CASE ~CanCut(graph, tid)
      <4>1. graph' = CreateNode(graph, tid)
        BY <1>4, <3>2 DEF StartEdge, CanCut
      <4>2. QED
        BY <1>1, <4>1, NodeGrown
    <3>3. QED
      BY <3>1, <3>2
  <2>3. IsGraph(graph')
    BY <2>2 DEF Grown, GraphSound
  <2>4. TypeOK'
    BY <1>1, <1>2, <2>1, <2>3 DEF TypeOK
  <2>5. QED
    BY <1>1, <2>2, <2>4, GrownStep
<1>5. QED
  BY <1>3, <1>4 DEF OnThreadStatus

(* A thread becomes jbd2. *)
LEMMA ThreadNameStep ==
  ASSUME IInv, NEW tid \in Threads, OnThreadName(tid),
         UNCHANGED <<saveTs, lastCleanupTs>>
  PROVE  IInv'
<1>1. TypeOK'
  BY DEF IInv, TypeOK, OnThreadName
<1>2. QED
  BY <1>1, QuietStep DEF OnThreadName

(* The time advances, and the cleanup may run: nodes that are kept
   elsewhere may go. *)
LEMMA TimestampStep ==
  ASSUME IInv, NEW ts \in Nat, OnTimestamp(ts)
  PROVE  IInv'
<1> DEFINE now == SetTimestamp(graph, ts)
<1>1. /\ TypeOK /\ GraphSound(graph) /\ graph.ts <= ts /\ saveTs \in Nat
      /\ UNCHANGED <<context, networkNodes, lastEdgeType, diskThreads, status>>
  BY DEF IInv, TypeOK, GraphSound, IsGraph, OnTimestamp
<1>2. GraphSound(now) /\ Evolves(graph, now)
  BY <1>1, SetTimestampSound, SetTimestampEvolves
<1>3. GraphSound(Cleanup(now, saveTs)) /\ Evolves(graph, Cleanup(now, saveTs))
  <2>1. GraphSound(Cleanup(now, saveTs)) /\ Evolves(now, Cleanup(now, saveTs))
    BY <1>1, <1>2, CleanupSound, CleanupEvolves
  <2>2. QED
    BY <1>1, <1>2, <2>1, EvolvesTransitive DEF GraphSound
<1> HIDE DEF now
<1>4. graph' \in {now, Cleanup(now, saveTs)} /\ memory' \in {memory, "corrupt"}
  BY DEF OnTimestamp, now
<1>5. GraphSound(graph') /\ Evolves(graph, graph') /\ IsGraph(graph')
  BY <1>2, <1>3, <1>4 DEF GraphSound
<1>6. /\ DOMAIN diskRequests' \subseteq DOMAIN diskRequests
      /\ \A d \in DOMAIN diskRequests' : diskRequests'[d] = diskRequests[d]
  BY DEF OnTimestamp, CleanupRequests, Restrict
<1>7. saveTs' \in Nat /\ lastCleanupTs' \in Nat
  BY <1>1 DEF OnTimestamp, TypeOK
<1>8. TypeOK'
  BY <1>1, <1>4, <1>5, <1>6, <1>7 DEF TypeOK
<1>9. \A n : IsHeld(n)' => IsHeld(n)
  BY <1>1 DEF IsHeld
<1>10. HeldSound'
  BY <1>5, <1>9, HeldStep
<1>11. QED
  BY <1>5, <1>8, <1>10 DEF IInv

(* Nothing happens. *)
LEMMA StutterIInv == IInv /\ UNCHANGED vars => IInv'
<1> SUFFICES ASSUME IInv, UNCHANGED vars PROVE IInv'
  OBVIOUS
<1>1. TypeOK'
  BY DEF IInv, TypeOK, vars, blockVars
<1>2. QED
  BY <1>1, QuietStep DEF vars, blockVars

(* So every step keeps IInv, ... *)
LEMMA NextIInv == IInv /\ [Next]_vars => IInv'
<1> SUFFICES ASSUME IInv, Next PROVE IInv'
  BY StutterIInv
<1>1. ASSUME NEW cpu \in Cpus, NEW source \in Threads \cup {InvalidThread},
             NEW target \in Threads, OnTTWU(cpu, source, target),
             UNCHANGED <<saveTs, lastCleanupTs>>
      PROVE  IInv'
  BY <1>1, BetweenThreadsStep, FromNetworkStep, FromInterruptStep DEF OnTTWU
<1>2. ASSUME SoftIrqs \/ IrqHandlers \/ Hrtimers,
             UNCHANGED <<saveTs, lastCleanupTs>>
      PROVE  IInv'
  <2>1. /\ \A vec : ResolveSoftIRQ(vec) \in SpentTypes
        /\ \A irq : ResolveIRQ(irq) \in SpentTypes
        /\ "kTimer" \in SpentTypes
    BY DEF ResolveSoftIRQ, ResolveIRQ, SpentTypes, EdgeTypes
  <2>2. \E c \in Cpus : \E type \in SpentTypes :
           EnterInterrupt(c, type) \/ ExitInterrupt(c, type)
    BY <1>2, <2>1, HrtimerAssumption
       DEF SoftIrqs, IrqHandlers, Hrtimers, OnSoftIrqEntry, OnSoftIrqExit,
           OnIrqHandlerEntry, OnIrqHandlerExit, OnHrtimerExpireEntry,
           OnHrtimerExpireExit
  <2>3. QED
    BY <1>2, <2>2, EnterInterruptStep, ExitInterruptStep
<1>3. ASSUME Packets, UNCHANGED <<saveTs, lastCleanupTs>>
      PROVE  IInv'
  BY <1>3, LocalInStep, LocalOutStep DEF Packets
<1>4. ASSUME ThreadStates, UNCHANGED <<saveTs, lastCleanupTs>>
      PROVE  IInv'
  BY <1>4, ThreadStatusStep, ThreadNameStep DEF ThreadStates
<1>5. CASE Event
  <2>1. UNCHANGED <<saveTs, lastCleanupTs>>
    BY <1>5 DEF Event
  <2>2. QED
    BY <1>1, <1>2, <1>3, <1>4, <1>5, <2>1 DEF Event, WakeUps
<1>6. CASE \E ts \in 1..MaxTs : OnTimestamp(ts)
  BY <1>6, TimestampStep
<1>7. QED
  BY <1>5, <1>6 DEF Next

----------------------------------------------------------------------------
(* The theorems.                                                           *)

(* ... and it holds in every state of a build: the type invariant, a
   sound graph, and every node that CriticalBlock keeps (BuildBlock.cpp,
   CriticalBlock.cpp). *)
THEOREM Inductive == Spec => []IInv
BY InitIInv, NextIInv, PTL DEF Spec

(* The graph, the tables of CriticalBlock and the timestamps of BuildBlock *)
(* keep their types.                                                       *)
THEOREM Typed == Spec => []TypeOK
<1>1. IInv => TypeOK
  BY DEF IInv
<1>2. QED
  BY <1>1, Inductive, PTL

(* Every edge id in a slot of a live node names an edge of the graph:      *)
(* CriticalGraph::GetEdge always answers.                                  *)
THEOREM SlotsAlwaysResolve == Spec => []SlotsResolve
<1>1. IInv => SlotsResolve
  BY DEF IInv, GraphSound, SlotsResolve
<1>2. QED
  BY <1>1, Inductive, PTL

(* Every edge hangs on the nodes it joins, hops on their target at least.  *)
THEOREM EdgesStayAnchored == Spec => []EdgesAnchored
<1>1. IInv => EdgesAnchored
  BY DEF IInv, GraphSound, EdgesAnchored
<1>2. QED
  BY <1>1, Inductive, PTL

(* The vector of a thread, in the order of creation, is in time order.     *)
THEOREM HistoryStaysOrdered == Spec => []HistoryOrdered
<1>1. IInv => HistoryOrdered
  BY DEF IInv, GraphSound, HistoryOrdered
<1>2. QED
  BY <1>1, Inductive, PTL

(* The edges of a thread join neighbours in its history.                   *)
THEOREM ThreadEdgesStayAdjacent == Spec => []ThreadEdgesAdjacent
<1>1. IInv => ThreadEdgesAdjacent
  BY DEF IInv, GraphSound, ThreadEdgesAdjacent
<1>2. QED
  BY <1>1, Inductive, PTL

(* Wake-ups are instantaneous, and never lose one of their ends.           *)
THEOREM WakeupsSimultaneous == Spec => []VerticalSimultaneous
<1>1. IInv => VerticalSimultaneous
  BY DEF IInv, GraphSound, VerticalSimultaneous
<1>2. QED
  BY <1>1, Inductive, PTL

(* A hop on the network leaves a node to which a thread sent a packet.     *)
THEOREM HopsHaveSenders == Spec => []HopHasSender
<1>1. IInv => HopHasSender
  BY DEF IInv, GraphSound, HopHasSender
<1>2. QED
  BY <1>1, Inductive, PTL

(* A cleanup that happens as intended deletes the nodes older than the     *)
(* previous save and no other, and every edge whose source it keeps stays  *)
(* what it was, in the slot of its target.                                 *)
THEOREM CleanupForgetsOnlyTheOld == Spec => CleanupForgetsOnlyOld
<1>1. ASSUME IInv, Next, lastCleanupTs' # lastCleanupTs, memory' = "sound"
      PROVE  ForgetsOnlyOld
  <2>1. PICK ts \in Nat : OnTimestamp(ts) /\ SaveIsDue(ts)
    BY <1>1 DEF Next, Event, OnTimestamp
  <2> DEFINE now == SetTimestamp(graph, ts)
  <2>2. /\ GraphSound(graph) /\ saveTs \in Nat /\ graph.ts <= ts
        /\ graph' = Cleanup(now, saveTs)
    BY <1>1, <2>1 DEF IInv, TypeOK, GraphSound, IsGraph, OnTimestamp
  <2>3. /\ GraphSound(now) /\ now.nodes = graph.nodes /\ now.edges = graph.edges
    BY <2>2, SetTimestampSound DEF SetTimestamp, GraphSound, IsGraph
  <2> HIDE DEF now
  <2>4. /\ Removed(now, saveTs) = {n \in DOMAIN graph.nodes : graph.nodes[n].ts < saveTs}
        /\ \A n \in DOMAIN graph.nodes : n \in Nat /\ graph.nodes[n].ts \in Nat
    BY <2>2, <2>3, RemovedIsOld DEF GraphSound, IsGraph, NodeRecord
  <2>5. /\ DOMAIN graph'.nodes = DOMAIN graph.nodes \ Removed(now, saveTs)
        /\ \A n \in DOMAIN graph'.nodes, p \in Positions :
              graph'.nodes[n].edge[p] =
                 IF graph.nodes[n].edge[p] \in ErasedEdges(now, saveTs)
                 THEN NoEdge ELSE graph.nodes[n].edge[p]
        /\ DOMAIN graph'.edges = DOMAIN graph.edges \ ErasedEdges(now, saveTs)
        /\ \A e \in DOMAIN graph'.edges : graph'.edges[e] = graph.edges[e]
    BY <2>2, <2>3, CleanupShape
  <2>6. DOMAIN graph'.nodes = {n \in DOMAIN graph.nodes : Node(n).ts >= saveTs}
    BY <2>2, <2>4, <2>5 DEF Node
  <2>7. ASSUME NEW e \in DOMAIN graph.edges,
               Anchored(graph, e), From(graph, e).ts >= saveTs
        PROVE  /\ e \in DOMAIN graph'.edges
               /\ graph'.edges[e] = graph.edges[e]
               /\ graph'.nodes[graph.edges[e].to].edge[InSlot(graph, e)] = e
    <3> DEFINE from == graph.edges[e].from
               to == graph.edges[e].to
    <3>1. /\ from < to /\ from \in DOMAIN graph.nodes /\ to \in DOMAIN graph.nodes
          /\ graph.nodes[to].edge[InSlot(graph, e)] = e
          /\ InSlot(graph, e) \in Positions
      BY <2>2, <2>7 DEF GraphSound, EdgesAnchoredIn, Anchored, To, InSlot, Positions
    <3>2. graph.nodes[from].ts <= graph.nodes[to].ts /\ graph.nodes[from].ts >= saveTs
      BY <2>2, <2>7, <3>1 DEF GraphSound, HistoryOrderedIn, From
    <3>3. from \notin Removed(now, saveTs) /\ to \notin Removed(now, saveTs)
      BY <2>2, <2>4, <3>1, <3>2
    <3>4. e \notin ErasedEdges(now, saveTs)
      BY <2>3, <3>3, ErasedEnds
    <3>5. QED
      BY <2>5, <3>1, <3>3, <3>4
  <2>8. QED
    BY <2>6, <2>7 DEF ForgetsOnlyOld
<1>2. IInv /\ [Next]_vars => [ForgetsOnlyOld]_vars
  BY <1>1 DEF ForgetsOnlyOld
<1>3. QED
  BY <1>2, Inductive, PTL DEF Spec, CleanupForgetsOnlyOld

----------------------------------------------------------------------------
(* The tables that CriticalBlock keeps beside the graph: packets in        *)
(* flight, types of next edges, disk requests.  Each refers to nodes or to *)
(* times of the graph, which grows and is cleaned independently of them.   *)

(* From g to h, within one notification, nodes are only added, at the      *)
(* present time, and no new hop leaves a node of the network thread, but   *)
(* for those in S.                                                         *)
Extended(g, h, S) ==
    /\ IsGraph(g) /\ IsGraph(h) /\ h.ts = g.ts
    /\ DOMAIN g.nodes \subseteq DOMAIN h.nodes
    /\ \A n \in DOMAIN g.nodes :
          /\ h.nodes[n].ts = g.nodes[n].ts /\ h.nodes[n].tid = g.nodes[n].tid
          /\ n \notin S /\ g.nodes[n].tid = NetworkThread =>
                h.nodes[n].edge["outHorizontal"] = g.nodes[n].edge["outHorizontal"]
    /\ g.nextNode <= h.nextNode
    /\ \A n \in DOMAIN h.nodes \ DOMAIN g.nodes :
          h.nodes[n].ts = g.ts /\ n >= g.nextNode

(* Doing nothing extends a graph, two extensions in a row are one, ...     *)
LEMMA ExtendedItself ==
    ASSUME NEW g, IsGraph(g), NEW S
    PROVE  Extended(g, g, S)
BY DEF Extended, IsGraph

(* ... and each operation of the graph is one: a node, ...                 *)
LEMMA ExtendedTwice ==
    ASSUME NEW f, NEW g, NEW h, NEW S, Extended(f, g, S), Extended(g, h, S)
    PROVE  Extended(f, h, S)
<1>1. f.nextNode \in Nat /\ g.nextNode \in Nat /\ h.nextNode \in Nat
      /\ \A n \in DOMAIN h.nodes : n \in Nat
    BY DEF Extended, IsGraph
<1> QED BY <1>1 DEF Extended

LEMMA ExtendedByNode ==
    ASSUME NEW g, IsGraph(g), NEW tid \in Tids, NEW S
    PROVE  Extended(g, CreateNode(g, tid), S)
BY CreateNodeShape DEF Extended

(* ... an edge, if it is no hop of a node that is not in S, ...            *)
LEMMA ExtendedByEdge ==
    ASSUME NEW g, IsGraph(g), NEW p \in {"outVertical", "outHorizontal"},
           NEW type \in EdgeTypes, NEW S,
           NEW from \in DOMAIN g.nodes, NEW to \in DOMAIN g.nodes, from < to,
           p = "outHorizontal" => from \in S \/ g.nodes[from].tid # NetworkThread
    PROVE  Extended(g, CreateEdge(g, p, type, from, to), S)
<1> DEFINE h == CreateEdge(g, p, type, from, to)
<1>1. p \in Positions /\ "outHorizontal" \in Positions
      /\ Opposite(p) # "outHorizontal"
    BY DEF Positions, Opposite
<1>2. EdgeAdded(g, h, p, type, from, to)
    BY <1>1, CreateEdgeShape
<1> HIDE DEF h
<1>3. ASSUME NEW n \in DOMAIN g.nodes, n \notin S, g.nodes[n].tid = NetworkThread
      PROVE  h.nodes[n].edge["outHorizontal"] = g.nodes[n].edge["outHorizontal"]
    <2>1. ~(n = from /\ "outHorizontal" = p) /\ ~(n = to /\ "outHorizontal" = Opposite(p))
        BY <1>1, <1>3
    <2> QED BY <1>1, <1>2, <2>1 DEF EdgeAdded
<1>4. /\ IsGraph(h) /\ h.ts = g.ts /\ DOMAIN h.nodes = DOMAIN g.nodes
      /\ h.nextNode = g.nextNode /\ g.nextNode \in Nat
      /\ \A n \in DOMAIN g.nodes : /\ h.nodes[n].ts = g.nodes[n].ts
                                  /\ h.nodes[n].tid = g.nodes[n].tid
    BY <1>2 DEF EdgeAdded, IsGraph
<1> QED BY <1>3, <1>4 DEF Extended, h

(* ... and the cut of a thread of the trace.                               *)
LEMMA ExtendedByCut ==
    ASSUME NEW g, GraphSound(g), NEW tid \in Threads, NEW type \in SpentTypes,
           LastNode(g, tid) # NoNode, NEW S,
           NEW h, h = CreateHorizontalEdge(CreateNode(g, tid), type,
                                           LastNode(g, tid), g.nextNode)
    PROVE  Extended(g, h, S)
<1> DEFINE c == CreateNode(g, tid)
           last == LastNode(g, tid)
<1>1. IsGraph(g) /\ tid \in Tids /\ tid # NetworkThread /\ type \in EdgeTypes
    BY NetworkThreadAssumption DEF GraphSound, Tids, SpentTypes
<1>2. last \in DOMAIN g.nodes /\ g.nodes[last].tid = tid
    BY <1>1, LastNodeNewest
<1>3. /\ IsGraph(c) /\ DOMAIN c.nodes = DOMAIN g.nodes \cup {g.nextNode}
      /\ c.nodes[last] = g.nodes[last] /\ last < g.nextNode
    BY <1>1, <1>2, CreateNodeShape
<1>4. Extended(g, c, S)
    BY <1>1, ExtendedByNode
<1> HIDE DEF c, last
<1>5. Extended(c, CreateEdge(c, "outHorizontal", type, last, g.nextNode), S)
    BY <1>1, <1>2, <1>3, ExtendedByEdge
<1> QED BY <1>4, <1>5, ExtendedTwice DEF CreateHorizontalEdge, c, last

----------------------------------------------------------------------------
(* What each handler that changes the graph does to it.                    *)

(* CutThread extends the graph, and the result is sound again.             *)
LEMMA CutThreadExtends ==
    ASSUME TypeOK, NEW g, GraphSound(g), NEW tid \in Threads, CanCut(g, tid), NEW S
    PROVE  /\ Extended(g, CutThread(g, tid), S)
           /\ GraphSound(CutThread(g, tid)) /\ IsGraph(CutThread(g, tid))
           /\ IsCut(g, CutThread(g, tid), tid)
<1>1. LastNode(g, tid) # NoNode /\ lastEdgeType[tid] \in SpentTypes
    BY CutThreadGrown DEF CanCut
<1>2. Extended(g, CutThread(g, tid), S)
    BY <1>1, ExtendedByCut DEF CutThread
<1>3. IsCut(g, CutThread(g, tid), tid)
    BY <1>1, CutIsCut DEF CutThread
<1> QED BY <1>2, <1>3 DEF IsCut

(* The edge of a wake-up.                                                  *)
LEMMA ExtendedByWakeup ==
    ASSUME NEW g, IsGraph(g), NEW from \in DOMAIN g.nodes, NEW to \in DOMAIN g.nodes,
           from < to, NEW S
    PROVE  Extended(g, CreateVerticalEdge(g, from, to), S)
BY ExtendedByEdge DEF CreateVerticalEdge, EdgeTypes

(* A wake-up of one thread by another.                                     *)
LEMMA BetweenThreadsExtends ==
    ASSUME IInv, NEW cpu \in Cpus, NEW source \in Threads \cup {InvalidThread},
           NEW target \in Threads, OnTTWUBetweenThreads(cpu, source, target)
    PROVE  Extended(graph, graph', {})
<1> DEFINE cut1 == CutThread(graph, source)
           cut2 == CutThread(cut1, target)
<1>1. /\ TypeOK /\ GraphSound(graph) /\ IsGraph(graph) /\ source \in Threads
      /\ graph' = IF ~CanCut(graph, source) THEN graph
                  ELSE IF ~CanCut(cut1, target) THEN cut1
                  ELSE CreateVerticalEdge(cut2, graph.nextNode, cut1.nextNode)
    BY DEF IInv, TypeOK, OnTTWUBetweenThreads
<1>2. CASE ~CanCut(graph, source)
    BY <1>1, <1>2, ExtendedItself
<1>3. CASE CanCut(graph, source) /\ ~CanCut(cut1, target)
    BY <1>1, <1>3, CutThreadExtends
<1>4. CASE CanCut(graph, source) /\ CanCut(cut1, target)
    <2>1. /\ Extended(graph, cut1, {}) /\ GraphSound(cut1)
          /\ cut1.nextNode = graph.nextNode + 1 /\ graph.nextNode \in Nat
          /\ DOMAIN cut1.nodes = DOMAIN graph.nodes \cup {graph.nextNode}
        BY <1>1, <1>4, CutThreadExtends DEF IsCut
    <2>2. /\ Extended(cut1, cut2, {}) /\ IsGraph(cut2)
          /\ DOMAIN cut2.nodes = DOMAIN cut1.nodes \cup {cut1.nextNode}
        BY <1>1, <1>4, <2>1, CutThreadExtends DEF IsCut
    <2> HIDE DEF cut1, cut2
    <2>3. Extended(cut2, CreateVerticalEdge(cut2, graph.nextNode, cut1.nextNode), {})
        BY <2>1, <2>2, ExtendedByWakeup
    <2>4. graph' = CreateVerticalEdge(cut2, graph.nextNode, cut1.nextNode)
        BY <1>1, <1>4
    <2> QED BY <2>1, <2>2, <2>3, <2>4, ExtendedTwice
<1> QED BY <1>2, <1>3, <1>4

(* A wake-up by a packet, which may give the node of the packet a hop.     *)
LEMMA FromNetworkExtends ==
    ASSUME IInv, NEW cpu \in Cpus, NEW target \in Threads, OnWakeupFromNetwork(cpu, target)
    PROVE  Extended(graph, graph', {Top(cpu).node})
<1> DEFINE n == Top(cpu).node
           c == CreateNode(graph, NetworkThread)
           hop == CreateHorizontalEdge(c, "kRun", n, graph.nextNode)
           cut == CutThread(hop, target)
<1>1. TypeOK /\ GraphSound(graph) /\ IsGraph(graph) /\ NetworkThread \in Tids
    BY DEF IInv, TypeOK, Tids
<1>2. CASE n \notin DOMAIN graph.nodes
    BY <1>1, <1>2, ExtendedItself DEF OnWakeupFromNetwork
<1>3. CASE n \in DOMAIN graph.nodes
    <2>1. graph' = IF ~CanCut(hop, target) THEN hop
                   ELSE CreateVerticalEdge(cut, graph.nextNode, hop.nextNode)
        BY <1>3 DEF OnWakeupFromNetwork
    <2>2. IsPacketNode(graph, n)
        <3>1. /\ Len(context[cpu]) \in DOMAIN context[cpu]
              /\ Top(cpu) = context[cpu][Len(context[cpu])] /\ n \in Nat
            BY <1>1, TopContext DEF OnWakeupFromNetwork
        <3>2. IsHeld(n) /\ n # NoNode
            BY <3>1 DEF IsHeld, OnWakeupFromNetwork
        <3> QED BY <1>3, <3>1, <3>2 DEF IInv, HeldSound
    <2>3. /\ Extended(graph, c, {n}) /\ IsGraph(c) /\ n < graph.nextNode
          /\ DOMAIN c.nodes = DOMAIN graph.nodes \cup {graph.nextNode}
          /\ c.nextNode = graph.nextNode + 1 /\ graph.nextNode \in Nat
        BY <1>1, <1>3, ExtendedByNode, CreateNodeShape
    <2>4. Grown(graph, hop) /\ GraphSound(hop)
        BY <1>1, <1>3, <2>2, PacketReceived DEF Grown
    <2> HIDE DEF c
    <2>5. hop = CreateEdge(c, "outHorizontal", "kRun", n, graph.nextNode)
        BY DEF CreateHorizontalEdge
    <2> HIDE DEF hop, n
    <2>6. "kRun" \in EdgeTypes /\ "outHorizontal" \in Positions
        BY DEF EdgeTypes, Positions
    <2>7. /\ Extended(c, hop, {n})
          /\ EdgeAdded(c, hop, "outHorizontal", "kRun", n, graph.nextNode)
        BY <1>3, <2>3, <2>5, <2>6, ExtendedByEdge, CreateEdgeShape
    <2>8. /\ Extended(graph, hop, {n}) /\ graph.nextNode \in DOMAIN hop.nodes
          /\ hop.nextNode = graph.nextNode + 1
        BY <2>3, <2>7, ExtendedTwice DEF EdgeAdded
    <2>9. CASE ~CanCut(hop, target)
        BY <2>1, <2>8, <2>9 DEF n
    <2>10. CASE CanCut(hop, target)
        <3>1. /\ Extended(hop, cut, {n}) /\ IsGraph(cut)
              /\ DOMAIN cut.nodes = DOMAIN hop.nodes \cup {hop.nextNode}
            BY <1>1, <2>4, <2>10, CutThreadExtends DEF IsCut
        <3> HIDE DEF cut
        <3>2. Extended(cut, CreateVerticalEdge(cut, graph.nextNode, hop.nextNode), {n})
            BY <2>3, <2>8, <3>1, ExtendedByWakeup
        <3>3. graph' = CreateVerticalEdge(cut, graph.nextNode, hop.nextNode)
            BY <2>1, <2>10
        <3> QED BY <2>8, <3>1, <3>2, <3>3, ExtendedTwice DEF n
    <2> QED BY <2>9, <2>10
<1> QED BY <1>2, <1>3

(* A packet that leaves: its node has no hop yet.                          *)
LEMMA LocalOutExtends ==
    ASSUME IInv, NEW cpu \in Cpus, NEW tid \in Threads, NEW key \in PacketKeys,
           OnInetSockLocalOut(cpu, tid, key),
           NEW new, new = CutThread(graph, tid).nextNode
    PROVE  /\ Extended(graph, graph', {})
           /\ new = graph.nextNode + 1 /\ graph.nextNode \in Nat
           /\ new \in DOMAIN graph'.nodes
           /\ graph'.nodes[new].edge["outHorizontal"] = NoEdge
<1> DEFINE cut == CutThread(graph, tid)
           c == CreateNode(cut, NetworkThread)
<1>1. /\ TypeOK /\ GraphSound(graph) /\ IsGraph(graph) /\ NetworkThread \in Tids
      /\ CanCut(graph, tid) /\ graph' = CreateVerticalEdge(c, graph.nextNode, new)
    BY DEF IInv, TypeOK, Tids, OnInetSockLocalOut
<1>2. /\ Extended(graph, cut, {}) /\ IsGraph(cut)
      /\ new = graph.nextNode + 1 /\ graph.nextNode \in Nat
      /\ graph.nextNode \in DOMAIN cut.nodes /\ new = cut.nextNode
    BY <1>1, CutThreadExtends DEF IsCut
<1> HIDE DEF cut
<1>3. "outHorizontal" \in Positions /\ "outVertical" \in Positions /\ "kVertical" \in EdgeTypes
    BY DEF Positions, EdgeTypes
<1>4. /\ Extended(cut, c, {}) /\ IsGraph(c)
      /\ DOMAIN c.nodes = DOMAIN cut.nodes \cup {new}
      /\ c.nodes[new].edge["outHorizontal"] = NoEdge
    BY <1>1, <1>2, <1>3, ExtendedByNode, CreateNodeShape
<1> HIDE DEF c
<1>5. /\ Extended(c, graph', {})
      /\ EdgeAdded(c, graph', "outVertical", "kVertical", graph.nextNode, new)
    BY <1>1, <1>2, <1>3, <1>4, ExtendedByWakeup, CreateEdgeShape DEF CreateVerticalEdge
<1>6. "outHorizontal" # Opposite("outVertical")
    BY DEF Opposite
<1>7. graph'.nodes[new].edge["outHorizontal"] = NoEdge
    BY <1>3, <1>4, <1>5, <1>6 DEF EdgeAdded
<1>8. Extended(graph, graph', {})
    BY <1>2, <1>4, <1>5, ExtendedTwice
<1> QED BY <1>2, <1>4, <1>5, <1>7, <1>8 DEF Extended

(* A thread that changes its status.                                       *)
LEMMA StartEdgeExtends ==
    ASSUME IInv, NEW tid \in Threads, NEW new, StartEdge(tid, new)
    PROVE  Extended(graph, graph', {})
<1>1. TypeOK /\ GraphSound(graph) /\ IsGraph(graph) /\ tid \in Tids
    BY DEF IInv, TypeOK, Tids
<1>2. CASE CanCut(graph, tid)
    <2>1. graph' = CutThread(graph, tid)
        BY <1>2 DEF StartEdge, CanCut, CutThread
    <2> QED BY <1>1, <1>2, <2>1, CutThreadExtends
<1>3. CASE ~CanCut(graph, tid)
    <2>1. graph' = CreateNode(graph, tid)
        BY <1>3 DEF StartEdge, CanCut
    <2> QED BY <1>1, <2>1, ExtendedByNode
<1> QED BY <1>2, <1>3

----------------------------------------------------------------------------
(* The type of the next edge.                                              *)

(* Only what blocks a thread gives its next edge the type of a wait.       *)
LEMMA BlockedType ==
    ASSUME NEW s, StatusEdgeType(s) = "kWaitBlocked"
    PROVE  s = "wait_blocked"
BY DEF StatusEdgeType

(* A step keeps the types in line with the statuses.                       *)
LEMMA TypeFollowsStep ==
    ASSUME TypeOK, TypeFollowsStatus, [Next]_vars
    PROVE  TypeFollowsStatus'
<1>1. CASE UNCHANGED <<lastEdgeType, status>>
    BY <1>1 DEF TypeFollowsStatus
<1>2. ASSUME NEW cpu \in Cpus, NEW target \in Threads, OnWakeupFromInterrupt(cpu, target)
      PROVE  TypeFollowsStatus'
    <2>1. status[target] = "wait_blocked"
        BY <1>2, BlockedType DEF OnWakeupFromInterrupt, WaitsBlocked, TypeFollowsStatus
    <2> QED BY <1>2, <2>1 DEF OnWakeupFromInterrupt, TypeFollowsStatus
<1>3. ASSUME NEW tid \in Threads, NEW new, OnThreadStatus(tid, new)
      PROVE  TypeFollowsStatus'
    <2>1. status \in [Threads -> Statuses] /\ DOMAIN lastEdgeType \subseteq Threads
          /\ status' = [status EXCEPT ![tid] = new]
        BY <1>3 DEF TypeOK, OnThreadStatus
    <2>2. CASE SameEdgeType(tid, new) /\ UNCHANGED lastEdgeType
        BY <2>1, <2>2 DEF SameEdgeType, TypeFollowsStatus
    <2>3. CASE StartEdge(tid, new)
        <3>1. CASE new # NullStatus
            <4>1. lastEdgeType' = Bind(lastEdgeType, tid, StatusEdgeType(new))
                BY <2>3, <3>1 DEF StartEdge
            <4> QED BY <2>1, <4>1 DEF Bind, TypeFollowsStatus
        <3>2. CASE new = NullStatus
            <4>1. lastEdgeType' = Restrict(lastEdgeType, DOMAIN lastEdgeType \ {tid})
                BY <2>3, <3>2 DEF StartEdge
            <4> QED BY <2>1, <4>1 DEF Restrict, TypeFollowsStatus
        <3> QED BY <3>1, <3>2
    <2> QED BY <1>3, <2>2, <2>3 DEF OnThreadStatus
<1>4. CASE UNCHANGED vars
    BY <1>1, <1>4 DEF vars, blockVars
<1>5. CASE Next
    <2>1. ASSUME NEW cpu \in Cpus, NEW source, NEW target \in Threads,
                 OnTTWU(cpu, source, target)
          PROVE  TypeFollowsStatus'
        BY <1>1, <1>2, <2>1 DEF OnTTWU, OnTTWUBetweenThreads, OnWakeupFromNetwork
    <2>2. CASE SoftIrqs \/ IrqHandlers \/ Hrtimers
        <3>1. \E cpu, type : EnterInterrupt(cpu, type) \/ ExitInterrupt(cpu, type)
            BY <2>2 DEF SoftIrqs, IrqHandlers, Hrtimers, OnSoftIrqEntry, OnSoftIrqExit,
                        OnIrqHandlerEntry, OnIrqHandlerExit, OnHrtimerExpireEntry,
                        OnHrtimerExpireExit
        <3> QED BY <1>1, <3>1 DEF EnterInterrupt, ExitInterrupt
    <2>3. CASE Packets
        BY <1>1, <2>3 DEF Packets, OnInetSockLocalIn, OnInetSockLocalOut
    <2>4. CASE ThreadStates
        BY <1>1, <1>3, <2>4 DEF ThreadStates, OnThreadName
    <2>5. CASE \E ts \in 1..MaxTs : OnTimestamp(ts)
        BY <1>1, <2>5 DEF OnTimestamp
    <2> QED BY <1>5, <2>1, <2>2, <2>3, <2>4, <2>5 DEF Next, Event, WakeUps
<1> QED BY <1>4, <1>5

(* The type of a thread's next edge is that of its status, or the thread   *)
(* is blocked and an interrupt has told what for (CriticalBlock.cpp:345,   *)
(* 349-407): no interrupt retypes a thread that runs.                      *)
THEOREM TypesFollowStatus == Spec => []TypeFollowsStatus
<1>1. BuildInit => TypeFollowsStatus
    BY DEF BuildInit, Init, TypeFollowsStatus
<1> QED BY <1>1, TypeFollowsStep, Typed, PTL DEF Spec

----------------------------------------------------------------------------
(* The query for the node at a time.                                       *)

(* It follows from what is sound of a graph.                               *)
LEMMA IntersectingFinds ==
    ASSUME NEW g, GraphSound(g), NEW e \in DOMAIN g.edges, IsThreadEdge(g, e),
           NEW ts \in From(g, e).ts..To(g, e).ts,
           NEW n, n = GetNodeIntersecting(g, ts, To(g, e).tid)
    PROVE  LET out == g.nodes[n].edge["outHorizontal"]
           IN  /\ n # NoNode
               /\ g.nodes[n].tid = To(g, e).tid /\ g.nodes[n].ts <= ts
               /\ g.nodes[n].ts = ts \/ (out # NoEdge /\ To(g, out).ts >= ts)
<1> DEFINE from == g.edges[e].from
           to == g.edges[e].to
           tid == To(g, e).tid
           upTo == NodesUpTo(g, ts, tid)
<1>1. /\ \A m \in DOMAIN g.nodes : m \in Nat \ {NoNode} /\ g.nodes[m].ts \in Nat
      /\ \A k, m \in DOMAIN g.nodes : k < m => g.nodes[k].ts <= g.nodes[m].ts
      /\ g.nextNode \in Nat /\ DOMAIN g.nodes \subseteq 1..(g.nextNode - 1)
    BY DEF GraphSound, IsGraph, HistoryOrderedIn, NodeRecord, NoNode
<1>2. /\ from \in DOMAIN g.nodes /\ to \in DOMAIN g.nodes /\ from < to
      /\ g.nodes[from].edge["outHorizontal"] = e
      /\ g.nodes[from].tid = tid /\ g.nodes[to].tid = tid
      /\ \A m \in NodesOf(g, tid) : m <= from \/ m >= to
      /\ ts \in Nat /\ g.nodes[from].ts <= ts /\ ts <= g.nodes[to].ts
    <2>1. ~IsHop(g, e) /\ OutSlot(g, e) = "outHorizontal"
        BY DEF IsThreadEdge, IsHop, OutSlot
    <2>2. /\ from \in DOMAIN g.nodes /\ to \in DOMAIN g.nodes /\ from < to
          /\ g.nodes[from].edge["outHorizontal"] = e
        BY <2>1 DEF GraphSound, EdgesAnchoredIn, Anchored, From
    <2>3. g.nodes[from].tid = tid /\ \A m \in NodesOf(g, tid) : m <= from \/ m >= to
        BY DEF GraphSound, ThreadEdgesAdjacentIn, From
    <2>4. g.nodes[to].tid = tid /\ ts \in g.nodes[from].ts..g.nodes[to].ts
        BY DEF From, To
    <2>5. g.nodes[from].ts \in Nat /\ g.nodes[to].ts \in Nat
        BY <1>1, <2>2
    <2>6. ts \in Nat /\ g.nodes[from].ts <= ts /\ ts <= g.nodes[to].ts
        BY <2>4, <2>5
    <2> HIDE DEF from, to, tid
    <2> QED BY <2>2, <2>3, <2>4, <2>6
<1>3. /\ upTo = {m \in DOMAIN g.nodes : g.nodes[m].tid = tid /\ g.nodes[m].ts <= ts}
      /\ from \in upTo
    BY <1>1, <1>2 DEF NodesUpTo, NodesAfter, NodesOf
<1>4. PICK last \in upTo : last = Max(upTo) /\ \A m \in upTo : m <= last
    <2>1. g.nextNode - 1 \in Nat /\ upTo \in SUBSET (0..(g.nextNode - 1)) /\ upTo # {}
        BY <1>1, <1>3 DEF NoNode
    <2> HIDE DEF upTo
    <2> QED BY <2>1, MaxBelow
<1>5. last \in DOMAIN g.nodes /\ g.nodes[last].tid = tid /\ g.nodes[last].ts <= ts
    BY <1>3, <1>4
<1> DEFINE out == g.nodes[last].edge["outHorizontal"]
<1>6. last = from \/ g.nodes[last].ts = ts
    <2>1. from <= last
        BY <1>3, <1>4
    <2>2. CASE last <= from
        BY <1>1, <1>2, <1>5, <2>1, <2>2
    <2>3. CASE last >= to
        <3>1. g.nodes[to].ts <= g.nodes[last].ts
            BY <1>1, <1>2, <1>5, <2>3
        <3> QED BY <1>1, <1>2, <1>5, <3>1
    <2> QED BY <1>2, <1>5, <2>2, <2>3 DEF NodesOf
<1>7. out # NoEdge => To(g, out).ts >= ts
    <2>1. CASE last = from
        BY <1>2, <2>1, Zenon DEF To
    <2>2. CASE g.nodes[last].ts = ts /\ out # NoEdge
        <3>1. "outHorizontal" \in Positions
            BY DEF Positions
        <3>2. /\ out \in DOMAIN g.edges /\ "outHorizontal" \in {OutSlot(g, out), InSlot(g, out)}
              /\ Holder(g.edges[out], "outHorizontal") = last
            BY <1>5, <2>2, <3>1 DEF GraphSound, SlotsResolveIn
        <3>3. g.edges[out].from = last
            BY <3>2 DEF Holder
        <3>4. g.edges[out].to \in DOMAIN g.nodes /\ last < g.edges[out].to
            BY <3>2, <3>3 DEF GraphSound, EdgesAnchoredIn
        <3> QED BY <1>1, <1>5, <2>2, <3>4 DEF To
    <2> QED BY <1>6, <2>1, <2>2
<1>8. n = last
    <2>1. upTo # {}
        BY <1>3
    <2>2. n = IF IF out = NoEdge THEN g.nodes[last].ts = ts ELSE g.nodes[g.edges[out].to].ts >= ts
              THEN last ELSE NoNode
        BY <1>4, <2>1 DEF GetNodeIntersecting
    <2>3. CASE out = NoEdge
        <3>1. e # NoEdge
            BY DEF GraphSound, IsGraph, NoEdge
        <3> QED BY <1>2, <1>6, <2>2, <2>3, <3>1
    <2>4. CASE out # NoEdge
        BY <1>7, <2>2, <2>4 DEF To
    <2> QED BY <2>3, <2>4
<1>9. last # NoNode
    BY <1>1, <1>5
<1>10. g.nodes[last].ts = ts \/ (out # NoEdge /\ To(g, out).ts >= ts)
    <2>1. e # NoEdge
        BY DEF GraphSound, IsGraph, NoEdge
    <2> QED BY <1>2, <1>6, <1>7, <2>1
<1> QED BY <1>5, <1>8, <1>9, <1>10

(* As long as an edge of a thread covers a time, the query at that time    *)
(* finds a node of the thread that is at the time or has an edge over it,  *)
(* in every graph a build reaches (CriticalGraph.cpp:129-157).             *)
THEOREM IntersectingAnswers == Spec => []IntersectingComplete
<1>1. IInv => IntersectingComplete
    <2> SUFFICES ASSUME IInv, NEW e \in DOMAIN graph.edges, IsThreadEdge(graph, e),
                        NEW ts \in From(graph, e).ts..To(graph, e).ts
                 PROVE  LET n   == GetNodeIntersecting(graph, ts, To(graph, e).tid)
                            out == Node(n).edge["outHorizontal"]
                        IN  /\ n # NoNode
                            /\ Node(n).tid = To(graph, e).tid /\ Node(n).ts <= ts
                            /\ Node(n).ts = ts \/ (out # NoEdge /\ To(graph, out).ts >= ts)
        BY DEF IntersectingComplete
    <2>1. GraphSound(graph)
        BY DEF IInv
    <2> QED BY <2>1, IntersectingFinds DEF Node
<1> QED BY <1>1, Inductive, PTL

----------------------------------------------------------------------------
(* Where the present edge of a thread begins.                              *)

(* From g to h, the last node of a thread goes away, stays or is followed  *)
(* by one of the present time or later.                                    *)
LastMoves(g, h) ==
    \A tid \in Tids :
        LET last == LastNode(h, tid)
        IN  last # NoNode =>
                \/ h.nodes[last].ts >= g.ts
                \/ last = LastNode(g, tid) /\ h.nodes[last].ts = g.nodes[last].ts

(* So it is when a graph is extended, ...                                  *)
LEMMA ExtendedLast ==
    ASSUME NEW g, NEW h, NEW S, Extended(g, h, S)
    PROVE  LastMoves(g, h)
<1> SUFFICES ASSUME NEW tid \in Tids, NEW last, last = LastNode(h, tid), last # NoNode
             PROVE  \/ h.nodes[last].ts >= g.ts
                    \/ last = LastNode(g, tid) /\ h.nodes[last].ts = g.nodes[last].ts
    BY DEF LastMoves
<1>1. /\ IsGraph(g) /\ IsGraph(h) /\ DOMAIN g.nodes \subseteq DOMAIN h.nodes
      /\ \A n \in DOMAIN g.nodes : /\ h.nodes[n].ts = g.nodes[n].ts
                                  /\ h.nodes[n].tid = g.nodes[n].tid
    BY DEF Extended
<1>2. /\ last \in DOMAIN h.nodes /\ h.nodes[last].tid = tid
      /\ \A m \in NodesOf(h, tid) : m <= last
    BY <1>1, LastNodeNewest
<1>3. CASE last \notin DOMAIN g.nodes
    BY <1>1, <1>2, <1>3 DEF Extended, IsGraph
<1>4. CASE last \in DOMAIN g.nodes
    <2> DEFINE prev == LastNode(g, tid)
    <2>1. last \in NodesOf(g, tid)
        BY <1>1, <1>2, <1>4 DEF NodesOf
    <2>2. prev \in DOMAIN g.nodes /\ g.nodes[prev].tid = tid /\ last <= prev
        BY <1>1, <2>1, LastNodeNewest
    <2> HIDE DEF prev
    <2>3. prev \in NodesOf(h, tid)
        BY <1>1, <2>2 DEF NodesOf
    <2>4. last = prev
        BY <1>1, <1>2, <1>4, <2>2, <2>3 DEF IsGraph
    <2> QED BY <1>1, <1>4, <2>4 DEF prev
<1> QED BY <1>3, <1>4

(* ... and when it is cleaned: a thread keeps its last node or none.       *)
LEMMA CleanupLast ==
    ASSUME NEW g, GraphSound(g), NEW ts \in Nat
    PROVE  LastMoves(g, Cleanup(g, ts))
<1> DEFINE h == Cleanup(g, ts)
<1>1. /\ IsGraph(g) /\ HistoryOrderedIn(g) /\ IsGraph(h)
      /\ DOMAIN h.nodes = DOMAIN g.nodes \ Removed(g, ts)
      /\ \A n \in DOMAIN h.nodes : /\ h.nodes[n].ts = g.nodes[n].ts
                                  /\ h.nodes[n].tid = g.nodes[n].tid
    BY CleanupShape DEF GraphSound
<1>2. /\ Removed(g, ts) = {n \in DOMAIN g.nodes : g.nodes[n].ts < ts}
      /\ \A n \in DOMAIN g.nodes : n \in Nat /\ g.nodes[n].ts \in Nat
    BY <1>1, RemovedIsOld DEF IsGraph, NodeRecord
<1> HIDE DEF h
<1> SUFFICES ASSUME NEW tid \in Tids, NEW last, last = LastNode(h, tid), last # NoNode
             PROVE  last = LastNode(g, tid) /\ h.nodes[last].ts = g.nodes[last].ts
    BY DEF LastMoves, h
<1> DEFINE prev == LastNode(g, tid)
<1>3. /\ last \in DOMAIN h.nodes /\ h.nodes[last].tid = tid
      /\ \A m \in NodesOf(h, tid) : m <= last
    BY <1>1, LastNodeNewest
<1>4. last \in NodesOf(g, tid) /\ g.nodes[last].ts >= ts
    BY <1>1, <1>2, <1>3 DEF NodesOf
<1>5. prev \in DOMAIN g.nodes /\ g.nodes[prev].tid = tid /\ last <= prev
    BY <1>1, <1>4, LastNodeNewest
<1> HIDE DEF prev
<1>6. g.nodes[prev].ts >= g.nodes[last].ts
    <2>1. CASE last = prev
        BY <1>2, <1>5, <2>1
    <2>2. CASE last < prev
        BY <1>1, <1>3, <1>5, <2>2 DEF HistoryOrderedIn
    <2> QED BY <1>1, <1>2, <1>3, <1>5, <2>1, <2>2
<1>7. prev \in NodesOf(h, tid)
    <2>1. g.nodes[prev].ts \in Nat /\ g.nodes[last].ts \in Nat
        BY <1>1, <1>2, <1>3, <1>5
    <2>2. prev \notin Removed(g, ts)
        BY <1>2, <1>4, <1>6, <2>1
    <2> QED BY <1>1, <1>5, <2>2 DEF NodesOf
<1>8. last = prev
    BY <1>1, <1>2, <1>3, <1>5, <1>7
<1> QED BY <1>1, <1>3, <1>8 DEF prev

(* The handlers that change the graph.                                     *)
LEMMA LastNodesMove ==
    ASSUME IInv, [Next]_vars
    PROVE  /\ LastMoves(graph, graph') /\ graph.ts <= graph'.ts
           /\ graph.ts \in Nat /\ graph'.ts \in Nat
<1>1. GraphSound(graph) /\ IsGraph(graph)
    BY DEF IInv, TypeOK
<1>2. CASE UNCHANGED graph
    BY <1>1, <1>2, ExtendedItself, ExtendedLast DEF IsGraph
<1>3. ASSUME NEW S, Extended(graph, graph', S)
      PROVE  /\ LastMoves(graph, graph') /\ graph.ts <= graph'.ts
             /\ graph.ts \in Nat /\ graph'.ts \in Nat
    <2>1. LastMoves(graph, graph')
        BY <1>3, ExtendedLast
    <2> QED BY <1>3, <2>1 DEF Extended, IsGraph
<1>4. ASSUME NEW ts \in Nat, OnTimestamp(ts)
      PROVE  /\ LastMoves(graph, graph') /\ graph.ts <= graph'.ts
             /\ graph.ts \in Nat /\ graph'.ts \in Nat
    <2> DEFINE now == SetTimestamp(graph, ts)
    <2>1. graph.ts \in Nat /\ graph.ts <= ts /\ saveTs \in Nat
        BY <1>1, <1>4 DEF IsGraph, OnTimestamp, IInv, TypeOK
    <2>2. now.ts = ts /\ now.nodes = graph.nodes /\ GraphSound(now)
        BY <1>1, <2>1, SetTimestampSound DEF SetTimestamp, IsGraph
    <2>3. /\ LastMoves(now, Cleanup(now, saveTs)) /\ Cleanup(now, saveTs).ts = ts
          /\ IsGraph(Cleanup(now, saveTs))
        BY <2>1, <2>2, CleanupLast, CleanupShape
    <2> HIDE DEF now
    <2>4. LastMoves(now, now)
        BY <2>2, ExtendedItself, ExtendedLast DEF GraphSound
    <2>5. LastMoves(now, graph') /\ graph'.ts = ts /\ IsGraph(graph')
        BY <1>4, <2>2, <2>3, <2>4 DEF OnTimestamp, now, GraphSound
    <2>6. \A tid : LastNode(now, tid) = LastNode(graph, tid)
        BY <2>2 DEF LastNode, NodesOf
    <2>7. ASSUME NEW tid \in Tids, NEW last, last = LastNode(graph', tid), last # NoNode
          PROVE  \/ graph'.nodes[last].ts >= graph.ts
                 \/ last = LastNode(graph, tid)
                    /\ graph'.nodes[last].ts = graph.nodes[last].ts
        <3>1. \/ graph'.nodes[last].ts >= ts
              \/ last = LastNode(graph, tid) /\ graph'.nodes[last].ts = graph.nodes[last].ts
            BY <2>2, <2>5, <2>6, <2>7 DEF LastMoves
        <3>2. graph'.nodes[last].ts \in Nat
            BY <2>5, <2>7, LastNodeNewest DEF IsGraph, NodeRecord
        <3> QED BY <1>4, <2>1, <3>1, <3>2
    <2>8. LastMoves(graph, graph')
        BY <2>7 DEF LastMoves
    <2> QED BY <1>4, <2>1, <2>5, <2>8
<1>5. CASE Next
    <2>1. ASSUME NEW cpu \in Cpus, NEW source \in Threads \cup {InvalidThread},
                 NEW target \in Threads, OnTTWU(cpu, source, target)
          PROVE  UNCHANGED graph \/ \E S : Extended(graph, graph', S)
        BY <2>1, BetweenThreadsExtends, FromNetworkExtends DEF OnTTWU, OnWakeupFromInterrupt
    <2>2. CASE SoftIrqs \/ IrqHandlers \/ Hrtimers
        <3>1. \E cpu, type : EnterInterrupt(cpu, type) \/ ExitInterrupt(cpu, type)
            BY <2>2 DEF SoftIrqs, IrqHandlers, Hrtimers, OnSoftIrqEntry, OnSoftIrqExit,
                        OnIrqHandlerEntry, OnIrqHandlerExit, OnHrtimerExpireEntry,
                        OnHrtimerExpireExit
        <3> QED BY <1>2, <3>1 DEF EnterInterrupt, ExitInterrupt
    <2>3. CASE Packets
        BY <1>2, <1>3, <2>3, LocalOutExtends DEF Packets, OnInetSockLocalIn
    <2>4. CASE ThreadStates
        BY <1>2, <1>3, <2>4, StartEdgeExtends DEF ThreadStates, OnThreadStatus, OnThreadName
    <2>5. CASE \E ts \in 1..MaxTs : OnTimestamp(ts)
        BY <1>4, <2>5
    <2> QED BY <1>2, <1>3, <1>5, <2>1, <2>2, <2>3, <2>4, <2>5 DEF Next, Event, WakeUps
<1> QED BY <1>2, <1>5 DEF vars, blockVars

----------------------------------------------------------------------------
(* Disk requests.                                                          *)

(* A request of a thread ends before the thread's present edge began or    *)
(* began with it; it has ended.                                            *)
RequestFits(g, d) ==
    /\ d.low <= d.high /\ d.high <= g.ts
    /\ LET last == LastNode(g, d.tid)
       IN  last # NoNode => g.nodes[last].ts = d.low \/ d.high <= g.nodes[last].ts

(* Which makes RequestsNested inductive.                                   *)
RequestsOK ==
    /\ RequestsNested
    /\ \A d \in DOMAIN diskRequests : RequestFits(graph, d)

(* The request that a thread would add.                                    *)
NewRequest(tid) ==
    [low |-> graph.nodes[LastNode(graph, tid)].ts, high |-> graph.ts, tid |-> tid]

(* A request goes on to fit.                                               *)
LEMMA FitsOn ==
    ASSUME NEW g, NEW h, IsGraph(g), IsGraph(h), LastMoves(g, h), g.ts <= h.ts,
           NEW d \in [low : Nat, high : Nat, tid : Threads], RequestFits(g, d)
    PROVE  RequestFits(h, d)
<1>1. /\ g.ts \in Nat /\ h.ts \in Nat /\ d.low \in Nat /\ d.high \in Nat
      /\ d.low <= d.high /\ d.high <= g.ts /\ d.tid \in Tids
    BY DEF IsGraph, RequestFits, Tids
<1>2. ASSUME NEW last, last = LastNode(h, d.tid), last # NoNode
      PROVE  h.nodes[last].ts = d.low \/ d.high <= h.nodes[last].ts
    <2>1. h.nodes[last].ts \in Nat
        BY <1>2, LastNodeNewest DEF IsGraph, NodeRecord
    <2>2. CASE h.nodes[last].ts >= g.ts
        BY <1>1, <2>1, <2>2
    <2>3. CASE last = LastNode(g, d.tid) /\ h.nodes[last].ts = g.nodes[last].ts
        BY <1>2, <2>3 DEF RequestFits
    <2> QED BY <1>1, <1>2, <2>2, <2>3 DEF LastMoves
<1> QED BY <1>1, <1>2 DEF RequestFits

(* A new one fits, and is nested with any that does.                       *)
LEMMA NewRequestFits ==
    ASSUME GraphSound(graph), NEW tid \in Threads, LastNode(graph, tid) # NoNode
    PROVE  /\ RequestFits(graph, NewRequest(tid))
           /\ NewRequest(tid) \in [low : Nat, high : Nat, tid : Threads]
           /\ NewRequest(tid).tid = tid
           /\ \A d : RequestFits(graph, d) /\ d.tid = tid =>
                    d.low = NewRequest(tid).low \/ d.high <= NewRequest(tid).low
<1> DEFINE last == LastNode(graph, tid)
<1>1. IsGraph(graph) /\ last \in DOMAIN graph.nodes
    BY LastNodeNewest DEF GraphSound
<1>2. graph.ts \in Nat /\ graph.nodes[last].ts \in Nat
    BY <1>1 DEF IsGraph, NodeRecord
<1>3. graph.nodes[last].ts <= graph.ts
    BY <1>1 DEF GraphSound, HistoryOrderedIn
<1> QED BY <1>1, <1>2, <1>3 DEF RequestFits, NewRequest

(* Where requests come from.                                               *)
LEMMA RequestsAdded ==
    ASSUME [Next]_vars, NEW d \in DOMAIN diskRequests', d \notin DOMAIN diskRequests
    PROVE  \E tid \in Threads : LastNode(graph, tid) # NoNode /\ d = NewRequest(tid)
<1>1. ASSUME NEW tid \in Threads, diskRequests' = AddDiskRequest(tid)
      PROVE  \E t \in Threads : LastNode(graph, t) # NoNode /\ d = NewRequest(t)
    <2>1. LastNode(graph, tid) # NoNode
        BY <1>1 DEF AddDiskRequest
    <2>2. diskRequests' = BagAdd(diskRequests, NewRequest(tid))
        BY <1>1, <2>1 DEF AddDiskRequest, NewRequest
    <2>3. DOMAIN diskRequests' \subseteq DOMAIN diskRequests \cup {NewRequest(tid)}
        BY <2>2 DEF BagAdd
    <2> QED BY <2>1, <2>3
<1>2. diskRequests' # diskRequests /\ Next
    BY DEF vars, blockVars
<1>3. ASSUME NEW cpu \in Cpus, NEW source, NEW target \in Threads, OnTTWU(cpu, source, target)
      PROVE  diskRequests' = AddDiskRequest(target)
    BY <1>2, <1>3 DEF OnTTWU, OnTTWUBetweenThreads, OnWakeupFromNetwork, OnWakeupFromInterrupt
<1>4. ~(SoftIrqs \/ IrqHandlers \/ Hrtimers)
    <2> SUFFICES ASSUME SoftIrqs \/ IrqHandlers \/ Hrtimers PROVE FALSE
        OBVIOUS
    <2>1. \E cpu, type : EnterInterrupt(cpu, type) \/ ExitInterrupt(cpu, type)
        BY DEF SoftIrqs, IrqHandlers, Hrtimers, OnSoftIrqEntry, OnSoftIrqExit,
               OnIrqHandlerEntry, OnIrqHandlerExit, OnHrtimerExpireEntry,
               OnHrtimerExpireExit
    <2> QED BY <1>2, <2>1 DEF EnterInterrupt, ExitInterrupt
<1>5. ~Packets /\ ~ThreadStates
    BY <1>2 DEF Packets, OnInetSockLocalIn, OnInetSockLocalOut, ThreadStates,
                OnThreadStatus, OnThreadName
<1>6. ~ \E ts \in 1..MaxTs : OnTimestamp(ts)
    BY DEF OnTimestamp, CleanupRequests, Restrict
<1> QED BY <1>1, <1>2, <1>3, <1>4, <1>5, <1>6 DEF Next, Event, WakeUps

(* A step keeps the requests nested.                                       *)
LEMMA RequestsStep ==
    ASSUME IInv, IInv', RequestsOK, [Next]_vars
    PROVE  RequestsOK'
<1> DEFINE Requests == [low : Nat, high : Nat, tid : Threads]
<1>1. /\ GraphSound(graph) /\ IsGraph(graph) /\ IsGraph(graph')
      /\ DOMAIN diskRequests \subseteq Requests
      /\ \A d \in DOMAIN diskRequests : RequestFits(graph, d)
    BY DEF IInv, TypeOK, RequestsOK
<1>2. LastMoves(graph, graph') /\ graph.ts <= graph'.ts
    BY LastNodesMove
<1>3. ASSUME NEW d \in DOMAIN diskRequests'
      PROVE  d \in Requests /\ RequestFits(graph, d)
    <2>1. CASE d \in DOMAIN diskRequests
        BY <1>1, <2>1
    <2>2. CASE d \notin DOMAIN diskRequests
        <3>1. PICK tid \in Threads : LastNode(graph, tid) # NoNode /\ d = NewRequest(tid)
            BY <1>3, <2>2, RequestsAdded
        <3> QED BY <1>1, <3>1, NewRequestFits
    <2> QED BY <2>1, <2>2
<1>4. \A d \in DOMAIN diskRequests' : RequestFits(graph', d)
    BY <1>1, <1>2, <1>3, FitsOn
<1>5. ASSUME NEW d1 \in DOMAIN diskRequests', NEW d2 \in DOMAIN diskRequests',
             d1.tid = d2.tid
      PROVE  d1.low = d2.low \/ d1.high <= d2.low \/ d2.high <= d1.low
    <2>1. CASE d1 \in DOMAIN diskRequests /\ d2 \in DOMAIN diskRequests
        BY <1>5, <2>1 DEF RequestsOK, RequestsNested
    <2>2. ASSUME NEW d \in DOMAIN diskRequests', NEW new \in DOMAIN diskRequests',
                 new \notin DOMAIN diskRequests, d.tid = new.tid
          PROVE  d.low = new.low \/ d.high <= new.low
        <3>1. PICK tid \in Threads : LastNode(graph, tid) # NoNode /\ new = NewRequest(tid)
            BY <2>2, RequestsAdded
        <3>2. RequestFits(graph, d) /\ d.tid = tid
            BY <1>1, <1>3, <2>2, <3>1, NewRequestFits
        <3> QED BY <1>1, <3>1, <3>2, NewRequestFits
    <2> QED BY <1>5, <2>1, <2>2
<1>6. RequestsNested'
    BY <1>3, <1>5 DEF RequestsNested, RequestFits
<1> QED BY <1>4, <1>6 DEF RequestsOK

(* The disk requests of a thread are disjoint or begin together, whatever  *)
(* wakes it, however often it is cut and whatever is deleted               *)
(* (CriticalBlock.cpp:280-287, 335-342; DiskRequests.cpp).                 *)
THEOREM RequestsStayNested == Spec => []RequestsNested
<1>1. BuildInit => RequestsOK
    BY DEF BuildInit, Init, RequestsOK, RequestsNested
<1>2. RequestsOK => RequestsNested
    BY DEF RequestsOK
<1>3. IInv /\ IInv' /\ RequestsOK /\ [Next]_vars => RequestsOK'
    BY RequestsStep
<1> QED BY <1>1, <1>2, <1>3, Inductive, PTL DEF Spec

----------------------------------------------------------------------------
(* Packets in flight.                                                      *)

(* A departure is awaited in one entry of the table or in one context, ... *)
HeldApart ==
    /\ \A k1, k2 \in DOMAIN networkNodes :
          networkNodes[k1] = networkNodes[k2] => k1 = k2
    /\ \A k \in DOMAIN networkNodes, c \in Cpus :
          \A i \in DOMAIN context[c] : context[c][i].node # networkNodes[k]
    /\ \A c1, c2 \in Cpus : \A i1 \in DOMAIN context[c1], i2 \in DOMAIN context[c2] :
          context[c1][i1].node = context[c2][i2].node /\ context[c1][i1].node # NoNode =>
              c1 = c2 /\ i1 = i2

(* ... and nothing has received what is in the table.                      *)
TableOpen ==
    \A k \in DOMAIN networkNodes :
        networkNodes[k] \in DOMAIN graph.nodes =>
            graph.nodes[networkNodes[k]].edge["outHorizontal"] = NoEdge

(* From g to h, a node of the network thread that has no hop gets none,    *)
(* but for those in S; no node comes back.                                 *)
StayOpen(g, h, S) ==
    \A n \in DOMAIN h.nodes :
        n < g.nextNode =>
            /\ n \in DOMAIN g.nodes
            /\ n \notin S /\ g.nodes[n].tid = NetworkThread
               /\ g.nodes[n].edge["outHorizontal"] = NoEdge =>
                  h.nodes[n].edge["outHorizontal"] = NoEdge

(* So it is when a graph is extended.                                     *)
LEMMA ExtendedStaysOpen ==
    ASSUME NEW g, NEW h, NEW S, Extended(g, h, S)
    PROVE  StayOpen(g, h, S)
<1>1. g.nextNode \in Nat /\ \A n \in DOMAIN h.nodes : n \in Nat
    BY DEF Extended, IsGraph
<1> QED BY <1>1 DEF Extended, StayOpen

(* The time advances.                                                      *)
LEMMA TimestampStaysOpen ==
    ASSUME IInv, NEW ts \in Nat, OnTimestamp(ts)
    PROVE  StayOpen(graph, graph', {})
<1> DEFINE now == SetTimestamp(graph, ts)
           h == Cleanup(now, saveTs)
<1>1. /\ GraphSound(graph) /\ IsGraph(graph) /\ graph.ts <= ts /\ saveTs \in Nat
    BY DEF IInv, TypeOK, OnTimestamp
<1>2. now.nodes = graph.nodes /\ now.nextNode = graph.nextNode /\ GraphSound(now)
    BY <1>1, SetTimestampSound DEF SetTimestamp, IsGraph
<1>3. "outHorizontal" \in Positions
    BY DEF Positions
<1> HIDE DEF now
<1>4. /\ DOMAIN h.nodes \subseteq DOMAIN graph.nodes
      /\ \A n \in DOMAIN h.nodes :
            h.nodes[n].edge["outHorizontal"]
                \in {NoEdge, graph.nodes[n].edge["outHorizontal"]}
    BY <1>1, <1>2, <1>3, CleanupShape
<1> HIDE DEF h
<1>5. graph' \in {now, h}
    BY DEF OnTimestamp, now, h
<1> QED BY <1>2, <1>4, <1>5 DEF StayOpen

(* What is held is a packet node, so what the table holds stays open.      *)
LEMMA TableStaysOpen ==
    ASSUME IInv, HeldApart, TableOpen, NEW S, StayOpen(graph, graph', S),
           \A n \in S : \E c \in Cpus : \E i \in DOMAIN context[c] : context[c][i].node = n,
           NEW k \in DOMAIN networkNodes, networkNodes[k] \in DOMAIN graph'.nodes
    PROVE  graph'.nodes[networkNodes[k]].edge["outHorizontal"] = NoEdge
<1> DEFINE n == networkNodes[k]
<1>1. n \in Nat \ {NoNode} /\ IsHeld(n) /\ n \notin S
    BY DEF IInv, TypeOK, IsHeld, HeldApart
<1>2. n < graph.nextNode /\ (n \in DOMAIN graph.nodes => graph.nodes[n].tid = NetworkThread)
    BY <1>1 DEF IInv, HeldSound, IsPacketNode
<1>3. n \in DOMAIN graph.nodes /\ graph.nodes[n].edge["outHorizontal"] = NoEdge
    BY <1>2 DEF StayOpen, TableOpen
<1> QED BY <1>1, <1>2, <1>3 DEF StayOpen

(* A step that leaves what is held where it is.                            *)
LEMMA SameHolders ==
    ASSUME IInv, HeldApart, TableOpen, UNCHANGED <<networkNodes, context>>,
           NEW S, StayOpen(graph, graph', S),
           \A n \in S : \E c \in Cpus : \E i \in DOMAIN context[c] : context[c][i].node = n
    PROVE  HeldApart' /\ TableOpen'
<1>1. HeldApart'
    BY DEF HeldApart
<1>2. TableOpen'
    BY TableStaysOpen DEF TableOpen
<1> QED BY <1>1, <1>2

(* A CPU enters an interrupt with no packet, or leaves one.                *)
LEMMA InterruptHolders ==
    ASSUME IInv, HeldApart, TableOpen, NEW cpu \in Cpus, NEW type,
           EnterInterrupt(cpu, type) \/ ExitInterrupt(cpu, type)
    PROVE  HeldApart' /\ TableOpen'
<1> DEFINE s == context[cpu]
           t == context'[cpu]
<1>1. /\ UNCHANGED <<graph, networkNodes>> /\ s \in Seq(InterruptContext)
      /\ DOMAIN context = Cpus
      /\ \A k \in DOMAIN networkNodes : networkNodes[k] # NoNode
    BY DEF EnterInterrupt, ExitInterrupt, IInv, TypeOK
<1>2. /\ \A c \in Cpus \ {cpu} : context'[c] = context[c]
      /\ t = Append(s, [type |-> type, node |-> NoNode])
         \/ (s # << >> /\ t = SubSeq(s, 1, Len(s) - 1))
    BY <1>1 DEF EnterInterrupt, ExitInterrupt, Push, Pop, InInterrupt
<1>3. \A i \in DOMAIN t : t[i].node = NoNode \/ (i \in DOMAIN s /\ t[i] = s[i])
    <2> HIDE DEF s, t
    <2>1. CASE t = Append(s, [type |-> type, node |-> NoNode])
        BY <1>1, <2>1
    <2>2. CASE s # << >> /\ t = SubSeq(s, 1, Len(s) - 1)
        BY <1>1, <2>2
    <2> QED BY <1>2, <2>1, <2>2 DEF s, t
<1>4. \A c \in Cpus : \A i \in DOMAIN context'[c] :
         \/ context'[c][i].node = NoNode
         \/ i \in DOMAIN context[c] /\ context'[c][i] = context[c][i]
    BY <1>2, <1>3
<1>5. HeldApart'
    BY <1>1, <1>4 DEF HeldApart
<1>6. TableOpen'
    BY <1>1 DEF TableOpen
<1> QED BY <1>5, <1>6

(* A packet arrives: its node goes from the table to a context.            *)
LEMMA LocalInHolders ==
    ASSUME IInv, HeldApart, TableOpen, NEW cpu \in Cpus, NEW key \in PacketKeys,
           OnInetSockLocalIn(cpu, key)
    PROVE  HeldApart' /\ TableOpen'
<1> DEFINE s == context[cpu]
           n == networkNodes[key]
           top == [s[Len(s)] EXCEPT !.node = n]
<1>1. /\ TypeOK /\ graph' = graph /\ key \in DOMAIN networkNodes
      /\ s \in Seq(InterruptContext) /\ DOMAIN context = Cpus
    BY DEF IInv, TypeOK, OnInetSockLocalIn
<1>2. Len(s) \in DOMAIN s /\ s[Len(s)] \in InterruptContext
    BY <1>1, TopContext DEF OnInetSockLocalIn
<1>3. context' = [context EXCEPT ![cpu] = [s EXCEPT ![Len(s)] = top]]
    BY <1>1 DEF OnInetSockLocalIn
<1>4. top.node = n
    BY <1>2 DEF InterruptContext
<1> HIDE DEF top
<1>5. \A c \in Cpus : /\ DOMAIN context'[c] = DOMAIN context[c]
                      /\ \A i \in DOMAIN context[c] :
                            context'[c][i] = IF c = cpu /\ i = Len(s) THEN top
                                             ELSE context[c][i]
    BY <1>1, <1>2, <1>3
<1>6. /\ DOMAIN networkNodes' = DOMAIN networkNodes \ {key}
      /\ \A k \in DOMAIN networkNodes' : networkNodes'[k] = networkNodes[k]
    BY DEF OnInetSockLocalIn, Restrict
<1> HIDE DEF n
<1>7. \A c \in Cpus : \A i \in DOMAIN context[c] : context[c][i].node # n
    BY <1>1 DEF HeldApart, n
<1>8. \A k \in DOMAIN networkNodes' : networkNodes'[k] # n
    BY <1>1, <1>6 DEF HeldApart, n
<1>9. HeldApart'
    BY <1>4, <1>5, <1>6, <1>7, <1>8 DEF HeldApart
<1>10. TableOpen'
    BY <1>1, <1>6 DEF TableOpen
<1> QED BY <1>9, <1>10

(* A packet leaves: its node is new.                                       *)
LEMMA LocalOutHolders ==
    ASSUME IInv, HeldApart, TableOpen, NEW cpu \in Cpus, NEW tid \in Threads,
           NEW key \in PacketKeys, OnInetSockLocalOut(cpu, tid, key)
    PROVE  HeldApart' /\ TableOpen'
<1>1. PICK new : new = CutThread(graph, tid).nextNode
    OBVIOUS
<1>2. /\ Extended(graph, graph', {}) /\ new = graph.nextNode + 1 /\ graph.nextNode \in Nat
      /\ graph'.nodes[new].edge["outHorizontal"] = NoEdge
    BY <1>1, LocalOutExtends
<1>3. networkNodes' = Bind(networkNodes, key, new) /\ context' = context
    BY <1>1 DEF OnInetSockLocalOut
<1>4. /\ DOMAIN networkNodes' = DOMAIN networkNodes \cup {key}
      /\ networkNodes'[key] = new
      /\ \A k \in DOMAIN networkNodes \ {key} : networkNodes'[k] = networkNodes[k]
    BY <1>3 DEF Bind
<1>5. \A n \in Nat \ {NoNode} : IsHeld(n) => n # new
    BY <1>2 DEF IInv, HeldSound
<1>6. new \in Nat \ {NoNode}
    BY <1>2 DEF NoNode
<1>7. \A k \in DOMAIN networkNodes : networkNodes[k] # new
    BY <1>5, <1>6 DEF IsHeld
<1>8. \A c \in Cpus : \A i \in DOMAIN context[c] : context[c][i].node # new
    BY <1>5, <1>6 DEF IsHeld
<1>9. HeldApart'
    BY <1>3, <1>4, <1>7, <1>8 DEF HeldApart
<1>10. \A k \in DOMAIN networkNodes :
          networkNodes[k] \in DOMAIN graph'.nodes =>
              graph'.nodes[networkNodes[k]].edge["outHorizontal"] = NoEdge
    BY <1>2, ExtendedStaysOpen, TableStaysOpen
<1>11. TableOpen'
    BY <1>2, <1>4, <1>10 DEF TableOpen
<1> QED BY <1>9, <1>11

(* A step keeps departures apart and open.                                 *)
LEMMA HoldersStep ==
    ASSUME IInv, HeldApart, TableOpen, [Next]_vars
    PROVE  HeldApart' /\ TableOpen'
<1>1. IsGraph(graph)
    BY DEF IInv, TypeOK
<1>2. CASE UNCHANGED <<graph, networkNodes, context>>
    BY <1>2 DEF HeldApart, TableOpen
<1>3. ASSUME UNCHANGED <<networkNodes, context>>, Extended(graph, graph', {})
      PROVE  HeldApart' /\ TableOpen'
    BY <1>3, ExtendedStaysOpen, SameHolders
<1>4. ASSUME NEW cpu \in Cpus, NEW source \in Threads \cup {InvalidThread},
             NEW target \in Threads, OnTTWU(cpu, source, target)
      PROVE  HeldApart' /\ TableOpen'
    <2>1. UNCHANGED <<networkNodes, context>>
        BY <1>4 DEF OnTTWU, OnTTWUBetweenThreads, OnWakeupFromNetwork, OnWakeupFromInterrupt
    <2>2. CASE OnTTWUBetweenThreads(cpu, source, target)
        BY <1>3, <2>1, <2>2, BetweenThreadsExtends
    <2>3. CASE OnWakeupFromNetwork(cpu, target)
        <3>1. Extended(graph, graph', {Top(cpu).node})
            BY <2>3, FromNetworkExtends
        <3>2. \E c \in Cpus : \E i \in DOMAIN context[c] : context[c][i].node = Top(cpu).node
            BY <2>3, TopContext DEF IInv, OnWakeupFromNetwork
        <3> QED BY <2>1, <3>1, <3>2, ExtendedStaysOpen, SameHolders
    <2>4. CASE OnWakeupFromInterrupt(cpu, target)
        BY <1>2, <2>1, <2>4 DEF OnWakeupFromInterrupt
    <2> QED BY <1>4, <2>2, <2>3, <2>4 DEF OnTTWU
<1>5. ASSUME NEW ts \in Nat, OnTimestamp(ts)
      PROVE  HeldApart' /\ TableOpen'
    <2>1. UNCHANGED <<networkNodes, context>>
        BY <1>5 DEF OnTimestamp
    <2>2. StayOpen(graph, graph', {})
        BY <1>5, TimestampStaysOpen
    <2> QED BY <2>1, <2>2, SameHolders
<1>6. CASE Next
    <2>1. CASE SoftIrqs \/ IrqHandlers \/ Hrtimers
        <3>1. \E cpu \in Cpus : \E type : EnterInterrupt(cpu, type) \/ ExitInterrupt(cpu, type)
            BY <2>1, HrtimerAssumption
               DEF SoftIrqs, IrqHandlers, Hrtimers, OnSoftIrqEntry, OnSoftIrqExit,
                   OnIrqHandlerEntry, OnIrqHandlerExit, OnHrtimerExpireEntry,
                   OnHrtimerExpireExit
        <3> QED BY <3>1, InterruptHolders
    <2>2. CASE Packets
        BY <2>2, LocalInHolders, LocalOutHolders DEF Packets
    <2>3. CASE ThreadStates
        <3>1. UNCHANGED <<networkNodes, context>>
            BY <2>3 DEF ThreadStates, OnThreadStatus, OnThreadName
        <3>2. UNCHANGED graph \/ Extended(graph, graph', {})
            BY <2>3, StartEdgeExtends DEF ThreadStates, OnThreadStatus, OnThreadName
        <3> QED BY <1>2, <1>3, <3>1, <3>2
    <2>4. CASE \E ts \in 1..MaxTs : OnTimestamp(ts)
        BY <1>5, <2>4
    <2> QED BY <1>4, <1>6, <2>1, <2>2, <2>3, <2>4 DEF Next, Event, WakeUps
<1> QED BY <1>2, <1>6 DEF vars, blockVars

(* The departure of a packet is awaited in one place, and nothing has      *)
(* received it while it is in the table (CriticalBlock.cpp:225-245,        *)
(* 275, 313-319), in every state of a build and however interrupts nest.   *)
THEOREM PacketsHeldOnce == Spec => []PacketHeldOnce
<1>1. BuildInit => HeldApart /\ TableOpen
    BY DEF BuildInit, Init, HeldApart, TableOpen
<1>2. IInv /\ HeldApart /\ TableOpen => PacketHeldOnce
    <2> SUFFICES ASSUME IInv, HeldApart, TableOpen PROVE PacketHeldOnce
        OBVIOUS
    <2>1. ASSUME NEW n \in 1..(graph.nextNode - 1), NEW h1 \in HeldIn(n), NEW h2 \in HeldIn(n)
          PROVE  h1 = h2
        <3> DEFINE InTable(h) == \E k \in DOMAIN networkNodes :
                                    networkNodes[k] = n /\ h = <<"table", k>>
                   InContext(h) == \E c \in Cpus : \E i \in DOMAIN context[c] :
                                      context[c][i].node = n /\ h = <<c, i>>
        <3>1. n # NoNode /\ \A c \in Cpus : context[c] \in Seq(InterruptContext)
            BY <2>1 DEF NoNode, IInv, TypeOK, IsGraph
        <3>2. \A h \in HeldIn(n) : InTable(h) \/ InContext(h)
            <4> SUFFICES ASSUME NEW h \in HeldIn(n), ~InTable(h) PROVE InContext(h)
                OBVIOUS
            <4>1. PICK c \in Cpus, i \in 1..MaxDepth :
                     h = <<c, i>> /\ i <= Len(context[c]) /\ context[c][i].node = n
                BY DEF HeldIn
            <4>2. i \in DOMAIN context[c]
                BY <3>1, <4>1
            <4> QED BY <4>1, <4>2
        <3>3. \A h, l : InTable(h) /\ InContext(l) => FALSE
            BY DEF HeldApart
        <3>4. \A h, l : InTable(h) /\ InTable(l) => h = l
            BY DEF HeldApart
        <3>5. \A h, l : InContext(h) /\ InContext(l) => h = l
            BY <3>1 DEF HeldApart
        <3> HIDE DEF InTable, InContext
        <3> QED BY <2>1, <3>2, <3>3, <3>4, <3>5
    <2> QED BY <2>1 DEF PacketHeldOnce, TableOpen, Live, Node
<1>3. IInv /\ HeldApart /\ TableOpen /\ [Next]_vars => (HeldApart /\ TableOpen)'
    BY HoldersStep
<1> QED BY <1>1, <1>2, <1>3, Inductive, PTL DEF Spec
=============================================================================
