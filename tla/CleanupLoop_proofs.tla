------------------------- MODULE CleanupLoop_proofs -------------------------
(***************************************************************************)
(* Why the loop of the cleanup may come through the threads in any order,  *)
(* and what it needs of the graph for that.                                *)
(***************************************************************************)
EXTENDS CleanupLoop, CriticalBuild_proofs

(* The edges in the slots that the loop has swept, pairs of a node and a   *)
(* position.                                                               *)
EdgesIn(g, P) ==
    {e \in DOMAIN g.edges : \E n \in DOMAIN g.nodes, p \in Positions :
                               <<n, p>> \in P /\ g.nodes[n].edge[p] = e}

(* The slot of n that holds an edge of which the other end is swept.       *)
Hit(g, P, n, p) ==
    \E m \in DOMAIN g.nodes :
        /\ <<m, Opposite(p)>> \in P
        /\ g.nodes[m].edge[Opposite(p)] # NoEdge
        /\ Holder(g.edges[g.nodes[m].edge[Opposite(p)]], p) = n

(* The two differ in their nodes and edges only.                            *)
SameFields(g, h) ==
    /\ h = [ts |-> h.ts, nodes |-> h.nodes, nextNode |-> h.nextNode,
            edges |-> h.edges, nextEdge |-> h.nextEdge]
    /\ h.ts = g.ts /\ h.nextNode = g.nextNode /\ h.nextEdge = g.nextEdge

(* The graph that the loop has when it has swept these slots and deleted   *)
(* these nodes.  What a swept slot holds does not matter any more.         *)
Swept(g, h, P, gone) ==
    /\ SameFields(g, h)
    /\ h.nodes \in [DOMAIN g.nodes \ gone -> NodeRecord]
    /\ h.edges = [e \in DOMAIN g.edges \ EdgesIn(g, P) |-> g.edges[e]]
    /\ \A n \in DOMAIN g.nodes \ gone :
          /\ h.nodes[n].ts = g.nodes[n].ts /\ h.nodes[n].tid = g.nodes[n].tid
          /\ \A p \in Positions :
                <<n, p>> \notin P =>
                    h.nodes[n].edge[p] = IF Hit(g, P, n, p) THEN NoEdge
                                         ELSE g.nodes[n].edge[p]

(* The nodes of a thread are swept in their order.                         *)
InTurn(g, P, n) ==
    \A m \in DOMAIN g.nodes, q \in Positions :
        <<m, q>> \in P /\ g.nodes[m].tid = g.nodes[n].tid => m <= n

(* The other end of an edge is at the other position.                      *)
LEMMA Opposites ==
    ASSUME NEW p \in Positions
    PROVE  Opposite(p) \in Positions /\ Opposite(Opposite(p)) = p /\ Opposite(p) # p
BY DEF Positions, Opposite

(* A set of pairs with one more of them.                                   *)
LEMMA OneMorePair ==
    ASSUME NEW S, NEW T, NEW R \in SUBSET (S \X T), NEW x \in S, NEW y \in T
    PROVE  R \cup {<<x, y>>} \in SUBSET (S \X T)
OBVIOUS

(* The pairs with elements of a part of a set.                             *)
LEMMA ProductWithin ==
    ASSUME NEW S, NEW T, NEW R, R \subseteq S
    PROVE  R \X T \in SUBSET (S \X T)
OBVIOUS

(* The edge in a slot has the node at that end.                            *)
LEMMA SlotHeld ==
    ASSUME NEW g, GraphSound(g), NEW n \in DOMAIN g.nodes, NEW p \in Positions,
           g.nodes[n].edge[p] # NoEdge
    PROVE  LET e == g.nodes[n].edge[p]
           IN  /\ e \in DOMAIN g.edges /\ p \in {OutSlot(g, e), InSlot(g, e)}
               /\ Holder(g.edges[e], p) = n
BY DEF GraphSound, SlotsResolveIn

(* Of the two slots of an edge, the one that is swept first clears the     *)
(* other: whatever slot is found cleared held the edge that went.          *)
LEMMA HitHolds ==
    ASSUME NEW g, GraphSound(g), NEW P, NEW n \in DOMAIN g.nodes, NEW p \in Positions,
           <<n, p>> \notin P, InTurn(g, P, n), NEW m \in DOMAIN g.nodes,
           <<m, Opposite(p)>> \in P,
           g.nodes[m].edge[Opposite(p)] # NoEdge,
           Holder(g.edges[g.nodes[m].edge[Opposite(p)]], p) = n
    PROVE  g.nodes[n].edge[p] = g.nodes[m].edge[Opposite(p)]
<1> DEFINE e == g.nodes[m].edge[Opposite(p)]
<1>1. /\ e \in DOMAIN g.edges /\ Opposite(p) \in {OutSlot(g, e), InSlot(g, e)}
      /\ Holder(g.edges[e], Opposite(p)) = m
    BY Opposites, SlotHeld
<1> HIDE DEF e
<1>2. p \in {OutSlot(g, e), InSlot(g, e)}
    BY <1>1 DEF OutSlot, InSlot, Opposite, Positions
<1>3. Holder(g.edges[e], p) = n
    BY DEF e
<1>4. CASE p = InSlot(g, e)
    <2>1. g.edges[e].to = n
        BY <1>3, <1>4 DEF InSlot, Holder
    <2> QED BY <1>1, <1>4, <2>1 DEF GraphSound, EdgesAnchoredIn, To, e
<1>5. CASE p = OutSlot(g, e)
    <2>1. g.edges[e].from = n /\ g.edges[e].to = m
        BY <1>1, <1>3, <1>5 DEF OutSlot, Holder, Opposite
    <2>2. CASE ~IsHop(g, e)
        BY <1>1, <1>5, <2>1, <2>2 DEF GraphSound, EdgesAnchoredIn, From, e
    <2>3. CASE IsHop(g, e)
        <3>1. Anchored(g, e)
            BY <2>1 DEF Anchored
        <3>2. g.nodes[n].tid = NetworkThread /\ g.nodes[m].tid = NetworkThread
            BY <1>1, <2>1, <2>3, <3>1 DEF GraphSound, HopHasSenderIn, IsPacketNode, IsHop, To
        <3>3. m <= n
            BY <3>2, Opposites DEF InTurn
        <3>4. n < m
            BY <1>1, <2>1 DEF GraphSound, EdgesAnchoredIn
        <3>5. n \in Nat /\ m \in Nat
            BY DEF GraphSound, IsGraph
        <3> QED BY <3>3, <3>4, <3>5
    <2> QED BY <2>2, <2>3
<1> QED BY <1>2, <1>4, <1>5

(* A slot that is not cleared holds an edge that is still there.           *)
LEMMA UnsweptEdge ==
    ASSUME NEW g, GraphSound(g), NEW P \in SUBSET ((DOMAIN g.nodes) \X Positions),
           NEW n \in DOMAIN g.nodes, NEW p \in Positions,
           <<n, p>> \notin P, ~Hit(g, P, n, p), g.nodes[n].edge[p] # NoEdge
    PROVE  g.nodes[n].edge[p] \in DOMAIN g.edges \ EdgesIn(g, P)
<1> DEFINE e == g.nodes[n].edge[p]
<1>1. /\ e \in DOMAIN g.edges /\ p \in {OutSlot(g, e), InSlot(g, e)}
      /\ Holder(g.edges[e], p) = n
    BY SlotHeld
<1>2. ASSUME e \in EdgesIn(g, P) PROVE FALSE
    <2>1. PICK m \in DOMAIN g.nodes, q \in Positions : <<m, q>> \in P /\ g.nodes[m].edge[q] = e
        BY <1>2 DEF EdgesIn
    <2>2. q \in {OutSlot(g, e), InSlot(g, e)} /\ Holder(g.edges[e], q) = m
        BY <2>1, SlotHeld
    <2>3. q # p
        BY <1>1, <2>1, <2>2
    <2>4. q = Opposite(p)
        BY <1>1, <2>2, <2>3 DEF OutSlot, InSlot, Opposite
    <2> QED BY <1>1, <2>1, <2>4 DEF Hit
<1> QED BY <1>1, <1>2

(* The body of the loop over the positions: one more slot is swept.        *)
LEMMA EraseSlotSweeps ==
    ASSUME NEW g, GraphSound(g), NEW h, NEW gone,
           NEW P \in SUBSET ((DOMAIN g.nodes) \X Positions), Swept(g, h, P, gone),
           NEW n \in DOMAIN g.nodes \ gone, NEW p \in Positions, <<n, p>> \notin P,
           InTurn(g, P, n)
    PROVE  Swept(g, EraseSlot(h, n, p), P \cup {<<n, p>>}, gone)
<1> DEFINE Q == P \cup {<<n, p>>}
           e == g.nodes[n].edge[p]
<1>0. Opposite(p) \in Positions /\ Opposite(Opposite(p)) = p
    BY Opposites
<1>1. EdgesIn(g, Q) = EdgesIn(g, P) \cup (DOMAIN g.edges \cap {e})
    BY DEF EdgesIn
<1>2. \A k, q : Hit(g, Q, k, q) <=>
         \/ Hit(g, P, k, q)
         \/ Opposite(q) = p /\ e # NoEdge /\ Holder(g.edges[e], q) = k
    BY DEF Hit
<1>3. NoEdge \notin DOMAIN g.edges
    BY DEF GraphSound, IsGraph, NoEdge
<1>4. h.nodes[n].edge[p] = IF Hit(g, P, n, p) THEN NoEdge ELSE e
    BY DEF Swept
<1>5. CASE h.nodes[n].edge[p] = NoEdge
    <2>1. EraseSlot(h, n, p) = h
        BY <1>5 DEF EraseSlot
    <2>2. DOMAIN g.edges \ EdgesIn(g, Q) = DOMAIN g.edges \ EdgesIn(g, P)
        <3>1. CASE e = NoEdge
            BY <1>1, <1>3, <3>1
        <3>2. CASE e # NoEdge
            <4>1. PICK m \in DOMAIN g.nodes :
                     /\ <<m, Opposite(p)>> \in P
                     /\ g.nodes[m].edge[Opposite(p)] # NoEdge
                     /\ Holder(g.edges[g.nodes[m].edge[Opposite(p)]], p) = n
                BY <1>4, <1>5, <3>2 DEF Hit
            <4>2. e = g.nodes[m].edge[Opposite(p)]
                BY <4>1, HitHolds
            <4>3. e \in DOMAIN g.edges => e \in EdgesIn(g, P)
                BY <1>0, <4>1, <4>2 DEF EdgesIn
            <4> QED BY <1>1, <4>3
        <3> QED BY <3>1, <3>2
    <2>3. ASSUME NEW k \in DOMAIN g.nodes \ gone, NEW q \in Positions, <<k, q>> \notin Q
          PROVE  Hit(g, Q, k, q) <=> Hit(g, P, k, q)
        <3> SUFFICES ASSUME Opposite(q) = p, e # NoEdge, Holder(g.edges[e], q) = k
                     PROVE  Hit(g, P, k, q)
            BY <1>2, Zenon
        <3>1. PICK m \in DOMAIN g.nodes :
                 /\ <<m, Opposite(p)>> \in P
                 /\ g.nodes[m].edge[Opposite(p)] # NoEdge
                 /\ Holder(g.edges[g.nodes[m].edge[Opposite(p)]], p) = n
            BY <1>4, <1>5 DEF Hit
        <3>2. e = g.nodes[m].edge[Opposite(p)]
            BY <3>1, HitHolds
        <3>3. q = Opposite(p)
            BY Opposites
        <3>4. Holder(g.edges[e], Opposite(p)) = m
            BY <1>0, <3>1, <3>2, SlotHeld
        <3>5. k = m
            BY <3>3, <3>4
        <3> QED BY <2>3, <3>1, <3>3, <3>5
    <2> HIDE DEF Q
    <2>4. \A k \in DOMAIN g.nodes \ gone, q \in Positions : <<k, q>> \notin Q => <<k, q>> \notin P
        BY DEF Q
    <2>5. h.edges = [d \in DOMAIN g.edges \ EdgesIn(g, Q) |-> g.edges[d]]
        BY <2>2 DEF Swept
    <2>6. Swept(g, h, Q, gone)
        BY <2>3, <2>4, <2>5 DEF Swept
    <2> QED BY <2>1, <2>6 DEF Q
<1>6. CASE h.nodes[n].edge[p] # NoEdge
    <2>1. h.nodes[n].edge[p] = e /\ ~Hit(g, P, n, p) /\ e # NoEdge
        BY <1>4, <1>6
    <2>2. e \in DOMAIN g.edges \ EdgesIn(g, P)
        BY <2>1, UnsweptEdge
    <2>3. e \in DOMAIN h.edges /\ h.edges[e] = g.edges[e]
        BY <2>2 DEF Swept
    <2> DEFINE other == Holder(g.edges[e], Opposite(p))
               nodes == [h.nodes EXCEPT ![other] = SetEdge(@, Opposite(p), NoEdge)]
               edges == [d \in DOMAIN h.edges \ {e} |-> h.edges[d]]
               h2 == EraseSlot(h, n, p)
    <2>4. h2 = [h EXCEPT !.nodes = nodes, !.edges = edges]
        <3> DEFINE d == h.nodes[n].edge[p]
                   o == Holder(h.edges[d], Opposite(p))
                   new(x) == [h.nodes EXCEPT ![x] = SetEdge(@, Opposite(p), NoEdge)]
                   left(x) == [d0 \in DOMAIN h.edges \ {x} |-> h.edges[d0]]
        <3>1. h2 = IF d = NoEdge THEN h
                   ELSE [h EXCEPT !.nodes = new(o), !.edges = left(d)]
            BY DEF EraseSlot, Restrict
        <3>2. d = e /\ d # NoEdge /\ o = other
            BY <2>1, <2>3
        <3>3. new(other) = nodes /\ left(e) = edges
            OBVIOUS
        <3> HIDE DEF d, o, other, h2, e, new, left, nodes, edges
        <3> QED BY <3>1, <3>2, <3>3
    <2>5. edges = [d \in DOMAIN g.edges \ EdgesIn(g, Q) |-> g.edges[d]]
        <3>1. DOMAIN h.edges = DOMAIN g.edges \ EdgesIn(g, P)
              /\ \A d \in DOMAIN h.edges : h.edges[d] = g.edges[d]
            BY DEF Swept
        <3>2. DOMAIN h.edges \ {e} = DOMAIN g.edges \ EdgesIn(g, Q)
            BY <1>1, <3>1
        <3> HIDE DEF Q
        <3> QED BY <3>1, <3>2
    <2> HIDE DEF h2, edges, nodes, e, Q
    <2>6. SameFields(g, h2) /\ h2.nodes = nodes /\ h2.edges = edges
        <3>1. SameFields(g, h)
            BY DEF Swept
        <3> QED BY <2>4, <3>1 DEF SameFields
    <2>7. DOMAIN nodes = DOMAIN g.nodes \ gone
        BY DEF Swept, nodes
    <2>8. ASSUME NEW k \in DOMAIN g.nodes \ gone
          PROVE  /\ nodes[k] \in NodeRecord
                 /\ nodes[k].ts = g.nodes[k].ts /\ nodes[k].tid = g.nodes[k].tid
                 /\ \A q \in Positions :
                       nodes[k].edge[q] = IF k = other /\ q = Opposite(p) THEN NoEdge
                                          ELSE h.nodes[k].edge[q]
        <3>1. h.nodes[k] \in NodeRecord /\ k \in DOMAIN h.nodes
              /\ h.nodes[k].ts = g.nodes[k].ts /\ h.nodes[k].tid = g.nodes[k].tid
            BY DEF Swept
        <3> DEFINE r == SetEdge(h.nodes[k], Opposite(p), NoEdge)
        <3>2. /\ r \in NodeRecord /\ r.ts = h.nodes[k].ts /\ r.tid = h.nodes[k].tid
              /\ \A q \in Positions : r.edge[q] = IF q = Opposite(p) THEN NoEdge
                                                  ELSE h.nodes[k].edge[q]
            BY <1>0, <3>1 DEF SetEdge, NodeRecord
        <3>3. nodes[k] = IF k = other THEN r ELSE h.nodes[k]
            BY <3>1 DEF nodes
        <3> HIDE DEF r, other
        <3> QED BY <3>1, <3>2, <3>3
    <2>9. ASSUME NEW k \in DOMAIN g.nodes \ gone, NEW q \in Positions, <<k, q>> \notin Q
          PROVE  nodes[k].edge[q] = IF Hit(g, Q, k, q) THEN NoEdge ELSE g.nodes[k].edge[q]
        <3>1. <<k, q>> \notin P
            BY <2>9 DEF Q
        <3>2. h.nodes[k].edge[q] = IF Hit(g, P, k, q) THEN NoEdge ELSE g.nodes[k].edge[q]
            BY <3>1 DEF Swept
        <3>3. Hit(g, Q, k, q) <=> Hit(g, P, k, q) \/ (k = other /\ q = Opposite(p))
            BY <1>0, <1>2, <2>1, Opposites
        <3> QED BY <2>8, <3>2, <3>3
    <2>11. nodes \in [DOMAIN g.nodes \ gone -> NodeRecord]
        BY <2>7, <2>8 DEF nodes
    <2>12. Swept(g, h2, Q, gone)
        BY <2>5, <2>6, <2>8, <2>9, <2>11 DEF Swept
    <2> QED BY <2>12 DEF h2, Q
<1> QED BY <1>5, <1>6

(* The loop over the positions sweeps the whole node.                      *)
LEMMA EraseNodeSweeps ==
    ASSUME NEW g, GraphSound(g), NEW h, NEW gone,
           NEW P \in SUBSET ((DOMAIN g.nodes) \X Positions), Swept(g, h, P, gone),
           NEW n \in DOMAIN g.nodes \ gone, \A p \in Positions : <<n, p>> \notin P,
           InTurn(g, P, n)
    PROVE  Swept(g, EraseNode(h, n), P \cup ({n} \X Positions), gone)
<1> DEFINE P1 == P \cup {<<n, "outVertical">>}
           P2 == P1 \cup {<<n, "inVertical">>}
           P3 == P2 \cup {<<n, "outHorizontal">>}
           P4 == P3 \cup {<<n, "inHorizontal">>}
           h1 == EraseSlot(h, n, "outVertical")
           h2 == EraseSlot(h1, n, "inVertical")
           h3 == EraseSlot(h2, n, "outHorizontal")
           h4 == EraseSlot(h3, n, "inHorizontal")
<1>0. /\ "outVertical" \in Positions /\ "inVertical" \in Positions
      /\ "outHorizontal" \in Positions /\ "inHorizontal" \in Positions
    BY DEF Positions
<1>1. ASSUME NEW R \in SUBSET ((DOMAIN g.nodes) \X Positions), InTurn(g, R, n),
             NEW p \in Positions
      PROVE  /\ R \cup {<<n, p>>} \in SUBSET ((DOMAIN g.nodes) \X Positions)
             /\ InTurn(g, R \cup {<<n, p>>}, n)
    <2>1. n \in Nat
        BY DEF GraphSound, IsGraph
    <2>2. InTurn(g, R \cup {<<n, p>>}, n)
        BY <1>1, <2>1 DEF InTurn
    <2>3. n \in DOMAIN g.nodes
        OBVIOUS
    <2>4. R \cup {<<n, p>>} \in SUBSET ((DOMAIN g.nodes) \X Positions)
        BY <2>3, OneMorePair
    <2> QED BY <2>2, <2>4, Zenon
<1>2. /\ P1 \in SUBSET ((DOMAIN g.nodes) \X Positions) /\ InTurn(g, P1, n)
      /\ Swept(g, h1, P1, gone)
    BY <1>0, <1>1, EraseSlotSweeps
<1>3. <<n, "inVertical">> \notin P1 /\ <<n, "outHorizontal">> \notin P1
      /\ <<n, "inHorizontal">> \notin P1
    BY <1>0
<1> HIDE DEF P1, h1
<1>4. /\ P2 \in SUBSET ((DOMAIN g.nodes) \X Positions) /\ InTurn(g, P2, n)
      /\ Swept(g, h2, P2, gone)
    BY <1>0, <1>1, <1>2, <1>3, EraseSlotSweeps
<1>5. <<n, "outHorizontal">> \notin P2 /\ <<n, "inHorizontal">> \notin P2
    BY <1>3
<1> HIDE DEF P2, h2
<1>6. /\ P3 \in SUBSET ((DOMAIN g.nodes) \X Positions) /\ InTurn(g, P3, n)
      /\ Swept(g, h3, P3, gone)
    BY <1>0, <1>1, <1>4, <1>5, EraseSlotSweeps
<1>7. <<n, "inHorizontal">> \notin P3
    BY <1>5
<1> HIDE DEF P3, h3
<1>8. Swept(g, h4, P4, gone)
    BY <1>0, <1>6, <1>7, EraseSlotSweeps
<1>9. P4 = P \cup ({n} \X Positions)
    BY DEF P1, P2, P3, Positions
<1> QED BY <1>8, <1>9 DEF EraseNode, h1, h2, h3

(* The graphs that the loop may make of g.                                 *)
Graphs(g) ==
    [ts : {g.ts}, nodes : UNION {[D -> NodeRecord] : D \in SUBSET DOMAIN g.nodes},
     nextNode : {g.nextNode},
     edges : UNION {[D -> EdgeRecord] : D \in SUBSET DOMAIN g.edges},
     nextEdge : {g.nextEdge}]

(* The body of the loops makes none but these.                             *)
LEMMA EraseSlotType ==
    ASSUME NEW g, NEW k \in Graphs(g), NEW n, NEW p \in Positions
    PROVE  EraseSlot(k, n, p) \in Graphs(g)
<1> DEFINE e == k.nodes[n].edge[p]
           other == Holder(k.edges[e], Opposite(p))
           nodes == [k.nodes EXCEPT ![other] = SetEdge(@, Opposite(p), NoEdge)]
           edges == Restrict(k.edges, DOMAIN k.edges \ {e})
<1>1. PICK D \in SUBSET DOMAIN g.nodes, E \in SUBSET DOMAIN g.edges :
         k.nodes \in [D -> NodeRecord] /\ k.edges \in [E -> EdgeRecord]
    BY DEF Graphs
<1>2. nodes \in [D -> NodeRecord]
    <2> HIDE DEF other
    <2>1. \A r \in NodeRecord : SetEdge(r, Opposite(p), NoEdge) \in NodeRecord
        BY DEF NodeRecord, SetEdge
    <2> QED BY <1>1, <2>1
<1>3. edges \in [E \ {e} -> EdgeRecord]
    <2> HIDE DEF e
    <2> QED BY <1>1 DEF Restrict
<1>4. EraseSlot(k, n, p) \in {k, [k EXCEPT !.nodes = nodes, !.edges = edges]}
    BY DEF EraseSlot
<1> HIDE DEF nodes, edges, e
<1>5. E \ {e} \in SUBSET DOMAIN g.edges
    OBVIOUS
<1>6. /\ nodes \in UNION {[S -> NodeRecord] : S \in SUBSET DOMAIN g.nodes}
      /\ edges \in UNION {[S -> EdgeRecord] : S \in SUBSET DOMAIN g.edges}
    BY <1>2, <1>3, <1>5
<1> QED BY <1>4, <1>6 DEF Graphs

(* Nor do the four rounds for a node.                                      *)
LEMMA EraseNodeType ==
    ASSUME NEW g, NEW k \in Graphs(g), NEW n
    PROVE  EraseNode(k, n) \in Graphs(g)
<1>1. /\ "outVertical" \in Positions /\ "inVertical" \in Positions
      /\ "outHorizontal" \in Positions /\ "inHorizontal" \in Positions
    BY DEF Positions
<1> QED BY <1>1, EraseSlotType DEF EraseNode

(* What the fold takes apart: the first k + 1 numbers.                     *)
LEMMA FirstOnes ==
    ASSUME NEW n \in Nat, NEW k \in 0..(n - 1)
    PROVE  LET s == 1..(k + 1)
           IN  /\ s \in SUBSET (1..n) /\ s # {} /\ s \ {k + 1} = 1..k
               /\ Max(s) = k + 1 /\ k + 1 \in 1..n
<1> DEFINE s == 1..(k + 1)
<1>1. k \in Nat /\ k + 1 <= n /\ k + 1 \in Nat \ {0}
    OBVIOUS
<1>2. \A i \in s : i \in 1..n
    BY <1>1
<1>3. k + 1 \in s /\ k + 1 \in 1..n
    BY <1>1
<1>4. \A i : i \in s /\ i # k + 1 <=> i \in 1..k
    BY <1>1
<1>5. Max(s) = k + 1
    BY <1>1, MaxOfFirst
<1> HIDE DEF s
<1>6. s \in SUBSET (1..n) /\ s # {} /\ s \ {k + 1} = 1..k
    BY <1>2, <1>3, <1>4
<1> QED BY <1>3, <1>5, <1>6 DEF s

(* FoldLeft sweeps the nodes one after another.                            *)
IsNodeFold(f, g, old, r) ==
    f = [s \in SUBSET DOMAIN r |->
           IF s = {} THEN g
           ELSE IF r[Max(s)] \in old THEN EraseNode(f[s \ {Max(s)}], r[Max(s)])
           ELSE f[s \ {Max(s)}]]

(* What the loop does with one number of a node.                           *)
NodeOp(old, h, n) == IF n \in old THEN EraseNode(h, n) ELSE h

(* The loop over the nodes of a thread. *)
ErasedNodes(k0, old, n) ==
    FoldLeft(LAMBDA h, m : IF m \in old THEN EraseNode(h, m) ELSE h, k0, [i \in 1..n |-> i])

(* The fold over the nodes takes them one after another, from the lowest   *)
(* on.                                                                     *)
LEMMA NodeFold ==
    ASSUME NEW g, GraphSound(g), NEW k0 \in Graphs(g), NEW old, NEW n \in Nat
    PROVE  \E f : /\ f[1..0] = k0
                  /\ \A k \in 0..(n - 1) : f[1..(k + 1)] = NodeOp(old, f[1..k], k + 1)
                  /\ ErasedNodes(k0, old, n) = f[1..n]
<1> DEFINE r == [i \in 1..n |-> i]
           V == Graphs(g)
           h == [i \in 1..n |-> [k \in V |-> NodeOp(old, k, r[i])]]
           f == CHOOSE f : IsNodeFold(f, k0, old, r)
<1>1. DOMAIN r = 1..n /\ \A i \in 1..n : r[i] = i
    OBVIOUS
<1>2. ErasedNodes(k0, old, n) = f[DOMAIN r]
    BY DEF ErasedNodes, FoldLeft, MapThenFoldSet, IsNodeFold
<1> HIDE DEF r
<1>3. \A i \in 1..n : h[i] \in [V -> V]
    BY EraseNodeType DEF NodeOp
<1>4. \E d : IsNodeFold(d, k0, old, r)
    <2> HIDE DEF h
    <2>2. PICK d \in [SUBSET (1..n) -> V] : IsFold(d, k0, h, n)
        BY <1>3, FoldExists
    <2>3. ASSUME NEW s \in SUBSET (1..n), s # {}
          PROVE  h[Max(s)][d[s \ {Max(s)}]]
                   = IF r[Max(s)] \in old THEN EraseNode(d[s \ {Max(s)}], r[Max(s)])
                     ELSE d[s \ {Max(s)}]
        <3>1. s \in SUBSET (0..n)
            OBVIOUS
        <3> DEFINE x == Max(s)
        <3>2. x \in s
            BY <2>3, <3>1, MaxBelow
        <3> HIDE DEF x
        <3>3. x \in 1..n /\ d[s \ {x}] \in V
            BY <3>2
        <3> HIDE DEF V
        <3>4. h[x][d[s \ {x}]] = NodeOp(old, d[s \ {x}], r[x])
            BY <3>3 DEF h
        <3> QED BY <3>4 DEF x, NodeOp
    <2>4. \A s \in SUBSET (1..n) :
             (IF s = {} THEN k0 ELSE h[Max(s)][d[s \ {Max(s)}]])
           = (IF s = {} THEN k0
              ELSE IF r[Max(s)] \in old THEN EraseNode(d[s \ {Max(s)}], r[Max(s)])
              ELSE d[s \ {Max(s)}])
        BY <2>3, Zenon
    <2>5. d = [s \in SUBSET (1..n) |->
                 IF s = {} THEN k0
                 ELSE IF r[Max(s)] \in old THEN EraseNode(d[s \ {Max(s)}], r[Max(s)])
                 ELSE d[s \ {Max(s)}]]
        BY <2>2, <2>4, Zenon DEF IsFold
    <2>6. DOMAIN r = 1..n
        BY <1>1
    <2>7. IsNodeFold(d, k0, old, r)
        BY <2>5, <2>6, Zenon DEF IsNodeFold
    <2> QED BY <2>7
<1>5. IsNodeFold(f, k0, old, r)
    BY <1>4, Zenon
<1> HIDE DEF f
<1>6. f[1..0] = k0
    <2>1. {} \in SUBSET DOMAIN r /\ 1..0 = {}
        OBVIOUS
    <2>2. f[{}] = k0
        BY <1>5, <2>1 DEF IsNodeFold
    <2> QED BY <2>1, <2>2
<1>7. ASSUME NEW k \in 0..(n - 1) PROVE f[1..(k + 1)] = NodeOp(old, f[1..k], k + 1)
    <2> DEFINE s == 1..(k + 1)
    <2>1. s \in SUBSET (1..n) /\ s # {} /\ s \ {k + 1} = 1..k /\ Max(s) = k + 1 /\ k + 1 \in 1..n
        BY FirstOnes
    <2> HIDE DEF s
    <2>3. f[s] = IF r[Max(s)] \in old THEN EraseNode(f[s \ {Max(s)}], r[Max(s)])
                 ELSE f[s \ {Max(s)}]
        BY <1>1, <1>5, <2>1, Zenon DEF IsNodeFold
    <2>4. r[k + 1] = k + 1
        BY <1>1, <2>1
    <2> QED BY <2>1, <2>3, <2>4 DEF s, NodeOp
<1> QED BY <1>1, <1>2, <1>6, <1>7 DEF r

(* What the loop over the nodes of a thread takes is what Cleanup says.    *)
LEMMA OldOfThread ==
    ASSUME NEW g, GraphSound(g), NEW ts \in Nat, NEW h, NEW gone, NEW P,
           Swept(g, h, P, gone), NEW tid, NodesOf(g, tid) \cap gone = {}
    PROVE  OldNodes(h, ts, tid) = Removed(g, ts) \cap NodesOf(g, tid)
<1>1. DOMAIN h.nodes = DOMAIN g.nodes \ gone
      /\ \A n \in DOMAIN h.nodes : h.nodes[n].ts = g.nodes[n].ts /\ h.nodes[n].tid = g.nodes[n].tid
    BY DEF Swept
<1>2. NodesOf(h, tid) = NodesOf(g, tid)
    BY <1>1 DEF NodesOf
<1>3. \A n \in DOMAIN g.nodes : n \in Nat /\ g.nodes[n].ts \in Nat
    BY DEF GraphSound, IsGraph, NodeRecord
<1>4. \A n \in NodesOf(g, tid) : n \in DOMAIN g.nodes /\ n \in DOMAIN h.nodes
                                /\ g.nodes[n].tid = tid
    BY <1>1 DEF NodesOf
<1>5. ASSUME NEW n \in NodesOf(g, tid)
      PROVE  n \in OldNodes(h, ts, tid) <=> n \in Removed(g, ts)
    <2>1. n \in Removed(g, ts) <=> \A m \in NodesOf(g, tid) : m <= n => g.nodes[m].ts < ts
        BY <1>4 DEF Removed, NodesOf
    <2>2. n \in OldNodes(h, ts, tid) <=> \A m \in NodesOf(g, tid) : g.nodes[m].ts >= ts => n < m
        BY <1>1, <1>2, <1>4 DEF OldNodes
    <2> QED BY <1>3, <1>4, <2>1, <2>2
<1>6. OldNodes(h, ts, tid) \subseteq NodesOf(g, tid)
    BY <1>2 DEF OldNodes
<1> QED BY <1>5, <1>6

(* The nodes of g that are gone when the loop has come through a thread.   *)
LEMMA ThreadSweeps ==
    ASSUME NEW g, GraphSound(g), NEW ts \in Nat, NEW h, NEW gone \in SUBSET DOMAIN g.nodes,
           Swept(g, h, gone \X Positions, gone), NEW tid, NodesOf(g, tid) \cap gone = {}
    PROVE  LET new == gone \cup (Removed(g, ts) \cap NodesOf(g, tid))
           IN  Swept(g, CleanupThread(h, ts, tid), new \X Positions, new)
<1> DEFINE old == OldNodes(h, ts, tid)
           new == gone \cup old
           N == g.nextNode - 1
           Upto(k) == gone \cup {n \in old : n <= k}
           end == ErasedNodes(h, old, N)
           last == CleanupThread(h, ts, tid)
<1>1. old = Removed(g, ts) \cap NodesOf(g, tid)
    BY OldOfThread
<1>2. N \in Nat /\ h.nextNode = g.nextNode /\ \A n \in DOMAIN g.nodes : n \in 1..N
    BY DEF GraphSound, IsGraph, NoNode, Swept, SameFields
<1>3. h \in Graphs(g)
    <2>1. DOMAIN g.nodes \ gone \in SUBSET DOMAIN g.nodes
          /\ DOMAIN g.edges \ EdgesIn(g, gone \X Positions) \in SUBSET DOMAIN g.edges
        OBVIOUS
    <2>2. h.edges \in [DOMAIN g.edges \ EdgesIn(g, gone \X Positions) -> EdgeRecord]
        BY DEF Swept, GraphSound, IsGraph
    <2>3. /\ h.nodes \in UNION {[D -> NodeRecord] : D \in SUBSET DOMAIN g.nodes}
          /\ h.edges \in UNION {[D -> EdgeRecord] : D \in SUBSET DOMAIN g.edges}
        BY <2>1, <2>2 DEF Swept
    <2> QED BY <2>3 DEF Graphs, Swept, SameFields
<1>4. last = [end EXCEPT !.nodes = Restrict(end.nodes, DOMAIN end.nodes \ old)]
    BY <1>2 DEF CleanupThread, ErasedNodes
<1>5. PICK f : /\ f[1..0] = h
               /\ \A k \in 0..(N - 1) : f[1..(k + 1)] = NodeOp(old, f[1..k], k + 1)
               /\ end = f[1..N]
    <2> HIDE DEF N, old
    <2> QED BY <1>2, <1>3, NodeFold
<1> HIDE DEF end, last, N
<1> DEFINE T == {k \in Nat : k <= N => Swept(g, f[1..k], Upto(k) \X Positions, gone)}
<1>6. old \subseteq DOMAIN g.nodes \ gone /\ \A n \in old : n \in 1..N /\ g.nodes[n].tid = tid
    BY <1>1, <1>2 DEF NodesOf
<1>7. 0 \in T
    <2>1. Upto(0) = gone
        BY <1>6
    <2> QED BY <1>5, <2>1
<1>8. ASSUME NEW k \in Nat, k \in T PROVE k + 1 \in T
    <2> SUFFICES ASSUME k + 1 <= N
                 PROVE  Swept(g, f[1..(k + 1)], Upto(k + 1) \X Positions, gone)
        OBVIOUS
    <2>1. Swept(g, f[1..k], Upto(k) \X Positions, gone)
        BY <1>2, <1>8
    <2>2. f[1..(k + 1)] = NodeOp(old, f[1..k], k + 1)
        BY <1>2, <1>5
    <2>3. CASE k + 1 \notin old
        <3>1. Upto(k + 1) = Upto(k)
            BY <1>6, <2>3
        <3> QED BY <2>1, <2>2, <2>3, <3>1 DEF NodeOp
    <2>4. CASE k + 1 \in old
        <3> HIDE DEF old
        <3>1. /\ Upto(k + 1) = Upto(k) \cup {k + 1}
              /\ k + 1 \notin Upto(k)
              /\ Upto(k) \subseteq DOMAIN g.nodes
              /\ \A m \in Upto(k) : m \in old \/ m \in gone
              /\ \A m \in Upto(k) : m \in old => m <= k + 1
            BY <1>6, <2>4
        <3> HIDE DEF Upto
        <3>2. InTurn(g, Upto(k) \X Positions, k + 1)
            BY <1>6, <2>4, <3>1 DEF InTurn, NodesOf
        <3>3. Swept(g, EraseNode(f[1..k], k + 1),
                    (Upto(k) \X Positions) \cup ({k + 1} \X Positions), gone)
            <4>1. /\ Upto(k) \X Positions \in SUBSET ((DOMAIN g.nodes) \X Positions)
                  /\ k + 1 \in DOMAIN g.nodes \ gone
                  /\ \A p \in Positions : <<k + 1, p>> \notin Upto(k) \X Positions
                <5>1. k + 1 \in DOMAIN g.nodes \ gone
                    BY <1>6, <2>4
                <5>2. \A p \in Positions : <<k + 1, p>> \notin Upto(k) \X Positions
                    BY <3>1
                <5>3. Upto(k) \X Positions \in SUBSET ((DOMAIN g.nodes) \X Positions)
                    BY <3>1, ProductWithin
                <5> QED BY <5>1, <5>2, <5>3
            <4> QED BY <2>1, <3>2, <4>1, EraseNodeSweeps
        <3>4. (Upto(k) \X Positions) \cup ({k + 1} \X Positions) = Upto(k + 1) \X Positions
            BY <3>1
        <3> QED BY <2>2, <2>4, <3>3, <3>4 DEF NodeOp
    <2> QED BY <2>3, <2>4
<1>9. Swept(g, end, new \X Positions, gone)
    <2>1. N \in T
        <3> HIDE DEF T
        <3> QED BY <1>2, <1>7, <1>8, SetInduction
    <2>2. Upto(N) = new
        BY <1>6
    <2> HIDE DEF Upto, new
    <2> QED BY <1>2, <1>5, <2>1, <2>2
<1>10. Swept(g, last, new \X Positions, new)
    <2> DEFINE nodes == Restrict(end.nodes, DOMAIN end.nodes \ old)
    <2>1. /\ DOMAIN nodes = DOMAIN g.nodes \ new
          /\ \A n \in DOMAIN nodes : nodes[n] = end.nodes[n]
          /\ nodes \in [DOMAIN g.nodes \ new -> NodeRecord]
        <3>1. end.nodes \in [DOMAIN g.nodes \ gone -> NodeRecord]
            BY <1>9 DEF Swept
        <3> HIDE DEF old
        <3> QED BY <3>1 DEF Restrict
    <2> HIDE DEF nodes, old, new
    <2>2. SameFields(g, end)
        BY <1>9 DEF Swept
    <2>3. last = [end EXCEPT !.nodes = nodes]
        BY <1>4 DEF nodes
    <2>4. SameFields(g, last) /\ last.nodes = nodes /\ last.edges = end.edges
        BY <2>2, <2>3 DEF SameFields
    <2>5. \A n \in DOMAIN g.nodes \ new : n \in DOMAIN g.nodes \ gone
        BY DEF new
    <2>6. last.edges = [e \in DOMAIN g.edges \ EdgesIn(g, new \X Positions) |-> g.edges[e]]
        BY <1>9, <2>4 DEF Swept
    <2>7. ASSUME NEW n \in DOMAIN g.nodes \ new
          PROVE  /\ last.nodes[n].ts = g.nodes[n].ts /\ last.nodes[n].tid = g.nodes[n].tid
                 /\ \A p \in Positions : <<n, p>> \notin new \X Positions =>
                       last.nodes[n].edge[p] = IF Hit(g, new \X Positions, n, p) THEN NoEdge
                                               ELSE g.nodes[n].edge[p]
        <3>1. last.nodes[n] = end.nodes[n]
            BY <2>1, <2>4
        <3>2. n \in DOMAIN g.nodes \ gone
            BY <2>5
        <3>3. /\ end.nodes[n].ts = g.nodes[n].ts /\ end.nodes[n].tid = g.nodes[n].tid
              /\ \A p \in Positions : <<n, p>> \notin new \X Positions =>
                    end.nodes[n].edge[p] = IF Hit(g, new \X Positions, n, p) THEN NoEdge
                                           ELSE g.nodes[n].edge[p]
            BY <1>9, <3>2, Zenon DEF Swept
        <3> QED BY <3>1, <3>3, Zenon
    <2>8. last.nodes \in [DOMAIN g.nodes \ new -> NodeRecord] /\ SameFields(g, last)
        BY <2>1, <2>4
    <2> QED BY <2>6, <2>7, <2>8, Zenon DEF Swept
<1> QED BY <1>1, <1>10 DEF last

(* FoldLeft comes through the threads one after another.                   *)
IsThreadFold(f, g, ts, r) ==
    f = [s \in SUBSET DOMAIN r |->
           IF s = {} THEN g ELSE CleanupThread(f[s \ {Max(s)}], ts, r[Max(s)])]

(* A round for a thread makes such a graph, too.                           *)
LEMMA CleanupThreadType ==
    ASSUME NEW g, GraphSound(g), NEW h \in Graphs(g), NEW ts, NEW tid
    PROVE  CleanupThread(h, ts, tid) \in Graphs(g)
<1> DEFINE old == OldNodes(h, ts, tid)
           N == g.nextNode - 1
<1>1. N \in Nat
    BY DEF GraphSound, IsGraph, NoNode
<1>2. h.nextNode = g.nextNode
    BY DEF Graphs
<1> HIDE DEF N, old
<1>3. PICK f : /\ f[1..0] = h
               /\ \A k \in 0..(N - 1) : f[1..(k + 1)] = NodeOp(old, f[1..k], k + 1)
               /\ ErasedNodes(h, old, N) = f[1..N]
    BY <1>1, NodeFold, SMTT(30)
<1> DEFINE end == ErasedNodes(h, old, N)
           last == CleanupThread(h, ts, tid)
           nodes == Restrict(end.nodes, DOMAIN end.nodes \ old)
<1> DEFINE T == {j \in Nat : j <= N => f[1..j] \in Graphs(g)}
<1>4. 0 \in T
    BY <1>3
<1>5. ASSUME NEW j \in Nat, j \in T PROVE j + 1 \in T
    <2> SUFFICES ASSUME j + 1 <= N PROVE f[1..(j + 1)] \in Graphs(g)
        OBVIOUS
    <2>1. f[1..j] \in Graphs(g) /\ f[1..(j + 1)] = NodeOp(old, f[1..j], j + 1)
        BY <1>1, <1>3, <1>5
    <2> QED BY <2>1, EraseNodeType DEF NodeOp
<1>6. end \in Graphs(g)
    <2>1. N \in T
        <3> HIDE DEF T
        <3> QED BY <1>1, <1>4, <1>5, SetInduction
    <2> QED BY <1>1, <1>3, <2>1
<1> HIDE DEF T
<1>7. last = [end EXCEPT !.nodes = nodes]
    BY <1>2 DEF CleanupThread, ErasedNodes, N, old
<1> HIDE DEF end, last, nodes
<1>8. nodes \in UNION {[D -> NodeRecord] : D \in SUBSET DOMAIN g.nodes}
    <2>1. PICK D \in SUBSET DOMAIN g.nodes : end.nodes \in [D -> NodeRecord]
        BY <1>6 DEF Graphs
    <2>2. nodes \in [D \ old -> NodeRecord] /\ D \ old \in SUBSET DOMAIN g.nodes
        BY <2>1 DEF Restrict, nodes
    <2> QED BY <2>2
<1>9. last \in Graphs(g)
    BY <1>6, <1>8, <1>7 DEF Graphs
<1> QED BY <1>9 DEF last

(* The fold over the threads takes them one after another.                 *)
LEMMA ThreadFold ==
    ASSUME NEW g, GraphSound(g), NEW ts, NEW n \in Nat, NEW r, DOMAIN r = 1..n
    PROVE  \E f : /\ f[1..0] = g
                  /\ \A k \in 0..(n - 1) : f[1..(k + 1)] = CleanupThread(f[1..k], ts, r[k + 1])
                  /\ CleanupInOrder(g, ts, r) = f[1..n]
<1> DEFINE V == Graphs(g)
           h == [i \in 1..n |-> [k \in V |-> CleanupThread(k, ts, r[i])]]
           f == CHOOSE f : IsThreadFold(f, g, ts, r)
<1>1. DOMAIN r = 1..n
    OBVIOUS
<1>2. CleanupInOrder(g, ts, r) = f[DOMAIN r]
    BY DEF CleanupInOrder, FoldLeft, MapThenFoldSet, IsThreadFold
<1>3. \A i \in 1..n : h[i] \in [V -> V]
    BY CleanupThreadType
<1>4. \E d : IsThreadFold(d, g, ts, r)
    <2>1. g \in V
        BY DEF GraphSound, IsGraph, Graphs
    <2> HIDE DEF h
    <2>2. PICK d \in [SUBSET (1..n) -> V] : IsFold(d, g, h, n)
        BY <1>3, <2>1, FoldExists
    <2>3. ASSUME NEW s \in SUBSET (1..n), s # {}
          PROVE  h[Max(s)][d[s \ {Max(s)}]] = CleanupThread(d[s \ {Max(s)}], ts, r[Max(s)])
        <3>1. s \in SUBSET (0..n)
            OBVIOUS
        <3> DEFINE x == Max(s)
        <3>2. x \in s
            BY <2>3, <3>1, MaxBelow
        <3> HIDE DEF x
        <3>3. x \in 1..n /\ d[s \ {x}] \in V
            BY <3>2
        <3> HIDE DEF V
        <3>4. h[x][d[s \ {x}]] = CleanupThread(d[s \ {x}], ts, r[x])
            BY <3>3 DEF h
        <3> QED BY <3>4 DEF x
    <2>4. \A s \in SUBSET (1..n) :
             (IF s = {} THEN g ELSE h[Max(s)][d[s \ {Max(s)}]])
           = (IF s = {} THEN g ELSE CleanupThread(d[s \ {Max(s)}], ts, r[Max(s)]))
        BY <2>3, Zenon
    <2>5. d = [s \in SUBSET (1..n) |->
                 IF s = {} THEN g ELSE CleanupThread(d[s \ {Max(s)}], ts, r[Max(s)])]
        BY <2>2, <2>4, Zenon DEF IsFold
    <2>6. IsThreadFold(d, g, ts, r)
        BY <1>1, <2>5, Zenon DEF IsThreadFold
    <2> QED BY <2>6
<1>5. IsThreadFold(f, g, ts, r)
    BY <1>4, Zenon
<1> HIDE DEF f
<1>6. f[1..0] = g
    <2>1. {} \in SUBSET DOMAIN r /\ 1..0 = {}
        OBVIOUS
    <2>2. f[{}] = g
        BY <1>5, <2>1 DEF IsThreadFold
    <2> QED BY <2>1, <2>2
<1>7. ASSUME NEW k \in 0..(n - 1)
      PROVE  f[1..(k + 1)] = CleanupThread(f[1..k], ts, r[k + 1])
    <2> DEFINE s == 1..(k + 1)
    <2>1. s \in SUBSET (1..n) /\ s # {} /\ s \ {k + 1} = 1..k /\ Max(s) = k + 1
        BY FirstOnes
    <2> HIDE DEF s
    <2>2. f[s] = CleanupThread(f[s \ {Max(s)}], ts, r[Max(s)])
        BY <1>1, <1>5, <2>1, Zenon DEF IsThreadFold
    <2> QED BY <2>1, <2>2 DEF s
<1> QED BY <1>1, <1>2, <1>6, <1>7

(* When every slot of every old node is swept and these nodes are gone,    *)
(* the graph is that of Cleanup.                                           *)
LEMMA SweptIsClean ==
    ASSUME NEW g, GraphSound(g), NEW ts \in Nat, NEW h,
           Swept(g, h, Removed(g, ts) \X Positions, Removed(g, ts))
    PROVE  h = Cleanup(g, ts)
<1> DEFINE c == Cleanup(g, ts)
           R == Removed(g, ts)
           P == R \X Positions
           slots(n) == [p \in Positions |-> IF Cleared(g, ts, n, p) THEN NoEdge
                                            ELSE g.nodes[n].edge[p]]
           nodes == [n \in DOMAIN g.nodes \ Removed(g, ts) |->
                       [g.nodes[n] EXCEPT !.edge = slots(n)]]
           edges == [e \in DOMAIN g.edges \ ErasedEdges(g, ts) |-> g.edges[e]]
<1>1. c = [g EXCEPT !.nodes = nodes, !.edges = edges]
    BY CleanupForm
<1>2. R \subseteq DOMAIN g.nodes
    BY DEF Removed
<1>3. \A n, p : <<n, p>> \in P <=> n \in R /\ p \in Positions
    OBVIOUS
<1>4. h.edges = edges
    <2>1. DOMAIN g.edges \ EdgesIn(g, P) = DOMAIN g.edges \ ErasedEdges(g, ts)
        <3>1. NoEdge \notin DOMAIN g.edges
            BY DEF GraphSound, IsGraph, NoEdge
        <3> HIDE DEF P, R
        <3>2. ASSUME NEW e \in EdgesIn(g, P) PROVE e \in ErasedEdges(g, ts)
            <4>1. PICK n \in DOMAIN g.nodes, p \in Positions :
                     <<n, p>> \in P /\ g.nodes[n].edge[p] = e
                BY <3>2 DEF EdgesIn
            <4>2. n \in R /\ e \in DOMAIN g.edges
                BY <1>3, <3>2, <4>1, Zenon DEF EdgesIn
            <4> QED BY <3>1, <4>1, <4>2 DEF ErasedEdges, R
        <3>3. ASSUME NEW e \in ErasedEdges(g, ts), e \in DOMAIN g.edges PROVE e \in EdgesIn(g, P)
            <4>1. PICK n \in R, p \in Positions : g.nodes[n].edge[p] = e
                BY <3>3 DEF ErasedEdges, R
            <4>2. <<n, p>> \in P /\ n \in DOMAIN g.nodes
                BY <1>2, <1>3
            <4> QED BY <3>3, <4>1, <4>2, Zenon DEF EdgesIn
        <3> QED BY <3>2, <3>3
    <2>2. h.edges = [e \in DOMAIN g.edges \ EdgesIn(g, P) |-> g.edges[e]]
        BY DEF Swept
    <2> HIDE DEF P
    <2> QED BY <2>1, <2>2
<1>5. h.nodes = nodes
    <2>1. h.nodes \in [DOMAIN g.nodes \ R -> NodeRecord] /\ DOMAIN nodes = DOMAIN g.nodes \ R
        BY DEF Swept
    <2>2. ASSUME NEW n \in DOMAIN g.nodes \ R PROVE h.nodes[n] = nodes[n]
        <3> DEFINE r == h.nodes[n]
                   s == nodes[n]
                   slot(p) == IF Cleared(g, ts, n, p) THEN NoEdge ELSE g.nodes[n].edge[p]
        <3>1. g.nodes[n] \in NodeRecord
            BY DEF GraphSound, IsGraph
        <3>2. s = [g.nodes[n] EXCEPT !.edge = [p \in Positions |-> slot(p)]]
            OBVIOUS
        <3>3. /\ r.ts = g.nodes[n].ts /\ r.tid = g.nodes[n].tid
              /\ \A p \in Positions : r.edge[p] = slot(p)
            <4> HIDE DEF P
            <4>1. \A p \in Positions : Hit(g, P, n, p) <=> Cleared(g, ts, n, p)
                <5>1. \A p \in Positions : Opposite(p) \in Positions
                    BY Opposites
                <5> QED BY <1>2, <1>3, <5>1 DEF Hit, Cleared, R
            <4>2. \A p \in Positions : <<n, p>> \notin P
                BY <1>3
            <4>3. /\ r.ts = g.nodes[n].ts /\ r.tid = g.nodes[n].tid
                  /\ \A p \in Positions : r.edge[p] = IF Hit(g, P, n, p) THEN NoEdge
                                                       ELSE g.nodes[n].edge[p]
                BY <4>2, Zenon DEF Swept, P, R
            <4> QED BY <4>1, <4>3
        <3>4. r \in NodeRecord
            BY <2>1
        <3> HIDE DEF r, s, slot
        <3>5. r.edge = [p \in Positions |-> slot(p)]
            BY <3>3, <3>4 DEF NodeRecord
        <3>6. r = s
            BY <3>1, <3>2, <3>3, <3>4, <3>5 DEF NodeRecord
        <3> QED BY <3>6 DEF r, s
    <2>3. nodes = [n \in DOMAIN g.nodes \ R |-> nodes[n]]
        OBVIOUS
    <2> HIDE DEF nodes, R
    <2> QED BY <2>1, <2>2, <2>3
<1> HIDE DEF nodes, edges, c
<1>6. SameFields(g, c) /\ c.nodes = nodes /\ c.edges = edges
    BY <1>1 DEF SameFields, GraphSound, IsGraph
<1>7. SameFields(g, h)
    BY DEF Swept
<1>8. h = c
    BY <1>4, <1>5, <1>6, <1>7 DEF SameFields
<1> QED BY <1>8 DEF c

(* Every order of the threads sweeps the same.                             *)
LEMMA OrderSweeps ==
    ASSUME NEW g, GraphSound(g), NEW ts \in Nat, IsFiniteSet(Tids), NEW r \in SetToSeqs(Tids)
    PROVE  CleanupInOrder(g, ts, r) = Cleanup(g, ts)
<1> DEFINE n == Cardinality(Tids)
<1>1. n \in Nat /\ r \in [1..n -> Tids] /\ \A i, j \in 1..n : i # j => r[i] # r[j]
    BY FS_CardinalityType DEF SetToSeqs
<1>2. \A tid \in Tids : \E i \in 1..n : r[i] = tid
    <2> HIDE DEF n
    <2>1. r \in Injection(1..n, Tids)
        BY <1>1, Zenon DEF Injection, IsInjective
    <2>2. IsFiniteSet(1..n) /\ Cardinality(1..n) = Cardinality(Tids)
        BY <1>1, FS_Interval DEF n
    <2>3. r \in Surjection(1..n, Tids)
        BY <2>1, <2>2, FS_Injection
    <2> QED BY <2>3, Zenon DEF Surjection
<1> HIDE DEF n
<1>3. PICK f : /\ f[1..0] = g
               /\ \A k \in 0..(n - 1) : f[1..(k + 1)] = CleanupThread(f[1..k], ts, r[k + 1])
               /\ CleanupInOrder(g, ts, r) = f[1..n]
    <2>1. n \in Nat /\ DOMAIN r = 1..n
        BY <1>1
    <2> QED BY <2>1, ThreadFold
<1> DEFINE R == Removed(g, ts)
           First(k) == {m \in R : \E i \in 1..k : g.nodes[m].tid = r[i]}
<1>4. R \in SUBSET DOMAIN g.nodes /\ \A m \in DOMAIN g.nodes : g.nodes[m].tid \in Tids
    BY DEF Removed, GraphSound, IsGraph, NodeRecord
<1> HIDE DEF R
<1> DEFINE T == {k \in Nat : k <= n => Swept(g, f[1..k], First(k) \X Positions, First(k))}
<1>5. 0 \in T
    <2>1. First(0) = {} /\ First(0) \X Positions = {}
        OBVIOUS
    <2>2. Swept(g, g, {}, {})
        <3>1. EdgesIn(g, {}) = {} /\ \A m, p : ~Hit(g, {}, m, p)
            BY DEF EdgesIn, Hit
        <3> QED BY <3>1 DEF Swept, SameFields, GraphSound, IsGraph
    <2> QED BY <1>3, <2>1, <2>2
<1>6. ASSUME NEW k \in Nat, k \in T PROVE k + 1 \in T
    <2> SUFFICES ASSUME k + 1 <= n
                 PROVE  Swept(g, f[1..(k + 1)], First(k + 1) \X Positions, First(k + 1))
        <3> HIDE DEF First
        <3> QED BY <1>1
    <2> DEFINE tid == r[k + 1]
    <2>1. Swept(g, f[1..k], First(k) \X Positions, First(k))
        <3> HIDE DEF First
        <3>1. k <= n
            BY <1>1
        <3> QED BY <1>6, <3>1
    <2>2. f[1..(k + 1)] = CleanupThread(f[1..k], ts, tid)
        <3>1. k \in 0..(n - 1)
            <4> HIDE DEF First
            <4> QED BY <1>1
        <3> QED BY <1>3, <3>1, Zenon
    <2>3. NodesOf(g, tid) \cap First(k) = {}
        BY <1>1 DEF NodesOf
    <2>4. First(k + 1) = First(k) \cup (R \cap NodesOf(g, tid))
        <3>1. \A i : i \in 1..(k + 1) <=> i \in 1..k \/ i = k + 1
            OBVIOUS
        <3> QED BY <1>4, <3>1 DEF NodesOf
    <2>5. First(k) \in SUBSET DOMAIN g.nodes
        BY <1>4
    <2> HIDE DEF First, tid
    <2> QED BY <2>1, <2>2, <2>3, <2>4, <2>5, ThreadSweeps DEF R
<1>7. Swept(g, f[1..n], First(n) \X Positions, First(n))
    <2>1. n \in T
        <3> HIDE DEF T
        <3> QED BY <1>1, <1>5, <1>6, SetInduction
    <2> HIDE DEF First
    <2> QED BY <1>1, <2>1
<1>8. First(n) = R
    BY <1>2, <1>4
<1> HIDE DEF First
<1> QED BY <1>3, <1>7, <1>8, SweptIsClean DEF R

(* Whatever the order in which the hash table lists the threads, the loop  *)
(* of the cleanup leaves the same graph, and reads no slot after the edge  *)
(* in it is gone (CriticalGraph.cpp:60-108).                               *)
THEOREM CleanupInAnyOrder ==
    ASSUME IsFiniteSet(Threads)
    PROVE  Spec => []CleanupOrderFree
<1>1. IInv => CleanupOrderFree
    <2> SUFFICES ASSUME IInv, NEW r \in SetToSeqs(Tids)
                 PROVE  CleanupInOrder(graph, saveTs, r) = Cleanup(graph, saveTs)
        BY DEF CleanupOrderFree
    <2>1. GraphSound(graph) /\ saveTs \in Nat
        BY DEF IInv, TypeOK
    <2>2. IsFiniteSet(Tids)
        BY FS_AddElement DEF Tids
    <2> QED BY <2>1, <2>2, OrderSweeps
<1> QED BY <1>1, Inductive, PTL

=============================================================================
