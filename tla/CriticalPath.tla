--------------------------- MODULE CriticalPath ---------------------------
(***************************************************************************)
(* src/critical/ComputeCriticalPath.cpp on the graphs that a build         *)
(* reaches: what a thread did between two times, where a wait that another *)
(* thread ended is replaced by what that thread did meanwhile.             *)
(*                                                                         *)
(* The code passes the path along and inserts segments into it, which does *)
(* not look at what is there but to make its last segment longer.  Here a  *)
(* call is the sequence of the segments that it inserts, and the path is   *)
(* what becomes of an empty one when all of them are inserted.             *)
(*                                                                         *)
(* A call, and each round of a loop, is a step.  MaxSteps bounds how many  *)
(* of them follow from one another; a computation that would need more     *)
(* inserts the mark Endless, and one that reads a deleted node the mark    *)
(* Undefined.                                                              *)
(***************************************************************************)
EXTENDS CriticalBuild, SequencesExt

CONSTANT MaxSteps   \* bound: how far a computation goes

ASSUME MaxStepsAssumption == MaxSteps \in Nat

Segment(start, end, tid, type) ==
    [start |-> start, end |-> end, tid |-> tid, type |-> type]

Endless   == Segment(0, 0, InvalidThread, "endless")
Undefined == Segment(0, 0, InvalidThread, "undefined")

(* The type of the segments is not compared.                               *)
MutInsert(path, s) ==
    IF path # << >> /\ Last(path).tid = s.tid
    THEN [path EXCEPT ![Len(path)].end = s.end]
    ELSE Append(path, s)

(* InsertCriticalPathSegment: a segment that goes on with the last one     *)
(* makes it longer.                                                        *)
Insert(path, s) ==
    IF path # << >> /\ Last(path).tid = s.tid /\ Last(path).type = s.type
    THEN [path EXCEPT ![Len(path)].end = s.end]
    ELSE Append(path, s)

IsEmpty(start, end) == end <= start

(* The part of an edge between two times, without std::max.                *)
MutEdgeStart(start, ts) == ts

EdgeStart(start, ts) == IF start < ts THEN ts ELSE start

EdgeEnd(end, ts) == IF ts < end THEN ts ELSE end

IsWait(g, e) == g.edges[e].type \in {"kWaitBlocked", "kNetwork"}

(* The wake-up is looked for at the start of the wait.                     *)
MutWakeUp(g, e) == g.nodes[g.edges[e].from].edge["inVertical"]

(* The wake-up that ended a wait.                                          *)
WakeUp(g, e) == g.nodes[g.edges[e].to].edge["inVertical"]

Out(g, n) == g.nodes[n].edge["outHorizontal"]

----------------------------------------------------------------------------

(* The steps of ComputeCriticalPathRecursive, with its parameters: the call *)
(* itself, a round of the loop that looks for the first wake-up, and one   *)
(* of the loop that follows the edges, each at a node.                     *)
Step(at, node, start, end, tid) ==
    [at |-> at, node |-> node, start |-> start, end |-> end, tid |-> tid]

Steps(tids) ==
    [at : {"call", "search", "traverse"}, node : Nat, start : Nat, end : Nat, tid : tids]

Call(start, end, tid) == Step("call", NoNode, start, end, tid)

(* The operators below take the segments that follow from a step as a      *)
(* function, "rest".                                                       *)

(* ResolvedBlockedEdge.  The wait for a packet leads to its sender; any    *)
(* other wake-up to the waking thread, by an empty segment.                *)
ResolvedBlockedEdge(g, e, start, end, rest) ==
    LET wake     == WakeUp(g, e)
        from     == g.edges[wake].from
        source   == g.nodes[from].tid
        hop      == g.nodes[from].edge["inHorizontal"]
        sent     == g.edges[hop].from
        departed == g.nodes[sent].edge["inVertical"]
        sender   == g.nodes[g.edges[departed].from].tid
    IN  IF wake = NoEdge
        THEN << Segment(start, end, g.nodes[g.edges[e].to].tid, g.edges[e].type) >>
        ELSE IF source = NetworkThread /\ hop # NoEdge /\ sent \notin DOMAIN g.nodes
        THEN << Undefined >>
        ELSE IF source = NetworkThread /\ hop # NoEdge /\ departed # NoEdge
        THEN rest[Call(start, g.nodes[sent].ts, sender)]
             \o << Segment(g.nodes[sent].ts, g.nodes[from].ts, g.nodes[sent].tid,
                           g.edges[hop].type) >>
        ELSE << Segment(start, start, source, "kEpsilon") >> \o rest[Call(start, end, source)]

(* The last loop: the part of one edge, then the edges after it.           *)
Traverse(g, c, rest) ==
    LET e    == Out(g, c.node)
        next == g.edges[e].to
        s    == EdgeStart(c.start, g.nodes[c.node].ts)
        t    == EdgeEnd(c.end, g.nodes[next].ts)
        part == IF IsWait(g, e) THEN ResolvedBlockedEdge(g, e, s, t, rest)
                ELSE IF s = t THEN << >>
                ELSE << Segment(s, t, c.tid, g.edges[e].type) >>
    IN  IF c.node = NoNode \/ g.nodes[c.node].ts > c.end \/ e = NoEdge THEN << >>
        ELSE part \o rest[[c EXCEPT !.node = next]]

(* The search does not stop at the end of the path.                        *)
MutSearch(g, c, rest) ==
    LET wake  == g.nodes[c.node].edge["inVertical"]
        first == GetNodeStartingAfter(g, c.start, c.tid)
        known == IF first = NoNode THEN c.end ELSE g.nodes[first].ts
    IN  IF c.node # NoNode /\ wake # NoEdge
        THEN rest[Call(c.start, g.nodes[c.node].ts, g.nodes[g.edges[wake].from].tid)]
             \o rest[[c EXCEPT !.at = "traverse"]]
        ELSE IF c.node # NoNode /\ Out(g, c.node) # NoEdge
        THEN rest[[c EXCEPT !.node = g.edges[Out(g, c.node)].to]]
        ELSE << Segment(c.start, known, c.tid, "kWaitBlocked") >>
             \o rest[[c EXCEPT !.at = "traverse", !.node = first]]

(* A thread without a node at the start has been waiting for its first     *)
(* wake-up by the end, or, if it has none, for its first node.             *)
Search(g, c, rest) ==
    LET inTime == c.node # NoNode /\ g.nodes[c.node].ts <= c.end
        wake   == g.nodes[c.node].edge["inVertical"]
        first  == GetNodeStartingAfter(g, c.start, c.tid)
        known  == IF first = NoNode THEN c.end ELSE g.nodes[first].ts
    IN  IF inTime /\ wake # NoEdge
        THEN rest[Call(c.start, g.nodes[c.node].ts, g.nodes[g.edges[wake].from].tid)]
             \o rest[[c EXCEPT !.at = "traverse"]]
        ELSE IF inTime /\ Out(g, c.node) # NoEdge
        THEN rest[[c EXCEPT !.node = g.edges[Out(g, c.node)].to]]
        ELSE << Segment(c.start, known, c.tid, "kWaitBlocked") >>
             \o rest[[c EXCEPT !.at = "traverse", !.node = first]]

ComputeCriticalPathRecursive(g, c, rest) ==
    LET n == GetNodeIntersecting(g, c.start, c.tid)
    IN  IF IsEmpty(c.start, c.end) THEN << >>
        ELSE IF n # NoNode THEN rest[[c EXCEPT !.at = "traverse", !.node = n]]
        ELSE rest[[c EXCEPT !.at = "search",
                            !.node = GetNodeStartingAfter(g, c.start, c.tid)]]

(* The segments that follow from a step, which may have n more after it,   *)
(* where the computation comes to these threads only.                      *)
Computed(g, tids) ==
    LET run[n \in Nat] ==
            [c \in Steps(tids) |->
               IF n = 0 THEN << Endless >>
               ELSE CASE c.at = "call"     -> ComputeCriticalPathRecursive(g, c, run[n - 1])
                      [] c.at = "search"   -> Search(g, c, run[n - 1])
                      [] c.at = "traverse" -> Traverse(g, c, run[n - 1])]
    IN  run

Segments(g, start, end, tid, steps) ==
    Computed(g, {tid} \cup {g.nodes[n].tid : n \in DOMAIN g.nodes})[steps][Call(start, end, tid)]

ComputeCriticalPath(g, start, end, tid, steps) ==
    FoldLeft(Insert, << >>, Segments(g, start, end, tid, steps))

----------------------------------------------------------------------------
(* The paths that SaveExecutions can ask for: of an execution that did not *)
(* start before the last cleanup (BuildBlock.cpp:152).                     *)
Queries == {q \in [start : lastCleanupTs..graph.ts, end : 1..graph.ts, tid : Threads] :
              0 < q.start /\ q.start < q.end}

SegmentsOf(q) == Segments(graph, q.start, q.end, q.tid, MaxSteps)

PathOf(q) == ComputeCriticalPath(graph, q.start, q.end, q.tid, MaxSteps)

Marks(q) == Range(SegmentsOf(q)) \cap {Endless, Undefined}

(* The graph has what the thread did from the start to the end.            *)
IsKnown(q) ==
    \A ts \in {q.start, q.end} : GetNodeIntersecting(graph, ts, q.tid) # NoNode

(* No thread has ended and begun again.                                    *)
Unbroken ==
    \A n \in DOMAIN graph.nodes :
        graph.nodes[n].tid \in Threads /\ Out(graph, n) = NoEdge
            => n = LastNode(graph, graph.nodes[n].tid)

(* A packet that woke a thread is known from its departure on, and the     *)
(* thread from the start.                                                  *)
PacketsKnown(q) ==
    \A e \in DOMAIN graph.edges :
        IsVertical(graph, e) /\ From(graph, e).tid = NetworkThread =>
            /\ From(graph, e).edge["inHorizontal"] # NoEdge
            /\ GetNodeIntersecting(graph, q.start, To(graph, e).tid) # NoNode

IsPath(q) ==
    Unbroken /\ PacketsKnown(q) /\ Marks(q) = {}

(* A segment begins where one of tid ended, or earlier if one of the two   *)
(* is about a packet.                                                      *)
Follows(s, end, tid) ==
    \/ s.start = end
    \/ s.start < end /\ NetworkThread \in {s.tid, tid}

(* The path of a thread between two times, whoever it is led to, begins    *)
(* with the first time, each segment begins where the one before ended,    *)
(* and the last reaches the second time if the graph knows the thread then *)
(* (ComputeCriticalPath.cpp:193-222): no time is counted twice or left     *)
(* out, as ExtractMetrics.cpp:44-62 sums the durations up.  Only packets   *)
(* may be counted beside something else: one that left before its receiver *)
(* began to wait, from its departure, and one that arrived after the time  *)
(* that it is asked about, to its arrival (ComputeCriticalPath.cpp:104).   *)
PathContiguous ==
    \A q \in Queries :
        LET path == PathOf(q)
        IN  IsPath(q) =>
                /\ path # << >> => Follows(path[1], q.start, q.tid)
                /\ \A i \in 2..Len(path) :
                      Follows(path[i], path[i - 1].end, path[i - 1].tid)
                /\ IsKnown(q) => path # << >> /\ Last(path).end >= q.end

(* A segment says of a thread what the graph says of it, at every time;    *)
(* only a thread that the graph does not know then is said to wait.        *)
PathHonest ==
    \A q \in Queries :
        LET path == PathOf(q)
        IN  IsPath(q) =>
            \A i \in DOMAIN path : \A ts \in path[i].start..(path[i].end - 1) :
                \/ \E e \in DOMAIN graph.edges :
                      /\ ~IsVertical(graph, e) /\ To(graph, e).tid = path[i].tid
                      /\ graph.edges[e].type = path[i].type
                      /\ From(graph, e).ts <= ts /\ ts < To(graph, e).ts
                \/ /\ path[i].type = "kWaitBlocked"
                   /\ GetNodeIntersecting(graph, ts, path[i].tid) = NoNode

(* A wait is in the path only if nobody is known to have ended it: this is *)
(* what makes the path critical.                                           *)
PathBlamesWaker ==
    \A q \in Queries :
        LET path == PathOf(q)
        IN  IsPath(q) =>
            \A e \in DOMAIN graph.edges, i \in DOMAIN path :
                ~( /\ IsThreadEdge(graph, e) /\ IsWait(graph, e)
                   /\ To(graph, e).tid = path[i].tid
                   /\ graph.edges[e].type = path[i].type
                   /\ \E ts \in path[i].start..(path[i].end - 1) :
                         From(graph, e).ts <= ts /\ ts < To(graph, e).ts
                   /\ To(graph, e).edge["inVertical"] # NoEdge )

(* Two threads that woke each other, or one that woke itself, at one time. *)
WokeEachOther ==
    \E e1, e2 \in DOMAIN graph.edges :
        /\ IsVertical(graph, e1) /\ IsVertical(graph, e2)
        /\ To(graph, e1).ts = To(graph, e2).ts
        /\ From(graph, e1).tid = To(graph, e2).tid
        /\ From(graph, e2).tid = To(graph, e1).tid

(* The recursion ends, unless the times of the wake-ups do not tell their  *)
(* order (ComputeCriticalPath.cpp:163): between two threads, every call is *)
(* about less time than the one before, or about a thread that is known.   *)
PathEnds ==
    \A q \in Queries : Endless \in Marks(q) => WokeEachOther

(* The sum of the durations, less those of the empty segments.             *)
Duration(path) ==
    FoldSeq(LAMBDA s, sum : IF s.type = "kEpsilon" THEN sum ELSE sum + s.end - s.start,
            0, path)

(* "Critical path is not the same duration as the execution..."            *)
(* (ExtractMetrics.cpp:60): the path of a thread that was known at its     *)
(* start, and is at its end, lasts as long as the execution.               *)
PathDuration ==
    \A q \in Queries :
        IsKnown(q) /\ IsPath(q) => Duration(PathOf(q)) = q.end - q.start

============================================================================
