----------------------------- MODULE PathTests ------------------------------
(***************************************************************************)
(* The unit tests of src/critical, on the model: the graphs that           *)
(* ComputeCriticalPath_Unittest.cpp and CriticalGraph_Unittest.cpp build,  *)
(* and what they expect of them.  TLC evaluates them before the run of     *)
(* MCInterrupts.                                                           *)
(***************************************************************************)
EXTENDS CriticalPath, TLC

(* The nodes that are created at a time, by their threads; edges of a type, *)
(* by the numbers of their nodes in the order of creation.                 *)
At(ts, tids) == [ts |-> ts, tids |-> tids]

Edges(type, pairs) ==
    [i \in DOMAIN pairs |-> [type |-> type, from |-> pairs[i][1], to |-> pairs[i][2]]]

GraphOf(nodes, edges) ==
    LET Create(g, at) == FoldLeft(CreateNode, SetTimestamp(g, at.ts), at.tids)
        Connect(g, e) == IF e.type = "kVertical" THEN CreateVerticalEdge(g, e.from, e.to)
                         ELSE CreateHorizontalEdge(g, e.type, e.from, e.to)
    IN  FoldLeft(Connect, FoldLeft(Create, EmptyGraph, nodes), edges)

(* The computations of these tests go at most this far.                    *)
TestSteps == 40

PathIs(g, start, end, tid, path) ==
    ComputeCriticalPath(g, start, end, tid, TestSteps) = path

----------------------------------------------------------------------------
(* A wait that another thread ended is what that thread did meanwhile.     *)
SimplePathTest ==
    LET nodes ==
            <<At(1, <<1, 2>>), At(4, <<1, 2>>), At(6, <<1>>), At(9, <<1, 2>>),
              At(11, <<1>>), At(13, <<1, 2>>)>>
        edges ==
            Edges("kRun", <<<<1, 3>>, <<3, 5>>, <<8, 9>>, <<4, 7>>, <<7, 10>>>>)
              \o Edges("kWaitBlocked", <<<<5, 6>>, <<6, 8>>, <<2, 4>>>>)
              \o Edges("kVertical", <<<<3, 4>>, <<7, 6>>>>)
        graphOf == GraphOf(nodes, edges)
    IN  PathIs(graphOf, 1, 12, 1,
               <<Segment(1, 6, 1, "kRun"), Segment(6, 6, 2, "kEpsilon"),
                 Segment(6, 9, 2, "kRun"), Segment(9, 11, 1, "kWaitBlocked"),
                 Segment(11, 12, 1, "kRun")>>)

(* The same after a cleanup of older nodes.                                *)
SimpleWithCleanupTest ==
    LET nodes ==
            <<At(10, <<1>>), At(11, <<1>>), At(101, <<1, 2>>),
              At(104, <<1, 2>>), At(106, <<1>>), At(109, <<1, 2>>),
              At(111, <<1>>), At(113, <<1, 2>>)>>
        edges ==
            Edges("kRun", <<<<1, 2>>, <<2, 3>>, <<3, 5>>, <<5, 7>>, <<6, 9>>,
                            <<9, 12>>, <<10, 11>>>>)
              \o Edges("kWaitBlocked", <<<<4, 6>>, <<7, 8>>, <<8, 10>>>>)
              \o Edges("kVertical", <<<<5, 6>>, <<9, 8>>>>)
        graphOf == Cleanup(GraphOf(nodes, edges), 101)
    IN  PathIs(graphOf, 101, 112, 1,
               <<Segment(101, 106, 1, "kRun"),
                 Segment(106, 106, 2, "kEpsilon"),
                 Segment(106, 109, 2, "kRun"),
                 Segment(109, 111, 1, "kWaitBlocked"),
                 Segment(111, 112, 1, "kRun")>>)

(* Two waits in a row; and a path that starts and ends within edges.       *)
MultipleSegmentsTest ==
    LET nodes ==
            <<At(1, <<1, 2>>), At(4, <<1, 2>>), At(6, <<1>>), At(9, <<1, 2>>),
              At(11, <<1>>), At(14, <<1, 2>>), At(16, <<1, 2>>), At(18, <<1>>),
              At(20, <<1, 2>>)>>
        edges ==
            Edges("kRun", <<<<1, 3>>, <<3, 5>>, <<8, 9>>, <<13, 14>>, <<4, 7>>,
                            <<7, 10>>, <<10, 12>>, <<12, 15>>>>)
              \o Edges("kWaitBlocked", <<<<5, 6>>, <<6, 8>>, <<9, 11>>, <<11, 13>>,
                                    <<2, 4>>>>)
              \o Edges("kVertical", <<<<3, 4>>, <<7, 6>>, <<12, 11>>>>)
        graphOf == GraphOf(nodes, edges)
    IN  /\ PathIs(graphOf, 1, 20, 1,
               <<Segment(1, 6, 1, "kRun"), Segment(6, 6, 2, "kEpsilon"),
                 Segment(6, 9, 2, "kRun"), Segment(9, 11, 1, "kWaitBlocked"),
                 Segment(11, 14, 1, "kRun"), Segment(14, 14, 2, "kEpsilon"),
                 Segment(14, 16, 2, "kRun"),
                 Segment(16, 18, 1, "kWaitBlocked"), Segment(18, 20, 1, "kRun")>>)
        /\ PathIs(graphOf, 2, 12, 1,
               <<Segment(2, 6, 1, "kRun"), Segment(6, 6, 2, "kEpsilon"),
                 Segment(6, 9, 2, "kRun"), Segment(9, 11, 1, "kWaitBlocked"),
                 Segment(11, 12, 1, "kRun")>>)

(* Waits on a thread that waits on a thread that waits on a thread.        *)
MultipleLevelsTest ==
    LET nodes ==
            <<At(1, <<1, 2, 3, 4>>), At(3, <<1, 2>>), At(5, <<1, 2, 3>>),
              At(7, <<2, 3, 4>>), At(9, <<3>>), At(11, <<3, 4>>),
              At(13, <<3>>), At(14, <<2, 3>>), At(16, <<2>>), At(17, <<1, 2>>),
              At(19, <<1>>), At(22, <<1, 2, 3, 4>>)>>
        edges ==
            Edges("kRun", <<<<1, 5>>, <<5, 7>>, <<22, 23>>, <<6, 8>>,
                            <<8, 10>>, <<19, 21>>, <<21, 24>>, <<9, 11>>,
                            <<11, 13>>, <<16, 18>>, <<18, 25>>, <<12, 15>>,
                            <<15, 26>>>>)
              \o Edges("kWaitBlocked", <<<<7, 20>>, <<20, 22>>, <<2, 6>>,
                                    <<10, 17>>, <<17, 19>>, <<3, 9>>,
                                    <<13, 14>>, <<14, 16>>, <<4, 12>>>>)
              \o Edges("kVertical", <<<<5, 6>>, <<8, 9>>, <<11, 12>>, <<15, 14>>,
                                 <<18, 17>>, <<21, 20>>>>)
        graphOf == GraphOf(nodes, edges)
    IN  PathIs(graphOf, 1, 22, 1,
               <<Segment(1, 5, 1, "kRun"), Segment(5, 5, 2, "kEpsilon"),
                 Segment(5, 7, 2, "kRun"), Segment(7, 7, 3, "kEpsilon"),
                 Segment(7, 9, 3, "kRun"), Segment(9, 9, 4, "kEpsilon"),
                 Segment(9, 11, 4, "kRun"), Segment(11, 13, 3, "kWaitBlocked"),
                 Segment(13, 14, 3, "kRun"),
                 Segment(14, 16, 2, "kWaitBlocked"),
                 Segment(16, 17, 2, "kRun"),
                 Segment(17, 19, 1, "kWaitBlocked"), Segment(19, 22, 1, "kRun")>>)

(* A wait that nobody is known to have ended stays a wait.                 *)
UnresolvedBlockTest ==
    LET nodes ==
            <<At(1, <<1, 2>>), At(4, <<1, 2>>), At(6, <<1>>), At(7, <<2>>),
              At(8, <<2>>), At(9, <<1, 2>>), At(11, <<1>>), At(13, <<1, 2>>)>>
        edges ==
            Edges("kRun", <<<<1, 3>>, <<3, 5>>, <<10, 11>>, <<4, 6>>, <<7, 9>>,
                            <<9, 12>>>>)
              \o Edges("kWaitBlocked", <<<<5, 8>>, <<8, 10>>, <<2, 4>>, <<6, 7>>>>)
              \o Edges("kVertical", <<<<3, 4>>, <<9, 8>>>>)
        graphOf == GraphOf(nodes, edges)
    IN  PathIs(graphOf, 1, 12, 1,
               <<Segment(1, 6, 1, "kRun"), Segment(6, 6, 2, "kEpsilon"),
                 Segment(6, 7, 2, "kRun"), Segment(7, 8, 2, "kWaitBlocked"),
                 Segment(8, 9, 2, "kRun"), Segment(9, 11, 1, "kWaitBlocked"),
                 Segment(11, 12, 1, "kRun")>>)

(* A thread that begins within the path was woken by a third one.          *)
StairTest ==
    LET nodes ==
            <<At(1, <<1, 3>>), At(3, <<1>>), At(9, <<2, 3>>), At(13, <<1, 2>>),
              At(15, <<1>>), At(17, <<1, 3>>)>>
        edges ==
            Edges("kRun", <<<<1, 3>>, <<8, 9>>, <<4, 7>>, <<2, 5>>, <<5, 10>>>>)
              \o Edges("kWaitBlocked", <<<<3, 6>>, <<6, 8>>>>)
              \o Edges("kVertical", <<<<5, 4>>, <<7, 6>>>>)
        graphOf == GraphOf(nodes, edges)
    IN  PathIs(graphOf, 1, 17, 1,
               <<Segment(1, 3, 1, "kRun"), Segment(3, 3, 2, "kEpsilon"),
                 Segment(3, 9, 3, "kRun"), Segment(9, 13, 2, "kRun"),
                 Segment(13, 15, 1, "kWaitBlocked"), Segment(15, 17, 1, "kRun")>>)

(* A wait for a packet: the packet, its sender, the packet it waited for.  *)
NetworkTest ==
    LET nodes ==
            <<At(1, <<1>>), At(2, <<1, NetworkThread>>),
              At(3, <<NetworkThread, 3>>), At(7, <<NetworkThread, 3>>),
              At(8, <<1, NetworkThread>>), At(10, <<1>>), At(12, <<1>>)>>
        edges ==
            Edges("kRun", <<<<1, 2>>, <<10, 11>>, <<3, 4>>, <<6, 9>>, <<5, 7>>>>)
              \o Edges("kWaitBlocked", <<<<2, 8>>, <<8, 10>>>>)
              \o Edges("kVertical", <<<<2, 3>>, <<4, 5>>, <<7, 6>>, <<9, 8>>>>)
        graphOf == GraphOf(nodes, edges)
    IN  PathIs(graphOf, 1, 12, 1,
               <<Segment(1, 2, 1, "kRun"),
                 Segment(2, 3, NetworkThread, "kRun"),
                 Segment(3, 7, 3, "kRun"),
                 Segment(7, 8, NetworkThread, "kRun"),
                 Segment(8, 10, 1, "kWaitBlocked"), Segment(10, 12, 1, "kRun")>>)

(* The same when the receiver ran on while the packet was on its way.      *)
NetworkAsyncTest ==
    LET nodes ==
            <<At(1, <<1>>), At(2, <<1, NetworkThread>>),
              At(3, <<NetworkThread, 3>>), At(5, <<1>>),
              At(7, <<NetworkThread, 3>>), At(8, <<1, NetworkThread>>),
              At(10, <<1>>), At(12, <<1>>)>>
        edges ==
            Edges("kRun", <<<<1, 2>>, <<2, 6>>, <<11, 12>>, <<3, 4>>,
                            <<7, 10>>, <<5, 8>>>>)
              \o Edges("kWaitBlocked", <<<<6, 9>>, <<9, 11>>>>)
              \o Edges("kVertical", <<<<2, 3>>, <<4, 5>>, <<8, 7>>, <<10, 9>>>>)
        graphOf == GraphOf(nodes, edges)
    IN  PathIs(graphOf, 1, 12, 1,
               <<Segment(1, 5, 1, "kRun"), Segment(5, 7, 3, "kRun"),
                 Segment(7, 8, NetworkThread, "kRun"),
                 Segment(8, 10, 1, "kWaitBlocked"), Segment(10, 12, 1, "kRun")>>)

----------------------------------------------------------------------------
(* The graph of both tests: a thread of which nothing is known from 16 to  *)
(* 18.                                                                     *)
GraphWithHole ==
    GraphOf([i \in 1..6 |-> At(8 + 2 * i, <<1>>)],
            Edges("kRun", <<<<1, 2>>, <<2, 3>>, <<3, 4>>, <<5, 6>>>>))

(* The node whose edge covers a time, or that is the last one there.       *)
GetNodeIntersectingTest ==
    \A expected \in {<<5, NoNode>>, <<10, 1>>, <<11, 1>>, <<12, 2>>,
                       <<13, 2>>, <<14, 3>>, <<15, 3>>, <<16, 4>>,
                       <<17, NoNode>>, <<18, 5>>, <<19, 5>>, <<20, 6>>,
                       <<21, NoNode>>} :
        GetNodeIntersecting(GraphWithHole, expected[1], 1) = expected[2]

(* The first node after a time.                                            *)
GetNodeStartingAfterTest ==
    \A expected \in {<<5, 1>>, <<9, 1>>, <<10, 2>>, <<11, 2>>, <<12, 3>>,
                       <<13, 3>>, <<14, 4>>, <<15, 4>>, <<16, 5>>, <<17, 5>>,
                       <<18, 6>>, <<19, 6>>, <<20, NoNode>>, <<21, NoNode>>} :
        GetNodeStartingAfter(GraphWithHole, expected[1], 1) = expected[2]

ASSUME PathTestsHold ==
    /\ SimplePathTest
    /\ SimpleWithCleanupTest
    /\ MultipleSegmentsTest
    /\ MultipleLevelsTest
    /\ UnresolvedBlockTest
    /\ StairTest
    /\ NetworkTest
    /\ NetworkAsyncTest
    /\ GetNodeIntersectingTest
    /\ GetNodeStartingAfterTest
=============================================================================
