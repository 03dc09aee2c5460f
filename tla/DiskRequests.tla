---------------------------- MODULE DiskRequests ----------------------------
(***************************************************************************)
(* src/disk/DiskRequests.cpp: the disk requests of the threads, kept in an *)
(* interval tree.  CriticalBlock adds a request when it ends, which may be *)
(* when it began; BuildBlock cleans the tree, by filling a new one with    *)
(* what a search finds from the time on.                                   *)
(***************************************************************************)
EXTENDS IntervalTree, Bags, BagsExt

CONSTANTS
    Threads,
    FirstTs,        \* bound: when the first request may end
    MaxTs,          \* bound: the last timestamp
    MaxRequests     \* bound: the requests that are added

ASSUME DiskTimeAssumption == FirstTs \in 1..MaxTs /\ MaxRequests \in Nat

VARIABLES
    intervals,      \* _intervals
    now,            \* the time of the trace
    horizon,        \* the time of the last cleanup
    added           \* external: every request, in the order in which they came

vars == <<intervals, now, horizon, added>>

kForever == MaxTs + 2   \* the greatest upper bound, later than any timestamp

Init ==
    /\ intervals = EmptyTree
    /\ now = FirstTs
    /\ horizon = 0
    /\ added = << >>

Tick == now < MaxTs /\ now' = now + 1 /\ UNCHANGED <<intervals, horizon, added>>

AddInterval(start, tid) ==
    LET d == [low |-> start, high |-> now, tid |-> tid]
    IN  /\ added' = Append(added, d)
        /\ intervals' = Insert(intervals, d)
        /\ UNCHANGED <<now, horizon>>

(* Only the requests that begin in time are searched.                      *)
MutCleanup(ts) ==
    /\ intervals' = FoldLeft(Insert, EmptyTree,
                             EnumerateIntersection(intervals, ts, now - 1))
    /\ horizon' = ts
    /\ UNCHANGED <<now, added>>

Cleanup(ts) ==
    /\ horizon' = ts
    /\ intervals' = FoldLeft(Insert, EmptyTree,
                             EnumerateIntersection(intervals, ts, kForever))
    /\ UNCHANGED <<now, added>>

GetIntervals(start, end) == EnumerateIntersection(intervals, start, end)

(* A cleanup is about a save that is over (BuildBlock.cpp:112-126).        *)
Next ==
    \/ Tick
    \/ /\ Len(added) < MaxRequests
       /\ \E start \in 1..now, tid \in Threads : AddInterval(start, tid)
    \/ \E ts \in (horizon + 1)..(now - 1) : Cleanup(ts)

Spec == Init /\ [][Next]_vars

----------------------------------------------------------------------------
AllOf(tree) == EnumerateIntersection(tree, -1, kForever)

(* The tree is a left-leaning red-black tree, with the maxima that the     *)
(* search goes by, after every insertion and every cleanup, whatever       *)
(* rotations they took (RedBlackIntervalTree.hpp:239-351, 401-406), and it *)
(* counts its elements.                                                    *)
TreeOK ==
    /\ IsOrdered(intervals.root)
    /\ ~IsRed(intervals.root) /\ IsRedBlack(intervals.root)
    /\ HasMaxima(intervals.root)
    /\ intervals.size = Len(AllOf(intervals))

Count(seq, d) == Cardinality({i \in DOMAIN seq : seq[i] = d})

BagOf(seq) == [d \in ToSet(seq) |-> Count(seq, d)]

(* What the comment in RedBlackIntervalTree.hpp:56-59 promises of the      *)
(* order: by lower bound, then from the longest to the shortest.           *)
InOrder(seq) ==
    \A i, j \in DOMAIN seq : i < j =>
        seq[i].low < seq[j].low \/ (seq[i].low = seq[j].low /\ seq[i].high >= seq[j].high)

(* A search from the last cleanup on finds, in order and each as often as  *)
(* it was added, the requests ever added that go on after its start, and   *)
(* beside them only requests that touch it: the search leaves out no       *)
(* subtree that it should enter, and no cleanup loses a request that is    *)
(* still to be asked for (RedBlackIntervalTree.hpp:269-304; DiskRequests   *)
(* .cpp:63-74).  Which of those that end where the search begins are found *)
(* is left open.                                                           *)
FindsRequests ==
    \A start \in horizon..now : \A end \in start..now :
        LET found == GetIntervals(start, end)
        IN  /\ InOrder(found)
            /\ \A d \in ToSet(found) : /\ Count(found, d) = Count(added, d)
                                      /\ d.low <= end /\ d.high >= start
            /\ \A d \in ToSet(added) :
                  d.low <= end /\ d.high > start => d \in ToSet(found)

Bag == INSTANCE RequestBag WITH requests <- BagOf(AllOf(intervals))

(* The requests implement a bag: whatever the shape of the tree, one more  *)
(* is added as often as it came, and a cleanup takes every request that    *)
(* ended before its time, with all its copies, and none that goes on after *)
(* it (DiskRequests.cpp:63-79).                                            *)
IsRequestBag ==
    /\ Bag!Init
    /\ [][/\ \A ts \in (horizon + 1)..now : Cleanup(ts) => Bag!Clean(ts)
          /\ \A start \in 1..now, tid \in Threads :
                AddInterval(start, tid) => Bag!Add([low |-> start, high |-> now, tid |-> tid])
          /\ Tick => UNCHANGED intervals]_vars

============================================================================
