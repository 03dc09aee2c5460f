----------------------------- MODULE UnitTests ------------------------------
(***************************************************************************)
(* The other unit tests of src/, on the model: what they do, and what they *)
(* expect.  TLC evaluates them before the run of MCInterrupts.  What a     *)
(* test expects is a conjunct here.                                        *)
(***************************************************************************)
EXTENDS Integers, Sequences, FiniteSets, SequencesExt, TLC

CONSTANT NULL   \* no node

kManyTs == 2^24   \* no time, duration or counter of the tests comes near it

DB == INSTANCE Database
EX == INSTANCE Executions
IT == INSTANCE IntervalTree
SB == INSTANCE StacksBuilder
         WITH kMinSyscallDuration <- 100000, kMaxRewind <- 3, TsModulus <- kManyTs
SH == INSTANCE StateHistory WITH Unknown <- NULL, ULongModulus <- kManyTs

----------------------------------------------------------------------------
(* src/db/Database_Unittest.cpp.  The store is all that is left when the   *)
(* database is opened again.                                               *)

(* A name keeps the identifier that it got, also when it is added again.   *)
FunctionNameTest ==
    LET first == <<"a", "b", "c", "d">>
        later == <<"e", "hello", "hello world!">>
        db    == FoldLeft(DB!AddFunctionName, DB!EmptyDatabase, first)
        after == FoldLeft(DB!AddFunctionName, db, later \o first)
    IN  \A i \in 1..7 :
            LET name == (first \o later)[i]
            IN  /\ i <= 4 => DB!GetFunctionName(db, DB!FunctionNameId(db, name)) = name
                /\ i <= 4 => DB!FunctionNameId(after, name) = DB!FunctionNameId(db, name)
                /\ DB!GetFunctionName(after, DB!FunctionNameId(after, name)) = name

(* So does a stack.                                                        *)
StackTest ==
    LET first == <<DB!Stack(1, 2), DB!Stack(3, 4), DB!Stack(5, 6), DB!Stack(7, 8)>>
        later == <<DB!Stack(9, 9), DB!Stack(9, 10), DB!Stack(10, 9)>>
        db    == FoldLeft(DB!AddStack, DB!EmptyDatabase, first)
        after == FoldLeft(DB!AddStack, db, later \o first)
    IN  \A i \in 1..7 :
            LET stack == (first \o later)[i]
            IN  /\ i <= 4 => DB!GetStack(db, DB!StackId(db, stack)) = stack
                /\ i <= 4 => DB!StackId(after, stack) = DB!StackId(db, stack)
                /\ DB!GetStack(after, DB!StackId(after, stack)) = stack

(* The executions of a name come by their starts, and as they were.        *)
ExecutionTest ==
    LET E(name, trace, startTs, startThread, endTs, endThread) ==
            [name |-> name, trace |-> trace, startTs |-> startTs, startThread |-> startThread,
             endTs |-> endTs, endThread |-> endThread]
        a == E("myname", "mytrace", 42, 142, 1337, 11337)
        b == E("myname", "myothertrace", 222, 142, 223, 11337)
        c == E("myname", "mytrace", 1, 123, 10, 456)
        d == E("differentname", "mytrace", 1000, 2000, 3000, 4000)
        samplesOf(e) == IF e = d THEN (7 :> 22 @@ 8 :> 33) ELSE << >>
        Add(db, e) ==
            DB!PutExecution(DB!AddFunctionName(DB!AddFunctionName(db, e.name), e.trace),
                            e, samplesOf(e))
        Enumerate(db, name) ==
            LET named == DB!AddFunctionName(db, name)
                found == DB!Enumerated(named, DB!FunctionNameId(named, name), 0)
            IN  [i \in DOMAIN found |->
                    [found[i] EXCEPT !.name  = DB!GetFunctionName(named, @),
                                     !.trace = DB!GetFunctionName(named, @)]]
        Same(found, es) ==
            found = [i \in DOMAIN es |-> es[i] @@ [samples |-> samplesOf(es[i])]]
        withA == Add(DB!EmptyDatabase, a)
        all   == Add(Add(Add(withA, b), c), d)
    IN  /\ Enumerate(DB!EmptyDatabase, "myname") = << >>
        /\ Same(Enumerate(withA, "myname"), <<a>>)
        /\ Same(Enumerate(all, "myname"), <<c, a, b>>)
        /\ Same(Enumerate(all, "differentname"), <<d>>)

----------------------------------------------------------------------------
(* src/execution/ExecutionsBuilder_Unittest.cpp.                           *)

(* An execution that begins and ends.                                      *)
SimpleTest ==
    LET started == EX!StartExecution(EX!SetTimestamp(EX!EmptyBuilder, 10), 1, "a", TRUE)
        ended   == EX!EndExecution(EX!SetTimestamp(started, 20), 1)
    IN  ended.completed = <<[EX!Execution("a", 1, 10) EXCEPT !.endTs = 20]>>

(* One that must end does not end with the builder; the other does.        *)
TerminateTest ==
    LET a == EX!StartExecution(EX!SetTimestamp(EX!EmptyBuilder, 10), 1, "a", TRUE)
        b == EX!StartExecution(EX!SetTimestamp(a, 20), 2, "b", FALSE)
    IN  EX!Terminate(EX!SetTimestamp(b, 30)).completed
            = <<[EX!Execution("b", 2, 20) EXCEPT !.endTs = 30]>>

----------------------------------------------------------------------------
(* src/stacks/StacksBuilder_Unittest.cpp: stacks set on one thread, then   *)
(* the end of the trace, then queries.                                     *)
Id(n) == <<n>>

StacksSet(starts, end) ==
    SB!Terminate(FoldLeft(LAMBDA h, s : SB!SetStack(h, s[1], Id(s[2]), FALSE), << >>, starts),
                 end)

Enumerates(h, start, end, expected) ==
    LET calls == SB!EnumerateStacks(h, start, end)
    IN  /\ Cardinality(DOMAIN calls) = Len(expected)
        /\ \A i \in DOMAIN expected :
              calls[SetToSortSeq(DOMAIN calls, <)[i]]
                  = [stackId |-> Id(expected[i][1]), duration |-> expected[i][2]]

StacksBuilderTest ==
    LET h == StacksSet(<<<<1000, 1>>, <<2000, 2>>, <<3000, 3>>>>, 4000)
    IN  /\ Enumerates(<< >>, 1500, 3500, << >>)
        /\ Enumerates(h, 1500, 3500, <<<<1, 500>>, <<2, 1000>>, <<3, 500>>>>)
        /\ Enumerates(h, 0, 5000, <<<<1, 1000>>, <<2, 1000>>, <<3, 1000>>>>)
        /\ \A ts \in {500, 4000, 4500} : SB!GetStack(h, ts) = SB!kEmptyStackId
        /\ \A n \in 1..3 : \A ts \in {1000 * n, 1000 * n + 500} : SB!GetStack(h, ts) = Id(n)

(* The first stack starts after the start of the query.                    *)
StartEmptyTest ==
    Enumerates(StacksSet(<<<<2000, 2>>, <<3000, 3>>>>, 4000), 1500, 3500,
               <<<<2, 1000>>, <<3, 500>>>>)

(* The last stack ends before the end of the query.                        *)
EndEmptyTest ==
    Enumerates(StacksSet(<<<<1000, 1>>, <<2000, 2>>>>, 3000), 1500, 3500,
               <<<<1, 500>>, <<2, 1000>>>>)

----------------------------------------------------------------------------
(* src/containers/RedBlackIntervalTree_Unittest.cpp; the value of an       *)
(* interval is its thread.                                                 *)
Element(low, high, value) == [low |-> low, high |-> high, tid |-> value]

TreeOf(elements) == FoldLeft(IT!Insert, IT!EmptyTree, elements)

SizeTest ==
    LET elements == <<Element(0, 10, 1), Element(0, 10, 2), Element(15, 25, 3)>>
    IN  \A n \in 0..3 : TreeOf(SubSeq(elements, 1, n)).size = n

(* Of many intervals, the one that was inserted last is found.  The test   *)
(* inserts 100.                                                            *)
ManyElements == 40

InsertManyElementsTest ==
    LET elements == [i \in 1..ManyElements |-> Element(5 * (i - 1), 5 * (i - 1) + 1, 5 * (i - 1))]
    IN  FoldLeft(LAMBDA s, e :
                    LET tree == IT!Insert(s.tree, e)
                    IN  [tree  |-> tree,
                         found |-> s.found
                            /\ IT!EnumerateIntersection(tree, e.low, e.low + 2) = <<e>>],
                 [tree |-> IT!EmptyTree, found |-> TRUE], elements).found

(* The intervals come by their lower bounds, the longest first.            *)
EnumerateIntersectionTest ==
    LET whole == Element(0, 50, 5)
        tree  == TreeOf(<<Element(0, 10, 1), Element(10, 20, 2), Element(20, 30, 3),
                          Element(40, 50, 4), whole>>)
        parts == <<whole, Element(0, 10, 1), Element(10, 20, 2), Element(20, 30, 3),
                   Element(40, 50, 4)>>
    IN  \A expected \in {<<50, 5>>, <<49, 5>>, <<0, 2>>, <<10, 3>>, <<25, 4>>} :
            IT!EnumerateIntersection(tree, 0, expected[1]) = SubSeq(parts, 1, expected[2])

----------------------------------------------------------------------------
(* src/state/StateHistory_Unittest.cpp: changes of an attribute, as        *)
(* <<time, value>>, then queries.                                          *)
HistoryOf(changes) == FoldLeft(LAMBDA h, c : SH!SetValue(h, c[1], c[2]), << >>, changes)

Gets(h, values) == \A v \in values : SH!GetValue(h, v[1]) = v[2]

EnumeratesValues(h, start, end, expected) ==
    LET calls == SH!Enumerated(h, start, end)
    IN  {calls[i] : i \in DOMAIN calls}
            = {[value |-> x[1], start |-> x[2], end |-> x[3]] : x \in expected}

StateHistoryTest ==
    LET one == HistoryOf(<<<<10, 5>>, <<20, 7>>, <<30, 7>>, <<40, 101>>, <<50, 102>>>>)
        two == HistoryOf(<<<<10, 15>>, <<40, 102>>, <<50, 103>>>>)
    IN  /\ Gets(one, {<<5, NULL>>, <<10, 5>>, <<15, 5>>, <<20, 7>>, <<25, 7>>, <<30, 7>>,
                      <<35, 7>>, <<40, 101>>, <<45, 101>>, <<50, 102>>, <<55, 102>>})
        /\ Gets(two, {<<5, NULL>>, <<10, 15>>, <<15, 15>>, <<20, 15>>, <<25, 15>>, <<30, 15>>,
                      <<35, 15>>, <<40, 102>>, <<45, 102>>, <<50, 103>>, <<55, 103>>})
        /\ EnumeratesValues(one, 0, 60, {<<5, 10, 20>>, <<7, 20, 40>>, <<101, 40, 50>>,
                                         <<102, 50, 60>>})
        /\ EnumeratesValues(one, 25, 50, {<<7, 25, 40>>, <<101, 40, 50>>})

(* A cleanup keeps the value that the history had before the time.         *)
CleanTest ==
    LET h     == HistoryOf([i \in 1..5 |-> <<i, i>>])
        after == SH!Cleanup(h, 3)
        last  == SH!Cleanup(after, 4)
    IN  /\ Gets(h, {<<i, i>> : i \in 1..5})
        /\ Gets(after, {<<1, NULL>>} \union {<<i, i>> : i \in 2..5})
        /\ Gets(last, {<<1, NULL>>, <<2, NULL>>} \union {<<i, i>> : i \in 3..5})

(* Counters of a CPU, of a thread, and of both: what they count between    *)
(* two times, whatever values they start again from.                       *)
PerfCountersTest ==
    LET Base(c, ts, v)   == SH!SetPerfCounterCpuBaseValue(c, ts, v)
        Cpu(c, ts, v)    == SH!SetPerfCounterCpuValue(c, ts, v)
        Thread(c, ts, v) == SH!SetPerfCounterThreadValue(c, ts, v)
        new == SH!NewCounter
        one == Cpu(Base(Cpu(Base(new, 10, 1000), 20, 2000), 30, 10000), 40, 11000)
        two == Thread(Thread(Thread(new, 10, 1000), 20, 2200), 30, 3000)
        three == Thread(Cpu(Thread(Base(new, 10, 1000), 20, 500), 30, 2000), 40, 3000)
        Counts(c, from, to) == SH!GetValue(c.history, to) - SH!GetValue(c.history, from)
    IN  /\ Counts(one, 10, 20) = 1000 /\ Counts(one, 10, 40) = 2000
        /\ Counts(two, 10, 20) = 1200 /\ Counts(two, 20, 30) = 800
        /\ Counts(three, 10, 20) = 0 /\ Counts(three, 20, 30) = 1000
        /\ Counts(three, 30, 40) = 1500

----------------------------------------------------------------------------
ASSUME UnitTestsHold ==
    /\ FunctionNameTest /\ StackTest /\ ExecutionTest
    /\ SimpleTest /\ TerminateTest
    /\ StacksBuilderTest /\ StartEmptyTest /\ EndEmptyTest
    /\ SizeTest /\ InsertManyElementsTest /\ EnumerateIntersectionTest
    /\ StateHistoryTest /\ CleanTest /\ PerfCountersTest
=============================================================================
