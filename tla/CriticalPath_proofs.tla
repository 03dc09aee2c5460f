------------------------ MODULE CriticalPath_proofs -------------------------
(***************************************************************************)
(* What ComputeCriticalPath returns on every graph of a build, however     *)
(* many threads, nodes and packets it has and however far the computation  *)
(* goes, unless it is cut off or reads a deleted node.                     *)
(*                                                                         *)
(* The argument follows the recursion.  What a step inserts before it ends *)
(* joins the time it begins at to a time that is the end it was given, or  *)
(* later if the graph knows the thread later only; what the path was made  *)
(* of before stays true when segments are joined and merged.               *)
(***************************************************************************)
EXTENDS CriticalPath, CriticalBuild_proofs

SegmentSet == [start : Nat, end : Nat, tid : Tids \cup {InvalidThread},
               type : EdgeTypes \cup {"endless", "undefined"}]

(* Where a segment ends: the segment of a packet may end later.            *)
Ends(s, t) == s.end = t \/ (s.end > t /\ s.tid = NetworkThread)

(* The segments follow on one another, from s to t.                        *)
Joined(r, s, t) ==
    /\ r = << >> => s = t
    /\ r # << >> => Follows(r[1], s, InvalidThread) /\ Ends(r[Len(r)], t)
    /\ \A i \in 2..Len(r) : Follows(r[i], r[i - 1].end, r[i - 1].tid)

(* The graph says at a time that the thread did this, and does not say who *)
(* ended it if it is a wait; or it says nothing, and this is a wait.       *)
Says(g, tid, type, ts) ==
    \/ \E e \in DOMAIN g.edges :
          /\ ~IsVertical(g, e) /\ To(g, e).tid = tid /\ g.edges[e].type = type
          /\ From(g, e).ts <= ts /\ ts < To(g, e).ts
          /\ IsThreadEdge(g, e) /\ IsWait(g, e) => To(g, e).edge["inVertical"] = NoEdge
    \/ type = "kWaitBlocked" /\ GetNodeIntersecting(g, ts, tid) = NoNode

Honest(g, s) == \A ts \in s.start..(s.end - 1) : Says(g, s.tid, s.type, ts)

Good(g, r, s, t) ==
    /\ r \in Seq(SegmentSet)
    /\ Joined(r, s, t)
    /\ \A i \in 1..Len(r) : Honest(g, r[i])

Unmarked(r) == \A i \in 1..Len(r) : r[i] \notin {Endless, Undefined}

----------------------------------------------------------------------------
LEMMA SegmentTimes ==
    ASSUME NEW x \in SegmentSet
    PROVE  x.start \in Nat /\ x.end \in Nat
BY DEF SegmentSet

LEMMA FollowsAlike ==
    ASSUME NEW x, NEW y, x.start = y.start, x.tid = y.tid, NEW t, NEW i, Follows(x, t, i)
    PROVE  Follows(y, t, i)
BY DEF Follows

LEMMA EndsAlike ==
    ASSUME NEW x, NEW y, x.end = y.end, x.tid = y.tid, NEW t, Ends(x, t)
    PROVE  Ends(y, t)
BY DEF Ends

LEMMA EndsFollows ==
    ASSUME NEW x \in SegmentSet, NEW y \in SegmentSet, NEW t \in Nat,
           Ends(x, t), Follows(y, t, InvalidThread)
    PROVE  Follows(y, x.end, x.tid)
<1>1. NetworkThread # InvalidThread
    BY InvalidThreadAssumption DEF Tids
<1>2. x.end \in Nat /\ y.start \in Nat
    BY SegmentTimes
<1>3. y.start = t \/ (y.start < t /\ NetworkThread = y.tid)
    BY <1>1 DEF Follows
<1>4. x.end = t \/ (x.end > t /\ NetworkThread = x.tid)
    BY DEF Ends
<1>5. y.start = x.end \/ (y.start < x.end /\ (NetworkThread = x.tid \/ NetworkThread = y.tid))
    BY <1>2, <1>3, <1>4
<1> QED BY <1>5 DEF Follows

(* No segment, one segment, and segments after segments.                   *)
LEMMA GoodNone ==
    ASSUME NEW g, NEW s
    PROVE  Good(g, << >>, s, s)
<1>1. << >> \in Seq(SegmentSet) /\ Len(<< >>) = 0
    OBVIOUS
<1> QED BY <1>1 DEF Good, Joined

LEMMA GoodOne ==
    ASSUME NEW g, NEW x \in SegmentSet, NEW s, NEW t,
           Follows(x, s, InvalidThread), Ends(x, t), Honest(g, x)
    PROVE  Good(g, <<x>>, s, t)
<1>1. <<x>> \in Seq(SegmentSet) /\ Len(<<x>>) = 1 /\ <<x>>[1] = x /\ <<x>> # << >>
    OBVIOUS
<1> QED BY <1>1 DEF Good, Joined

LEMMA GoodJoin ==
    ASSUME NEW g, NEW r, NEW q, NEW s \in Nat, NEW t \in Nat, NEW u \in Nat,
           Good(g, r, s, t), Good(g, q, t, u)
    PROVE  Good(g, r \o q, s, u)
<1> DEFINE b == r \o q
<1>1. /\ r \in Seq(SegmentSet) /\ q \in Seq(SegmentSet)
      /\ Len(r) \in Nat /\ Len(q) \in Nat
      /\ b \in Seq(SegmentSet) /\ Len(b) = Len(r) + Len(q)
      /\ \A i \in 1..Len(r) : b[i] = r[i]
      /\ \A i \in 1..Len(q) : b[Len(r) + i] = q[i]
    BY ConcatProperties, LenProperties, SMTT(30) DEF Good
<1>3. CASE r = << >>
    <2>1. b = q /\ s = t
        BY <1>1, <1>3, ConcatEmptySeq DEF Good, Joined
    <2> QED BY <2>1
<1>4. CASE q = << >>
    <2>1. b = r /\ t = u
        BY <1>1, <1>4, ConcatEmptySeq DEF Good, Joined
    <2> QED BY <2>1
<1>5. CASE r # << >> /\ q # << >>
    <2>1. Len(r) >= 1 /\ Len(q) >= 1 /\ Len(b) >= 1 /\ b # << >>
        BY <1>1, <1>5, EmptySeq
    <2>2. /\ Follows(r[1], s, InvalidThread) /\ Ends(r[Len(r)], t)
          /\ Follows(q[1], t, InvalidThread) /\ Ends(q[Len(q)], u)
          /\ \A i \in 2..Len(r) : Follows(r[i], r[i - 1].end, r[i - 1].tid)
          /\ \A i \in 2..Len(q) : Follows(q[i], q[i - 1].end, q[i - 1].tid)
        BY <1>5 DEF Good, Joined
    <2> HIDE DEF b
    <2>3. b[1] = r[1] /\ b[Len(b)] = q[Len(q)]
        BY <1>1, <2>1
    <2> DEFINE n == Len(r)
               k == Len(q)
    <2>a. /\ n \in Nat /\ k \in Nat /\ n >= 1 /\ k >= 1 /\ Len(b) = n + k
          /\ \A i \in 1..n : b[i] = r[i] /\ r[i] \in SegmentSet
          /\ \A i \in 1..k : b[n + i] = q[i] /\ q[i] \in SegmentSet
          /\ \A i \in 2..n : Follows(r[i], r[i - 1].end, r[i - 1].tid)
          /\ \A i \in 2..k : Follows(q[i], q[i - 1].end, q[i - 1].tid)
          /\ Ends(r[n], t)
        BY <1>1, <2>1, <2>2, ElementOfSeq
    <2> HIDE DEF n, k
    <2>4. ASSUME NEW i \in 2..(n + k)
          PROVE  Follows(b[i], b[i - 1].end, b[i - 1].tid)
        <3>1. CASE i <= n
            <4>1. b[i] = r[i] /\ b[i - 1] = r[i - 1] /\ i \in 2..n
                BY <2>a, <3>1
            <4> QED BY <2>a, <4>1
        <3>2. CASE i = n + 1
            <4>1. b[i] = q[1] /\ b[i - 1] = r[n] /\ q[1] \in SegmentSet /\ r[n] \in SegmentSet
                BY <2>a, <3>2
            <4> QED BY <2>2, <2>a, <4>1, EndsFollows
        <3>3. CASE i > n + 1
            <4> DEFINE j == i - n
            <4>1. j \in 2..k /\ i = n + j /\ i - 1 = n + (j - 1) /\ j - 1 \in 1..k
                BY <2>a, <3>3
            <4> HIDE DEF j
            <4>2. b[i] = q[j] /\ b[i - 1] = q[j - 1]
                BY <2>a, <4>1
            <4> QED BY <2>a, <4>1, <4>2
        <3> QED BY <2>a, <3>1, <3>2, <3>3
    <2>b. /\ \A i \in 1..n : Honest(g, r[i])
          /\ \A i \in 1..k : Honest(g, q[i])
        BY DEF Good, n, k
    <2>5. \A i \in 1..(n + k) : Honest(g, b[i])
        <3> TAKE i \in 1..(n + k)
        <3>1. CASE i <= n
            BY <2>a, <2>b, <3>1
        <3>2. CASE i > n
            <4>1. i - n \in 1..k /\ i = n + (i - n)
                BY <2>a, <3>2
            <4>2. b[i] = q[i - n]
                BY <2>a, <4>1
            <4> QED BY <2>b, <4>1, <4>2
        <3> QED BY <2>a, <3>1, <3>2
    <2>6. Len(b) = n + k
        BY <2>a
    <2> QED BY <1>1, <2>1, <2>2, <2>3, <2>4, <2>5, <2>6 DEF Good, Joined, b
<1> QED BY <1>3, <1>4, <1>5

LEMMA UnmarkedParts ==
    ASSUME NEW r \in Seq(SegmentSet), NEW q \in Seq(SegmentSet), Unmarked(r \o q)
    PROVE  Unmarked(r) /\ Unmarked(q)
<1>1. /\ Len(r) \in Nat /\ Len(q) \in Nat /\ Len(r \o q) = Len(r) + Len(q)
      /\ \A i \in 1..Len(r) : (r \o q)[i] = r[i]
      /\ \A i \in 1..Len(q) : (r \o q)[Len(r) + i] = q[i]
    BY ConcatProperties, LenProperties, SMTT(30)
<1>2. /\ \A i \in 1..Len(r) : i \in 1..(Len(r) + Len(q))
      /\ \A i \in 1..Len(q) : Len(r) + i \in 1..(Len(r) + Len(q))
    BY <1>1
<1> QED BY <1>1, <1>2, Zenon DEF Unmarked

(* InsertCriticalPathSegment keeps what the path says.                     *)
LEMMA GoodInsert ==
    ASSUME NEW g, NEW p, NEW x \in SegmentSet, NEW s \in Nat, NEW t \in Nat, NEW u \in Nat,
           Good(g, p, s, t), Good(g, <<x>>, t, u)
    PROVE  Good(g, Insert(p, x), s, u)
<1>1. CASE p # << >> /\ Last(p).tid = x.tid /\ Last(p).type = x.type
    <2> DEFINE n == Len(p)
               b == [p EXCEPT ![n].end = x.end]
    <2>1. /\ p \in Seq(SegmentSet) /\ n \in Nat /\ n >= 1 /\ p[n] \in SegmentSet
          /\ DOMAIN p = 1..n
        BY <1>1, LenProperties, EmptySeq, ElementOfSeq DEF Good
    <2>2. Insert(p, x) = b
        BY <1>1 DEF Insert
    <2>3. [p[n] EXCEPT !.end = x.end] \in SegmentSet
        BY <2>1 DEF SegmentSet
    <2>4. /\ b \in Seq(SegmentSet) /\ Len(b) = n
          /\ \A i \in 1..n : i # n => b[i] = p[i]
          /\ b[n] = [p[n] EXCEPT !.end = x.end]
        <3>1. b = [p EXCEPT ![n] = [p[n] EXCEPT !.end = x.end]]
            BY <2>1
        <3>2. /\ b \in Seq(SegmentSet) /\ Len(b) = Len(p)
              /\ \A i \in 1..Len(p) : b[i] = IF i = n THEN [p[n] EXCEPT !.end = x.end] ELSE p[i]
            <4> DEFINE v == [p[n] EXCEPT !.end = x.end]
            <4>1. n \in 1..Len(p) /\ v \in SegmentSet
                BY <2>1, <2>3
            <4> HIDE DEF v, n, b
            <4>2. /\ [p EXCEPT ![n] = v] \in Seq(SegmentSet)
                  /\ Len([p EXCEPT ![n] = v]) = Len(p)
                  /\ \A j \in 1..Len(p) : [p EXCEPT ![n] = v][j] = IF j = n THEN v ELSE p[j]
                BY <2>1, <4>1, ExceptSeq
            <4> QED BY <3>1, <4>2 DEF v
        <3>3. n = Len(p) /\ n \in 1..n
            BY <2>1
        <3> HIDE DEF b, n
        <3> QED BY <3>2, <3>3
    <2>5. /\ b[n].start = p[n].start /\ b[n].tid = p[n].tid /\ b[n].type = p[n].type
          /\ b[n].end = x.end /\ p[n].tid = x.tid /\ p[n].type = x.type
          /\ \A v \in {p[n], x} : v.start \in Nat /\ v.end \in Nat
        <3>1. p[n].tid = x.tid /\ p[n].type = x.type
            BY <1>1 DEF Last
        <3> HIDE DEF b, n
        <3> QED BY <2>1, <2>4, <3>1, SegmentTimes
    <2>6. /\ Follows(p[1], s, InvalidThread) /\ Ends(p[n], t)
          /\ \A i \in 2..n : Follows(p[i], p[i - 1].end, p[i - 1].tid)
          /\ Follows(x, t, InvalidThread) /\ Ends(x, u) /\ Honest(g, x)
          /\ \A i \in 1..n : Honest(g, p[i])
        <3>1. <<x>>[1] = x /\ Len(<<x>>) = 1 /\ <<x>> # << >>
            OBVIOUS
        <3> QED BY <1>1, <3>1 DEF Good, Joined
    <2> HIDE DEF b, n
    <2>c. /\ n \in Nat /\ n >= 1
          /\ \A i \in 1..n : b[i].start = p[i].start /\ b[i].tid = p[i].tid
          /\ \A i \in 1..n : i # n => b[i] = p[i]
        <3>1. \A i \in 1..n : i # n => b[i] = p[i]
            BY <2>4
        <3>2. \A i \in 1..n : b[i].start = p[i].start /\ b[i].tid = p[i].tid
            BY <2>5, <3>1
        <3> QED BY <2>1, <3>1, <3>2
    <2>7. Follows(b[1], s, InvalidThread) /\ Ends(b[n], u)
        <3>1. b[1].start = p[1].start /\ b[1].tid = p[1].tid
            BY <2>c
        <3>2. b[n].end = x.end /\ b[n].tid = x.tid
            BY <2>5
        <3> QED BY <2>6, <3>1, <3>2, FollowsAlike, EndsAlike
    <2>8. \A i \in 2..n : Follows(b[i], b[i - 1].end, b[i - 1].tid)
        <3> TAKE i \in 2..n
        <3>1. b[i - 1] = p[i - 1] /\ b[i].start = p[i].start /\ b[i].tid = p[i].tid
            <4>1. i \in 1..n /\ i - 1 \in 1..n /\ i - 1 # n
                BY <2>c
            <4> QED BY <2>c, <4>1
        <3>2. Follows(p[i], p[i - 1].end, p[i - 1].tid)
            BY <2>6
        <3> QED BY <3>1, <3>2, FollowsAlike
    <2>9. x.start <= p[n].end
        BY <2>5, <2>6 DEF Follows, Ends
    <2>10. Honest(g, b[n])
        <3> SUFFICES ASSUME NEW ts \in p[n].start..(x.end - 1)
                     PROVE  Says(g, x.tid, x.type, ts)
            BY <2>5 DEF Honest
        <3>1. CASE ts < p[n].end
            <4>1. ts \in p[n].start..(p[n].end - 1)
                BY <2>5, <3>1
            <4>2. n \in 1..n
                BY <2>1
            <4> QED BY <2>5, <2>6, <4>1, <4>2 DEF Honest
        <3>2. CASE ts >= p[n].end
            <4>1. ts \in x.start..(x.end - 1)
                BY <2>5, <2>9, <3>2
            <4> QED BY <2>6, <4>1 DEF Honest
        <3> QED BY <2>5, <3>1, <3>2
    <2>11. \A i \in 1..n : Honest(g, b[i])
        BY <2>4, <2>6, <2>10
    <2>12. b # << >>
        BY <2>1, <2>4
    <2> QED BY <2>2, <2>4, <2>7, <2>8, <2>11, <2>12 DEF Good, Joined
<1>2. CASE ~(p # << >> /\ Last(p).tid = x.tid /\ Last(p).type = x.type)
    <2>1. Insert(p, x) = Append(p, x) /\ p \in Seq(SegmentSet)
        BY <1>2 DEF Insert, Good
    <2>2. Append(p, x) = p \o <<x>>
        BY <2>1, AppendIsConcat
    <2> QED BY <2>1, <2>2, GoodJoin
<1> QED BY <1>1, <1>2

(* The last segment of a good path follows on a good path.                 *)
LEMMA GoodSplit ==
    ASSUME NEW g, NEW q \in Seq(SegmentSet), NEW x \in SegmentSet,
           NEW s \in Nat, NEW t \in Nat, Good(g, Append(q, x), s, t)
    PROVE  \E u \in Nat : Good(g, q, s, u) /\ Good(g, <<x>>, u, t)
<1> DEFINE b == Append(q, x)
           n == Len(q)
<1>1. /\ n \in Nat /\ Len(b) = n + 1 /\ b # << >>
      /\ \A i \in 1..n : b[i] = q[i] /\ q[i] \in SegmentSet
      /\ b[n + 1] = x
    BY AppendProperties, LenProperties, ElementOfSeq, EmptySeq
<1>2. /\ Follows(b[1], s, InvalidThread) /\ Ends(b[Len(b)], t)
      /\ \A i \in 2..Len(b) : Follows(b[i], b[i - 1].end, b[i - 1].tid)
      /\ \A i \in 1..Len(b) : Honest(g, b[i])
    BY <1>1 DEF Good, Joined
<1> HIDE DEF b, n
<1>3. Honest(g, x) /\ Ends(x, t) /\ \A i \in 1..n : Honest(g, q[i])
    BY <1>1, <1>2
<1>4. CASE n = 0
    <2>1. q = << >>
        BY <1>4, EmptySeq DEF n
    <2>2. Follows(x, s, InvalidThread)
        BY <1>1, <1>2, <1>4
    <2> QED BY <1>3, <2>1, <2>2, GoodNone, GoodOne
<1>5. CASE n # 0
    <2> DEFINE y == q[n]
    <2>1. n \in 1..n /\ y \in SegmentSet /\ q # << >> /\ b[n] = y /\ b[1] = q[1]
        BY <1>1, <1>5, EmptySeq DEF n
    <2>2. Follows(x, y.end, y.tid)
        <3>1. n + 1 \in 2..Len(b) /\ (n + 1) - 1 = n
            BY <1>1, <1>5
        <3> QED BY <1>1, <1>2, <2>1, <3>1
    <2>3. \A i \in 2..n : Follows(q[i], q[i - 1].end, q[i - 1].tid)
        <3> TAKE i \in 2..n
        <3>1. i \in 2..Len(b) /\ b[i] = q[i] /\ b[i - 1] = q[i - 1]
            BY <1>1
        <3> QED BY <1>2, <3>1
    <2> HIDE DEF y
    <2>4. y.end \in Nat /\ x.start \in Nat
        BY <2>1, SegmentTimes
    <2>5. ASSUME NEW u \in Nat, Ends(y, u), Follows(x, u, InvalidThread)
          PROVE  Good(g, q, s, u) /\ Good(g, <<x>>, u, t)
        <3>1. Follows(q[1], s, InvalidThread)
            BY <1>2, <2>1
        <3>2. Ends(q[Len(q)], u) /\ \A i \in 2..Len(q) : Follows(q[i], q[i - 1].end, q[i - 1].tid)
            BY <2>3, <2>5 DEF n, y
        <3>3. Joined(q, s, u)
            BY <2>1, <3>1, <3>2 DEF Joined
        <3>4. Good(g, q, s, u)
            BY <1>3, <3>3 DEF Good, n
        <3> QED BY <1>3, <2>5, <3>4, GoodOne
    <2>6. CASE y.tid = NetworkThread
        <3>1. x.start <= y.end
            BY <2>2, <2>4 DEF Follows
        <3>2. Ends(y, x.start) /\ Follows(x, x.start, InvalidThread)
            BY <2>4, <2>6, <3>1 DEF Follows, Ends
        <3> QED BY <2>4, <2>5, <3>2
    <2>7. CASE y.tid # NetworkThread
        <3>1. Ends(y, y.end) /\ Follows(x, y.end, InvalidThread)
            BY <2>2, <2>7 DEF Follows, Ends
        <3> QED BY <2>4, <2>5, <3>1
    <2> QED BY <2>6, <2>7
<1> QED BY <1>4, <1>5

IsInsertFold(f, r) ==
    f = [s \in SUBSET DOMAIN r |-> IF s = {} THEN << >>
                                   ELSE Insert(f[s \ {Max(s)}], r[Max(s)])]

LEMMA InsertType ==
    ASSUME NEW p \in Seq(SegmentSet), NEW x \in SegmentSet
    PROVE  Insert(p, x) \in Seq(SegmentSet)
<1>1. CASE p = << >>
    BY <1>1 DEF Insert
<1>2. CASE p # << >>
    <2> DEFINE n == Len(p)
               v == [p[n] EXCEPT !.end = x.end]
    <2>1. n \in 1..Len(p) /\ p[n] \in SegmentSet /\ DOMAIN p = 1..Len(p)
        BY <1>2, EmptySeq, LenProperties, ElementOfSeq
    <2>2. v \in SegmentSet
        <3> HIDE DEF n
        <3> QED BY <2>1 DEF SegmentSet
    <2> HIDE DEF v, n
    <2>3. [p EXCEPT ![n] = v] \in Seq(SegmentSet)
        BY <2>1, <2>2, ExceptSeq
    <2>4. [p EXCEPT ![n].end = x.end] = [p EXCEPT ![n] = v]
        BY <2>1 DEF v
    <2>5. Insert(p, x) \in {[p EXCEPT ![n] = v], Append(p, x)}
        BY <2>4 DEF Insert, n
    <2> QED BY <2>3, <2>5, AppendProperties
<1> QED BY <1>1, <1>2

(* FoldLeft inserts the segments one after another.                        *)
LEMMA InsertFold ==
    ASSUME NEW r \in Seq(SegmentSet)
    PROVE  \E f : /\ f[1..0] = << >>
                  /\ \A k \in 0..(Len(r) - 1) : f[1..(k + 1)] = Insert(f[1..k], r[k + 1])
                  /\ FoldLeft(Insert, << >>, r) = f[1..Len(r)]
<1> DEFINE n == Len(r)
           V == Seq(SegmentSet)
           h == [i \in 1..n |-> [p \in V |-> Insert(p, r[i])]]
           f == CHOOSE f : IsInsertFold(f, r)
<1>1. n \in Nat /\ DOMAIN r = 1..n /\ \A i \in 1..n : r[i] \in SegmentSet
    BY LenProperties, ElementOfSeq
<1>2. FoldLeft(Insert, << >>, r) = f[DOMAIN r]
    BY DEF FoldLeft, MapThenFoldSet, IsInsertFold
<1>3. \A i \in 1..n : h[i] \in [V -> V]
    BY <1>1, InsertType
<1>4. \E d : IsInsertFold(d, r)
    <2>1. << >> \in V
        OBVIOUS
    <2> HIDE DEF n, h
    <2>2. PICK d \in [SUBSET (1..n) -> V] : IsFold(d, << >>, h, n)
        BY <1>1, <1>3, <2>1, FoldExists
    <2>3. ASSUME NEW s \in SUBSET (1..n), s # {}
          PROVE  h[Max(s)][d[s \ {Max(s)}]] = Insert(d[s \ {Max(s)}], r[Max(s)])
        <3>1. s \in SUBSET (0..n)
            BY <1>1
        <3> DEFINE x == Max(s)
        <3>2. x \in s
            BY <1>1, <2>3, <3>1, MaxBelow
        <3> HIDE DEF x
        <3>3. x \in 1..n /\ d[s \ {x}] \in V
            BY <3>2
        <3> HIDE DEF V
        <3>4. h[x][d[s \ {x}]] = Insert(d[s \ {x}], r[x])
            BY <3>3 DEF h
        <3> QED BY <3>4 DEF x
    <2>4. \A s \in SUBSET (1..n) :
             (IF s = {} THEN << >> ELSE h[Max(s)][d[s \ {Max(s)}]])
           = (IF s = {} THEN << >> ELSE Insert(d[s \ {Max(s)}], r[Max(s)]))
        BY <2>3, Zenon
    <2>5. d = [s \in SUBSET (1..n) |-> IF s = {} THEN << >>
                                       ELSE Insert(d[s \ {Max(s)}], r[Max(s)])]
        BY <2>2, <2>4, Zenon DEF IsFold
    <2> QED BY <1>1, <2>5, Zenon DEF IsInsertFold
<1>5. IsInsertFold(f, r)
    BY <1>4, Zenon
<1> HIDE DEF f, n
<1>6. f[1..0] = << >>
    <2>1. {} \in SUBSET DOMAIN r /\ 1..0 = {}
        OBVIOUS
    <2>2. f[{}] = << >>
        BY <1>5, <2>1 DEF IsInsertFold
    <2> QED BY <2>1, <2>2
<1>7. ASSUME NEW k \in 0..(n - 1) PROVE f[1..(k + 1)] = Insert(f[1..k], r[k + 1])
    <2> DEFINE s == 1..(k + 1)
    <2>1. s \in SUBSET (1..n) /\ s # {} /\ s \ {k + 1} = 1..k /\ k + 1 \in Nat \ {0}
        <3>1. k \in Nat /\ k + 1 <= n /\ k + 1 \in Nat \ {0}
            BY <1>1
        <3>2. \A i \in s : i \in 1..n
            BY <1>1, <3>1
        <3>3. k + 1 \in s
            BY <3>1
        <3>4. \A i : i \in s /\ i # k + 1 <=> i \in 1..k
            BY <3>1
        <3> HIDE DEF s
        <3> QED BY <3>1, <3>2, <3>3, <3>4
    <2>2. Max(s) = k + 1
        BY <2>1, MaxOfFirst
    <2> HIDE DEF s
    <2>3. f[s] = Insert(f[s \ {Max(s)}], r[Max(s)])
        BY <1>1, <1>5, <2>1, Zenon DEF IsInsertFold
    <2> QED BY <2>1, <2>2, <2>3 DEF s
<1> QED BY <1>1, <1>2, <1>6, <1>7 DEF n

(* What is true of the segments is true of the path that is made of them.  *)
LEMMA GoodPath ==
    ASSUME NEW g, NEW r, NEW s \in Nat, NEW t \in Nat, Good(g, r, s, t)
    PROVE  Good(g, FoldLeft(Insert, << >>, r), s, t)
<1> DEFINE n == Len(r)
<1>1. r \in Seq(SegmentSet) /\ n \in Nat /\ \A i \in 1..n : r[i] \in SegmentSet
    BY LenProperties, ElementOfSeq DEF Good
<1>2. PICK f : /\ f[1..0] = << >>
               /\ \A k \in 0..(n - 1) : f[1..(k + 1)] = Insert(f[1..k], r[k + 1])
               /\ FoldLeft(Insert, << >>, r) = f[1..n]
    BY <1>1, InsertFold
<1> DEFINE front(k) == SubSeq(r, 1, k)
           T == {k \in Nat : k <= n =>
                    \A u \in Nat : Good(g, front(k), s, u) => Good(g, f[1..k], s, u)}
<1>3. 0 \in T
    <2>1. front(0) = << >>
        BY <1>1, SubSeqEmpty
    <2> QED BY <1>2, <2>1
<1>4. ASSUME NEW k \in Nat, k \in T PROVE k + 1 \in T
    <2> SUFFICES ASSUME k + 1 <= n, NEW u \in Nat, Good(g, front(k + 1), s, u)
                 PROVE  Good(g, f[1..(k + 1)], s, u)
        OBVIOUS
    <2> HIDE DEF n
    <2>1. front(k) \in Seq(SegmentSet) /\ front(k + 1) = Append(front(k), r[k + 1])
        <3> DEFINE a == front(k)
                   b == front(k + 1)
                   c == Append(a, r[k + 1])
        <3>0. r[k + 1] \in SegmentSet
            BY <1>1
        <3>1. /\ a \in Seq(SegmentSet) /\ Len(a) = k /\ \A i \in 1..k : a[i] = r[i]
              /\ b \in Seq(SegmentSet) /\ Len(b) = k + 1 /\ \A i \in 1..(k + 1) : b[i] = r[i]
            BY <1>1, SubSeqProperties, SMTT(30) DEF n
        <3> HIDE DEF a, b
        <3>2. /\ c \in Seq(SegmentSet) /\ Len(c) = k + 1
              /\ \A i \in 1..k : c[i] = a[i]
              /\ c[k + 1] = r[k + 1]
            BY <3>0, <3>1, AppendProperties
        <3> HIDE DEF c
        <3>3. \A i \in 1..(k + 1) : b[i] = c[i]
            BY <3>1, <3>2
        <3>4. b = c
            BY <3>1, <3>2, <3>3, SeqEqual
        <3> QED BY <3>1, <3>4 DEF a, b, c
    <2> HIDE DEF front
    <2>2. r[k + 1] \in SegmentSet /\ k \in 0..(n - 1) /\ k <= n
        BY <1>1
    <2>3. PICK v \in Nat : Good(g, front(k), s, v) /\ Good(g, <<r[k + 1]>>, v, u)
        BY <2>1, <2>2, GoodSplit
    <2>4. Good(g, f[1..k], s, v)
        BY <1>4, <2>2, <2>3
    <2> QED BY <1>2, <2>2, <2>3, <2>4, GoodInsert
<1>5. n \in T
    <2> HIDE DEF T
    <2> QED BY <1>1, <1>3, <1>4, SetInduction
<1>6. Good(g, front(n), s, t)
    BY <1>1, SubSeqFull
<1> HIDE DEF n, front
<1>7. Good(g, f[1..n], s, t)
    BY <1>1, <1>5, <1>6
<1> QED BY <1>2, <1>7

----------------------------------------------------------------------------
(* The recursion has a solution: what follows from each step is what its   *)
(* operator makes of what follows from the next ones.                      *)

Inserted(g, c, rest) ==
    CASE c.at = "call"     -> ComputeCriticalPathRecursive(g, c, rest)
      [] c.at = "search"   -> Search(g, c, rest)
      [] c.at = "traverse" -> Traverse(g, c, rest)

Round(g, tids, n, before) ==
    [c \in Steps(tids) |-> IF n = 0 THEN << Endless >> ELSE Inserted(g, c, before)]

IsRun(run, g, tids, D) == run = [n \in D |-> Round(g, tids, n, run[n - 1])]

LEMMA RunUpTo ==
    ASSUME NEW g, NEW tids, NEW n \in Nat
    PROVE  \E run : IsRun(run, g, tids, 0..n)
<1> DEFINE S == {m \in Nat : \E run : IsRun(run, g, tids, 0..m)}
<1>1. 0 \in S
    <2> DEFINE f == [i \in 0..0 |-> [c \in Steps(tids) |-> << Endless >>]]
    <2>1. \A i \in 0..0 : Round(g, tids, i, f[i - 1]) = [c \in Steps(tids) |-> << Endless >>]
        BY DEF Round
    <2>2. f = [i \in 0..0 |-> Round(g, tids, i, f[i - 1])]
        BY <2>1, Zenon
    <2> HIDE DEF f
    <2> QED BY <2>2 DEF IsRun
<1>2. ASSUME NEW m \in Nat, m \in S PROVE m + 1 \in S
    <2>1. PICK f : IsRun(f, g, tids, 0..m)
        BY <1>2
    <2> DEFINE h == [i \in 0..(m + 1) |-> IF i <= m THEN f[i]
                                         ELSE Round(g, tids, i, f[i - 1])]
    <2>2. \A i \in 0..m : f[i] = Round(g, tids, i, f[i - 1])
        BY <2>1, Zenon DEF IsRun
    <2>3. \A i \in 0..(m + 1) : h[i] = Round(g, tids, i, h[i - 1])
        <3> TAKE i \in 0..(m + 1)
        <3>1. CASE i = 0
            <4>1. Round(g, tids, i, f[i - 1]) = Round(g, tids, i, h[i - 1])
                BY <3>1 DEF Round
            <4>2. h[i] = f[i]
                BY <3>1
            <4>3. f[i] = Round(g, tids, i, f[i - 1])
                BY <2>2, <3>1
            <4> QED BY <4>1, <4>2, <4>3, Zenon
        <3>2. CASE i # 0
            <4>1. i - 1 \in 0..m /\ h[i - 1] = f[i - 1]
                BY <3>2
            <4>2. h[i] = Round(g, tids, i, f[i - 1])
                BY <2>2
            <4> QED BY <4>1, <4>2, Zenon
        <3> QED BY <3>1, <3>2
    <2>4. h = [i \in 0..(m + 1) |-> Round(g, tids, i, h[i - 1])]
        <3>1. h = [i \in 0..(m + 1) |-> h[i]]
            OBVIOUS
        <3> HIDE DEF h
        <3> QED BY <3>1, <2>3, Zenon
    <2> HIDE DEF h
    <2>5. IsRun(h, g, tids, 0..(m + 1))
        BY <2>4 DEF IsRun
    <2> QED BY <2>5
<1> HIDE DEF S
<1>3. n \in S
    BY <1>1, <1>2, SetInduction
<1> QED BY <1>3 DEF S

LEMMA RunsAgree ==
    ASSUME NEW g, NEW tids, NEW n \in Nat, NEW m \in Nat, NEW f, NEW h,
           IsRun(f, g, tids, 0..n), IsRun(h, g, tids, 0..m)
    PROVE  \A i \in Nat : i <= n /\ i <= m => f[i] = h[i]
<1> DEFINE S == {i \in Nat : i <= n /\ i <= m => f[i] = h[i]}
<1>1. /\ \A i \in 0..n : f[i] = Round(g, tids, i, f[i - 1])
      /\ \A i \in 0..m : h[i] = Round(g, tids, i, h[i - 1])
    BY Zenon DEF IsRun
<1>2. 0 \in S
    <2>1. 0 \in 0..n /\ 0 \in 0..m
        OBVIOUS
    <2>2. Round(g, tids, 0, f[0 - 1]) = Round(g, tids, 0, h[0 - 1])
        BY DEF Round
    <2>3. f[0] = h[0]
        BY <1>1, <2>1, <2>2, Zenon
    <2> QED BY <2>3
<1>3. ASSUME NEW i \in Nat, i \in S PROVE i + 1 \in S
    <2> SUFFICES ASSUME i + 1 <= n, i + 1 <= m PROVE f[i + 1] = h[i + 1]
        OBVIOUS
    <2>1. f[i] = h[i] /\ i + 1 \in 0..n /\ i + 1 \in 0..m /\ (i + 1) - 1 = i
        BY <1>3
    <2>2. /\ f[i + 1] = Round(g, tids, i + 1, f[(i + 1) - 1])
          /\ h[i + 1] = Round(g, tids, i + 1, h[(i + 1) - 1])
        BY <1>1, <2>1, Zenon
    <2> QED BY <2>1, <2>2
<1> HIDE DEF S
<1>4. Nat \subseteq S
    BY <1>2, <1>3, SetInduction
<1> QED BY <1>4 DEF S

LEMMA RunExists ==
    ASSUME NEW g, NEW tids
    PROVE  \E run : IsRun(run, g, tids, Nat)
<1> DEFINE upTo(n) == CHOOSE f : IsRun(f, g, tids, 0..n)
           run == [n \in Nat |-> upTo(n)[n]]
<1>1. \A n \in Nat : IsRun(upTo(n), g, tids, 0..n)
    BY RunUpTo
<1> HIDE DEF upTo
<1>2. ASSUME NEW n \in Nat PROVE run[n] = Round(g, tids, n, run[n - 1])
    <2>1. upTo(n)[n] = Round(g, tids, n, upTo(n)[n - 1])
        <3>1. n \in 0..n
            OBVIOUS
        <3> QED BY <1>1, <3>1, Zenon DEF IsRun
    <2>2. CASE n = 0
        <3>1. Round(g, tids, n, upTo(n)[n - 1]) = Round(g, tids, n, run[n - 1])
            BY <2>2 DEF Round
        <3> QED BY <2>1, <3>1
    <2>3. CASE n # 0
        <3>1. n - 1 \in Nat /\ n - 1 <= n /\ n - 1 <= n - 1
            BY <2>3
        <3>2. upTo(n)[n - 1] = upTo(n - 1)[n - 1]
            BY <1>1, <3>1, RunsAgree
        <3>3. run[n - 1] = upTo(n)[n - 1]
            BY <3>1, <3>2
        <3> HIDE DEF run
        <3>4. run[n] = upTo(n)[n]
            BY DEF run
        <3> QED BY <2>1, <3>3, <3>4
    <2> QED BY <2>2, <2>3
<1>3. run = [n \in Nat |-> run[n]]
    OBVIOUS
<1> HIDE DEF run
<1>4. IsRun(run, g, tids, Nat)
    BY <1>2, <1>3, Zenon DEF IsRun
<1> QED BY <1>4

LEMMA ComputedSteps ==
    ASSUME NEW g, NEW tids
    PROVE  /\ Computed(g, tids)[0] = [c \in Steps(tids) |-> << Endless >>]
           /\ \A n \in Nat : Computed(g, tids)[n + 1]
                  = [c \in Steps(tids) |-> Inserted(g, c, Computed(g, tids)[n])]
<1> DEFINE run == CHOOSE run : IsRun(run, g, tids, Nat)
<1>1. Computed(g, tids) = run
    BY Zenon DEF Computed, IsRun, Round, Inserted
<1>2. IsRun(run, g, tids, Nat)
    BY RunExists, Zenon
<1> HIDE DEF run
<1>3. \A n \in Nat : run[n] = Round(g, tids, n, run[n - 1])
    BY <1>2, Zenon DEF IsRun
<1>4. run[0] = [c \in Steps(tids) |-> << Endless >>]
    <2>1. run[0] = Round(g, tids, 0, run[0 - 1])
        BY <1>3
    <2> QED BY <2>1 DEF Round
<1>5. ASSUME NEW n \in Nat
      PROVE  run[n + 1] = [c \in Steps(tids) |-> Inserted(g, c, run[n])]
    <2>1. n + 1 \in Nat /\ (n + 1) - 1 = n /\ n + 1 # 0
        OBVIOUS
    <2>2. run[n + 1] = Round(g, tids, n + 1, run[(n + 1) - 1])
        BY <1>3, <2>1
    <2>3. Round(g, tids, n + 1, run[n]) = [c \in Steps(tids) |-> Inserted(g, c, run[n])]
        BY <2>1 DEF Round
    <2> QED BY <2>1, <2>2, <2>3
<1> QED BY <1>1, <1>4, <1>5

----------------------------------------------------------------------------
(* What the computation reads of a sound graph.                            *)

UnbrokenIn(g) ==
    \A n \in DOMAIN g.nodes :
        g.nodes[n].tid \in Threads /\ Out(g, n) = NoEdge => n = LastNode(g, g.nodes[n].tid)

PacketsKnownIn(g, base) ==
    \A e \in DOMAIN g.edges :
        IsVertical(g, e) /\ From(g, e).tid = NetworkThread =>
            /\ From(g, e).edge["inHorizontal"] # NoEdge
            /\ GetNodeIntersecting(g, base, To(g, e).tid) # NoNode

LEMMA GraphNodes ==
    ASSUME NEW g, GraphSound(g)
    PROVE  /\ DOMAIN g.nodes \subseteq 1..(g.nextNode - 1) /\ g.nextNode \in Nat
           /\ \A n \in DOMAIN g.nodes : /\ n \in Nat \ {NoNode} /\ g.nodes[n].ts \in Nat
                                         /\ g.nodes[n].tid \in Tids
           /\ \A m, n \in DOMAIN g.nodes : m < n => g.nodes[m].ts <= g.nodes[n].ts
           /\ \A e \in DOMAIN g.edges : g.edges[e].type \in EdgeTypes
           /\ NoEdge \notin DOMAIN g.edges
BY DEF GraphSound, IsGraph, HistoryOrderedIn, NodeRecord, EdgeRecord, NoNode, NoEdge

(* GetNodeIntersecting: the last node up to the time, if it or its edge    *)
(* reaches the time.                                                       *)
LEMMA Intersecting ==
    ASSUME NEW g, GraphSound(g), NEW ts \in Nat, NEW tid, NEW n,
           n = GetNodeIntersecting(g, ts, tid)
    PROVE  \/ /\ n = NoNode
              /\ \A m \in NodesOf(g, tid) : g.nodes[m].ts > ts
           \/ \E last \in NodesOf(g, tid) :
                 /\ g.nodes[last].ts <= ts
                 /\ \A m \in NodesOf(g, tid) : g.nodes[m].ts <= ts => m <= last
                 /\ LET covers == IF Out(g, last) = NoEdge THEN g.nodes[last].ts = ts
                                  ELSE g.nodes[g.edges[Out(g, last)].to].ts >= ts
                    IN  n = IF covers THEN last ELSE NoNode
<1> DEFINE upTo == NodesUpTo(g, ts, tid)
<1>1. upTo = {m \in NodesOf(g, tid) : g.nodes[m].ts <= ts} /\ upTo \subseteq DOMAIN g.nodes
    BY GraphNodes DEF NodesUpTo, NodesAfter, NodesOf
<1>2. CASE upTo = {}
    <2>1. n = NoNode
        BY <1>2 DEF GetNodeIntersecting
    <2>2. \A m \in NodesOf(g, tid) : g.nodes[m].ts > ts
        <3>1. \A m \in NodesOf(g, tid) : g.nodes[m].ts \in Nat
            BY GraphNodes DEF NodesOf
        <3> HIDE DEF upTo
        <3> QED BY <1>1, <1>2, <3>1
    <2> QED BY <2>1, <2>2
<1>3. CASE upTo # {}
    <2> DEFINE last == Max(upTo)
    <2>1. last \in upTo /\ \A m \in upTo : m <= last
        <3>1. g.nextNode - 1 \in Nat /\ upTo \in SUBSET (0..(g.nextNode - 1))
            BY <1>1, <1>3, GraphNodes
        <3> HIDE DEF upTo
        <3> QED BY <1>3, <3>1, MaxBelow
    <2>2. LET covers == IF Out(g, last) = NoEdge THEN g.nodes[last].ts = ts
                                  ELSE g.nodes[g.edges[Out(g, last)].to].ts >= ts
          IN  n = IF covers THEN last ELSE NoNode
        BY <1>3, Zenon DEF GetNodeIntersecting, Out
    <2> HIDE DEF last, upTo
    <2>3. last \in NodesOf(g, tid) /\ g.nodes[last].ts <= ts
          /\ \A m \in NodesOf(g, tid) : g.nodes[m].ts <= ts => m <= last
        BY <1>1, <2>1
    <2> QED BY <2>2, <2>3
<1> QED BY <1>2, <1>3

(* GetNodeStartingAfter: the first node after the time.                    *)
LEMMA StartingAfter ==
    ASSUME NEW g, GraphSound(g), NEW ts \in Nat, NEW tid, NEW n,
           n = GetNodeStartingAfter(g, ts, tid)
    PROVE  \/ n = NoNode /\ \A m \in NodesOf(g, tid) : g.nodes[m].ts <= ts
           \/ /\ n # NoNode /\ n \in NodesOf(g, tid) /\ g.nodes[n].ts > ts
              /\ \A m \in NodesOf(g, tid) : g.nodes[m].ts > ts => n <= m
<1> DEFINE late == NodesAfter(g, ts, tid)
<1>1. /\ late = {m \in NodesOf(g, tid) : g.nodes[m].ts > ts} /\ late \subseteq DOMAIN g.nodes
      /\ \A m \in NodesOf(g, tid) : g.nodes[m].ts \in Nat /\ m \in Nat \ {NoNode}
    BY GraphNodes DEF NodesAfter, NodesOf
<1>2. CASE late = {}
    <2>1. n = NoNode
        BY <1>2 DEF GetNodeStartingAfter
    <2> HIDE DEF late
    <2> QED BY <1>1, <1>2, <2>1
<1>3. CASE late # {}
    <2>1. n = Min(late)
        BY <1>3 DEF GetNodeStartingAfter
    <2>2. late \in SUBSET Nat
        BY <1>1
    <2> HIDE DEF late
    <2>3. n \in late /\ \A m \in late : n <= m
        BY <1>3, <2>1, <2>2, MinOfNat
    <2> QED BY <1>1, <2>3
<1> QED BY <1>2, <1>3

(* The edge that leaves a node of a thread leads to its next node.         *)
LEMMA OutEdge ==
    ASSUME NEW g, GraphSound(g), NEW tid \in Threads, NEW n \in NodesOf(g, tid),
           Out(g, n) # NoEdge
    PROVE  LET e  == Out(g, n)
               to == g.edges[e].to
           IN  /\ e \in DOMAIN g.edges /\ IsThreadEdge(g, e) /\ ~IsVertical(g, e)
               /\ g.edges[e].from = n /\ From(g, e) = g.nodes[n] /\ To(g, e) = g.nodes[to]
               /\ to \in NodesOf(g, tid) /\ n < to
               /\ g.nodes[n].ts <= g.nodes[to].ts
               /\ \A m \in NodesOf(g, tid) : m <= n \/ m >= to
<1> DEFINE e  == Out(g, n)
           to == g.edges[e].to
<1>1. n \in DOMAIN g.nodes /\ g.nodes[n].tid = tid /\ tid # NetworkThread
    BY NetworkThreadAssumption DEF NodesOf
<1>2. /\ e \in DOMAIN g.edges /\ "outHorizontal" \in {OutSlot(g, e), InSlot(g, e)}
      /\ Holder(g.edges[e], "outHorizontal") = n
    BY <1>1 DEF GraphSound, SlotsResolveIn, Out, Positions
<1>3. ~IsVertical(g, e) /\ g.edges[e].from = n
    BY <1>2 DEF OutSlot, InSlot, Holder
<1>4. From(g, e) = g.nodes[n] /\ To(g, e) = g.nodes[to]
    BY <1>3 DEF From, To
<1>5. n < to /\ to \in DOMAIN g.nodes
    BY <1>2, <1>3 DEF GraphSound, EdgesAnchoredIn
<1>6. IsThreadEdge(g, e)
    <2> SUFFICES ASSUME To(g, e).tid = NetworkThread PROVE FALSE
        BY <1>3 DEF IsThreadEdge
    <2>1. IsPacketNode(g, n)
        BY <1>1, <1>2, <1>3 DEF GraphSound, HopHasSenderIn, IsHop, Anchored
    <2> QED BY <1>1, <2>1 DEF IsPacketNode
<1>7. g.nodes[to].tid = tid /\ \A m \in NodesOf(g, tid) : m <= n \/ m >= to
    BY <1>1, <1>2, <1>3, <1>4, <1>6 DEF GraphSound, ThreadEdgesAdjacentIn
<1>8. g.nodes[n].ts <= g.nodes[to].ts
    BY <1>1, <1>5, GraphNodes
<1> QED BY <1>2, <1>3, <1>4, <1>5, <1>6, <1>7, <1>8 DEF NodesOf

(* The wake-up of a node comes from a node at the same time.               *)
LEMMA WakeEdge ==
    ASSUME NEW g, GraphSound(g), NEW n \in DOMAIN g.nodes,
           g.nodes[n].edge["inVertical"] # NoEdge
    PROVE  LET e    == g.nodes[n].edge["inVertical"]
               from == g.edges[e].from
           IN  /\ e \in DOMAIN g.edges /\ IsVertical(g, e)
               /\ From(g, e) = g.nodes[from] /\ To(g, e) = g.nodes[n]
               /\ from \in DOMAIN g.nodes /\ g.nodes[from].ts = g.nodes[n].ts
<1> DEFINE e    == g.nodes[n].edge["inVertical"]
           from == g.edges[e].from
<1>1. /\ e \in DOMAIN g.edges /\ "inVertical" \in {OutSlot(g, e), InSlot(g, e)}
      /\ Holder(g.edges[e], "inVertical") = n
    BY DEF GraphSound, SlotsResolveIn, Positions
<1>2. IsVertical(g, e) /\ g.edges[e].to = n
    BY <1>1 DEF OutSlot, InSlot, Holder
<1>3. from \in DOMAIN g.nodes
    BY <1>1, <1>2 DEF GraphSound, EdgesAnchoredIn, IsHop, Anchored
<1>4. From(g, e).ts = To(g, e).ts
    BY <1>1, <1>2 DEF GraphSound, VerticalSimultaneousIn
<1> QED BY <1>1, <1>2, <1>3, <1>4 DEF From, To

LEMMA WakeTime ==
    ASSUME NEW g, GraphSound(g), NEW n \in DOMAIN g.nodes,
           g.nodes[n].edge["inVertical"] # NoEdge
    PROVE  g.nodes[g.edges[g.nodes[n].edge["inVertical"]].from].ts = g.nodes[n].ts
BY WakeEdge

(* A packet that arrived comes from one that a thread sent, unless that    *)
(* node is deleted.                                                        *)
LEMMA Hop ==
    ASSUME NEW g, GraphSound(g), NEW n \in DOMAIN g.nodes, g.nodes[n].tid = NetworkThread,
           g.nodes[n].edge["inHorizontal"] # NoEdge,
           g.edges[g.nodes[n].edge["inHorizontal"]].from \in DOMAIN g.nodes
    PROVE  LET e    == g.nodes[n].edge["inHorizontal"]
               sent == g.edges[e].from
               d    == g.nodes[sent].edge["inVertical"]
           IN  /\ e \in DOMAIN g.edges /\ ~IsVertical(g, e)
               /\ From(g, e) = g.nodes[sent] /\ To(g, e) = g.nodes[n]
               /\ ~IsThreadEdge(g, e)
               /\ g.nodes[sent].tid = NetworkThread /\ g.nodes[sent].ts <= g.nodes[n].ts
               /\ d # NoEdge /\ g.edges[d].from \in DOMAIN g.nodes
               /\ g.nodes[g.edges[d].from].tid \in Threads
               /\ g.nodes[g.edges[d].from].ts = g.nodes[sent].ts
<1> DEFINE e    == g.nodes[n].edge["inHorizontal"]
           sent == g.edges[e].from
           d    == g.nodes[sent].edge["inVertical"]
<1>1. /\ e \in DOMAIN g.edges /\ "inHorizontal" \in {OutSlot(g, e), InSlot(g, e)}
      /\ Holder(g.edges[e], "inHorizontal") = n
    BY DEF GraphSound, SlotsResolveIn, Positions
<1>2. ~IsVertical(g, e) /\ g.edges[e].to = n
    BY <1>1 DEF OutSlot, InSlot, Holder
<1>3. IsHop(g, e) /\ Anchored(g, e) /\ ~IsThreadEdge(g, e)
    BY <1>2 DEF IsHop, Anchored, To, IsThreadEdge
<1>4. IsPacketNode(g, sent)
    BY <1>1, <1>3 DEF GraphSound, HopHasSenderIn
<1>5. g.nodes[sent].tid = NetworkThread /\ d # NoEdge /\ From(g, d).tid \in Threads
    BY <1>4 DEF IsPacketNode
<1>6. /\ From(g, d) = g.nodes[g.edges[d].from] /\ g.edges[d].from \in DOMAIN g.nodes
      /\ g.nodes[g.edges[d].from].ts = g.nodes[sent].ts
    <2>1. g.edges[d].from \in DOMAIN g.nodes
        BY <1>5, WakeEdge
    <2>2. g.nodes[g.edges[d].from].ts = g.nodes[sent].ts
        BY <1>5, WakeTime
    <2>3. From(g, d) = g.nodes[g.edges[d].from]
        BY DEF From
    <2> QED BY <2>1, <2>2, <2>3
<1>7. sent < n
    BY <1>1, <1>2 DEF GraphSound, EdgesAnchoredIn
<1>8. g.nodes[sent].ts <= g.nodes[n].ts
    BY <1>7, GraphNodes
<1> QED BY <1>1, <1>2, <1>3, <1>5, <1>6, <1>8 DEF From, To

(* A thread that has a node up to a time and one from then on is known.    *)
LEMMA KnownBetween ==
    ASSUME NEW g, GraphSound(g), UnbrokenIn(g), NEW tid \in Threads, NEW ts \in Nat,
           NEW m \in NodesOf(g, tid), g.nodes[m].ts <= ts,
           NEW n \in NodesOf(g, tid), g.nodes[n].ts >= ts
    PROVE  GetNodeIntersecting(g, ts, tid) # NoNode
<1> DEFINE known == GetNodeIntersecting(g, ts, tid)
<1>1. /\ \A k \in NodesOf(g, tid) : k \in Nat \ {NoNode} /\ g.nodes[k].ts \in Nat
      /\ \A k \in NodesOf(g, tid) : k \in DOMAIN g.nodes /\ g.nodes[k].tid = tid
    BY GraphNodes DEF NodesOf
<1>2. PICK last \in NodesOf(g, tid) :
         /\ g.nodes[last].ts <= ts
         /\ \A k \in NodesOf(g, tid) : g.nodes[k].ts <= ts => k <= last
         /\ LET covers == IF Out(g, last) = NoEdge THEN g.nodes[last].ts = ts
                          ELSE g.nodes[g.edges[Out(g, last)].to].ts >= ts
            IN  known = IF covers THEN last ELSE NoNode
    <2>1. ~(\A k \in NodesOf(g, tid) : g.nodes[k].ts > ts)
        BY <1>1
    <2> QED BY <2>1, Intersecting
<1> HIDE DEF known
<1>3. CASE Out(g, last) = NoEdge
    <2>1. last = LastNode(g, tid)
        BY <1>1, <1>3 DEF UnbrokenIn
    <2>2. n <= last
        BY <2>1, LastNodeNewest DEF GraphSound
    <2>3. g.nodes[n].ts <= g.nodes[last].ts
        BY <1>1, <2>2, GraphNodes
    <2>4. g.nodes[last].ts = ts
        BY <1>1, <1>2, <2>3
    <2> QED BY <1>1, <1>2, <1>3, <2>4 DEF known
<1>4. CASE Out(g, last) # NoEdge
    <2> DEFINE to == g.edges[Out(g, last)].to
    <2>1. to \in NodesOf(g, tid) /\ last < to
        BY <1>4, OutEdge
    <2> HIDE DEF to
    <2>2. ~(g.nodes[to].ts <= ts)
        BY <1>1, <1>2, <2>1
    <2>3. g.nodes[to].ts >= ts
        BY <1>1, <2>1, <2>2
    <2> QED BY <1>1, <1>2, <1>4, <2>3 DEF known, to
<1> QED BY <1>3, <1>4

(* A thread that is not known at a time, and has no node until a later     *)
(* one, is not known then.                                                 *)
LEMMA StaysUnknown ==
    ASSUME NEW g, GraphSound(g), NEW tid, NEW ts \in Nat, NEW later \in Nat, ts <= later,
           GetNodeIntersecting(g, ts, tid) = NoNode,
           \A m \in NodesOf(g, tid) : g.nodes[m].ts <= ts \/ g.nodes[m].ts > later
    PROVE  GetNodeIntersecting(g, later, tid) = NoNode
<1> DEFINE known == GetNodeIntersecting(g, later, tid)
<1>1. /\ \A k \in NodesOf(g, tid) : k \in Nat \ {NoNode} /\ g.nodes[k].ts \in Nat
      /\ \A k \in NodesOf(g, tid) : k \in DOMAIN g.nodes /\ g.nodes[k].tid = tid
    BY GraphNodes DEF NodesOf
<1> SUFFICES ASSUME known # NoNode PROVE FALSE
    OBVIOUS
<1>2. PICK last \in NodesOf(g, tid) :
         /\ g.nodes[last].ts <= later
         /\ \A k \in NodesOf(g, tid) : g.nodes[k].ts <= later => k <= last
         /\ IF Out(g, last) = NoEdge THEN g.nodes[last].ts = later
            ELSE g.nodes[g.edges[Out(g, last)].to].ts >= later
    <2>1. PICK last \in NodesOf(g, tid) :
            /\ g.nodes[last].ts <= later
            /\ \A k \in NodesOf(g, tid) : g.nodes[k].ts <= later => k <= last
            /\ LET covers == IF Out(g, last) = NoEdge THEN g.nodes[last].ts = later
                             ELSE g.nodes[g.edges[Out(g, last)].to].ts >= later
               IN  known = IF covers THEN last ELSE NoNode
        BY Intersecting
    <2> HIDE DEF known
    <2> QED BY <2>1
<1>3. g.nodes[last].ts <= ts
    BY <1>1, <1>2
<1>4. PICK first \in NodesOf(g, tid) :
         /\ g.nodes[first].ts <= ts
         /\ \A k \in NodesOf(g, tid) : g.nodes[k].ts <= ts => k <= first
         /\ ~(IF Out(g, first) = NoEdge THEN g.nodes[first].ts = ts
              ELSE g.nodes[g.edges[Out(g, first)].to].ts >= ts)
    <2> DEFINE now == GetNodeIntersecting(g, ts, tid)
    <2>1. PICK first \in NodesOf(g, tid) :
            /\ g.nodes[first].ts <= ts
            /\ \A k \in NodesOf(g, tid) : g.nodes[k].ts <= ts => k <= first
            /\ LET covers == IF Out(g, first) = NoEdge THEN g.nodes[first].ts = ts
                             ELSE g.nodes[g.edges[Out(g, first)].to].ts >= ts
               IN  now = IF covers THEN first ELSE NoNode
        <3>1. ~(\A k \in NodesOf(g, tid) : g.nodes[k].ts > ts)
            BY <1>1, <1>3
        <3> QED BY <3>1, Intersecting
    <2>2. now = NoNode /\ first # NoNode
        BY <1>1, <2>1
    <2> HIDE DEF now
    <2> QED BY <2>1, <2>2
<1>5. first = last
    <2>1. first <= last /\ last <= first
        BY <1>1, <1>2, <1>3, <1>4
    <2> QED BY <1>1, <2>1
<1>6. CASE Out(g, last) = NoEdge
    BY <1>1, <1>2, <1>3, <1>4, <1>5, <1>6
<1>7. CASE Out(g, last) # NoEdge
    <2> DEFINE t == g.nodes[g.edges[Out(g, last)].to].ts
    <2>1. t >= later /\ ~(t >= ts)
        BY <1>2, <1>4, <1>5, <1>7
    <2>2. t \in Nat
        <3> DEFINE e == Out(g, last)
        <3>1. e \in DOMAIN g.edges
            BY <1>1, <1>7 DEF Out, GraphSound, SlotsResolveIn, Positions
        <3>2. g.edges[e].to \in DOMAIN g.nodes
            BY <3>1 DEF GraphSound, EdgesAnchoredIn
        <3> QED BY <3>2, GraphNodes
    <2> HIDE DEF t
    <2> QED BY <2>1, <2>2
<1> QED BY <1>6, <1>7

----------------------------------------------------------------------------
(* The recursion.                                                          *)

(* What is inserted reaches from p to the end, or further if the graph     *)
(* knows the thread only later, or less far if it does not know it then.   *)
Reaches(g, tid, r, p, end) ==
    \E t \in Nat :
        /\ Good(g, r, p, t)
        /\ p = end => t = end
        /\ \A m \in NodesOf(g, tid) : /\ g.nodes[m].ts = end => t = end
                                      /\ g.nodes[m].ts >= end => t >= end

(* The steps that a computation from base on comes to.                     *)
Wanted(g, base, c) ==
    /\ c.tid \in Threads /\ base <= c.start
    /\ c.at = "search" =>
          /\ c.start < c.end /\ GetNodeIntersecting(g, c.start, c.tid) = NoNode
          /\ c.node # NoNode => c.node \in NodesOf(g, c.tid) /\ g.nodes[c.node].ts > c.start
    /\ c.at = "traverse" =>
          /\ c.start <= c.end
          /\ c.node # NoNode =>
                /\ c.node \in NodesOf(g, c.tid)
                /\ \/ g.nodes[c.node].ts >= c.start
                   \/ /\ Out(g, c.node) # NoEdge
                      /\ g.nodes[g.edges[Out(g, c.node)].to].ts >= c.start

(* What follows from a step is right.                                      *)
Right(g, c, r) ==
    /\ r \in Seq(SegmentSet)
    /\ Unmarked(r) =>
          /\ c.at = "call" => IF c.end <= c.start THEN r = << >>
                              ELSE Reaches(g, c.tid, r, c.start, c.end)
          /\ c.at = "search" => Reaches(g, c.tid, r, c.start, c.end)
          /\ c.at = "traverse" =>
                IF c.node = NoNode \/ g.nodes[c.node].ts > c.end THEN r = << >>
                ELSE Reaches(g, c.tid, r, EdgeStart(c.start, g.nodes[c.node].ts), c.end)

AllRight(g, base, tids, rest) ==
    \A c \in Steps(tids) : Wanted(g, base, c) => Right(g, c, rest[c])

Computes(g, base, tids) ==
    /\ GraphSound(g) /\ UnbrokenIn(g) /\ PacketsKnownIn(g, base) /\ base \in Nat
    /\ \A n \in DOMAIN g.nodes : g.nodes[n].tid \in tids

LEMMA MakeSegment ==
    ASSUME NEW start \in Nat, NEW end \in Nat, NEW tid \in Tids, NEW type \in EdgeTypes
    PROVE  /\ Segment(start, end, tid, type) \in SegmentSet
           /\ Segment(start, end, tid, type).start = start
           /\ Segment(start, end, tid, type).end = end
           /\ Segment(start, end, tid, type).tid = tid
           /\ Segment(start, end, tid, type).type = type
BY DEF Segment, SegmentSet

LEMMA MarkTypes ==
    << Undefined >> \in Seq(SegmentSet) /\ ~Unmarked(<< Undefined >>)
    /\ << Endless >> \in Seq(SegmentSet) /\ ~Unmarked(<< Endless >>)
<1>1. Undefined \in SegmentSet /\ Endless \in SegmentSet
    BY DEF Undefined, Endless, Segment, SegmentSet
<1>2. /\ << Undefined >> \in Seq(SegmentSet) /\ Len(<< Undefined >>) = 1
      /\ << Undefined >>[1] = Undefined
      /\ << Endless >> \in Seq(SegmentSet) /\ Len(<< Endless >>) = 1
      /\ << Endless >>[1] = Endless
    BY <1>1
<1>3. 1 \in 1..1
    OBVIOUS
<1> QED BY <1>2, <1>3 DEF Unmarked

LEMMA CallStep ==
    ASSUME NEW tids, NEW start \in Nat, NEW end \in Nat, NEW tid \in tids
    PROVE  LET c == Call(start, end, tid)
           IN  /\ c \in Steps(tids) /\ c.at = "call"
               /\ c.start = start /\ c.end = end /\ c.tid = tid
BY DEF Call, Step, Steps, NoNode

(* A call is right: an empty one inserts nothing, ...                      *)
LEMMA CallIsRight ==
    ASSUME NEW g, NEW base \in Nat, NEW tids, NEW rest, AllRight(g, base, tids, rest),
           NEW start \in Nat, NEW end \in Nat, NEW tid \in tids, tid \in Threads, base <= start
    PROVE  LET r == rest[Call(start, end, tid)]
           IN  /\ r \in Seq(SegmentSet)
               /\ Unmarked(r) => IF end <= start THEN r = << >>
                                 ELSE Reaches(g, tid, r, start, end)
<1> DEFINE c == Call(start, end, tid)
<1>1. c \in Steps(tids) /\ c.at = "call" /\ c.start = start /\ c.end = end /\ c.tid = tid
    BY CallStep
<1> HIDE DEF c
<1>2. Wanted(g, base, c)
    BY <1>1 DEF Wanted
<1>3. Right(g, c, rest[c])
    BY <1>1, <1>2 DEF AllRight
<1> QED BY <1>1, <1>3 DEF Right, c

(* The wait for a packet is replaced by what its sender did until it left  *)
(* and by the packet, ...                                                  *)
LEMMA PacketPart ==
    ASSUME NEW g, NEW r1 \in Seq(SegmentSet), NEW x \in SegmentSet,
           NEW start \in Nat, NEW end \in Nat, NEW depart \in Nat,
           x.start = depart, end <= x.end, x.tid = NetworkThread, Honest(g, x),
           Unmarked(r1) => IF depart <= start THEN r1 = << >>
                           ELSE Good(g, r1, start, depart)
    PROVE  /\ r1 \o <<x>> \in Seq(SegmentSet)
           /\ Unmarked(r1 \o <<x>>) => Good(g, r1 \o <<x>>, start, end)
<1>1. <<x>> \in Seq(SegmentSet)
    OBVIOUS
<1>2. r1 \o <<x>> \in Seq(SegmentSet)
    BY <1>1, ConcatProperties
<1>3. Ends(x, end)
    <2>1. x.end = end \/ x.end > end
        BY SegmentTimes
    <2> QED BY <2>1 DEF Ends
<1>4. ASSUME Unmarked(r1 \o <<x>>) PROVE Good(g, r1 \o <<x>>, start, end)
    <2>1. Unmarked(r1)
        BY <1>1, <1>4, UnmarkedParts
    <2>2. CASE depart <= start
        <3>1. Good(g, r1, start, start)
            <4>1. r1 = << >>
                BY <2>1, <2>2
            <4> QED BY <4>1, GoodNone
        <3>2. Follows(x, start, InvalidThread)
            <4>1. x.start = start \/ x.start < start
                BY <2>2
            <4> QED BY <4>1 DEF Follows
        <3>3. Good(g, <<x>>, start, end)
            BY <1>3, <3>2, GoodOne
        <3> QED BY <3>1, <3>3, GoodJoin
    <2>3. CASE ~(depart <= start)
        <3>1. Good(g, r1, start, depart)
            BY <2>1, <2>3
        <3>2. Follows(x, depart, InvalidThread)
            BY DEF Follows
        <3>3. Good(g, <<x>>, depart, end)
            BY <1>3, <3>2, GoodOne
        <3> QED BY <3>1, <3>3, GoodJoin
    <2> QED BY <2>2, <2>3
<1> QED BY <1>2, <1>4

LEMMA PacketResolved ==
    ASSUME NEW g, NEW base \in Nat, NEW tids, NEW rest, AllRight(g, base, tids, rest),
           NEW hop \in DOMAIN g.edges, ~IsVertical(g, hop), ~IsThreadEdge(g, hop),
           To(g, hop).tid = NetworkThread, g.edges[hop].type \in EdgeTypes,
           NEW depart \in Nat, NEW arrive \in Nat,
           From(g, hop).ts = depart, To(g, hop).ts = arrive,
           NEW sender \in Threads, sender \in tids,
           NEW by \in NodesOf(g, sender), g.nodes[by].ts = depart,
           NEW start \in Nat, NEW end \in Nat, base <= start, end <= arrive
    PROVE  LET r == rest[Call(start, depart, sender)]
                    \o << Segment(depart, arrive, NetworkThread, g.edges[hop].type) >>
           IN  /\ r \in Seq(SegmentSet)
               /\ Unmarked(r) => Good(g, r, start, end)
<1> DEFINE type == g.edges[hop].type
           x == Segment(depart, arrive, NetworkThread, type)
           r1 == rest[Call(start, depart, sender)]
<1>1. /\ x \in SegmentSet /\ x.start = depart /\ x.end = arrive
      /\ x.tid = NetworkThread /\ x.type = type
    BY MakeSegment, SMTT(30) DEF Tids
<1>2. /\ r1 \in Seq(SegmentSet)
      /\ Unmarked(r1) => IF depart <= start THEN r1 = << >>
                         ELSE Reaches(g, sender, r1, start, depart)
    BY CallIsRight
<1> HIDE DEF x, r1
<1>3. Honest(g, x)
    <2> SUFFICES ASSUME NEW ts \in depart..(arrive - 1)
                 PROVE  Says(g, NetworkThread, type, ts)
        BY <1>1 DEF Honest
    <2>1. From(g, hop).ts <= ts /\ ts < To(g, hop).ts
        OBVIOUS
    <2> QED BY <2>1 DEF Says
<1>4. ASSUME Unmarked(r1), ~(depart <= start) PROVE Good(g, r1, start, depart)
    <2>1. Reaches(g, sender, r1, start, depart)
        BY <1>2, <1>4
    <2> QED BY <2>1 DEF Reaches
<1>5. /\ r1 \o <<x>> \in Seq(SegmentSet)
      /\ Unmarked(r1 \o <<x>>) => Good(g, r1 \o <<x>>, start, end)
    BY <1>1, <1>2, <1>3, <1>4, PacketPart
<1> QED BY <1>5 DEF x, r1

(* ... a wait that a thread ended by what that thread did, which has a     *)
(* node at the time when it ended it.                                      *)
LEMMA ThreadResolved ==
    ASSUME NEW g, NEW base \in Nat, NEW tids, NEW rest, AllRight(g, base, tids, rest),
           NEW source \in Threads, source \in tids,
           NEW by \in NodesOf(g, source), NEW until \in Nat, g.nodes[by].ts = until,
           NEW start \in Nat, NEW end \in Nat, base <= start, start <= end, end <= until
    PROVE  LET r == << Segment(start, start, source, "kEpsilon") >>
                    \o rest[Call(start, end, source)]
           IN  /\ r \in Seq(SegmentSet)
               /\ Unmarked(r) => \E t \in Nat : /\ Good(g, r, start, t) /\ t >= end
                                                /\ start = end \/ end = until => t = end
<1> DEFINE x == Segment(start, start, source, "kEpsilon")
           r1 == rest[Call(start, end, source)]
           r == <<x>> \o r1
<1>1. x \in SegmentSet /\ x.start = start /\ x.end = start
    <2>1. source \in Tids /\ "kEpsilon" \in EdgeTypes
        BY DEF Tids, EdgeTypes
    <2> QED BY <2>1, MakeSegment
<1>2. /\ r1 \in Seq(SegmentSet)
      /\ Unmarked(r1) => IF end <= start THEN r1 = << >>
                         ELSE Reaches(g, source, r1, start, end)
    BY CallIsRight
<1> HIDE DEF x, r1
<1>3. Good(g, <<x>>, start, start)
    <2>1. Honest(g, x)
        <3>1. x.start..(x.end - 1) = {}
            BY <1>1
        <3> QED BY <3>1 DEF Honest
    <2>2. Follows(x, start, InvalidThread) /\ Ends(x, start)
        BY <1>1 DEF Follows, Ends
    <2> QED BY <1>1, <2>1, <2>2, GoodOne
<1>5. <<x>> \in Seq(SegmentSet)
    BY <1>1
<1>6. r \in Seq(SegmentSet)
    BY <1>2, <1>5, ConcatProperties
<1>7. ASSUME Unmarked(r)
      PROVE  \E t \in Nat : /\ Good(g, r, start, t) /\ t >= end
                            /\ start = end \/ end = until => t = end
    <2>1. Unmarked(r1)
        BY <1>2, <1>5, <1>7, UnmarkedParts
    <2>2. CASE end <= start
        <3>1. Good(g, r1, end, end) /\ start = end
            <4>1. r1 = << >>
                BY <1>2, <2>1, <2>2
            <4> QED BY <2>2, <4>1, GoodNone
        <3>2. Good(g, r, start, end)
            BY <1>3, <3>1, GoodJoin
        <3> QED BY <3>2
    <2>3. CASE ~(end <= start)
        <3>1. Reaches(g, source, r1, start, end)
            BY <1>2, <2>1, <2>3
        <3>2. PICK t \in Nat : /\ Good(g, r1, start, t)
                               /\ until = end => t = end
                               /\ until >= end => t >= end
            BY <3>1 DEF Reaches
        <3>3. Good(g, r1, start, t)
            BY <3>2
        <3>4. Good(g, r, start, t)
            BY <1>3, <3>3, GoodJoin
        <3>5. t >= end /\ (start = end \/ end = until => t = end)
            BY <2>3, <3>2
        <3> HIDE DEF r
        <3> QED BY <3>4, <3>5
    <2> QED BY <2>2, <2>3
<1> QED BY <1>6, <1>7 DEF x, r1

(* A wait is replaced by what reaches its end, if it begins and ends       *)
(* within the edge.                                                        *)
LEMMA WaitResolved ==
    ASSUME NEW g, NEW base, NEW tids, NEW rest,
           Computes(g, base, tids), AllRight(g, base, tids, rest),
           NEW tid \in Threads, NEW n \in NodesOf(g, tid), Out(g, n) # NoEdge,
           NEW start \in Nat, NEW end \in Nat, base <= start,
           g.nodes[n].ts <= start, start <= end, end <= g.nodes[g.edges[Out(g, n)].to].ts
    PROVE  LET until == g.nodes[g.edges[Out(g, n)].to].ts
               r == ResolvedBlockedEdge(g, Out(g, n), start, end, rest)
           IN  /\ r \in Seq(SegmentSet)
               /\ Unmarked(r) => \E t \in Nat : /\ Good(g, r, start, t) /\ t >= end
                                                /\ start = end \/ end = until => t = end
<1> DEFINE e == Out(g, n)
           to == g.edges[e].to
           until == g.nodes[to].ts
           r == ResolvedBlockedEdge(g, e, start, end, rest)
           wake == WakeUp(g, e)
           from == g.edges[wake].from
           type == g.edges[e].type
<1>0. GraphSound(g) /\ base \in Nat /\ \A m \in DOMAIN g.nodes : g.nodes[m].tid \in tids
    BY DEF Computes
<1>1. /\ e \in DOMAIN g.edges /\ ~IsVertical(g, e)
      /\ From(g, e) = g.nodes[n] /\ To(g, e) = g.nodes[to]
      /\ to \in NodesOf(g, tid)
    BY <1>0, OutEdge
<1> SUFFICES /\ r \in Seq(SegmentSet)
             /\ Unmarked(r) => \E t \in Nat : /\ Good(g, r, start, t) /\ t >= end
                                              /\ start = end \/ end = until => t = end
    OBVIOUS
<1>2. /\ to \in DOMAIN g.nodes /\ n \in DOMAIN g.nodes /\ g.nodes[to].tid = tid
      /\ tid \in Tids /\ until = g.nodes[to].ts /\ end <= until
    BY <1>1 DEF NodesOf, Tids
<1> HIDE DEF e, to, r, until
<1>3. until \in Nat /\ g.nodes[n].ts \in Nat /\ type \in EdgeTypes
    BY <1>0, <1>1, <1>2, GraphNodes
<1>4. wake = g.nodes[to].edge["inVertical"]
    BY DEF WakeUp, to
<1>5. CASE wake = NoEdge
    <2> DEFINE x == Segment(start, end, tid, type)
    <2>1. r = <<x>>
        BY <1>2, <1>5, Zenon DEF ResolvedBlockedEdge, r, to
    <2>2. x \in SegmentSet /\ x.start = start /\ x.end = end /\ x.tid = tid /\ x.type = type
        BY <1>2, <1>3, MakeSegment
    <2> HIDE DEF x
    <2>3. Follows(x, start, InvalidThread) /\ Ends(x, end)
        BY <2>2 DEF Follows, Ends
    <2>4. Honest(g, x)
        <3> SUFFICES ASSUME NEW ts \in start..(end - 1) PROVE Says(g, tid, type, ts)
            BY <2>2 DEF Honest
        <3>1. From(g, e).ts <= ts /\ ts < To(g, e).ts
            BY <1>1, <1>2, <1>3
        <3>2. To(g, e).edge["inVertical"] = NoEdge /\ To(g, e).tid = tid
            BY <1>1, <1>2, <1>4, <1>5
        <3> QED BY <1>1, <3>1, <3>2 DEF Says
    <2>5. Good(g, r, start, end)
        BY <2>1, <2>2, <2>3, <2>4, GoodOne
    <2>6. end >= end
        OBVIOUS
    <2> QED BY <2>5, <2>6 DEF Good
<1>6. CASE wake # NoEdge
    <2>1. /\ wake \in DOMAIN g.edges /\ IsVertical(g, wake) /\ from \in DOMAIN g.nodes
          /\ From(g, wake) = g.nodes[from]
        <3> HIDE DEF wake
        <3> QED BY <1>0, <1>2, <1>4, <1>6, WakeEdge
    <2>2. g.nodes[from].ts = until
        BY <1>0, <1>2, <1>4, <1>6, WakeTime DEF until
    <2>3. g.nodes[from].tid \in Tids /\ g.nodes[from].tid \in tids
        <3> HIDE DEF wake, from
        <3> QED BY <1>0, <2>1, GraphNodes, Zenon
    <2>4. CASE g.nodes[from].tid = NetworkThread
        <3> DEFINE hop == g.nodes[from].edge["inHorizontal"]
                   sent == g.edges[hop].from
        <3>1. hop # NoEdge
            <4> HIDE DEF wake, from
            <4> QED BY <2>1, <2>4 DEF Computes, PacketsKnownIn
        <3>2. CASE sent \notin DOMAIN g.nodes
            <4>1. r = << Undefined >>
                BY <1>6, <2>4, <3>1, <3>2, Zenon DEF ResolvedBlockedEdge, r
            <4> QED BY <4>1, MarkTypes
        <3>3. CASE sent \in DOMAIN g.nodes
            <4> DEFINE departed == g.nodes[sent].edge["inVertical"]
                       by == g.edges[departed].from
                       sender == g.nodes[by].tid
                       depart == g.nodes[sent].ts
                       r1 == rest[Call(start, depart, sender)]
                       x == Segment(depart, until, NetworkThread, g.edges[hop].type)
            <4>1. /\ hop \in DOMAIN g.edges /\ ~IsVertical(g, hop) /\ ~IsThreadEdge(g, hop)
                  /\ From(g, hop) = g.nodes[sent] /\ To(g, hop) = g.nodes[from]
                  /\ g.nodes[sent].tid = NetworkThread
                  /\ departed # NoEdge /\ by \in DOMAIN g.nodes
                  /\ sender \in Threads /\ g.nodes[by].ts = depart
                <5> HIDE DEF wake, from
                <5> QED BY <1>0, <2>1, <2>4, <3>1, <3>3, Hop, ZenonT(40)
            <4>2. depart \in Nat /\ g.edges[hop].type \in EdgeTypes
                <5> HIDE DEF hop
                <5> QED BY <1>0, <3>3, <4>1, GraphNodes, Zenon
            <4>3. by \in NodesOf(g, sender) /\ sender \in tids
                <5> HIDE DEF by
                <5> QED BY <1>0, <4>1 DEF NodesOf
            <4>4. /\ From(g, hop).ts = depart /\ To(g, hop).ts = until
                  /\ To(g, hop).tid = NetworkThread /\ end <= until
                BY <1>2, <2>2, <2>4, <4>1
            <4>5. r = r1 \o <<x>>
                <5>1. r = r1 \o << Segment(depart, g.nodes[from].ts, g.nodes[sent].tid,
                                           g.edges[hop].type) >>
                    BY <1>6, <2>4, <3>1, <3>3, <4>1, Zenon DEF ResolvedBlockedEdge, r
                <5> QED BY <2>2, <4>1, <5>1
            <4> HIDE DEF depart, sender, by, departed, sent, hop, from, wake
            <4>6. /\ r1 \o <<x>> \in Seq(SegmentSet)
                  /\ Unmarked(r1 \o <<x>>) => Good(g, r1 \o <<x>>, start, end)
                BY <1>0, <1>3, <4>1, <4>2, <4>3, <4>4, PacketResolved, Zenon
            <4> HIDE DEF r1, x
            <4>7. end >= end
                OBVIOUS
            <4> QED BY <4>5, <4>6, <4>7
        <3> QED BY <3>2, <3>3
    <2>5. CASE g.nodes[from].tid # NetworkThread
        <3> DEFINE source == g.nodes[from].tid
                   x == Segment(start, start, source, "kEpsilon")
                   r1 == rest[Call(start, end, source)]
        <3>1. r = <<x>> \o r1
            BY <1>6, <2>5, Zenon DEF ResolvedBlockedEdge, r
        <3>2. source \in Threads /\ from \in NodesOf(g, source) /\ source \in tids
            <4> HIDE DEF from
            <4> QED BY <2>1, <2>3, <2>5 DEF Tids, NodesOf
        <3>3. g.nodes[from].ts = until /\ end <= until
            BY <1>2, <2>2
        <3> HIDE DEF source, from, wake
        <3>4. /\ <<x>> \o r1 \in Seq(SegmentSet)
              /\ Unmarked(<<x>> \o r1) =>
                    \E t \in Nat : /\ Good(g, <<x>> \o r1, start, t) /\ t >= end
                                   /\ start = end \/ end = until => t = end
            BY <1>0, <1>3, <3>2, <3>3, ThreadResolved
        <3> HIDE DEF x, r1
        <3> QED BY <3>1, <3>4
    <2> QED BY <2>4, <2>5
<1> QED BY <1>5, <1>6

(* A step that follows, at another node, ...                               *)
LEMMA NextStep ==
    ASSUME NEW tids, NEW c \in Steps(tids), NEW at, NEW node
    PROVE  /\ c.at \in {"call", "search", "traverse"}
           /\ c.node \in Nat /\ c.start \in Nat /\ c.end \in Nat /\ c.tid \in tids
           /\ [c EXCEPT !.at = at] = Step(at, c.node, c.start, c.end, c.tid)
           /\ [c EXCEPT !.node = node] = Step(c.at, node, c.start, c.end, c.tid)
<1>1. /\ c.at \in {"call", "search", "traverse"}
      /\ c.node \in Nat /\ c.start \in Nat /\ c.end \in Nat /\ c.tid \in tids
      /\ c = [at |-> c.at, node |-> c.node, start |-> c.start, end |-> c.end, tid |-> c.tid]
    BY DEF Steps
<1>2. [c EXCEPT !.at = at] = Step(at, c.node, c.start, c.end, c.tid)
    BY <1>1 DEF Step
<1>3. [c EXCEPT !.node = node] = Step(c.at, node, c.start, c.end, c.tid)
    BY <1>1 DEF Step
<1> QED BY <1>1, <1>2, <1>3

LEMMA OtherStep ==
    ASSUME NEW tids, NEW c \in Steps(tids)
    PROVE  \A at, node :
              [c EXCEPT !.at = at, !.node = node] = Step(at, node, c.start, c.end, c.tid)
<1> TAKE at, node
<1> DEFINE b == [c EXCEPT !.at = at]
<1>1. [c EXCEPT !.at = at, !.node = node] = [b EXCEPT !.node = node]
    OBVIOUS
<1>2. b = Step(at, c.node, c.start, c.end, c.tid)
    BY NextStep
<1> HIDE DEF b
<1>3. [b EXCEPT !.node = node] = Step(at, node, c.start, c.end, c.tid)
    BY <1>2 DEF Step
<1> QED BY <1>1, <1>3

LEMMA StepFields ==
    ASSUME NEW tids, NEW at \in {"call", "search", "traverse"}, NEW node \in Nat,
           NEW start \in Nat, NEW end \in Nat, NEW tid \in tids
    PROVE  LET c == Step(at, node, start, end, tid)
           IN  /\ c \in Steps(tids) /\ c.at = at /\ c.node = node
               /\ c.start = start /\ c.end = end /\ c.tid = tid
BY DEF Step, Steps

(* ... of a search, ...                                                    *)
LEMMA SearchIsRight ==
    ASSUME NEW g, NEW base \in Nat, NEW tids, NEW rest, AllRight(g, base, tids, rest),
           NEW start \in Nat, NEW end \in Nat, NEW tid \in tids, tid \in Threads,
           base <= start, start < end, GetNodeIntersecting(g, start, tid) = NoNode,
           NEW node \in Nat,
           node # NoNode => node \in NodesOf(g, tid) /\ g.nodes[node].ts > start
    PROVE  LET r == rest[Step("search", node, start, end, tid)]
           IN  /\ r \in Seq(SegmentSet)
               /\ Unmarked(r) => Reaches(g, tid, r, start, end)
<1> DEFINE c == Step("search", node, start, end, tid)
<1>1. /\ c \in Steps(tids) /\ c.at = "search" /\ c.node = node
      /\ c.start = start /\ c.end = end /\ c.tid = tid
    BY StepFields DEF Step, Steps
<1> HIDE DEF c
<1>2. Wanted(g, base, c)
    BY <1>1 DEF Wanted
<1>3. Right(g, c, rest[c])
    BY <1>1, <1>2 DEF AllRight
<1> QED BY <1>1, <1>3 DEF Right, c

(* ... or along the edges.                                                 *)
LEMMA TraverseIsRight ==
    ASSUME NEW g, NEW base \in Nat, NEW tids, NEW rest, AllRight(g, base, tids, rest),
           NEW start \in Nat, NEW end \in Nat, NEW tid \in tids, tid \in Threads,
           base <= start, start <= end,
           NEW node \in Nat,
           node # NoNode =>
              /\ node \in NodesOf(g, tid)
              /\ \/ g.nodes[node].ts >= start
                 \/ /\ Out(g, node) # NoEdge
                    /\ g.nodes[g.edges[Out(g, node)].to].ts >= start
    PROVE  LET r == rest[Step("traverse", node, start, end, tid)]
           IN  /\ r \in Seq(SegmentSet)
               /\ Unmarked(r) => IF node = NoNode \/ g.nodes[node].ts > end THEN r = << >>
                                 ELSE Reaches(g, tid, r, EdgeStart(start, g.nodes[node].ts), end)
<1> DEFINE c == Step("traverse", node, start, end, tid)
<1>1. /\ c \in Steps(tids) /\ c.at = "traverse" /\ c.node = node
      /\ c.start = start /\ c.end = end /\ c.tid = tid
    BY StepFields DEF Step, Steps
<1> HIDE DEF c
<1>2. Wanted(g, base, c)
    BY <1>1 DEF Wanted
<1>3. Right(g, c, rest[c])
    BY <1>1, <1>2 DEF AllRight
<1> QED BY <1>1, <1>3 DEF Right, c

(* The rest of the path follows on what comes first.                       *)
LEMMA ReachesOn ==
    ASSUME NEW g, NEW tid, NEW r1, NEW r2, NEW s \in Nat, NEW t \in Nat, NEW end \in Nat,
           Good(g, r1, s, t), Reaches(g, tid, r2, t, end), s = end => t = end
    PROVE  Reaches(g, tid, r1 \o r2, s, end)
<1>1. PICK u \in Nat :
         /\ Good(g, r2, t, u)
         /\ t = end => u = end
         /\ \A m \in NodesOf(g, tid) : /\ g.nodes[m].ts = end => u = end
                                       /\ g.nodes[m].ts >= end => u >= end
    BY DEF Reaches
<1>2. Good(g, r1 \o r2, s, u)
    BY <1>1, GoodJoin
<1>3. s = end => u = end
    BY <1>1
<1> QED BY <1>1, <1>2, <1>3 DEF Reaches

(* The part of one edge, ...                                               *)
LEMMA PartRight ==
    ASSUME NEW g, NEW base, NEW tids, NEW rest,
           Computes(g, base, tids), AllRight(g, base, tids, rest),
           NEW tid \in Threads, NEW n \in NodesOf(g, tid), Out(g, n) # NoEdge,
           NEW s \in Nat, NEW t \in Nat, base <= s, g.nodes[n].ts <= s, s <= t,
           t <= g.nodes[g.edges[Out(g, n)].to].ts
    PROVE  LET e == Out(g, n)
               until == g.nodes[g.edges[e].to].ts
               part == IF IsWait(g, e) THEN ResolvedBlockedEdge(g, e, s, t, rest)
                       ELSE IF s = t THEN << >>
                       ELSE << Segment(s, t, tid, g.edges[e].type) >>
           IN  /\ part \in Seq(SegmentSet)
               /\ Unmarked(part) => \E u \in Nat : /\ Good(g, part, s, u) /\ u >= t
                                                   /\ s = t \/ t = until => u = t
<1> DEFINE e == Out(g, n)
           until == g.nodes[g.edges[e].to].ts
           x == Segment(s, t, tid, g.edges[e].type)
           part == IF IsWait(g, e) THEN ResolvedBlockedEdge(g, e, s, t, rest)
                   ELSE IF s = t THEN << >> ELSE <<x>>
<1> SUFFICES /\ part \in Seq(SegmentSet)
             /\ Unmarked(part) => \E u \in Nat : /\ Good(g, part, s, u) /\ u >= t
                                                 /\ s = t \/ t = until => u = t
    OBVIOUS
<1>1. CASE IsWait(g, e)
    <2>1. part = ResolvedBlockedEdge(g, e, s, t, rest)
        BY <1>1
    <2>2. LET r == ResolvedBlockedEdge(g, e, s, t, rest)
          IN  /\ r \in Seq(SegmentSet)
              /\ Unmarked(r) => \E u \in Nat : /\ Good(g, r, s, u) /\ u >= t
                                               /\ s = t \/ t = until => u = t
        BY WaitResolved
    <2> HIDE DEF part, e, until
    <2> QED BY <2>1, <2>2
<1>2. CASE ~IsWait(g, e) /\ s = t
    <2>1. part = << >>
        BY <1>2
    <2> HIDE DEF part
    <2>2. Good(g, part, s, t) /\ t >= t /\ part \in Seq(SegmentSet)
        BY <1>2, <2>1, GoodNone
    <2> QED BY <2>2
<1>3. CASE ~IsWait(g, e) /\ s # t
    <2>1. part = <<x>>
        BY <1>3
    <2>2. /\ e \in DOMAIN g.edges /\ ~IsVertical(g, e) /\ From(g, e) = g.nodes[n]
          /\ To(g, e).tid = tid /\ To(g, e).ts = until
          /\ until \in Nat /\ g.nodes[n].ts \in Nat /\ g.edges[e].type \in EdgeTypes
        <3>1. GraphSound(g)
            BY DEF Computes
        <3>2. /\ e \in DOMAIN g.edges /\ ~IsVertical(g, e) /\ From(g, e) = g.nodes[n]
              /\ To(g, e) = g.nodes[g.edges[e].to] /\ g.edges[e].to \in NodesOf(g, tid)
            BY <3>1, OutEdge
        <3> HIDE DEF e
        <3>3. To(g, e).tid = tid /\ To(g, e).ts = until
            BY <3>2 DEF NodesOf
        <3>4. until \in Nat /\ g.nodes[n].ts \in Nat
            BY <3>1, <3>2, GraphNodes DEF NodesOf
        <3> QED BY <3>1, <3>2, <3>3, <3>4, GraphNodes
    <2>3. tid \in Tids
        BY DEF Tids
    <2>4. /\ x \in SegmentSet /\ x.start = s /\ x.end = t /\ x.tid = tid
          /\ x.type = g.edges[e].type
        BY <2>2, <2>3, MakeSegment
    <2> HIDE DEF part, x, e, until
    <2>5. Honest(g, x)
        <3> SUFFICES ASSUME NEW ts \in s..(t - 1) PROVE Says(g, tid, g.edges[e].type, ts)
            BY <2>4 DEF Honest
        <3>1. From(g, e).ts <= ts /\ ts < To(g, e).ts
            BY <2>2 DEF until, e
        <3> QED BY <1>3, <2>2, <3>1 DEF Says
    <2>6. Good(g, <<x>>, s, t)
        <3>1. Follows(x, s, InvalidThread) /\ Ends(x, t)
            BY <2>4 DEF Follows, Ends
        <3> QED BY <2>4, <2>5, <3>1, GoodOne
    <2>7. <<x>> \in Seq(SegmentSet) /\ t >= t
        BY <2>4
    <2> QED BY <2>1, <2>6, <2>7
<1> QED BY <1>1, <1>2, <1>3

(* ... and what follows on it.                                             *)
LEMMA TraverseRight ==
    ASSUME NEW g, NEW base, NEW tids, NEW rest,
           Computes(g, base, tids), AllRight(g, base, tids, rest),
           NEW c \in Steps(tids), c.at = "traverse", Wanted(g, base, c)
    PROVE  Right(g, c, Traverse(g, c, rest))
<1> DEFINE n     == c.node
           start == c.start
           end   == c.end
           tid   == c.tid
           r     == Traverse(g, c, rest)
<1>0. /\ GraphSound(g) /\ UnbrokenIn(g) /\ base \in Nat
      /\ start \in Nat /\ end \in Nat /\ n \in Nat /\ tid \in tids
    BY NextStep DEF Computes
<1>1. /\ tid \in Threads /\ base <= start /\ start <= end
      /\ n # NoNode =>
            /\ n \in NodesOf(g, tid)
            /\ \/ g.nodes[n].ts >= start
               \/ /\ Out(g, n) # NoEdge
                  /\ g.nodes[g.edges[Out(g, n)].to].ts >= start
    BY DEF Wanted
<1> SUFFICES /\ r \in Seq(SegmentSet)
             /\ Unmarked(r) => IF n = NoNode \/ g.nodes[n].ts > end THEN r = << >>
                               ELSE Reaches(g, tid, r, EdgeStart(start, g.nodes[n].ts), end)
    BY DEF Right
<1>2. CASE n = NoNode \/ g.nodes[n].ts > end
    <2>1. r = << >>
        BY <1>2 DEF Traverse
    <2> HIDE DEF r
    <2> QED BY <1>2, <2>1
<1>3. CASE ~(n = NoNode \/ g.nodes[n].ts > end)
    <2> DEFINE ts == g.nodes[n].ts
               s  == EdgeStart(start, ts)
    <2>1. /\ n \in NodesOf(g, tid) /\ n \in DOMAIN g.nodes /\ g.nodes[n].tid = tid
          /\ ts \in Nat /\ ts <= end
          /\ \A m \in NodesOf(g, tid) : g.nodes[m].ts \in Nat
          /\ \A m \in NodesOf(g, tid) : m <= n => g.nodes[m].ts <= ts
        <3>1. n \in NodesOf(g, tid)
            BY <1>1, <1>3
        <3>2. n \in DOMAIN g.nodes /\ g.nodes[n].tid = tid
            BY <3>1 DEF NodesOf
        <3>3. ts \in Nat
            BY <1>0, <3>2, GraphNodes
        <3>4. ts <= end
            BY <1>0, <1>3, <3>3
        <3>5. \A m \in NodesOf(g, tid) : m \in DOMAIN g.nodes /\ m \in Nat /\ n \in Nat
            BY <1>0, GraphNodes DEF NodesOf
        <3>6. \A m \in NodesOf(g, tid) : g.nodes[m].ts \in Nat
            BY <1>0, <3>5, GraphNodes
        <3>7. \A m \in NodesOf(g, tid) : m <= n => g.nodes[m].ts <= ts
            <4> TAKE m \in NodesOf(g, tid)
            <4>1. CASE m < n
                BY <1>0, <3>2, <3>5, <4>1, GraphNodes
            <4>2. CASE m = n
                BY <3>3, <4>2
            <4> QED BY <3>5, <4>1, <4>2
        <3> QED BY <3>1, <3>2, <3>3, <3>4, <3>6, <3>7
    <2>2. s \in Nat /\ s >= start /\ s >= ts /\ s <= end /\ (s = start \/ s = ts)
        <3> HIDE DEF start, end, ts
        <3> QED BY <1>0, <1>1, <2>1 DEF EdgeStart
    <2> SUFFICES /\ r \in Seq(SegmentSet)
                 /\ Unmarked(r) => Reaches(g, tid, r, s, end)
        BY <1>3
    <2>3. CASE Out(g, n) = NoEdge
        <3>1. r = << >>
            BY <2>3 DEF Traverse
        <3>2. s = ts
            <4>1. ts >= start
                BY <1>1, <1>3, <2>3
            <4> HIDE DEF start, end, ts
            <4> QED BY <1>0, <2>1, <2>2, <4>1
        <3>3. \A m \in NodesOf(g, tid) : g.nodes[m].ts <= ts
            <4>1. n = LastNode(g, tid)
                BY <1>0, <1>1, <2>1, <2>3 DEF UnbrokenIn
            <4> HIDE DEF n, ts, tid
            <4>2. \A m \in NodesOf(g, tid) : m <= n
                BY <1>0, <4>1, LastNodeNewest DEF GraphSound
            <4> QED BY <2>1, <4>2
        <3>4. Good(g, r, s, s) /\ r \in Seq(SegmentSet)
            BY <3>1, GoodNone
        <3> HIDE DEF r, s, ts, n, end, tid
        <3>5. \A m \in NodesOf(g, tid) : /\ g.nodes[m].ts = end => s = end
                                         /\ g.nodes[m].ts >= end => s >= end
            BY <1>0, <2>1, <2>2, <3>2, <3>3
        <3> QED BY <2>2, <3>4, <3>5 DEF Reaches
    <2>4. CASE Out(g, n) # NoEdge
        <3> DEFINE e     == Out(g, n)
                   to    == g.edges[e].to
                   until == g.nodes[to].ts
                   t     == EdgeEnd(end, until)
                   part  == IF IsWait(g, e) THEN ResolvedBlockedEdge(g, e, s, t, rest)
                            ELSE IF s = t THEN << >>
                            ELSE << Segment(s, t, tid, g.edges[e].type) >>
                   r2    == rest[Step("traverse", to, start, end, tid)]
        <3>1. r = part \o r2
            <4>1. r = part \o rest[[c EXCEPT !.node = to]]
                BY <1>3, <2>4, Zenon DEF Traverse
            <4>2. [c EXCEPT !.node = to] = Step("traverse", to, start, end, tid)
                BY NextStep
            <4> HIDE DEF r, part
            <4> QED BY <4>1, <4>2
        <3>2. /\ to \in NodesOf(g, tid) /\ ts <= until
              /\ \A m \in NodesOf(g, tid) : m <= n \/ m >= to
            BY <1>0, <1>1, <2>1, <2>4, OutEdge
        <3>3. /\ to \in Nat /\ to # NoNode /\ until \in Nat
              /\ \A m \in NodesOf(g, tid) : m >= to => g.nodes[m].ts >= until
            <4> HIDE DEF to, tid
            <4>1. to \in DOMAIN g.nodes /\ \A m \in NodesOf(g, tid) : m \in DOMAIN g.nodes
                BY <3>2 DEF NodesOf
            <4>2. /\ to \in Nat /\ to # NoNode /\ until \in Nat
                  /\ \A m \in NodesOf(g, tid) : m \in Nat
                BY <1>0, <4>1, GraphNodes
            <4>3. ASSUME NEW m \in NodesOf(g, tid), m >= to PROVE g.nodes[m].ts >= until
                <5>1. CASE m > to
                    <6>1. until <= g.nodes[m].ts
                        BY <1>0, <4>1, <4>2, <5>1, GraphNodes
                    <6> QED BY <2>1, <4>2, <6>1
                <5>2. CASE m = to
                    BY <4>2, <5>2
                <5> QED BY <4>2, <4>3, <5>1, <5>2
            <4> QED BY <4>2, <4>3
        <3>4. until >= start
            <4>1. ts >= start \/ until >= start
                BY <1>1, <1>3
            <4> HIDE DEF ts, until, start
            <4> QED BY <1>0, <2>1, <3>2, <3>3, <4>1
        <3>5. /\ t \in Nat /\ s <= t /\ t <= until /\ t <= end /\ base <= s
              /\ until <= end => t = until
              /\ until > end => t = end
            <4> HIDE DEF ts, until, start, end, s
            <4> QED BY <1>0, <1>1, <2>1, <2>2, <3>2, <3>3, <3>4 DEF EdgeEnd
        <3> HIDE DEF r
        <3>6. /\ part \in Seq(SegmentSet)
              /\ Unmarked(part) => \E u \in Nat : /\ Good(g, part, s, u) /\ u >= t
                                                  /\ s = t \/ t = until => u = t
            <4> HIDE DEF s, t, n, tid
            <4> QED BY <1>0, <1>1, <2>1, <2>2, <2>4, <3>3, <3>5, PartRight
        <3>7. /\ r2 \in Seq(SegmentSet)
              /\ Unmarked(r2) => IF until > end THEN r2 = << >>
                                 ELSE Reaches(g, tid, r2, until, end)
            <4>1. EdgeStart(start, until) = until
                <5> HIDE DEF until, start
                <5> QED BY <1>0, <3>3, <3>4 DEF EdgeStart
            <4> HIDE DEF start, end, tid, to, r2
            <4>2. /\ r2 \in Seq(SegmentSet)
                  /\ Unmarked(r2) =>
                        IF to = NoNode \/ g.nodes[to].ts > end THEN r2 = << >>
                        ELSE Reaches(g, tid, r2, EdgeStart(start, g.nodes[to].ts), end)
                BY <1>0, <1>1, <3>2, <3>3, <3>4, TraverseIsRight DEF r2
            <4> QED BY <3>3, <4>1, <4>2
        <3> HIDE DEF part, r2, s, t, until, to, ts, start, end, tid
        <3>8. r \in Seq(SegmentSet)
            BY <3>1, <3>6, <3>7, ConcatProperties
        <3>9. ASSUME Unmarked(r) PROVE Reaches(g, tid, r, s, end)
            <4>1. Unmarked(part) /\ Unmarked(r2)
                BY <3>1, <3>6, <3>7, <3>9, UnmarkedParts
            <4>2. PICK u \in Nat : /\ Good(g, part, s, u) /\ u >= t
                                   /\ s = t \/ t = until => u = t
                BY <3>6, <4>1
            <4>3. CASE until > end
                <5>1. r2 = << >> /\ t = end
                    BY <3>5, <3>7, <4>1, <4>3
                <5>2. r = part
                    BY <3>1, <3>6, <5>1, ConcatEmptySeq
                <5>3. s = end => u = end
                    BY <4>2, <5>1
                <5>4. ASSUME NEW m \in NodesOf(g, tid)
                      PROVE  g.nodes[m].ts = end => u = end
                    <6> SUFFICES ASSUME g.nodes[m].ts = end PROVE s = end
                        BY <5>3
                    <6>1. ~(m >= to)
                        BY <1>0, <2>1, <3>3, <4>3, <5>4
                    <6>2. m <= n
                        BY <3>2, <6>1
                    <6>3. g.nodes[m].ts <= ts
                        BY <2>1, <6>2
                    <6> QED BY <1>0, <2>1, <2>2, <6>3
                <5> QED BY <4>2, <5>1, <5>2, <5>3, <5>4 DEF Reaches
            <4>4. CASE ~(until > end)
                <5>1. t = until /\ Reaches(g, tid, r2, until, end)
                    BY <1>0, <3>3, <3>5, <3>7, <4>1, <4>4
                <5>2. Good(g, part, s, until)
                    BY <4>2, <5>1
                <5>3. s = end => until = end
                    BY <1>0, <2>2, <3>3, <3>5, <5>1
                <5> QED BY <1>0, <2>2, <3>1, <3>3, <5>1, <5>2, <5>3, ReachesOn
            <4> QED BY <4>3, <4>4
        <3> QED BY <3>8, <3>9
    <2> QED BY <2>3, <2>4
<1> QED BY <1>2, <1>3

(* The search for the first wake-up, ...                                   *)
LEMMA SearchRight ==
    ASSUME NEW g, NEW base, NEW tids, NEW rest,
           Computes(g, base, tids), AllRight(g, base, tids, rest),
           NEW c \in Steps(tids), c.at = "search", Wanted(g, base, c)
    PROVE  Right(g, c, Search(g, c, rest))
<1> DEFINE n      == c.node
           start  == c.start
           end    == c.end
           tid    == c.tid
           r      == Search(g, c, rest)
           ts     == g.nodes[n].ts
           inTime == n # NoNode /\ ts <= end
           wake   == g.nodes[n].edge["inVertical"]
           after  == rest[Step("traverse", n, start, end, tid)]
<1>0. /\ GraphSound(g) /\ UnbrokenIn(g) /\ PacketsKnownIn(g, base) /\ base \in Nat
      /\ start \in Nat /\ end \in Nat /\ n \in Nat /\ tid \in tids
      /\ \A m \in DOMAIN g.nodes : g.nodes[m].tid \in tids
    BY NextStep DEF Computes
<1>1. /\ tid \in Threads /\ base <= start /\ start < end
      /\ GetNodeIntersecting(g, start, tid) = NoNode
      /\ n # NoNode => n \in NodesOf(g, tid) /\ ts > start
    BY DEF Wanted
<1>2. /\ [c EXCEPT !.at = "traverse"] = Step("traverse", n, start, end, tid)
      /\ \A to : [c EXCEPT !.node = to] = Step("search", to, start, end, tid)
      /\ \A to : [c EXCEPT !.at = "traverse", !.node = to] = Step("traverse", to, start, end, tid)
    <2> HIDE DEF r, after
    <2>1. [c EXCEPT !.at = "traverse"] = Step("traverse", n, start, end, tid)
        BY NextStep
    <2>2. ASSUME NEW to PROVE [c EXCEPT !.node = to] = Step("search", to, start, end, tid)
        BY NextStep
    <2>3. ASSUME NEW to
          PROVE  [c EXCEPT !.at = "traverse", !.node = to]
                     = Step("traverse", to, start, end, tid)
        BY OtherStep, Zenon
    <2> QED BY <2>1, <2>2, <2>3
<1>3. \A m \in NodesOf(g, tid) :
         m \in DOMAIN g.nodes /\ g.nodes[m].tid = tid /\ m \in Nat \ {NoNode} /\ g.nodes[m].ts \in Nat
    BY <1>0, GraphNodes DEF NodesOf
<1> SUFFICES /\ r \in Seq(SegmentSet)
             /\ Unmarked(r) => Reaches(g, tid, r, start, end)
    BY DEF Right
<1>4. CASE inTime /\ wake # NoEdge
    <2> DEFINE from   == g.edges[wake].from
               source == g.nodes[from].tid
               r1     == rest[Call(start, ts, source)]
    <2>1. r = r1 \o after
        <3>1. r = r1 \o rest[[c EXCEPT !.at = "traverse"]]
            BY <1>4, Zenon DEF Search
        <3> HIDE DEF r, r1
        <3> QED BY <1>2, <3>1
    <2>2. n \in NodesOf(g, tid) /\ ts > start /\ ts <= end
        BY <1>1, <1>4
    <2>3. n \in DOMAIN g.nodes /\ g.nodes[n].tid = tid /\ ts \in Nat
        BY <1>3, <2>2
    <2>4. /\ wake \in DOMAIN g.edges /\ IsVertical(g, wake) /\ from \in DOMAIN g.nodes
          /\ From(g, wake) = g.nodes[from] /\ To(g, wake) = g.nodes[n]
        BY <1>0, <1>4, <2>3, WakeEdge
    <2>5. g.nodes[from].ts = ts
        BY <1>0, <1>4, <2>3, WakeTime
    <2> HIDE DEF wake, r, r1, after, ts
    <2>6. source # NetworkThread
        <3> SUFFICES ASSUME source = NetworkThread PROVE FALSE
            OBVIOUS
        <3>1. GetNodeIntersecting(g, base, tid) # NoNode
            <4> HIDE DEF from
            <4> QED BY <1>0, <2>3, <2>4 DEF PacketsKnownIn
        <3>2. PICK m \in NodesOf(g, tid) : g.nodes[m].ts <= base
            BY <1>0, <3>1, Intersecting
        <3>3. g.nodes[m].ts <= start /\ g.nodes[n].ts >= start
            <4>1. g.nodes[m].ts \in Nat /\ g.nodes[n].ts = ts
                BY <1>3 DEF ts
            <4> HIDE DEF start, n
            <4> QED BY <1>0, <1>1, <2>2, <2>3, <3>2, <4>1
        <3> HIDE DEF n, start, tid
        <3> QED BY <1>0, <1>1, <2>2, <3>2, <3>3, KnownBetween
    <2>7. source \in Threads /\ source \in tids /\ from \in NodesOf(g, source)
        <3> HIDE DEF from
        <3> QED BY <1>0, <2>4, <2>6, GraphNodes DEF Tids, NodesOf
    <2>8. /\ r1 \in Seq(SegmentSet)
          /\ Unmarked(r1) => Good(g, r1, start, ts)
        <3> HIDE DEF source, from, start
        <3>1. /\ r1 \in Seq(SegmentSet)
              /\ Unmarked(r1) => IF ts <= start THEN r1 = << >>
                                 ELSE Reaches(g, source, r1, start, ts)
            BY <1>0, <1>1, <2>3, <2>7, CallIsRight DEF r1
        <3>2. ~(ts <= start)
            BY <1>0, <2>2, <2>3
        <3>3. Reaches(g, source, r1, start, ts) => Good(g, r1, start, ts)
            BY <2>5, <2>7 DEF Reaches
        <3> QED BY <3>1, <3>2, <3>3
    <2>9. /\ after \in Seq(SegmentSet)
          /\ Unmarked(after) => Reaches(g, tid, after, ts, end)
        <3>1. ~(n = NoNode \/ g.nodes[n].ts > end)
            <4> HIDE DEF end, n
            <4> QED BY <1>0, <1>4, <2>2, <2>3 DEF ts
        <3>2. EdgeStart(start, g.nodes[n].ts) = ts
            <4> HIDE DEF start, n
            <4> QED BY <1>0, <2>2, <2>3 DEF EdgeStart, ts
        <3> HIDE DEF start, end, n, tid
        <3>3. n \in NodesOf(g, tid) /\ g.nodes[n].ts >= start /\ start <= end
            BY <1>0, <1>1, <2>2, <2>3 DEF ts
        <3>4. /\ after \in Seq(SegmentSet)
              /\ Unmarked(after) =>
                    IF n = NoNode \/ g.nodes[n].ts > end THEN after = << >>
                    ELSE Reaches(g, tid, after, EdgeStart(start, g.nodes[n].ts), end)
            BY <1>0, <1>1, <3>3, TraverseIsRight DEF after
        <3> QED BY <3>1, <3>2, <3>4
    <2> HIDE DEF start, end, tid, n
    <2>10. r \in Seq(SegmentSet)
        BY <2>1, <2>8, <2>9, ConcatProperties
    <2>11. ASSUME Unmarked(r) PROVE Reaches(g, tid, r, start, end)
        <3>1. Unmarked(r1) /\ Unmarked(after)
            BY <2>1, <2>8, <2>9, <2>11, UnmarkedParts
        <3>2. Good(g, r1, start, ts) /\ Reaches(g, tid, after, ts, end)
            BY <2>8, <2>9, <3>1
        <3>3. start # end
            BY <1>0, <1>1
        <3> QED BY <1>0, <2>1, <2>3, <3>2, <3>3, ReachesOn
    <2> QED BY <2>10, <2>11
<1>5. CASE inTime /\ wake = NoEdge /\ Out(g, n) # NoEdge
    <2> DEFINE to == g.edges[Out(g, n)].to
    <2>1. r = rest[Step("search", to, start, end, tid)]
        <3>1. r = rest[[c EXCEPT !.node = to]]
            BY <1>5, Zenon DEF Search
        <3> HIDE DEF r
        <3> QED BY <1>2, <3>1
    <2>2. to \in NodesOf(g, tid) /\ ts <= g.nodes[to].ts
        BY <1>0, <1>1, <1>5, OutEdge
    <2>3. to \in Nat /\ g.nodes[to].ts > start /\ n \in NodesOf(g, tid)
        <3>1. ts > start /\ n \in NodesOf(g, tid)
            BY <1>1, <1>5
        <3>2. to \in Nat /\ g.nodes[to].ts \in Nat /\ ts \in Nat
            BY <1>3, <2>2, <3>1
        <3> HIDE DEF ts, to, start
        <3> QED BY <1>0, <2>2, <3>1, <3>2
    <2> HIDE DEF r, to, start, end, tid
    <2> QED BY <1>0, <1>1, <2>1, <2>2, <2>3, SearchIsRight
<1>6. CASE ~(inTime /\ (wake # NoEdge \/ Out(g, n) # NoEdge))
    <2> DEFINE first == GetNodeStartingAfter(g, start, tid)
               known == IF first = NoNode THEN end ELSE g.nodes[first].ts
               x     == Segment(start, known, tid, "kWaitBlocked")
               r2    == rest[Step("traverse", first, start, end, tid)]
    <2>1. r = <<x>> \o r2
        <3>1. r = <<x>> \o rest[[c EXCEPT !.at = "traverse", !.node = first]]
            BY <1>6, Zenon DEF Search
        <3> HIDE DEF r, x, first
        <3> QED BY <1>2, <3>1
    <2> HIDE DEF r
    <2>2. \/ first = NoNode /\ \A m \in NodesOf(g, tid) : g.nodes[m].ts <= start
          \/ /\ first # NoNode /\ first \in NodesOf(g, tid) /\ g.nodes[first].ts > start
             /\ \A m \in NodesOf(g, tid) : g.nodes[m].ts > start => first <= m
        <3> HIDE DEF start, tid
        <3> QED BY <1>0, StartingAfter
    <2> HIDE DEF first
    <2>3. /\ known \in Nat /\ known > start /\ first \in Nat
          /\ \A m \in NodesOf(g, tid) : g.nodes[m].ts <= start \/
                                        (first # NoNode /\ g.nodes[m].ts >= known)
        <3> HIDE DEF start, end, tid
        <3>1. CASE first = NoNode
            BY <1>0, <1>1, <2>2, <3>1 DEF NoNode
        <3>2. CASE first # NoNode
            <4>1. /\ first \in NodesOf(g, tid) /\ g.nodes[first].ts > start
                  /\ \A m \in NodesOf(g, tid) : g.nodes[m].ts > start => first <= m
                BY <2>2, <3>2
            <4>2. ASSUME NEW m \in NodesOf(g, tid)
                  PROVE  g.nodes[m].ts <= start \/ g.nodes[m].ts >= g.nodes[first].ts
                <5>1. CASE m = first
                    BY <1>3, <4>1, <5>1
                <5>2. CASE first < m
                    BY <1>0, <1>3, <4>1, <5>2, GraphNodes
                <5> QED BY <1>0, <1>3, <4>1, <5>1, <5>2
            <4> QED BY <1>3, <3>2, <4>1, <4>2
        <3> QED BY <3>1, <3>2
    <2>4. /\ x \in SegmentSet /\ x.start = start /\ x.end = known
          /\ x.tid = tid /\ x.type = "kWaitBlocked"
        <3>1. tid \in Tids /\ "kWaitBlocked" \in EdgeTypes
            BY <1>1 DEF Tids, EdgeTypes
        <3> HIDE DEF known, start, tid
        <3> QED BY <1>0, <2>3, <3>1, MakeSegment
    <2>5. first # NoNode => known = g.nodes[first].ts /\ first \in NodesOf(g, tid)
        BY <2>2
    <2>6. first = NoNode => known = end
        OBVIOUS
    <2> HIDE DEF x, known, start, end, tid
    <2>7. Honest(g, x)
        <3> SUFFICES ASSUME NEW t \in start..(known - 1)
                     PROVE  GetNodeIntersecting(g, t, tid) = NoNode
            BY <2>4 DEF Honest, Says
        <3>1. t \in Nat /\ start <= t /\ t < known
            BY <1>0, <2>3
        <3>2. ASSUME NEW m \in NodesOf(g, tid)
              PROVE  g.nodes[m].ts <= start \/ g.nodes[m].ts > t
            BY <1>3, <2>3, <3>1
        <3> QED BY <1>0, <1>1, <3>1, <3>2, StaysUnknown
    <2>8. Good(g, <<x>>, start, known)
        <3>1. Follows(x, start, InvalidThread) /\ Ends(x, known)
            BY <2>4 DEF Follows, Ends
        <3> QED BY <2>4, <2>7, <3>1, GoodOne
    <2>9. <<x>> \in Seq(SegmentSet)
        BY <2>4
    <2>10. /\ r2 \in Seq(SegmentSet)
           /\ Unmarked(r2) => IF first = NoNode \/ known > end THEN r2 = << >>
                              ELSE Reaches(g, tid, r2, known, end)
        <3>1. first # NoNode => EdgeStart(start, g.nodes[first].ts) = known
            BY <1>0, <2>3, <2>5 DEF EdgeStart
        <3>2. /\ start <= end
              /\ first # NoNode =>
                    /\ first \in NodesOf(g, tid)
                    /\ \/ g.nodes[first].ts >= start
                       \/ /\ Out(g, first) # NoEdge
                          /\ g.nodes[g.edges[Out(g, first)].to].ts >= start
            BY <1>0, <1>1, <2>3, <2>5
        <3>3. /\ r2 \in Seq(SegmentSet)
              /\ Unmarked(r2) =>
                    IF first = NoNode \/ g.nodes[first].ts > end THEN r2 = << >>
                    ELSE Reaches(g, tid, r2, EdgeStart(start, g.nodes[first].ts), end)
            <4> HIDE DEF r2
            <4> QED BY <1>0, <1>1, <2>3, <3>2, TraverseIsRight DEF r2
        <3> QED BY <2>5, <3>1, <3>3
    <2> HIDE DEF r2
    <2>11. r \in Seq(SegmentSet)
        BY <2>1, <2>9, <2>10, ConcatProperties
    <2>12. ASSUME Unmarked(r) PROVE Reaches(g, tid, r, start, end)
        <3>1. Unmarked(r2)
            BY <2>1, <2>9, <2>10, <2>12, UnmarkedParts
        <3>2. start # end
            BY <1>0, <1>1
        <3>3. CASE first = NoNode \/ known > end
            <4>1. r2 = << >>
                BY <2>10, <3>1, <3>3
            <4>2. r = <<x>>
                BY <2>1, <2>9, <4>1, ConcatEmptySeq
            <4>3. \A m \in NodesOf(g, tid) : /\ g.nodes[m].ts = end => known = end
                                             /\ g.nodes[m].ts >= end => known >= end
                BY <1>0, <1>1, <1>3, <2>3, <3>3
            <4> QED BY <2>3, <2>8, <3>2, <4>2, <4>3 DEF Reaches
        <3>4. CASE ~(first = NoNode \/ known > end)
            <4>1. Reaches(g, tid, r2, known, end)
                BY <2>10, <3>1, <3>4
            <4> QED BY <1>0, <2>1, <2>3, <2>8, <3>2, <4>1, ReachesOn
        <3> QED BY <3>3, <3>4
    <2> QED BY <2>11, <2>12
<1> QED BY <1>4, <1>5, <1>6

(* ... and a call.                                                         *)
LEMMA CallRight ==
    ASSUME NEW g, NEW base, NEW tids, NEW rest,
           Computes(g, base, tids), AllRight(g, base, tids, rest),
           NEW c \in Steps(tids), c.at = "call", Wanted(g, base, c)
    PROVE  Right(g, c, ComputeCriticalPathRecursive(g, c, rest))
<1> DEFINE start == c.start
           end   == c.end
           tid   == c.tid
           r     == ComputeCriticalPathRecursive(g, c, rest)
           n     == GetNodeIntersecting(g, start, tid)
           first == GetNodeStartingAfter(g, start, tid)
<1>0. /\ GraphSound(g) /\ base \in Nat
      /\ start \in Nat /\ end \in Nat /\ tid \in tids
    BY NextStep DEF Computes
<1>1. tid \in Threads /\ base <= start
    BY DEF Wanted
<1>2. \A m \in NodesOf(g, tid) : m \in Nat \ {NoNode} /\ g.nodes[m].ts \in Nat
    BY <1>0, GraphNodes DEF NodesOf
<1> SUFFICES /\ r \in Seq(SegmentSet)
             /\ Unmarked(r) => IF end <= start THEN r = << >>
                               ELSE Reaches(g, tid, r, start, end)
    BY DEF Right
<1>3. CASE end <= start
    <2>1. r = << >>
        BY <1>3 DEF ComputeCriticalPathRecursive, IsEmpty
    <2> HIDE DEF r
    <2> QED BY <1>3, <2>1
<1>4. CASE ~(end <= start) /\ n # NoNode
    <2>1. r = rest[Step("traverse", n, start, end, tid)]
        <3>1. r = rest[[c EXCEPT !.at = "traverse", !.node = n]]
            BY <1>4, Zenon DEF ComputeCriticalPathRecursive, IsEmpty
        <3>2. [c EXCEPT !.at = "traverse", !.node = n] = Step("traverse", n, start, end, tid)
            BY OtherStep, Zenon
        <3> HIDE DEF r, n
        <3> QED BY <3>1, <3>2
    <2> HIDE DEF r, start, end, tid
    <2>2. PICK last \in NodesOf(g, tid) :
             /\ g.nodes[last].ts <= start
             /\ \A m \in NodesOf(g, tid) : g.nodes[m].ts <= start => m <= last
             /\ LET covers == IF Out(g, last) = NoEdge THEN g.nodes[last].ts = start
                              ELSE g.nodes[g.edges[Out(g, last)].to].ts >= start
                IN  n = IF covers THEN last ELSE NoNode
        BY <1>0, <1>4, Intersecting
    <2> HIDE DEF n
    <2>3. n = last /\ (IF Out(g, last) = NoEdge THEN g.nodes[last].ts = start
                       ELSE g.nodes[g.edges[Out(g, last)].to].ts >= start)
        BY <1>4, <2>2
    <2>4. /\ n \in NodesOf(g, tid) /\ n \in Nat /\ g.nodes[n].ts \in Nat /\ g.nodes[n].ts <= start
          /\ \/ g.nodes[n].ts >= start
             \/ /\ Out(g, n) # NoEdge
                /\ g.nodes[g.edges[Out(g, n)].to].ts >= start
        BY <1>0, <1>2, <2>2, <2>3
    <2>5. EdgeStart(start, g.nodes[n].ts) = start /\ ~(g.nodes[n].ts > end) /\ start <= end
        BY <1>0, <1>4, <2>4 DEF EdgeStart
    <2>6. /\ r \in Seq(SegmentSet)
          /\ Unmarked(r) =>
                IF n = NoNode \/ g.nodes[n].ts > end THEN r = << >>
                ELSE Reaches(g, tid, r, EdgeStart(start, g.nodes[n].ts), end)
        <3> DEFINE q == rest[Step("traverse", n, start, end, tid)]
        <3>1. /\ q \in Seq(SegmentSet)
              /\ Unmarked(q) =>
                    IF n = NoNode \/ g.nodes[n].ts > end THEN q = << >>
                    ELSE Reaches(g, tid, q, EdgeStart(start, g.nodes[n].ts), end)
            BY <1>0, <1>1, <2>4, <2>5, TraverseIsRight
        <3> HIDE DEF q
        <3>2. r = q
            BY <2>1 DEF q
        <3> QED BY <3>1, <3>2
    <2> QED BY <1>4, <2>5, <2>6
<1>5. CASE ~(end <= start) /\ n = NoNode
    <2>1. r = rest[Step("search", first, start, end, tid)]
        <3>1. r = rest[[c EXCEPT !.at = "search", !.node = first]]
            BY <1>5, Zenon DEF ComputeCriticalPathRecursive, IsEmpty
        <3>2. [c EXCEPT !.at = "search", !.node = first] = Step("search", first, start, end, tid)
            BY OtherStep, Zenon
        <3> HIDE DEF r, first
        <3> QED BY <3>1, <3>2
    <2> HIDE DEF r, start, end, tid
    <2>2. \/ first = NoNode
          \/ first \in NodesOf(g, tid) /\ g.nodes[first].ts > start
        BY <1>0, StartingAfter
    <2> HIDE DEF first
    <2>3. first \in Nat /\ start < end
        <3>1. first \in Nat
            BY <1>2, <2>2 DEF NoNode
        <3> QED BY <1>0, <1>5, <3>1
    <2>4. /\ r \in Seq(SegmentSet)
          /\ Unmarked(r) => Reaches(g, tid, r, start, end)
        BY <1>0, <1>1, <1>5, <2>1, <2>2, <2>3, SearchIsRight
    <2> QED BY <1>5, <2>4
<1> QED BY <1>3, <1>4, <1>5

(* What follows from a step is right, however far the computation goes.    *)
LEMMA ComputedRight ==
    ASSUME NEW g, NEW base, NEW tids, Computes(g, base, tids)
    PROVE  \A n \in Nat : AllRight(g, base, tids, Computed(g, tids)[n])
<1> DEFINE run == Computed(g, tids)
           S   == {n \in Nat : AllRight(g, base, tids, run[n])}
<1>1. /\ run[0] = [c \in Steps(tids) |-> << Endless >>]
      /\ \A n \in Nat : run[n + 1] = [c \in Steps(tids) |-> Inserted(g, c, run[n])]
    BY ComputedSteps
<1> HIDE DEF run
<1>2. 0 \in S
    <2>1. ASSUME NEW c \in Steps(tids), Wanted(g, base, c) PROVE Right(g, c, run[0][c])
        <3>1. run[0][c] = << Endless >>
            BY <1>1
        <3>2. << Endless >> \in Seq(SegmentSet) /\ ~Unmarked(<< Endless >>)
            BY MarkTypes
        <3> QED BY <3>1, <3>2, Zenon DEF Right
    <2> QED BY <2>1 DEF AllRight
<1>3. ASSUME NEW n \in Nat, n \in S PROVE n + 1 \in S
    <2>1. AllRight(g, base, tids, run[n])
        BY <1>3
    <2>2. ASSUME NEW c \in Steps(tids), Wanted(g, base, c) PROVE Right(g, c, run[n + 1][c])
        <3>1. run[n + 1][c] = Inserted(g, c, run[n])
            BY <1>1
        <3>2. c.at \in {"call", "search", "traverse"}
            BY NextStep
        <3>3. CASE c.at = "call"
            <4>1. Inserted(g, c, run[n]) = ComputeCriticalPathRecursive(g, c, run[n])
                BY <3>3 DEF Inserted
            <4> QED BY <2>1, <2>2, <3>1, <3>3, <4>1, CallRight
        <3>4. CASE c.at = "search"
            <4>1. Inserted(g, c, run[n]) = Search(g, c, run[n])
                BY <3>4 DEF Inserted
            <4> QED BY <2>1, <2>2, <3>1, <3>4, <4>1, SearchRight
        <3>5. CASE c.at = "traverse"
            <4>1. Inserted(g, c, run[n]) = Traverse(g, c, run[n])
                BY <3>5 DEF Inserted
            <4> QED BY <2>1, <2>2, <3>1, <3>5, <4>1, TraverseRight
        <3> QED BY <3>2, <3>3, <3>4, <3>5
    <2> QED BY <2>2 DEF AllRight
<1> HIDE DEF S
<1>4. Nat \subseteq S
    BY <1>2, <1>3, SetInduction
<1> QED BY <1>4 DEF S, run

----------------------------------------------------------------------------
(* The path of a query.                                                    *)

(* What is inserted for a call from outside is right.                      *)
LEMMA SegmentsRight ==
    ASSUME NEW g, GraphSound(g), UnbrokenIn(g), NEW start \in Nat, NEW end \in Nat,
           PacketsKnownIn(g, start), start < end, NEW tid \in Threads, NEW steps \in Nat
    PROVE  LET r == Segments(g, start, end, tid, steps)
           IN  /\ r \in Seq(SegmentSet)
               /\ Unmarked(r) => Reaches(g, tid, r, start, end)
<1> DEFINE tids == {tid} \cup {g.nodes[n].tid : n \in DOMAIN g.nodes}
           rest == Computed(g, tids)[steps]
           q    == rest[Call(start, end, tid)]
<1>1. Computes(g, start, tids) /\ tid \in tids
    BY DEF Computes
<1>2. Segments(g, start, end, tid, steps) = q
    BY DEF Segments
<1> HIDE DEF tids
<1>3. AllRight(g, start, tids, rest)
    BY <1>1, ComputedRight
<1> HIDE DEF rest
<1>4. /\ q \in Seq(SegmentSet)
      /\ Unmarked(q) => IF end <= start THEN q = << >>
                        ELSE Reaches(g, tid, q, start, end)
    <2>1. start <= start
        OBVIOUS
    <2> QED BY <1>1, <1>3, <2>1, CallIsRight
<1> HIDE DEF q
<1> QED BY <1>2, <1>4

LEMMA QueryTypes ==
    ASSUME IInv, NEW q \in Queries
    PROVE  /\ q.start \in Nat /\ q.end \in Nat /\ q.tid \in Threads /\ q.start < q.end
           /\ GraphSound(graph)
<1>1. lastCleanupTs \in Nat /\ graph.ts \in Nat /\ GraphSound(graph)
    BY DEF IInv, TypeOK, IsGraph
<1>2. q.start \in lastCleanupTs..graph.ts /\ q.end \in 1..graph.ts /\ q.tid \in Threads
      /\ q.start < q.end
    BY DEF Queries
<1> QED BY <1>1, <1>2

(* The path of a query is good, and reaches the end if a node does.        *)
LEMMA PathRight ==
    ASSUME IInv, NEW q \in Queries, IsPath(q)
    PROVE  \E t \in Nat :
              /\ Good(graph, PathOf(q), q.start, t)
              /\ \A m \in NodesOf(graph, q.tid) : graph.nodes[m].ts >= q.end => t >= q.end
<1> DEFINE r == SegmentsOf(q)
<1>1. /\ q.start \in Nat /\ q.end \in Nat /\ q.tid \in Threads /\ q.start < q.end
      /\ GraphSound(graph)
    BY QueryTypes
<1>2. UnbrokenIn(graph) /\ PacketsKnownIn(graph, q.start)
    BY DEF IsPath, Unbroken, UnbrokenIn, PacketsKnown, PacketsKnownIn
<1>3. /\ r \in Seq(SegmentSet)
      /\ Unmarked(r) => Reaches(graph, q.tid, r, q.start, q.end)
    BY <1>1, <1>2, MaxStepsAssumption, SegmentsRight DEF SegmentsOf
<1>4. Unmarked(r)
    <2>1. Range(r) \cap {Endless, Undefined} = {}
        BY DEF IsPath, Marks
    <2> HIDE DEF r
    <2>2. \A i \in 1..Len(r) : r[i] \in Range(r)
        <3>1. DOMAIN r = 1..Len(r)
            BY <1>3, LenProperties
        <3> QED BY <3>1, Zenon DEF Range
    <2> QED BY <2>1, <2>2, Zenon DEF Unmarked
<1>5. PathOf(q) = FoldLeft(Insert, << >>, r)
    BY DEF PathOf, ComputeCriticalPath, SegmentsOf
<1> HIDE DEF r
<1>6. PICK t \in Nat :
         /\ Good(graph, r, q.start, t)
         /\ \A m \in NodesOf(graph, q.tid) : graph.nodes[m].ts >= q.end => t >= q.end
    BY <1>3, <1>4 DEF Reaches
<1>7. Good(graph, PathOf(q), q.start, t)
    BY <1>1, <1>5, <1>6, GoodPath
<1> QED BY <1>6, <1>7

(* A thread that is known at a time has a node then or later.              *)
LEMMA KnownHasNode ==
    ASSUME NEW g, GraphSound(g), NEW tid \in Threads, NEW ts \in Nat,
           GetNodeIntersecting(g, ts, tid) # NoNode
    PROVE  \E m \in NodesOf(g, tid) : g.nodes[m].ts >= ts
<1> DEFINE n == GetNodeIntersecting(g, ts, tid)
<1>1. PICK last \in NodesOf(g, tid) :
         LET covers == IF Out(g, last) = NoEdge THEN g.nodes[last].ts = ts
                       ELSE g.nodes[g.edges[Out(g, last)].to].ts >= ts
         IN  n = IF covers THEN last ELSE NoNode
    BY Intersecting
<1> HIDE DEF n
<1>2. n # NoNode
    BY DEF n
<1>3. CASE Out(g, last) = NoEdge
    <2>1. g.nodes[last].ts = ts
        BY <1>1, <1>2, <1>3
    <2> QED BY <2>1
<1>4. CASE Out(g, last) # NoEdge
    <2>1. g.nodes[g.edges[Out(g, last)].to].ts >= ts
        BY <1>1, <1>2, <1>4
    <2>2. g.edges[Out(g, last)].to \in NodesOf(g, tid)
        BY <1>4, OutEdge
    <2> QED BY <2>1, <2>2
<1> QED BY <1>3, <1>4

(* Two edges of a thread that cover one time end at one node.              *)
LEMMA OneEdgeAtATime ==
    ASSUME NEW g, GraphSound(g), NEW e \in DOMAIN g.edges, NEW f \in DOMAIN g.edges,
           IsThreadEdge(g, e), IsThreadEdge(g, f), To(g, e).tid = To(g, f).tid, NEW ts,
           From(g, e).ts <= ts, ts < To(g, e).ts, From(g, f).ts <= ts, ts < To(g, f).ts,
           ts \in Nat
    PROVE  To(g, e) = To(g, f)
<1> DEFINE tid == To(g, e).tid
<1>1. \A x \in {e, f} :
         /\ g.edges[x].from \in NodesOf(g, tid) /\ g.edges[x].to \in NodesOf(g, tid)
         /\ From(g, x) = g.nodes[g.edges[x].from] /\ To(g, x) = g.nodes[g.edges[x].to]
         /\ g.edges[x].from < g.edges[x].to
         /\ \A n \in NodesOf(g, tid) : n <= g.edges[x].from \/ n >= g.edges[x].to
    <2> TAKE x \in {e, f}
    <2>1. /\ x \in DOMAIN g.edges /\ IsThreadEdge(g, x) /\ To(g, x).tid = tid
          /\ ~IsHop(g, x)
        BY DEF IsThreadEdge, IsHop
    <2>2. /\ g.edges[x].from < g.edges[x].to /\ g.edges[x].to \in DOMAIN g.nodes
          /\ g.edges[x].from \in DOMAIN g.nodes
        BY <2>1 DEF GraphSound, EdgesAnchoredIn, Anchored
    <2>3. /\ From(g, x).tid = To(g, x).tid
          /\ \A n \in NodesOf(g, To(g, x).tid) : n <= g.edges[x].from \/ n >= g.edges[x].to
        BY <2>1 DEF GraphSound, ThreadEdgesAdjacentIn
    <2> QED BY <2>1, <2>2, <2>3 DEF NodesOf, From, To
<1> DEFINE a == g.edges[e].from
           b == g.edges[e].to
           c == g.edges[f].from
           d == g.edges[f].to
<1>2. /\ a \in NodesOf(g, tid) /\ b \in NodesOf(g, tid) /\ c \in NodesOf(g, tid)
      /\ d \in NodesOf(g, tid) /\ a < b /\ c < d
      /\ \A n \in NodesOf(g, tid) : (n <= a \/ n >= b) /\ (n <= c \/ n >= d)
      /\ g.nodes[a].ts <= ts /\ ts < g.nodes[b].ts /\ g.nodes[c].ts <= ts /\ ts < g.nodes[d].ts
      /\ To(g, e) = g.nodes[b] /\ To(g, f) = g.nodes[d]
    BY <1>1
<1> HIDE DEF a, b, c, d, tid
<1>3. /\ a \in Nat /\ b \in Nat /\ c \in Nat /\ d \in Nat
      /\ \A n \in {a, b, c, d} : g.nodes[n].ts \in Nat /\ n \in DOMAIN g.nodes
    <2>1. \A n \in NodesOf(g, tid) : n \in DOMAIN g.nodes /\ n \in Nat /\ g.nodes[n].ts \in Nat
        BY GraphNodes DEF NodesOf
    <2> QED BY <1>2, <2>1
<1>4. ~(b < d) /\ ~(d < b)
    <2>1. ASSUME b < d PROVE FALSE
        <3>1. b <= c
            BY <1>2, <1>3, <2>1
        <3>2. g.nodes[b].ts <= g.nodes[c].ts
            <4>1. CASE b < c
                BY <1>3, <4>1, GraphNodes
            <4>2. CASE b = c
                BY <1>3, <4>2
            <4> QED BY <1>3, <3>1, <4>1, <4>2
        <3> QED BY <1>2, <1>3, <3>2
    <2>2. ASSUME d < b PROVE FALSE
        <3>1. d <= a
            BY <1>2, <1>3, <2>2
        <3>2. g.nodes[d].ts <= g.nodes[a].ts
            <4>1. CASE d < a
                BY <1>3, <4>1, GraphNodes
            <4>2. CASE d = a
                BY <1>3, <4>2
            <4> QED BY <1>3, <3>1, <4>1, <4>2
        <3> QED BY <1>2, <1>3, <3>2
    <2> QED BY <2>1, <2>2
<1>5. b = d
    BY <1>3, <1>4
<1> QED BY <1>2, <1>5

(* What the path of a query says is what the graph says.                   *)
LEMMA PathSays ==
    ASSUME IInv, NEW q \in Queries, IsPath(q), NEW i \in DOMAIN PathOf(q),
           NEW ts \in PathOf(q)[i].start..(PathOf(q)[i].end - 1)
    PROVE  /\ Says(graph, PathOf(q)[i].tid, PathOf(q)[i].type, ts)
           /\ ts \in Nat
<1> DEFINE p == PathOf(q)
<1>1. PICK t \in Nat : Good(graph, p, q.start, t)
    BY PathRight
<1> HIDE DEF p
<1>2. p \in Seq(SegmentSet) /\ \A j \in 1..Len(p) : Honest(graph, p[j])
    BY <1>1 DEF Good
<1>3. i \in 1..Len(p)
    BY <1>2, LenProperties DEF p
<1>4. Honest(graph, p[i]) /\ p[i] \in SegmentSet
    BY <1>2, <1>3, ElementOfSeq
<1>5. p[i].start \in Nat /\ p[i].end \in Nat
    BY <1>4, SegmentTimes
<1>6. ts \in p[i].start..(p[i].end - 1)
    BY DEF p
<1>7. Says(graph, p[i].tid, p[i].type, ts) /\ ts \in Nat
    BY <1>4, <1>5, <1>6 DEF Honest
<1> QED BY <1>7 DEF p

(* The path of a thread between two times begins with the first, each      *)
(* segment begins where the one before ended, and the last reaches the     *)
(* second if the graph knows the thread then; only packets overlap what    *)
(* is beside them (ComputeCriticalPath.cpp:132-223), whatever the build    *)
(* and however many threads it leads through.                              *)
THEOREM PathsAreContiguous == Spec => []PathContiguous
<1>1. IInv => PathContiguous
    <2> SUFFICES ASSUME IInv, NEW q \in Queries, IsPath(q)
                 PROVE  LET path == PathOf(q)
                        IN  /\ path # << >> => Follows(path[1], q.start, q.tid)
                            /\ \A i \in 2..Len(path) :
                                  Follows(path[i], path[i - 1].end, path[i - 1].tid)
                            /\ IsKnown(q) => path # << >> /\ Last(path).end >= q.end
        BY DEF PathContiguous
    <2> DEFINE path == PathOf(q)
    <2>1. /\ q.start \in Nat /\ q.end \in Nat /\ q.tid \in Threads /\ q.start < q.end
          /\ GraphSound(graph)
        BY QueryTypes
    <2>2. PICK t \in Nat :
             /\ Good(graph, path, q.start, t)
             /\ \A m \in NodesOf(graph, q.tid) : graph.nodes[m].ts >= q.end => t >= q.end
        BY PathRight
    <2> HIDE DEF path
    <2>3. /\ path \in Seq(SegmentSet)
          /\ path = << >> => q.start = t
          /\ path # << >> => Follows(path[1], q.start, InvalidThread) /\ Ends(path[Len(path)], t)
          /\ \A i \in 2..Len(path) : Follows(path[i], path[i - 1].end, path[i - 1].tid)
        BY <2>2 DEF Good, Joined
    <2>4. ASSUME path # << >> PROVE Follows(path[1], q.start, q.tid)
        <3>1. Follows(path[1], q.start, InvalidThread) /\ NetworkThread # InvalidThread
            BY <2>3, <2>4, InvalidThreadAssumption DEF Tids
        <3> QED BY <3>1 DEF Follows
    <2>5. ASSUME IsKnown(q) PROVE path # << >> /\ Last(path).end >= q.end
        <3>1. t >= q.end
            <4>1. GetNodeIntersecting(graph, q.end, q.tid) # NoNode
                BY <2>5 DEF IsKnown
            <4> QED BY <2>1, <2>2, <4>1, KnownHasNode
        <3>2. path # << >>
            BY <2>1, <2>3, <3>1
        <3>3. Len(path) \in 1..Len(path)
            BY <2>3, <3>2, LenProperties, EmptySeq
        <3>4. path[Len(path)] \in SegmentSet
            BY <2>3, <3>3, ElementOfSeq
        <3>5. path[Len(path)].end \in Nat
            BY <3>4, SegmentTimes
        <3>6. path[Len(path)].end >= t
            BY <2>3, <3>2, <3>5 DEF Ends
        <3>7. Last(path) = path[Len(path)]
            BY DEF Last
        <3> QED BY <2>1, <3>1, <3>2, <3>5, <3>6, <3>7
    <2> QED BY <2>3, <2>4, <2>5 DEF path
<1> QED BY <1>1, Inductive, PTL

(* A segment of a path says of a thread what the graph says of it at that  *)
(* time, or that it waits where the graph says nothing                     *)
(* (ComputeCriticalPath.cpp:179-190, 205-219).                             *)
THEOREM PathsAreHonest == Spec => []PathHonest
<1>1. IInv => PathHonest
    <2> SUFFICES ASSUME IInv, NEW q \in Queries, IsPath(q), NEW i \in DOMAIN PathOf(q),
                        NEW ts \in PathOf(q)[i].start..(PathOf(q)[i].end - 1)
                 PROVE  \/ \E e \in DOMAIN graph.edges :
                              /\ ~IsVertical(graph, e) /\ To(graph, e).tid = PathOf(q)[i].tid
                              /\ graph.edges[e].type = PathOf(q)[i].type
                              /\ From(graph, e).ts <= ts /\ ts < To(graph, e).ts
                        \/ /\ PathOf(q)[i].type = "kWaitBlocked"
                           /\ GetNodeIntersecting(graph, ts, PathOf(q)[i].tid) = NoNode
        BY DEF PathHonest
    <2>1. Says(graph, PathOf(q)[i].tid, PathOf(q)[i].type, ts)
        BY PathSays
    <2> QED BY <2>1, Zenon DEF Says
<1> QED BY <1>1, Inductive, PTL

(* A wait that the graph knows somebody ended is not in a path: the path   *)
(* is that of who ended it (ComputeCriticalPath.cpp:56-130).               *)
THEOREM PathsBlameTheWaker == Spec => []PathBlamesWaker
<1>1. IInv => PathBlamesWaker
    <2> SUFFICES ASSUME IInv, NEW q \in Queries, IsPath(q), NEW i \in DOMAIN PathOf(q),
                        NEW e \in DOMAIN graph.edges,
                        IsThreadEdge(graph, e), IsWait(graph, e),
                        To(graph, e).tid = PathOf(q)[i].tid,
                        graph.edges[e].type = PathOf(q)[i].type,
                        NEW ts \in PathOf(q)[i].start..(PathOf(q)[i].end - 1),
                        From(graph, e).ts <= ts, ts < To(graph, e).ts,
                        To(graph, e).edge["inVertical"] # NoEdge
                 PROVE  FALSE
        BY DEF PathBlamesWaker
    <2>1. Says(graph, To(graph, e).tid, graph.edges[e].type, ts) /\ ts \in Nat
        BY PathSays
    <2>2. GraphSound(graph)
        BY DEF IInv
    <2>3. CASE \E f \in DOMAIN graph.edges :
                  /\ ~IsVertical(graph, f) /\ To(graph, f).tid = To(graph, e).tid
                  /\ graph.edges[f].type = graph.edges[e].type
                  /\ From(graph, f).ts <= ts /\ ts < To(graph, f).ts
                  /\ IsThreadEdge(graph, f) /\ IsWait(graph, f)
                        => To(graph, f).edge["inVertical"] = NoEdge
        <3>1. PICK f \in DOMAIN graph.edges :
                  /\ ~IsVertical(graph, f) /\ To(graph, f).tid = To(graph, e).tid
                  /\ graph.edges[f].type = graph.edges[e].type
                  /\ From(graph, f).ts <= ts /\ ts < To(graph, f).ts
                  /\ IsThreadEdge(graph, f) /\ IsWait(graph, f)
                        => To(graph, f).edge["inVertical"] = NoEdge
            BY <2>3
        <3>2. IsThreadEdge(graph, f) /\ IsWait(graph, f)
            BY <3>1 DEF IsThreadEdge, IsWait
        <3>3. To(graph, e) = To(graph, f)
            BY <2>1, <2>2, <3>1, <3>2, OneEdgeAtATime
        <3> QED BY <3>1, <3>2, <3>3
    <2>4. CASE GetNodeIntersecting(graph, ts, To(graph, e).tid) = NoNode
        <3> DEFINE tid == To(graph, e).tid
                   a == graph.edges[e].from
                   b == graph.edges[e].to
        <3>1. UnbrokenIn(graph)
            BY DEF IsPath, Unbroken, UnbrokenIn
        <3>2. /\ a \in DOMAIN graph.nodes /\ b \in DOMAIN graph.nodes
              /\ From(graph, e).tid = tid
            <4>1. ~IsHop(graph, e)
                BY DEF IsThreadEdge, IsHop
            <4> QED BY <2>2, <4>1 DEF GraphSound, EdgesAnchoredIn, Anchored, ThreadEdgesAdjacentIn
        <3>3. /\ a \in NodesOf(graph, tid) /\ b \in NodesOf(graph, tid)
              /\ graph.nodes[a].ts <= ts /\ ts < graph.nodes[b].ts
            BY <3>2 DEF NodesOf, From, To
        <3>4. tid \in Threads /\ graph.nodes[b].ts \in Nat
            <4>1. tid \in Tids /\ graph.nodes[b].ts \in Nat
                BY <2>2, <3>2, GraphNodes DEF To
            <4> QED BY <4>1 DEF IsThreadEdge, Tids
        <3> HIDE DEF tid, a, b
        <3>5. graph.nodes[b].ts >= ts
            BY <2>1, <3>3, <3>4
        <3>6. GetNodeIntersecting(graph, ts, tid) # NoNode
            BY <2>1, <2>2, <3>1, <3>3, <3>4, <3>5, KnownBetween
        <3> QED BY <2>4, <3>6 DEF tid
    <2> QED BY <2>1, <2>3, <2>4, Zenon DEF Says
<1> QED BY <1>1, Inductive, PTL

=============================================================================
