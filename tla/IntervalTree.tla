---------------------------- MODULE IntervalTree ----------------------------
(***************************************************************************)
(* src/containers/RedBlackIntervalTree.hpp: a left-leaning red-black tree  *)
(* of intervals, ordered by their lower bound.  A node is a record that    *)
(* holds its children and every element with its bound, from the lowest to *)
(* the highest upper bound.  An element is [low, high, tid].               *)
(***************************************************************************)
EXTENDS Integers, SequencesExt

CONSTANT NULL

Largest(a, b) == IF a < b THEN b ELSE a

NodeMaxHigh(n) == Last(n.elements).high

SubtreeMaxHigh(n) == IF n = NULL THEN 0 ELSE n.max

(* The right child is not looked at.                                       *)
MutUpdateSubtreeMaxHigh(n) ==
    [n EXCEPT !.max = Largest(SubtreeMaxHigh(n.left), NodeMaxHigh(n))]

UpdateSubtreeMaxHigh(n) ==
    [n EXCEPT !.max = Largest(Largest(SubtreeMaxHigh(n.left), SubtreeMaxHigh(n.right)),
                              NodeMaxHigh(n))]

SetLeft(n, left)   == UpdateSubtreeMaxHigh([n EXCEPT !.left = left])
SetRight(n, right) == UpdateSubtreeMaxHigh([n EXCEPT !.right = right])

NewNode(e) ==
    [key |-> e.low, elements |-> << e >>, red |-> TRUE,
     left |-> NULL, right |-> NULL, max |-> e.high]

(* Elements with the same bounds may come in any order out of std::sort;   *)
(* here the new one comes after the old ones.                              *)
AddElement(n, e) ==
    UpdateSubtreeMaxHigh(
        [n EXCEPT !.elements = SelectSeq(@, LAMBDA f : f.high <= e.high) \o << e >>
                               \o SelectSeq(@, LAMBDA f : f.high > e.high)])

IsRed(n) == n # NULL /\ n.red

Flipped(n) == IF n = NULL THEN n ELSE [n EXCEPT !.red = ~@]

FlipColors(h) ==
    [h EXCEPT !.red = ~@, !.left = Flipped(@), !.right = Flipped(@)]

RotateLeft(h) ==
    LET child == h.right
    IN  SetLeft([child EXCEPT !.red = h.red],
                [SetRight(h, child.left) EXCEPT !.red = TRUE])

RotateRight(h) ==
    LET child == h.left
    IN  SetRight([child EXCEPT !.red = h.red],
                 [SetLeft(h, child.right) EXCEPT !.red = TRUE])

(* What InsertInternal does on its way back up.                            *)
Balanced(h) ==
    LET rotated == IF ~IsRed(h.left) /\ IsRed(h.right) THEN RotateLeft(h) ELSE h
    IN  IF IsRed(rotated.left) /\ IsRed(rotated.left.left) THEN RotateRight(rotated)
        ELSE rotated

RECURSIVE InsertInternal(_, _)

InsertInternal(node, e) ==
    LET h == IF node # NULL /\ IsRed(node.left) /\ IsRed(node.right)
             THEN FlipColors(node) ELSE node
    IN  IF node = NULL THEN NewNode(e)
        ELSE Balanced(IF e.low < h.key THEN SetLeft(h, InsertInternal(h.left, e))
                      ELSE IF e.low = h.key THEN AddElement(h, e)
                      ELSE SetRight(h, InsertInternal(h.right, e)))

Insert(tree, e) ==
    [root |-> [InsertInternal(tree.root, e) EXCEPT !.red = FALSE], size |-> tree.size + 1]

EmptyTree == [root |-> NULL, size |-> 0]

RECURSIVE EnumerateIntersectionInternal(_, _, _)

(* The left child's own elements decide, not the maximum of its subtree.   *)
MutEnumerateIntersectionInternal(h, low, high) ==
    LET left  == IF h.left # NULL /\ NodeMaxHigh(h.left) > low
                 THEN EnumerateIntersectionInternal(h.left, low, high) ELSE << >>
        here  == IF NodeMaxHigh(h) > low
                 THEN Reverse(SelectSeq(h.elements, LAMBDA e : e.high >= low)) ELSE << >>
    IN  IF h = NULL THEN << >>
        ELSE IF h.key > high THEN left
        ELSE left \o here \o EnumerateIntersectionInternal(h.right, low, high)

(* The elements that the callback gets, in their order.  An element whose  *)
(* upper bound is the lower bound of the search is found if another        *)
(* element of its node goes beyond.                                        *)
EnumerateIntersectionInternal(h, low, high) ==
    LET left  == IF SubtreeMaxHigh(h.left) > low
                 THEN EnumerateIntersectionInternal(h.left, low, high) ELSE << >>
        here  == IF NodeMaxHigh(h) > low
                 THEN Reverse(SelectSeq(h.elements, LAMBDA e : e.high >= low)) ELSE << >>
    IN  IF h = NULL THEN << >>
        ELSE IF h.key > high THEN left
        ELSE left \o here \o EnumerateIntersectionInternal(h.right, low, high)

EnumerateIntersection(tree, low, high) == EnumerateIntersectionInternal(tree.root, low, high)

----------------------------------------------------------------------------
(* What a red-black tree of intervals is, node by node.                    *)
RECURSIVE KeysOf(_), HighsOf(_), BlackHeights(_), IsRedBlack(_), HasMaxima(_), IsOrdered(_)

KeysOf(n) == IF n = NULL THEN {} ELSE {n.key} \cup KeysOf(n.left) \cup KeysOf(n.right)

HighsOf(n) ==
    IF n = NULL THEN {}
    ELSE {n.elements[i].high : i \in DOMAIN n.elements} \cup HighsOf(n.left) \cup HighsOf(n.right)

(* The numbers of black nodes on the ways down from a node.                *)
BlackHeights(n) ==
    IF n = NULL THEN {0}
    ELSE {h + (IF n.red THEN 0 ELSE 1) : h \in BlackHeights(n.left) \cup BlackHeights(n.right)}

IsOrdered(n) ==
    n # NULL =>
        /\ \A key \in KeysOf(n.left) : key < n.key
        /\ \A key \in KeysOf(n.right) : key > n.key
        /\ \A i \in DOMAIN n.elements : n.elements[i].low = n.key
        /\ IsOrdered(n.left) /\ IsOrdered(n.right)

IsRedBlack(n) ==
    n # NULL =>
        /\ IsRed(n) => ~IsRed(n.left) /\ ~IsRed(n.right)
        /\ IsRed(n.right) => IsRed(n.left)
        /\ Cardinality(BlackHeights(n)) = 1
        /\ IsRedBlack(n.left) /\ IsRedBlack(n.right)

HasMaxima(n) ==
    n # NULL => n.max = Max(HighsOf(n)) /\ HasMaxima(n.left) /\ HasMaxima(n.right)

============================================================================
