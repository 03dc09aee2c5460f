----------------------------- MODULE RequestBag -----------------------------
(***************************************************************************)
(* What the disk requests promise, and what CriticalBlock takes them for:  *)
(* a bag of the requests of threads, from which a cleanup takes those that *)
(* ended before a time and none that goes on after it.  Nothing is said of *)
(* a request that ended just at the time.  By the comments it stays, since *)
(* it touches the time (Interval.hpp:28, RedBlackIntervalTree.hpp:56-57)   *)
(* and is not before it (DiskRequests.hpp:43); in the code it goes, unless *)
(* another one of the same start goes on (RedBlackIntervalTree.hpp:279,    *)
(* 293).                                                                   *)
(***************************************************************************)
EXTENDS Integers, Bags, BagsExt, Functions

VARIABLE requests

GoOn(bag, ts)    == {d \in DOMAIN bag : d.high > ts}
EndWith(bag, ts) == {d \in DOMAIN bag : d.high = ts}

Add(d) == requests' = BagAdd(requests, d)

Clean(ts) ==
    \E touching \in SUBSET EndWith(requests, ts) :
        requests' = Restrict(requests, GoOn(requests, ts) \cup touching)

Init == requests = EmptyBag

============================================================================
