------------------------------ MODULE TimedMap ------------------------------
(***************************************************************************)
(* What src/state/StateHistory promises: for every attribute, the value it *)
(* had at every time, from a horizon that a cleanup moves forward.  The    *)
(* current value holds from now on, until another is written.              *)
(***************************************************************************)
EXTENDS Integers

CONSTANTS Keys, Values, Unknown, MaxTs

VARIABLES now, horizon, current, value

Times == 0..MaxTs

Init ==
    /\ now = 0
    /\ horizon = 0
    /\ current = [k \in Keys |-> Unknown]
    /\ value = [k \in Keys |-> [t \in Times |-> Unknown]]

(* The time passes, and what is before the cut may be forgotten with it.   *)
Pass(ts, cut) ==
    /\ ts >= now /\ horizon <= cut /\ cut <= ts
    /\ now' = ts
    /\ horizon' = cut
    /\ value' = [k \in Keys |-> [t \in Times |->
                   IF t < cut THEN Unknown ELSE value[k][t]]]
    /\ UNCHANGED current

(* One event may write several attributes.                                 *)
Write ==
    /\ current' = [k \in Keys |-> current'[k]]
    /\ \A k \in Keys : current'[k] \in Values \cup {current[k]}
    /\ value' = [k \in Keys |-> [t \in Times |->
                   IF t >= now THEN current'[k] ELSE value[k][t]]]
    /\ UNCHANGED <<now, horizon>>

Next == Write \/ \E ts, cut \in Times : Pass(ts, cut)

Spec == Init /\ [][Next]_<<now, horizon, current, value>>

=============================================================================
