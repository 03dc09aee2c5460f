---------------------------- MODULE StateHistory ----------------------------
(***************************************************************************)
(* src/state/StateHistory.{hpp,cpp}.  The history of an attribute is a     *)
(* sequence of entries, oldest first; the two maps of the class, for       *)
(* 32-bit and for 64-bit values, have the same code.  A method is an       *)
(* operator on the history of its key, since a handler calls several.      *)
(***************************************************************************)
EXTENDS Integers, Sequences, FiniteSetsExt

CONSTANTS
    Unknown,        \* Get...Value returns false
    ULongModulus    \* 2^64

ASSUME ModulusAssumption == ULongModulus \in Nat \ {0, 1}

kInvalid == ULongModulus - 1

----------------------------------------------------------------------------
(* Values over time.                                                       *)

(* front() for back().                                                     *)
MutSetValue(h, now, v) ==
    IF h # << >> /\ h[1].value = v THEN h
    ELSE Append(h, [ts |-> now, value |-> v])

(* SetUIntegerValue and SetULongValue: only a change is entered.           *)
SetValue(h, now, v) ==
    IF h # << >> /\ h[Len(h)].value = v THEN h
    ELSE Append(h, [ts |-> now, value |-> v])

(* The entries in front of std::upper_bound, and of std::lower_bound.      *)
UpTo(h, ts)   == {i \in DOMAIN h : h[i].ts <= ts}
Before(h, ts) == {i \in DOMAIN h : h[i].ts < ts}

GetValue(h, ts) == IF UpTo(h, ts) = {} THEN Unknown ELSE h[Max(UpTo(h, ts))].value

GetLastValue(h) == IF h = << >> THEN 0 ELSE h[Len(h)].value

(* The entry in force at ts is cleaned with the others.                    *)
MutCleanup(h, ts) ==
    IF Before(h, ts) = {} THEN h ELSE SubSeq(h, Max(Before(h, ts)) + 1, Len(h))

(* Cleanup keeps the last entry before ts: it is in force at ts, unless    *)
(* there is one at ts.                                                     *)
Cleanup(h, ts) ==
    IF Before(h, ts) = {} THEN h ELSE SubSeq(h, Max(Before(h, ts)), Len(h))

(* The end of an interval is not cut at the end of the enumeration.        *)
MutIntervalEnd(h, i, end) == IF i < Len(h) THEN h[i + 1].ts ELSE end

IntervalEnd(h, i, end) ==
    IF i < Len(h) /\ h[i + 1].ts < end THEN h[i + 1].ts ELSE end

(* EnumerateUIntegerValues: the calls of the callback, by the entry that   *)
(* each is about, in their order.                                          *)
Enumerated(h, start, end) ==
    LET first == IF UpTo(h, start) = {} THEN 1 ELSE Max(UpTo(h, start))
        shown == {i \in first..Len(h) : \A j \in first..i : h[j].ts < end}
    IN  [i \in shown |-> [value |-> h[i].value,
                          start |-> IF h[i].ts < start THEN start ELSE h[i].ts,
                          end   |-> IntervalEnd(h, i, end)]]

----------------------------------------------------------------------------
(* Performance counters.  A counter is the history of a key and the state  *)
(* that _perfCounterStates keeps for it.                                   *)

InvalidState == [cpuAbsolute |-> kInvalid, cpuReal |-> kInvalid,
                 threadAbsolute |-> kInvalid, threadReal |-> kInvalid]

NewCounter == [history |-> << >>, state |-> InvalidState]

(* Only the difference is truncated to 64 bits.                            *)
MutMinReal(real, from, to) == real + ((to - from) % ULongModulus)

(* What the counter must at least be when the hardware has gone from one   *)
(* value to another since it was real.                                     *)
MinReal(real, from, to) == (real + to - from) % ULongModulus

(* std::max is forgotten.                                                  *)
MutRealNow(h, minReal) == minReal

RealNow(h, minReal) ==
    IF GetLastValue(h) < minReal THEN minReal ELSE GetLastValue(h)

AdvanceCpu(counter, now, value) ==
    LET s    == counter.state
        real == RealNow(counter.history, MinReal(s.cpuReal, s.cpuAbsolute, value))
    IN  [history |-> SetValue(counter.history, now, real),
         state   |-> [s EXCEPT !.cpuAbsolute = value, !.cpuReal = real]]

(* The absolute value is still that of the previous run.                   *)
MutSetPerfCounterCpuBaseValue(counter, now, value) ==
    LET based == [counter EXCEPT !.state.cpuReal = GetLastValue(counter.history)]
    IN  IF counter.history = << >>
        THEN AdvanceCpu([based EXCEPT !.state.cpuAbsolute = value], now, value)
        ELSE based

(* A counter without history gets its first entry from                     *)
(* SetPerfCounterCpuValue, which finds the absolute value that was just    *)
(* set (a hardware counter never reaches kInvalid).                        *)
SetPerfCounterCpuBaseValue(counter, now, value) ==
    LET based == [counter EXCEPT !.state.cpuAbsolute = value,
                                 !.state.cpuReal = GetLastValue(counter.history)]
    IN  IF counter.history = << >> THEN AdvanceCpu(based, now, value) ELSE based

SetPerfCounterCpuValue(counter, now, value) ==
    IF counter.state.cpuAbsolute = kInvalid \/ counter.state.cpuAbsolute > value
    THEN SetPerfCounterCpuBaseValue(counter, now, value)
    ELSE AdvanceCpu(counter, now, value)

(* The first value of a thread only says from where to count.              *)
SetPerfCounterThreadValue(counter, now, value) ==
    LET s    == counter.state
        h    == counter.history
        real == RealNow(h, MinReal(s.threadReal, s.threadAbsolute, value))
    IN  IF s.threadAbsolute = kInvalid
        THEN [history |-> IF h = << >> THEN SetValue(h, now, 0) ELSE h,
              state   |-> [s EXCEPT !.threadAbsolute = value,
                                    !.threadReal = GetLastValue(h)]]
        ELSE [history |-> SetValue(h, now, real),
              state   |-> [s EXCEPT !.threadAbsolute = value, !.threadReal = real]]

=============================================================================
