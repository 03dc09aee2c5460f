---------------------------- MODULE Stacks_proofs ----------------------------
(***************************************************************************)
(* Why the stacks that ProfilerBlock builds are those that were reported:  *)
(* the inductive invariant of StacksBlocks, and the theorems about its     *)
(* specification.                                                          *)
(***************************************************************************)
EXTENDS StacksBlocks, DataInduction

SysNames == Syscalls \cup {"No Stack"}

Entries == [stackId : StackIds, startTs : Nat, endTs : Nat,
            isSyscall : BOOLEAN, isResolved : BOOLEAN]

(* Where a thread that is not in a system call can be.                     *)
UserStacks == {kEmptyStackId, NoStack} \cup {StackOf(s) : s \in Samples}

(* A system call that a thread is in, or that a sample is due for.         *)
Calls == [since : Nat, name : Syscalls, reported : BOOLEAN,
          from : UserStacks \cup {Unknown}, until : Nat]

----------------------------------------------------------------------------
(* The invariant of a thread, as a predicate on its history h, the system  *)
(* call c that it is in, the stack r that it was last reported in, its     *)
(* line ln, the call o that a sample is due for, the time n, and the last  *)
(* cleaning, before low.                                                   *)

(* Each entry of a history ends where the next one starts, and none after  *)
(* n.                                                                      *)
Ordered(h, n) ==
    /\ h \in Seq(Entries)
    /\ \A i \in 1..Len(h) : h[i].startTs <= h[i].endTs /\ h[i].endTs <= n
    /\ \A i, j \in 1..Len(h) : i < j => h[i].endTs <= h[j].startTs
    /\ \A i \in 1..(Len(h) - 1) : h[i].endTs = h[i + 1].startTs

StartsBy(h, limit) == \A i \in 1..Len(h) : h[i].startTs <= limit

(* A system call is shown by its name only, until it is resolved.          *)
Named(e) ==
    /\ e.stackId # kEmptyStackId
    /\ e.isSyscall /\ ~e.isResolved => \E name \in SysNames : e.stackId = << name >>

AllNamed(h) == \A i \in 1..Len(h) : Named(h[i])

(* The last entry that starts by u, if there is one, shows r.              *)
Tells(h, u, r) ==
    \/ Shows(kEmptyStackId, r) /\ \A i \in 1..Len(h) : h[i].startTs > u
    \/ \E k \in 1..Len(h) : /\ Shows(h[k].stackId, r) /\ h[k].startTs <= u
                            /\ \A j \in (k + 1)..Len(h) : h[j].startTs > u

(* From when on the tracer has not told yet where the thread was.          *)
Limit(c, n, mode) == IF mode = "latency" /\ c # NoCall THEN c.since ELSE n

HistoryOK(h, c, n, mode) ==
    Ordered(h, n) /\ AllNamed(h) /\ StartsBy(h, Limit(c, n, mode))

LineOK(h, c, ln, n, low, mode) ==
    \A u \in low..(Limit(c, n, mode) - 1) : ln[u] # Unknown => Tells(h, u, ln[u])

(* The last entry shows where the thread was last reported.                *)
TopOK(h, c, r, mode) ==
    /\ r \in UserStacks \cup {Unknown} \/ (c # NoCall /\ c.reported)
    /\ mode = "latency" => r # Unknown
    /\ r # Unknown =>
          IF r = kEmptyStackId THEN h = << >>
          ELSE h # << >> /\ Shows(h[Len(h)].stackId, r)

(* The entry of a call that is known comes last, and before it the one to  *)
(* go back to, unless the cleaning has removed it.                         *)
CallComesLast(h, c, low) ==
    /\ h # << >> /\ h[Len(h)].startTs = c.since /\ h[Len(h)].stackId = << c.name >>
    /\ h[Len(h)].isSyscall /\ ~h[Len(h)].isResolved
    /\ IF c.from = kEmptyStackId \/ c.since < low THEN Len(h) = 1
       ELSE Len(h) > 1 /\ Shows(h[Len(h) - 1].stackId, c.from)

CallOK(h, c, r, ln, n, low, mode) ==
    c # NoCall =>
      /\ c \in Calls /\ c.since <= n
      /\ mode = "latency" => /\ ~c.reported /\ c.from = r
                             /\ \A u \in c.since..(n - 1) : ln[u] = r
      /\ c.reported /\ c.from # Unknown => CallComesLast(h, c, low)

(* The entry of a call that a sample is due for comes just before the last *)
(* one, unless the cleaning has removed it.                                *)
OwedOK(h, c, o, n) ==
    o # NoCall =>
      /\ c = NoCall
      /\ o.reported =>
            /\ o \in Calls /\ o.until - o.since >= kMinSyscallDuration /\ o.until <= n
            /\ h # << >> /\ h[Len(h)].startTs = o.until
            /\ Len(h) > 1 =>
                 h[Len(h) - 1] = [stackId |-> << o.name >>, startTs |-> o.since,
                                  endTs |-> o.until, isSyscall |-> TRUE, isResolved |-> FALSE]

ThreadOK(h, c, r, ln, o, n, low, mode) ==
    /\ HistoryOK(h, c, n, mode)
    /\ LineOK(h, c, ln, n, low, mode)
    /\ TopOK(h, c, r, mode)
    /\ CallOK(h, c, r, ln, n, low, mode)
    /\ OwedOK(h, c, o, n)

TimesOK ==
    /\ now \in 0..MaxTs /\ saveTs \in Nat /\ lastCleanupTs \in Nat
    /\ lastCleanupTs <= saveTs /\ saveTs <= now
    /\ reports \in {"events", "latency"}

FunctionsOK ==
    /\ stacks \in [Profiled -> Seq(Entries)]
    /\ DOMAIN call = Profiled /\ DOMAIN top = Profiled
    /\ DOMAIN line = Profiled /\ DOMAIN owed = Profiled

ThreadsOK ==
    \A tid \in Profiled :
        ThreadOK(stacks[tid], call[tid], top[tid], line[tid], owed[tid],
                 now, lastCleanupTs, reports)

(* The inductive invariant.                                                *)
IInv == TimesOK /\ FunctionsOK /\ ThreadsOK

----------------------------------------------------------------------------
(* The identifiers.                                                        *)

(* What a system call shows is its name. *)
LEMMA NameStack ==
    ASSUME NEW name
    PROVE  GetStackIdentifier(<< name >>) = << name >>
<1>1. Len(<< name >>) = 1 /\ << name >> # << >>
    OBVIOUS
<1>2. Reverse(<< name >>) = [i \in 1..1 |-> << name >>[(1 - i) + 1]]
    BY <1>1 DEF Reverse
<1>3. [i \in 1..1 |-> << name >>[(1 - i) + 1]] = << name >>
    OBVIOUS
<1> QED BY <1>1, <1>2, <1>3 DEF GetStackIdentifier

(* Reversing a sequence keeps its elements and its length.                 *)
LEMMA ReverseType ==
    ASSUME NEW T, NEW s \in Seq(T)
    PROVE  Reverse(s) \in Seq(T) /\ Len(Reverse(s)) = Len(s)
<1> DEFINE e(i) == s[(Len(s) - i) + 1]
<1>1. Len(s) \in Nat
    OBVIOUS
<1>2. \A i \in 1..Len(s) : e(i) \in T
    <2> TAKE i \in 1..Len(s)
    <2>1. (Len(s) - i) + 1 \in 1..Len(s)
        BY <1>1
    <2> QED BY <2>1, ElementOfSeq
<1>3. Reverse(s) = [i \in 1..Len(s) |-> e(i)]
    BY DEF Reverse
<1> HIDE DEF e
<1>4. [i \in 1..Len(s) |-> e(i)] \in Seq(T)
    BY <1>1, <1>2, IsASeq
<1>5. Len([i \in 1..Len(s) |-> e(i)]) = Len(s)
    BY <1>1
<1> QED BY <1>3, <1>4, <1>5

(* A sample is a stack of functions, none of which is a system call.       *)
LEMMA SampleStack ==
    ASSUME NEW sample \in Samples
    PROVE  /\ StackOf(sample) \in StackIds /\ StackOf(sample) # << >>
           /\ StackOf(sample)[1] \notin SysNames
           /\ StackOf(sample)[Len(StackOf(sample))] \notin SysNames
<1> DEFINE U == Symbols \cup {"empty"}
           e(i) == IF sample[i] \in ProfilerFrames THEN << >> ELSE << sample[i] >>
           kept == [i \in 1..Len(sample) |-> e(i)]
           id == StackOf(sample)
<1>1. sample \in Seq(Symbols) /\ DOMAIN sample = 1..Len(sample) /\ Len(sample) \in Nat
    BY StacksNamesAssumption, LenProperties
<1>2. ReadStack(sample) \in Seq(Symbols)
    <2>1. \A i \in 1..Len(sample) : e(i) \in Seq(Symbols)
        BY <1>1, ElementOfSeq
    <2>2. ReadStack(sample) = FlattenSeq(kept)
        BY <1>1, Zenon DEF ReadStack
    <2> HIDE DEF e
    <2>3. kept \in Seq(Seq(Symbols))
        BY <1>1, <2>1, IsASeq
    <2> HIDE DEF kept
    <2> QED BY <2>2, <2>3, FlattenSeqType
<1>3. id \in Seq(U) /\ id # << >>
    <2>1. CASE ReadStack(sample) = << >>
        BY <2>1 DEF StackOf, GetStackIdentifier
    <2>2. CASE ReadStack(sample) # << >>
        <3>1. id = Reverse(ReadStack(sample))
            BY <2>2 DEF StackOf, GetStackIdentifier
        <3>2. /\ Reverse(ReadStack(sample)) \in Seq(Symbols)
              /\ Len(Reverse(ReadStack(sample))) = Len(ReadStack(sample))
            BY <1>2, ReverseType
        <3>3. Len(ReadStack(sample)) # 0
            BY <1>2, <2>2
        <3> HIDE DEF id
        <3>4. id \in Seq(U)
            BY <3>1, <3>2, SeqMonotonic
        <3>5. id # << >>
            BY <3>1, <3>2, <3>3
        <3> QED BY <3>4, <3>5
    <2> QED BY <2>1, <2>2
<1>4. U \cap SysNames = {}
    BY StacksNamesAssumption DEF SysNames
<1>5. id \in StackIds
    <2>1. U \subseteq Symbols \cup Syscalls \cup {"No Stack", "empty"}
        OBVIOUS
    <2> HIDE DEF U, id
    <2> QED BY <1>3, <2>1, SeqMonotonic, Zenon DEF StackIds
<1> HIDE DEF U, id
<1>6. id[1] \in U /\ id[Len(id)] \in U
    <2>1. Len(id) \in 1..Len(id) /\ 1 \in 1..Len(id)
        BY <1>3
    <2> QED BY <1>3, <2>1, ElementOfSeq
<1> QED BY <1>3, <1>4, <1>5, <1>6 DEF id

(* No system call is shown where a thread can be outside of one.           *)
LEMMA UserStack ==
    ASSUME NEW r \in UserStacks
    PROVE  /\ r \in StackIds /\ r # Unknown
           /\ \A name \in Syscalls : ~Shows(<< name >>, r)
<1>1. /\ r \in StackIds
      /\ r # << >> => r[1] \notin Syscalls
    <2>1. CASE r = << >>
        BY <2>1, EmptySeq DEF StackIds
    <2>2. CASE r = NoStack
        <3>1. r = << "No Stack" >>
            BY <2>2, NameStack DEF NoStack
        <3>2. "No Stack" \in Symbols \cup Syscalls \cup {"No Stack", "empty"}
            OBVIOUS
        <3>3. "No Stack" \notin Syscalls
            BY StacksNamesAssumption
        <3>4. \A S, x : x \in S => << x >> \in Seq(S)
            OBVIOUS
        <3>5. r \in StackIds
            BY <3>1, <3>2, <3>4, Zenon DEF StackIds
        <3> QED BY <3>1, <3>3, <3>5
    <2>3. CASE \E s \in Samples : r = StackOf(s)
        BY <2>3, SampleStack DEF SysNames
    <2> QED BY <2>1, <2>2, <2>3 DEF UserStacks, kEmptyStackId
<1>2. r # Unknown
    BY <1>1, StacksUnknownAssumption
<1>3. ASSUME NEW name \in Syscalls, Shows(<< name >>, r) PROVE FALSE
    <2>1. Len(<< name >>) = 1 /\ << name >>[1] = name /\ << name >> # << >>
        OBVIOUS
    <2>2. CASE << name >> = r
        BY <1>1, <2>1, <2>2
    <2>3. CASE r # << >> /\ Last(<< name >>) = r[1]
        BY <1>1, <2>1, <2>3 DEF Last
    <2> QED BY <1>3, <2>2, <2>3 DEF Shows, kEmptyStackId
<1> QED BY <1>1, <1>2, <1>3

----------------------------------------------------------------------------
(* What the methods of the builder do to a history.                        *)

(* The times of its entries are numbers. *)
LEMMA EntryTimes ==
    ASSUME NEW h \in Seq(Entries), NEW i \in 1..Len(h)
    PROVE  h[i] \in Entries /\ h[i].startTs \in Nat /\ h[i].endTs \in Nat
<1>1. h[i] \in Entries
    BY ElementOfSeq
<1> QED BY <1>1 DEF Entries

(* The times and marks of an entry, and all but its end.                   *)
SameButEnd(e, f) ==
    /\ e.stackId = f.stackId /\ e.startTs = f.startTs
    /\ e.isSyscall = f.isSyscall /\ e.isResolved = f.isResolved

(* new is h with its last entry ended at ts. *)
IsEnded(new, h, ts) ==
    /\ new \in Seq(Entries) /\ Len(new) = Len(h)
    /\ \A i \in 1..Len(h) : SameButEnd(new[i], h[i])
    /\ \A i \in 1..Len(h) : new[i].endTs = IF i = Len(h) THEN ts ELSE h[i].endTs
    /\ \A i \in 1..(Len(h) - 1) : new[i] = h[i]

(* Terminate ends the last entry and nothing else (StacksBuilder.cpp:242). *)
LEMMA TerminateEnds ==
    ASSUME NEW h \in Seq(Entries), NEW ts \in Nat
    PROVE  IsEnded(Terminate(h, ts), h, ts)
<1>1. CASE h = << >>
    <2>1. Terminate(h, ts) = h /\ Len(h) = 0
        BY <1>1 DEF Terminate
    <2> QED BY <2>1 DEF IsEnded
<1>2. CASE h # << >>
    <2> DEFINE n == Len(h)
               e == [h[n] EXCEPT !.endTs = ts]
    <2>1. n \in 1..n /\ n \in Nat
        BY <1>2
    <2>2. h[n] \in Entries
        BY <2>1, ElementOfSeq
    <2>3. e \in Entries /\ SameButEnd(e, h[n]) /\ e.endTs = ts
        BY <2>2 DEF Entries, SameButEnd
    <2>4. Terminate(h, ts) = [h EXCEPT ![n] = e]
        BY <1>2, Zenon DEF Terminate
    <2> HIDE DEF e, n
    <2>5. /\ [h EXCEPT ![n] = e] \in Seq(Entries) /\ Len([h EXCEPT ![n] = e]) = Len(h)
          /\ \A i \in 1..Len(h) : [h EXCEPT ![n] = e][i] = IF i = n THEN e ELSE h[i]
        BY <2>1, <2>3, ExceptSeq DEF n
    <2>6. \A i \in 1..Len(h) : SameButEnd(h[i], h[i])
        BY DEF SameButEnd
    <2>7. \A i \in 1..(Len(h) - 1) : i \in 1..Len(h) /\ i # n
        BY <2>1 DEF n
    <2> QED BY <2>3, <2>4, <2>5, <2>6, <2>7, Zenon DEF IsEnded, n
<1> QED BY <1>1, <1>2

(* A wrapper is an entry. *)
LEMMA WrapperType ==
    ASSUME NEW id \in StackIds, NEW ts \in Nat, NEW mark \in BOOLEAN
    PROVE  StackWrapper(id, ts, mark) \in Entries
BY DEF StackWrapper, Entries

(* new is what SetStack makes of h: it either goes on with the last entry  *)
(* or appends one.                                                         *)
IsSet(new, h, ts, id, mark) ==
    /\ new \in Seq(Entries) /\ new # << >> /\ new[Len(new)].stackId = id
    /\ \A i \in 1..Len(h) : SameButEnd(new[i], h[i])
    /\ \A i \in 1..Len(h) : new[i].endTs = IF i = Len(h) THEN ts ELSE h[i].endTs
    /\ \A i \in 1..(Len(h) - 1) : new[i] = h[i]
    /\ IF h # << >> /\ h[Len(h)].stackId = id THEN Len(new) = Len(h)
       ELSE /\ Len(new) = Len(h) + 1
            /\ new[Len(h) + 1] = StackWrapper(id, ts, mark)

(* SetStack goes on with it too, or appends one (StacksBuilder.cpp:69-88). *)
LEMMA SetStackSets ==
    ASSUME NEW h \in Seq(Entries), NEW ts \in Nat, NEW id \in StackIds, NEW mark \in BOOLEAN
    PROVE  IsSet(SetStack(h, ts, id, mark), h, ts, id, mark)
<1> DEFINE ended == Terminate(h, ts)
           w == StackWrapper(id, ts, mark)
<1>1. IsEnded(ended, h, ts)
    BY TerminateEnds
<1>2. SetStack(h, ts, id, mark) =
        IF h # << >> /\ h[Len(h)].stackId = id THEN ended ELSE Append(ended, w)
    BY Zenon DEF SetStack, Terminate, Last
<1>3. w \in Entries /\ w.stackId = id
    BY WrapperType DEF StackWrapper
<1>4. Len(h) \in Nat
    OBVIOUS
<1> HIDE DEF ended, w
<1>5. CASE h # << >> /\ h[Len(h)].stackId = id
    <2>1. SetStack(h, ts, id, mark) = ended
        BY <1>2, <1>5
    <2>2. Len(h) \in 1..Len(h)
        BY <1>5
    <2>3. ended # << >> /\ ended[Len(ended)].stackId = id
        BY <1>1, <1>5, <2>2 DEF IsEnded, SameButEnd
    <2> QED BY <1>1, <1>5, <2>1, <2>3 DEF IsEnded, IsSet
<1>6. CASE ~(h # << >> /\ h[Len(h)].stackId = id)
    <2>1. SetStack(h, ts, id, mark) = Append(ended, w)
        BY <1>2, <1>6
    <2>2. /\ Append(ended, w) \in Seq(Entries) /\ Append(ended, w) # << >>
          /\ Len(Append(ended, w)) = Len(h) + 1
          /\ Append(ended, w)[Len(h) + 1] = w
          /\ \A i \in 1..Len(h) : Append(ended, w)[i] = ended[i]
        BY <1>1, <1>3, AppendProperties DEF IsEnded
    <2> QED BY <1>1, <1>3, <1>6, <2>1, <2>2 DEF IsEnded, IsSet, w
<1> QED BY <1>5, <1>6

(* A stack that is set now, or at least not before another began, keeps a  *)
(* history in order.                                                       *)
LEMMA SetKeepsOrder ==
    ASSUME NEW new, NEW h, NEW n \in Nat, NEW ts \in Nat, NEW id \in StackIds,
           NEW mark \in BOOLEAN, IsSet(new, h, ts, id, mark),
           Ordered(h, n), StartsBy(h, ts), ts <= n
    PROVE  Ordered(new, n) /\ StartsBy(new, ts)
<1> DEFINE k == Len(h)
<1>1. k \in Nat /\ h \in Seq(Entries)
    BY DEF Ordered
<1>2. \A i \in 1..k : h[i].startTs \in Nat /\ h[i].endTs \in Nat
    BY <1>1, EntryTimes
<1>3. \A i \in 1..k : /\ new[i].startTs = h[i].startTs /\ new[i].startTs <= ts
                      /\ new[i].endTs = IF i = k THEN ts ELSE h[i].endTs
    BY DEF IsSet, SameButEnd, StartsBy
<1>4. /\ Len(new) = k \/ Len(new) = k + 1
      /\ Len(new) = k + 1 => new[k + 1].startTs = ts /\ new[k + 1].endTs = ts
    <2>1. StackWrapper(id, ts, mark).startTs = ts /\ StackWrapper(id, ts, mark).endTs = ts
        BY DEF StackWrapper
    <2> QED BY <1>1, <2>1 DEF IsSet
<1>5. /\ \A i \in 1..k : h[i].startTs <= h[i].endTs /\ h[i].endTs <= n
      /\ \A i, j \in 1..k : i < j => h[i].endTs <= h[j].startTs
      /\ \A i \in 1..(k - 1) : h[i].endTs = h[i + 1].startTs
    BY DEF Ordered
<1> HIDE DEF k
<1>6. \A i \in 1..Len(new) : i \in 1..k \/ (i = k + 1 /\ Len(new) = k + 1)
    BY <1>1, <1>4
<1>7. \A i \in 1..Len(new) : /\ new[i].startTs <= new[i].endTs /\ new[i].endTs <= n
                             /\ new[i].startTs <= ts
    <2> TAKE i \in 1..Len(new)
    <2>1. CASE i = k + 1 /\ Len(new) = k + 1
        BY <1>4, <2>1
    <2>2. CASE i \in 1..k
        BY <1>3, <1>5, <2>2
    <2> QED BY <1>6, <2>1, <2>2
<1>8. \A i, j \in 1..Len(new) : i < j => new[i].endTs <= new[j].startTs
    <2> TAKE i, j \in 1..Len(new)
    <2> HAVE i < j
    <2>1. i \in 1..k
        BY <1>1, <1>4, <1>6
    <2>2. CASE j \in 1..k
        <3>1. i # k
            BY <1>1, <2>1, <2>2
        <3> QED BY <1>3, <1>5, <2>1, <2>2, <3>1
    <2>3. CASE j = k + 1 /\ Len(new) = k + 1
        <3>1. CASE i = k
            BY <1>3, <1>4, <2>1, <2>3, <3>1
        <3>2. CASE i # k
            <4>1. k \in 1..k /\ i < k
                BY <1>1, <2>1, <3>2
            <4>2. h[i].endTs <= h[k].startTs /\ h[k].startTs <= ts
                BY <1>3, <1>5, <2>1, <4>1
            <4> QED BY <1>2, <1>3, <1>4, <2>1, <2>3, <3>2, <4>1, <4>2
        <3> QED BY <3>1, <3>2
    <2> QED BY <1>6, <2>2, <2>3
<1>9. \A i \in 1..(Len(new) - 1) : new[i].endTs = new[i + 1].startTs
    <2> TAKE i \in 1..(Len(new) - 1)
    <2>1. i \in 1..k /\ i + 1 \in 1..Len(new)
        BY <1>1, <1>4
    <2>2. CASE i = k
        <3>1. Len(new) = k + 1
            BY <1>1, <1>4, <2>1, <2>2
        <3> QED BY <1>3, <1>4, <2>1, <2>2, <3>1
    <2>3. CASE i # k
        <3>1. i \in 1..(k - 1) /\ i + 1 \in 1..k
            BY <1>1, <2>1, <2>3
        <3> QED BY <1>3, <1>5, <2>1, <2>3, <3>1
    <2> QED BY <2>2, <2>3
<1> QED BY <1>7, <1>8, <1>9 DEF Ordered, StartsBy, IsSet

(* The entries stay what they are, and the new one is named as it must be. *)
LEMMA SetKeepsNames ==
    ASSUME NEW new, NEW h \in Seq(Entries), NEW ts, NEW id, NEW mark \in BOOLEAN,
           IsSet(new, h, ts, id, mark), AllNamed(h), id # kEmptyStackId,
           mark => \E name \in SysNames : id = << name >>
    PROVE  AllNamed(new)
<1>1. Len(h) \in Nat /\ (Len(new) = Len(h) \/ Len(new) = Len(h) + 1)
    BY DEF IsSet
<1>2. ASSUME NEW i \in 1..Len(new) PROVE Named(new[i])
    <2>1. CASE i \in 1..Len(h)
        <3>1. SameButEnd(new[i], h[i]) /\ Named(h[i])
            BY <2>1 DEF IsSet, AllNamed
        <3> QED BY <3>1, Zenon DEF SameButEnd, Named
    <2>2. CASE i \notin 1..Len(h)
        <3>1. new[i] = StackWrapper(id, ts, mark)
            BY <1>1, <2>2 DEF IsSet
        <3>2. new[i].stackId = id /\ new[i].isSyscall = mark
            BY <3>1 DEF StackWrapper
        <3> QED BY <3>2, Zenon DEF Named
    <2> QED BY <2>1, <2>2
<1> QED BY <1>2 DEF AllNamed

(* Where entries start and what they show is all that they tell.           *)
LEMMA AlikeTells ==
    ASSUME NEW new, NEW h, NEW u, NEW r, Len(new) = Len(h),
           \A i \in 1..Len(h) : /\ new[i].startTs = h[i].startTs
                                /\ Shows(h[i].stackId, r) => Shows(new[i].stackId, r),
           Len(h) \in Nat, Tells(h, u, r)
    PROVE  Tells(new, u, r)
<1>1. CASE Shows(kEmptyStackId, r) /\ \A i \in 1..Len(h) : h[i].startTs > u
    BY <1>1 DEF Tells
<1>2. CASE \E k \in 1..Len(h) : /\ Shows(h[k].stackId, r) /\ h[k].startTs <= u
                                /\ \A j \in (k + 1)..Len(h) : h[j].startTs > u
    <2>1. PICK k \in 1..Len(h) : /\ Shows(h[k].stackId, r) /\ h[k].startTs <= u
                                 /\ \A j \in (k + 1)..Len(h) : h[j].startTs > u
        BY <1>2
    <2>2. \A j \in (k + 1)..Len(h) : j \in 1..Len(h)
        BY <2>1
    <2> QED BY <2>1, <2>2 DEF Tells
<1> QED BY <1>1, <1>2 DEF Tells

(* A stack that is set later changes nothing.                              *)
LEMMA SetTells ==
    ASSUME NEW new, NEW h \in Seq(Entries), NEW ts \in Nat, NEW id, NEW mark,
           IsSet(new, h, ts, id, mark), NEW u \in Int, u < ts, NEW r, Tells(h, u, r)
    PROVE  Tells(new, u, r)
<1>1. /\ Len(h) \in Nat /\ (Len(new) = Len(h) \/ Len(new) = Len(h) + 1)
      /\ Len(new) = Len(h) + 1 => new[Len(h) + 1].startTs > u
    BY DEF IsSet, StackWrapper
<1>2. \A i \in 1..Len(h) : new[i].startTs = h[i].startTs /\ new[i].stackId = h[i].stackId
    BY DEF IsSet, SameButEnd
<1>3. \A i \in 1..Len(new) : i \in 1..Len(h) \/ (i = Len(h) + 1 /\ Len(new) = Len(h) + 1)
    BY <1>1
<1>4. CASE Shows(kEmptyStackId, r) /\ \A i \in 1..Len(h) : h[i].startTs > u
    BY <1>1, <1>2, <1>3, <1>4 DEF Tells
<1>5. CASE \E k \in 1..Len(h) : /\ Shows(h[k].stackId, r) /\ h[k].startTs <= u
                                /\ \A j \in (k + 1)..Len(h) : h[j].startTs > u
    <2>1. PICK k \in 1..Len(h) : /\ Shows(h[k].stackId, r) /\ h[k].startTs <= u
                                 /\ \A j \in (k + 1)..Len(h) : h[j].startTs > u
        BY <1>5
    <2>2. k \in 1..Len(new) /\ Shows(new[k].stackId, r) /\ new[k].startTs <= u
        BY <1>1, <1>2, <2>1
    <2>3. ASSUME NEW j \in (k + 1)..Len(new) PROVE new[j].startTs > u
        <3>1. j \in 1..Len(new)
            BY <2>1
        <3>2. CASE j \in 1..Len(h)
            <4>1. j \in (k + 1)..Len(h)
                BY <2>1, <3>2
            <4> QED BY <1>2, <2>1, <3>2, <4>1
        <3> QED BY <1>1, <1>3, <3>1, <3>2
    <2> QED BY <2>2, <2>3 DEF Tells
<1> QED BY <1>4, <1>5 DEF Tells

(* The last entry shows where the thread is from its start on.             *)
LEMMA LastTells ==
    ASSUME NEW h \in Seq(Entries), NEW u \in Int, StartsBy(h, u), NEW r,
           IF h = << >> THEN Shows(kEmptyStackId, r) ELSE Shows(h[Len(h)].stackId, r)
    PROVE  Tells(h, u, r)
<1>1. CASE h = << >>
    <2>1. Len(h) = 0
        BY <1>1
    <2> QED BY <1>1, <2>1 DEF Tells
<1>2. CASE h # << >>
    <2>1. Len(h) \in 1..Len(h)
        BY <1>2
    <2>2. h[Len(h)].startTs <= u /\ Shows(h[Len(h)].stackId, r)
        BY <1>2, <2>1 DEF StartsBy
    <2>3. \A j \in (Len(h) + 1)..Len(h) : FALSE
        BY <2>1
    <2> QED BY <2>1, <2>2, <2>3 DEF Tells
<1> QED BY <1>1, <1>2

(* What a history tells is what GetStack finds.                            *)
LEMMA TellsGetStack ==
    ASSUME NEW h, NEW n \in Nat, Ordered(h, n), NEW u \in Nat, u < n, NEW r, Tells(h, u, r)
    PROVE  Shows(GetStack(Terminate(h, n), u), r)
<1> DEFINE new == Terminate(h, n)
           S == {i \in DOMAIN new : new[i].startTs <= u}
<1>1. h \in Seq(Entries) /\ Len(h) \in Nat
    BY DEF Ordered
<1>2. IsEnded(new, h, n)
    BY <1>1, TerminateEnds
<1> SUFFICES Shows(GetStack(new, u), r)
    OBVIOUS
<1> HIDE DEF new
<1>3. DOMAIN new = 1..Len(h) /\ \A i \in 1..Len(h) : SameButEnd(new[i], h[i])
    BY <1>2 DEF IsEnded
<1>4. \A i \in 1..Len(h) : h[i].startTs \in Nat
    BY <1>1, EntryTimes
<1>5. GetStack(new, u) =
        LET it == IF S = {} THEN 1 ELSE Max(S)
        IN  IF new # << >> /\ Covers(new[it], u) THEN new[it].stackId ELSE kEmptyStackId
    BY Zenon DEF GetStack, UpTo
<1>6. CASE Shows(kEmptyStackId, r) /\ \A i \in 1..Len(h) : h[i].startTs > u
    <2>1. \A i \in 1..Len(h) : ~(new[i].startTs <= u)
        BY <1>3, <1>4, <1>6 DEF SameButEnd
    <2>2. S = {}
        BY <1>3, <2>1
    <2>3. new # << >> => 1 \in 1..Len(h)
        BY <1>2, <1>1 DEF IsEnded
    <2>4. ~(new # << >> /\ Covers(new[1], u))
        BY <2>1, <2>3 DEF Covers
    <2> QED BY <1>5, <1>6, <2>2, <2>4
<1>7. CASE \E k \in 1..Len(h) : /\ Shows(h[k].stackId, r) /\ h[k].startTs <= u
                                /\ \A j \in (k + 1)..Len(h) : h[j].startTs > u
    <2>1. PICK k \in 1..Len(h) : /\ Shows(h[k].stackId, r) /\ h[k].startTs <= u
                                 /\ \A j \in (k + 1)..Len(h) : h[j].startTs > u
        BY <1>7
    <2>2. k \in S /\ S \in SUBSET (0..Len(h))
        BY <1>3, <2>1 DEF SameButEnd
    <2>3. ASSUME NEW i \in S PROVE i <= k
        <3>1. i \in 1..Len(h) /\ h[i].startTs <= u
            BY <1>3 DEF SameButEnd
        <3>2. CASE i \in (k + 1)..Len(h)
            BY <1>4, <2>1, <3>1, <3>2
        <3> QED BY <1>1, <2>1, <3>1, <3>2
    <2> HIDE DEF S
    <2>4. Max(S) \in S /\ k <= Max(S)
        BY <1>1, <2>2, MaxBelow
    <2>5. Max(S) = k
        <3>1. \A i \in S : i \in Int /\ i <= k
            BY <2>2, <2>3
        <3>2. Max(S) \in Int /\ Max(S) <= k
            BY <2>4, <3>1, Zenon
        <3> QED BY <2>1, <2>4, <3>2
    <2>6. Covers(new[k], u)
        <3>1. new[k].startTs = h[k].startTs
            BY <1>3, <2>1 DEF SameButEnd
        <3>2. new[k].endTs > u
            <4>1. CASE k = Len(h)
                BY <1>2, <2>1, <4>1 DEF IsEnded
            <4>2. CASE k # Len(h)
                <5>1. k \in 1..(Len(h) - 1) /\ k + 1 \in (k + 1)..Len(h)
                    BY <1>1, <2>1, <4>2
                <5>2. new[k].endTs = h[k].endTs /\ h[k].endTs = h[k + 1].startTs
                    BY <1>2, <2>1, <4>2, <5>1 DEF IsEnded, Ordered
                <5> QED BY <2>1, <5>1, <5>2
            <4> QED BY <4>1, <4>2
        <3> QED BY <2>1, <3>1, <3>2 DEF Covers
    <2>7. new # << >> /\ S # {}
        BY <1>1, <1>2, <2>1, <2>2 DEF IsEnded
    <2>8. GetStack(new, u) = new[k].stackId
        BY <1>5, <2>5, <2>6, <2>7
    <2> QED BY <1>3, <2>1, <2>8 DEF SameButEnd
<1> QED BY <1>6, <1>7 DEF Tells

(* new is h without its first d entries, the ones that nothing at or after *)
(* ts needs.                                                               *)
IsCleaned(new, h, ts, d) ==
    /\ new \in Seq(Entries) /\ d \in 0..Len(h) /\ Len(new) = Len(h) - d
    /\ \A i \in 1..Len(new) : new[i] = h[i + d]
    /\ d > 0 => d < Len(h) /\ h[d + 1].startTs < ts
    /\ \A j \in (d + 2)..Len(h) : h[j].startTs >= ts

(* Cleanup removes the first entries (StacksBuilder.cpp:52-67).            *)
LEMMA CleanupCleans ==
    ASSUME NEW h \in Seq(Entries), NEW ts \in Nat
    PROVE  \E d : IsCleaned(Cleanup(h, ts), h, ts, d)
<1> DEFINE S == {i \in DOMAIN h : h[i].startTs < ts}
           n == Len(h)
<1>1. n \in Nat /\ DOMAIN h = 1..n
    OBVIOUS
<1>2. \A i \in 1..n : h[i].startTs \in Nat
    BY EntryTimes
<1>3. Cleanup(h, ts) = IF S = {} THEN h ELSE SubSeq(h, Max(S), n)
    BY Zenon DEF Cleanup, Before
<1>4. CASE S = {}
    <2>1. \A j \in 1..n : ~(h[j].startTs < ts)
        BY <1>1, <1>4
    <2>2. \A j \in 1..n : h[j].startTs >= ts
        BY <1>2, <2>1
    <2>3. Cleanup(h, ts) = h
        BY <1>3, <1>4
    <2> HIDE DEF S
    <2>4. \A i \in 1..n : i + 0 = i
        BY <1>1
    <2>5. IsCleaned(h, h, ts, 0)
        BY <1>1, <2>2, <2>4 DEF IsCleaned
    <2> QED BY <2>3, <2>5
<1>5. CASE S # {}
    <2>1. S \in SUBSET (0..n) /\ S \subseteq 1..n /\ \A i \in S : h[i].startTs < ts
        BY <1>1
    <2>2. \A i \in 1..n : h[i].startTs < ts => i \in S
        BY <1>1
    <2> HIDE DEF S
    <2> DEFINE m == Max(S)
               new == SubSeq(h, m, n)
    <2>3. m \in S /\ \A i \in S : i <= m
        BY <1>1, <1>5, <2>1, MaxBelow
    <2>4. m \in 1..n
        BY <2>1, <2>3
    <2> HIDE DEF m
    <2>5. \A j \in (m + 1)..n : h[j].startTs >= ts
        <3> TAKE j \in (m + 1)..n
        <3>1. j \in 1..n /\ ~(j <= m)
            BY <2>4
        <3>2. ~(h[j].startTs < ts)
            BY <2>2, <2>3, <3>1
        <3> QED BY <1>2, <3>1, <3>2
    <2>6. /\ new \in Seq(Entries) /\ Len(new) = n - m + 1
          /\ \A i \in 1..(n - m + 1) : new[i] = h[m + i - 1]
        <3>1. \A i \in m..n : h[i] \in Entries
            BY <2>4, ElementOfSeq
        <3> QED BY <1>1, <2>4, <3>1, SubSeqProperties
    <2>7. Cleanup(h, ts) = new
        BY <1>3, <1>5 DEF m
    <2> HIDE DEF new
    <2>8. \A i \in 1..Len(new) : new[i] = h[i + (m - 1)]
        <3> TAKE i \in 1..Len(new)
        <3>1. m + i - 1 = i + (m - 1) /\ i \in 1..(n - m + 1)
            BY <1>1, <2>4, <2>6
        <3> QED BY <2>6, <3>1
    <2>9. /\ m - 1 \in 0..n /\ Len(new) = n - (m - 1) /\ (m - 1) + 1 = m /\ (m - 1) + 2 = m + 1
          /\ m - 1 < n
        BY <1>1, <2>4, <2>6
    <2>10. h[m].startTs < ts
        BY <2>1, <2>3
    <2>11. IsCleaned(new, h, ts, m - 1)
        BY <2>5, <2>6, <2>8, <2>9, <2>10 DEF IsCleaned
    <2> QED BY <2>7, <2>11
<1> QED BY <1>4, <1>5

(* A history that goes on stays in order, and tells what it told.          *)
LEMMA EndedKeeps ==
    ASSUME NEW new, NEW h, NEW n \in Nat, NEW ts \in Nat, n <= ts, IsEnded(new, h, ts),
           Ordered(h, n), AllNamed(h)
    PROVE  /\ Ordered(new, ts) /\ AllNamed(new)
           /\ \A limit : StartsBy(h, limit) => StartsBy(new, limit)
           /\ \A u, r : Tells(h, u, r) => Tells(new, u, r)
<1>1. /\ h \in Seq(Entries) /\ Len(h) \in Nat /\ Len(new) = Len(h)
      /\ \A i \in 1..Len(h) : h[i].startTs \in Nat /\ h[i].endTs \in Nat
    BY EntryTimes DEF Ordered, IsEnded
<1>2. \A i \in 1..Len(h) : new[i].startTs = h[i].startTs /\ new[i].stackId = h[i].stackId
    BY DEF IsEnded, SameButEnd
<1>3. \A i \in 1..Len(h) : new[i].endTs = IF i = Len(h) THEN ts ELSE h[i].endTs
    BY DEF IsEnded
<1>4. Ordered(new, ts)
    <2>1. \A i \in 1..Len(h) : new[i].startTs <= new[i].endTs /\ new[i].endTs <= ts
        <3> TAKE i \in 1..Len(h)
        <3>1. h[i].startTs <= h[i].endTs /\ h[i].endTs <= n
            BY DEF Ordered
        <3>2. /\ new[i].startTs = h[i].startTs /\ new[i].endTs \in {ts, h[i].endTs}
              /\ h[i].startTs \in Nat /\ h[i].endTs \in Nat
            BY <1>1, <1>2, <1>3, Zenon
        <3> QED BY <3>1, <3>2
    <2>2. \A i, j \in 1..Len(h) : i < j => new[i].endTs <= new[j].startTs
        <3> TAKE i, j \in 1..Len(h)
        <3> HAVE i < j
        <3>1. i # Len(h) /\ h[i].endTs <= h[j].startTs
            BY <1>1 DEF Ordered
        <3> QED BY <1>2, <1>3, <3>1
    <2>3. \A i \in 1..(Len(h) - 1) : new[i].endTs = new[i + 1].startTs
        <3> TAKE i \in 1..(Len(h) - 1)
        <3>1. i # Len(h) /\ i \in 1..Len(h) /\ i + 1 \in 1..Len(h)
            BY <1>1
        <3>2. h[i].endTs = h[i + 1].startTs
            BY DEF Ordered
        <3> QED BY <1>2, <1>3, <3>1, <3>2
    <2>4. new \in Seq(Entries)
        BY DEF IsEnded
    <2> QED BY <1>1, <2>1, <2>2, <2>3, <2>4 DEF Ordered
<1>5. AllNamed(new)
    <2>1. ASSUME NEW i \in 1..Len(h) PROVE Named(new[i])
        <3>1. SameButEnd(new[i], h[i]) /\ Named(h[i])
            BY DEF IsEnded, AllNamed
        <3> QED BY <3>1, Zenon DEF SameButEnd, Named
    <2> QED BY <1>1, <2>1 DEF AllNamed
<1>6. ASSUME NEW limit, StartsBy(h, limit) PROVE StartsBy(new, limit)
    BY <1>1, <1>2, <1>6 DEF StartsBy
<1>7. ASSUME NEW u, NEW r, Tells(h, u, r) PROVE Tells(new, u, r)
    BY <1>1, <1>2, <1>7, AlikeTells
<1> QED BY <1>4, <1>5, <1>6, <1>7

(* So does one that is cleaned, from the cleaning on.                      *)
LEMMA CleanedKeeps ==
    ASSUME NEW new, NEW h, NEW n \in Nat, NEW ts \in Nat, NEW d, IsCleaned(new, h, ts, d),
           Ordered(h, n), AllNamed(h)
    PROVE  /\ Ordered(new, n) /\ AllNamed(new)
           /\ \A limit : StartsBy(h, limit) => StartsBy(new, limit)
           /\ \A u \in Nat : \A r : ts <= u /\ Tells(h, u, r) => Tells(new, u, r)
<1>1. /\ h \in Seq(Entries) /\ Len(h) \in Nat /\ d \in Nat /\ d <= Len(h)
      /\ Len(new) = Len(h) - d /\ Len(new) \in Nat
    BY DEF Ordered, IsCleaned
<1>2. \A i \in 1..Len(new) : i + d \in 1..Len(h) /\ new[i] = h[i + d]
    BY <1>1 DEF IsCleaned
<1>3. \A i \in 1..Len(h) : h[i].startTs \in Nat
    BY <1>1, EntryTimes
<1>4. Ordered(new, n)
    <2>1. \A i \in 1..Len(new) : new[i].startTs <= new[i].endTs /\ new[i].endTs <= n
        BY <1>2 DEF Ordered
    <2>2. \A i, j \in 1..Len(new) : i < j => new[i].endTs <= new[j].startTs
        <3> TAKE i, j \in 1..Len(new)
        <3> HAVE i < j
        <3>1. i + d < j + d
            BY <1>1
        <3> QED BY <1>2, <3>1 DEF Ordered
    <2>3. \A i \in 1..(Len(new) - 1) : new[i].endTs = new[i + 1].startTs
        <3> TAKE i \in 1..(Len(new) - 1)
        <3>1. /\ i \in 1..Len(new) /\ i + 1 \in 1..Len(new) /\ i + d \in 1..(Len(h) - 1)
              /\ (i + 1) + d = (i + d) + 1
            BY <1>1
        <3>2. h[i + d].endTs = h[(i + d) + 1].startTs
            BY <3>1 DEF Ordered
        <3> QED BY <1>2, <3>1, <3>2
    <2> QED BY <2>1, <2>2, <2>3 DEF Ordered, IsCleaned
<1>5. AllNamed(new)
    BY <1>2 DEF AllNamed
<1>6. ASSUME NEW limit, StartsBy(h, limit) PROVE StartsBy(new, limit)
    BY <1>2, <1>6 DEF StartsBy
<1>7. ASSUME NEW u \in Nat, NEW r, ts <= u, Tells(h, u, r) PROVE Tells(new, u, r)
    <2>1. d > 0 => d + 1 \in 1..Len(h) /\ h[d + 1].startTs <= u
        <3> SUFFICES ASSUME d > 0 PROVE d + 1 \in 1..Len(h) /\ h[d + 1].startTs <= u
            OBVIOUS
        <3>1. d + 1 \in 1..Len(h) /\ h[d + 1].startTs < ts
            BY <1>1 DEF IsCleaned
        <3> QED BY <1>3, <1>7, <3>1
    <2>2. CASE Shows(kEmptyStackId, r) /\ \A i \in 1..Len(h) : h[i].startTs > u
        <3>1. \A i \in 1..Len(new) : new[i].startTs > u
            BY <1>2, <2>2
        <3> QED BY <2>2, <3>1 DEF Tells
    <2>3. CASE \E k \in 1..Len(h) : /\ Shows(h[k].stackId, r) /\ h[k].startTs <= u
                                    /\ \A j \in (k + 1)..Len(h) : h[j].startTs > u
        <3>1. PICK k \in 1..Len(h) : /\ Shows(h[k].stackId, r) /\ h[k].startTs <= u
                                     /\ \A j \in (k + 1)..Len(h) : h[j].startTs > u
            BY <2>3
        <3>2. k > d
            <4>1. CASE d > 0
                <5>1. d + 1 \notin (k + 1)..Len(h)
                    BY <1>3, <2>1, <3>1, <4>1
                <5> QED BY <1>1, <2>1, <3>1, <4>1, <5>1
            <4> QED BY <1>1, <3>1, <4>1
        <3>3. k - d \in 1..Len(new) /\ (k - d) + d = k
            BY <1>1, <3>1, <3>2
        <3>4. new[k - d] = h[k]
            BY <1>2, <3>3
        <3>5. ASSUME NEW j \in ((k - d) + 1)..Len(new) PROVE new[j].startTs > u
            <4>1. k \in Nat /\ k <= Len(h)
                BY <3>1
            <4>2. j \in Int /\ j >= (k - d) + 1 /\ j <= Len(h) - d
                BY <1>1
            <4>3. j \in 1..Len(new)
                BY <1>1, <3>2, <4>1, <4>2
            <4>4. j + d \in (k + 1)..Len(h)
                BY <1>1, <4>1, <4>2
            <4> QED BY <1>2, <3>1, <4>3, <4>4
        <3> QED BY <3>1, <3>3, <3>4, <3>5 DEF Tells
    <2> QED BY <1>7, <2>2, <2>3 DEF Tells
<1> QED BY <1>4, <1>5, <1>6, <1>7

----------------------------------------------------------------------------
(* The steps, for one thread.                                              *)

(* Until the next event the thread is where it was last reported.          *)
LEMMA TimePasses ==
    ASSUME NEW h, NEW c, NEW r, NEW ln, NEW ln1, NEW o, NEW mode,
           NEW n \in Nat, NEW ts \in Nat, NEW low \in Nat, n < ts, ts <= MaxTs,
           ThreadOK(h, c, r, ln, o, n, low, mode),
           \A u \in 0..MaxTs : ln1[u] = IF u \in n..(ts - 1) THEN r ELSE ln[u]
    PROVE  ThreadOK(h, c, r, ln1, o, ts, low, mode)
<1> DEFINE held == mode = "latency" /\ c # NoCall
<1>1. HistoryOK(h, c, n, mode) /\ LineOK(h, c, ln, n, low, mode) /\ TopOK(h, c, r, mode)
      /\ CallOK(h, c, r, ln, n, low, mode) /\ OwedOK(h, c, o, n)
    BY DEF ThreadOK
<1>2. h \in Seq(Entries) /\ \A i \in 1..Len(h) : h[i].startTs \in Nat /\ h[i].endTs \in Nat
    BY <1>1, EntryTimes DEF HistoryOK, Ordered
<1>3. /\ c # NoCall => c.since \in Nat /\ c.since <= n
      /\ Limit(c, n, mode) = (IF held THEN c.since ELSE n)
      /\ Limit(c, ts, mode) = (IF held THEN c.since ELSE ts)
    BY <1>1 DEF CallOK, Calls, Limit
<1>4. MaxTs \in Nat
    BY StacksTimeAssumption
<1> HIDE DEF held
<1>5. HistoryOK(h, c, ts, mode)
    <2>1. Ordered(h, ts)
        BY <1>1, <1>2 DEF HistoryOK, Ordered
    <2>2. StartsBy(h, Limit(c, ts, mode))
        BY <1>1, <1>2, <1>3 DEF HistoryOK, StartsBy
    <2> QED BY <1>1, <2>1, <2>2 DEF HistoryOK
<1>6. ASSUME NEW u \in low..(Limit(c, ts, mode) - 1), ln1[u] # Unknown
      PROVE  Tells(h, u, ln1[u])
    <2>1. u \in 0..MaxTs /\ u < ts
        BY <1>3, <1>4 DEF held
    <2>2. CASE u < n
        <3>1. ln1[u] = ln[u]
            BY <2>1, <2>2
        <3>2. u \in low..(Limit(c, n, mode) - 1)
            BY <1>3, <2>1, <2>2 DEF held
        <3> QED BY <1>1, <1>6, <3>1, <3>2 DEF LineOK
    <2>3. CASE ~(u < n)
        <3>1. ~held /\ u \in n..(ts - 1)
            BY <1>3, <2>1, <2>3 DEF held
        <3>2. ln1[u] = r
            BY <2>1, <3>1
        <3>3. StartsBy(h, u)
            BY <1>1, <1>2, <1>3, <3>1 DEF HistoryOK, StartsBy
        <3>4. IF h = << >> THEN Shows(kEmptyStackId, r) ELSE Shows(h[Len(h)].stackId, r)
            BY <1>1, <1>6, <3>2 DEF TopOK, Shows
        <3> QED BY <1>2, <2>1, <3>2, <3>3, <3>4, LastTells
    <2> QED BY <2>2, <2>3
<1>7. CallOK(h, c, r, ln1, ts, low, mode)
    <2> SUFFICES ASSUME c # NoCall
                 PROVE  /\ c \in Calls /\ c.since <= ts
                        /\ mode = "latency" => /\ ~c.reported /\ c.from = r
                                               /\ \A u \in c.since..(ts - 1) : ln1[u] = r
                        /\ c.reported /\ c.from # Unknown => CallComesLast(h, c, low)
        BY DEF CallOK
    <2>1. ASSUME mode = "latency", NEW u \in c.since..(ts - 1) PROVE ln1[u] = r
        <3>1. u \in 0..MaxTs
            BY <1>3, <1>4
        <3>2. CASE u \in n..(ts - 1)
            BY <3>1, <3>2
        <3>3. CASE u \notin n..(ts - 1)
            <4>1. u \in c.since..(n - 1)
                BY <1>3, <3>3
            <4> QED BY <1>1, <2>1, <3>1, <3>3, <4>1 DEF CallOK
        <3> QED BY <3>2, <3>3
    <2> QED BY <1>1, <1>3, <2>1 DEF CallOK
<1>8. OwedOK(h, c, o, ts)
    <2>1. o # NoCall /\ o.reported => o.until \in Nat /\ o.until <= n
        BY <1>1 DEF OwedOK, Calls
    <2> QED BY <1>1, <2>1 DEF OwedOK
<1> QED BY <1>1, <1>5, <1>6, <1>7, <1>8 DEF ThreadOK, LineOK

(* A save leaves what is known of the time since the last save but one.    *)
LEMMA SaveKeeps ==
    ASSUME NEW h, NEW c, NEW r, NEW ln, NEW o, NEW mode,
           NEW n \in Nat, NEW low \in Nat, NEW s \in Nat, low <= s, s <= n,
           ThreadOK(h, c, r, ln, o, n, low, mode)
    PROVE  ThreadOK(Cleanup(Terminate(h, n), s), c, r, ln, o, n, s, mode)
<1> DEFINE e == Terminate(h, n)
<1>1. HistoryOK(h, c, n, mode) /\ LineOK(h, c, ln, n, low, mode) /\ TopOK(h, c, r, mode)
      /\ CallOK(h, c, r, ln, n, low, mode) /\ OwedOK(h, c, o, n)
    BY DEF ThreadOK
<1>2. h \in Seq(Entries) /\ Len(h) \in Nat /\ Ordered(h, n) /\ AllNamed(h)
    BY <1>1 DEF HistoryOK, Ordered
<1>3. IsEnded(e, h, n)
    BY <1>2, TerminateEnds
<1>4. PICK d : IsCleaned(Cleanup(e, s), e, s, d)
    BY <1>3, CleanupCleans DEF IsEnded
<1> SUFFICES ASSUME NEW new, IsCleaned(new, e, s, d)
             PROVE  ThreadOK(new, c, r, ln, o, n, s, mode)
    BY <1>4
<1> HIDE DEF e
<1>5. /\ Ordered(e, n) /\ AllNamed(e)
      /\ \A limit : StartsBy(h, limit) => StartsBy(e, limit)
      /\ \A u, x : Tells(h, u, x) => Tells(e, u, x)
    <2>1. n <= n
        OBVIOUS
    <2> QED BY <1>2, <1>3, <2>1, EndedKeeps
<1>6. /\ Ordered(new, n) /\ AllNamed(new)
      /\ \A limit : StartsBy(e, limit) => StartsBy(new, limit)
      /\ \A u \in Nat : \A x : s <= u /\ Tells(e, u, x) => Tells(new, u, x)
    BY <1>5, CleanedKeeps
<1>7. HistoryOK(new, c, n, mode)
    BY <1>1, <1>5, <1>6 DEF HistoryOK
<1>8. LineOK(new, c, ln, n, s, mode)
    <2> SUFFICES ASSUME NEW u \in s..(Limit(c, n, mode) - 1), ln[u] # Unknown
                 PROVE  Tells(new, u, ln[u])
        BY DEF LineOK
    <2>1. Limit(c, n, mode) \in Nat
        BY <1>1 DEF Limit, CallOK, Calls
    <2>2. u \in Nat /\ s <= u /\ u \in low..(Limit(c, n, mode) - 1)
        BY <2>1
    <2> QED BY <1>1, <1>5, <1>6, <2>2 DEF LineOK
<1>9. /\ Len(e) = Len(h) /\ Len(new) \in Nat /\ (h # << >> => new # << >>)
      /\ (h = << >> => new = << >>)
      /\ d \in Nat /\ Len(new) = Len(h) - d /\ d <= Len(h)
      /\ \A i \in 1..Len(new) : i + d \in 1..Len(h) /\ new[i] = e[i + d]
      /\ \A i \in 1..Len(h) : SameButEnd(e[i], h[i])
      /\ \A i \in 1..(Len(h) - 1) : e[i] = h[i]
    <2>1. Len(e) = Len(h) /\ d \in 0..Len(h) /\ Len(new) = Len(h) - d /\ new \in Seq(Entries)
          /\ (d > 0 => d < Len(h))
        BY <1>3 DEF IsCleaned, IsEnded
    <2>2. \A i \in 1..Len(new) : i + d \in 1..Len(h) /\ new[i] = e[i + d]
        BY <1>2, <2>1 DEF IsCleaned
    <2>3. h # << >> => new # << >>
        BY <1>2, <2>1
    <2>4. h = << >> => new = << >>
        BY <2>1
    <2> QED BY <1>2, <1>3, <2>1, <2>2, <2>3, <2>4 DEF IsEnded
<1>10. h # << >> => SameButEnd(new[Len(new)], h[Len(h)])
    <2> SUFFICES ASSUME h # << >> PROVE SameButEnd(new[Len(new)], h[Len(h)])
        OBVIOUS
    <2>1. Len(new) \in 1..Len(new) /\ Len(new) + d = Len(h) /\ Len(h) \in 1..Len(h)
        BY <1>2, <1>9, <1>6 DEF Ordered
    <2> QED BY <1>9, <2>1
<1>11. TopOK(new, c, r, mode)
    BY <1>1, <1>9, <1>10 DEF TopOK, SameButEnd
<1>12. ASSUME c # NoCall, c.reported, c.from # Unknown PROVE CallComesLast(new, c, s)
    <2>1. CallComesLast(h, c, low) /\ c.since \in Nat
        BY <1>1, <1>12 DEF CallOK, Calls
    <2>2. /\ h # << >> /\ new # << >>
          /\ new[Len(new)].startTs = c.since /\ new[Len(new)].stackId = << c.name >>
          /\ new[Len(new)].isSyscall /\ ~new[Len(new)].isResolved
        BY <1>9, <1>10, <2>1 DEF CallComesLast, SameButEnd
    <2>3. Len(new) >= 1 /\ h[Len(h)].startTs = c.since /\ Len(h) \in 1..Len(h)
        BY <1>2, <1>6, <2>1, <2>2 DEF CallComesLast, Ordered
    <2>4. CASE Len(h) = 1
        BY <1>9, <2>1, <2>2, <2>3, <2>4 DEF CallComesLast
    <2>5. CASE Len(h) # 1
        <3>1. c.from # kEmptyStackId /\ c.since >= low /\ Shows(h[Len(h) - 1].stackId, c.from)
            BY <2>1, <2>5 DEF CallComesLast
        <3>2. e[Len(h)].startTs = c.since
            BY <1>9, <2>3 DEF SameButEnd
        <3>3. CASE c.since < s
            <4>1. Len(h) \notin (d + 2)..Len(e)
                BY <2>1, <3>2, <3>3 DEF IsCleaned
            <4>2. Len(new) = 1
                BY <1>2, <1>9, <2>3, <4>1
            <4> QED BY <2>2, <3>3, <4>2 DEF CallComesLast
        <3>4. CASE ~(c.since < s)
            <4>1. Len(new) > 1
                <5>1. CASE d > 0
                    <6>1. d + 1 <= Len(h) /\ e[d + 1].startTs < s
                        BY <1>9 , <5>1 DEF IsCleaned
                    <6>2. d + 1 # Len(h)
                        BY <2>1, <3>2, <3>4, <6>1
                    <6> QED BY <1>2, <1>9, <6>1, <6>2
                <5>2. CASE d = 0
                    BY <1>2, <1>9, <2>3, <2>5, <5>2
                <5> QED BY <1>9, <5>1, <5>2
            <4>2. /\ Len(new) - 1 \in 1..Len(new) /\ (Len(new) - 1) + d = Len(h) - 1
                  /\ Len(h) - 1 \in 1..(Len(h) - 1)
                BY <1>2, <1>9, <4>1
            <4>3. new[Len(new) - 1] = h[Len(h) - 1]
                BY <1>9, <4>2
            <4> QED BY <2>2, <3>1, <3>4, <4>1, <4>3 DEF CallComesLast
        <3> QED BY <3>3, <3>4
    <2> QED BY <2>4, <2>5
<1>13. CallOK(new, c, r, ln, n, s, mode)
    BY <1>1, <1>12 DEF CallOK
<1>14. OwedOK(new, c, o, n)
    <2> SUFFICES ASSUME o # NoCall, o.reported
                 PROVE  /\ new # << >> /\ new[Len(new)].startTs = o.until
                        /\ Len(new) > 1 => new[Len(new) - 1] = h[Len(h) - 1] /\ Len(h) > 1
        BY <1>1 DEF OwedOK
    <2>1. h # << >> /\ h[Len(h)].startTs = o.until
        BY <1>1 DEF OwedOK
    <2>2. ASSUME Len(new) > 1 PROVE new[Len(new) - 1] = h[Len(h) - 1] /\ Len(h) > 1
        <3>1. /\ Len(new) - 1 \in 1..Len(new) /\ (Len(new) - 1) + d = Len(h) - 1
              /\ Len(h) - 1 \in 1..(Len(h) - 1) /\ Len(h) > 1
            BY <1>2, <1>9, <2>2
        <3> QED BY <1>9, <3>1
    <2> QED BY <1>9, <1>10, <2>1, <2>2 DEF SameButEnd
<1> QED BY <1>7, <1>8, <1>11, <1>13, <1>14 DEF ThreadOK

(* A stack that is set now.                                                *)
LEMMA SetKeeps ==
    ASSUME NEW h, NEW c, NEW c1, NEW ln, NEW mode, NEW n \in Nat, NEW low \in Nat,
           HistoryOK(h, c, n, mode), LineOK(h, c, ln, n, low, mode),
           Limit(c, n, mode) = n, Limit(c1, n, mode) = n,
           NEW id \in StackIds, id # kEmptyStackId, NEW mark \in BOOLEAN,
           mark => \E name \in SysNames : id = << name >>
    PROVE  LET new == SetStack(h, n, id, mark)
           IN  /\ IsSet(new, h, n, id, mark)
               /\ HistoryOK(new, c1, n, mode) /\ LineOK(new, c1, ln, n, low, mode)
<1> DEFINE new == SetStack(h, n, id, mark)
<1>1. h \in Seq(Entries) /\ Ordered(h, n) /\ AllNamed(h) /\ StartsBy(h, n) /\ n <= n
    BY DEF HistoryOK, Ordered
<1>2. IsSet(new, h, n, id, mark)
    BY <1>1, SetStackSets
<1> HIDE DEF new
<1>3. Ordered(new, n) /\ StartsBy(new, n)
    BY <1>1, <1>2, SetKeepsOrder
<1>4. AllNamed(new)
    BY <1>1, <1>2, SetKeepsNames
<1>5. ASSUME NEW u \in low..(n - 1), ln[u] # Unknown PROVE Tells(new, u, ln[u])
    <2>1. u \in Int /\ u < n
        OBVIOUS
    <2>2. Tells(h, u, ln[u])
        BY <1>5 DEF LineOK
    <2> QED BY <1>1, <1>2, <2>1, <2>2, SetTells
<1> QED BY <1>2, <1>3, <1>4, <1>5 DEF HistoryOK, LineOK, new

(* Nothing is known of a call that a thread is not in.                     *)
LEMMA Outside ==
    ASSUME NEW h, NEW r, NEW ln, NEW n, NEW low, NEW mode
    PROVE  /\ CallOK(h, NoCall, r, ln, n, low, mode) /\ OwedOK(h, NoCall, NoCall, n)
           /\ Limit(NoCall, n, mode) = n
BY DEF CallOK, OwedOK, Limit

(* A sample outside of a call says where the thread is.                    *)
LEMMA SampleKeeps ==
    ASSUME NEW h, NEW r, NEW ln, NEW o, NEW mode, NEW n \in Nat, NEW low \in Nat,
           ThreadOK(h, NoCall, r, ln, o, n, low, mode), NEW sample \in Samples
    PROVE  ThreadOK(SetStack(h, n, StackOf(sample), FALSE), NoCall, StackOf(sample), ln,
                    NoCall, n, low, mode)
<1> DEFINE id == StackOf(sample)
           new == SetStack(h, n, id, FALSE)
<1>1. HistoryOK(h, NoCall, n, mode) /\ LineOK(h, NoCall, ln, n, low, mode)
    BY DEF ThreadOK
<1>2. id \in StackIds /\ id # kEmptyStackId /\ id \in UserStacks /\ id # Unknown
    BY SampleStack, StacksUnknownAssumption DEF kEmptyStackId, UserStacks
<1> HIDE DEF id
<1>3. /\ IsSet(new, h, n, id, FALSE)
      /\ HistoryOK(new, NoCall, n, mode) /\ LineOK(new, NoCall, ln, n, low, mode)
    BY <1>1, <1>2, Outside, SetKeeps
<1> HIDE DEF new
<1>4. TopOK(new, NoCall, id, mode)
    BY <1>2, <1>3 DEF TopOK, IsSet, Shows
<1> QED BY <1>3, <1>4, Outside DEF ThreadOK, id, new

(* The name of a call goes on top of the stack that it is called from.     *)
LEMMA CallAppended ==
    ASSUME NEW id \in StackIds, NEW name \in SysNames
    PROVE  /\ Append(id, name) \in StackIds /\ Append(id, name) # << >>
           /\ Last(Append(id, name)) = name
<1> DEFINE S == Symbols \cup Syscalls \cup {"No Stack", "empty"}
<1>1. name \in S
    BY DEF SysNames
<1>2. id \in Seq(S)
    BY DEF StackIds
<1> HIDE DEF S
<1>3. /\ Append(id, name) \in Seq(S) /\ Append(id, name) # << >>
      /\ Last(Append(id, name)) = name
    BY <1>1, <1>2, AppendProperties DEF Last
<1> QED BY <1>3 DEF S, StackIds

(* An entry that is resolved still shows what it did.                      *)
LEMMA ResolvedShows ==
    ASSUME NEW e \in Entries, Named(e), e.isSyscall, ~e.isResolved,
           NEW id \in StackIds, NEW r, Shows(e.stackId, r)
    PROVE  Shows(Append(id, Last(e.stackId)), r)
<1>1. PICK name \in SysNames : e.stackId = << name >>
    BY DEF Named
<1>2. Last(e.stackId) = name /\ Len(<< name >>) = 1 /\ << name >>[1] = name
    BY <1>1 DEF Last
<1>3. /\ Append(id, name) # << >> /\ Last(Append(id, name)) = name
    BY CallAppended
<1>4. r # << >> /\ Len(r) = 1 /\ r[1] = name
    <2>1. CASE << name >> = r
        BY <1>2, <2>1
    <2>2. CASE << name >> # r
        BY <1>1, <1>2, <2>2, Zenon DEF Shows, kEmptyStackId
    <2> QED BY <2>1, <2>2
<1> QED BY <1>2, <1>3, <1>4 DEF Shows, kEmptyStackId, SysNames

(* new is h, with a call in it resolved or not.                            *)
IsResolving(new, h) ==
    /\ new \in Seq(Entries) /\ Len(new) = Len(h)
    /\ \A i \in 1..Len(h) :
          /\ new[i].startTs = h[i].startTs /\ new[i].endTs = h[i].endTs /\ Named(new[i])
          /\ \A r : Shows(h[i].stackId, r) => Shows(new[i].stackId, r)

(* The last long call is one of the history.                               *)
LEMMA LastLongCall ==
    ASSUME NEW h \in Seq(Entries), LongSystemCalls(h) # {}
    PROVE  /\ Max(LongSystemCalls(h)) \in LongSystemCalls(h)
           /\ \A i \in LongSystemCalls(h) : i <= Max(LongSystemCalls(h))
           /\ Max(LongSystemCalls(h)) \in 1..Len(h)
<1>1. LongSystemCalls(h) \subseteq 1..Len(h) /\ Len(h) \in Nat
    BY DEF LongSystemCalls
<1>2. LongSystemCalls(h) \in SUBSET (0..Len(h))
    BY <1>1
<1> QED BY <1>1, <1>2, MaxBelow

(* The sample after a call changes what at most one entry shows.           *)
LEMMA ResolveType ==
    ASSUME NEW h \in Seq(Entries), AllNamed(h), NEW id \in StackIds
    PROVE  IsResolving(SetLastSystemCallStack(h, id), h)
<1> DEFINE last == Max(LongSystemCalls(h))
           new == SetLastSystemCallStack(h, id)
<1>1. CASE LongSystemCalls(h) = {} \/ h[last].isResolved
    <2>1. new = h
        BY <1>1, Zenon DEF SetLastSystemCallStack
    <2> QED BY <2>1 DEF IsResolving, AllNamed
<1>2. CASE ~(LongSystemCalls(h) = {} \/ h[last].isResolved)
    <2>1. last \in LongSystemCalls(h) /\ last \in 1..Len(h)
        BY <1>2, LastLongCall
    <2>2. h[last] \in Entries /\ Named(h[last]) /\ h[last].isSyscall /\ ~h[last].isResolved
        BY <1>2, <2>1, ElementOfSeq DEF AllNamed, LongSystemCalls
    <2> DEFINE full == Append(id, Last(h[last].stackId))
               e == [h[last] EXCEPT !.stackId = full, !.isResolved = TRUE]
    <2>3. new = [h EXCEPT ![last] = e]
        BY <1>2, Zenon DEF SetLastSystemCallStack
    <2>4. full \in StackIds /\ full # << >>
        <3>1. PICK name \in SysNames : h[last].stackId = << name >>
            BY <2>2 DEF Named
        <3>2. Last(h[last].stackId) = name
            BY <3>1 DEF Last
        <3> QED BY <3>2, CallAppended
    <2>5. \A r : Shows(h[last].stackId, r) => Shows(full, r)
        BY <2>2, ResolvedShows
    <2> HIDE DEF last, full, new
    <2>6. e \in Entries /\ e.startTs = h[last].startTs /\ e.endTs = h[last].endTs
          /\ e.stackId = full /\ e.isResolved
        BY <2>2, <2>4 DEF Entries
    <2>7. Named(e)
        BY <2>4, <2>6 DEF Named, kEmptyStackId
    <2> HIDE DEF e
    <2>8. /\ new \in Seq(Entries) /\ Len(new) = Len(h)
          /\ \A i \in 1..Len(h) : new[i] = IF i = last THEN e ELSE h[i]
        BY <2>1, <2>3, <2>6, ExceptSeq
    <2>9. ASSUME NEW i \in 1..Len(h)
          PROVE  /\ new[i].startTs = h[i].startTs /\ new[i].endTs = h[i].endTs /\ Named(new[i])
                 /\ \A r : Shows(h[i].stackId, r) => Shows(new[i].stackId, r)
        <3>1. CASE i = last
            BY <2>5, <2>6, <2>7, <2>8, <3>1
        <3>2. CASE i # last
            BY <2>8, <3>2 DEF AllNamed
        <3> QED BY <3>1, <3>2
    <2> QED BY <2>8, <2>9 DEF IsResolving, new
<1> QED BY <1>1, <1>2

(* So the thread is still found wherever it was reported.                  *)
LEMMA ResolveKeeps ==
    ASSUME NEW h, NEW r, NEW ln, NEW o, NEW mode, NEW n \in Nat, NEW low \in Nat,
           ThreadOK(h, NoCall, r, ln, o, n, low, mode), NEW sample \in Samples
    PROVE  ThreadOK(SetLastSystemCallStack(h, StackOf(sample)), NoCall, r, ln, NoCall,
                    n, low, mode)
<1> DEFINE new == SetLastSystemCallStack(h, StackOf(sample))
<1>1. /\ HistoryOK(h, NoCall, n, mode) /\ LineOK(h, NoCall, ln, n, low, mode)
      /\ TopOK(h, NoCall, r, mode)
    BY DEF ThreadOK
<1>2. /\ h \in Seq(Entries) /\ Len(h) \in Nat /\ AllNamed(h) /\ Ordered(h, n)
      /\ StartsBy(h, Limit(NoCall, n, mode))
    BY <1>1 DEF HistoryOK, Ordered
<1>3. IsResolving(new, h)
    BY <1>2, ResolveType, SampleStack
<1> HIDE DEF new
<1>4. HistoryOK(new, NoCall, n, mode)
    <2>1. /\ new \in Seq(Entries) /\ Len(new) = Len(h)
          /\ \A i \in 1..Len(h) : /\ new[i].startTs = h[i].startTs /\ new[i].endTs = h[i].endTs
                                  /\ Named(new[i])
        BY <1>3 DEF IsResolving
    <2>2. \A i \in 1..(Len(h) - 1) : i \in 1..Len(h) /\ i + 1 \in 1..Len(h)
        BY <1>2
    <2>3. Ordered(new, n)
        BY <1>2, <2>1, <2>2 DEF Ordered
    <2>4. AllNamed(new) /\ StartsBy(new, Limit(NoCall, n, mode))
        BY <1>2, <2>1 DEF AllNamed, StartsBy
    <2> QED BY <2>3, <2>4 DEF HistoryOK
<1>5. LineOK(new, NoCall, ln, n, low, mode)
    <2>1. ASSUME NEW u, NEW x, Tells(h, u, x) PROVE Tells(new, u, x)
        BY <1>2, <1>3, <2>1, AlikeTells DEF IsResolving
    <2> QED BY <1>1, <2>1 DEF LineOK
<1>6. TopOK(new, NoCall, r, mode)
    <2>1. h = << >> => new = << >>
        BY <1>3 DEF IsResolving
    <2>2. h # << >> => new # << >> /\ Len(h) \in 1..Len(h)
        BY <1>2, <1>3 DEF IsResolving
    <2> QED BY <1>1, <1>3, <2>1, <2>2 DEF TopOK, IsResolving
<1> QED BY <1>4, <1>5, <1>6, Outside DEF ThreadOK, new

(* A call, as it begins (Called); what a sample is due for as it ends      *)
(* (Owed); where its thread is then (Back).                                *)
Entered(name, r, n, reported) ==
    [since |-> n, name |-> name, reported |-> reported, from |-> r, until |-> n]

OwedFor(c, n, reported) ==
    IF n - c.since < kMinSyscallDuration THEN NoCall
    ELSE [c EXCEPT !.until = n, !.reported = reported /\ c.from # Unknown]

BackTo(c, low) ==
    IF ~c.reported \/ c.from = Unknown THEN Unknown
    ELSE IF c.from = kEmptyStackId \/ c.since < low THEN NoStack
    ELSE c.from

(* A call that begins is a call.                                           *)
LEMMA EnteredCall ==
    ASSUME NEW name \in Syscalls, NEW r \in UserStacks \cup {Unknown}, NEW n \in Nat,
           NEW reported \in BOOLEAN
    PROVE  Entered(name, r, n, reported) \in Calls /\ Entered(name, r, n, reported) # NoCall
<1>1. Entered(name, r, n, reported) \in Calls
    BY DEF Entered, Calls
<1>2. r \in StackIds \cup {Unknown}
    BY UserStack
<1>3. Entered(name, r, n, reported) \in
        [since : Nat, name : Syscalls, reported : BOOLEAN, from : StackIds \cup {Unknown},
         until : Nat]
    BY <1>2 DEF Entered
<1> QED BY <1>1, <1>3, StacksUnknownAssumption, Zenon

(* A thread that enters a call, of which nothing is reported.              *)
LEMMA SilentEntryKeeps ==
    ASSUME NEW h, NEW r, NEW ln, NEW o, NEW mode, NEW n \in Nat, NEW low \in Nat,
           ThreadOK(h, NoCall, r, ln, o, n, low, mode), NEW name \in Syscalls
    PROVE  ThreadOK(h, Entered(name, r, n, FALSE), r, ln, NoCall, n, low, mode)
<1> DEFINE c == Entered(name, r, n, FALSE)
<1>1. /\ HistoryOK(h, NoCall, n, mode) /\ LineOK(h, NoCall, ln, n, low, mode)
      /\ TopOK(h, NoCall, r, mode)
    BY DEF ThreadOK
<1>2. c \in Calls /\ c # NoCall
    BY <1>1, EnteredCall DEF TopOK
<1>3. c.since = n /\ c.reported = FALSE /\ c.from = r
    BY DEF Entered
<1> HIDE DEF c
<1>4. Limit(c, n, mode) = n /\ Limit(NoCall, n, mode) = n
    BY <1>3 DEF Limit
<1>5. HistoryOK(h, c, n, mode) /\ LineOK(h, c, ln, n, low, mode)
    BY <1>1, <1>4 DEF HistoryOK, LineOK
<1>6. TopOK(h, c, r, mode)
    BY <1>1 DEF TopOK
<1>7. CallOK(h, c, r, ln, n, low, mode)
    <2>1. \A u \in n..(n - 1) : FALSE
        OBVIOUS
    <2> QED BY <1>2, <1>3, <2>1 DEF CallOK
<1>8. OwedOK(h, c, NoCall, n)
    BY DEF OwedOK
<1> QED BY <1>5, <1>6, <1>7, <1>8 DEF ThreadOK, c

(* The name of a call is a stack.                                          *)
LEMMA NameType ==
    ASSUME NEW name \in Syscalls
    PROVE  << name >> \in StackIds /\ << name >> # kEmptyStackId /\ name \in SysNames
<1>1. name \in Symbols \cup Syscalls \cup {"No Stack", "empty"}
    OBVIOUS
<1>2. \A S : name \in S => << name >> \in Seq(S)
    OBVIOUS
<1> QED BY <1>1, <1>2 DEF StackIds, kEmptyStackId, SysNames

(* The entry of a call comes after the one that the thread was found in:   *)
(* the two are never merged.                                               *)
LEMMA CallAppears ==
    ASSUME NEW h \in Seq(Entries), NEW c, NEW r \in UserStacks, NEW ts \in Nat,
           NEW low \in Nat, low <= ts, c.since = ts, c.from = r, c.name \in Syscalls,
           IF r = kEmptyStackId THEN h = << >> ELSE h # << >> /\ Shows(h[Len(h)].stackId, r),
           NEW new, IsSet(new, h, ts, << c.name >>, TRUE)
    PROVE  CallComesLast(new, c, low)
<1>1. ~Shows(<< c.name >>, r)
    BY UserStack
<1>2. ~(h # << >> /\ h[Len(h)].stackId = << c.name >>)
    BY <1>1
<1>3. Len(h) \in Nat
    OBVIOUS
<1>4. Len(new) = Len(h) + 1 /\ new[Len(h) + 1] = StackWrapper(<< c.name >>, ts, TRUE)
    BY <1>2 DEF IsSet
<1>5. /\ new # << >> /\ new[Len(new)].startTs = c.since
      /\ new[Len(new)].stackId = << c.name >>
      /\ new[Len(new)].isSyscall /\ ~new[Len(new)].isResolved
    BY <1>4 DEF StackWrapper, IsSet
<1>6. CASE r = kEmptyStackId
    <2>1. Len(new) = 1
        BY <1>4, <1>6
    <2>2. c.from = kEmptyStackId \/ c.since < low
        BY <1>6
    <2> QED BY <1>5, <2>1, <2>2, Zenon DEF CallComesLast
<1>7. CASE r # kEmptyStackId
    <2>1. h # << >> /\ Shows(h[Len(h)].stackId, r)
        BY <1>7
    <2>2. Len(h) \in 1..Len(h) /\ Len(new) - 1 = Len(h) /\ Len(new) > 1
        BY <1>3, <1>4, <2>1
    <2>3. new[Len(new) - 1].stackId = h[Len(h)].stackId
        BY <2>2 DEF IsSet, SameButEnd
    <2>4. Shows(new[Len(new) - 1].stackId, c.from)
        BY <2>1, <2>3, Zenon
    <2>5. ~(c.from = kEmptyStackId \/ c.since < low)
        BY <1>7
    <2> QED BY <1>5, <2>2, <2>4, <2>5, Zenon DEF CallComesLast
<1> QED BY <1>6, <1>7

(* A thread that enters a call, which is reported.                         *)
LEMMA EntryKeeps ==
    ASSUME NEW h, NEW r, NEW ln, NEW o, NEW n \in Nat, NEW low \in Nat, low <= n,
           ThreadOK(h, NoCall, r, ln, o, n, low, "events"), NEW name \in Syscalls
    PROVE  ThreadOK(StartSystemCall(h, n, name), Entered(name, r, n, TRUE),
                    IF r = Unknown THEN r ELSE StackOfCall(name), ln, NoCall, n, low, "events")
<1> DEFINE c == Entered(name, r, n, TRUE)
           new == SetStack(h, n, << name >>, TRUE)
           r1 == IF r = Unknown THEN r ELSE << name >>
<1>1. /\ HistoryOK(h, NoCall, n, "events") /\ LineOK(h, NoCall, ln, n, low, "events")
      /\ TopOK(h, NoCall, r, "events")
    BY DEF ThreadOK
<1>2. c \in Calls /\ c # NoCall
    BY <1>1, EnteredCall DEF TopOK
<1>3. c.since = n /\ c.reported = TRUE /\ c.from = r /\ c.name = name
    BY DEF Entered
<1>4. StartSystemCall(h, n, name) = new /\ StackOfCall(name) = << name >>
    BY NameStack DEF StartSystemCall, StackOfCall
<1>5. << name >> \in StackIds /\ << name >> # kEmptyStackId /\ name \in SysNames
    BY NameType
<1> HIDE DEF c, new
<1>6. /\ IsSet(new, h, n, << name >>, TRUE)
      /\ HistoryOK(new, c, n, "events") /\ LineOK(new, c, ln, n, low, "events")
    <2>1. Limit(c, n, "events") = n /\ Limit(NoCall, n, "events") = n
        BY DEF Limit
    <2> QED BY <1>1, <1>5, <2>1, SetKeeps DEF new
<1>7. TopOK(new, c, r1, "events")
    BY <1>2, <1>3, <1>5, <1>6 DEF TopOK, IsSet, Shows
<1>8. ASSUME r # Unknown PROVE CallComesLast(new, c, low)
    <2>1. r \in UserStacks /\ (IF r = kEmptyStackId THEN h = << >>
                               ELSE h # << >> /\ Shows(h[Len(h)].stackId, r))
        BY <1>1, <1>8 DEF TopOK
    <2>2. h \in Seq(Entries)
        BY <1>1 DEF HistoryOK, Ordered
    <2> QED BY <1>3, <1>6, <2>1, <2>2, CallAppears
<1>9. CallOK(new, c, r1, ln, n, low, "events")
    BY <1>2, <1>3, <1>8 DEF CallOK
<1>10. OwedOK(new, c, NoCall, n)
    BY DEF OwedOK
<1>11. ThreadOK(new, c, r1, ln, NoCall, n, low, "events")
    BY <1>6, <1>7, <1>9, <1>10 DEF ThreadOK
<1> QED BY <1>4, <1>11 DEF c

(* A sample is due for a call whose entry comes just before the last.      *)
LEMMA OwedKeeps ==
    ASSUME NEW h, NEW c \in Calls, NEW n \in Nat, c.since <= n, NEW reported \in BOOLEAN,
           reported /\ c.from # Unknown =>
              /\ h # << >> /\ h[Len(h)].startTs = n
              /\ Len(h) > 1 =>
                   h[Len(h) - 1] = [stackId |-> << c.name >>, startTs |-> c.since,
                                    endTs |-> n, isSyscall |-> TRUE, isResolved |-> FALSE]
    PROVE  OwedOK(h, NoCall, OwedFor(c, n, reported), n)
<1> DEFINE o == OwedFor(c, n, reported)
<1> SUFFICES ASSUME o # NoCall PROVE OwedOK(h, NoCall, o, n)
    BY DEF OwedOK
<1>1. o = [c EXCEPT !.until = n, !.reported = reported /\ c.from # Unknown]
      /\ ~(n - c.since < kMinSyscallDuration)
    BY DEF OwedFor
<1>2. kMinSyscallDuration \in Nat /\ c.since \in Nat
    BY SyscallAssumption DEF Calls
<1> HIDE DEF o
<1>3. /\ o \in Calls /\ o.until = n /\ o.since = c.since /\ o.name = c.name
      /\ o.reported = (reported /\ c.from # Unknown)
    BY <1>1 DEF Calls
<1>4. o.until - o.since >= kMinSyscallDuration /\ o.until <= n
    BY <1>1, <1>2, <1>3
<1> QED BY <1>3, <1>4 DEF OwedOK

(* Where a thread goes back to is not the call that it leaves.             *)
LEMMA NoStackFacts ==
    NoStack \in StackIds /\ NoStack # kEmptyStackId /\ NoStack \in UserStacks
    /\ NoStack = << "No Stack" >>
<1>1. NoStack = << "No Stack" >>
    BY NameStack DEF NoStack
<1>2. NoStack \in UserStacks
    BY DEF UserStacks
<1>3. NoStack # kEmptyStackId
    BY <1>1 DEF kEmptyStackId
<1> QED BY <1>1, <1>2, <1>3, UserStack

(* What the end of a call does: it goes back to the entry before the last. *)
LEMMA EndCallSets ==
    ASSUME NEW h, NEW c, NEW ln, NEW mode, NEW n \in Nat, NEW low \in Nat,
           HistoryOK(h, c, n, mode), LineOK(h, c, ln, n, low, mode), Limit(c, n, mode) = n
    PROVE  LET new == EndSytemCall(h, n)
               id  == IF Len(h) = 1 THEN NoStack ELSE h[Len(h) - 1].stackId
           IN  /\ HistoryOK(new, NoCall, n, mode) /\ LineOK(new, NoCall, ln, n, low, mode)
               /\ IF h # << >> /\ h[Len(h)].isSyscall
                  THEN IsSet(new, h, n, id, Len(h) = 1) ELSE new = h
<1> DEFINE new == EndSytemCall(h, n)
           id  == IF Len(h) = 1 THEN NoStack ELSE h[Len(h) - 1].stackId
<1>1. h \in Seq(Entries) /\ Len(h) \in Nat /\ AllNamed(h)
    BY DEF HistoryOK, Ordered
<1>2. Limit(NoCall, n, mode) = n
    BY Outside
<1>3. CASE ~(h # << >> /\ h[Len(h)].isSyscall)
    <2>1. new = h
        BY <1>3, Zenon DEF EndSytemCall, Last
    <2>2. HistoryOK(h, NoCall, n, mode) /\ LineOK(h, NoCall, ln, n, low, mode)
        BY <1>2 DEF HistoryOK, LineOK
    <2> QED BY <1>3, <2>1, <2>2
<1>4. CASE h # << >> /\ h[Len(h)].isSyscall
    <2>1. new = SetStack(h, n, id, Len(h) = 1)
        <3>1. CASE Len(h) = 1
            BY <1>4, <3>1, Zenon DEF EndSytemCall, Last, SetNoStack, NoStack
        <3>2. CASE Len(h) # 1
            BY <1>4, <3>2, Zenon DEF EndSytemCall, Last
        <3> QED BY <3>1, <3>2
    <2>2. /\ id \in StackIds /\ id # kEmptyStackId
          /\ Len(h) = 1 => \E name \in SysNames : id = << name >>
        <3>1. CASE Len(h) = 1
            BY <3>1, NoStackFacts DEF SysNames
        <3>2. CASE Len(h) # 1
            <4>0. Len(h) # 0
                BY <1>1, <1>4
            <4>1. \A k \in Nat : k # 0 /\ k # 1 => k - 1 \in 1..k
                OBVIOUS
            <4>2. Len(h) - 1 \in 1..Len(h)
                BY <1>1, <3>2, <4>0, <4>1, Zenon
            <4>3. h[Len(h) - 1] \in Entries /\ Named(h[Len(h) - 1])
                BY <1>1, <4>2, ElementOfSeq DEF AllNamed
            <4> QED BY <3>2, <4>3 DEF Entries, Named
        <3> QED BY <3>1, <3>2
    <2> HIDE DEF id
    <2>3. /\ IsSet(new, h, n, id, Len(h) = 1)
          /\ HistoryOK(new, NoCall, n, mode) /\ LineOK(new, NoCall, ln, n, low, mode)
        <3>1. (Len(h) = 1) \in BOOLEAN
            OBVIOUS
        <3> DEFINE mark == Len(h) = 1
        <3>2. mark \in BOOLEAN /\ (mark => \E name \in SysNames : id = << name >>)
            BY <2>2, <3>1
        <3> HIDE DEF mark, new
        <3>3. LET set == SetStack(h, n, id, mark)
              IN  /\ IsSet(set, h, n, id, mark)
                  /\ HistoryOK(set, NoCall, n, mode) /\ LineOK(set, NoCall, ln, n, low, mode)
            BY <1>2, <2>2, <3>2, SetKeeps
        <3> QED BY <2>1, <3>3 DEF mark
    <2> QED BY <1>4, <2>3 DEF id
<1> QED BY <1>3, <1>4

(* A thread that leaves a call, if both its ends are reported, is back     *)
(* where it was, and the entry of the call is ended.                       *)
LEMMA CallEnds ==
    ASSUME NEW h, NEW c \in Calls, NEW n \in Nat, NEW low \in Nat, NEW new,
           Ordered(h, n), c.from # Unknown, CallComesLast(h, c, low),
           IF h # << >> /\ h[Len(h)].isSyscall
           THEN IsSet(new, h, n, IF Len(h) = 1 THEN NoStack ELSE h[Len(h) - 1].stackId,
                      Len(h) = 1)
           ELSE new = h
    PROVE  /\ new # << >> /\ new[Len(new)].startTs = n
           /\ Shows(new[Len(new)].stackId,
                    IF c.from = kEmptyStackId \/ c.since < low THEN NoStack ELSE c.from)
           /\ Len(new) > 1 =>
                new[Len(new) - 1] = [stackId |-> << c.name >>, startTs |-> c.since,
                                     endTs |-> n, isSyscall |-> TRUE, isResolved |-> FALSE]
<1> DEFINE id == IF Len(h) = 1 THEN NoStack ELSE h[Len(h) - 1].stackId
           back == IF c.from = kEmptyStackId \/ c.since < low THEN NoStack ELSE c.from
<1>1. /\ h # << >> /\ h[Len(h)].isSyscall /\ ~h[Len(h)].isResolved
      /\ h[Len(h)].stackId = << c.name >> /\ h[Len(h)].startTs = c.since
      /\ IsSet(new, h, n, id, Len(h) = 1)
    BY DEF CallComesLast
<1>2. h \in Seq(Entries) /\ Len(h) \in Nat /\ Len(h) \in 1..Len(h)
    BY <1>1 DEF Ordered
<1>3. Shows(id, back) /\ back \in UserStacks
    <2>1. CASE c.from = kEmptyStackId \/ c.since < low
        BY <2>1, NoStackFacts DEF CallComesLast, Shows
    <2>2. CASE ~(c.from = kEmptyStackId \/ c.since < low)
        BY <2>2 DEF CallComesLast, Calls
    <2> QED BY <2>1, <2>2
<1> HIDE DEF id, back
<1>4. id # << c.name >>
    <2>1. c.name \in Syscalls
        BY DEF Calls
    <2> QED BY <1>3, <2>1, UserStack
<1>5. Len(new) = Len(h) + 1 /\ new[Len(h) + 1] = StackWrapper(id, n, Len(h) = 1)
    BY <1>1, <1>4 DEF IsSet
<1>6. new # << >> /\ new[Len(new)].startTs = n /\ new[Len(new)].stackId = id
    BY <1>1, <1>5 DEF IsSet, StackWrapper
<1>7. new[Len(new) - 1] = [stackId |-> << c.name >>, startTs |-> c.since,
                           endTs |-> n, isSyscall |-> TRUE, isResolved |-> FALSE]
    <2> DEFINE e == new[Len(new) - 1]
    <2>1. Len(new) - 1 = Len(h) /\ Len(h) \in 1..Len(new)
        BY <1>2, <1>5
    <2>2. new[Len(h)] \in Entries /\ SameButEnd(new[Len(h)], h[Len(h)]) /\ new[Len(h)].endTs = n
        BY <1>1, <1>2, <2>1, ElementOfSeq DEF IsSet
    <2>3. e \in Entries /\ SameButEnd(e, h[Len(h)]) /\ e.endTs = n
        BY <2>1, <2>2
    <2> HIDE DEF e
    <2>4. h[Len(h)].isSyscall = TRUE /\ h[Len(h)].isResolved = FALSE
        BY <1>1, <1>2, ElementOfSeq DEF Entries
    <2> QED BY <1>1, <2>3, <2>4 DEF SameButEnd, Entries, e
<1> QED BY <1>3, <1>6, <1>7 DEF back

(* Where a thread goes back to is outside of any call, or is unknown.      *)
LEMMA BackToType ==
    ASSUME NEW c \in Calls, NEW low
    PROVE  /\ BackTo(c, low) \in UserStacks \cup {Unknown}
           /\ BackTo(c, low) # Unknown =>
                /\ c.reported /\ c.from # Unknown /\ BackTo(c, low) # kEmptyStackId
                /\ BackTo(c, low) = IF c.from = kEmptyStackId \/ c.since < low THEN NoStack
                                    ELSE c.from
<1>1. c.from \in UserStacks \cup {Unknown}
    BY DEF Calls
<1> QED BY <1>1, NoStackFacts DEF BackTo

(* An exit that is reported, of a call whose entry may not be.             *)
LEMMA ExitKeeps ==
    ASSUME NEW h, NEW c, NEW r, NEW ln, NEW o, NEW n \in Nat, NEW low \in Nat,
           ThreadOK(h, c, r, ln, o, n, low, "events"), c # NoCall
    PROVE  ThreadOK(EndSytemCall(h, n), NoCall, BackTo(c, low), ln,
                    OwedFor(c, n, c.reported), n, low, "events")
<1> DEFINE new == EndSytemCall(h, n)
           id  == IF Len(h) = 1 THEN NoStack ELSE h[Len(h) - 1].stackId
           r1  == BackTo(c, low)
<1>1. /\ HistoryOK(h, c, n, "events") /\ LineOK(h, c, ln, n, low, "events")
      /\ Ordered(h, n)
    BY DEF ThreadOK, HistoryOK
<1>2. /\ c \in Calls /\ c.since <= n
      /\ c.reported /\ c.from # Unknown => CallComesLast(h, c, low)
    BY DEF ThreadOK, CallOK
<1>3. Limit(c, n, "events") = n
    BY DEF Limit
<1>4. /\ HistoryOK(new, NoCall, n, "events") /\ LineOK(new, NoCall, ln, n, low, "events")
      /\ IF h # << >> /\ h[Len(h)].isSyscall
         THEN IsSet(new, h, n, id, Len(h) = 1) ELSE new = h
    BY <1>1, <1>3, EndCallSets, Zenon
<1> HIDE DEF new
<1>5. c.reported /\ c.from # Unknown =>
        /\ new # << >> /\ new[Len(new)].startTs = n
        /\ Shows(new[Len(new)].stackId,
                 IF c.from = kEmptyStackId \/ c.since < low THEN NoStack ELSE c.from)
        /\ Len(new) > 1 =>
             new[Len(new) - 1] = [stackId |-> << c.name >>, startTs |-> c.since,
                                  endTs |-> n, isSyscall |-> TRUE, isResolved |-> FALSE]
    BY <1>1, <1>2, <1>4, CallEnds, Zenon
<1>6. TopOK(new, NoCall, r1, "events")
    <2>1. r1 # Unknown => r1 # kEmptyStackId /\ new # << >> /\ Shows(new[Len(new)].stackId, r1)
        BY <1>2, <1>5, BackToType, Zenon
    <2>2. r1 \in UserStacks \cup {Unknown}
        BY <1>2, BackToType, Zenon
    <2> HIDE DEF r1
    <2> QED BY <2>1, <2>2 DEF TopOK
<1>7. OwedOK(new, NoCall, OwedFor(c, n, c.reported), n)
    <2>1. c.reported \in BOOLEAN
        BY <1>2 DEF Calls
    <2> QED BY <1>2, <1>5, <2>1, OwedKeeps, Zenon
<1>8. CallOK(new, NoCall, r1, ln, n, low, "events")
    BY Outside, Zenon
<1> QED BY <1>4, <1>6, <1>7, <1>8, Zenon DEF ThreadOK, new

(* An exit that is lost.  Nothing is known then of a thread whose entry    *)
(* was reported.                                                           *)
LEMMA LostExitKeeps ==
    ASSUME NEW h, NEW c, NEW r, NEW ln, NEW o, NEW n \in Nat, NEW low \in Nat,
           ThreadOK(h, c, r, ln, o, n, low, "events"), c # NoCall
    PROVE  ThreadOK(h, NoCall, IF c.reported THEN Unknown ELSE r, ln,
                    OwedFor(c, n, FALSE), n, low, "events")
<1> DEFINE r1 == IF c.reported THEN Unknown ELSE r
<1>1. /\ HistoryOK(h, c, n, "events") /\ LineOK(h, c, ln, n, low, "events")
      /\ TopOK(h, c, r, "events")
    BY DEF ThreadOK
<1>2. c \in Calls /\ c.since <= n
    BY DEF ThreadOK, CallOK
<1>3. Limit(c, n, "events") = n /\ Limit(NoCall, n, "events") = n
    BY DEF Limit
<1>4. HistoryOK(h, NoCall, n, "events") /\ LineOK(h, NoCall, ln, n, low, "events")
    BY <1>1, <1>3 DEF HistoryOK, LineOK
<1>5. TopOK(h, NoCall, r1, "events")
    BY <1>1 DEF TopOK
<1>6. OwedOK(h, NoCall, OwedFor(c, n, FALSE), n)
    BY <1>2, OwedKeeps, Zenon
<1> QED BY <1>4, <1>5, <1>6, Outside, Zenon DEF ThreadOK

(* A call that is reported at its end, with its duration, is set where it  *)
(* began: nothing was reported since.                                      *)
LEMMA LateEntry ==
    ASSUME NEW h, NEW c, NEW r, NEW ln, NEW ln1, NEW o, NEW n \in Nat, NEW low \in Nat,
           n <= MaxTs, ThreadOK(h, c, r, ln, o, n, low, "latency"), c # NoCall,
           \A u \in 0..MaxTs :
              ln1[u] = IF u \in c.since..(n - 1) THEN << c.name >> ELSE ln[u]
    PROVE  LET mid == SetStack(h, c.since, << c.name >>, TRUE)
           IN  /\ HistoryOK(mid, NoCall, n, "latency")
               /\ LineOK(mid, NoCall, ln1, n, low, "latency")
               /\ CallComesLast(mid, c, 0)
<1> DEFINE name == c.name
           mid == SetStack(h, c.since, << name >>, TRUE)
<1>1. /\ HistoryOK(h, c, n, "latency") /\ LineOK(h, c, ln, n, low, "latency")
      /\ TopOK(h, c, r, "latency")
    BY DEF ThreadOK
<1>2. c \in Calls /\ c.since <= n /\ ~c.reported /\ c.from = r
    BY DEF ThreadOK, CallOK
<1>3. c.since \in Nat /\ name \in Syscalls
    BY <1>2 DEF Calls
<1>4. Limit(c, n, "latency") = c.since /\ Limit(NoCall, n, "latency") = n
    BY DEF Limit
<1>5. h \in Seq(Entries) /\ Ordered(h, n) /\ AllNamed(h) /\ StartsBy(h, c.since)
    BY <1>1, <1>4 DEF HistoryOK, Ordered
<1>6. << name >> \in StackIds /\ << name >> # kEmptyStackId /\ name \in SysNames
    BY <1>3, NameType
<1>7. r \in UserStacks /\ (IF r = kEmptyStackId THEN h = << >>
                           ELSE h # << >> /\ Shows(h[Len(h)].stackId, r))
    BY <1>1, <1>2 DEF TopOK
<1>8. IsSet(mid, h, c.since, << name >>, TRUE)
    BY <1>3, <1>5, <1>6, SetStackSets
<1> HIDE DEF mid
<1>9. CallComesLast(mid, c, 0)
    <2>1. 0 <= c.since
        BY <1>3
    <2> QED BY <1>2, <1>3, <1>5, <1>7, <1>8, <2>1, CallAppears
<1>10. Ordered(mid, n) /\ StartsBy(mid, c.since)
    BY <1>2, <1>3, <1>5, <1>6, <1>8, SetKeepsOrder
<1>11. AllNamed(mid)
    BY <1>5, <1>6, <1>8, SetKeepsNames
<1>12. mid \in Seq(Entries) /\ \A i \in 1..Len(mid) : mid[i].startTs \in Nat
    BY <1>10, EntryTimes DEF Ordered
<1>13. \A u \in Int : c.since <= u => StartsBy(mid, u)
    BY <1>3, <1>10, <1>12 DEF StartsBy
<1>14. HistoryOK(mid, NoCall, n, "latency")
    BY <1>2, <1>4, <1>10, <1>11, <1>13 DEF HistoryOK
<1>15. ASSUME NEW u \in low..(n - 1), ln1[u] # Unknown PROVE Tells(mid, u, ln1[u])
    <2>1. u \in 0..MaxTs /\ u \in Int
        BY StacksTimeAssumption
    <2>2. CASE u < c.since
        <3>1. u \in low..(c.since - 1)
            BY <1>3, <2>1, <2>2
        <3>2. ln1[u] = ln[u]
            BY <1>3, <2>1, <2>2
        <3>3. Tells(h, u, ln[u])
            BY <1>1, <1>4, <1>15, <3>1, <3>2 DEF LineOK
        <3> QED BY <1>3, <1>5, <1>8, <2>1, <2>2, <3>2, <3>3, SetTells
    <2>3. CASE ~(u < c.since)
        <3>1. ln1[u] = << name >>
            BY <1>3, <2>1, <2>3
        <3>2. StartsBy(mid, u)
            BY <1>3, <1>13, <2>1, <2>3
        <3>3. mid # << >> /\ Shows(mid[Len(mid)].stackId, << name >>)
            BY <1>8 DEF IsSet, Shows
        <3> QED BY <1>12, <2>1, <3>1, <3>2, <3>3, LastTells
    <2> QED BY <2>2, <2>3
<1>16. LineOK(mid, NoCall, ln1, n, low, "latency")
    BY <1>4, <1>15 DEF LineOK
<1> QED BY <1>9, <1>14, <1>16 DEF mid

(* Then the call ends as any other does.                                   *)
LEMMA LatencyKeeps ==
    ASSUME NEW h, NEW c, NEW r, NEW ln, NEW ln1, NEW o, NEW n \in Nat, NEW low \in Nat,
           n <= MaxTs, ThreadOK(h, c, r, ln, o, n, low, "latency"), c # NoCall,
           \A u \in 0..MaxTs :
              ln1[u] = IF u \in c.since..(n - 1) THEN << c.name >> ELSE ln[u]
    PROVE  ThreadOK(EndSytemCall(SetStack(h, c.since, << c.name >>, TRUE), n), NoCall,
                    IF r = kEmptyStackId THEN NoStack ELSE r, ln1, OwedFor(c, n, TRUE),
                    n, low, "latency")
<1> DEFINE mid == SetStack(h, c.since, << c.name >>, TRUE)
           new == EndSytemCall(mid, n)
           id  == IF Len(mid) = 1 THEN NoStack ELSE mid[Len(mid) - 1].stackId
           r1  == IF r = kEmptyStackId THEN NoStack ELSE r
<1>1. /\ HistoryOK(mid, NoCall, n, "latency")
      /\ LineOK(mid, NoCall, ln1, n, low, "latency")
      /\ CallComesLast(mid, c, 0)
    BY LateEntry
<1>2. c \in Calls /\ c.since <= n /\ ~c.reported /\ c.from = r
    BY DEF ThreadOK, CallOK
<1>3. TopOK(h, c, r, "latency")
    BY DEF ThreadOK
<1>4. r # Unknown /\ r \in UserStacks
    BY <1>2, <1>3 DEF TopOK
<1> HIDE DEF mid
<1>5. Ordered(mid, n)
    BY <1>1 DEF HistoryOK
<1>6. /\ HistoryOK(new, NoCall, n, "latency") /\ LineOK(new, NoCall, ln1, n, low, "latency")
      /\ IF mid # << >> /\ mid[Len(mid)].isSyscall
         THEN IsSet(new, mid, n, id, Len(mid) = 1) ELSE new = mid
    BY <1>1, Outside, EndCallSets, ZenonT(40)
<1> HIDE DEF new
<1>7. /\ new # << >> /\ new[Len(new)].startTs = n
      /\ Shows(new[Len(new)].stackId,
               IF c.from = kEmptyStackId \/ c.since < 0 THEN NoStack ELSE c.from)
      /\ Len(new) > 1 =>
           new[Len(new) - 1] = [stackId |-> << c.name >>, startTs |-> c.since,
                                endTs |-> n, isSyscall |-> TRUE, isResolved |-> FALSE]
    <2>1. 0 \in Nat
        OBVIOUS
    <2> QED BY <1>1, <1>2, <1>4, <1>5, <1>6, <2>1, CallEnds, Zenon
<1>8. ~(c.since < 0)
    BY <1>2 DEF Calls
<1>9. r1 # kEmptyStackId /\ r1 \in UserStacks /\ r1 # Unknown
    BY <1>4, NoStackFacts, UserStack
<1>10. TopOK(new, NoCall, r1, "latency")
    <2>1. Shows(new[Len(new)].stackId, r1)
        BY <1>2, <1>7, <1>8
    <2> HIDE DEF r1
    <2> QED BY <1>7, <1>9, <2>1 DEF TopOK
<1>11. OwedOK(new, NoCall, OwedFor(c, n, TRUE), n)
    BY <1>2, <1>7, OwedKeeps, Zenon
<1>12. CallOK(new, NoCall, r1, ln1, n, low, "latency")
    BY Outside, Zenon
<1> QED BY <1>6, <1>10, <1>11, <1>12, Zenon DEF ThreadOK, new, mid

(* A call whose end is lost leaves no trace.                               *)
LEMMA LostLatencyKeeps ==
    ASSUME NEW h, NEW c, NEW r, NEW ln, NEW o, NEW n \in Nat, NEW low \in Nat,
           ThreadOK(h, c, r, ln, o, n, low, "latency"), c # NoCall
    PROVE  ThreadOK(h, NoCall, r, ln, OwedFor(c, n, FALSE), n, low, "latency")
<1>1. /\ HistoryOK(h, c, n, "latency") /\ LineOK(h, c, ln, n, low, "latency")
      /\ TopOK(h, c, r, "latency")
    BY DEF ThreadOK
<1>2. /\ c \in Calls /\ c.since <= n /\ ~c.reported /\ c.from = r
      /\ \A u \in c.since..(n - 1) : ln[u] = r
    BY DEF ThreadOK, CallOK
<1>3. c.since \in Nat
    BY <1>2 DEF Calls
<1>4. Limit(c, n, "latency") = c.since /\ Limit(NoCall, n, "latency") = n
    BY DEF Limit
<1>5. /\ h \in Seq(Entries) /\ Ordered(h, n) /\ AllNamed(h) /\ StartsBy(h, c.since)
      /\ \A i \in 1..Len(h) : h[i].startTs \in Nat
    BY <1>1, <1>4, EntryTimes DEF HistoryOK, Ordered
<1>6. \A u \in Int : c.since <= u => StartsBy(h, u)
    BY <1>3, <1>5 DEF StartsBy
<1>7. HistoryOK(h, NoCall, n, "latency")
    BY <1>2, <1>4, <1>5, <1>6 DEF HistoryOK
<1>8. ASSUME NEW u \in low..(n - 1), ln[u] # Unknown PROVE Tells(h, u, ln[u])
    <2>1. CASE u < c.since
        BY <1>1, <1>3, <1>4, <1>8, <2>1 DEF LineOK
    <2>2. CASE ~(u < c.since)
        <3>1. ln[u] = r /\ StartsBy(h, u) /\ u \in Int
            BY <1>2, <1>3, <1>6, <2>2
        <3>2. IF h = << >> THEN Shows(kEmptyStackId, r) ELSE Shows(h[Len(h)].stackId, r)
            BY <1>1 DEF TopOK, Shows
        <3> QED BY <1>5, <3>1, <3>2, LastTells
    <2> QED BY <2>1, <2>2
<1>9. LineOK(h, NoCall, ln, n, low, "latency")
    BY <1>4, <1>8 DEF LineOK
<1>10. TopOK(h, NoCall, r, "latency")
    BY <1>1, <1>2 DEF TopOK
<1>11. OwedOK(h, NoCall, OwedFor(c, n, FALSE), n)
    BY <1>2, OwedKeeps, Zenon
<1> QED BY <1>7, <1>9, <1>10, <1>11, Outside, Zenon DEF ThreadOK

----------------------------------------------------------------------------
(* The steps of the specification.                                         *)

(* The invariant holds at first, when nothing was reported.                *)
LEMMA Starts == Init => IInv
<1> SUFFICES ASSUME Init PROVE IInv
    OBVIOUS
<1>1. TimesOK
    BY StacksTimeAssumption DEF Init, TimesOK
<1>2. << >> \in Seq(Entries) /\ Len(<< >>) = 0 /\ 1..0 = {} /\ 0..(0 - 1) = {}
    OBVIOUS
<1>3. FunctionsOK
    BY <1>2 DEF Init, FunctionsOK
<1>4. ASSUME NEW ln, NEW mode
      PROVE  ThreadOK(<< >>, NoCall, kEmptyStackId, ln, NoCall, 0, 0, mode)
    <2>1. Ordered(<< >>, 0) /\ AllNamed(<< >>) /\ StartsBy(<< >>, 0)
        BY <1>2 DEF Ordered, AllNamed, StartsBy
    <2>2. Limit(NoCall, 0, mode) = 0
        BY Outside
    <2>3. HistoryOK(<< >>, NoCall, 0, mode)
        BY <2>1, <2>2 DEF HistoryOK
    <2>4. LineOK(<< >>, NoCall, ln, 0, 0, mode)
        BY <1>2, <2>2 DEF LineOK
    <2>5. kEmptyStackId \in UserStacks
        BY DEF UserStacks
    <2>6. TopOK(<< >>, NoCall, kEmptyStackId, mode)
        BY <2>5, UserStack DEF TopOK
    <2> QED BY <2>3, <2>4, <2>6, Outside DEF ThreadOK
<1>5. ThreadsOK
    BY <1>4 DEF Init, ThreadsOK
<1> QED BY <1>1, <1>3, <1>5 DEF IInv

(* new is old but for v at tid.                                            *)
IsOld(new, old, tid, v) ==
    /\ DOMAIN new = DOMAIN old /\ new[tid] = v
    /\ \A t \in DOMAIN old : t # tid => new[t] = old[t]

(* EXCEPT changes one thread.                                              *)
LEMMA ExceptIsOld ==
    ASSUME NEW new, NEW old, NEW tid \in DOMAIN old
    PROVE  /\ \A v : new = [old EXCEPT ![tid] = v] => IsOld(new, old, tid, v)
           /\ new = old => IsOld(new, old, tid, old[tid])
BY DEF IsOld

(* A step is of one thread.                                                *)
LEMMA OneThread ==
    ASSUME IInv, UNCHANGED <<timeVars, reports>>, NEW tid \in Profiled,
           NEW h, NEW c, NEW r, NEW ln, NEW o,
           IsOld(stacks', stacks, tid, h), IsOld(call', call, tid, c),
           IsOld(top', top, tid, r), IsOld(line', line, tid, ln),
           IsOld(owed', owed, tid, o),
           ThreadOK(h, c, r, ln, o, now, lastCleanupTs, reports),
           stacks' = [t \in DOMAIN stacks' |-> stacks'[t]]
    PROVE  IInv'
<1>1. TimesOK'
    BY DEF IInv, TimesOK, timeVars
<1>2. FunctionsOK'
    <2>1. h \in Seq(Entries)
        BY DEF ThreadOK, HistoryOK, Ordered
    <2>2. \A t \in Profiled : stacks'[t] \in Seq(Entries)
        BY <2>1 DEF IInv, FunctionsOK, IsOld
    <2> QED BY <2>2 DEF IInv, FunctionsOK, IsOld
<1>3. ThreadsOK'
    <2> SUFFICES ASSUME NEW t \in Profiled
                 PROVE  ThreadOK(stacks'[t], call'[t], top'[t], line'[t], owed'[t],
                                 now', lastCleanupTs', reports')
        BY Zenon DEF ThreadsOK
    <2>1. now' = now /\ lastCleanupTs' = lastCleanupTs /\ reports' = reports
        BY DEF timeVars
    <2>2. CASE t = tid
        BY <2>1, <2>2, Zenon DEF IsOld
    <2>3. CASE t # tid
        <3>1. ThreadOK(stacks[t], call[t], top[t], line[t], owed[t],
                       now, lastCleanupTs, reports)
            BY Zenon DEF IInv, ThreadsOK
        <3>2. /\ t \in DOMAIN stacks /\ t \in DOMAIN call /\ t \in DOMAIN top
              /\ t \in DOMAIN line /\ t \in DOMAIN owed
            BY DEF IInv, FunctionsOK
        <3> QED BY <2>1, <2>3, <3>1, <3>2, Zenon DEF IsOld
    <2> QED BY <2>2, <2>3
<1> QED BY <1>1, <1>2, <1>3 DEF IInv

(* A new time, with or without a save, keeps the invariant.                *)
LEMMA TimestampStep ==
    ASSUME IInv, NEW ts \in 1..MaxTs, OnTimestamp(ts)
    PROVE  IInv'
<1>1. /\ now \in Nat /\ now <= MaxTs /\ saveTs \in Nat /\ lastCleanupTs \in Nat
      /\ lastCleanupTs <= saveTs /\ saveTs <= now /\ now < ts /\ ts <= MaxTs /\ ts \in Nat
    BY StacksTimeAssumption DEF IInv, TimesOK, OnTimestamp
<1>2. /\ now' = ts /\ reports' = reports
      /\ lastCleanupTs' = IF SaveIsDue(ts) THEN saveTs ELSE lastCleanupTs
      /\ saveTs' = IF saveTs = 0 \/ SaveIsDue(ts) THEN ts ELSE saveTs
      /\ call' = call /\ top' = top /\ owed' = owed
    BY DEF OnTimestamp
<1>3. TimesOK'
    BY <1>1, <1>2, StacksTimeAssumption DEF IInv, TimesOK
<1>4. ASSUME NEW tid \in Profiled
      PROVE  ThreadOK(stacks'[tid], call'[tid], top'[tid], line'[tid], owed'[tid],
                      now', lastCleanupTs', reports')
    <2> DEFINE h == stacks[tid]
    <2>1. ThreadOK(h, call[tid], top[tid], line[tid], owed[tid], now, lastCleanupTs, reports)
        BY Zenon DEF IInv, ThreadsOK
    <2>2. \A u \in 0..MaxTs :
             line'[tid][u] = IF u \in now..(ts - 1) THEN top[tid] ELSE line[tid][u]
        BY DEF OnTimestamp
    <2>3. ThreadOK(h, call[tid], top[tid], line'[tid], owed[tid], ts, lastCleanupTs, reports)
        BY <1>1, <2>1, <2>2, TimePasses
    <2>4. stacks'[tid] = IF SaveIsDue(ts) THEN Cleanup(Terminate(h, ts), saveTs) ELSE h
        BY DEF OnTimestamp
    <2>5. CASE SaveIsDue(ts)
        <3>1. saveTs <= ts
            BY <1>1
        <3>2. ThreadOK(Cleanup(Terminate(h, ts), saveTs), call[tid], top[tid], line'[tid],
                       owed[tid], ts, saveTs, reports)
            BY <1>1, <2>3, <3>1, SaveKeeps
        <3> QED BY <1>2, <2>4, <2>5, <3>2, Zenon
    <2>6. CASE ~SaveIsDue(ts)
        BY <1>2, <2>3, <2>4, <2>6, Zenon
    <2> QED BY <2>5, <2>6
<1>5. FunctionsOK'
    <2>1. \A tid \in Profiled : stacks'[tid] \in Seq(Entries)
        BY <1>4, Zenon DEF ThreadOK, HistoryOK, Ordered
    <2>2. DOMAIN stacks' = Profiled /\ stacks' = [tid \in Profiled |-> stacks'[tid]]
          /\ DOMAIN line' = Profiled
        BY DEF OnTimestamp
    <2> QED BY <1>2, <2>1, <2>2 DEF IInv, FunctionsOK
<1> QED BY <1>3, <1>4, <1>5, Zenon DEF IInv, ThreadsOK

(* What SetHistory does, and what a step of the profiler finds.            *)
LEMMA ProfilerFinds ==
    ASSUME IInv, NEW tid \in Profiled
    PROVE  /\ now \in Nat /\ lastCleanupTs \in Nat /\ lastCleanupTs <= now /\ now <= MaxTs
           /\ ThreadOK(stacks[tid], call[tid], top[tid], line[tid], owed[tid],
                       now, lastCleanupTs, reports)
           /\ reports = "events" \/ reports = "latency"
           /\ tid \in DOMAIN stacks /\ tid \in DOMAIN call /\ tid \in DOMAIN top
           /\ tid \in DOMAIN line /\ tid \in DOMAIN owed
           /\ \A h : SetHistory(tid, h) => /\ IsOld(stacks', stacks, tid, h)
                                           /\ stacks' = [t \in DOMAIN stacks' |-> stacks'[t]]
           /\ stacks = [t \in DOMAIN stacks |-> stacks[t]]
<1>1. /\ now \in Nat /\ lastCleanupTs \in Nat /\ lastCleanupTs <= now /\ now <= MaxTs
      /\ reports = "events" \/ reports = "latency"
    BY StacksTimeAssumption DEF IInv, TimesOK
<1>2. ThreadOK(stacks[tid], call[tid], top[tid], line[tid], owed[tid],
               now, lastCleanupTs, reports)
    BY Zenon DEF IInv, ThreadsOK
<1>3. /\ tid \in DOMAIN stacks /\ tid \in DOMAIN call /\ tid \in DOMAIN top
      /\ tid \in DOMAIN line /\ tid \in DOMAIN owed
      /\ stacks = [t \in DOMAIN stacks |-> stacks[t]]
    BY DEF IInv, FunctionsOK
<1>4. \A h : SetHistory(tid, h) => stacks' = [t \in DOMAIN stacks' |-> stacks'[t]]
    BY DEF SetHistory
<1>5. \A h : SetHistory(tid, h) => IsOld(stacks', stacks, tid, h)
    BY <1>3, ExceptIsOld DEF SetHistory
<1> QED BY <1>1, <1>2, <1>3, <1>4, <1>5

(* Both samples of the profiler keep the invariant.                        *)
LEMMA SampleStep ==
    ASSUME IInv, NEW tid \in Profiled, NEW sample \in Samples,
           OnOnCpuSample(tid, sample) \/ OnOffCpuSample(tid, sample)
    PROVE  IInv'
<1>1. CASE OnOnCpuSample(tid, sample)
    <2> DEFINE h == SetStack(stacks[tid], now, StackOf(sample), FALSE)
    <2>1. /\ IsOld(stacks', stacks, tid, h) /\ stacks' = [t \in DOMAIN stacks' |-> stacks'[t]]
          /\ IsOld(call', call, tid, NoCall) /\ IsOld(top', top, tid, StackOf(sample))
          /\ IsOld(line', line, tid, line[tid]) /\ IsOld(owed', owed, tid, NoCall)
          /\ UNCHANGED <<timeVars, reports>>
        BY <1>1, ProfilerFinds, ExceptIsOld, Zenon DEF OnOnCpuSample
    <2>2. ThreadOK(h, NoCall, StackOf(sample), line[tid], NoCall, now, lastCleanupTs, reports)
        BY <1>1, ProfilerFinds, SampleKeeps, Zenon DEF OnOnCpuSample
    <2> QED BY <2>1, <2>2, OneThread, Zenon
<1>2. CASE OnOffCpuSample(tid, sample)
    <2> DEFINE h == SetLastSystemCallStack(stacks[tid], StackOf(sample))
    <2>1. /\ IsOld(stacks', stacks, tid, h) /\ stacks' = [t \in DOMAIN stacks' |-> stacks'[t]]
          /\ IsOld(call', call, tid, NoCall) /\ IsOld(top', top, tid, top[tid])
          /\ IsOld(line', line, tid, line[tid]) /\ IsOld(owed', owed, tid, NoCall)
          /\ UNCHANGED <<timeVars, reports>>
        BY <1>2, ProfilerFinds, ExceptIsOld, Zenon DEF OnOffCpuSample
    <2>2. ThreadOK(h, NoCall, top[tid], line[tid], NoCall, now, lastCleanupTs, reports)
        BY <1>2, ProfilerFinds, ResolveKeeps, Zenon DEF OnOffCpuSample
    <2> QED BY <2>1, <2>2, OneThread, Zenon
<1> QED BY <1>1, <1>2

(* An entry keeps the invariant, whether it is reported or not.            *)
LEMMA EnterStep ==
    ASSUME IInv, NEW tid \in Profiled, NEW name \in Syscalls, Enter(tid, name)
    PROVE  IInv'
<1> DEFINE c(reported) == Entered(name, top[tid], now, reported)
<1>1. /\ call[tid] = NoCall /\ UNCHANGED <<timeVars, reports>>
      /\ IsOld(owed', owed, tid, NoCall) /\ IsOld(line', line, tid, line[tid])
    BY ProfilerFinds, ExceptIsOld, Zenon DEF Enter
<1>2. \A reported : Called(tid, name, reported) = c(reported)
    BY DEF Called, Entered
<1>3. CASE /\ reports = "events" /\ OnSyscallEntry(tid, name)
           /\ call' = [call EXCEPT ![tid] = Called(tid, name, TRUE)]
           /\ top' = [top EXCEPT ![tid] = IF @ = Unknown THEN @ ELSE StackOfCall(name)]
    <2> DEFINE h == StartSystemCall(stacks[tid], now, name)
               r == IF top[tid] = Unknown THEN top[tid] ELSE StackOfCall(name)
    <2>1. /\ IsOld(stacks', stacks, tid, h) /\ stacks' = [t \in DOMAIN stacks' |-> stacks'[t]]
          /\ IsOld(call', call, tid, c(TRUE)) /\ IsOld(top', top, tid, r)
        BY <1>2, <1>3, ProfilerFinds, ExceptIsOld, Zenon DEF OnSyscallEntry
    <2>2. ThreadOK(h, c(TRUE), r, line[tid], NoCall, now, lastCleanupTs, reports)
        BY <1>1, <1>3, ProfilerFinds, EntryKeeps, Zenon
    <2> QED BY <1>1, <2>1, <2>2, OneThread, Zenon
<1>4. CASE /\ call' = [call EXCEPT ![tid] = Called(tid, name, FALSE)]
           /\ UNCHANGED <<stacks, top>>
    <2>1. /\ IsOld(stacks', stacks, tid, stacks[tid])
          /\ stacks' = [t \in DOMAIN stacks' |-> stacks'[t]]
          /\ IsOld(call', call, tid, c(FALSE)) /\ IsOld(top', top, tid, top[tid])
        BY <1>2, <1>4, ProfilerFinds, ExceptIsOld, Zenon
    <2>2. ThreadOK(stacks[tid], c(FALSE), top[tid], line[tid], NoCall,
                   now, lastCleanupTs, reports)
        BY <1>1, ProfilerFinds, SilentEntryKeeps, Zenon
    <2> QED BY <1>1, <2>1, <2>2, OneThread, Zenon
<1> QED BY <1>3, <1>4 DEF Enter

(* An exit keeps it too, in each of the four ways to report it or not.     *)
LEMMA LeaveStep ==
    ASSUME IInv, NEW tid \in Profiled, Leave(tid)
    PROVE  IInv'
<1> DEFINE h == stacks[tid]
           c == call[tid]
           r == top[tid]
           ln == line[tid]
<1>1. /\ c # NoCall /\ UNCHANGED <<timeVars, reports>> /\ IsOld(call', call, tid, NoCall)
    BY ProfilerFinds, ExceptIsOld, Zenon DEF Leave
<1>2. /\ ThreadOK(h, c, r, ln, owed[tid], now, lastCleanupTs, reports)
      /\ now \in Nat /\ lastCleanupTs \in Nat /\ now <= MaxTs
    BY ProfilerFinds, Zenon
<1>3. \A reported : Owed(c, reported) = OwedFor(c, now, reported)
    BY Zenon DEF Owed, OwedFor
<1>4. CASE /\ reports = "events" /\ OnSyscallExit(tid)
           /\ top' = [top EXCEPT ![tid] = Back(c)]
           /\ owed' = [owed EXCEPT ![tid] = Owed(c, c.reported)]
           /\ UNCHANGED line
    <2> DEFINE h1 == EndSytemCall(h, now)
    <2>1. Back(c) = BackTo(c, lastCleanupTs)
        BY Zenon DEF Back, BackTo
    <2>2. /\ IsOld(stacks', stacks, tid, h1) /\ stacks' = [t \in DOMAIN stacks' |-> stacks'[t]]
          /\ IsOld(top', top, tid, BackTo(c, lastCleanupTs)) /\ IsOld(line', line, tid, ln)
          /\ IsOld(owed', owed, tid, OwedFor(c, now, c.reported))
        BY <1>3, <1>4, <2>1, ProfilerFinds, ExceptIsOld, Zenon DEF OnSyscallExit
    <2>3. ThreadOK(h1, NoCall, BackTo(c, lastCleanupTs), ln, OwedFor(c, now, c.reported),
                   now, lastCleanupTs, reports)
        BY <1>1, <1>2, <1>4, ExitKeeps, Zenon
    <2> QED BY <1>1, <2>2, <2>3, OneThread, Zenon
<1>5. CASE /\ reports = "events" /\ UNCHANGED <<stacks, line>>
           /\ top' = [top EXCEPT ![tid] = IF c.reported THEN Unknown ELSE @]
           /\ owed' = [owed EXCEPT ![tid] = Owed(c, FALSE)]
    <2>1. /\ IsOld(stacks', stacks, tid, h) /\ stacks' = [t \in DOMAIN stacks' |-> stacks'[t]]
          /\ IsOld(top', top, tid, IF c.reported THEN Unknown ELSE r)
          /\ IsOld(line', line, tid, ln) /\ IsOld(owed', owed, tid, OwedFor(c, now, FALSE))
        BY <1>3, <1>5, ProfilerFinds, ExceptIsOld, Zenon
    <2>2. ThreadOK(h, NoCall, IF c.reported THEN Unknown ELSE r, ln, OwedFor(c, now, FALSE),
                   now, lastCleanupTs, reports)
        BY <1>1, <1>2, <1>5, LostExitKeeps, Zenon
    <2> QED BY <1>1, <2>1, <2>2, OneThread, Zenon
<1>6. CASE /\ reports = "latency" /\ OnSyscallLatency(tid, now - c.since, c.name)
           /\ line' = [line EXCEPT ![tid] =
                         [u \in 0..MaxTs |->
                            IF u \in c.since..(now - 1) THEN StackOfCall(c.name) ELSE @[u]]]
           /\ top' = [top EXCEPT ![tid] = IF @ = kEmptyStackId THEN NoStack ELSE @]
           /\ owed' = [owed EXCEPT ![tid] = Owed(c, TRUE)]
    <2> DEFINE h1 == EndSytemCall(SetStack(h, c.since, << c.name >>, TRUE), now)
               ln1 == [u \in 0..MaxTs |->
                         IF u \in c.since..(now - 1) THEN << c.name >> ELSE ln[u]]
    <2>1. StackOfCall(c.name) = << c.name >>
        BY NameStack DEF StackOfCall
    <2>2. c \in Calls /\ c.since <= now
        BY <1>1, <1>2, Zenon DEF ThreadOK, CallOK
    <2>3. Duration(now - c.since, now) = c.since
        <3>1. c.since \in Nat /\ now - (now - c.since) = c.since
            BY <1>2, <2>2 DEF Calls
        <3>2. c.since < TsModulus /\ TsModulus \in Nat \ {0} /\ c.since >= 0
            BY <1>2, <2>2, <3>1, StacksTimeAssumption, SyscallAssumption
        <3> HIDE DEF c
        <3>3. c.since % TsModulus = c.since
            BY <3>1, <3>2
        <3> QED BY <3>1, <3>3 DEF Duration
    <2>4. h1 = EndSytemCall(StartSystemCall(h, Duration(now - c.since, now), c.name), now)
        BY <2>1, <2>3, Zenon DEF StartSystemCall, StackOfCall
    <2>5. /\ IsOld(stacks', stacks, tid, h1) /\ stacks' = [t \in DOMAIN stacks' |-> stacks'[t]]
          /\ IsOld(top', top, tid, IF r = kEmptyStackId THEN NoStack ELSE r)
          /\ IsOld(line', line, tid, ln1) /\ IsOld(owed', owed, tid, OwedFor(c, now, TRUE))
        BY <1>3, <1>6, <2>1, <2>4, ProfilerFinds, ExceptIsOld, Zenon DEF OnSyscallLatency
    <2>6. \A u \in 0..MaxTs :
             ln1[u] = IF u \in c.since..(now - 1) THEN << c.name >> ELSE ln[u]
        BY Zenon
    <2> HIDE DEF ln1
    <2>7. ThreadOK(h1, NoCall, IF r = kEmptyStackId THEN NoStack ELSE r, ln1,
                   OwedFor(c, now, TRUE), now, lastCleanupTs, reports)
        BY <1>1, <1>2, <1>6, <2>6, LatencyKeeps, Zenon
    <2> QED BY <1>1, <2>5, <2>7, OneThread, Zenon
<1>7. CASE /\ reports = "latency" /\ UNCHANGED <<stacks, line, top>>
           /\ owed' = [owed EXCEPT ![tid] = Owed(c, FALSE)]
    <2>1. /\ IsOld(stacks', stacks, tid, h) /\ stacks' = [t \in DOMAIN stacks' |-> stacks'[t]]
          /\ IsOld(top', top, tid, r) /\ IsOld(line', line, tid, ln)
          /\ IsOld(owed', owed, tid, OwedFor(c, now, FALSE))
        BY <1>3, <1>7, ProfilerFinds, ExceptIsOld, Zenon
    <2>2. ThreadOK(h, NoCall, r, ln, OwedFor(c, now, FALSE), now, lastCleanupTs, reports)
        BY <1>1, <1>2, <1>7, LostLatencyKeeps, Zenon
    <2> QED BY <1>1, <2>1, <2>2, OneThread, Zenon
<1> QED BY <1>4, <1>5, <1>6, <1>7 DEF Leave

(* Every step keeps the invariant.                                         *)
LEMMA Steps == IInv /\ [Next]_vars => IInv'
<1> SUFFICES ASSUME IInv, [Next]_vars PROVE IInv'
    OBVIOUS
<1>1. ASSUME NEW ts \in 1..MaxTs, OnTimestamp(ts) PROVE IInv'
    BY <1>1, TimestampStep
<1>2. ASSUME NEW tid \in Profiled, NEW sample \in Samples,
             OnOnCpuSample(tid, sample) \/ OnOffCpuSample(tid, sample)
      PROVE  IInv'
    BY <1>2, SampleStep
<1>3. ASSUME NEW tid \in Profiled, NEW syscall \in Syscalls, Enter(tid, syscall)
      PROVE  IInv'
    BY <1>3, EnterStep
<1>4. ASSUME NEW tid \in Profiled, Leave(tid) PROVE IInv'
    BY <1>4, LeaveStep
<1>5. CASE UNCHANGED vars
    BY <1>5, Zenon DEF vars, timeVars, machineVars, IInv, TimesOK, FunctionsOK, ThreadsOK
<1> QED BY <1>1, <1>2, <1>3, <1>4, <1>5, Zenon DEF Next, Events

----------------------------------------------------------------------------
(* Both ways of asking.                                                    *)

(* The time that an entry takes between two times.                         *)
Part(h, i, start, end) ==
    {u \in start..(end - 1) : h[i].startTs <= u /\ u < h[i].endTs}

(* The greater and the lesser of two numbers.                              *)
LEMMA PairMaxMin ==
    ASSUME NEW a \in Int, NEW b \in Int
    PROVE  /\ Max({a, b}) = IF a >= b THEN a ELSE b
           /\ Min({a, b}) = IF a <= b THEN a ELSE b
<1>1. \E x \in {a, b} : \A y \in {a, b} : x >= y
    OBVIOUS
<1>2. Max({a, b}) \in {a, b} /\ \A y \in {a, b} : Max({a, b}) >= y
    BY <1>1 DEF Max
<1>3. \E x \in {a, b} : \A y \in {a, b} : x <= y
    OBVIOUS
<1>4. Min({a, b}) \in {a, b} /\ \A y \in {a, b} : Min({a, b}) <= y
    BY <1>3 DEF Min
<1> QED BY <1>2, <1>4

(* Its size is the difference of its bounds.                               *)
LEMMA PartSize ==
    ASSUME NEW h, NEW i, h[i].startTs \in Nat, h[i].endTs \in Nat,
           h[i].startTs <= h[i].endTs, NEW start \in Nat, NEW end \in Nat, start <= end,
           h[i].startTs <= end, start <= h[i].endTs, end <= MaxTs
    PROVE  /\ IsFiniteSet(Part(h, i, start, end))
           /\ Duration(Max({start, h[i].startTs}), Min({end, h[i].endTs}))
                = Cardinality(Part(h, i, start, end))
<1> DEFINE x == h[i].startTs
           y == h[i].endTs
           a == Max({start, x})
           b == Min({end, y})
<1>1. x \in Nat /\ y \in Nat /\ x <= y /\ x <= end /\ start <= y
    OBVIOUS
<1>2. Part(h, i, start, end) = {u \in start..(end - 1) : x <= u /\ u < y}
    BY DEF Part
<1> HIDE DEF x, y
<1>3. a = (IF start >= x THEN start ELSE x) /\ b = (IF end <= y THEN end ELSE y)
    <2>1. start \in Int /\ end \in Int /\ x \in Int /\ y \in Int
        BY <1>1
    <2> QED BY <2>1, PairMaxMin, Zenon
<1> HIDE DEF a, b
<1>4. a \in Nat /\ b \in Nat /\ a <= b /\ b <= MaxTs
    BY <1>1, <1>3, StacksTimeAssumption
<1>5. Part(h, i, start, end) = a..(b - 1)
    BY <1>1, <1>2, <1>3
<1>6. IsFiniteSet(a..(b - 1)) /\ Cardinality(a..(b - 1)) = b - a
    <2>1. a \in Int /\ b - 1 \in Int /\ (a > b - 1 <=> b = a) /\ (b - 1) - a + 1 = b - a
        BY <1>4
    <2>2. /\ IsFiniteSet(a..(b - 1))
          /\ Cardinality(a..(b - 1)) = IF a > b - 1 THEN 0 ELSE (b - 1) - a + 1
        BY <2>1, FS_Interval, Zenon
    <2> QED BY <1>4, <2>1, <2>2
<1>7. (b - a) % TsModulus = b - a
    BY <1>4, StacksTimeAssumption, SyscallAssumption
<1> QED BY <1>5, <1>6, <1>7 DEF Duration, a, b, x, y

(* GetStack finds the entry that covers a time, and none if there is none. *)
LEMMA GetStackCovers ==
    ASSUME NEW h, NEW n \in Nat, Ordered(h, n), NEW u \in Nat
    PROVE  /\ \A i \in 1..Len(h) : h[i].startTs <= u /\ u < h[i].endTs =>
                 GetStack(h, u) = h[i].stackId
           /\ GetStack(h, u) # kEmptyStackId =>
                 \E i \in 1..Len(h) : /\ h[i].startTs <= u /\ u < h[i].endTs
                                      /\ h[i].stackId = GetStack(h, u)
<1> DEFINE S == UpTo(h, u)
           it == IF S = {} THEN 1 ELSE Max(S)
<1>1. /\ h \in Seq(Entries) /\ Len(h) \in Nat /\ DOMAIN h = 1..Len(h)
      /\ \A i \in 1..Len(h) : h[i].startTs \in Nat /\ h[i].endTs \in Nat
    BY EntryTimes DEF Ordered
<1>2. S = {i \in 1..Len(h) : h[i].startTs <= u}
    BY <1>1 DEF UpTo
<1>3. S # {} => Max(S) \in S /\ \A i \in S : i <= Max(S)
    <2>1. S \in SUBSET (0..Len(h))
        BY <1>1, <1>2
    <2> QED BY <1>1, <2>1, MaxBelow
<1>4. GetStack(h, u) = IF h # << >> /\ h[it].startTs <= u /\ h[it].endTs > u
                       THEN h[it].stackId ELSE kEmptyStackId
    BY Zenon DEF GetStack, Covers
<1> HIDE DEF S
<1>5. ASSUME NEW i \in 1..Len(h), h[i].startTs <= u, u < h[i].endTs
      PROVE  GetStack(h, u) = h[i].stackId
    <2>1. i \in S /\ h # << >>
        BY <1>1, <1>2, <1>5
    <2>2. it \in S /\ i <= it /\ it \in 1..Len(h)
        BY <1>2, <1>3, <2>1
    <2>3. ~(i < it)
        <3> SUFFICES ASSUME i < it PROVE FALSE
            OBVIOUS
        <3>1. h[i].endTs <= h[it].startTs /\ h[it].startTs <= u
            BY <1>2, <2>2 DEF Ordered
        <3> QED BY <1>1, <1>5, <2>2, <3>1
    <2>4. it = i
        BY <2>2, <2>3
    <2> QED BY <1>1, <1>4, <1>5, <2>1, <2>4
<1>6. ASSUME GetStack(h, u) # kEmptyStackId
      PROVE  \E i \in 1..Len(h) : /\ h[i].startTs <= u /\ u < h[i].endTs
                                  /\ h[i].stackId = GetStack(h, u)
    <2>1. h # << >> /\ h[it].startTs <= u /\ h[it].endTs > u /\ GetStack(h, u) = h[it].stackId
        BY <1>4, <1>6, Zenon
    <2>2. it \in 1..Len(h)
        BY <1>1, <1>2, <1>3, <2>1
    <2> HIDE DEF it
    <2> QED BY <1>1, <2>1, <2>2
<1> QED BY <1>5, <1>6

(* EnumerateStacks calls back for every entry that has a part of the time, *)
(* with the size of that part (StacksBuilder.cpp:184-208).                 *)
LEMMA EnumerationParts ==
    ASSUME NEW h, NEW n \in Nat, n <= MaxTs, Ordered(h, n), h # << >>, h[Len(h)].endTs = n,
           NEW start \in Nat, NEW end \in Nat, start <= end, end <= n
    PROVE  LET calls == EnumerateStacks(h, start, end)
           IN  /\ DOMAIN calls \subseteq 1..Len(h)
               /\ \A i \in DOMAIN calls :
                     /\ calls[i].stackId = h[i].stackId
                     /\ IsFiniteSet(Part(h, i, start, end))
                     /\ calls[i].duration = Cardinality(Part(h, i, start, end))
               /\ \A i \in 1..Len(h) : i \notin DOMAIN calls => Part(h, i, start, end) = {}
<1> DEFINE calls == EnumerateStacks(h, start, end)
           first == FirstShown(h, start)
           shown == {i \in first..Len(h) : \A j \in first..i : h[j].startTs <= end}
           S == Before(h, start)
<1>1. /\ h \in Seq(Entries) /\ Len(h) \in Nat /\ DOMAIN h = 1..Len(h)
      /\ \A i \in 1..Len(h) : h[i].startTs \in Nat /\ h[i].endTs \in Nat
    BY EntryTimes DEF Ordered
<1>2. calls = [i \in shown |-> [stackId |-> h[i].stackId,
                                duration |-> Duration(Max({start, h[i].startTs}),
                                                      Min({end, h[i].endTs}))]]
    BY Zenon DEF EnumerateStacks
<1>3. S = {i \in 1..Len(h) : h[i].startTs < start}
    BY <1>1 DEF Before
<1>4. S # {} => Max(S) \in S /\ \A i \in S : i <= Max(S)
    <2>1. S \in SUBSET (0..Len(h))
        BY <1>1, <1>3
    <2> QED BY <1>1, <2>1, MaxBelow
<1>5. /\ first = IF S = {} THEN 1 ELSE Max(S)
      /\ first \in 1..Len(h)
    BY <1>1, <1>3, <1>4 DEF FirstShown
<1>6. \A i \in 1..Len(h) : i > first => h[i].startTs >= start
    <2> SUFFICES ASSUME NEW i \in 1..Len(h), i > first, i \in S PROVE FALSE
        BY <1>1, <1>3
    <2>1. S # {} /\ i <= first
        BY <1>4, <1>5
    <2> QED BY <1>5, <2>1
<1>7. first # 1 => h[first].startTs < start
    BY <1>3, <1>4, <1>5
<1>8. DOMAIN calls = shown
    BY <1>2
<1> HIDE DEF calls, first, S
<1>9. shown \subseteq 1..Len(h)
    BY <1>1, <1>5
<1>10. ASSUME NEW i \in shown
       PROVE  /\ calls[i].stackId = h[i].stackId
              /\ IsFiniteSet(Part(h, i, start, end))
              /\ calls[i].duration = Cardinality(Part(h, i, start, end))
    <2>1. i \in 1..Len(h) /\ i >= first /\ h[i].startTs <= end
        BY <1>1, <1>5, <1>9
    <2>2. h[i].startTs <= h[i].endTs
        BY <2>1 DEF Ordered
    <2>3. start <= h[i].endTs
        <3>1. CASE i = Len(h)
            BY <3>1
        <3>2. CASE i # Len(h)
            <4>0. \A m \in Nat : \A x, y \in 1..m : x >= y /\ x # m =>
                     x \in 1..(m - 1) /\ x + 1 \in 1..m /\ x + 1 > y
                OBVIOUS
            <4>1. i \in 1..(Len(h) - 1) /\ i + 1 \in 1..Len(h) /\ i + 1 > first
                BY <1>1, <1>5, <2>1, <3>2, <4>0, Zenon
            <4>2. h[i].endTs = h[i + 1].startTs
                BY <4>1 DEF Ordered
            <4> QED BY <1>1, <1>6, <4>1, <4>2
        <3> QED BY <3>1, <3>2
    <2>4. end <= MaxTs /\ h[i].startTs \in Nat /\ h[i].endTs \in Nat
        BY <1>1, <2>1, StacksTimeAssumption
    <2>5. /\ IsFiniteSet(Part(h, i, start, end))
          /\ Duration(Max({start, h[i].startTs}), Min({end, h[i].endTs}))
               = Cardinality(Part(h, i, start, end))
        BY <2>1, <2>2, <2>3, <2>4, PartSize
    <2> QED BY <1>2, <2>5
<1>11. ASSUME NEW i \in 1..Len(h), i \notin shown PROVE Part(h, i, start, end) = {}
    <2>1. CASE i < first
        <3>1. h[i].endTs <= h[first].startTs
            BY <1>5, <2>1 DEF Ordered
        <3>2. h[first].startTs < start
            BY <1>5, <1>7, <2>1
        <3>3. h[i].endTs < start /\ h[i].endTs \in Nat
            BY <1>1, <1>5, <3>1, <3>2
        <3> QED BY <3>3 DEF Part
    <2>2. CASE ~(i < first)
        <3>1. i \in first..Len(h)
            BY <1>5, <2>2
        <3>2. PICK j \in first..i : ~(h[j].startTs <= end)
            BY <1>11, <3>1
        <3>3. j \in 1..Len(h) /\ j <= i
            BY <1>5, <3>1
        <3>4. h[j].startTs <= h[i].startTs
            <4>1. CASE j = i
                BY <1>1, <4>1
            <4>2. CASE j # i
                <5>1. h[j].startTs <= h[j].endTs /\ h[j].endTs <= h[i].startTs
                    BY <3>3, <4>2 DEF Ordered
                <5> QED BY <1>1, <3>3, <5>1
            <4> QED BY <4>1, <4>2
        <3> QED BY <1>1, <3>2, <3>3, <3>4 DEF Part
    <2> QED BY <2>1, <2>2
<1> HIDE DEF shown
<1> QED BY <1>8, <1>9, <1>10, <1>11 DEF calls

----------------------------------------------------------------------------
(* The theorems.                                                           *)

(* The invariant holds in every state.                                     *)
THEOREM StacksInvariant == Spec => []IInv
<1> QED BY Starts, Steps, PTL DEF Spec

(* The histories of the profiled threads are sequences of entries with the *)
(* times of the program (StacksBuilder.hpp, the Wrapper).                  *)
THEOREM StacksTypes == Spec => []TypeOK
<1>1. IInv => TypeOK
    <2> SUFFICES ASSUME IInv PROVE TypeOK
        OBVIOUS
    <2> DEFINE W == [stackId : StackIds, startTs : 0..MaxTs, endTs : 0..MaxTs,
                     isSyscall : BOOLEAN, isResolved : BOOLEAN]
    <2>1. now \in Nat /\ now <= MaxTs /\ saveTs \in Nat /\ lastCleanupTs \in Nat
        BY StacksTimeAssumption DEF IInv, TimesOK
    <2>2. ASSUME NEW tid \in Profiled PROVE stacks[tid] \in Seq(W)
        <3> DEFINE h == stacks[tid]
        <3>1. Ordered(h, now)
            BY Zenon DEF IInv, ThreadsOK, ThreadOK, HistoryOK
        <3> HIDE DEF h
        <3>2. h \in Seq(Entries) /\ Len(h) \in Nat
            BY <3>1 DEF Ordered
        <3>3. ASSUME NEW i \in 1..Len(h) PROVE h[i] \in W
            <4>1. h[i] \in Entries /\ h[i].startTs <= h[i].endTs /\ h[i].endTs <= now
                BY <3>1, <3>2, EntryTimes DEF Ordered
            <4>2. h[i].startTs \in 0..MaxTs /\ h[i].endTs \in 0..MaxTs
                BY <2>1, <4>1, StacksTimeAssumption DEF Entries
            <4> QED BY <4>1, <4>2 DEF Entries
        <3>4. h = [i \in 1..Len(h) |-> h[i]]
            BY <3>2
        <3> HIDE DEF W
        <3>5. h \in Seq(W)
            BY <3>2, <3>3, <3>4
        <3> QED BY <3>5 DEF h
    <2>3. stacks = [tid \in Profiled |-> stacks[tid]]
        BY DEF IInv, FunctionsOK
    <2> QED BY <2>1, <2>2, <2>3 DEF TypeOK
<1> QED BY <1>1, StacksInvariant, PTL

(* A thread is found in the stack that it was last reported in, at every   *)
(* time since the last cleaning, whatever events are lost                  *)
(* (StacksBuilder.cpp:69-139, 210-228).                                    *)
THEOREM ReportedStacksFound == Spec => []FoundWhereReported
<1>1. IInv => FoundWhereReported
    <2> SUFFICES ASSUME IInv, NEW tid \in Profiled, NEW u \in Told(tid),
                        line[tid][u] # Unknown
                 PROVE  Shows(GetStack(Saved(tid), u), line[tid][u])
        BY DEF FoundWhereReported
    <2> DEFINE h == stacks[tid]
               limit == Limit(call[tid], now, reports)
    <2>1. ThreadOK(h, call[tid], top[tid], line[tid], owed[tid],
                   now, lastCleanupTs, reports)
        BY Zenon DEF IInv, ThreadsOK
    <2>2. /\ Ordered(h, now) /\ LineOK(h, call[tid], line[tid], now, lastCleanupTs, reports)
          /\ CallOK(h, call[tid], top[tid], line[tid], now, lastCleanupTs, reports)
        BY <2>1, Zenon DEF ThreadOK, HistoryOK
    <2>3. now \in Nat /\ lastCleanupTs \in Nat
        BY DEF IInv, TimesOK
    <2>4. limit \in Nat /\ limit <= now
        BY <2>2, <2>3 DEF Limit, CallOK, Calls
    <2>5. Told(tid) = lastCleanupTs..(limit - 1)
        BY Zenon DEF Told, Limit
    <2> HIDE DEF limit
    <2>6. u \in lastCleanupTs..(limit - 1) /\ u \in Nat /\ u < now
        BY <2>3, <2>4, <2>5
    <2>7. Tells(h, u, line[tid][u])
        BY <2>2, <2>6, Zenon DEF LineOK, limit
    <2> QED BY <2>2, <2>3, <2>6, <2>7, TellsGetStack, Zenon DEF Saved
<1> QED BY <1>1, StacksInvariant, PTL

(* The two ways to ask for the stacks of a thread agree: the durations     *)
(* that EnumerateStacks gives for a stack add up to the times at which     *)
(* GetStack finds it (StacksBuilder.cpp:184-228).                          *)
THEOREM BothWaysAgree == Spec => []DurationsAgree
<1>1. IInv => DurationsAgree
    <2> SUFFICES ASSUME IInv, NEW tid \in Profiled, NEW start \in lastCleanupTs..now,
                        NEW end \in start..now,
                        NEW id \in {Saved(tid)[i].stackId : i \in DOMAIN Saved(tid)}
                 PROVE  LET calls == EnumerateStacks(Saved(tid), start, end)
                        IN  SumOf(calls, {i \in DOMAIN calls : calls[i].stackId = id})
                              = Cardinality({u \in start..(end - 1) :
                                               GetStack(Saved(tid), u) = id})
        BY Zenon DEF DurationsAgree, SumOf
    <2> DEFINE h     == Saved(tid)
               calls == EnumerateStacks(h, start, end)
               Of    == {i \in DOMAIN calls : calls[i].stackId = id}
               Found == {u \in start..(end - 1) : GetStack(h, u) = id}
               D     == [i \in 1..Len(h) |-> Part(h, i, start, end)]
    <2>1. /\ Ordered(stacks[tid], now) /\ AllNamed(stacks[tid])
          /\ now \in Nat /\ now <= MaxTs /\ lastCleanupTs \in Nat
        BY ProfilerFinds, Zenon DEF ThreadOK, HistoryOK
    <2>2. start \in Nat /\ end \in Nat /\ start <= end /\ end <= now
        BY <2>1
    <2>3. Ordered(h, now) /\ AllNamed(h) /\ IsEnded(h, stacks[tid], now)
        <3>1. stacks[tid] \in Seq(Entries)
            BY <2>1 DEF Ordered
        <3>2. IsEnded(h, stacks[tid], now)
            BY <2>1, <3>1, TerminateEnds DEF Saved
        <3> QED BY <2>1, <3>2, EndedKeeps
    <2> HIDE DEF h
    <2>4. h \in Seq(Entries) /\ Len(h) \in Nat /\ DOMAIN h = 1..Len(h)
        BY <2>3 DEF Ordered
    <2>5. PICK k \in 1..Len(h) : id = h[k].stackId
        BY <2>4 DEF h
    <2>6. /\ h # << >> /\ h[Len(h)].endTs = now /\ id # kEmptyStackId
        BY <2>3, <2>4, <2>5 DEF IsEnded, AllNamed, Named
    <2>7. /\ DOMAIN calls \subseteq 1..Len(h)
          /\ \A i \in DOMAIN calls :
                /\ calls[i].stackId = h[i].stackId
                /\ IsFiniteSet(Part(h, i, start, end))
                /\ calls[i].duration = Cardinality(Part(h, i, start, end))
          /\ \A i \in 1..Len(h) : i \notin DOMAIN calls => Part(h, i, start, end) = {}
        BY <2>1, <2>2, <2>3, <2>6, EnumerationParts, Zenon
    <2> HIDE DEF calls
    <2>8. IsFiniteSet(Of)
        <3>1. IsFiniteSet(1..Len(h)) /\ Of \subseteq 1..Len(h)
            BY <2>4, <2>7, FS_Interval
        <3> QED BY <3>1, FS_Subset
    <2>9. \A i \in Of : IsFiniteSet(D[i]) /\ calls[i].duration = Cardinality(D[i])
        BY <2>7
    <2>10. \A i, j \in Of : i # j => D[i] \cap D[j] = {}
        <3>1. ASSUME NEW i \in 1..Len(h), NEW j \in 1..Len(h), i < j
              PROVE  Part(h, i, start, end) \cap Part(h, j, start, end) = {}
            <4>1. h[i].endTs <= h[j].startTs /\ h[i].endTs \in Nat /\ h[j].startTs \in Nat
                BY <2>3, <2>4, <3>1, EntryTimes DEF Ordered
            <4>2. ASSUME NEW u \in Part(h, i, start, end), u \in Part(h, j, start, end)
                  PROVE  FALSE
                <5>1. u \in Int /\ u < h[i].endTs /\ h[j].startTs <= u
                    BY <2>2, <4>2 DEF Part
                <5> QED BY <4>1, <5>1
            <4> QED BY <4>2
        <3> SUFFICES ASSUME NEW i \in Of, NEW j \in Of, i # j PROVE D[i] \cap D[j] = {}
            OBVIOUS
        <3>2. i \in 1..Len(h) /\ j \in 1..Len(h)
            BY <2>7
        <3>3. i < j \/ j < i
            BY <3>2
        <3> QED BY <3>1, <3>2, <3>3
    <2>11. /\ \A i \in Of : D[i] \subseteq Found
           /\ \A u \in Found : \E i \in Of : u \in D[i]
        <3>1. ASSUME NEW i \in Of, NEW u \in D[i] PROVE u \in Found
            <4>1. i \in 1..Len(h) /\ h[i].stackId = id /\ u \in Part(h, i, start, end)
                BY <2>7
            <4>2. u \in start..(end - 1) /\ u \in Nat /\ h[i].startTs <= u /\ u < h[i].endTs
                BY <2>2, <4>1 DEF Part
            <4> QED BY <2>1, <2>3, <4>1, <4>2, GetStackCovers
        <3>2. ASSUME NEW u \in Found PROVE \E i \in Of : u \in D[i]
            <4>1. u \in start..(end - 1) /\ u \in Nat /\ GetStack(h, u) = id
                BY <2>2
            <4>2. PICK i \in 1..Len(h) : /\ h[i].startTs <= u /\ u < h[i].endTs
                                         /\ h[i].stackId = id
                BY <2>1, <2>3, <2>6, <4>1, GetStackCovers
            <4>3. u \in Part(h, i, start, end)
                BY <4>1, <4>2 DEF Part
            <4>4. i \in Of
                BY <2>7, <4>2, <4>3
            <4> QED BY <4>3, <4>4
        <3> HIDE DEF D, Of, Found
        <3> QED BY <3>1, <3>2
    <2> HIDE DEF D, Of
    <2>12. SumOf(calls, Of) = Cardinality(Found)
        <3>1. IsParted(Found, D, Of, calls)
            BY <2>8, <2>9, <2>10, <2>11, Zenon DEF IsParted
        <3> HIDE DEF Found
        <3> QED BY <3>1, SumOfSizes, Zenon
    <2> QED BY <2>12 DEF Of, calls, h
<1> QED BY <1>1, StacksInvariant, PTL

(* The entry of the call that a sample is due for is the last long call.   *)
LEMMA OwnCallFound ==
    ASSUME kMaxRewind > 1, NEW h, NEW c, NEW n \in Nat, n <= MaxTs, c # NoCall, c.reported,
           Ordered(h, n), OwedOK(h, NoCall, c, n), n - c.until < kMinSyscallDuration,
           NEW i \in 1..Len(h), h[i].startTs = c.since, h[i].endTs = c.until
    PROVE  /\ Len(h) - 1 \in 1..Len(h) /\ Max(LongSystemCalls(h)) = Len(h) - 1
           /\ LongSystemCalls(h) # {} /\ ~h[Len(h) - 1].isResolved
           /\ h[Len(h) - 1].stackId = << c.name >>
           /\ h[Len(h) - 1].startTs = c.since /\ h[Len(h) - 1].endTs = c.until
<1> DEFINE k == Len(h)
<1>1. /\ c.since \in Nat /\ c.until \in Nat /\ c.until - c.since >= kMinSyscallDuration
      /\ c.until <= n /\ kMinSyscallDuration \in Nat
      /\ h[k].startTs = c.until
      /\ k > 1 => h[k - 1] = [stackId |-> << c.name >>, startTs |-> c.since,
                              endTs |-> c.until, isSyscall |-> TRUE, isResolved |-> FALSE]
    BY SyscallAssumption DEF OwedOK, Calls
<1>2. h \in Seq(Entries) /\ k \in Nat /\ k # 0
    BY DEF Ordered
<1>3. i # k
    BY <1>1
<1>4. k > 1 /\ k - 1 \in 1..k /\ k \in 1..k
    BY <1>2, <1>3
<1>5. h[k].endTs \in Nat /\ c.until <= h[k].endTs /\ h[k].endTs <= n
    BY <1>1, <1>2, <1>4, EntryTimes DEF Ordered
<1>6. LongSystemCalls(h) =
        {j \in 1..k : /\ j > k - kMaxRewind /\ h[j].isSyscall
                      /\ (h[j].endTs - h[j].startTs) % TsModulus >= kMinSyscallDuration}
    BY <1>2 DEF LongSystemCalls, Duration
<1> HIDE DEF k
<1>7. \A d \in 0..MaxTs : d % TsModulus = d
    BY StacksTimeAssumption, SyscallAssumption
<1>8. /\ h[k - 1].startTs = c.since /\ h[k - 1].endTs = c.until /\ h[k - 1].isSyscall
      /\ ~h[k - 1].isResolved /\ h[k - 1].stackId = << c.name >>
    <2>1. h[k - 1] = [stackId |-> << c.name >>, startTs |-> c.since,
                      endTs |-> c.until, isSyscall |-> TRUE, isResolved |-> FALSE]
        BY <1>1, <1>4, Zenon
    <2> QED BY <2>1
<1>9. k - 1 \in LongSystemCalls(h)
    <2>1. c.until - c.since \in 0..MaxTs
        BY <1>1, StacksTimeAssumption
    <2>2. (h[k - 1].endTs - h[k - 1].startTs) % TsModulus >= kMinSyscallDuration
        BY <1>1, <1>7, <1>8, <2>1
    <2>3. k - 1 > k - kMaxRewind
        BY <1>2, SyscallAssumption
    <2> QED BY <1>4, <1>6, <1>8, <2>2, <2>3
<1>10. k \notin LongSystemCalls(h)
    <2>1. /\ h[k].endTs - c.until \in 0..MaxTs
          /\ h[k].endTs - c.until < kMinSyscallDuration
        BY <1>1, <1>5, StacksTimeAssumption, SMTT(30)
    <2>2. ~((h[k].endTs - h[k].startTs) % TsModulus >= kMinSyscallDuration)
        BY <1>1, <1>7, <2>1
    <2> QED BY <1>6, <2>2
<1>11. Max(LongSystemCalls(h)) = k - 1
    <2>1. /\ Max(LongSystemCalls(h)) \in LongSystemCalls(h)
          /\ k - 1 <= Max(LongSystemCalls(h)) /\ Max(LongSystemCalls(h)) \in 1..k
        BY <1>2, <1>9, LastLongCall DEF k
    <2>2. Max(LongSystemCalls(h)) # k
        BY <1>10, <2>1
    <2> QED BY <1>2, <2>1, <2>2
<1> QED BY <1>4, <1>8, <1>9, <1>11 DEF k

(* The sample after a long system call goes to that call and to no other   *)
(* (StacksBuilder.cpp:141-176), if more than the last stack is looked at   *)
(* (kMaxRewind is 20, StacksBuilder.cpp:38).                               *)
THEOREM SamplesGoToOwnCalls ==
    ASSUME kMaxRewind > 1
    PROVE  Spec => SampleOfOwnCall
<1>1. IInv => SampleGoesToOwnCall
    <2> SUFFICES ASSUME IInv, NEW tid \in Profiled, NEW sample \in Samples,
                        OnOffCpuSample(tid, sample), owed[tid].reported,
                        now - owed[tid].until < kMinSyscallDuration,
                        NEW i \in DOMAIN stacks[tid],
                        stacks[tid][i].startTs = owed[tid].since,
                        stacks[tid][i].endTs = owed[tid].until
                 PROVE  \E j \in {m \in DOMAIN stacks[tid] :
                                    /\ stacks[tid][m].startTs = owed[tid].since
                                    /\ stacks[tid][m].endTs = owed[tid].until
                                    /\ stacks[tid][m].stackId = StackOfCall(owed[tid].name)} :
                          stacks'[tid] =
                            [stacks[tid] EXCEPT
                               ![j].stackId = StackOf(sample) \o StackOfCall(owed[tid].name),
                               ![j].isResolved = TRUE]
        BY ZenonT(40) DEF SampleGoesToOwnCall
    <2> DEFINE h == stacks[tid]
               c == owed[tid]
               last == Len(h) - 1
    <2>1. /\ Ordered(h, now) /\ OwedOK(h, call[tid], c, now)
          /\ now \in Nat /\ now <= MaxTs /\ tid \in DOMAIN stacks
        BY ProfilerFinds, Zenon DEF ThreadOK, HistoryOK
    <2>2. c # NoCall /\ call[tid] = NoCall
        BY DEF OnOffCpuSample
    <2>3. h \in Seq(Entries) /\ DOMAIN h = 1..Len(h)
        BY <2>1 DEF Ordered
    <2>4. /\ last \in 1..Len(h) /\ Max(LongSystemCalls(h)) = last
          /\ LongSystemCalls(h) # {} /\ ~h[last].isResolved
          /\ h[last].stackId = << c.name >>
          /\ h[last].startTs = c.since /\ h[last].endTs = c.until
        BY <2>1, <2>2, <2>3, OwnCallFound
    <2>5. stacks'[tid] = SetLastSystemCallStack(h, StackOf(sample))
        BY <2>1 DEF OnOffCpuSample, SetHistory
    <2>6. SetLastSystemCallStack(h, StackOf(sample)) =
            [h EXCEPT ![last].stackId = Append(StackOf(sample), Last(@)),
                      ![last].isResolved = TRUE]
        BY <2>4, Zenon DEF SetLastSystemCallStack
    <2>7. StackOfCall(c.name) = << c.name >>
        BY NameStack DEF StackOfCall
    <2>8. Append(StackOf(sample), Last(h[last].stackId))
            = StackOf(sample) \o StackOfCall(c.name)
        <3>1. Last(h[last].stackId) = c.name
            BY <2>4 DEF Last
        <3>2. StackOf(sample) \in Seq(Symbols \cup Syscalls \cup {"No Stack", "empty"})
            BY SampleStack DEF StackIds
        <3>3. \A S : \A s \in Seq(S) : \A x : Append(s, x) = s \o << x >>
            OBVIOUS
        <3> QED BY <2>7, <3>1, <3>2, <3>3
    <2>9. stacks'[tid] =
            [h EXCEPT ![last].stackId = StackOf(sample) \o StackOfCall(c.name),
                      ![last].isResolved = TRUE]
        BY <2>5, <2>6, <2>8, Zenon
    <2> QED BY <2>3, <2>4, <2>7, <2>9, Zenon
<1> QED BY <1>1, StacksInvariant, PTL DEF SampleOfOwnCall

=============================================================================
