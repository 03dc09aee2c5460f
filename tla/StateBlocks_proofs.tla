------------------------- MODULE StateBlocks_proofs -------------------------
(***************************************************************************)
(* Why the state history can be asked about the past: what its operators   *)
(* do to a history in the order of its times, and the theorems about the   *)
(* specification of the state blocks.                                      *)
(***************************************************************************)
EXTENDS StateBlocks, DataInduction

(* A history at time n: its values are of T, its times in order and past.  *)
IsHistory(h, T, n) ==
    /\ h \in Seq([ts : Nat, value : T])
    /\ \A i, j \in 1..Len(h) : i <= j => h[i].ts <= h[j].ts
    /\ \A i \in 1..Len(h) : h[i].ts <= n

(* What the definition says of the entries of a history.                   *)
LEMMA Entry ==
    ASSUME NEW T, NEW n, NEW h, IsHistory(h, T, n)
    PROVE  /\ Len(h) \in Nat /\ DOMAIN h = 1..Len(h) /\ (h = << >> <=> Len(h) = 0)
           /\ \A i \in 1..Len(h) :
                 /\ h[i] \in [ts : Nat, value : T]
                 /\ h[i].ts \in Nat /\ h[i].ts <= n /\ h[i].value \in T
           /\ \A i, j \in 1..Len(h) : i <= j => h[i].ts <= h[j].ts
<1>1. Len(h) \in Nat /\ DOMAIN h = 1..Len(h) /\ (h = << >> <=> Len(h) = 0)
    BY LenProperties, EmptySeq DEF IsHistory
<1>2. ASSUME NEW i \in 1..Len(h)
      PROVE  /\ h[i] \in [ts : Nat, value : T]
             /\ h[i].ts \in Nat /\ h[i].ts <= n /\ h[i].value \in T
    <2>1. h[i] \in [ts : Nat, value : T]
        BY ElementOfSeq DEF IsHistory
    <2> QED BY <2>1 DEF IsHistory
<1> QED BY <1>1, <1>2 DEF IsHistory

(* The first m entries are those that S holds, and m is what the code gets *)
(* from its binary search.                                                 *)
IsUpTo(S, m) == S = 1..m /\ (S # {} => Max(S) = m) /\ (S = {} <=> m = 0)

(* A set of positions that has every one before any of its own is a
   prefix: one with a last position, or none. *)
LEMMA PrefixMax ==
    ASSUME NEW n \in Nat, NEW S \in SUBSET (1..n), \A i \in S : \A j \in 1..i : j \in S
    PROVE  \E m \in 0..n : IsUpTo(S, m)
<1>1. CASE S = {}
    <2>1. S = 1..0
        BY <1>1
    <2> QED BY <1>1, <2>1 DEF IsUpTo
<1>2. CASE S # {}
    <2>1. Max(S) \in S /\ \A y \in S : y <= Max(S)
        <3>1. S \in SUBSET (0..n)
            OBVIOUS
        <3> QED BY <1>2, <3>1, MaxBelow
    <2> DEFINE m == Max(S)
    <2>2. m \in 1..n /\ S = 1..m
        <3> HIDE DEF m
        <3>1. m \in S /\ \A y \in S : y <= m
            BY <2>1 DEF m
        <3>2. \A i \in 1..m : i \in S
            BY <3>1
        <3>3. \A i \in S : i \in 1..m
            BY <3>1
        <3>4. S = 1..m
            BY <3>2, <3>3
        <3> QED BY <3>1, <3>4
    <2> QED BY <1>2, <2>2 DEF IsUpTo
<1> QED BY <1>1, <1>2

(* The entry in force at a time is that of index m, or none is.            *)
InForce(h, t, m) ==
    /\ m \in 0..Len(h)
    /\ IsUpTo(UpTo(h, t), m)
    /\ \A i \in 1..m : h[i].ts <= t
    /\ \A i \in (m + 1)..Len(h) : h[i].ts > t
    /\ GetValue(h, t) = IF m = 0 THEN Unknown ELSE h[m].value

(* The entries up to a time, and those before it, are the first ones.      *)
LEMMA UpToPrefix ==
    ASSUME NEW T, NEW n, NEW h, IsHistory(h, T, n), NEW t \in Nat
    PROVE  \E m : InForce(h, t, m)
<1>1. DOMAIN h = 1..Len(h) /\ Len(h) \in Nat
    BY Entry
<1>2. \A i \in 1..Len(h) : h[i].ts \in Nat
    BY Entry
<1> DEFINE S == UpTo(h, t)
<1>3. /\ S \in SUBSET (1..Len(h))
      /\ \A i \in 1..Len(h) : i \in S <=> h[i].ts <= t
    BY <1>1 DEF UpTo
<1>4. \A i \in S : \A j \in 1..i : j \in S
    BY <1>1, <1>2, <1>3 DEF IsHistory
<1>5. GetValue(h, t) = IF S = {} THEN Unknown ELSE h[Max(S)].value
    BY DEF GetValue
<1> HIDE DEF S
<1>6. PICK m \in 0..Len(h) : IsUpTo(S, m)
    BY <1>1, <1>3, <1>4, PrefixMax
<1>7. S = 1..m /\ (S # {} => Max(S) = m) /\ (S = {} <=> m = 0)
    BY <1>6 DEF IsUpTo
<1>8. /\ \A i \in 1..m : h[i].ts <= t
      /\ \A i \in (m + 1)..Len(h) : h[i].ts > t
    BY <1>1, <1>2, <1>3, <1>7
<1>9. GetValue(h, t) = IF m = 0 THEN Unknown ELSE h[m].value
    BY <1>5, <1>7
<1>10. InForce(h, t, m)
    BY <1>6, <1>8, <1>9 DEF InForce, S
<1> QED BY <1>10

(* The entries of a history before a time are a prefix of it. *)
LEMMA BeforePrefix ==
    ASSUME NEW T, NEW n, NEW h, IsHistory(h, T, n), NEW t \in Nat
    PROVE  \E m \in 0..Len(h) :
              /\ IsUpTo(Before(h, t), m)
              /\ \A i \in 1..m : h[i].ts < t
<1>1. DOMAIN h = 1..Len(h) /\ Len(h) \in Nat
    BY Entry
<1>2. \A i \in 1..Len(h) : h[i].ts \in Nat
    BY Entry
<1> DEFINE S == Before(h, t)
<1>3. /\ S \in SUBSET (1..Len(h))
      /\ \A i \in 1..Len(h) : i \in S <=> h[i].ts < t
    BY <1>1 DEF Before
<1>4. \A i \in S : \A j \in 1..i : j \in S
    BY <1>1, <1>2, <1>3 DEF IsHistory
<1> HIDE DEF S
<1>5. PICK m \in 0..Len(h) : IsUpTo(S, m)
    BY <1>1, <1>3, <1>4, PrefixMax
<1>6. \A i \in 1..m : h[i].ts < t
    BY <1>3, <1>5 DEF IsUpTo
<1> QED BY <1>5, <1>6 DEF S

(* From the present on the last value holds.                               *)
LEMMA PresentValue ==
    ASSUME NEW T, NEW n \in Nat, NEW h, IsHistory(h, T, n), NEW t \in Nat, t >= n
    PROVE  GetValue(h, t) = IF h = << >> THEN Unknown ELSE h[Len(h)].value
<1>1. PICK m \in 0..Len(h) :
         /\ \A i \in 1..m : h[i].ts <= t
         /\ \A i \in (m + 1)..Len(h) : h[i].ts > t
         /\ GetValue(h, t) = IF m = 0 THEN Unknown ELSE h[m].value
    <2>1. PICK m : InForce(h, t, m)
        BY UpToPrefix
    <2> QED BY <2>1 DEF InForce
<1>2. Len(h) \in Nat /\ (h = << >> <=> Len(h) = 0)
    BY Entry
<1>3. m = Len(h)
    <2> SUFFICES ASSUME m # Len(h) PROVE FALSE
        OBVIOUS
    <2>1. Len(h) \in (m + 1)..Len(h) /\ Len(h) \in 1..Len(h)
        BY <1>2
    <2>2. h[Len(h)].ts > t /\ h[Len(h)].ts <= n
        BY <1>1, <2>1 DEF IsHistory
    <2>3. h[Len(h)].ts \in Nat
        BY <2>1, Entry
    <2> QED BY <2>2, <2>3
<1> QED BY <1>1, <1>2, <1>3

(* A value is entered for the present, and changes nothing of the past.    *)
LEMMA ValueSet ==
    ASSUME NEW T, NEW n \in Nat, NEW h, IsHistory(h, T, n), NEW v \in T,
           NEW new, new = SetValue(h, n, v)
    PROVE  /\ IsHistory(new, T, n) /\ new # << >> /\ new[Len(new)].value = v
           /\ \A t \in Nat : GetValue(new, t) = IF t >= n THEN v ELSE GetValue(h, t)
<1>1. Len(h) \in Nat /\ DOMAIN h = 1..Len(h) /\ (h = << >> <=> Len(h) = 0)
    BY Entry
<1>2. CASE h # << >> /\ h[Len(h)].value = v
    <2>1. new = h
        BY <1>2 DEF SetValue
    <2>2. \A t \in Nat : t >= n => GetValue(h, t) = v
        BY <1>2, PresentValue
    <2> QED BY <1>2, <2>1, <2>2
<1>3. CASE ~(h # << >> /\ h[Len(h)].value = v)
    <2> DEFINE e == [ts |-> n, value |-> v]
    <2>1. new = Append(h, e) /\ e \in [ts : Nat, value : T] /\ e.ts = n /\ e.value = v
        BY <1>3 DEF SetValue
    <2> HIDE DEF e
    <2>2. /\ new \in Seq([ts : Nat, value : T]) /\ new # << >> /\ Len(new) = Len(h) + 1
          /\ \A i \in 1..Len(h) : new[i] = h[i]
          /\ new[Len(h) + 1] = e
        BY <2>1, AppendProperties DEF IsHistory
    <2>3. \A i \in 1..Len(h) : h[i].ts \in Nat /\ h[i].ts <= n
        BY Entry
    <2>4. IsHistory(new, T, n)
        <3>1. \A i \in 1..Len(new) : new[i].ts <= n /\ (i = Len(h) + 1 => new[i].ts = n)
            <4> TAKE i \in 1..Len(new)
            <4>1. i \in 1..Len(h) \/ i = Len(h) + 1
                BY <1>1, <2>2
            <4> QED BY <2>1, <2>2, <2>3, <4>1
        <3>2. \A i, j \in 1..Len(new) : i <= j => new[i].ts <= new[j].ts
            <4> SUFFICES ASSUME NEW i \in 1..Len(new), NEW j \in 1..Len(new), i <= j
                         PROVE  new[i].ts <= new[j].ts
                OBVIOUS
            <4>1. j = Len(h) + 1 \/ (i \in 1..Len(h) /\ j \in 1..Len(h))
                BY <1>1, <2>2
            <4> QED BY <2>2, <3>1, <4>1 DEF IsHistory
        <3> QED BY <2>2, <3>1, <3>2 DEF IsHistory
    <2>5. ASSUME NEW t \in Nat
          PROVE  GetValue(new, t) = IF t >= n THEN v ELSE GetValue(h, t)
        <3>1. PICK m \in 0..Len(new) :
                 /\ \A i \in 1..m : new[i].ts <= t
                 /\ \A i \in (m + 1)..Len(new) : new[i].ts > t
                 /\ GetValue(new, t) = IF m = 0 THEN Unknown ELSE new[m].value
            <4>1. PICK m : InForce(new, t, m)
                BY <2>4, UpToPrefix
            <4> QED BY <4>1 DEF InForce
        <3>2. CASE t >= n
            <4>1. GetValue(new, t) = IF new = << >> THEN Unknown ELSE new[Len(new)].value
                BY <2>4, <3>2, PresentValue
            <4>2. new[Len(new)].value = v
                BY <2>1, <2>2
            <4> QED BY <2>2, <3>2, <4>1, <4>2
        <3>3. CASE ~(t >= n)
            <4>1. PICK k \in 0..Len(h) :
                     /\ \A i \in 1..k : h[i].ts <= t
                     /\ \A i \in (k + 1)..Len(h) : h[i].ts > t
                     /\ GetValue(h, t) = IF k = 0 THEN Unknown ELSE h[k].value
                <5>1. PICK k : InForce(h, t, k)
                    BY UpToPrefix
                <5> QED BY <5>1 DEF InForce
            <4>2. m # Len(h) + 1
                BY <1>1, <2>1, <2>2, <3>1, <3>3
            <4>3. m \in 0..Len(h)
                BY <1>1, <2>2, <4>2
            <4>4. m = k
                <5>1. ~(m < k)
                    <6> SUFFICES ASSUME m < k PROVE FALSE
                        OBVIOUS
                    <6>1. k \in 1..k /\ k \in (m + 1)..Len(new) /\ k \in 1..Len(h)
                        BY <1>1, <2>2, <4>3
                    <6> QED BY <2>2, <2>3, <3>1, <4>1, <6>1, SMTT(30)
                <5>2. ~(k < m)
                    <6> SUFFICES ASSUME k < m PROVE FALSE
                        OBVIOUS
                    <6>1. m \in 1..m /\ m \in (k + 1)..Len(h) /\ m \in 1..Len(h)
                        BY <1>1, <4>3
                    <6> QED BY <2>2, <2>3, <3>1, <4>1, <6>1, SMTT(30)
                <5> QED BY <4>3, <5>1, <5>2
            <4>5. m # 0 => new[m] = h[m]
                BY <2>2, <4>3
            <4> QED BY <3>1, <3>3, <4>1, <4>4, <4>5
        <3> QED BY <3>2, <3>3
    <2> QED BY <1>1, <2>1, <2>2, <2>4, <2>5
<1> QED BY <1>2, <1>3

(* The history without its first d entries.                                *)
Dropped(h, new, d) ==
    /\ d \in Nat /\ d + Len(new) = Len(h) /\ Len(new) > 0
    /\ \A i \in 1..Len(new) : new[i] = h[d + i]

(* Without its first entries a history has the same values from the time   *)
(* of the next one on.                                                     *)
LEMMA Shifted ==
    ASSUME NEW T, NEW n, NEW h, IsHistory(h, T, n), NEW new, IsHistory(new, T, n),
           NEW d, Dropped(h, new, d), NEW t \in Nat, new[1].ts <= t
    PROVE  GetValue(new, t) = GetValue(h, t)
<1> DEFINE a == Len(h)
           b == Len(new)
<1>1. PICK p \in 0..a :
         /\ \A i \in 1..p : h[i].ts <= t
         /\ \A i \in (p + 1)..a : h[i].ts > t
         /\ GetValue(h, t) = IF p = 0 THEN Unknown ELSE h[p].value
    <2>1. PICK p : InForce(h, t, p)
        BY UpToPrefix
    <2> QED BY <2>1 DEF InForce
<1>2. PICK q \in 0..b :
         /\ \A i \in 1..q : new[i].ts <= t
         /\ \A i \in (q + 1)..b : new[i].ts > t
         /\ GetValue(new, t) = IF q = 0 THEN Unknown ELSE new[q].value
    <2>1. PICK q : InForce(new, t, q)
        BY UpToPrefix
    <2> QED BY <2>1 DEF InForce
<1>3. /\ d \in Nat /\ a \in Nat /\ b \in Nat /\ d + b = a /\ b > 0
      /\ \A i \in 1..b : new[i] = h[d + i]
    BY Entry DEF Dropped
<1>4. \A i \in 1..a : h[i].ts \in Nat
    BY Entry
<1>5. h[d + 1].ts <= t
    BY <1>3
<1> HIDE DEF a, b
<1>6. p >= d + 1
    <2> SUFFICES ASSUME p < d + 1 PROVE FALSE
        BY <1>3
    <2>1. d + 1 \in (p + 1)..a /\ d + 1 \in 1..a
        BY <1>3
    <2>2. h[d + 1].ts > t /\ h[d + 1].ts \in Nat
        BY <1>1, <1>4, <2>1
    <2> QED BY <1>5, <2>2
<1>7. PICK r \in 1..b : d + r = p
    <2>1. p - d \in 1..b /\ d + (p - d) = p
        BY <1>3, <1>6
    <2> QED BY <2>1
<1>8. ~(q < r)
    <2> SUFFICES ASSUME q < r PROVE FALSE
        OBVIOUS
    <2>1. r \in (q + 1)..b /\ p \in 1..p /\ p \in 1..a
        BY <1>3, <1>7
    <2>2. new[r].ts > t /\ h[p].ts <= t /\ h[p].ts \in Nat
        BY <1>1, <1>2, <1>4, <2>1
    <2>3. new[r] = h[p]
        BY <1>3, <1>7
    <2> QED BY <2>2, <2>3
<1>9. ~(r < q)
    <2> SUFFICES ASSUME r < q PROVE FALSE
        OBVIOUS
    <2>1. q \in 1..q /\ q \in 1..b /\ d + q \in (p + 1)..a /\ d + q \in 1..a
        BY <1>3, <1>7
    <2>2. h[d + q].ts > t /\ new[q].ts <= t /\ h[d + q].ts \in Nat
        BY <1>1, <1>2, <1>4, <2>1
    <2>3. new[q] = h[d + q]
        BY <1>3, <2>1
    <2> QED BY <2>2, <2>3
<1>10. q = r /\ p # 0 /\ q # 0 /\ new[r] = h[p]
    BY <1>3, <1>7, <1>8, <1>9
<1> QED BY <1>1, <1>2, <1>10

(* Some entries are dropped, and the first one left is before the cut.     *)
CutAt(h, new, T, cut) ==
    /\ new \in Seq([ts : Nat, value : T])
    /\ \E d : Dropped(h, new, d)
    /\ new[1].ts < cut

(* A cleanup drops entries at the front, which are older than its time; it *)
(* keeps the last of those.                                                *)
LEMMA CleanupDrops ==
    ASSUME NEW T, NEW n, NEW h, IsHistory(h, T, n), NEW cut \in Nat,
           NEW new, new = Cleanup(h, cut)
    PROVE  new = h \/ CutAt(h, new, T, cut)
<1>1. Len(h) \in Nat
    BY Entry
<1>2. PICK m \in 0..Len(h) : IsUpTo(Before(h, cut), m) /\ \A i \in 1..m : h[i].ts < cut
    BY BeforePrefix
<1>3. CASE m = 0
    BY <1>2, <1>3 DEF Cleanup, IsUpTo
<1>4. CASE m # 0
    <2>1. new = SubSeq(h, m, Len(h)) /\ m \in 1..Len(h)
        <3>1. Before(h, cut) # {} /\ Max(Before(h, cut)) = m
            BY <1>2, <1>4 DEF IsUpTo
        <3> QED BY <1>1, <1>4, <3>1 DEF Cleanup
    <2>2. \A i \in m..Len(h) : h[i] \in [ts : Nat, value : T]
        BY <2>1, Entry
    <2>3. /\ new \in Seq([ts : Nat, value : T])
          /\ Len(new) = IF m <= Len(h) THEN Len(h) - m + 1 ELSE 0
          /\ \A i \in 1..(Len(h) - m + 1) : new[i] = h[m + i - 1]
        BY <1>1, <2>1, <2>2, SubSeqProperties
    <2>4. PICK d \in Nat : d + 1 = m
        <3>1. m - 1 \in Nat /\ m - 1 + 1 = m
            BY <2>1
        <3> QED BY <3>1
    <2>5. Len(new) = Len(h) - m + 1
        BY <1>1, <2>1, <2>3
    <2>6. d + Len(new) = Len(h) /\ Len(new) > 0
        BY <1>1, <2>1, <2>4, <2>5
    <2>7. ASSUME NEW i \in 1..Len(new) PROVE new[i] = h[d + i]
        <3>1. i \in 1..(Len(h) - m + 1) /\ m + i - 1 = d + i
            BY <1>1, <2>1, <2>4, <2>5
        <3> QED BY <2>3, <3>1
    <2>8. new[1].ts < cut
        <3>1. 1 \in 1..(Len(h) - m + 1) /\ m + 1 - 1 = m /\ m \in 1..m
            BY <1>1, <2>1
        <3> QED BY <1>2, <2>3, <3>1
    <2>9. Dropped(h, new, d)
        BY <2>6, <2>7 DEF Dropped
    <2> QED BY <2>3, <2>8, <2>9 DEF CutAt
<1> QED BY <1>3, <1>4

(* A cleanup changes no value from its time on, the last one in any case.  *)
LEMMA CleanedUp ==
    ASSUME NEW T, NEW n \in Nat, NEW h, IsHistory(h, T, n), NEW cut \in Nat,
           NEW new, new = Cleanup(h, cut)
    PROVE  /\ IsHistory(new, T, n) /\ (new = << >> <=> h = << >>)
           /\ h # << >> => new[Len(new)].value = h[Len(h)].value
           /\ \A t \in Nat : t >= cut => GetValue(new, t) = GetValue(h, t)
<1>1. CASE new = h
    BY <1>1
<1>2. ASSUME NEW d, new \in Seq([ts : Nat, value : T]), Dropped(h, new, d),
             new[1].ts < cut
      PROVE  /\ IsHistory(new, T, n) /\ (new = << >> <=> h = << >>)
             /\ h # << >> => new[Len(new)].value = h[Len(h)].value
             /\ \A t \in Nat : t >= cut => GetValue(new, t) = GetValue(h, t)
    <2>1. /\ d \in Nat /\ d + Len(new) = Len(h) /\ Len(new) > 0
          /\ \A i \in 1..Len(new) : new[i] = h[d + i]
        BY <1>2 DEF Dropped
    <2>2. Len(h) \in Nat /\ Len(new) \in Nat /\ new # << >> /\ h # << >>
        BY <1>2, <2>1, Entry, LenProperties, EmptySeq
    <2>3. \A i \in 1..Len(new) : d + i \in 1..Len(h)
        BY <2>1, <2>2
    <2>4. IsHistory(new, T, n)
        <3>1. ASSUME NEW i \in 1..Len(new), NEW j \in 1..Len(new), i <= j
              PROVE  new[i].ts <= new[j].ts
            <4>1. d + i <= d + j /\ d + i \in 1..Len(h) /\ d + j \in 1..Len(h)
                BY <2>1, <2>2, <2>3, <3>1
            <4>2. h[d + i].ts <= h[d + j].ts
                BY <4>1 DEF IsHistory
            <4> QED BY <2>1, <4>2
        <3>2. \A i \in 1..Len(new) : new[i].ts <= n
            BY <2>1, <2>3 DEF IsHistory
        <3> QED BY <1>2, <3>1, <3>2 DEF IsHistory
    <2>5. new[Len(new)].value = h[Len(h)].value
        <3>1. Len(new) \in 1..Len(new) /\ d + Len(new) = Len(h)
            BY <2>1, <2>2
        <3>2. new[Len(new)] = h[d + Len(new)]
            BY <2>1, <3>1
        <3> QED BY <3>1, <3>2
    <2>6. ASSUME NEW t \in Nat, t >= cut
          PROVE  GetValue(new, t) = GetValue(h, t)
        <3>1. new[1].ts \in Nat
            BY <2>1, <2>2, <2>4, Entry
        <3>2. new[1].ts <= t
            BY <1>2, <2>6, <3>1
        <3> QED BY <1>2, <2>4, <3>2, Shifted
    <2>7. new = << >> <=> h = << >>
        BY <2>2
    <2> QED BY <2>4, <2>5, <2>6, <2>7
<1>3. new = h \/ CutAt(h, new, T, cut)
    BY CleanupDrops
<1> QED BY <1>1, <1>2, <1>3 DEF CutAt

(* A history is one at any later time.                                     *)
LEMMA HistoryLater ==
    ASSUME NEW T, NEW n \in Nat, NEW h, IsHistory(h, T, n), NEW m \in Nat, n <= m
    PROVE  IsHistory(h, T, m)
<1>1. \A i \in 1..Len(h) : h[i].ts \in Nat
    BY Entry
<1> QED BY <1>1 DEF IsHistory

----------------------------------------------------------------------------
(* The inductive invariant.                                                *)

(* The value that holds from the last entry on.                            *)
Present(h) == IF h = << >> THEN Unknown ELSE h[Len(h)].value

(* The trace has come to now, and what was cleaned is older.               *)
TimesOK ==
    /\ now \in 0..MaxTs /\ saveTs \in 0..MaxTs /\ lastCleanupTs \in 0..MaxTs
    /\ lastCleanupTs <= saveTs /\ saveTs <= now

(* The history of an attribute ends with its current value.                *)
UIntegersOK ==
    /\ uIntegerHistory \in [StateKeys -> Entries(StateValues)]
    /\ attribute \in [StateKeys -> StateValues \cup {Unknown}]
    /\ \A k \in StateKeys :
          /\ IsHistory(uIntegerHistory[k], StateValues, now)
          /\ attribute[k] = Present(uIntegerHistory[k])

(* The types of a counter. *)
CounterStates == [cpuAbsolute : ULongs, cpuReal : ULongs,
                  threadAbsolute : ULongs, threadReal : ULongs]
CounterRecords == [history : Entries(ULongs), state : CounterStates]

(* The entries of a counter are in the order of their times.               *)
CountersOK ==
    /\ counters \in [Tids -> CounterRecords]
    /\ \A tid \in Tids : IsHistory(counters[tid].history, ULongs, now)

(* What the hardware counts; a thread runs on at most one CPU.             *)
MachineOK ==
    /\ running \in [Cpus -> Tids]
    /\ cpuCount \in [Cpus -> 0..MaxCount]
    /\ threadCount \in [Threads -> 0..MaxCount]
    /\ counted \in [Threads -> Nat]
    /\ \A c1, c2 \in Cpus :
          running[c1] = running[c2] => c1 = c2 \/ running[c1] = IdleThread

(* The inductive invariant. *)
IInv == TimesOK /\ UIntegersOK /\ CountersOK /\ MachineOK

(* A counter against what was counted on its tid since it has a history    *)
(* (total) and in all (thread): the counter is behind, and what it knows   *)
(* of the thread's own count lets it catch up but not get ahead.           *)
Behind(c, total, thread) ==
    /\ GetLastValue(c.history) <= total
    /\ total <= thread
    /\ c.state.threadAbsolute # kInvalid =>
          /\ c.state.threadAbsolute <= thread
          /\ c.state.threadReal + (thread - c.state.threadAbsolute) <= total

(* A counter has a history as soon as it knows a count to start from.      *)
Follows(c, total, thread) ==
    /\ Behind(c, total, thread)
    /\ c.history = << >> => c.state = InvalidState /\ total = 0
    /\ c.state.cpuAbsolute = kInvalid /\ c.state.threadAbsolute = kInvalid =>
          c.history = << >>

(* What a counter knows of the CPU that its thread runs on lets it catch   *)
(* up, exactly if only the scheduler tells of the thread.                  *)
BasedOn(c, total, value) ==
    c.state.cpuAbsolute # kInvalid =>
        /\ c.state.cpuAbsolute <= value
        /\ c.state.cpuReal + (value - c.state.cpuAbsolute) <= total
        /\ c.state.threadAbsolute = kInvalid =>
              c.state.cpuReal + (value - c.state.cpuAbsolute) = total

(* A counter that only the scheduler tells of has caught up.               *)
CaughtUp(c, total) ==
    c.state.threadAbsolute = kInvalid => GetLastValue(c.history) = total

(* What is invariant of the counter of a thread, as long as every tid      *)
(* stands for one thread.                                                  *)
KeepsUp(tid) ==
    /\ Follows(counters[tid], counted[tid], threadCount[tid])
    /\ ~IsRunning(tid) => CaughtUp(counters[tid], counted[tid])
    /\ \A cpu \in Cpus : running[cpu] = tid =>
          BasedOn(counters[tid], counted[tid], cpuCount[cpu])

(* It holds of every thread. *)
CountersKeepUp == \A tid \in Threads : KeepsUp(tid)

----------------------------------------------------------------------------
(* What the operations on a counter do to its type and its history.        *)

(* The arithmetic of 64-bit values.                                        *)
LEMMA ULongArithmetic ==
    /\ ULongModulus \in Nat /\ kInvalid \in Nat /\ kInvalid + 1 = ULongModulus
    /\ 0 \in ULongs /\ kInvalid \in ULongs /\ ULongs \subseteq Nat
    /\ \A x \in Int : x % ULongModulus \in ULongs
    /\ \A x \in Nat : x <= kInvalid => x % ULongModulus = x /\ x \in ULongs
<1>1. ULongModulus \in Nat \ {0, 1}
    BY ModulusAssumption
<1>2. \A x \in Int : x % ULongModulus \in 0..(ULongModulus - 1)
    BY <1>1
<1>3. \A x \in Nat : x <= ULongModulus - 1 => x % ULongModulus = x
    BY <1>1
<1> QED BY <1>1, <1>2, <1>3 DEF ULongs, kInvalid

(* The history is left alone, or a value that is no smaller is entered.    *)
Entered(c, new, n) ==
    /\ new \in CounterRecords
    /\ \/ new.history = c.history
       \/ \E v \in ULongs :
             new.history = SetValue(c.history, n, v) /\ v >= GetLastValue(c.history)

(* The last value of a counter is a 64-bit value.                          *)
LEMMA LastIsULong ==
    ASSUME NEW n, NEW h, IsHistory(h, ULongs, n)
    PROVE  GetLastValue(h) \in ULongs
<1>1. CASE h = << >>
    BY <1>1, ULongArithmetic DEF GetLastValue
<1>2. CASE h # << >>
    <2>1. Len(h) \in 1..Len(h)
        BY <1>2, Entry
    <2> QED BY <1>2, <2>1, Entry DEF GetLastValue
<1> QED BY <1>1, <1>2

(* A value is entered by any operation as one no smaller than the last.    *)
LEMMA RealNowGrows ==
    ASSUME NEW n, NEW h, IsHistory(h, ULongs, n), NEW least \in ULongs
    PROVE  /\ RealNow(h, least) \in ULongs /\ RealNow(h, least) >= GetLastValue(h)
           /\ RealNow(h, least) >= least
           /\ RealNow(h, least) \in {least, GetLastValue(h)}
<1>1. GetLastValue(h) \in Nat /\ GetLastValue(h) \in ULongs /\ least \in Nat
    BY LastIsULong, ULongArithmetic
<1> QED BY <1>1 DEF RealNow

(* Each operation on a counter enters a value in its history at the
   present time, or leaves it: advancing it by a difference, ... *)
LEMMA AdvanceEnters ==
    ASSUME NEW n \in Nat, NEW c \in CounterRecords, IsHistory(c.history, ULongs, n),
           NEW value \in ULongs, NEW new, new = AdvanceCpu(c, n, value)
    PROVE  Entered(c, new, n)
<1> DEFINE s == c.state
           least == MinReal(s.cpuReal, s.cpuAbsolute, value)
           real == RealNow(c.history, least)
<1>1. s \in CounterStates /\ c.history \in Entries(ULongs)
    BY DEF CounterRecords
<1>2. least \in ULongs
    <2>1. s.cpuReal \in Nat /\ s.cpuAbsolute \in Nat /\ value \in Nat
        BY <1>1, ULongArithmetic DEF CounterStates
    <2>2. s.cpuReal + value - s.cpuAbsolute \in Int
        BY <2>1
    <2> QED BY <2>2, ULongArithmetic DEF MinReal
<1>3. new = [history |-> SetValue(c.history, n, real),
             state   |-> [s EXCEPT !.cpuAbsolute = value, !.cpuReal = real]]
    BY DEF AdvanceCpu
<1> HIDE DEF least, s
<1>4. real \in ULongs /\ real >= GetLastValue(c.history)
    BY <1>2, RealNowGrows
<1> HIDE DEF real
<1>5. SetValue(c.history, n, real) \in Entries(ULongs)
    <2>1. IsHistory(SetValue(c.history, n, real), ULongs, n)
        BY <1>4, ValueSet
    <2> QED BY <2>1 DEF IsHistory, Entries
<1>6. [s EXCEPT !.cpuAbsolute = value, !.cpuReal = real] \in CounterStates
    BY <1>1, <1>4 DEF CounterStates
<1>7. new \in CounterRecords /\ new.history = SetValue(c.history, n, real)
    BY <1>3, <1>5, <1>6 DEF CounterRecords
<1> QED BY <1>4, <1>7 DEF Entered

(* The counter with a new base on its CPU.                                 *)
Based(c, value) == [c EXCEPT !.state.cpuAbsolute = value,
                             !.state.cpuReal = GetLastValue(c.history)]

(* (A counter after its base on the CPU is set.) *)
LEMMA BasedRecord ==
    ASSUME NEW n, NEW c \in CounterRecords, IsHistory(c.history, ULongs, n),
           NEW value \in ULongs
    PROVE  /\ Based(c, value) \in CounterRecords
           /\ Based(c, value).history = c.history
           /\ Based(c, value).state =
                 [c.state EXCEPT !.cpuAbsolute = value,
                                 !.cpuReal = GetLastValue(c.history)]
<1>1. GetLastValue(c.history) \in ULongs
    BY LastIsULong
<1> QED BY <1>1 DEF Based, CounterRecords, CounterStates

(* ... setting the base on a CPU, ... *)
LEMMA BaseEnters ==
    ASSUME NEW n \in Nat, NEW c \in CounterRecords, IsHistory(c.history, ULongs, n),
           NEW value \in ULongs, NEW new, new = SetPerfCounterCpuBaseValue(c, n, value)
    PROVE  Entered(c, new, n)
<1> DEFINE b == Based(c, value)
<1>1. b \in CounterRecords /\ b.history = c.history
    BY BasedRecord
<1>2. new = IF c.history = << >> THEN AdvanceCpu(b, n, value) ELSE b
    BY DEF SetPerfCounterCpuBaseValue, Based
<1> HIDE DEF b
<1>3. CASE c.history = << >>
    <2>1. Entered(b, new, n)
        BY <1>1, <1>2, <1>3, AdvanceEnters
    <2> QED BY <1>1, <2>1 DEF Entered
<1>4. CASE c.history # << >>
    BY <1>1, <1>2, <1>4 DEF Entered
<1> QED BY <1>3, <1>4

(* ... a value of the CPU, ... *)
LEMMA CpuValueEnters ==
    ASSUME NEW n \in Nat, NEW c \in CounterRecords, IsHistory(c.history, ULongs, n),
           NEW value \in ULongs, NEW new, new = SetPerfCounterCpuValue(c, n, value)
    PROVE  Entered(c, new, n)
<1>1. CASE c.state.cpuAbsolute = kInvalid \/ c.state.cpuAbsolute > value
    BY <1>1, BaseEnters DEF SetPerfCounterCpuValue
<1>2. CASE ~(c.state.cpuAbsolute = kInvalid \/ c.state.cpuAbsolute > value)
    BY <1>2, AdvanceEnters DEF SetPerfCounterCpuValue
<1> QED BY <1>1, <1>2

(* ... and a value of the thread. *)
LEMMA ThreadValueEnters ==
    ASSUME NEW n \in Nat, NEW c \in CounterRecords, IsHistory(c.history, ULongs, n),
           NEW value \in ULongs, NEW new, new = SetPerfCounterThreadValue(c, n, value)
    PROVE  Entered(c, new, n)
<1> DEFINE s == c.state
           h == c.history
           least == MinReal(s.threadReal, s.threadAbsolute, value)
           real == RealNow(h, least)
<1>1. s \in CounterStates /\ h \in Entries(ULongs)
    BY DEF CounterRecords
<1>2. least \in ULongs
    <2>1. s.threadReal \in Nat /\ s.threadAbsolute \in Nat /\ value \in Nat
        BY <1>1, ULongArithmetic DEF CounterStates
    <2>2. s.threadReal + value - s.threadAbsolute \in Int
        BY <2>1
    <2> QED BY <2>2, ULongArithmetic DEF MinReal
<1>3. new = IF s.threadAbsolute = kInvalid
            THEN [history |-> IF h = << >> THEN SetValue(h, n, 0) ELSE h,
                  state   |-> [s EXCEPT !.threadAbsolute = value,
                                        !.threadReal = GetLastValue(h)]]
            ELSE [history |-> SetValue(h, n, real),
                  state   |-> [s EXCEPT !.threadAbsolute = value, !.threadReal = real]]
    BY DEF SetPerfCounterThreadValue
<1>4. IsHistory(h, ULongs, n) /\ GetLastValue(h) \in ULongs
    BY LastIsULong
<1> HIDE DEF least, s
<1>5. real \in ULongs /\ real >= GetLastValue(h)
    BY <1>2, <1>4, RealNowGrows
<1> HIDE DEF real
<1>6. \A v \in ULongs : SetValue(h, n, v) \in Entries(ULongs)
    <2> TAKE v \in ULongs
    <2>1. IsHistory(SetValue(h, n, v), ULongs, n)
        BY <1>4, ValueSet
    <2> QED BY <2>1 DEF IsHistory, Entries
<1>7. 0 \in ULongs /\ (h = << >> => GetLastValue(h) = 0)
    BY ULongArithmetic DEF GetLastValue
<1>8. CASE s.threadAbsolute = kInvalid
    <2>1. [s EXCEPT !.threadAbsolute = value, !.threadReal = GetLastValue(h)] \in CounterStates
        BY <1>1, <1>4 DEF CounterStates
    <2>2. CASE h = << >>
        <3>1. new.history = SetValue(h, n, 0) /\ new \in CounterRecords
            BY <1>3, <1>6, <1>7, <1>8, <2>1, <2>2 DEF CounterRecords
        <3>2. 0 >= GetLastValue(h)
            BY <1>7, <2>2
        <3> QED BY <1>7, <3>1, <3>2 DEF Entered
    <2>3. CASE h # << >>
        BY <1>1, <1>3, <1>8, <2>1, <2>3 DEF Entered, CounterRecords
    <2> QED BY <2>2, <2>3
<1>9. CASE s.threadAbsolute # kInvalid
    <2>1. [s EXCEPT !.threadAbsolute = value, !.threadReal = real] \in CounterStates
        BY <1>1, <1>5 DEF CounterStates
    <2>2. new.history = SetValue(h, n, real) /\ new \in CounterRecords
        BY <1>3, <1>5, <1>6, <1>9, <2>1 DEF CounterRecords
    <2> QED BY <1>5, <2>2 DEF Entered
<1> QED BY <1>8, <1>9

(* After the entry of such a value the history is one, no smaller at its   *)
(* end, and the same about the past.                                       *)
LEMMA ValueEntered ==
    ASSUME NEW n \in Nat, NEW h, IsHistory(h, ULongs, n), NEW v \in ULongs,
           v >= GetLastValue(h), NEW g, g = SetValue(h, n, v)
    PROVE  /\ IsHistory(g, ULongs, n)
           /\ GetLastValue(g) >= GetLastValue(h)
           /\ \A t \in Nat : GetValue(g, t) = IF t >= n THEN Present(g) ELSE GetValue(h, t)
<1>1. /\ IsHistory(g, ULongs, n) /\ g # << >> /\ g[Len(g)].value = v
      /\ \A t \in Nat : GetValue(g, t) = IF t >= n THEN v ELSE GetValue(h, t)
    BY ValueSet
<1>2. Present(g) = v /\ GetLastValue(g) = v
    BY <1>1 DEF Present, GetLastValue
<1> QED BY <1>1, <1>2

(* A value that is set is the one that holds from then on.                 *)
LEMMA SetPresent ==
    ASSUME NEW T, NEW n \in Nat, NEW h, IsHistory(h, T, n), NEW v \in T,
           NEW new, new = SetValue(h, n, v)
    PROVE  IsHistory(new, T, n) /\ Present(new) = v /\ GetLastValue(new) = v
<1>1. /\ IsHistory(new, T, n) /\ new # << >> /\ new[Len(new)].value = v
      /\ \A t \in Nat : GetValue(new, t) = IF t >= n THEN v ELSE GetValue(h, t)
    BY ValueSet
<1> QED BY <1>1 DEF Present, GetLastValue

(* After SetValue the last value is the one that was set, ... *)
LEMMA SetLast ==
    ASSUME NEW T, NEW n \in Nat, NEW h, IsHistory(h, T, n), NEW v \in T,
           NEW new, new = SetValue(h, n, v)
    PROVE  new # << >> /\ GetLastValue(new) = v
<1>1. /\ IsHistory(new, T, n) /\ new # << >> /\ new[Len(new)].value = v
      /\ \A t \in Nat : GetValue(new, t) = IF t >= n THEN v ELSE GetValue(h, t)
    BY ValueSet
<1> QED BY <1>1 DEF GetLastValue

(* ... which a query gets from now on, and the old answer for the past. *)
LEMMA SetAnswers ==
    ASSUME NEW T, NEW n \in Nat, NEW h, IsHistory(h, T, n), NEW v \in T,
           NEW new, new = SetValue(h, n, v)
    PROVE  \A t \in Nat : GetValue(new, t) = IF t >= n THEN v ELSE GetValue(h, t)
<1>1. /\ IsHistory(new, T, n) /\ new # << >> /\ new[Len(new)].value = v
      /\ \A t \in Nat : GetValue(new, t) = IF t >= n THEN v ELSE GetValue(h, t)
    BY ValueSet
<1> QED BY <1>1

(* A history that is left alone says what holds now.                       *)
LEMMA ValueKept ==
    ASSUME NEW T, NEW n \in Nat, NEW h, IsHistory(h, T, n), NEW t \in Nat
    PROVE  GetValue(h, t) = IF t >= n THEN Present(h) ELSE GetValue(h, t)
<1>1. t >= n => GetValue(h, t) = Present(h)
    BY PresentValue DEF Present
<1> QED BY <1>1

(* So a counter stays one, does not go back, and answers for the past
   what it did. *)
LEMMA EnteredHistory ==
    ASSUME NEW n \in Nat, NEW c, IsHistory(c.history, ULongs, n), NEW new, Entered(c, new, n)
    PROVE  /\ new \in CounterRecords /\ IsHistory(new.history, ULongs, n)
           /\ GetLastValue(new.history) >= GetLastValue(c.history)
           /\ \A t \in Nat : GetValue(new.history, t) =
                 IF t >= n THEN Present(new.history) ELSE GetValue(c.history, t)
<1>1. CASE new.history = c.history
    <2>1. \A t \in Nat : GetValue(c.history, t) =
             IF t >= n THEN Present(c.history) ELSE GetValue(c.history, t)
        BY ValueKept
    <2>2. GetLastValue(c.history) \in Nat
        BY LastIsULong, ULongArithmetic
    <2>3. GetLastValue(new.history) >= GetLastValue(c.history)
        BY <1>1, <2>2
    <2> QED BY <1>1, <2>1, <2>3 DEF Entered
<1>2. ASSUME NEW v \in ULongs, new.history = SetValue(c.history, n, v),
             v >= GetLastValue(c.history)
      PROVE  /\ IsHistory(new.history, ULongs, n)
             /\ GetLastValue(new.history) >= GetLastValue(c.history)
             /\ \A t \in Nat : GetValue(new.history, t) =
                   IF t >= n THEN Present(new.history) ELSE GetValue(c.history, t)
    BY <1>2, ValueEntered
<1> QED BY <1>1, <1>2 DEF Entered

----------------------------------------------------------------------------
(* The steps.                                                              *)

(* A step that is no timestamp, and writes no attribute.                   *)
CounterEvent ==
    \/ \E cpu \in Cpus : OnTTWUEvent(cpu)
    \/ \E cpu \in Cpus, next \in Tids :
          (next = IdleThread \/ ~IsRunning(next)) /\ OnSchedSwitchEvent(cpu, next)
    \/ \E tid \in UstThreads : IsRunning(tid) /\ OnUstEvent(tid)

(* The steps of the traced machine alone. *)
MachineStep ==
    \/ \E cpu \in Cpus : Count(cpu)
    \/ \E tid \in ReusedTids : ReuseTid(tid)

(* Every step is one of five kinds.                                        *)
LEMMA Kinds ==
    ASSUME [Next]_vars
    PROVE  \/ \E ts \in 1..MaxTs : OnTimestamp(ts)
           \/ \E key \in StateKeys, v \in StateValues : OnState(key, v)
           \/ CounterEvent
           \/ MachineStep
           \/ UNCHANGED vars
<1>1. CASE KernelEvents
    BY <1>1 DEF KernelEvents, CounterEvent
<1>2. CASE UstEvents
    BY <1>2 DEF UstEvents, CounterEvent
<1>3. CASE StateChanges
    BY <1>3 DEF StateChanges
<1>4. CASE Machine
    BY <1>4 DEF Machine, MachineStep
<1> QED BY <1>1, <1>2, <1>3, <1>4 DEF Next

(* What the hardware counts is a 64-bit value and never kInvalid.          *)
LEMMA HardwareCount ==
    ASSUME NEW value \in 0..MaxCount
    PROVE  value \in ULongs /\ value \in Nat /\ value < kInvalid
BY CountAssumption, ULongArithmetic DEF ULongs

(* What the invariant says of each history and of the times. *)
LEMMA Typed ==
    ASSUME IInv
    PROVE  /\ now \in Nat /\ now <= MaxTs /\ MaxTs \in Nat /\ lastCleanupTs \in Nat
           /\ lastCleanupTs <= now /\ saveTs \in Nat /\ saveTs <= now
           /\ lastCleanupTs <= saveTs
           /\ \A tid \in Tids : /\ counters[tid] \in CounterRecords
                                /\ IsHistory(counters[tid].history, ULongs, now)
           /\ \A k \in StateKeys : IsHistory(uIntegerHistory[k], StateValues, now)
<1>1. TimesOK /\ CountersOK /\ UIntegersOK
    BY DEF IInv
<1>2. /\ now \in Nat /\ now <= MaxTs /\ MaxTs \in Nat /\ lastCleanupTs \in Nat
      /\ lastCleanupTs <= now /\ saveTs \in Nat /\ saveTs <= now
      /\ lastCleanupTs <= saveTs
    BY <1>1, TimeAssumption DEF TimesOK
<1>3. \A tid \in Tids : /\ counters[tid] \in CounterRecords
                        /\ IsHistory(counters[tid].history, ULongs, now)
    BY <1>1 DEF CountersOK
<1> QED BY <1>1, <1>2, <1>3 DEF UIntegersOK

(* A counter that is left alone.                                           *)
LEMMA StaysEntered ==
    ASSUME NEW c \in CounterRecords, NEW n
    PROVE  Entered(c, c, n)
BY DEF Entered

(* Every step but a timestamp enters values into the counters, if it       *)
(* touches them.                                                           *)
LEMMA EventEnters ==
    ASSUME IInv, CounterEvent \/ MachineStep \/ UNCHANGED counters
    PROVE  /\ counters' \in [Tids -> CounterRecords]
           /\ \A tid \in Tids : Entered(counters[tid], counters'[tid], now)
<1>1. /\ counters \in [Tids -> CounterRecords] /\ now \in Nat
      /\ \A tid \in Tids : IsHistory(counters[tid].history, ULongs, now)
      /\ \A tid \in Tids : counters[tid] \in CounterRecords
    BY Typed DEF IInv, CountersOK
<1>2. /\ \A cpu \in Cpus : running[cpu] \in Tids /\ cpuCount[cpu] \in ULongs
      /\ \A tid \in Threads : tid \in Tids /\ threadCount[tid] \in ULongs
    BY HardwareCount DEF IInv, MachineOK, Tids
<1>3. CASE UNCHANGED counters
    BY <1>1, <1>3, StaysEntered
<1>4. ASSUME NEW tid \in Tids, NEW c, counters' = [counters EXCEPT ![tid] = c],
             Entered(counters[tid], c, now)
      PROVE  /\ counters' \in [Tids -> CounterRecords]
             /\ \A t \in Tids : Entered(counters[t], counters'[t], now)
    <2>1. c \in CounterRecords
        BY <1>4 DEF Entered
    <2>2. \A t \in Tids : counters'[t] = IF t = tid THEN c ELSE counters[t]
        BY <1>1, <1>4
    <2>3. counters' \in [Tids -> CounterRecords]
        BY <1>1, <1>4, <2>1
    <2>4. \A t \in Tids : Entered(counters[t], counters'[t], now)
        BY <1>1, <1>4, <2>2, StaysEntered
    <2> QED BY <2>3, <2>4
<1>5. ASSUME NEW cpu \in Cpus, OnTTWUEvent(cpu)
      PROVE  /\ counters' \in [Tids -> CounterRecords]
             /\ \A tid \in Tids : Entered(counters[tid], counters'[tid], now)
    <2> DEFINE tid == running[cpu]
               c == SetPerfCounterCpuValue(counters[tid], now, cpuCount[cpu])
    <2>1. counters' = [counters EXCEPT ![tid] = c]
        BY <1>5 DEF OnTTWUEvent
    <2>2. tid \in Tids /\ Entered(counters[tid], c, now)
        BY <1>1, <1>2, CpuValueEnters
    <2> HIDE DEF tid, c
    <2> QED BY <1>4, <2>1, <2>2
<1>6. ASSUME NEW tid \in UstThreads, OnUstEvent(tid)
      PROVE  /\ counters' \in [Tids -> CounterRecords]
             /\ \A t \in Tids : Entered(counters[t], counters'[t], now)
    <2> DEFINE c == SetPerfCounterThreadValue(counters[tid], now, threadCount[tid])
    <2>1. counters' = [counters EXCEPT ![tid] = c]
        BY <1>6 DEF OnUstEvent
    <2>2. tid \in Tids /\ threadCount[tid] \in ULongs
        BY <1>2, SubsetAssumption
    <2>3. Entered(counters[tid], c, now)
        BY <1>1, <2>2, ThreadValueEnters
    <2> HIDE DEF c
    <2> QED BY <1>4, <2>1, <2>2, <2>3
<1>7. ASSUME NEW cpu \in Cpus, NEW next \in Tids, OnSchedSwitchEvent(cpu, next)
      PROVE  /\ counters' \in [Tids -> CounterRecords]
             /\ \A tid \in Tids : Entered(counters[tid], counters'[tid], now)
    <2> DEFINE tid == running[cpu]
               c == SetPerfCounterCpuValue(counters[tid], now, cpuCount[cpu])
               d == SetPerfCounterCpuBaseValue(counters[next], now, cpuCount[cpu])
    <2>1. tid # next /\ tid \in Tids
        BY <1>2, <1>7 DEF OnSchedSwitchEvent
    <2>2. counters' = [counters EXCEPT ![tid] = c, ![next] = d]
        BY <1>1, <1>7, <2>1 DEF OnSchedSwitchEvent
    <2>3. Entered(counters[tid], c, now) /\ Entered(counters[next], d, now)
        BY <1>1, <1>2, <2>1, CpuValueEnters, BaseEnters
    <2> HIDE DEF tid, c, d
    <2>4. c \in CounterRecords /\ d \in CounterRecords
        BY <2>3 DEF Entered
    <2>5. counters' \in [Tids -> CounterRecords]
        BY <1>1, <2>1, <2>2, <2>4
    <2>6. \A t \in Tids : counters'[t] = IF t = next THEN d
                                         ELSE IF t = tid THEN c ELSE counters[t]
        BY <1>1, <2>1, <2>2
    <2>7. \A t \in Tids : Entered(counters[t], counters'[t], now)
        BY <1>1, <2>3, <2>6, StaysEntered
    <2> QED BY <2>5, <2>7
<1>8. CASE CounterEvent
    BY <1>5, <1>6, <1>7, <1>8 DEF CounterEvent
<1>9. CASE MachineStep
    <2>1. UNCHANGED counters
        BY <1>9 DEF MachineStep, Count, ReuseTid, historyVars
    <2> QED BY <1>3, <2>1
<1> QED BY <1>3, <1>8, <1>9

(* What cleaning does to a history, as long as it is time.                 *)
Cleaned(h, new, T, ts, cut, due) ==
    /\ IsHistory(new, T, ts)
    /\ Present(new) = Present(h) /\ GetLastValue(new) = GetLastValue(h)
    /\ (new = << >> <=> h = << >>)
    /\ due => \A t \in Nat : t >= cut => GetValue(new, t) = GetValue(h, t)
    /\ ~due => new = h

(* onTimestamp cleans a history, or leaves it when no save is due; either
   way it answers for the time since the cut what it did. *)
LEMMA CleaningKeeps ==
    ASSUME NEW T, NEW n \in Nat, NEW ts \in Nat, n <= ts, NEW cut \in Nat,
           NEW h, IsHistory(h, T, n), NEW due \in BOOLEAN,
           NEW new, due => new = Cleanup(h, cut), ~due => new = h
    PROVE  Cleaned(h, new, T, ts, cut, due)
<1>1. IsHistory(h, T, ts)
    BY HistoryLater
<1>2. CASE due
    <2>1. new = Cleanup(h, cut)
        BY <1>2
    <2>2. /\ IsHistory(new, T, ts) /\ (new = << >> <=> h = << >>)
          /\ h # << >> => new[Len(new)].value = h[Len(h)].value
          /\ \A t \in Nat : t >= cut => GetValue(new, t) = GetValue(h, t)
        BY <1>1, <2>1, CleanedUp
    <2>3. Present(new) = Present(h) /\ GetLastValue(new) = GetLastValue(h)
        BY <2>2 DEF Present, GetLastValue
    <2> QED BY <1>2, <2>2, <2>3 DEF Cleaned
<1>3. CASE ~due
    BY <1>1, <1>3 DEF Cleaned
<1> QED BY <1>2, <1>3

(* A timestamp cleans every history, when a save is due.                   *)
LEMMA TimestampCleans ==
    ASSUME IInv, NEW ts \in 1..MaxTs, OnTimestamp(ts)
    PROVE  /\ TimesOK' /\ now' = ts
           /\ lastCleanupTs' = IF SaveIsDue(ts) THEN saveTs ELSE lastCleanupTs
           /\ counters' \in [Tids -> CounterRecords]
           /\ uIntegerHistory' \in [StateKeys -> Entries(StateValues)]
           /\ \A tid \in Tids : /\ counters'[tid].state = counters[tid].state
                                /\ Cleaned(counters[tid].history, counters'[tid].history,
                                           ULongs, ts, saveTs, SaveIsDue(ts))
           /\ \A k \in StateKeys : Cleaned(uIntegerHistory[k], uIntegerHistory'[k],
                                           StateValues, ts, saveTs, SaveIsDue(ts))
<1>1. ts \in Nat /\ now <= ts /\ now \in Nat /\ saveTs \in Nat /\ lastCleanupTs <= saveTs
      /\ ts <= MaxTs /\ MaxTs \in Nat /\ lastCleanupTs \in Nat /\ saveTs <= now
    BY Typed DEF OnTimestamp
<1>2. /\ now' = ts
      /\ saveTs' = IF saveTs = 0 \/ SaveIsDue(ts) THEN ts ELSE saveTs
      /\ lastCleanupTs' = IF SaveIsDue(ts) THEN saveTs ELSE lastCleanupTs
    BY DEF OnTimestamp
<1>3. TimesOK'
    BY <1>1, <1>2 DEF TimesOK
<1> DEFINE due == SaveIsDue(ts)
<1>4. due \in BOOLEAN
    BY DEF SaveIsDue
<1>5. /\ counters \in [Tids -> CounterRecords]
      /\ uIntegerHistory \in [StateKeys -> Entries(StateValues)]
      /\ \A tid \in Tids : IsHistory(counters[tid].history, ULongs, now)
      /\ \A k \in StateKeys : IsHistory(uIntegerHistory[k], StateValues, now)
    BY Typed DEF IInv, CountersOK, UIntegersOK
<1>6. /\ due => counters' = [tid \in Tids |->
                   [counters[tid] EXCEPT !.history = Cleanup(counters[tid].history, saveTs)]]
      /\ ~due => counters' = counters
      /\ due => uIntegerHistory' =
                   [k \in StateKeys |-> Cleanup(uIntegerHistory[k], saveTs)]
      /\ ~due => uIntegerHistory' = uIntegerHistory
    BY DEF OnTimestamp, historyVars
<1> HIDE DEF due
<1>7. ASSUME NEW tid \in Tids
      PROVE  /\ counters'[tid].state = counters[tid].state
             /\ due => counters'[tid].history = Cleanup(counters[tid].history, saveTs)
             /\ ~due => counters'[tid].history = counters[tid].history
             /\ DOMAIN counters'[tid] = DOMAIN counters[tid]
    <2>1. counters[tid] \in CounterRecords
        BY <1>5
    <2>2. CASE due
        <3>1. counters'[tid] = [counters[tid] EXCEPT
                                   !.history = Cleanup(counters[tid].history, saveTs)]
            BY <1>6, <2>2
        <3> QED BY <2>1, <2>2, <3>1 DEF CounterRecords
    <2>3. CASE ~due
        BY <1>6, <2>3
    <2> QED BY <2>2, <2>3
<1>8. ASSUME NEW tid \in Tids
      PROVE  Cleaned(counters[tid].history, counters'[tid].history, ULongs, ts, saveTs, due)
    BY <1>1, <1>4, <1>5, <1>7, CleaningKeeps
<1>9. ASSUME NEW k \in StateKeys
      PROVE  Cleaned(uIntegerHistory[k], uIntegerHistory'[k], StateValues, ts, saveTs, due)
    <2>1. /\ due => uIntegerHistory'[k] = Cleanup(uIntegerHistory[k], saveTs)
          /\ ~due => uIntegerHistory'[k] = uIntegerHistory[k]
        BY <1>6
    <2> QED BY <1>1, <1>4, <1>5, <2>1, CleaningKeeps
<1>10. counters' \in [Tids -> CounterRecords]
    <2>1. CASE due
        <3>1. counters' = [tid \in Tids |->
                   [counters[tid] EXCEPT !.history = Cleanup(counters[tid].history, saveTs)]]
            BY <1>6, <2>1
        <3>2. ASSUME NEW tid \in Tids
              PROVE  [counters[tid] EXCEPT !.history = Cleanup(counters[tid].history, saveTs)]
                        \in CounterRecords
            <4>1. counters'[tid].history \in Entries(ULongs)
                BY <1>8 DEF Cleaned, IsHistory, Entries
            <4>2. Cleanup(counters[tid].history, saveTs) \in Entries(ULongs)
                BY <1>7, <2>1, <4>1
            <4> QED BY <1>5, <4>2 DEF CounterRecords
        <3> QED BY <3>1, <3>2
    <2>2. CASE ~due
        BY <1>5, <1>6, <2>2
    <2> QED BY <2>1, <2>2
<1>11. uIntegerHistory' \in [StateKeys -> Entries(StateValues)]
    <2>1. \A k \in StateKeys : uIntegerHistory'[k] \in Entries(StateValues)
        BY <1>9 DEF Cleaned, IsHistory, Entries
    <2>2. CASE due
        BY <1>6, <2>1, <2>2
    <2>3. CASE ~due
        BY <1>5, <1>6, <2>3
    <2> QED BY <2>2, <2>3
<1> QED BY <1>2, <1>3, <1>7, <1>8, <1>9, <1>10, <1>11 DEF due

(* An event of the tracker enters the value that becomes current.          *)
LEMMA StateEnters ==
    ASSUME IInv, NEW key \in StateKeys, NEW v \in StateValues, OnState(key, v)
    PROVE  /\ uIntegerHistory' \in [StateKeys -> Entries(StateValues)]
           /\ attribute' \in [StateKeys -> StateValues \cup {Unknown}]
           /\ attribute'[key] = v
           /\ uIntegerHistory'[key] = SetValue(uIntegerHistory[key], now, v)
           /\ \A k \in StateKeys : k # key => /\ uIntegerHistory'[k] = uIntegerHistory[k]
                                              /\ attribute'[k] = attribute[k]
<1>1. /\ uIntegerHistory \in [StateKeys -> Entries(StateValues)]
      /\ attribute \in [StateKeys -> StateValues \cup {Unknown}]
      /\ now \in Nat /\ \A k \in StateKeys : IsHistory(uIntegerHistory[k], StateValues, now)
    BY Typed DEF IInv, UIntegersOK
<1> DEFINE new == SetValue(uIntegerHistory[key], now, v)
<1>2. attribute' = [attribute EXCEPT ![key] = v]
      /\ uIntegerHistory' = [uIntegerHistory EXCEPT ![key] = new]
    BY DEF OnState
<1>3. IsHistory(new, StateValues, now)
    BY <1>1, ValueSet
<1>4. new \in Entries(StateValues)
    BY <1>3 DEF IsHistory, Entries
<1> HIDE DEF new
<1>5. /\ uIntegerHistory' \in [StateKeys -> Entries(StateValues)]
      /\ uIntegerHistory'[key] = new
      /\ \A k \in StateKeys : k # key => uIntegerHistory'[k] = uIntegerHistory[k]
    BY <1>1, <1>2, <1>4
<1>6. /\ attribute' \in [StateKeys -> StateValues \cup {Unknown}]
      /\ attribute'[key] = v
      /\ \A k \in StateKeys : k # key => attribute'[k] = attribute[k]
    BY <1>1, <1>2
<1> QED BY <1>5, <1>6 DEF new

(* IInv holds initially, and every step keeps each of its four parts. *)
LEMMA InitIInv == Init => IInv
<1> SUFFICES ASSUME Init PROVE IInv
    OBVIOUS
<1>1. TimesOK
    BY TimeAssumption DEF Init, TimesOK
<1>2. \A T : << >> \in Entries(T) /\ IsHistory(<< >>, T, 0)
    <2> TAKE T
    <2>1. << >> \in Seq([ts : Nat, value : T]) /\ Len(<< >>) = 0
        OBVIOUS
    <2> QED BY <2>1 DEF Entries, IsHistory
<1>3. UIntegersOK
    BY <1>2 DEF Init, UIntegersOK, Present
<1>4. CountersOK
    <2>1. NewCounter \in CounterRecords /\ NewCounter.history = << >>
        BY <1>2, ULongArithmetic DEF NewCounter, InvalidState, CounterRecords, CounterStates
    <2> QED BY <1>2, <2>1 DEF Init, CountersOK
<1>5. MachineOK
    BY CountAssumption DEF Init, MachineOK
<1> QED BY <1>1, <1>3, <1>4, <1>5 DEF IInv

(* The times ... *)
LEMMA TimesStep == ASSUME IInv, [Next]_vars PROVE TimesOK'
<1>1. TimesOK
    BY DEF IInv
<1>2. ASSUME NEW ts \in 1..MaxTs, OnTimestamp(ts) PROVE TimesOK'
    BY <1>2, TimestampCleans
<1>3. ASSUME UNCHANGED timeVars PROVE TimesOK'
    BY <1>1, <1>3 DEF TimesOK, timeVars
<1>4. ASSUME NEW key \in StateKeys, NEW v \in StateValues, OnState(key, v) PROVE TimesOK'
    BY <1>3, <1>4 DEF OnState
<1>5. CASE CounterEvent
    BY <1>3, <1>5 DEF CounterEvent, OnTTWUEvent, OnSchedSwitchEvent, OnUstEvent
<1>6. CASE MachineStep
    BY <1>3, <1>6 DEF MachineStep, Count, ReuseTid
<1>7. CASE UNCHANGED vars
    BY <1>3, <1>7 DEF vars
<1> QED BY <1>2, <1>4, <1>5, <1>6, <1>7, Kinds

(* ... the states of the attributes ... *)
LEMMA UIntegersStep == ASSUME IInv, [Next]_vars PROVE UIntegersOK'
<1>1. UIntegersOK /\ now \in Nat
    BY Typed DEF IInv
<1>2. ASSUME NEW ts \in 1..MaxTs, OnTimestamp(ts) PROVE UIntegersOK'
    <2>1. /\ uIntegerHistory' \in [StateKeys -> Entries(StateValues)]
          /\ now' = ts
          /\ \A k \in StateKeys : Cleaned(uIntegerHistory[k], uIntegerHistory'[k],
                                          StateValues, ts, saveTs, SaveIsDue(ts))
        BY <1>2, TimestampCleans
    <2>2. attribute' = attribute
        BY <1>2 DEF OnTimestamp, machineVars
    <2> QED BY <1>1, <2>1, <2>2 DEF UIntegersOK, Cleaned
<1>3. ASSUME UNCHANGED <<uIntegerHistory, attribute, now>> PROVE UIntegersOK'
    BY <1>1, <1>3 DEF UIntegersOK
<1>4. ASSUME NEW key \in StateKeys, NEW v \in StateValues, OnState(key, v) PROVE UIntegersOK'
    <2>1. /\ uIntegerHistory' \in [StateKeys -> Entries(StateValues)]
          /\ attribute' \in [StateKeys -> StateValues \cup {Unknown}]
          /\ attribute'[key] = v
          /\ uIntegerHistory'[key] = SetValue(uIntegerHistory[key], now, v)
          /\ \A k \in StateKeys : k # key => /\ uIntegerHistory'[k] = uIntegerHistory[k]
                                             /\ attribute'[k] = attribute[k]
        BY <1>4, StateEnters
    <2>2. now' = now
        BY <1>4 DEF OnState, timeVars
    <2>3. IsHistory(uIntegerHistory[key], StateValues, now)
        BY <1>1 DEF UIntegersOK
    <2>4. uIntegerHistory'[key] = SetValue(uIntegerHistory[key], now, v)
        BY <2>1
    <2>5. /\ IsHistory(uIntegerHistory'[key], StateValues, now)
          /\ Present(uIntegerHistory'[key]) = v
        BY <1>1, <2>3, <2>4, SetPresent
    <2>6. ASSUME NEW k \in StateKeys
          PROVE  /\ IsHistory(uIntegerHistory'[k], StateValues, now)
                 /\ attribute'[k] = Present(uIntegerHistory'[k])
        BY <1>1, <2>1, <2>5 DEF UIntegersOK
    <2> QED BY <2>1, <2>2, <2>6 DEF UIntegersOK
<1>5. CASE CounterEvent
    BY <1>3, <1>5 DEF CounterEvent, OnTTWUEvent, OnSchedSwitchEvent, OnUstEvent,
                      timeVars, machineVars
<1>6. CASE MachineStep
    BY <1>3, <1>6 DEF MachineStep, Count, ReuseTid, timeVars, historyVars
<1>7. CASE UNCHANGED vars
    BY <1>3, <1>7 DEF vars, timeVars, historyVars, machineVars
<1> QED BY <1>2, <1>4, <1>5, <1>6, <1>7, Kinds

(* Other steps than a timestamp leave the time alone.                      *)
LEMMA TimeStops ==
    ASSUME CounterEvent \/ MachineStep \/ UNCHANGED vars
    PROVE  UNCHANGED timeVars /\ UNCHANGED <<uIntegerHistory, attribute>>
<1>1. CASE CounterEvent
    BY <1>1 DEF CounterEvent, OnTTWUEvent, OnSchedSwitchEvent, OnUstEvent, machineVars
<1>2. CASE MachineStep
    BY <1>2 DEF MachineStep, Count, ReuseTid, historyVars
<1>3. CASE UNCHANGED vars
    BY <1>3 DEF vars, historyVars, machineVars
<1> QED BY <1>1, <1>2, <1>3

(* ... the counters ... *)
LEMMA CountersStep == ASSUME IInv, [Next]_vars PROVE CountersOK'
<1>1. ASSUME NEW ts \in 1..MaxTs, OnTimestamp(ts) PROVE CountersOK'
    <2>1. /\ counters' \in [Tids -> CounterRecords] /\ now' = ts
          /\ \A tid \in Tids : Cleaned(counters[tid].history, counters'[tid].history,
                                       ULongs, ts, saveTs, SaveIsDue(ts))
        BY <1>1, TimestampCleans
    <2> QED BY <2>1 DEF CountersOK, Cleaned
<1>2. ASSUME CounterEvent \/ MachineStep \/ UNCHANGED counters, now' = now
      PROVE  CountersOK'
    <2>1. /\ counters' \in [Tids -> CounterRecords]
          /\ \A tid \in Tids : Entered(counters[tid], counters'[tid], now)
        BY <1>2, EventEnters
    <2>2. now \in Nat /\ \A tid \in Tids : IsHistory(counters[tid].history, ULongs, now)
        BY Typed
    <2>3. \A tid \in Tids : IsHistory(counters'[tid].history, ULongs, now)
        BY <2>1, <2>2, EnteredHistory
    <2> QED BY <1>2, <2>1, <2>3 DEF CountersOK
<1>3. ASSUME NEW key \in StateKeys, NEW v \in StateValues, OnState(key, v)
      PROVE  CountersOK'
    BY <1>2, <1>3 DEF OnState, timeVars
<1>4. CASE CounterEvent \/ MachineStep
    BY <1>2, <1>4, TimeStops DEF timeVars
<1>5. CASE UNCHANGED vars
    BY <1>2, <1>5 DEF vars, timeVars, historyVars
<1> QED BY <1>1, <1>3, <1>4, <1>5, Kinds

(* ... and the machine. *)
LEMMA MachineKept == ASSUME IInv, [Next]_vars PROVE MachineOK'
<1>1. MachineOK
    BY DEF IInv
<1>2. ASSUME UNCHANGED <<running, cpuCount, threadCount, counted>> PROVE MachineOK'
    BY <1>1, <1>2 DEF MachineOK
<1>3. ASSUME NEW ts \in 1..MaxTs, OnTimestamp(ts) PROVE MachineOK'
    BY <1>2, <1>3 DEF OnTimestamp, machineVars
<1>4. ASSUME NEW key \in StateKeys, NEW v \in StateValues, OnState(key, v) PROVE MachineOK'
    BY <1>2, <1>4 DEF OnState
<1>5. ASSUME NEW cpu \in Cpus, NEW next \in Tids, next = IdleThread \/ ~IsRunning(next),
             OnSchedSwitchEvent(cpu, next)
      PROVE  MachineOK'
    <2>1. running' = [running EXCEPT ![cpu] = next]
          /\ UNCHANGED <<cpuCount, threadCount, counted>>
        BY <1>5 DEF OnSchedSwitchEvent
    <2>2. running' \in [Cpus -> Tids]
          /\ \A c \in Cpus : running'[c] = IF c = cpu THEN next ELSE running[c]
        BY <1>1, <2>1 DEF MachineOK
    <2>3. \A c \in Cpus : running[c] = next => next = IdleThread
        BY <1>5 DEF IsRunning
    <2>4. \A c1, c2 \in Cpus :
             running'[c1] = running'[c2] => c1 = c2 \/ running'[c1] = IdleThread
        BY <1>1, <2>2, <2>3 DEF MachineOK
    <2> QED BY <1>1, <2>1, <2>2, <2>4 DEF MachineOK
<1>6. CASE CounterEvent
    <2>1. ASSUME NEW cpu \in Cpus, OnTTWUEvent(cpu) PROVE MachineOK'
        BY <1>2, <2>1 DEF OnTTWUEvent, machineVars
    <2>2. ASSUME NEW tid, OnUstEvent(tid) PROVE MachineOK'
        BY <1>2, <2>2 DEF OnUstEvent, machineVars
    <2> QED BY <1>5, <1>6, <2>1, <2>2 DEF CounterEvent
<1>7. ASSUME NEW cpu \in Cpus, Count(cpu) PROVE MachineOK'
    <2> DEFINE tid == running[cpu]
    <2>1. /\ cpuCount[cpu] < MaxCount /\ cpuCount' = [cpuCount EXCEPT ![cpu] = @ + 1]
          /\ tid # IdleThread => threadCount[tid] < MaxCount
          /\ running' = running
          /\ tid = IdleThread => UNCHANGED <<threadCount, counted>>
          /\ tid # IdleThread =>
                /\ threadCount' = [threadCount EXCEPT ![tid] = @ + 1]
                /\ counted' = counted \/ counted' = [counted EXCEPT ![tid] = @ + 1]
        BY <1>7 DEF Count
    <2>2. tid \in Tids /\ cpuCount[cpu] \in 0..MaxCount /\ MaxCount \in Nat
        BY <1>1, CountAssumption DEF MachineOK
    <2>3. cpuCount' \in [Cpus -> 0..MaxCount]
        BY <1>1, <2>1, <2>2 DEF MachineOK
    <2>4. CASE tid = IdleThread
        BY <1>1, <2>1, <2>3, <2>4 DEF MachineOK
    <2>5. CASE tid # IdleThread
        <3>1. tid \in Threads
            BY <2>2, <2>5 DEF Tids
        <3> HIDE DEF tid
        <3>2. threadCount[tid] \in 0..MaxCount /\ counted[tid] \in Nat
            BY <1>1, <3>1 DEF MachineOK
        <3>3. threadCount' \in [Threads -> 0..MaxCount]
            BY <1>1, <2>1, <2>2, <2>5, <3>1, <3>2 DEF MachineOK
        <3>4. counted' \in [Threads -> Nat]
            BY <1>1, <2>1, <2>5, <3>1, <3>2 DEF MachineOK
        <3> QED BY <1>1, <2>1, <2>3, <3>3, <3>4 DEF MachineOK
    <2> QED BY <2>4, <2>5
<1>8. ASSUME NEW tid \in ReusedTids, ReuseTid(tid) PROVE MachineOK'
    <2>1. /\ threadCount' = [threadCount EXCEPT ![tid] = 0]
          /\ UNCHANGED <<running, cpuCount, counted>>
        BY <1>8 DEF ReuseTid
    <2>2. threadCount' \in [Threads -> 0..MaxCount]
        <3>1. 0 \in 0..MaxCount
            BY CountAssumption
        <3>2. threadCount \in [Threads -> 0..MaxCount]
            BY <1>1 DEF MachineOK
        <3> QED BY <2>1, <3>1, <3>2
    <2> QED BY <1>1, <2>1, <2>2 DEF MachineOK
<1>9. CASE MachineStep
    BY <1>7, <1>8, <1>9 DEF MachineStep
<1>10. CASE UNCHANGED vars
    BY <1>2, <1>10 DEF vars, machineVars
<1> QED BY <1>3, <1>4, <1>6, <1>9, <1>10, Kinds

(* The invariant that the theorems rest on: the entries of every history   *)
(* lie in the order of their times and none is ahead of the trace; what    *)
(* was cleaned is older than the last save; the history of an attribute    *)
(* ends with its current value (StateHistory.cpp:24-57).                   *)
THEOREM StateBlocksInvariant == Spec => []IInv
<1>1. IInv /\ [Next]_vars => IInv'
    BY TimesStep, UIntegersStep, CountersStep, MachineKept DEF IInv
<1> QED BY InitIInv, <1>1, PTL DEF Spec

(* The histories and the counters have the types of the code in every      *)
(* state: no 64-bit counter leaves its range, whatever the machine does.   *)
THEOREM StateBlocksTypes == Spec => []TypeOK
<1>1. IInv => TypeOK
    BY TimeAssumption DEF IInv, TimesOK, UIntegersOK, CountersOK, CounterRecords,
                          CounterStates, TypeOK
<1> QED BY <1>1, StateBlocksInvariant, PTL

(* No step makes a counter go back: not a userspace event after scheduler  *)
(* events of another CPU, not a reused tid, not a cleanup; the difference  *)
(* of two answers is a count (ExtractMetrics.cpp:98).                      *)
THEOREM CountersNeverGoBack == Spec => NeverBack
<1> DEFINE Grow == \A tid \in Threads : Recorded(tid)' >= Recorded(tid)
<1>1. ASSUME IInv, [Next]_vars PROVE [Grow]_vars
    <2>1. \A tid \in Threads : tid \in Tids
        BY DEF Tids
    <2>2. \A tid \in Tids : GetLastValue(counters[tid].history) \in Nat
        BY <1>1, Typed, LastIsULong, ULongArithmetic
    <2>3. ASSUME NEW ts \in 1..MaxTs, OnTimestamp(ts) PROVE Grow
        <3>1. ASSUME NEW tid \in Tids
              PROVE  GetLastValue(counters'[tid].history) = GetLastValue(counters[tid].history)
            BY <1>1, <2>3, TimestampCleans DEF Cleaned
        <3> QED BY <2>1, <2>2, <3>1 DEF Recorded
    <2>4. ASSUME CounterEvent \/ MachineStep PROVE Grow
        <3>1. \A tid \in Tids : Entered(counters[tid], counters'[tid], now)
            BY <1>1, <2>4, EventEnters
        <3>2. now \in Nat /\ \A tid \in Tids : IsHistory(counters[tid].history, ULongs, now)
            BY <1>1, Typed
        <3>3. \A tid \in Tids : GetLastValue(counters'[tid].history) >=
                                GetLastValue(counters[tid].history)
            BY <3>1, <3>2, EnteredHistory
        <3> QED BY <2>1, <3>3 DEF Recorded
    <2>5. ASSUME NEW key \in StateKeys, NEW v \in StateValues, OnState(key, v) PROVE Grow
        BY <2>1, <2>2, <2>5 DEF OnState, Recorded
    <2>6. CASE UNCHANGED vars
        BY <2>6
    <2> QED BY <1>1, <2>3, <2>4, <2>5, <2>6, Kinds
<1> QED BY <1>1, StateBlocksInvariant, PTL DEF Spec, NeverBack

----------------------------------------------------------------------------
(* The histories implement the map over time.                              *)

(* What a history answers about the times from c on.                       *)
KnownFrom(h, c) == [t \in 0..MaxTs |-> IF t < c THEN Unknown ELSE GetValue(h, t)]

(* The answers without those about the times before c.                     *)
Forgotten(f, c) == [t \in 0..MaxTs |-> IF t < c THEN Unknown ELSE f[t]]

(* The answers when v is entered at time n.                                *)
Overwritten(f, n, v) == [t \in 0..MaxTs |-> IF t >= n THEN v ELSE f[t]]

(* Two histories answer alike from a time on. *)
SameFrom(h, new, c) == \A t \in Nat : t >= c => GetValue(new, t) = GetValue(h, t)

(* When the time passes, what is before the cut is forgotten and the rest  *)
(* is answered as before.                                                  *)
LEMMA KnownPasses ==
    ASSUME NEW h, NEW new, NEW c \in Nat, NEW d \in Nat, c <= d,
           SameFrom(h, new, d)
    PROVE  KnownFrom(new, d) = Forgotten(KnownFrom(h, c), d)
<1>1. MaxTs \in Nat
    BY TimeAssumption
<1>2. ASSUME NEW t \in 0..MaxTs, ~(t < d)
      PROVE  GetValue(new, t) = KnownFrom(h, c)[t]
    <2>1. t \in Nat /\ t >= d /\ ~(t < c)
        BY <1>1, <1>2
    <2> QED BY <2>1 DEF KnownFrom, SameFrom
<1> QED BY <1>2 DEF KnownFrom, Forgotten

(* An event changes what is answered about the present and later times, to *)
(* what is entered last.                                                   *)
LEMMA KnownWritten ==
    ASSUME NEW n \in Nat, NEW c \in Nat, c <= n, NEW h, NEW new,
           \A t \in Nat : GetValue(new, t) = IF t >= n THEN Present(new) ELSE GetValue(h, t)
    PROVE  KnownFrom(new, c) = Overwritten(KnownFrom(h, c), n, Present(new))
<1>1. ASSUME NEW t \in 0..MaxTs
      PROVE  (IF t < c THEN Unknown ELSE GetValue(new, t)) =
             (IF t >= n THEN Present(new) ELSE KnownFrom(h, c)[t])
    <2>1. t \in Nat /\ MaxTs \in Nat
        BY TimeAssumption
    <2>2. KnownFrom(h, c)[t] = IF t < c THEN Unknown ELSE GetValue(h, t)
        BY DEF KnownFrom
    <2>3. GetValue(new, t) = IF t >= n THEN Present(new) ELSE GetValue(h, t)
        BY <2>1
    <2>4. CASE t < c
        BY <2>1, <2>2, <2>4
    <2>5. CASE ~(t < c)
        BY <2>1, <2>2, <2>3, <2>5
    <2> QED BY <2>4, <2>5
<1> QED BY <1>1 DEF KnownFrom, Overwritten

(* The present is what the trace will answer about its last time.          *)
LEMMA KnownLast ==
    ASSUME NEW T, NEW n \in Nat, NEW h, IsHistory(h, T, n), n <= MaxTs,
           NEW c \in Nat, c <= n
    PROVE  KnownFrom(h, c)[MaxTs] = Present(h)
<1>1. MaxTs \in 0..MaxTs /\ MaxTs \in Nat /\ ~(MaxTs < c)
    BY TimeAssumption
<1>2. GetValue(h, MaxTs) = Present(h)
    BY <1>1, PresentValue DEF Present
<1> QED BY <1>1, <1>2 DEF KnownFrom

(* Of an empty history nothing is known, from whatever time on. *)
LEMMA KnownOfNothing ==
    ASSUME NEW c
    PROVE  KnownFrom(<< >>, c) = [t \in 0..MaxTs |-> Unknown]
<1>1. \A t : UpTo(<< >>, t) = {}
    BY DEF UpTo
<1>2. \A t : GetValue(<< >>, t) = Unknown
    BY <1>1 DEF GetValue
<1> QED BY <1>2 DEF KnownFrom

(* The history of the attributes implements the map over time: cleanups    *)
(* and the other blocks' events between a write and a query never change   *)
(* an answer (StateHistory.cpp:24-57, 96-99).                              *)
THEOREM UIntegersImplementMap == Spec => UIntegersKept
<1> DEFINE map == [k \in StateKeys |-> Known(uIntegerHistory[k])]
<1>0. /\ \A h : Known(h) = KnownFrom(h, lastCleanupTs)
      /\ map' = [k \in StateKeys |-> KnownFrom(uIntegerHistory'[k], lastCleanupTs')]
      /\ map = [k \in StateKeys |-> KnownFrom(uIntegerHistory[k], lastCleanupTs)]
    BY DEF Known, KnownFrom
<1>1. Init => UIntegers!Init
    <2> SUFFICES ASSUME Init PROVE UIntegers!Init
        OBVIOUS
    <2>1. map = [k \in StateKeys |-> [t \in 0..MaxTs |-> Unknown]]
        BY <1>0, KnownOfNothing DEF Init
    <2> QED BY <2>1 DEF Init, UIntegers!Init, UIntegers!Times
<1>2. ASSUME IInv, [Next]_vars
      PROVE  UIntegers!Next \/ UNCHANGED <<now, lastCleanupTs, attribute, map>>
    <2>1. /\ now \in Nat /\ now <= MaxTs /\ MaxTs \in Nat /\ lastCleanupTs \in Nat
          /\ lastCleanupTs <= now /\ saveTs \in Nat /\ saveTs <= now
          /\ lastCleanupTs <= saveTs
          /\ \A k \in StateKeys : IsHistory(uIntegerHistory[k], StateValues, now)
        BY <1>2, Typed
    <2>2. ASSUME NEW ts \in 1..MaxTs, OnTimestamp(ts) PROVE UIntegers!Next
        <3> DEFINE cut == lastCleanupTs'
        <3>1. /\ TimesOK' /\ now' = ts
              /\ lastCleanupTs' = IF SaveIsDue(ts) THEN saveTs ELSE lastCleanupTs
              /\ \A k \in StateKeys : Cleaned(uIntegerHistory[k], uIntegerHistory'[k],
                                           StateValues, ts, saveTs, SaveIsDue(ts))
            BY <1>2, <2>2, TimestampCleans
        <3>2. ts \in 0..MaxTs /\ cut \in 0..MaxTs /\ lastCleanupTs <= cut /\ cut <= ts
              /\ ts >= now
            BY <2>1, <2>2, <3>1 DEF TimesOK, OnTimestamp
        <3>3. ASSUME NEW k \in StateKeys
              PROVE  KnownFrom(uIntegerHistory'[k], cut) =
                        Forgotten(KnownFrom(uIntegerHistory[k], lastCleanupTs), cut)
            <4>1. SaveIsDue(ts) \in BOOLEAN /\ (SaveIsDue(ts) => cut = saveTs)
                  /\ (~SaveIsDue(ts) => cut = lastCleanupTs)
                BY <3>1 DEF SaveIsDue
            <4>2. cut \in Nat /\ lastCleanupTs <= cut
                BY <2>1, <3>2
            <4> HIDE DEF cut
            <4>3. Cleaned(uIntegerHistory[k], uIntegerHistory'[k],
                          StateValues, ts, saveTs, SaveIsDue(ts))
                BY <3>1
            <4>4. SameFrom(uIntegerHistory[k], uIntegerHistory'[k], cut)
                <5>1. CASE SaveIsDue(ts)
                    BY <4>1, <4>3, <5>1 DEF Cleaned, SameFrom
                <5>2. CASE ~SaveIsDue(ts)
                    BY <4>3, <5>2 DEF Cleaned, SameFrom
                <5> QED BY <5>1, <5>2
            <4> QED BY <2>1, <4>2, <4>4, KnownPasses
        <3>4. map' = [k \in StateKeys |-> [t \in 0..MaxTs |->
                         IF t < cut THEN Unknown ELSE map[k][t]]]
            <4>1. map' = [k \in StateKeys |-> Forgotten(map[k], cut)]
                BY <1>0, <3>3
            <4> QED BY <4>1 DEF Forgotten
        <3>5. attribute' = attribute
            BY <2>2 DEF OnTimestamp, machineVars
        <3>6. UIntegers!Pass(ts, cut)
            BY <3>1, <3>2, <3>4, <3>5 DEF UIntegers!Pass, UIntegers!Times
        <3> QED BY <3>2, <3>6 DEF UIntegers!Next, UIntegers!Times
    <2>3. ASSUME NEW key \in StateKeys, NEW v \in StateValues, OnState(key, v)
          PROVE  UIntegers!Next
        <3>1. /\ uIntegerHistory' \in [StateKeys -> Entries(StateValues)]
              /\ attribute' \in [StateKeys -> StateValues \cup {Unknown}]
              /\ attribute'[key] = v
              /\ uIntegerHistory'[key] = SetValue(uIntegerHistory[key], now, v)
              /\ \A k \in StateKeys : k # key => /\ uIntegerHistory'[k] = uIntegerHistory[k]
                                                 /\ attribute'[k] = attribute[k]
            BY <1>2, <2>3, StateEnters
        <3>2. now' = now /\ lastCleanupTs' = lastCleanupTs
            BY <2>3 DEF OnState, timeVars
        <3>3. UIntegersOK'
            BY <1>2, UIntegersStep
        <3>4. \A k \in StateKeys : attribute'[k] = Present(uIntegerHistory'[k])
            BY <3>3 DEF UIntegersOK
        <3>5. ASSUME NEW k \in StateKeys
              PROVE  \A t \in Nat : GetValue(uIntegerHistory'[k], t) =
                        IF t >= now THEN Present(uIntegerHistory'[k])
                        ELSE GetValue(uIntegerHistory[k], t)
            <4>1. IsHistory(uIntegerHistory[k], StateValues, now)
                BY <2>1
            <4>2. CASE k = key
                <5>1. uIntegerHistory'[key] = SetValue(uIntegerHistory[key], now, v)
                    BY <3>1
                <5>2. Present(uIntegerHistory'[key]) = v
                    BY <3>1, <3>4
                <5>3. \A h, new : IsHistory(h, StateValues, now) /\ new = SetValue(h, now, v) =>
                         \A t \in Nat : GetValue(new, t) = IF t >= now THEN v ELSE GetValue(h, t)
                    BY <2>1, SetAnswers
                <5> QED BY <4>1, <4>2, <5>1, <5>2, <5>3
            <4>3. CASE k # key
                <5>1. uIntegerHistory'[k] = uIntegerHistory[k]
                    BY <3>1, <4>3
                <5>2. \A h : IsHistory(h, StateValues, now) =>
                         \A t \in Nat : GetValue(h, t) =
                             IF t >= now THEN Present(h) ELSE GetValue(h, t)
                    BY <2>1, ValueKept
                <5> QED BY <4>1, <5>1, <5>2
            <4> QED BY <4>2, <4>3
        <3>6. ASSUME NEW k \in StateKeys
              PROVE  KnownFrom(uIntegerHistory'[k], lastCleanupTs) =
                        Overwritten(KnownFrom(uIntegerHistory[k], lastCleanupTs), now,
                                    Present(uIntegerHistory'[k]))
            <4>1. now \in Nat /\ lastCleanupTs \in Nat /\ lastCleanupTs <= now
                BY <2>1
            <4>2. \A h, new :
                     (\A t \in Nat : GetValue(new, t) =
                         IF t >= now THEN Present(new) ELSE GetValue(h, t)) =>
                     KnownFrom(new, lastCleanupTs) =
                         Overwritten(KnownFrom(h, lastCleanupTs), now, Present(new))
                BY <4>1, KnownWritten
            <4> QED BY <3>5, <4>2
        <3>7. map' = [k \in StateKeys |-> [t \in 0..MaxTs |->
                         IF t >= now THEN attribute'[k] ELSE map[k][t]]]
            <4>1. map' = [k \in StateKeys |-> Overwritten(map[k], now, attribute'[k])]
                BY <1>0, <3>2, <3>4, <3>6
            <4> QED BY <4>1 DEF Overwritten
        <3>8. /\ attribute' = [k \in StateKeys |-> attribute'[k]]
              /\ \A k \in StateKeys : attribute'[k] \in StateValues \cup {attribute[k]}
            BY <3>1
        <3> QED BY <3>2, <3>7, <3>8 DEF UIntegers!Next, UIntegers!Write, UIntegers!Times
    <2>4. CASE CounterEvent \/ MachineStep \/ UNCHANGED vars
        <3>1. UNCHANGED timeVars /\ UNCHANGED <<uIntegerHistory, attribute>>
            BY <2>4, TimeStops
        <3>2. UNCHANGED map
            BY <1>0, <3>1 DEF timeVars
        <3> QED BY <3>1, <3>2 DEF timeVars
    <2> QED BY <1>2, <2>2, <2>3, <2>4, Kinds
<1> QED BY <1>1, <1>2, StateBlocksInvariant, PTL DEF Spec, UIntegersKept, UIntegers!Spec

(* So does the history of the counters, which many kinds of events write,  *)
(* two counters at once at a context switch (StateHistory.cpp:59-99,       *)
(* 158-248).                                                               *)
THEOREM ULongsImplementMap == Spec => ULongsKept
<1> DEFINE map == [tid \in Tids |-> Known(counters[tid].history)]
           last == [tid \in Tids |-> Known(counters[tid].history)[MaxTs]]
<1>0. /\ map' = [tid \in Tids |-> KnownFrom(counters'[tid].history, lastCleanupTs')]
      /\ map = [tid \in Tids |-> KnownFrom(counters[tid].history, lastCleanupTs)]
      /\ last' = [tid \in Tids |-> KnownFrom(counters'[tid].history, lastCleanupTs')[MaxTs]]
      /\ last = [tid \in Tids |-> KnownFrom(counters[tid].history, lastCleanupTs)[MaxTs]]
    BY DEF Known, KnownFrom
<1>1. Init => ULongMap!Init
    <2> SUFFICES ASSUME Init PROVE ULongMap!Init
        OBVIOUS
    <2>1. \A tid \in Tids : counters[tid].history = << >>
        BY DEF Init, NewCounter
    <2>2. \A tid \in Tids : KnownFrom(counters[tid].history, lastCleanupTs) =
                               [t \in 0..MaxTs |-> Unknown]
        BY <2>1, KnownOfNothing
    <2>3. map = [tid \in Tids |-> [t \in 0..MaxTs |-> Unknown]]
        BY <1>0, <2>2
    <2>4. MaxTs \in 0..MaxTs
        BY TimeAssumption
    <2>5. last = [tid \in Tids |-> Unknown]
        BY <1>0, <2>2, <2>4
    <2> QED BY <2>3, <2>5 DEF Init, ULongMap!Init, ULongMap!Times
<1>2. ASSUME IInv PROVE last = [tid \in Tids |-> Present(counters[tid].history)]
    BY <1>0, <1>2, Typed, KnownLast
<1>3. ASSUME IInv' PROVE last' = [tid \in Tids |-> Present(counters'[tid].history)]
    <2>1. ASSUME NEW tid \in Tids
          PROVE  KnownFrom(counters'[tid].history, lastCleanupTs')[MaxTs] =
                    Present(counters'[tid].history)
        <3>1. now' \in Nat /\ now' <= MaxTs /\ lastCleanupTs' \in Nat /\ lastCleanupTs' <= now'
            BY <1>3, TimeAssumption DEF IInv, TimesOK
        <3>2. IsHistory(counters'[tid].history, ULongs, now')
            BY <1>3 DEF IInv, CountersOK
        <3> QED BY <3>1, <3>2, KnownLast
    <2> QED BY <1>0, <2>1
<1>4. ASSUME IInv, IInv', [Next]_vars
      PROVE  ULongMap!Next \/ UNCHANGED <<now, lastCleanupTs, last, map>>
    <2>1. /\ now \in Nat /\ now <= MaxTs /\ MaxTs \in Nat /\ lastCleanupTs \in Nat
          /\ lastCleanupTs <= now /\ saveTs \in Nat /\ saveTs <= now
          /\ lastCleanupTs <= saveTs
          /\ \A tid \in Tids : IsHistory(counters[tid].history, ULongs, now)
        BY <1>4, Typed
    <2>2. /\ last = [tid \in Tids |-> Present(counters[tid].history)]
          /\ last' = [tid \in Tids |-> Present(counters'[tid].history)]
        BY <1>2, <1>3, <1>4
    <2>3. ASSUME NEW ts \in 1..MaxTs, OnTimestamp(ts) PROVE ULongMap!Next
        <3> DEFINE cut == lastCleanupTs'
        <3>1. /\ TimesOK' /\ now' = ts
              /\ lastCleanupTs' = IF SaveIsDue(ts) THEN saveTs ELSE lastCleanupTs
              /\ \A tid \in Tids : Cleaned(counters[tid].history, counters'[tid].history,
                                           ULongs, ts, saveTs, SaveIsDue(ts))
            BY <1>4, <2>3, TimestampCleans
        <3>2. ts \in 0..MaxTs /\ cut \in 0..MaxTs /\ lastCleanupTs <= cut /\ cut <= ts
              /\ ts >= now
            BY <2>1, <2>3, <3>1 DEF TimesOK, OnTimestamp
        <3>3. ASSUME NEW tid \in Tids
              PROVE  KnownFrom(counters'[tid].history, cut) =
                        Forgotten(KnownFrom(counters[tid].history, lastCleanupTs), cut)
            <4>1. SaveIsDue(ts) \in BOOLEAN /\ (SaveIsDue(ts) => cut = saveTs)
                  /\ (~SaveIsDue(ts) => cut = lastCleanupTs)
                BY <3>1 DEF SaveIsDue
            <4>2. cut \in Nat /\ lastCleanupTs <= cut
                BY <2>1, <3>2
            <4> HIDE DEF cut
            <4>3. Cleaned(counters[tid].history, counters'[tid].history,
                          ULongs, ts, saveTs, SaveIsDue(ts))
                BY <3>1
            <4>4. SameFrom(counters[tid].history, counters'[tid].history, cut)
                <5>1. CASE SaveIsDue(ts)
                    BY <4>1, <4>3, <5>1 DEF Cleaned, SameFrom
                <5>2. CASE ~SaveIsDue(ts)
                    BY <4>3, <5>2 DEF Cleaned, SameFrom
                <5> QED BY <5>1, <5>2
            <4> QED BY <2>1, <4>2, <4>4, KnownPasses
        <3>4. map' = [tid \in Tids |-> [t \in 0..MaxTs |->
                         IF t < cut THEN Unknown ELSE map[tid][t]]]
            <4>1. map' = [tid \in Tids |-> Forgotten(map[tid], cut)]
                BY <1>0, <3>3
            <4> QED BY <4>1 DEF Forgotten
        <3>5. last' = last
            BY <2>2, <3>1 DEF Cleaned
        <3>6. ULongMap!Pass(ts, cut)
            BY <3>1, <3>2, <3>4, <3>5 DEF ULongMap!Pass, ULongMap!Times
        <3> QED BY <3>2, <3>6 DEF ULongMap!Next, ULongMap!Times
    <2>4. ASSUME CounterEvent PROVE ULongMap!Next
        <3>1. \A tid \in Tids : Entered(counters[tid], counters'[tid], now)
            BY <1>4, <2>4, EventEnters
        <3>2. now' = now /\ lastCleanupTs' = lastCleanupTs
            BY <2>4, TimeStops DEF timeVars
        <3>3. ASSUME NEW tid \in Tids
              PROVE  KnownFrom(counters'[tid].history, lastCleanupTs) =
                        Overwritten(KnownFrom(counters[tid].history, lastCleanupTs), now,
                                    Present(counters'[tid].history))
            <4>1. \A t \in Nat : GetValue(counters'[tid].history, t) =
                     IF t >= now THEN Present(counters'[tid].history)
                     ELSE GetValue(counters[tid].history, t)
                BY <2>1, <3>1, EnteredHistory
            <4> QED BY <2>1, <4>1, KnownWritten
        <3>4. map' = [tid \in Tids |-> [t \in 0..MaxTs |->
                         IF t >= now THEN last'[tid] ELSE map[tid][t]]]
            <4>1. map' = [tid \in Tids |-> Overwritten(map[tid], now, last'[tid])]
                BY <1>0, <2>2, <3>2, <3>3
            <4> QED BY <4>1 DEF Overwritten
        <3>5. ASSUME NEW tid \in Tids PROVE last'[tid] \in ULongs \cup {last[tid]}
            <4>1. Present(counters'[tid].history) = Present(counters[tid].history) \/
                  Present(counters'[tid].history) \in ULongs
                <5>1. CASE counters'[tid].history = counters[tid].history
                    BY <5>1
                <5>2. ASSUME NEW v \in ULongs,
                             counters'[tid].history = SetValue(counters[tid].history, now, v)
                      PROVE  Present(counters'[tid].history) \in ULongs
                    <6>1. \A h, new : IsHistory(h, ULongs, now) /\ new = SetValue(h, now, v) =>
                             /\ IsHistory(new, ULongs, now)
                             /\ Present(new) = v /\ GetLastValue(new) = v
                        BY <2>1, SetPresent
                    <6> QED BY <2>1, <5>2, <6>1
                <5> QED BY <3>1, <5>1, <5>2 DEF Entered
            <4> QED BY <2>2, <4>1
        <3>6. last' = [tid \in Tids |-> last'[tid]]
            BY <2>2
        <3> QED BY <3>2, <3>4, <3>5, <3>6 DEF ULongMap!Next, ULongMap!Write, ULongMap!Times
    <2>5. ASSUME UNCHANGED <<counters, now, lastCleanupTs>>
          PROVE  UNCHANGED <<now, lastCleanupTs, last, map>>
        BY <1>0, <2>5
    <2>6. ASSUME NEW key \in StateKeys, NEW v \in StateValues, OnState(key, v)
          PROVE  UNCHANGED <<now, lastCleanupTs, last, map>>
        BY <2>5, <2>6 DEF OnState, timeVars
    <2>7. CASE MachineStep
        BY <2>5, <2>7, TimeStops DEF MachineStep, Count, ReuseTid, historyVars, timeVars
    <2>8. CASE UNCHANGED vars
        BY <2>5, <2>8 DEF vars, timeVars, historyVars
    <2> QED BY <1>4, <2>3, <2>4, <2>6, <2>7, <2>8, Kinds
<1> QED BY <1>1, <1>4, StateBlocksInvariant, PTL DEF Spec, ULongsKept, ULongMap!Spec

----------------------------------------------------------------------------
(* Enumeration.                                                            *)

(* The calls are about the entries from f on that lie before the end.      *)
Shown(h, start, end, calls, f) ==
    /\ f \in Nat \ {0}
    /\ \A i \in (f + 1)..Len(h) : h[i].ts > start
    /\ f = 1 \/ (f \in 1..Len(h) /\ h[f].ts <= start)
    /\ DOMAIN calls = {k \in f..Len(h) : h[k].ts < end}
    /\ \A i \in DOMAIN calls :
          /\ calls[i].value = h[i].value
          /\ calls[i].start = IF h[i].ts < start THEN start ELSE h[i].ts
          /\ calls[i].end = IntervalEnd(h, i, end)

(* The entries that an enumeration is about, and what it says of each.     *)
LEMMA EnumeratedEntries ==
    ASSUME NEW T, NEW n, NEW h, IsHistory(h, T, n), NEW start \in Nat, NEW end \in Nat,
           NEW calls, calls = Enumerated(h, start, end)
    PROVE  \E f : Shown(h, start, end, calls, f)
<1>1. /\ Len(h) \in Nat /\ \A i \in 1..Len(h) : h[i].ts \in Nat
      /\ \A i, j \in 1..Len(h) : i <= j => h[i].ts <= h[j].ts
    BY Entry
<1>2. PICK m : InForce(h, start, m)
    BY UpToPrefix
<1>3. /\ m \in 0..Len(h) /\ (UpTo(h, start) = {} <=> m = 0)
      /\ (UpTo(h, start) # {} => Max(UpTo(h, start)) = m)
      /\ \A i \in 1..m : h[i].ts <= start
      /\ \A i \in (m + 1)..Len(h) : h[i].ts > start
    BY <1>2 DEF InForce, IsUpTo
<1> DEFINE f == IF UpTo(h, start) = {} THEN 1 ELSE Max(UpTo(h, start))
           shown == {i \in f..Len(h) : \A j \in f..i : h[j].ts < end}
           call(i) == [value |-> h[i].value,
                       start |-> IF h[i].ts < start THEN start ELSE h[i].ts,
                       end   |-> IntervalEnd(h, i, end)]
<1>4. calls = [i \in shown |-> call(i)]
    BY DEF Enumerated
<1>5. f = IF m = 0 THEN 1 ELSE m
    BY <1>3
<1> HIDE DEF f
<1>6. f \in Nat \ {0} /\ (f = 1 \/ (f \in 1..Len(h) /\ h[f].ts <= start))
      /\ \A i \in (f + 1)..Len(h) : h[i].ts > start
    BY <1>1, <1>3, <1>5
<1>7. shown = {k \in f..Len(h) : h[k].ts < end}
    <2>1. ASSUME NEW i \in f..Len(h), h[i].ts < end, NEW j \in f..i PROVE h[j].ts < end
        <3>1. i \in 1..Len(h) /\ j \in 1..Len(h) /\ j <= i
            BY <1>1, <1>6
        <3>2. h[j].ts <= h[i].ts /\ h[i].ts \in Nat /\ h[j].ts \in Nat
            BY <1>1, <3>1
        <3> QED BY <2>1, <3>2
    <2>2. \A i \in f..Len(h) : i \in f..i
        BY <1>1, <1>6
    <2> QED BY <2>1, <2>2
<1>8. DOMAIN calls = shown /\ \A i \in shown : calls[i] = call(i)
    BY <1>4
<1> HIDE DEF shown
<1>9. \A i \in DOMAIN calls :
          /\ calls[i].value = h[i].value
          /\ calls[i].start = IF h[i].ts < start THEN start ELSE h[i].ts
          /\ calls[i].end = IntervalEnd(h, i, end)
    BY <1>8
<1>10. Shown(h, start, end, calls, f)
    BY <1>6, <1>7, <1>8, <1>9 DEF Shown
<1> QED BY <1>10

(* What EnumerationAgrees says of one history.                             *)
Agrees(h, start, end) ==
    LET calls == Enumerated(h, start, end)
        At(t) == {i \in DOMAIN calls : calls[i].start <= t /\ t < calls[i].end}
    IN  /\ \A i \in DOMAIN calls :
              /\ start <= calls[i].start /\ calls[i].start <= calls[i].end
              /\ calls[i].end <= end
        /\ \A t \in start..(end - 1) :
              IF GetValue(h, t) = Unknown THEN At(t) = {}
              ELSE \E i \in At(t) : At(t) = {i} /\ calls[i].value = GetValue(h, t)

(* A call is about the times from its entry to the next one, within the    *)
(* two times of the enumeration.                                           *)
LEMMA EnumerationOfHistory ==
    ASSUME NEW T, Unknown \notin T, NEW n, NEW h, IsHistory(h, T, n),
           NEW start \in Nat, NEW end \in Nat, start <= end
    PROVE  Agrees(h, start, end)
<1> DEFINE calls == Enumerated(h, start, end)
           At(t) == {i \in DOMAIN calls : calls[i].start <= t /\ t < calls[i].end}
<1>1. /\ Len(h) \in Nat
      /\ \A i \in 1..Len(h) : h[i].ts \in Nat /\ h[i].value \in T
      /\ \A i, j \in 1..Len(h) : i <= j => h[i].ts <= h[j].ts
    BY Entry
<1>2. PICK f \in Nat \ {0} :
         /\ \A i \in (f + 1)..Len(h) : h[i].ts > start
         /\ f = 1 \/ (f \in 1..Len(h) /\ h[f].ts <= start)
         /\ DOMAIN calls = {k \in f..Len(h) : h[k].ts < end}
         /\ \A i \in DOMAIN calls :
               /\ calls[i].value = h[i].value
               /\ calls[i].start = IF h[i].ts < start THEN start ELSE h[i].ts
               /\ calls[i].end = IntervalEnd(h, i, end)
    <2>1. PICK f : Shown(h, start, end, calls, f)
        BY EnumeratedEntries
    <2> QED BY <2>1 DEF Shown
<1> HIDE DEF calls
<1>3. ASSUME NEW i \in DOMAIN calls
      PROVE  /\ i \in 1..Len(h) /\ i >= f /\ h[i].ts \in Nat /\ h[i].ts < end
             /\ calls[i].start \in Nat /\ calls[i].end \in Nat
             /\ start <= calls[i].start /\ calls[i].start <= calls[i].end
             /\ calls[i].end <= end
             /\ calls[i].start >= h[i].ts
             /\ calls[i].start \in {start, h[i].ts}
             /\ i + 1 \in 1..Len(h) => calls[i].end <= h[i + 1].ts
             /\ calls[i].end = end \/ (i + 1 \in 1..Len(h) /\ calls[i].end = h[i + 1].ts)
    <2>1. i \in 1..Len(h) /\ i >= f /\ h[i].ts \in Nat /\ h[i].ts < end
        BY <1>1, <1>2
    <2>2. /\ calls[i].start = IF h[i].ts < start THEN start ELSE h[i].ts
          /\ calls[i].end = IntervalEnd(h, i, end)
        BY <1>2
    <2>3. /\ calls[i].start \in Nat /\ start <= calls[i].start
          /\ calls[i].start >= h[i].ts /\ calls[i].start \in {start, h[i].ts}
          /\ calls[i].start <= end
        BY <2>1, <2>2
    <2>4. CASE i + 1 \in 1..Len(h)
        <3> DEFINE u == h[i + 1].ts
        <3>1. u \in Nat /\ h[i].ts <= u /\ u > start
            <4>1. i + 1 \in (f + 1)..Len(h) /\ i <= i + 1
                BY <1>1, <2>1, <2>4
            <4>2. u \in Nat /\ h[i].ts <= u
                BY <1>1, <2>1, <2>4, <4>1
            <4> QED BY <1>2, <4>1, <4>2
        <3>2. calls[i].end = IF u < end THEN u ELSE end
            <4>1. i < Len(h)
                BY <1>1, <2>1, <2>4
            <4> QED BY <2>2, <4>1 DEF IntervalEnd
        <3> HIDE DEF u
        <3>3. /\ calls[i].end \in Nat /\ calls[i].end <= end /\ calls[i].end <= u
              /\ calls[i].start <= calls[i].end
              /\ calls[i].end = end \/ calls[i].end = u
            BY <2>1, <2>3, <3>1, <3>2
        <3> QED BY <2>1, <2>3, <2>4, <3>3 DEF u
    <2>5. CASE ~(i + 1 \in 1..Len(h))
        <3>1. calls[i].end = end
            <4>1. ~(i < Len(h))
                BY <1>1, <2>1, <2>5
            <4> QED BY <2>2, <4>1 DEF IntervalEnd
        <3> QED BY <2>1, <2>3, <2>5, <3>1
    <2> QED BY <2>4, <2>5
<1>4. ASSUME NEW t \in start..(end - 1)
      PROVE  IF GetValue(h, t) = Unknown THEN At(t) = {}
             ELSE \E i \in At(t) : At(t) = {i} /\ calls[i].value = GetValue(h, t)
    <2>1. t \in Nat /\ start <= t /\ t < end
        BY <1>4
    <2>2. PICK p : InForce(h, t, p)
        BY <2>1, UpToPrefix
    <2>3. /\ p \in 0..Len(h)
          /\ \A i \in 1..p : h[i].ts <= t
          /\ \A i \in (p + 1)..Len(h) : h[i].ts > t
          /\ GetValue(h, t) = IF p = 0 THEN Unknown ELSE h[p].value
        BY <2>2 DEF InForce
    <2>4. ASSUME NEW i \in At(t) PROVE i \in DOMAIN calls /\ i = p
        <3>1. i \in DOMAIN calls /\ calls[i].start <= t /\ t < calls[i].end
            BY <2>4
        <3> HIDE DEF At
        <3>2. ~(i > p)
            <4> SUFFICES ASSUME i > p PROVE FALSE
                OBVIOUS
            <4>1. i \in (p + 1)..Len(h)
                BY <1>1, <1>3, <2>3, <3>1
            <4>2. h[i].ts > t
                BY <2>3, <4>1
            <4> QED BY <1>3, <2>1, <3>1, <4>2
        <3>3. ~(i < p)
            <4> SUFFICES ASSUME i < p PROVE FALSE
                OBVIOUS
            <4>1. i \in 1..Len(h)
                BY <1>3, <3>1
            <4>2. i + 1 \in 1..p /\ i + 1 \in 1..Len(h)
                BY <1>1, <2>3, <4>1
            <4> DEFINE u == h[i + 1].ts
            <4>3. u \in Nat /\ u <= t
                BY <1>1, <2>3, <4>2
            <4>4. calls[i].end <= u /\ calls[i].end \in Nat
                BY <1>3, <3>1, <4>2
            <4> HIDE DEF u
            <4> QED BY <2>1, <3>1, <4>3, <4>4
        <3>4. i \in Nat
            BY <1>3, <3>1
        <3> QED BY <2>3, <3>1, <3>2, <3>3, <3>4
    <2>5. CASE p = 0
        <3>1. At(t) = {}
            <4> SUFFICES ASSUME NEW i \in At(t) PROVE FALSE
                OBVIOUS
            <4>1. i \in DOMAIN calls /\ i = p
                BY <2>4
            <4> HIDE DEF At
            <4> QED BY <1>3, <2>5, <4>1
        <3> QED BY <2>3, <2>5, <3>1
    <2>6. CASE p # 0
        <3>1. p \in 1..Len(h) /\ p \in 1..p
            BY <1>1, <2>3, <2>6
        <3>2. h[p].ts \in Nat /\ h[p].ts <= t
            BY <1>1, <2>3, <3>1
        <3>3. p >= f
            <4> SUFFICES ASSUME p < f PROVE FALSE
                BY <3>1
            <4>1. f # 1
                BY <3>1
            <4>2. f \in 1..Len(h) /\ h[f].ts <= start
                BY <1>2, <4>1
            <4>3. f \in (p + 1)..Len(h)
                BY <1>1, <3>1, <4>2
            <4>4. h[f].ts > t /\ h[f].ts \in Nat
                BY <1>1, <2>3, <4>2, <4>3
            <4> QED BY <2>1, <4>2, <4>4
        <3>4. p \in DOMAIN calls
            BY <1>1, <1>2, <2>1, <3>1, <3>2, <3>3
        <3>5. calls[p].start <= t
            BY <1>3, <2>1, <3>2, <3>4
        <3>6. t < calls[p].end
            <4>1. CASE calls[p].end = end
                BY <2>1, <4>1
            <4>2. CASE p + 1 \in 1..Len(h) /\ calls[p].end = h[p + 1].ts
                <5>1. p + 1 \in (p + 1)..Len(h)
                    BY <1>1, <3>1, <4>2
                <5>2. h[p + 1].ts > t /\ h[p + 1].ts \in Nat
                    BY <1>1, <2>3, <4>2, <5>1
                <5> QED BY <2>1, <4>2, <5>2
            <4> QED BY <1>3, <3>4, <4>1, <4>2
        <3>7. p \in At(t)
            BY <3>4, <3>5, <3>6
        <3>8. At(t) = {p}
            BY <2>4, <3>7
        <3>9. calls[p].value = h[p].value
            BY <1>2, <3>4
        <3>10. GetValue(h, t) = h[p].value /\ h[p].value # Unknown
            BY <1>1, <2>3, <2>6, <3>1
        <3> HIDE DEF At
        <3> QED BY <3>7, <3>8, <3>9, <3>10
    <2> QED BY <2>5, <2>6
<1>5. \A i \in DOMAIN calls : /\ start <= calls[i].start /\ calls[i].start <= calls[i].end
                              /\ calls[i].end <= end
    BY <1>3
<1> QED BY <1>4, <1>5 DEF Agrees, calls

(* Enumerating the values of an attribute agrees with asking for each      *)
(* time, in every state and between all times that are still kept          *)
(* (StateHistory.cpp:101-156).                                             *)
THEOREM EnumerationExact == Spec => []EnumerationAgrees
<1>1. ASSUME IInv PROVE EnumerationAgrees
    <2>1. \A k \in StateKeys : IsHistory(uIntegerHistory[k], StateValues, now)
        BY <1>1, Typed
    <2>2. ASSUME NEW k \in StateKeys, NEW start \in lastCleanupTs..MaxTs,
                 NEW end \in start..MaxTs
          PROVE  Agrees(uIntegerHistory[k], start, end)
        <3>1. start \in Nat /\ end \in Nat /\ start <= end
            BY <1>1, Typed
        <3> QED BY <2>1, <3>1, EnumerationOfHistory, UnknownAssumption
    <2> QED BY <2>2 DEF EnumerationAgrees, Agrees
<1> QED BY <1>1, StateBlocksInvariant, PTL

----------------------------------------------------------------------------
(* A counter never runs ahead of the hardware.                             *)

(* The fields of a counter.                                                *)
LEMMA CounterFields ==
    ASSUME NEW n, NEW c \in CounterRecords, IsHistory(c.history, ULongs, n)
    PROVE  /\ c.state.cpuAbsolute \in Nat /\ c.state.cpuReal \in Nat
           /\ c.state.threadAbsolute \in Nat /\ c.state.threadReal \in Nat
           /\ GetLastValue(c.history) \in Nat /\ GetLastValue(c.history) \in ULongs
           /\ c.history = << >> => GetLastValue(c.history) = 0
           /\ c.state \in CounterStates
<1>1. c.state \in CounterStates
    BY DEF CounterRecords
<1>2. /\ c.state.cpuAbsolute \in ULongs /\ c.state.cpuReal \in ULongs
      /\ c.state.threadAbsolute \in ULongs /\ c.state.threadReal \in ULongs
    BY <1>1 DEF CounterStates
<1>3. GetLastValue(c.history) \in ULongs
    BY LastIsULong
<1>4. c.history = << >> => GetLastValue(c.history) = 0
    BY DEF GetLastValue
<1> QED BY <1>1, <1>2, <1>3, <1>4, ULongArithmetic

(* The state of a counter after its base on the CPU, or that in the
   thread, is set. *)
LEMMA NewCpuBase ==
    ASSUME NEW s \in CounterStates, NEW a, NEW r
    PROVE  /\ [s EXCEPT !.cpuAbsolute = a, !.cpuReal = r].cpuAbsolute = a
           /\ [s EXCEPT !.cpuAbsolute = a, !.cpuReal = r].cpuReal = r
           /\ [s EXCEPT !.cpuAbsolute = a, !.cpuReal = r].threadAbsolute = s.threadAbsolute
           /\ [s EXCEPT !.cpuAbsolute = a, !.cpuReal = r].threadReal = s.threadReal
BY DEF CounterStates

(* The base in the thread is set apart from that on the CPU. *)
LEMMA NewThreadBase ==
    ASSUME NEW s \in CounterStates, NEW a, NEW r
    PROVE  /\ [s EXCEPT !.threadAbsolute = a, !.threadReal = r].threadAbsolute = a
           /\ [s EXCEPT !.threadAbsolute = a, !.threadReal = r].threadReal = r
           /\ [s EXCEPT !.threadAbsolute = a, !.threadReal = r].cpuAbsolute = s.cpuAbsolute
           /\ [s EXCEPT !.threadAbsolute = a, !.threadReal = r].cpuReal = s.cpuReal
BY DEF CounterStates

(* The least value that a count of the hardware allows, without overflow.  *)
LEMMA MinRealExact ==
    ASSUME NEW real \in Nat, NEW from \in Nat, NEW to \in Nat, NEW total \in Nat,
           from <= to, real + (to - from) <= total, total < kInvalid
    PROVE  /\ MinReal(real, from, to) = real + (to - from)
           /\ MinReal(real, from, to) \in ULongs /\ MinReal(real, from, to) \in Nat
<1> DEFINE x == real + to - from
<1>1. x \in Nat /\ x = real + (to - from) /\ x <= kInvalid
    BY ULongArithmetic
<1>2. MinReal(real, from, to) = x % ULongModulus
    BY DEF MinReal
<1> HIDE DEF x
<1> QED BY <1>1, <1>2, ULongArithmetic

(* Catching up with the CPU.                                               *)
LEMMA AdvanceFollows ==
    ASSUME NEW n \in Nat, NEW c \in CounterRecords, IsHistory(c.history, ULongs, n),
           NEW total \in Nat, NEW thread \in Nat, thread < kInvalid,
           NEW value \in Nat, value < kInvalid, value \in ULongs,
           Behind(c, total, thread), BasedOn(c, total, value),
           c.state.cpuAbsolute # kInvalid,
           NEW new, new = AdvanceCpu(c, n, value)
    PROVE  Follows(new, total, thread) /\ BasedOn(new, total, value) /\ CaughtUp(new, total)
<1> DEFINE s == c.state
           least == MinReal(s.cpuReal, s.cpuAbsolute, value)
           real == RealNow(c.history, least)
<1>1. /\ s.cpuAbsolute \in Nat /\ s.cpuReal \in Nat
      /\ s.threadAbsolute \in Nat /\ s.threadReal \in Nat
      /\ GetLastValue(c.history) \in Nat /\ s \in CounterStates
    BY CounterFields
<1>2. /\ GetLastValue(c.history) <= total /\ total <= thread /\ total < kInvalid
      /\ s.cpuAbsolute <= value /\ s.cpuReal + (value - s.cpuAbsolute) <= total
      /\ s.threadAbsolute = kInvalid => s.cpuReal + (value - s.cpuAbsolute) = total
      /\ s.threadAbsolute # kInvalid => /\ s.threadAbsolute <= thread
                                        /\ s.threadReal + (thread - s.threadAbsolute) <= total
    <2>1. total <= thread
        BY DEF Behind
    <2>2. total < kInvalid
        BY <2>1, ULongArithmetic
    <2> QED BY <2>1, <2>2 DEF Behind, BasedOn
<1>3. /\ least = s.cpuReal + (value - s.cpuAbsolute)
      /\ least \in ULongs /\ least \in Nat
    BY <1>1, <1>2, MinRealExact
<1>4. new = [history |-> SetValue(c.history, n, real),
             state   |-> [s EXCEPT !.cpuAbsolute = value, !.cpuReal = real]]
    BY DEF AdvanceCpu
<1> HIDE DEF s, least
<1>5. /\ real \in ULongs /\ real >= least /\ real >= GetLastValue(c.history)
      /\ real \in {least, GetLastValue(c.history)}
    BY <1>3, RealNowGrows
<1> HIDE DEF real
<1>6. /\ new.state.cpuAbsolute = value /\ new.state.cpuReal = real
      /\ new.state.threadAbsolute = s.threadAbsolute
      /\ new.state.threadReal = s.threadReal
      /\ new.history = SetValue(c.history, n, real)
    <2>1. /\ new.history = SetValue(c.history, n, real)
          /\ new.state = [s EXCEPT !.cpuAbsolute = value, !.cpuReal = real]
        BY <1>4
    <2> QED BY <1>1, <2>1, NewCpuBase
<1>7. new.history # << >> /\ GetLastValue(new.history) = real
    <2>1. \A h, g : IsHistory(h, ULongs, n) /\ g = SetValue(h, n, real) =>
             g # << >> /\ GetLastValue(g) = real
        BY <1>5, SetLast
    <2> QED BY <1>6, <2>1
<1>8. real \in Nat /\ real <= total /\ (s.threadAbsolute = kInvalid => real = total)
    BY <1>1, <1>2, <1>3, <1>5
<1>9. Behind(new, total, thread)
    BY <1>2, <1>6, <1>7, <1>8 DEF Behind
<1>10. Follows(new, total, thread)
    BY <1>6, <1>7, <1>9, ULongArithmetic DEF Follows
<1>11. BasedOn(new, total, value)
    BY <1>6, <1>8 DEF BasedOn
<1>12. CaughtUp(new, total)
    BY <1>6, <1>7, <1>8 DEF CaughtUp
<1> QED BY <1>10, <1>11, <1>12

(* A new base on the CPU, of a counter that has caught up.                 *)
LEMMA BaseFollows ==
    ASSUME NEW n \in Nat, NEW c \in CounterRecords, IsHistory(c.history, ULongs, n),
           NEW total \in Nat, NEW thread \in Nat, thread < kInvalid,
           NEW value \in Nat, value < kInvalid, value \in ULongs,
           Follows(c, total, thread), CaughtUp(c, total),
           NEW new, new = SetPerfCounterCpuBaseValue(c, n, value)
    PROVE  Follows(new, total, thread) /\ BasedOn(new, total, value) /\ CaughtUp(new, total)
<1> DEFINE b == Based(c, value)
<1>1. /\ c.state.cpuAbsolute \in Nat /\ c.state.threadAbsolute \in Nat
      /\ c.state.threadReal \in Nat
      /\ GetLastValue(c.history) \in Nat /\ c.state \in CounterStates
    BY CounterFields
<1>2. /\ b \in CounterRecords /\ b.history = c.history
      /\ b.state = [c.state EXCEPT !.cpuAbsolute = value,
                                   !.cpuReal = GetLastValue(c.history)]
    BY BasedRecord
<1>3. new = IF c.history = << >> THEN AdvanceCpu(b, n, value) ELSE b
    BY DEF SetPerfCounterCpuBaseValue, Based
<1> HIDE DEF b
<1>4. /\ b.state.cpuAbsolute = value /\ b.state.cpuReal = GetLastValue(c.history)
      /\ b.state.threadAbsolute = c.state.threadAbsolute
      /\ b.state.threadReal = c.state.threadReal
    BY <1>1, <1>2 DEF CounterStates
<1>5. Behind(b, total, thread)
    BY <1>2, <1>4 DEF Follows, Behind
<1>6. GetLastValue(c.history) <= total
      /\ (c.state.threadAbsolute = kInvalid => GetLastValue(c.history) = total)
    BY DEF Follows, Behind, CaughtUp
<1>7. BasedOn(b, total, value)
    BY <1>1, <1>4, <1>6 DEF BasedOn
<1>8. value # kInvalid
    BY ULongArithmetic
<1>9. CASE c.history = << >>
    <2>1. new = AdvanceCpu(b, n, value) /\ IsHistory(b.history, ULongs, n)
        BY <1>2, <1>3, <1>9
    <2>2. b.state.cpuAbsolute # kInvalid
        BY <1>4, <1>8
    <2> QED BY <1>2, <1>5, <1>7, <2>1, <2>2, AdvanceFollows
<1>10. CASE c.history # << >>
    <2>1. new = b
        BY <1>3, <1>10
    <2>2. Follows(b, total, thread)
        BY <1>2, <1>4, <1>5, <1>8, <1>10 DEF Follows
    <2>3. CaughtUp(b, total)
        BY <1>2, <1>4, <1>6 DEF CaughtUp
    <2> QED BY <1>7, <2>1, <2>2, <2>3
<1> QED BY <1>9, <1>10

(* The value of the CPU, for the counter of the thread that runs on it.    *)
LEMMA CpuValueFollows ==
    ASSUME NEW n \in Nat, NEW c \in CounterRecords, IsHistory(c.history, ULongs, n),
           NEW total \in Nat, NEW thread \in Nat, thread < kInvalid,
           NEW value \in Nat, value < kInvalid, value \in ULongs,
           Follows(c, total, thread), BasedOn(c, total, value),
           NEW new, new = SetPerfCounterCpuValue(c, n, value)
    PROVE  Follows(new, total, thread) /\ BasedOn(new, total, value) /\ CaughtUp(new, total)
<1>1. c.state.cpuAbsolute \in Nat /\ (c.history = << >> => GetLastValue(c.history) = 0)
    BY CounterFields
<1>2. CASE c.state.cpuAbsolute = kInvalid
    <2>1. new = SetPerfCounterCpuBaseValue(c, n, value)
        BY <1>2 DEF SetPerfCounterCpuValue
    <2>2. CaughtUp(c, total)
        BY <1>1, <1>2 DEF Follows, CaughtUp
    <2> QED BY <2>1, <2>2, BaseFollows
<1>3. CASE c.state.cpuAbsolute # kInvalid
    <2>1. ~(c.state.cpuAbsolute > value)
        BY <1>1, <1>3 DEF BasedOn
    <2>2. new = AdvanceCpu(c, n, value)
        BY <1>3, <2>1 DEF SetPerfCounterCpuValue
    <2>3. Behind(c, total, thread)
        BY DEF Follows
    <2> QED BY <1>3, <2>2, <2>3, AdvanceFollows
<1> QED BY <1>2, <1>3

(* The value of the thread itself: from then on the scheduler is not       *)
(* trusted to be exact.                                                    *)
LEMMA ThreadValueFollows ==
    ASSUME NEW n \in Nat, NEW c \in CounterRecords, IsHistory(c.history, ULongs, n),
           NEW total \in Nat, NEW thread \in Nat, thread < kInvalid, thread \in ULongs,
           Follows(c, total, thread),
           NEW new, new = SetPerfCounterThreadValue(c, n, thread)
    PROVE  /\ Follows(new, total, thread)
           /\ new.state.threadAbsolute # kInvalid
           /\ new.state.cpuAbsolute = c.state.cpuAbsolute
           /\ new.state.cpuReal = c.state.cpuReal
<1> DEFINE s == c.state
           h == c.history
           least == MinReal(s.threadReal, s.threadAbsolute, thread)
           real == RealNow(h, least)
<1>1. /\ s.threadAbsolute \in Nat /\ s.threadReal \in Nat
      /\ GetLastValue(h) \in Nat /\ GetLastValue(h) \in ULongs /\ s \in CounterStates
      /\ (h = << >> => GetLastValue(h) = 0)
    BY CounterFields
<1>2. /\ GetLastValue(h) <= total /\ total <= thread /\ total < kInvalid
      /\ thread # kInvalid /\ kInvalid \in Nat
      /\ s.threadAbsolute # kInvalid =>
            /\ s.threadAbsolute <= thread
            /\ s.threadReal + (thread - s.threadAbsolute) <= total
    <2>1. total <= thread
        BY DEF Follows, Behind
    <2>2. total < kInvalid /\ thread # kInvalid /\ kInvalid \in Nat
        BY <2>1, ULongArithmetic
    <2> QED BY <2>1, <2>2 DEF Follows, Behind
<1>3. \A v \in ULongs : SetValue(h, n, v) # << >> /\ GetLastValue(SetValue(h, n, v)) = v
    <2> TAKE v \in ULongs
    <2>1. \A f, g : IsHistory(f, ULongs, n) /\ g = SetValue(f, n, v) =>
             g # << >> /\ GetLastValue(g) = v
        BY SetLast
    <2> QED BY <2>1
<1>4. CASE s.threadAbsolute = kInvalid
    <2> DEFINE g == IF h = << >> THEN SetValue(h, n, 0) ELSE h
    <2>1. new = [history |-> g,
                 state   |-> [s EXCEPT !.threadAbsolute = thread,
                                       !.threadReal = GetLastValue(h)]]
        BY <1>4 DEF SetPerfCounterThreadValue
    <2>2. g # << >> /\ GetLastValue(g) = GetLastValue(h)
        BY <1>1, <1>3, ULongArithmetic
    <2> HIDE DEF g, s
    <2>3. /\ new.history = g /\ new.state.threadAbsolute = thread
          /\ new.state.threadReal = GetLastValue(h)
          /\ new.state.cpuAbsolute = s.cpuAbsolute /\ new.state.cpuReal = s.cpuReal
        <3>1. /\ new.history = g
              /\ new.state = [s EXCEPT !.threadAbsolute = thread,
                                       !.threadReal = GetLastValue(h)]
            BY <2>1
        <3> QED BY <1>1, <3>1, NewThreadBase
    <2>4. Behind(new, total, thread)
        BY <1>1, <1>2, <2>2, <2>3 DEF Behind
    <2>5. Follows(new, total, thread)
        BY <1>2, <2>2, <2>3, <2>4 DEF Follows
    <2> QED BY <1>2, <2>3, <2>5 DEF s
<1>5. CASE s.threadAbsolute # kInvalid
    <2>1. new = [history |-> SetValue(h, n, real),
                 state   |-> [s EXCEPT !.threadAbsolute = thread, !.threadReal = real]]
        BY <1>5 DEF SetPerfCounterThreadValue
    <2>2. /\ least = s.threadReal + (thread - s.threadAbsolute)
          /\ least \in ULongs /\ least \in Nat
        BY <1>1, <1>2, <1>5, MinRealExact
    <2> HIDE DEF least, s
    <2>3. /\ real \in ULongs /\ real >= least /\ real >= GetLastValue(h)
          /\ real \in {least, GetLastValue(h)}
        BY <2>2, RealNowGrows
    <2> HIDE DEF real
    <2>4. /\ new.history = SetValue(h, n, real) /\ new.state.threadAbsolute = thread
          /\ new.state.threadReal = real
          /\ new.state.cpuAbsolute = s.cpuAbsolute /\ new.state.cpuReal = s.cpuReal
        <3>1. /\ new.history = SetValue(h, n, real)
              /\ new.state = [s EXCEPT !.threadAbsolute = thread, !.threadReal = real]
            BY <2>1
        <3> QED BY <1>1, <3>1, NewThreadBase
    <2>5. new.history # << >> /\ GetLastValue(new.history) = real
        BY <1>3, <2>3, <2>4
    <2>6. real \in Nat /\ real <= total
        BY <1>1, <1>2, <1>5, <2>2, <2>3
    <2>7. Behind(new, total, thread)
        BY <1>2, <2>4, <2>5, <2>6 DEF Behind
    <2>8. Follows(new, total, thread)
        BY <1>2, <2>4, <2>5, <2>7 DEF Follows
    <2> QED BY <1>2, <2>4, <2>8 DEF s
<1> QED BY <1>4, <1>5

(* Two counters that the invariant does not tell apart.                    *)
SameCounter(c, new) ==
    /\ new.state = c.state
    /\ GetLastValue(new.history) = GetLastValue(c.history)
    /\ (new.history = << >> <=> c.history = << >>)

(* Only the last value and the bases of a counter matter to how far it is
   behind. *)
LEMMA SameKeepsUp ==
    ASSUME NEW c, NEW new, SameCounter(c, new), NEW total, NEW thread
    PROVE  /\ Follows(c, total, thread) => Follows(new, total, thread)
           /\ CaughtUp(c, total) => CaughtUp(new, total)
           /\ \A value : BasedOn(c, total, value) => BasedOn(new, total, value)
<1>1. Behind(c, total, thread) => Behind(new, total, thread)
    BY DEF Behind, SameCounter
<1>2. Follows(c, total, thread) => Follows(new, total, thread)
    BY <1>1 DEF Follows, SameCounter
<1>3. CaughtUp(c, total) => CaughtUp(new, total)
    BY DEF CaughtUp, SameCounter
<1>4. \A value : BasedOn(c, total, value) => BasedOn(new, total, value)
    BY DEF BasedOn, SameCounter
<1> QED BY <1>2, <1>3, <1>4

(* A thread that a step does not concern.                                  *)
LEMMA UntouchedKeepsUp ==
    ASSUME NEW tid, KeepsUp(tid), SameCounter(counters[tid], counters'[tid]),
           counted'[tid] = counted[tid], threadCount'[tid] = threadCount[tid],
           \A cpu \in Cpus : running'[cpu] = tid <=> running[cpu] = tid,
           \A cpu \in Cpus : running[cpu] = tid => cpuCount'[cpu] = cpuCount[cpu]
    PROVE  KeepsUp(tid)'
<1> DEFINE total == counted[tid]
           thread == threadCount[tid]
<1>1. /\ Follows(counters[tid], total, thread)
      /\ ~IsRunning(tid) => CaughtUp(counters[tid], total)
      /\ \A cpu \in Cpus : running[cpu] = tid =>
            BasedOn(counters[tid], total, cpuCount[cpu])
    BY DEF KeepsUp
<1>2. /\ Follows(counters[tid], total, thread) => Follows(counters'[tid], total, thread)
      /\ CaughtUp(counters[tid], total) => CaughtUp(counters'[tid], total)
      /\ \A value : BasedOn(counters[tid], total, value) =>
                    BasedOn(counters'[tid], total, value)
    <2>1. \A c, new : SameCounter(c, new) =>
             /\ Follows(c, total, thread) => Follows(new, total, thread)
             /\ CaughtUp(c, total) => CaughtUp(new, total)
             /\ \A value : BasedOn(c, total, value) => BasedOn(new, total, value)
        BY SameKeepsUp
    <2> QED BY <2>1
<1>3. IsRunning(tid)' <=> IsRunning(tid)
    BY DEF IsRunning
<1>4. \A cpu \in Cpus : running'[cpu] = tid => BasedOn(counters'[tid], total, cpuCount'[cpu])
    BY <1>1, <1>2
<1> QED BY <1>1, <1>2, <1>3, <1>4 DEF KeepsUp

(* The counters keep up initially, and after every step: one lemma for
   each action. *)
LEMMA InitKeepsUp == Init => CountersKeepUp
<1> SUFFICES ASSUME Init, NEW tid \in Threads PROVE KeepsUp(tid)
    BY DEF CountersKeepUp
<1>1. /\ counters[tid] = NewCounter /\ counted[tid] = 0 /\ threadCount[tid] = 0
    BY DEF Init, Tids
<1>2. /\ NewCounter.history = << >> /\ NewCounter.state = InvalidState
      /\ InvalidState.cpuAbsolute = kInvalid /\ InvalidState.threadAbsolute = kInvalid
      /\ GetLastValue(NewCounter.history) = 0
    BY DEF NewCounter, InvalidState, GetLastValue
<1>3. Follows(NewCounter, 0, 0) /\ CaughtUp(NewCounter, 0)
    BY <1>2 DEF Follows, Behind, CaughtUp
<1>4. \A value : BasedOn(NewCounter, 0, value)
    BY <1>2 DEF BasedOn
<1> QED BY <1>1, <1>3, <1>4 DEF KeepsUp

(* The facts about one thread that the steps need.                         *)
LEMMA ThreadTyped ==
    ASSUME IInv, NEW tid \in Threads
    PROVE  /\ tid \in Tids /\ tid # IdleThread
           /\ counters[tid] \in CounterRecords
           /\ IsHistory(counters[tid].history, ULongs, now) /\ now \in Nat
           /\ counted[tid] \in Nat /\ threadCount[tid] \in Nat
           /\ threadCount[tid] < kInvalid /\ threadCount[tid] \in ULongs
           /\ \A cpu \in Cpus : cpuCount[cpu] \in Nat /\ cpuCount[cpu] < kInvalid
                                /\ cpuCount[cpu] \in ULongs
           /\ \A c1, c2 \in Cpus : running[c1] = tid /\ running[c2] = tid => c1 = c2
<1>1. tid \in Tids /\ tid # IdleThread
    BY IdleAssumption DEF Tids
<1>2. MachineOK
    BY DEF IInv
<1>3. counted[tid] \in Nat /\ threadCount[tid] \in 0..MaxCount
      /\ \A cpu \in Cpus : cpuCount[cpu] \in 0..MaxCount
      /\ \A c1, c2 \in Cpus : running[c1] = tid /\ running[c2] = tid => c1 = c2
    BY <1>1, <1>2 DEF MachineOK
<1>4. \A value \in 0..MaxCount : value \in Nat /\ value < kInvalid /\ value \in ULongs
    BY HardwareCount
<1> QED BY <1>1, <1>3, <1>4, Typed

(* A wake-up tells the value of a CPU for the thread that runs on it. *)
LEMMA WakeUpKeepsUp ==
    ASSUME IInv, CountersKeepUp, NEW cpu \in Cpus, OnTTWUEvent(cpu)
    PROVE  CountersKeepUp'
<1> SUFFICES ASSUME NEW tid \in Threads PROVE KeepsUp(tid)'
    BY DEF CountersKeepUp
<1>1. KeepsUp(tid)
    BY DEF CountersKeepUp
<1>2. /\ tid \in Tids /\ counters \in [Tids -> CounterRecords]
      /\ running[cpu] \in Tids
    BY ThreadTyped DEF IInv, CountersOK, MachineOK
<1>3. /\ counters' = [counters EXCEPT ![running[cpu]] =
                         SetPerfCounterCpuValue(counters[running[cpu]], now, cpuCount[cpu])]
      /\ UNCHANGED <<running, cpuCount, threadCount, counted>>
    BY DEF OnTTWUEvent, machineVars
<1>4. CASE running[cpu] = tid
    <2> DEFINE new == counters'[tid]
    <2>1. new = SetPerfCounterCpuValue(counters[tid], now, cpuCount[cpu])
        BY <1>2, <1>3, <1>4
    <2>2. /\ Follows(counters[tid], counted[tid], threadCount[tid])
          /\ BasedOn(counters[tid], counted[tid], cpuCount[cpu])
        BY <1>1, <1>4 DEF KeepsUp
    <2> HIDE DEF new
    <2>3. /\ Follows(new, counted[tid], threadCount[tid])
          /\ BasedOn(new, counted[tid], cpuCount[cpu]) /\ CaughtUp(new, counted[tid])
        BY <2>1, <2>2, ThreadTyped, CpuValueFollows
    <2>4. \A c \in Cpus : running[c] = tid => c = cpu
        BY <1>4, ThreadTyped
    <2> QED BY <1>3, <2>3, <2>4 DEF KeepsUp, new
<1>5. CASE running[cpu] # tid
    <2>1. counters'[tid] = counters[tid]
        BY <1>2, <1>3, <1>5
    <2>2. SameCounter(counters[tid], counters'[tid])
        BY <2>1 DEF SameCounter
    <2> QED BY <1>1, <1>3, <2>2, UntouchedKeepsUp
<1> QED BY <1>4, <1>5

(* A switch catches the old thread up, and gives the new one its base. *)
LEMMA SwitchKeepsUp ==
    ASSUME IInv, CountersKeepUp, NEW cpu \in Cpus, NEW next \in Tids,
           next = IdleThread \/ ~IsRunning(next), OnSchedSwitchEvent(cpu, next)
    PROVE  CountersKeepUp'
<1> SUFFICES ASSUME NEW tid \in Threads PROVE KeepsUp(tid)'
    BY DEF CountersKeepUp
<1>1. KeepsUp(tid)
    BY DEF CountersKeepUp
<1> DEFINE prev == running[cpu]
           c == SetPerfCounterCpuValue(counters[prev], now, cpuCount[cpu])
           d == SetPerfCounterCpuBaseValue(counters[next], now, cpuCount[cpu])
           new == counters'[tid]
<1>2. /\ tid \in Tids /\ tid # IdleThread /\ counters \in [Tids -> CounterRecords]
      /\ prev \in Tids /\ running \in [Cpus -> Tids]
    BY ThreadTyped DEF IInv, CountersOK, MachineOK
<1>3. prev # next /\ running' = [running EXCEPT ![cpu] = next]
      /\ UNCHANGED <<cpuCount, threadCount, counted>>
    BY DEF OnSchedSwitchEvent
<1>4. counters' = [counters EXCEPT ![prev] = c, ![next] = d]
    BY <1>2, <1>3 DEF OnSchedSwitchEvent
<1>5. \A x \in Cpus : running'[x] = IF x = cpu THEN next ELSE running[x]
    BY <1>2, <1>3
<1>6. /\ Follows(counters[tid], counted[tid], threadCount[tid])
      /\ ~IsRunning(tid) => CaughtUp(counters[tid], counted[tid])
      /\ \A x \in Cpus : running[x] = tid =>
            BasedOn(counters[tid], counted[tid], cpuCount[x])
    BY <1>1 DEF KeepsUp
<1>7. CASE tid = prev
    <2>1. new = SetPerfCounterCpuValue(counters[tid], now, cpuCount[cpu])
        <3> HIDE DEF c, d, prev
        <3>1. new = c
            BY <1>2, <1>3, <1>4, <1>7
        <3> QED BY <1>7, <3>1 DEF c
    <2>2. BasedOn(counters[tid], counted[tid], cpuCount[cpu])
        BY <1>6, <1>7
    <2> HIDE DEF new
    <2>3. /\ Follows(new, counted[tid], threadCount[tid])
          /\ BasedOn(new, counted[tid], cpuCount[cpu]) /\ CaughtUp(new, counted[tid])
        BY <1>6, <2>1, <2>2, ThreadTyped, CpuValueFollows
    <2>4. \A x \in Cpus : running'[x] # tid
        <3>1. \A x \in Cpus : running[x] = tid => x = cpu
            BY <1>7, ThreadTyped
        <3> QED BY <1>3, <1>5, <1>7, <3>1
    <2> QED BY <1>3, <2>3, <2>4 DEF KeepsUp, new
<1>8. CASE tid = next
    <2>1. new = SetPerfCounterCpuBaseValue(counters[tid], now, cpuCount[cpu])
        <3> HIDE DEF c, d, prev
        <3>1. new = d
            BY <1>2, <1>3, <1>4, <1>8
        <3> QED BY <1>8, <3>1 DEF d
    <2>2. ~IsRunning(tid) /\ CaughtUp(counters[tid], counted[tid])
        BY <1>2, <1>6, <1>8
    <2> HIDE DEF new
    <2>3. /\ Follows(new, counted[tid], threadCount[tid])
          /\ BasedOn(new, counted[tid], cpuCount[cpu]) /\ CaughtUp(new, counted[tid])
        BY <1>6, <2>1, <2>2, ThreadTyped, BaseFollows
    <2>4. \A x \in Cpus : running'[x] = tid => x = cpu
        BY <1>5, <2>2 DEF IsRunning
    <2> QED BY <1>3, <2>3, <2>4 DEF KeepsUp, new
<1>9. CASE tid # prev /\ tid # next
    <2>1. counters'[tid] = counters[tid]
        <3> HIDE DEF c, d, prev
        <3> QED BY <1>2, <1>4, <1>9
    <2>2. SameCounter(counters[tid], counters'[tid])
        BY <2>1 DEF SameCounter
    <2>3. \A x \in Cpus : running'[x] = tid <=> running[x] = tid
        BY <1>5, <1>9
    <2> QED BY <1>1, <1>3, <2>2, <2>3, UntouchedKeepsUp
<1> QED BY <1>7, <1>8, <1>9

(* A userspace event tells the value of its thread, ... *)
LEMMA UstKeepsUp ==
    ASSUME IInv, CountersKeepUp, NEW ust \in UstThreads, IsRunning(ust), OnUstEvent(ust)
    PROVE  CountersKeepUp'
<1> SUFFICES ASSUME NEW tid \in Threads PROVE KeepsUp(tid)'
    BY DEF CountersKeepUp
<1>1. KeepsUp(tid)
    BY DEF CountersKeepUp
<1>2. tid \in Tids /\ ust \in Tids /\ counters \in [Tids -> CounterRecords]
    BY ThreadTyped, SubsetAssumption DEF IInv, CountersOK, Tids
<1>3. /\ counters' = [counters EXCEPT ![ust] =
                         SetPerfCounterThreadValue(counters[ust], now, threadCount[ust])]
      /\ UNCHANGED <<running, cpuCount, threadCount, counted>>
    BY DEF OnUstEvent, machineVars
<1>4. CASE tid = ust
    <2> DEFINE new == counters'[tid]
    <2>1. new = SetPerfCounterThreadValue(counters[tid], now, threadCount[tid])
        BY <1>2, <1>3, <1>4
    <2>2. /\ Follows(counters[tid], counted[tid], threadCount[tid])
          /\ \A x \in Cpus : running[x] = tid =>
                BasedOn(counters[tid], counted[tid], cpuCount[x])
        BY <1>1 DEF KeepsUp
    <2> HIDE DEF new
    <2>3. /\ Follows(new, counted[tid], threadCount[tid])
          /\ new.state.threadAbsolute # kInvalid
          /\ new.state.cpuAbsolute = counters[tid].state.cpuAbsolute
          /\ new.state.cpuReal = counters[tid].state.cpuReal
        BY <2>1, <2>2, ThreadTyped, ThreadValueFollows
    <2>4. CaughtUp(new, counted[tid])
        BY <2>3 DEF CaughtUp
    <2>5. \A x \in Cpus : running[x] = tid => BasedOn(new, counted[tid], cpuCount[x])
        BY <2>2, <2>3 DEF BasedOn
    <2> QED BY <1>3, <2>3, <2>4, <2>5 DEF KeepsUp, new
<1>5. CASE tid # ust
    <2>1. counters'[tid] = counters[tid]
        BY <1>2, <1>3, <1>5
    <2>2. SameCounter(counters[tid], counters'[tid])
        BY <2>1 DEF SameCounter
    <2> QED BY <1>1, <1>3, <2>2, UntouchedKeepsUp
<1> QED BY <1>4, <1>5

(* The hardware counts one more for a thread that has a history.           *)
LEMMA OneMoreFollows ==
    ASSUME NEW n, NEW c \in CounterRecords, IsHistory(c.history, ULongs, n),
           NEW total \in Nat, NEW thread \in Nat, Follows(c, total, thread),
           c.history # << >>, NEW value \in Nat, BasedOn(c, total, value),
           NEW total1, total1 = total + 1, NEW thread1, thread1 = thread + 1,
           NEW value1, value1 = value + 1
    PROVE  Follows(c, total1, thread1) /\ BasedOn(c, total1, value1)
<1>1. /\ c.state.cpuAbsolute \in Nat /\ c.state.cpuReal \in Nat
      /\ c.state.threadAbsolute \in Nat /\ c.state.threadReal \in Nat
      /\ GetLastValue(c.history) \in Nat
    BY CounterFields
<1>2. Behind(c, total, thread)
    BY DEF Follows
<1>3. Behind(c, total1, thread1)
    BY <1>1, <1>2, SMTT(30) DEF Behind
<1>4. Follows(c, total1, thread1)
    BY <1>3 DEF Follows
<1>5. BasedOn(c, total1, value1)
    <2> DEFINE from == c.state.cpuAbsolute
               real == c.state.cpuReal
    <2>1. from \in Nat /\ real \in Nat
        BY <1>1
    <2>2. from # kInvalid => from <= value /\ real + (value - from) <= total
        BY DEF BasedOn
    <2>3. from # kInvalid /\ c.state.threadAbsolute = kInvalid => real + (value - from) = total
        BY DEF BasedOn
    <2> HIDE DEF from, real
    <2>4. ASSUME from # kInvalid PROVE from <= value1 /\ real + (value1 - from) <= total1
        BY <2>1, <2>2, <2>4
    <2>5. ASSUME from # kInvalid, c.state.threadAbsolute = kInvalid
          PROVE  real + (value1 - from) = total1
        <3>1. real + (value - from) = total /\ from <= value
            BY <2>2, <2>3, <2>5
        <3> QED BY <2>1, <3>1
    <2> QED BY <2>4, <2>5 DEF BasedOn, from, real
<1> QED BY <1>4, <1>5

(* Before a thread has a history nothing is counted for it.                *)
LEMMA NothingFollows ==
    ASSUME NEW c \in CounterRecords, NEW total \in Nat, NEW thread \in Nat,
           Follows(c, total, thread), c.history = << >>,
           NEW thread1, thread1 = thread + 1
    PROVE  Follows(c, total, thread1) /\ \A value : BasedOn(c, total, value)
<1>1. c.state.cpuAbsolute = kInvalid /\ c.state.threadAbsolute = kInvalid
    BY DEF Follows, InvalidState
<1>2. GetLastValue(c.history) = 0 /\ total = 0
    BY DEF GetLastValue, Follows
<1>3. Behind(c, total, thread1)
    BY <1>1, <1>2 DEF Behind
<1>4. Follows(c, total, thread1)
    BY <1>3 DEF Follows
<1> QED BY <1>1, <1>4 DEF BasedOn

(* ... a machine that counts gets ahead, ... *)
LEMMA CountKeepsUp ==
    ASSUME IInv, CountersKeepUp, NEW cpu \in Cpus, Count(cpu)
    PROVE  CountersKeepUp'
<1> SUFFICES ASSUME NEW tid \in Threads PROVE KeepsUp(tid)'
    BY DEF CountersKeepUp
<1>1. KeepsUp(tid)
    BY DEF CountersKeepUp
<1>2. MachineOK
    BY DEF IInv
<1>3. /\ cpuCount' = [cpuCount EXCEPT ![cpu] = @ + 1]
      /\ running' = running /\ counters' = counters
      /\ running[cpu] = IdleThread => UNCHANGED <<threadCount, counted>>
      /\ running[cpu] # IdleThread =>
            /\ threadCount' = [threadCount EXCEPT ![running[cpu]] = @ + 1]
            /\ counted' = IF counters[running[cpu]].history = << >> THEN counted
                          ELSE [counted EXCEPT ![running[cpu]] = @ + 1]
    BY DEF Count, historyVars
<1>4. /\ \A x \in Cpus : x # cpu => cpuCount'[x] = cpuCount[x]
      /\ cpuCount'[cpu] = cpuCount[cpu] + 1
    BY <1>2, <1>3 DEF MachineOK
<1>5. CASE running[cpu] = tid
    <2>1. tid # IdleThread /\ \A x \in Cpus : running[x] = tid => x = cpu
        BY <1>5, ThreadTyped
    <2>2. /\ threadCount'[tid] = threadCount[tid] + 1
          /\ counters[tid].history = << >> => counted'[tid] = counted[tid]
          /\ counters[tid].history # << >> => counted'[tid] = counted[tid] + 1
        BY <1>2, <1>3, <1>5, <2>1 DEF MachineOK
    <2>3. /\ Follows(counters[tid], counted[tid], threadCount[tid])
          /\ BasedOn(counters[tid], counted[tid], cpuCount[cpu])
        BY <1>1, <1>5 DEF KeepsUp
    <2>4. IsRunning(tid)'
        BY <1>3, <1>5 DEF IsRunning
    <2>5. /\ Follows(counters[tid], counted'[tid], threadCount'[tid])
          /\ BasedOn(counters[tid], counted'[tid], cpuCount'[cpu])
        <3>1. CASE counters[tid].history = << >>
            BY <2>2, <2>3, <3>1, ThreadTyped, NothingFollows
        <3>2. CASE counters[tid].history # << >>
            BY <1>4, <2>2, <2>3, <3>2, ThreadTyped, OneMoreFollows
        <3> QED BY <3>1, <3>2
    <2> QED BY <1>3, <2>1, <2>4, <2>5 DEF KeepsUp
<1>6. CASE running[cpu] # tid
    <2>1. counted'[tid] = counted[tid] /\ threadCount'[tid] = threadCount[tid]
        <3>1. CASE running[cpu] = IdleThread
            BY <1>3, <3>1
        <3>2. CASE running[cpu] # IdleThread
            BY <1>2, <1>3, <1>6, <3>2 DEF MachineOK
        <3> QED BY <3>1, <3>2
    <2>2. SameCounter(counters[tid], counters'[tid])
        BY <1>3 DEF SameCounter
    <2>3. \A x \in Cpus : running[x] = tid => cpuCount'[x] = cpuCount[x]
        BY <1>4, <1>6
    <2> QED BY <1>1, <1>3, <2>1, <2>2, <2>3, UntouchedKeepsUp
<1> QED BY <1>5, <1>6

(* ... and a cleanup leaves the last value, and so the bases. *)
LEMMA TimestampKeepsUp ==
    ASSUME IInv, CountersKeepUp, NEW ts \in 1..MaxTs, OnTimestamp(ts)
    PROVE  CountersKeepUp'
<1> SUFFICES ASSUME NEW tid \in Threads PROVE KeepsUp(tid)'
    BY DEF CountersKeepUp
<1>1. KeepsUp(tid) /\ tid \in Tids
    BY ThreadTyped DEF CountersKeepUp
<1>2. /\ counters'[tid].state = counters[tid].state
      /\ Cleaned(counters[tid].history, counters'[tid].history,
                 ULongs, ts, saveTs, SaveIsDue(ts))
    BY <1>1, TimestampCleans
<1>3. SameCounter(counters[tid], counters'[tid])
    BY <1>2 DEF SameCounter, Cleaned
<1>4. UNCHANGED <<running, cpuCount, threadCount, counted>>
    BY DEF OnTimestamp, machineVars
<1> QED BY <1>1, <1>3, <1>4, UntouchedKeepsUp

(* As long as every tid stands for one thread, no step makes a counter     *)
(* lose track of its thread.                                               *)
LEMMA StepKeepsUp ==
    ASSUME ReusedTids = {}, IInv, CountersKeepUp, [Next]_vars
    PROVE  CountersKeepUp'
<1>1. ASSUME UNCHANGED <<counters, running, cpuCount, threadCount, counted>>
      PROVE  CountersKeepUp'
    <2>1. \A tid \in Threads : SameCounter(counters[tid], counters'[tid])
        BY <1>1 DEF SameCounter
    <2> QED BY <1>1, <2>1, UntouchedKeepsUp DEF CountersKeepUp
<1>2. ASSUME NEW key \in StateKeys, NEW v \in StateValues, OnState(key, v)
      PROVE  CountersKeepUp'
    BY <1>1, <1>2 DEF OnState
<1>3. CASE CounterEvent
    BY <1>3, WakeUpKeepsUp, SwitchKeepsUp, UstKeepsUp DEF CounterEvent
<1>4. CASE MachineStep
    BY <1>4, CountKeepsUp DEF MachineStep
<1>5. CASE UNCHANGED vars
    BY <1>1, <1>5 DEF vars, historyVars, machineVars
<1> QED BY <1>2, <1>3, <1>4, <1>5, TimestampKeepsUp, Kinds

(* If no tid is reused, the counters keep up in every state. *)
LEMMA AlwaysKeepsUp ==
    ASSUME ReusedTids = {}
    PROVE  Spec => []CountersKeepUp
<1>1. IInv /\ CountersKeepUp /\ [Next]_vars => CountersKeepUp'
    BY StepKeepsUp
<1> QED BY InitKeepsUp, <1>1, StateBlocksInvariant, PTL DEF Spec

(* Where the machine reuses no tid, the counter of a thread never runs     *)
(* ahead of what was counted for it, however scheduler events of any       *)
(* number of CPUs and userspace events are mixed, and as long as they      *)
(* count (StateHistory.cpp:179-248).  With reused tids the minimum of the  *)
(* thread itself does: the run ReusedTid shows how.                        *)
THEOREM CountersNeverAhead ==
    ASSUME ReusedTids = {}
    PROVE  Spec => []NeverAhead
<1>1. CountersKeepUp => NeverAhead
    BY DEF CountersKeepUp, KeepsUp, Follows, Behind, NeverAhead, Recorded
<1> QED BY <1>1, AlwaysKeepsUp, PTL

(* Nor behind, when the thread has left its CPU and only the scheduler     *)
(* tells of it.                                                            *)
THEOREM CountersExactOffCpu ==
    ASSUME ReusedTids = {}
    PROVE  Spec => []ExactOffCpu
<1>1. CountersKeepUp => ExactOffCpu
    BY DEF CountersKeepUp, KeepsUp, CaughtUp, ExactOffCpu, Recorded
<1> QED BY <1>1, AlwaysKeepsUp, PTL
=============================================================================
