--------------------------- MODULE DataInduction ----------------------------
(***************************************************************************)
(* Induction over natural numbers, for a set in the place of a predicate,  *)
(* and what Max, FoldSet, FlattenSeq and SetToSeq of the community modules *)
(* compute.                                                                *)
(***************************************************************************)
EXTENDS Integers, Sequences, SequencesExt, SequenceTheorems, FiniteSetTheorems,
        WellFoundedInduction, TLAPS

(* A set that has 0, and n + 1 with every n, has all natural numbers.      *)
LEMMA SetInduction ==
    ASSUME NEW S, 0 \in S, \A n \in Nat : n \in S => n + 1 \in S
    PROVE  Nat \subseteq S
<1> DEFINE R == OpToRel(<, Nat)
           T == {n \in Nat : n \notin S}
<1> SUFFICES ASSUME T # {} PROVE FALSE
    OBVIOUS
<1>1. IsWellFoundedOn(R, Nat)
    BY NatLessThanWellFounded
<1>2. PICK x \in T : \A y \in T : <<y, x>> \notin R
    <2> HIDE DEF R
    <2> QED BY <1>1, WFMin
<1>3. x \in Nat /\ x - 1 \in Nat /\ x - 1 \in T
    OBVIOUS
<1>4. <<x - 1, x>> \in R
    BY <1>3 DEF OpToRel
<1> QED BY <1>2, <1>3, <1>4

(* A set of numbers below a bound has a greatest element, and CHOOSE finds *)
(* it.                                                                     *)
LEMMA MaxBelow ==
  ASSUME NEW b \in Nat, NEW S \in SUBSET (0..b), S # {}
  PROVE  /\ Max(S) \in S
         /\ \A y \in S : y <= Max(S)
<1> DEFINE T == {b - x : x \in S}
<1>0. S \subseteq 0..b /\ \E x \in S : x \in S
  OBVIOUS
<1>1. T \subseteq Nat /\ T # {}
  <2>1. ASSUME NEW x \in S PROVE b - x \in Nat /\ b - x \in T
    BY <1>0
  <2>2. QED
    BY <1>0, <2>1
<1>2. PICK z \in T : \A y \in T : ~(<<y, z>> \in OpToRel(<, Nat))
  <2> HIDE DEF T
  <2>1. QED
    BY <1>1, NatLessThanWellFounded, WFMin
<1>3. PICK m \in S : z = b - m
  OBVIOUS
<1>4. ASSUME NEW y \in S PROVE y <= m
  <2>1. b - y \in T /\ b - y \in Nat /\ z \in Nat
    BY <1>1
  <2>2. ~(b - y < z)
    BY <1>2, <2>1 DEF OpToRel
  <2>3. QED
    BY <1>3, <2>1, <2>2
<1>5. \E x \in S : \A y \in S : x >= y
  BY <1>4
<1>6. QED
  BY <1>5 DEF Max

(* A set of numbers has a least element, and CHOOSE finds it.              *)
LEMMA MinOfNat ==
    ASSUME NEW S \in SUBSET Nat, S # {}
    PROVE  Min(S) \in S /\ \A y \in S : Min(S) <= y
<1>1. PICK x \in S : \A y \in S : ~(<<y, x>> \in OpToRel(<, Nat))
    BY NatLessThanWellFounded, WFMin
<1>2. ASSUME NEW y \in S PROVE x <= y
    <2>1. ~(y < x) /\ x \in Nat /\ y \in Nat
        BY <1>1 DEF OpToRel
    <2> QED BY <2>1
<1>3. \E m \in S : \A y \in S : m <= y
    BY <1>2
<1> QED BY <1>3 DEF Min

----------------------------------------------------------------------------
(* The function that FlattenSeq is defined by, up to n.                    *)
Extend(before, seqs, i) == IF i = 1 THEN seqs[i] ELSE before \o seqs[i]

(* f[n] is what the first n sequences make when joined. *)
IsFlattening(f, seqs, n) == f = [i \in 1..n |-> Extend(f[i - 1], seqs, i)]

(* It exists, ...                                                          *)
LEMMA FlatteningExists ==
    ASSUME NEW seqs, NEW n \in Nat
    PROVE  \E f : IsFlattening(f, seqs, n)
<1> DEFINE S == {m \in Nat : \E f : IsFlattening(f, seqs, m)}
<1>1. 0 \in S
    <2> DEFINE f == [i \in 1..0 |-> i]
    <2>1. f = [i \in 1..0 |-> Extend(f[i - 1], seqs, i)]
        OBVIOUS
    <2> HIDE DEF f
    <2> QED BY <2>1 DEF IsFlattening
<1>2. ASSUME NEW m \in Nat, m \in S PROVE m + 1 \in S
    <2>1. PICK f : IsFlattening(f, seqs, m)
        BY <1>2
    <2> DEFINE g == [i \in 1..(m + 1) |-> IF i <= m THEN f[i] ELSE Extend(f[i - 1], seqs, i)]
    <2>2. \A i \in 1..m : f[i] = Extend(f[i - 1], seqs, i)
        BY <2>1, Zenon DEF IsFlattening
    <2>3. \A i \in 1..(m + 1) : g[i] = Extend(g[i - 1], seqs, i)
        <3> TAKE i \in 1..(m + 1)
        <3>1. CASE i = 1
            BY <3>1, <2>2 DEF Extend
        <3>2. CASE i # 1
            <4>1. i - 1 \in 1..m /\ g[i - 1] = f[i - 1]
                BY <3>2
            <4>2. g[i] = Extend(f[i - 1], seqs, i)
                BY <2>2
            <4> QED BY <4>1, <4>2
        <3> QED BY <3>1, <3>2
    <2>4. g = [i \in 1..(m + 1) |-> Extend(g[i - 1], seqs, i)]
        <3>1. g = [i \in 1..(m + 1) |-> g[i]]
            OBVIOUS
        <3> HIDE DEF g
        <3> QED BY <3>1, <2>3, Zenon
    <2> HIDE DEF g
    <2>5. IsFlattening(g, seqs, m + 1)
        BY <2>4 DEF IsFlattening
    <2> QED BY <2>5
<1> HIDE DEF S
<1>3. n \in S
    BY <1>1, <1>2, SetInduction
<1> QED BY <1>3 DEF S

(* ... and there is one only.                                              *)
LEMMA FlatteningUnique ==
    ASSUME NEW seqs, NEW n \in Nat, NEW m \in 0..n, NEW f, NEW g,
           IsFlattening(f, seqs, n), IsFlattening(g, seqs, m)
    PROVE  \A i \in 1..m : f[i] = g[i]
<1> DEFINE S == {i \in Nat : i \in 1..m => f[i] = g[i]}
<1>1. /\ \A i \in 1..n : f[i] = Extend(f[i - 1], seqs, i)
      /\ \A i \in 1..m : g[i] = Extend(g[i - 1], seqs, i)
    BY Zenon DEF IsFlattening
<1>2. 0 \in S
    OBVIOUS
<1>3. ASSUME NEW i \in Nat, i \in S PROVE i + 1 \in S
    <2> SUFFICES ASSUME i + 1 \in 1..m PROVE f[i + 1] = g[i + 1]
        OBVIOUS
    <2>1. /\ f[i + 1] = Extend(f[i], seqs, i + 1)
          /\ g[i + 1] = Extend(g[i], seqs, i + 1)
        BY <1>1
    <2>2. CASE i = 0
        BY <2>1, <2>2 DEF Extend
    <2>3. CASE i # 0
        BY <2>1, <2>3, <1>3
    <2> QED BY <2>2, <2>3
<1>4. Nat \subseteq S
    <2> HIDE DEF S
    <2> QED BY <1>2, <1>3, SetInduction
<1> QED BY <1>4

(* FlattenSeq takes its value at the end.                                  *)
LEMMA FlattenSeqIsFlattening ==
    ASSUME NEW T, NEW seqs \in Seq(T), NEW f, IsFlattening(f, seqs, Len(seqs)), Len(seqs) # 0
    PROVE  FlattenSeq(seqs) = f[Len(seqs)]
<1> DEFINE g == CHOOSE g : IsFlattening(g, seqs, Len(seqs))
<1>1. Len(seqs) \in Nat
    BY LenProperties
<1>2. IsFlattening(g, seqs, Len(seqs))
    BY Zenon
<1>3. FlattenSeq(seqs) = g[Len(seqs)]
    BY Zenon DEF FlattenSeq, IsFlattening, Extend
<1> HIDE DEF g
<1>4. Len(seqs) \in 0..Len(seqs) /\ Len(seqs) \in 1..Len(seqs)
    BY <1>1
<1> QED BY <1>1, <1>2, <1>3, <1>4, FlatteningUnique

(* FlattenSeq of nothing, ...                                              *)
LEMMA FlattenSeqEmpty ==
    FlattenSeq(<< >>) = << >>
BY DEF FlattenSeq

(* ... of one sequence more at the end, ...                                *)
LEMMA FlattenSeqAppend ==
    ASSUME NEW T, NEW seqs \in Seq(Seq(T)), NEW x \in Seq(T)
    PROVE  FlattenSeq(Append(seqs, x)) = FlattenSeq(seqs) \o x
<1> DEFINE more == Append(seqs, x)
           n    == Len(seqs)
<1>1. /\ more \in Seq(Seq(T)) /\ Len(more) = n + 1 /\ n \in Nat
      /\ \A i \in 1..n : more[i] = seqs[i]
      /\ more[n + 1] = x
    BY AppendProperties
<1>7. n + 1 \in Nat /\ n \in 0..(n + 1)
    BY <1>1
<1> HIDE DEF more, n
<1>2. PICK f : IsFlattening(f, more, n + 1)
    BY <1>7, FlatteningExists
<1>3. FlattenSeq(more) = f[n + 1]
    <2>1. Len(more) # 0
        BY <1>1
    <2> QED BY <1>1, <1>2, <2>1, FlattenSeqIsFlattening
<1>4. f[n + 1] = Extend(f[n], more, n + 1)
    <2>1. n + 1 \in 1..(n + 1) /\ (n + 1) - 1 = n
        BY <1>1
    <2>2. f[n + 1] = Extend(f[(n + 1) - 1], more, n + 1)
        BY <1>2, <2>1, Zenon DEF IsFlattening
    <2> QED BY <2>1, <2>2
<1>5. CASE n = 0
    <2>1. seqs = << >> /\ FlattenSeq(seqs) = << >>
        BY <1>5, EmptySeq, FlattenSeqEmpty DEF n
    <2>2. FlattenSeq(more) = x
        BY <1>1, <1>3, <1>4, <1>5 DEF Extend
    <2>3. << >> \o x = x
        BY ConcatEmptySeq
    <2> QED BY <2>1, <2>2, <2>3 DEF more
<1>6. CASE n # 0
    <2>1. PICK g : IsFlattening(g, seqs, n)
        BY <1>1, FlatteningExists
    <2>2. FlattenSeq(seqs) = g[n]
        BY <1>6, <2>1, FlattenSeqIsFlattening DEF n
    <2>3. IsFlattening(g, more, n)
        <3>1. \A i \in 1..n : Extend(g[i - 1], seqs, i) = Extend(g[i - 1], more, i)
            BY <1>1, Zenon DEF Extend
        <3> QED BY <2>1, <3>1, Zenon DEF IsFlattening
    <2>4. f[n] = g[n]
        <3>1. n \in 1..n
            BY <1>1, <1>6
        <3>2. \A i \in 1..n : f[i] = g[i]
            BY <1>7, <1>2, <2>3, FlatteningUnique
        <3> QED BY <3>1, <3>2
    <2>5. Extend(f[n], more, n + 1) = f[n] \o x
        BY <1>1, <1>6, SMTT(30) DEF Extend
    <2> QED BY <1>3, <1>4, <2>2, <2>4, <2>5 DEF more
<1> QED BY <1>5, <1>6

(* ... is a sequence, ...                                                  *)
LEMMA FlattenSeqType ==
    ASSUME NEW T, NEW seqs \in Seq(Seq(T))
    PROVE  FlattenSeq(seqs) \in Seq(T)
<1> DEFINE S == {n \in Nat : \A s \in Seq(Seq(T)) : Len(s) = n => FlattenSeq(s) \in Seq(T)}
<1>1. 0 \in S
    BY FlattenSeqEmpty, EmptySeq
<1>2. ASSUME NEW n \in Nat, n \in S PROVE n + 1 \in S
    <2> SUFFICES ASSUME NEW s \in Seq(Seq(T)), Len(s) = n + 1
                 PROVE  FlattenSeq(s) \in Seq(T)
        OBVIOUS
    <2> DEFINE front == SubSeq(s, 1, n)
    <2>1. /\ front \in Seq(Seq(T)) /\ Len(front) = n
          /\ s[n + 1] \in Seq(T) /\ s = Append(front, s[n + 1])
        BY SubSeqProperties, AppendProperties, SeqEqual
    <2> HIDE DEF front
    <2>2. FlattenSeq(front) \in Seq(T)
        BY <1>2, <2>1
    <2>3. FlattenSeq(s) = FlattenSeq(front) \o s[n + 1]
        BY <2>1, FlattenSeqAppend
    <2> QED BY <2>1, <2>2, <2>3, ConcatProperties
<1>3. Nat \subseteq S
    <2> HIDE DEF S
    <2> QED BY <1>1, <1>2, SetInduction
<1> QED BY <1>3, LenProperties

(* ... and takes one more at the front likewise.                           *)
LEMMA FlattenSeqCons ==
    ASSUME NEW T, NEW seqs \in Seq(Seq(T)), NEW x \in Seq(T)
    PROVE  FlattenSeq(<<x>> \o seqs) = x \o FlattenSeq(seqs)
<1> DEFINE S == {n \in Nat : \A s \in Seq(Seq(T)) :
                     Len(s) = n => FlattenSeq(<<x>> \o s) = x \o FlattenSeq(s)}
<1>0. <<x>> \in Seq(Seq(T))
    OBVIOUS
<1>1. 0 \in S
    <2> SUFFICES ASSUME NEW s \in Seq(Seq(T)), Len(s) = 0
                 PROVE  FlattenSeq(<<x>> \o s) = x \o FlattenSeq(s)
        OBVIOUS
    <2>1. s = << >> /\ << >> \in Seq(Seq(T)) /\ << >> \in Seq(T)
        BY EmptySeq
    <2>2. <<x>> \o s = Append(<< >>, x)
        BY <2>1
    <2>3. FlattenSeq(Append(<< >>, x)) = FlattenSeq(<< >>) \o x
        BY <2>1, FlattenSeqAppend
    <2>4. << >> \o x = x /\ x \o << >> = x
        BY ConcatEmptySeq
    <2> QED BY <2>1, <2>2, <2>3, <2>4, FlattenSeqEmpty
<1>2. ASSUME NEW n \in Nat, n \in S PROVE n + 1 \in S
    <2> SUFFICES ASSUME NEW s \in Seq(Seq(T)), Len(s) = n + 1
                 PROVE  FlattenSeq(<<x>> \o s) = x \o FlattenSeq(s)
        <3>1. n + 1 \in Nat
            OBVIOUS
        <3> QED BY <3>1, Zenon
    <2> DEFINE front == SubSeq(s, 1, n)
               last  == s[n + 1]
    <2>1. /\ front \in Seq(Seq(T)) /\ Len(front) = n
          /\ last \in Seq(T) /\ s = Append(front, last)
        BY SubSeqProperties, AppendProperties, SeqEqual
    <2> HIDE DEF front, last
    <2>2. FlattenSeq(<<x>> \o front) = x \o FlattenSeq(front)
        BY <1>2, <2>1
    <2>3. <<x>> \o s = Append(<<x>> \o front, last) /\ <<x>> \o front \in Seq(Seq(T))
        <3>1. <<x>> \o front \in Seq(Seq(T)) /\ <<last>> \in Seq(Seq(T))
            BY <1>0, <2>1, ConcatProperties
        <3>2. s = front \o <<last>> /\ Append(<<x>> \o front, last) = (<<x>> \o front) \o <<last>>
            BY <2>1, <3>1, AppendIsConcat
        <3>3. (<<x>> \o front) \o <<last>> = <<x>> \o (front \o <<last>>)
            BY <1>0, <2>1, <3>1, ConcatAssociative, SMTT(30)
        <3> QED BY <3>1, <3>2, <3>3, Zenon
    <2>4. /\ FlattenSeq(<<x>> \o s) = FlattenSeq(<<x>> \o front) \o last
          /\ FlattenSeq(s) = FlattenSeq(front) \o last
        BY <2>1, <2>3, FlattenSeqAppend
    <2>5. FlattenSeq(front) \in Seq(T)
        BY <2>1, FlattenSeqType
    <2>6. (x \o FlattenSeq(front)) \o last = x \o (FlattenSeq(front) \o last)
        BY <2>1, <2>5, ConcatAssociative, SMTT(30)
    <2> QED BY <2>2, <2>4, <2>6
<1>3. Nat \subseteq S
    <2> HIDE DEF S
    <2> QED BY <1>1, <1>2, SetInduction
<1> QED BY <1>3, LenProperties

(* Of a sequence of pairs, the flat one has the pairs in their places.     *)
LEMMA FlattenSeqPairs ==
    ASSUME NEW T, NEW seqs \in Seq(Seq(T)), \A i \in 1..Len(seqs) : Len(seqs[i]) = 2
    PROVE  /\ Len(FlattenSeq(seqs)) = 2 * Len(seqs)
           /\ \A i \in 1..Len(seqs) : /\ FlattenSeq(seqs)[2 * i - 1] = seqs[i][1]
                                      /\ FlattenSeq(seqs)[2 * i] = seqs[i][2]
<1> DEFINE Placed(flat, s, n) ==
               /\ Len(flat) = 2 * n
               /\ \A i \in 1..n : flat[2 * i - 1] = s[i][1] /\ flat[2 * i] = s[i][2]
           S == {n \in Nat : \A s \in Seq(Seq(T)) :
                     Len(s) = n /\ (\A i \in 1..n : Len(s[i]) = 2)
                        => Placed(FlattenSeq(s), s, n)}
<1>1. 0 \in S
    <2> SUFFICES ASSUME NEW s \in Seq(Seq(T)), Len(s) = 0
                 PROVE  Placed(FlattenSeq(s), s, 0)
        OBVIOUS
    <2>1. s = << >> /\ FlattenSeq(s) = << >>
        BY FlattenSeqEmpty, EmptySeq
    <2> QED BY <2>1
<1>2. ASSUME NEW n \in Nat, n \in S PROVE n + 1 \in S
    <2> SUFFICES ASSUME NEW s \in Seq(Seq(T)), Len(s) = n + 1,
                        \A i \in 1..(n + 1) : Len(s[i]) = 2
                 PROVE  Placed(FlattenSeq(s), s, n + 1)
        <3>1. n + 1 \in Nat
            OBVIOUS
        <3> QED BY <3>1, Zenon
    <2> DEFINE front == SubSeq(s, 1, n)
    <2>1. /\ front \in Seq(Seq(T)) /\ Len(front) = n
          /\ s[n + 1] \in Seq(T) /\ s = Append(front, s[n + 1])
          /\ \A i \in 1..n : front[i] = s[i]
        BY SubSeqProperties, AppendProperties, SeqEqual
    <2> HIDE DEF front
    <2>2. Placed(FlattenSeq(front), front, n) /\ FlattenSeq(front) \in Seq(T)
        <3>1. \A i \in 1..n : Len(front[i]) = 2
            BY <2>1
        <3> QED BY <1>2, <2>1, <3>1, FlattenSeqType
    <2>3. FlattenSeq(s) = FlattenSeq(front) \o s[n + 1]
        BY <2>1, FlattenSeqAppend
    <2> DEFINE flat == FlattenSeq(front)
               last == s[n + 1]
    <2>4. /\ Len(flat \o last) = 2 * n + 2
          /\ \A j \in 1..(2 * n) : (flat \o last)[j] = flat[j]
          /\ (flat \o last)[2 * n + 1] = last[1] /\ (flat \o last)[2 * n + 2] = last[2]
        <3>1. Len(last) = 2 /\ last \in Seq(T) /\ flat \in Seq(T) /\ Len(flat) = 2 * n
            BY <2>1, <2>2
        <3>2. /\ Len(flat \o last) = Len(flat) + Len(last)
              /\ \A j \in 1..(Len(flat) + Len(last)) :
                    (flat \o last)[j] = IF j <= Len(flat) THEN flat[j] ELSE last[j - Len(flat)]
            BY <3>1, ConcatProperties
        <3> HIDE DEF last, flat
        <3> DEFINE both == flat \o last
        <3>3. /\ Len(both) = 2 * n + 2
              /\ \A j \in 1..(2 * n + 2) :
                    both[j] = IF j <= 2 * n THEN flat[j] ELSE last[j - 2 * n]
            BY <3>1, <3>2
        <3> HIDE DEF both
        <3>4. /\ Len(both) = 2 * n + 2
              /\ \A j \in 1..(2 * n) : both[j] = flat[j]
              /\ both[2 * n + 1] = last[1] /\ both[2 * n + 2] = last[2]
            BY <3>3
        <3> QED BY <3>4 DEF both
    <2>5. \A i \in 1..(n + 1) : /\ (flat \o last)[2 * i - 1] = s[i][1]
                              /\ (flat \o last)[2 * i] = s[i][2]
        <3> TAKE i \in 1..(n + 1)
        <3>1. CASE i = n + 1
            BY <2>4, <3>1
        <3>2. CASE i # n + 1
            <4>1. i \in 1..n /\ 2 * i - 1 \in 1..(2 * n) /\ 2 * i \in 1..(2 * n)
                BY <3>2
            <4> QED BY <2>1, <2>2, <2>4, <4>1, SMTT(30)
        <3> QED BY <3>1, <3>2
    <2> DEFINE both == flat \o last
    <2>6. Len(both) = 2 * (n + 1)
        BY <2>4
    <2>7. Placed(both, s, n + 1)
        BY <2>5, <2>6, Zenon
    <2> QED BY <2>3, <2>7
<1>3. Nat \subseteq S
    <2> HIDE DEF S
    <2> QED BY <1>1, <1>2, SetInduction
<1> QED BY <1>3, LenProperties

(* What comes after the first k of the sequences.                          *)
After(seqs, k) == FlattenSeq(SubSeq(seqs, k + 1, Len(seqs)))

(* After none of the sequences all their elements are left, after all of
   them nothing. *)
LEMMA AfterAll ==
    ASSUME NEW T, NEW seqs \in Seq(Seq(T))
    PROVE  /\ After(seqs, 0) = FlattenSeq(seqs)
           /\ After(seqs, Len(seqs)) = << >>
<1>1. SubSeq(seqs, 1, Len(seqs)) = seqs
    BY SubSeqFull
<1>2. SubSeq(seqs, Len(seqs) + 1, Len(seqs)) = << >>
    BY LenProperties, SubSeqEmpty
<1>3. 0 + 1 = 1
    OBVIOUS
<1> QED BY <1>1, <1>2, <1>3, FlattenSeqEmpty DEF After

(* What is left after some of the sequences is a sequence of the same
   elements. *)
LEMMA AfterType ==
    ASSUME NEW T, NEW seqs \in Seq(Seq(T)), NEW k \in 0..Len(seqs)
    PROVE  After(seqs, k) \in Seq(T)
<1>1. SubSeq(seqs, k + 1, Len(seqs)) \in Seq(Seq(T))
    BY SubSeqProperties
<1> QED BY <1>1, FlattenSeqType DEF After

(* What is left begins with the next sequence. *)
LEMMA AfterOne ==
    ASSUME NEW T, NEW seqs \in Seq(Seq(T)), NEW k \in 0..(Len(seqs) - 1)
    PROVE  After(seqs, k) = seqs[k + 1] \o After(seqs, k + 1)
<1>1. Len(seqs) \in Nat /\ k + 1 \in 1..Len(seqs) /\ Len(seqs) \in (k + 1)..Len(seqs)
    BY LenProperties
<1>2. SubSeq(seqs, k + 1, Len(seqs)) = <<seqs[k + 1]>> \o SubSeq(seqs, (k + 1) + 1, Len(seqs))
    BY <1>1, SubSeqRecursiveFirst
<1>3. seqs[k + 1] \in Seq(T)
    BY <1>1, ElementOfSeq
<1>4. SubSeq(seqs, (k + 1) + 1, Len(seqs)) \in Seq(Seq(T))
    BY <1>1, SubSeqProperties
<1>5. FlattenSeq(<<seqs[k + 1]>> \o SubSeq(seqs, (k + 1) + 1, Len(seqs)))
        = seqs[k + 1] \o FlattenSeq(SubSeq(seqs, (k + 1) + 1, Len(seqs)))
    BY <1>3, <1>4, FlattenSeqCons
<1> QED BY <1>2, <1>5 DEF After

----------------------------------------------------------------------------
(* SetToSeq lists each element of a finite set once.                       *)
LEMMA SetToSeqLists ==
    ASSUME NEW S, IsFiniteSet(S)
    PROVE  /\ SetToSeq(S) \in [1..Cardinality(S) -> S]
           /\ \A i, j \in 1..Cardinality(S) : SetToSeq(S)[i] = SetToSeq(S)[j] => i = j
           /\ \A x \in S : \E i \in 1..Cardinality(S) : SetToSeq(S)[i] = x
<1>1. Cardinality(S) \in Nat /\ ExistsBijection(1..Cardinality(S), S)
    BY FS_CardinalityType
<1>2. PICK f : f \in Bijection(1..Cardinality(S), S)
    BY <1>1, Zenon DEF ExistsBijection
<1>3. \E g \in [1..Cardinality(S) -> S] : IsInjective(g)
    BY <1>2, Zenon DEF Bijection, Injection
<1> DEFINE list == SetToSeq(S)
<1>4. list \in [1..Cardinality(S) -> S] /\ IsInjective(list)
    BY <1>3, Zenon DEF SetToSeq
<1> HIDE DEF list
<1>5. list \in Injection(1..Cardinality(S), S)
    BY <1>4, Zenon DEF Injection
<1>6. IsFiniteSet(1..Cardinality(S)) /\ Cardinality(1..Cardinality(S)) = Cardinality(S)
    BY <1>1, FS_Interval
<1>7. list \in Surjection(1..Cardinality(S), S)
    BY <1>5, <1>6, FS_Injection
<1>8. /\ \A i, j \in 1..Cardinality(S) : list[i] = list[j] => i = j
      /\ \A x \in S : \E i \in 1..Cardinality(S) : list[i] = x
    BY <1>4, <1>7, Zenon DEF IsInjective, Surjection
<1> QED BY <1>4, <1>8 DEF list

----------------------------------------------------------------------------
(* Sums.                                                                   *)

SumOf(calls, S) == FoldSet(LAMBDA i, sum : sum + calls[i].duration, 0, S)

(* What FoldSet computes, for every subset of S.                           *)
IsSum(sum, calls, S) ==
    sum = [s \in SUBSET S |-> IF s = {} THEN 0
                              ELSE LET x == CHOOSE x \in s : TRUE
                                   IN  sum[s \ {x}] + calls[x].duration]

(* The recursion over subsets has a solution.                              *)
LEMMA SumExists ==
    ASSUME NEW calls, NEW S, IsFiniteSet(S)
    PROVE  \E sum : IsSum(sum, calls, S)
<1> DEFINE pick(s) == CHOOSE x \in s : TRUE
           next(f) == [s \in SUBSET S |-> IF s = {} THEN 0
                                          ELSE f[s \ {pick(s)}] + calls[pick(s)].duration]
           Right(f, n) == /\ f = [s \in SUBSET S |-> f[s]]
                          /\ \A s \in SUBSET S : Cardinality(s) < n => f[s] = next(f)[s]
           T == {n \in Nat : \E f : Right(f, n)}
<1>1. \A s \in SUBSET S : /\ IsFiniteSet(s) /\ Cardinality(s) \in Nat
                          /\ Cardinality(s) <= Cardinality(S)
    BY FS_Subset, FS_CardinalityType
<1>2. ASSUME NEW s \in SUBSET S, s # {}
      PROVE  /\ pick(s) \in s /\ s \ {pick(s)} \in SUBSET S
             /\ Cardinality(s \ {pick(s)}) = Cardinality(s) - 1
    <2>1. pick(s) \in s
        BY <1>2
    <2> HIDE DEF pick
    <2> QED BY <1>1, <2>1, FS_RemoveElement
<1>3. 0 \in T
    <2>1. Right([s \in SUBSET S |-> 0], 0)
        BY <1>1
    <2> QED BY <2>1
<1>4. ASSUME NEW n \in Nat, n \in T PROVE n + 1 \in T
    <2>1. PICK f : Right(f, n)
        BY <1>4
    <2> DEFINE g == next(f)
    <2>2. g = [s \in SUBSET S |-> g[s]]
        OBVIOUS
    <2>3. ASSUME NEW s \in SUBSET S, Cardinality(s) < n + 1 PROVE g[s] = next(g)[s]
        <3>1. CASE s = {}
            BY <3>1
        <3>2. CASE s # {}
            <4> DEFINE x == pick(s)
                       r == s \ {x}
            <4>1. r \in SUBSET S /\ Cardinality(r) < n
                BY <1>1, <1>2, <2>3, <3>2
            <4> HIDE DEF x
            <4>2. f[r] = g[r]
                BY <2>1, <4>1
            <4> HIDE DEF g
            <4>3. next(f)[s] = f[r] + calls[x].duration
                BY <3>2 DEF x
            <4>4. next(g)[s] = g[r] + calls[x].duration
                BY <3>2 DEF x
            <4> QED BY <4>2, <4>3, <4>4 DEF g
        <3> QED BY <3>1, <3>2
    <2> HIDE DEF g
    <2>4. Right(g, n + 1)
        BY <2>2, <2>3
    <2> HIDE DEF Right
    <2> QED BY <2>4
<1> HIDE DEF T
<1>5. Nat \subseteq T
    BY <1>3, <1>4, SetInduction
<1>6. PICK f : Right(f, Cardinality(S) + 1)
    <2>1. Cardinality(S) + 1 \in Nat
        BY FS_CardinalityType
    <2> QED BY <1>5, <2>1 DEF T
<1>7. f = next(f)
    <2>1. ASSUME NEW s \in SUBSET S PROVE f[s] = next(f)[s]
        <3>1. Cardinality(s) < Cardinality(S) + 1
            BY <1>1, FS_CardinalityType
        <3> HIDE DEF next
        <3> QED BY <1>6, <3>1, Zenon
    <2>2. next(f) = [s \in SUBSET S |-> next(f)[s]]
        OBVIOUS
    <2> HIDE DEF next
    <2> QED BY <1>6, <2>1, <2>2
<1> QED BY <1>7 DEF IsSum

(* U is parted into the sets D[i], whose sizes are the durations.          *)
IsParted(U, D, S, calls) ==
    /\ IsFiniteSet(S)
    /\ \A i \in S : IsFiniteSet(D[i]) /\ calls[i].duration = Cardinality(D[i])
    /\ \A i, j \in S : i # j => D[i] \cap D[j] = {}
    /\ \A i \in S : D[i] \subseteq U
    /\ \A u \in U : \E i \in S : u \in D[i]

(* The sum of the sizes of disjoint sets is the size of their union.       *)
LEMMA SumOfSizes ==
    ASSUME NEW U, NEW D, NEW S, NEW calls, IsParted(U, D, S, calls)
    PROVE  SumOf(calls, S) = Cardinality(U)
<1> DEFINE f == CHOOSE sum : IsSum(sum, calls, S)
           all(s) == UNION {D[i] : i \in s}
           T == {n \in Nat : \A s \in SUBSET S : Cardinality(s) = n =>
                     IsFiniteSet(all(s)) /\ f[s] = Cardinality(all(s))}
<1>0. /\ IsFiniteSet(S)
      /\ \A i \in S : IsFiniteSet(D[i]) /\ calls[i].duration = Cardinality(D[i])
      /\ \A i, j \in S : i # j => D[i] \cap D[j] = {}
    BY DEF IsParted
<1>1. SumOf(calls, S) = f[S]
    BY DEF SumOf, FoldSet, MapThenFoldSet, IsSum
<1>2. IsSum(f, calls, S)
    BY <1>0, SumExists
<1> HIDE DEF f
<1>3. \A s \in SUBSET S : IsFiniteSet(s) /\ Cardinality(s) \in Nat
    BY <1>0, FS_Subset, FS_CardinalityType
<1>4. 0 \in T
    <2>1. \A s \in SUBSET S : Cardinality(s) = 0 => s = {}
        BY <1>3, FS_EmptySet
    <2>2. all({}) = {} /\ IsFiniteSet({}) /\ Cardinality({}) = 0
        BY FS_EmptySet
    <2>3. f[{}] = 0
        BY <1>2 DEF IsSum
    <2> QED BY <2>1, <2>2, <2>3
<1>5. ASSUME NEW n \in Nat, n \in T PROVE n + 1 \in T
    <2>0. n + 1 \in Nat
        OBVIOUS
    <2> SUFFICES ASSUME NEW s \in SUBSET S, Cardinality(s) = n + 1
                 PROVE  IsFiniteSet(all(s)) /\ f[s] = Cardinality(all(s))
        BY <2>0, Zenon
    <2> DEFINE x == CHOOSE x \in s : TRUE
               r == s \ {x}
    <2>1. s # {}
        BY FS_EmptySet
    <2>2. x \in s
        BY <2>1
    <2>3. f[s] = f[r] + calls[x].duration
        BY <1>2, <2>1 DEF IsSum
    <2> HIDE DEF x
    <2>4. r \in SUBSET S /\ Cardinality(r) = n
        <3>1. IsFiniteSet(s)
            BY <1>3
        <3>2. Cardinality(s \ {x}) = Cardinality(s) - 1
            BY <2>2, <3>1, FS_RemoveElement
        <3> QED BY <3>2
    <2>5. IsFiniteSet(all(r)) /\ f[r] = Cardinality(all(r))
        BY <1>5, <2>4
    <2>6. IsFiniteSet(D[x]) /\ calls[x].duration = Cardinality(D[x])
        BY <1>0, <2>2
    <2>7. all(s) = all(r) \cup D[x]
        BY <2>2
    <2>8. all(r) \cap D[x] = {}
        <3>1. \A i \in r : D[i] \cap D[x] = {}
            BY <1>0, <2>2
        <3> QED BY <3>1
    <2> HIDE DEF all, r
    <2>9. /\ IsFiniteSet(all(r) \cup D[x])
          /\ Cardinality(all(r) \cup D[x]) = Cardinality(all(r)) + Cardinality(D[x]) - 0
        <3>1. Cardinality(all(r) \cap D[x]) = 0
            BY <2>8, FS_EmptySet
        <3>2. /\ IsFiniteSet(all(r) \cup D[x])
              /\ Cardinality(all(r) \cup D[x])
                   = Cardinality(all(r)) + Cardinality(D[x]) - Cardinality(all(r) \cap D[x])
            BY <2>5, <2>6, FS_Union, Zenon
        <3> QED BY <3>1, <3>2
    <2>10. Cardinality(all(r)) \in Nat /\ Cardinality(D[x]) \in Nat
        BY <2>5, <2>6, FS_CardinalityType
    <2> QED BY <2>3, <2>5, <2>6, <2>7, <2>9, <2>10
<1> HIDE DEF T
<1>6. Nat \subseteq T
    BY <1>4, <1>5, SetInduction
<1>7. Cardinality(S) \in T
    BY <1>3, <1>6
<1>8. all(S) = U
    BY DEF IsParted
<1> QED BY <1>1, <1>7, <1>8 DEF T

----------------------------------------------------------------------------
(* What FoldLeft computes for every set of places, of the operation that h *)
(* has for each place.                                                     *)
IsFold(f, base, h, n) ==
    f = [s \in SUBSET (1..n) |-> IF s = {} THEN base
                                 ELSE h[Max(s)][f[s \ {Max(s)}]]]

(* It exists, if the operations stay within a set.                         *)
LEMMA FoldExists ==
    ASSUME NEW n \in Nat, NEW V, NEW base \in V, NEW h, \A i \in 1..n : h[i] \in [V -> V]
    PROVE  \E f \in [SUBSET (1..n) -> V] : IsFold(f, base, h, n)
<1> DEFINE S == 1..n
           next(f) == [s \in SUBSET S |-> IF s = {} THEN base
                                          ELSE h[Max(s)][f[s \ {Max(s)}]]]
           Right(f, m) == /\ f \in [SUBSET S -> V]
                          /\ \A s \in SUBSET S : Cardinality(s) < m => f[s] = next(f)[s]
           T == {m \in Nat : \E f : Right(f, m)}
<1>0. IsFiniteSet(S) /\ Cardinality(S) \in Nat
    BY FS_Interval, FS_CardinalityType
<1>1. \A s \in SUBSET S : /\ IsFiniteSet(s) /\ Cardinality(s) \in Nat
                          /\ Cardinality(s) <= Cardinality(S)
    BY <1>0, FS_Subset, FS_CardinalityType
<1>2. ASSUME NEW s \in SUBSET S, s # {}
      PROVE  /\ Max(s) \in S /\ s \ {Max(s)} \in SUBSET S
             /\ Cardinality(s \ {Max(s)}) = Cardinality(s) - 1
    <2>1. Max(s) \in s
        <3>1. s \in SUBSET (0..n)
            OBVIOUS
        <3> QED BY <1>2, <3>1, MaxBelow
    <2> QED BY <1>1, <2>1, FS_RemoveElement
<1>3. ASSUME NEW f \in [SUBSET S -> V] PROVE next(f) \in [SUBSET S -> V]
    <2>1. ASSUME NEW s \in SUBSET S, s # {} PROVE h[Max(s)][f[s \ {Max(s)}]] \in V
        <3> DEFINE x == Max(s)
                   r == s \ {x}
        <3>1. x \in S /\ r \in SUBSET S
            BY <1>2, <2>1
        <3> HIDE DEF x, r
        <3>2. h[x] \in [V -> V] /\ f[r] \in V
            BY <3>1
        <3>3. h[x][f[r]] \in V
            BY <3>2
        <3> QED BY <3>3 DEF x, r
    <2>2. \A s \in SUBSET S : (IF s = {} THEN base ELSE h[Max(s)][f[s \ {Max(s)}]]) \in V
        BY <2>1
    <2> HIDE DEF S
    <2> QED BY <2>2, Zenon
<1>4. 0 \in T
    <2>1. Right([s \in SUBSET S |-> base], 0)
        BY <1>1
    <2> QED BY <2>1
<1>5. ASSUME NEW m \in Nat, m \in T PROVE m + 1 \in T
    <2>1. PICK f : Right(f, m)
        BY <1>5
    <2> DEFINE g == next(f)
    <2>2. g \in [SUBSET S -> V]
        BY <1>3, <2>1
    <2>3. ASSUME NEW s \in SUBSET S, Cardinality(s) < m + 1 PROVE g[s] = next(g)[s]
        <3>1. CASE s = {}
            BY <3>1
        <3>2. CASE s # {}
            <4> DEFINE r == s \ {Max(s)}
            <4>1. r \in SUBSET S /\ Cardinality(r) < m
                <5>1. r \in SUBSET S /\ Cardinality(r) = Cardinality(s) - 1
                    BY <1>2, <3>2
                <5> HIDE DEF r
                <5> QED BY <1>1, <2>3, <5>1
            <4>2. f[r] = g[r]
                <5> HIDE DEF r, next
                <5> QED BY <2>1, <4>1
            <4> HIDE DEF g
            <4>3. next(f)[s] = h[Max(s)][f[r]]
                BY <3>2
            <4>4. next(g)[s] = h[Max(s)][g[r]]
                BY <3>2
            <4> QED BY <4>2, <4>3, <4>4 DEF g
        <3> QED BY <3>1, <3>2
    <2> HIDE DEF g
    <2>4. Right(g, m + 1)
        BY <2>2, <2>3
    <2> HIDE DEF Right
    <2> QED BY <2>4
<1> HIDE DEF T
<1>6. Nat \subseteq T
    BY <1>4, <1>5, SetInduction
<1>7. PICK f : Right(f, Cardinality(S) + 1)
    <2>1. Cardinality(S) + 1 \in Nat
        BY <1>0
    <2> QED BY <1>6, <2>1 DEF T
<1>8. f = next(f)
    <2>1. ASSUME NEW s \in SUBSET S PROVE f[s] = next(f)[s]
        <3>1. Cardinality(s) < Cardinality(S) + 1
            BY <1>1, <1>0
        <3> HIDE DEF next
        <3> QED BY <1>7, <3>1, Zenon
    <2>2. next(f) \in [SUBSET S -> V] /\ f \in [SUBSET S -> V]
        BY <1>3, <1>7
    <2> HIDE DEF next
    <2> QED BY <2>1, <2>2
<1> QED BY <1>7, <1>8 DEF IsFold

LEMMA MaxOfFirst ==
    ASSUME NEW k \in Nat \ {0}
    PROVE  Max(1..k) = k
<1>1. 1..k # {} /\ 1..k \in SUBSET (0..k) /\ k \in 1..k
    OBVIOUS
<1>2. Max(1..k) \in 1..k /\ \A y \in 1..k : y <= Max(1..k)
    BY <1>1, MaxBelow
<1> QED BY <1>1, <1>2

=============================================================================
