---------------------------- MODULE Saves_proofs ----------------------------
(***************************************************************************)
(* Why what the build stores can be trusted, wherever it is stopped: the   *)
(* inductive invariant of Saves, and the theorems about its specification. *)
(* First what the operations of the database keep, and what a reader gets  *)
(* of what was written.                                                    *)
(***************************************************************************)
EXTENDS Saves, DataInduction, FunctionTheorems

(* A store is a record of these fields; 0 is never the next identifier.    *)
IsStore(data) ==
    /\ data = [functionNameCount |-> data.functionNameCount, stackCount |-> data.stackCount,
             functionNames |-> data.functionNames, stacks |-> data.stacks,
             functionNameIds |-> data.functionNameIds, stackIds |-> data.stackIds,
             executions |-> data.executions]
    /\ data.functionNameCount \in Nat \ {0} /\ data.stackCount \in Nat \ {0}

(* "more" has what "store" has, under the same identifiers.                *)
Grows(store, more) ==
    /\ store.functionNameCount <= more.functionNameCount
    /\ store.stackCount <= more.stackCount
    /\ \A id \in DOMAIN store.functionNames :
          /\ id \in DOMAIN more.functionNames
          /\ more.functionNames[id] = store.functionNames[id]
    /\ \A id \in DOMAIN store.stacks :
          id \in DOMAIN more.stacks /\ more.stacks[id] = store.stacks[id]
    /\ \A name \in DOMAIN store.functionNameIds :
          /\ name \in DOMAIN more.functionNameIds
          /\ more.functionNameIds[name] = store.functionNameIds[name]
    /\ DOMAIN store.executions \subseteq DOMAIN more.executions

----------------------------------------------------------------------------
(* Giving the next identifier to a value that has none.                    *)
LEMMA InternNew ==
    ASSUME NEW byId, NEW ids, NEW count \in Nat \ {0}, NEW x,
           Interned(byId, ids, count), x \notin DOMAIN ids
    PROVE  Interned(With(byId, count, x), With(ids, x, count), count + 1)
<1> DEFINE more == With(byId, count, x)
           moreIds == With(ids, x, count)
<1>1. /\ DOMAIN more = 1..count
      /\ more[count] = x
      /\ \A id \in DOMAIN byId : more[id] = byId[id]
    BY DEF With, Interned
<1>2. /\ DOMAIN moreIds = DOMAIN ids \union {x}
      /\ moreIds[x] = count
      /\ \A y \in DOMAIN ids : moreIds[y] = ids[y]
    BY DEF With
<1>3. (count + 1) - 1 = count
    OBVIOUS
<1> HIDE DEF more, moreIds
<1>4. \A id \in DOMAIN more : more[id] \in DOMAIN moreIds /\ moreIds[more[id]] = id
    BY <1>1, <1>2 DEF Interned
<1>5. \A y \in DOMAIN moreIds : moreIds[y] \in DOMAIN more /\ more[moreIds[y]] = y
    BY <1>1, <1>2 DEF Interned
<1>6. Interned(more, moreIds, count + 1)
    BY <1>1, <1>3, <1>4, <1>5 DEF Interned
<1> QED BY <1>6 DEF more, moreIds

(* AddFunctionName: the name gets an identifier if it had none.            *)
LEMMA NameAdded ==
    ASSUME NEW data, NEW name, NEW new, new = AddFunctionName(data, name),
           IsStore(data), Sound(data)
    PROVE  /\ IsStore(new) /\ Sound(new) /\ Grows(data, new)
           /\ name \in DOMAIN new.functionNameIds
           /\ new.executions = data.executions
           /\ new.stacks = data.stacks /\ new.stackCount = data.stackCount
           /\ \/ new = data
              \/ /\ name \notin DOMAIN data.functionNameIds
                 /\ new.functionNameCount = data.functionNameCount + 1
                 /\ new.functionNames = With(data.functionNames, data.functionNameCount, name)
<1>1. CASE name \in DOMAIN data.functionNameIds
    <2>1. new = data
        BY <1>1 DEF AddFunctionName
    <2>2. Grows(data, data)
        BY DEF Grows, IsStore
    <2> QED BY <1>1, <2>1, <2>2
<1>2. CASE name \notin DOMAIN data.functionNameIds
    <2> DEFINE id == data.functionNameCount
    <2>1. new = [functionNameCount |-> id + 1, stackCount |-> data.stackCount,
                 functionNames |-> With(data.functionNames, id, name), stacks |-> data.stacks,
                 functionNameIds |-> With(data.functionNameIds, name, id),
                 stackIds |-> data.stackIds, executions |-> data.executions]
        BY <1>2 DEF AddFunctionName, IsStore
    <2>2. /\ new.functionNameCount = id + 1 /\ new.stackCount = data.stackCount
          /\ new.functionNames = With(data.functionNames, id, name) /\ new.stacks = data.stacks
          /\ new.functionNameIds = With(data.functionNameIds, name, id)
          /\ new.stackIds = data.stackIds /\ new.executions = data.executions
        BY <2>1
    <2>3. IsStore(new)
        BY <2>1, <2>2 DEF IsStore
    <2>4. Interned(new.functionNames, new.functionNameIds, new.functionNameCount)
        BY <1>2, <2>2, InternNew DEF IsStore, Sound
    <2>5. /\ DOMAIN new.functionNames = DOMAIN data.functionNames \union {id}
          /\ \A i \in DOMAIN data.functionNames : new.functionNames[i] = data.functionNames[i]
        BY <2>2 DEF With, Sound, Interned, IsStore
    <2>6. /\ DOMAIN new.functionNameIds = DOMAIN data.functionNameIds \union {name}
          /\ \A n \in DOMAIN data.functionNameIds :
                new.functionNameIds[n] = data.functionNameIds[n]
        BY <1>2, <2>2 DEF With
    <2>7. Resolved(new)
        BY <2>2, <2>5 DEF Resolved, Sound
    <2>8. Sound(new)
        BY <2>2, <2>4, <2>7 DEF Sound
    <2>9. Grows(data, new)
        BY <2>2, <2>5, <2>6 DEF Grows, IsStore
    <2> QED BY <1>2, <2>2, <2>3, <2>6, <2>8, <2>9
<1> QED BY <1>1, <1>2

(* AddStack: of a function and on a stack that are there.                  *)
LEMMA StackAdded ==
    ASSUME NEW data, NEW stack, NEW new, new = AddStack(data, stack),
           IsStore(data), Sound(data),
           stack.function \in DOMAIN data.functionNames, stack.bottom \in 0..(data.stackCount - 1)
    PROVE  /\ IsStore(new) /\ Sound(new) /\ Grows(data, new)
           /\ StackId(new, stack) \in DOMAIN new.stacks
           /\ new.stacks[StackId(new, stack)] = stack
           /\ new.executions = data.executions
           /\ new.functionNames = data.functionNames
           /\ new.functionNameCount = data.functionNameCount
           /\ new.functionNameIds = data.functionNameIds
           /\ \/ new = data
              \/ /\ \A id \in DOMAIN data.stacks : data.stacks[id] # stack
                 /\ new.stackCount = data.stackCount + 1
                 /\ new.stacks = With(data.stacks, data.stackCount, stack)
<1>1. CASE stack \in DOMAIN data.stackIds
    <2>1. new = data
        BY <1>1 DEF AddStack
    <2>2. Grows(data, data)
        BY DEF Grows, IsStore
    <2>3. StackId(data, stack) \in DOMAIN data.stacks /\ data.stacks[StackId(data, stack)] = stack
        BY <1>1 DEF StackId, Sound, Interned
    <2> QED BY <2>1, <2>2, <2>3
<1>2. CASE stack \notin DOMAIN data.stackIds
    <2> DEFINE id == data.stackCount
    <2>1. new = [functionNameCount |-> data.functionNameCount, stackCount |-> id + 1,
                 functionNames |-> data.functionNames, stacks |-> With(data.stacks, id, stack),
                 functionNameIds |-> data.functionNameIds,
                 stackIds |-> With(data.stackIds, stack, id), executions |-> data.executions]
        BY <1>2 DEF AddStack, IsStore
    <2>2. /\ new.functionNameCount = data.functionNameCount /\ new.stackCount = id + 1
          /\ new.functionNames = data.functionNames /\ new.stacks = With(data.stacks, id, stack)
          /\ new.functionNameIds = data.functionNameIds
          /\ new.stackIds = With(data.stackIds, stack, id) /\ new.executions = data.executions
        BY <2>1
    <2>3. IsStore(new)
        BY <2>1, <2>2 DEF IsStore
    <2>4. Interned(new.stacks, new.stackIds, new.stackCount)
        BY <1>2, <2>2, InternNew DEF IsStore, Sound
    <2>5. /\ DOMAIN new.stacks = DOMAIN data.stacks \union {id} /\ new.stacks[id] = stack
          /\ \A i \in DOMAIN data.stacks : new.stacks[i] = data.stacks[i]
        BY <2>2 DEF With, Sound, Interned, IsStore
    <2>6. StackId(new, stack) = id
        BY <2>2 DEF With, StackId
    <2>7. Resolved(new)
        <3>1. \A i \in DOMAIN new.stacks :
                 /\ new.stacks[i].function \in DOMAIN new.functionNames
                 /\ new.stacks[i].bottom \in 0..(i - 1)
            BY <2>2, <2>5 DEF Resolved, Sound
        <3>2. \A key \in DOMAIN new.executions :
                 LET e == ExecutionFromBuffer(new.executions[key])
                 IN  /\ key = ExecutionKey(e.name, e)
                     /\ {e.name, e.trace} \subseteq DOMAIN new.functionNames
                     /\ DOMAIN e.samples \subseteq DOMAIN new.stacks
            BY <2>2, <2>5 DEF Resolved, Sound
        <3> QED BY <3>1, <3>2 DEF Resolved
    <2>8. Sound(new)
        BY <2>2, <2>4, <2>7 DEF Sound
    <2>9. Grows(data, new)
        BY <2>2, <2>5 DEF Grows, IsStore
    <2>10. \A i \in DOMAIN data.stacks : data.stacks[i] # stack
        BY <1>2 DEF Sound, Interned
    <2> QED BY <2>2, <2>3, <2>5, <2>6, <2>8, <2>9, <2>10
<1> QED BY <1>1, <1>2

(* What a store has grown out of, it has still when it grows again.        *)
LEMMA GrowsTransitive ==
    ASSUME NEW a, NEW b, NEW c, IsStore(a), IsStore(b), IsStore(c), Grows(a, b), Grows(b, c)
    PROVE  Grows(a, c)
BY DEF Grows, IsStore

----------------------------------------------------------------------------
(* The frames of the stack "id", from those of the stacks below it.        *)
FramesFrom(below, store, id) ==
    IF id = kEmptyStackId THEN << >>
    ELSE Append(below[GetStack(store, id).bottom],
                GetFunctionName(store, GetStack(store, id).function))

(* f gives each identifier up to n the frames that the store has for it. *)
AreFrames(f, store, n) == f = [id \in 0..n |-> FramesFrom(f, store, id)]

(* The recursive definition of the frames of a stack has a solution for
   the identifiers up to n: each stack lies on one with a smaller
   identifier. *)
LEMMA FramesExist ==
    ASSUME NEW store, Sound(store), NEW n \in Nat, n < store.stackCount,
           store.stackCount \in Nat
    PROVE  \E f : AreFrames(f, store, n)
<1> DEFINE S == {m \in Nat : m < store.stackCount => \E f : AreFrames(f, store, m)}
<1>1. 0 \in S
    <2> DEFINE f == [id \in 0..0 |-> << >>]
    <2>1. f = [id \in 0..0 |-> FramesFrom(f, store, id)]
        BY DEF FramesFrom, kEmptyStackId
    <2> HIDE DEF f
    <2> QED BY <2>1 DEF AreFrames
<1>2. ASSUME NEW m \in Nat, m \in S PROVE m + 1 \in S
    <2> SUFFICES ASSUME m + 1 < store.stackCount PROVE \E f : AreFrames(f, store, m + 1)
        OBVIOUS
    <2>1. PICK f : AreFrames(f, store, m)
        BY <1>2
    <2> DEFINE g == [id \in 0..(m + 1) |-> IF id <= m THEN f[id] ELSE FramesFrom(f, store, id)]
    <2>2. \A id \in 0..m : f[id] = FramesFrom(f, store, id)
        BY <2>1, Zenon DEF AreFrames
    <2>3. \A id \in 0..(m + 1) : g[id] = FramesFrom(g, store, id)
        <3> TAKE id \in 0..(m + 1)
        <3>1. g[id] = FramesFrom(f, store, id)
            BY <2>2
        <3>2. CASE id = 0
            BY <3>1, <3>2 DEF FramesFrom, kEmptyStackId
        <3>3. CASE id # 0
            <4>1. id \in DOMAIN store.stacks
                BY <3>3 DEF Sound, Interned
            <4>2. store.stacks[id].bottom \in 0..m
                BY <4>1 DEF Sound, Resolved
            <4>3. f[store.stacks[id].bottom] = g[store.stacks[id].bottom]
                BY <4>2
            <4> HIDE DEF g
            <4> QED BY <3>1, <4>3 DEF FramesFrom, GetStack
        <3> QED BY <3>2, <3>3
    <2>4. g = [id \in 0..(m + 1) |-> FramesFrom(g, store, id)]
        <3>1. g = [id \in 0..(m + 1) |-> g[id]]
            OBVIOUS
        <3> HIDE DEF g
        <3> QED BY <3>1, <2>3, Zenon
    <2> HIDE DEF g
    <2> QED BY <2>4 DEF AreFrames
<1>3. n \in S
    <2> HIDE DEF S
    <2> QED BY <1>1, <1>2, SetInduction
<1> QED BY <1>3

(* Frames has, for each stack, those of its bottom and its function.       *)
HasFrames(store) ==
    /\ Frames(store)[kEmptyStackId] = << >>
    /\ \A id \in DOMAIN store.stacks :
          Frames(store)[id] = Append(Frames(store)[store.stacks[id].bottom],
                                     store.functionNames[store.stacks[id].function])

(* So the frames of every stack of a sound store are those of the stack
   below it and its own function. *)
LEMMA FramesAre ==
    ASSUME NEW store, IsStore(store), Sound(store)
    PROVE  HasFrames(store)
<1> DEFINE n == store.stackCount - 1
           g == CHOOSE g : AreFrames(g, store, n)
<1>1. n \in Nat /\ n < store.stackCount /\ store.stackCount \in Nat
    BY DEF IsStore
<1>2. \E f : AreFrames(f, store, n)
    <2> HIDE DEF n
    <2> QED BY <1>1, FramesExist
<1>3. AreFrames(g, store, n)
    BY <1>2, Zenon
<1>4. Frames(store) = g
    BY Zenon DEF Frames, AreFrames, FramesFrom
<1> HIDE DEF g
<1>5. \A id \in 0..n : g[id] = FramesFrom(g, store, id)
    BY <1>3, Zenon DEF AreFrames
<1>6. 0 \in 0..n /\ DOMAIN store.stacks \subseteq 0..n /\ \A id \in DOMAIN store.stacks : id # 0
    BY <1>1 DEF Sound, Interned
<1> QED BY <1>4, <1>5, <1>6 DEF HasFrames, FramesFrom, GetStack, GetFunctionName, kEmptyStackId

(* A stack keeps its frames when the store grows.                          *)
LEMMA FramesKept ==
    ASSUME NEW store, NEW more, IsStore(store), IsStore(more), Sound(store), Sound(more),
           Grows(store, more), NEW id \in 0..(store.stackCount - 1)
    PROVE  Frames(more)[id] = Frames(store)[id]
<1> DEFINE S == {n \in Nat : \A i \in 0..n : i < store.stackCount
                                => Frames(more)[i] = Frames(store)[i]}
<1>1. 0 \in S
    BY FramesAre DEF HasFrames, kEmptyStackId
<1>2. ASSUME NEW n \in Nat, n \in S PROVE n + 1 \in S
    <2> SUFFICES ASSUME n + 1 < store.stackCount
                 PROVE  Frames(more)[n + 1] = Frames(store)[n + 1]
        BY <1>2
    <2> DEFINE below == store.stacks[n + 1].bottom
               function == store.stacks[n + 1].function
    <2>0. n + 1 \in DOMAIN store.stacks
        BY DEF Sound, Interned, IsStore
    <2>1. /\ n + 1 \in DOMAIN store.stacks /\ n + 1 \in DOMAIN more.stacks
          /\ more.stacks[n + 1] = store.stacks[n + 1]
        BY <2>0 DEF Grows
    <2>2. /\ below \in 0..n /\ function \in DOMAIN store.functionNames
          /\ more.functionNames[function] = store.functionNames[function]
        BY <2>1 DEF Sound, Resolved, Grows
    <2>3. /\ Frames(store)[n + 1] = Append(Frames(store)[below], store.functionNames[function])
          /\ Frames(more)[n + 1] = Append(Frames(more)[below], more.functionNames[function])
        BY <2>1, FramesAre DEF HasFrames
    <2>4. Frames(more)[below] = Frames(store)[below]
        BY <1>2, <2>2 DEF IsStore
    <2> HIDE DEF below, function
    <2> QED BY <2>2, <2>3, <2>4
<1>3. Nat \subseteq S
    <2> HIDE DEF S
    <2> QED BY <1>1, <1>2, SetInduction
<1> QED BY <1>3 DEF IsStore

----------------------------------------------------------------------------
(* What is written as numbers: the amounts of an execution's amounts, by   *)
(* stack, and the other fields of the execution.                           *)
AreSamples(amounts) ==
    /\ IsFiniteSet(DOMAIN amounts) /\ DOMAIN amounts \subseteq Int
    /\ \A id \in DOMAIN amounts : amounts[id] \in Int

(* The fields of an execution that its buffer holds are numbers. *)
HasNumbers(e) ==
    e.startTs \in Int /\ e.startThread \in Int /\ e.endTs \in Int /\ e.endThread \in Int

(* Each sample in a sequence of its own.                                   *)
SamplePairs(amounts) == SetToSeq({<<id, amounts[id]>> : id \in DOMAIN amounts})

(* The pairs (identifier, amount) are the amounts, each once. *)
ArePairsOf(pairs, amounts) ==
    /\ pairs \in Seq(Seq(Int)) /\ Len(pairs) = Cardinality(DOMAIN amounts)
    /\ \A i \in 1..Len(pairs) : /\ Len(pairs[i]) = 2
                               /\ pairs[i][1] \in DOMAIN amounts
                               /\ pairs[i][2] = amounts[pairs[i][1]]
    /\ \A id \in DOMAIN amounts : \E i \in 1..Len(pairs) : pairs[i][1] = id

(* The pairs that are written for an execution are its amounts, each
   once. *)
LEMMA SamplePairsList ==
    ASSUME NEW amounts, AreSamples(amounts)
    PROVE  ArePairsOf(SamplePairs(amounts), amounts)
<1>0. /\ IsFiniteSet(DOMAIN amounts) /\ DOMAIN amounts \subseteq Int
      /\ \A id \in DOMAIN amounts : amounts[id] \in Int
    BY DEF AreSamples
<1> DEFINE P == {<<id, amounts[id]>> : id \in DOMAIN amounts}
           f == [id \in DOMAIN amounts |-> <<id, amounts[id]>>]
           pairs == SetToSeq(P)
           n == Cardinality(DOMAIN amounts)
<1>1. n \in Nat
    BY <1>0, FS_CardinalityType
<1>2. IsFiniteSet(P) /\ Cardinality(P) = n
    <2>1. f \in Bijection(DOMAIN amounts, P)
        <3>1. f \in [DOMAIN amounts -> P]
            OBVIOUS
        <3>2. \A a, b \in DOMAIN amounts : f[a] = f[b] => a = b
            OBVIOUS
        <3>3. \A p \in P : \E a \in DOMAIN amounts : f[a] = p
            OBVIOUS
        <3> HIDE DEF f, P
        <3> QED BY <3>1, <3>2, <3>3, Fun_IsBij
    <2> HIDE DEF f, P
    <2>2. ExistsBijection(DOMAIN amounts, P)
        BY <2>1, Zenon DEF ExistsBijection
    <2> QED BY <1>0, <2>2, FS_Bijection
<1>3. /\ pairs \in [1..n -> P]
      /\ \A p \in P : \E i \in 1..n : pairs[i] = p
    <2> HIDE DEF P
    <2> QED BY <1>2, SetToSeqLists
<1>4. P \subseteq Seq(Int) /\ \A p \in P : /\ Len(p) = 2 /\ p[1] \in DOMAIN amounts
                                         /\ p[2] = amounts[p[1]]
    <2> SUFFICES ASSUME NEW p \in P
                 PROVE  /\ p \in Seq(Int) /\ Len(p) = 2 /\ p[1] \in DOMAIN amounts
                        /\ p[2] = amounts[p[1]]
        BY Zenon
    <2>1. PICK id \in DOMAIN amounts : p = <<id, amounts[id]>>
        OBVIOUS
    <2>2. id \in Int /\ amounts[id] \in Int
        BY <1>0
    <2> QED BY <2>1, <2>2
<1>5. \A id \in DOMAIN amounts : <<id, amounts[id]>> \in P
    OBVIOUS
<1> HIDE DEF P
<1>6. pairs \in Seq(Seq(Int)) /\ Len(pairs) = n
    <2>1. pairs \in [1..n -> Seq(Int)]
        BY <1>3, <1>4
    <2> HIDE DEF pairs, n
    <2> QED BY <1>1, <2>1
<1>7. \A i \in 1..n : /\ Len(pairs[i]) = 2 /\ pairs[i][1] \in DOMAIN amounts
                      /\ pairs[i][2] = amounts[pairs[i][1]]
    BY <1>3, <1>4
<1>8. \A id \in DOMAIN amounts : \E i \in 1..n : pairs[i][1] = id
    <2> TAKE id \in DOMAIN amounts
    <2>1. PICK i \in 1..n : pairs[i] = <<id, amounts[id]>>
        BY <1>3, <1>5
    <2> QED BY <2>1
<1>9. pairs = SamplePairs(amounts)
    BY DEF SamplePairs, P
<1> HIDE DEF pairs
<1> QED BY <1>6, <1>7, <1>8, <1>9 DEF ArePairsOf

(* A buffer is the seven fields, then the pairs.                           *)
LaidOut(buffer, head, pairs) ==
    /\ \A j \in 1..7 : buffer[j] = head[j]
    /\ \A i \in 1..Len(pairs) : /\ buffer[6 + 2 * i] = pairs[i][1]
                                /\ buffer[7 + 2 * i] = pairs[i][2]

(* After the seven numbers of the head, a buffer has at the places 2i - 1
   and 2i the i-th pair. *)
LEMMA BufferLayout ==
    ASSUME NEW head \in Seq(Int), Len(head) = 7,
           NEW pairs, NEW amounts, ArePairsOf(pairs, amounts)
    PROVE  LaidOut(head \o FlattenSeq(pairs), head, pairs)
<1> DEFINE buffer == head \o FlattenSeq(pairs)
<1>0. pairs \in Seq(Seq(Int)) /\ \A i \in 1..Len(pairs) : Len(pairs[i]) = 2
    BY DEF ArePairsOf
<1> DEFINE flat == FlattenSeq(pairs)
           n == Len(pairs)
<1>1. n \in Nat
    BY <1>0, LenProperties
<1>2. flat \in Seq(Int)
    BY <1>0, FlattenSeqType
<1>3. /\ Len(flat) = 2 * n
      /\ \A i \in 1..n : flat[2 * i - 1] = pairs[i][1] /\ flat[2 * i] = pairs[i][2]
    BY <1>0, FlattenSeqPairs
<1>4. buffer = head \o flat
    OBVIOUS
<1> HIDE DEF flat, n, buffer
<1>5. \A k \in 1..(7 + 2 * n) : buffer[k] = IF k <= 7 THEN head[k] ELSE flat[k - 7]
    <2>1. \A k \in 1..(Len(head) + Len(flat)) :
             (head \o flat)[k] = IF k <= Len(head) THEN head[k] ELSE flat[k - Len(head)]
        BY <1>2, ConcatProperties
    <2> QED BY <1>3, <1>4, <2>1
<1>6. \A j \in 1..7 : buffer[j] = head[j]
    <2> TAKE j \in 1..7
    <2>1. j \in 1..(7 + 2 * n) /\ j <= 7
        BY <1>1
    <2> QED BY <1>5, <2>1
<1>7. \A i \in 1..n : buffer[6 + 2 * i] = flat[2 * i - 1] /\ buffer[7 + 2 * i] = flat[2 * i]
    <2> TAKE i \in 1..n
    <2>1. /\ 6 + 2 * i \in 1..(7 + 2 * n) /\ ~(6 + 2 * i <= 7) /\ (6 + 2 * i) - 7 = 2 * i - 1
          /\ 7 + 2 * i \in 1..(7 + 2 * n) /\ ~(7 + 2 * i <= 7) /\ (7 + 2 * i) - 7 = 2 * i
        BY <1>1
    <2> QED BY <1>5, <2>1
<1>8. LaidOut(buffer, head, pairs)
    BY <1>3, <1>6, <1>7 DEF n, LaidOut
<1> QED BY <1>8 DEF buffer

(* The amounts of a buffer that has n of them.                             *)
SamplesIn(buffer, n) ==
    [id \in {buffer[6 + 2 * i] : i \in 1..n} |->
        buffer[1 + CHOOSE p \in {6 + 2 * i : i \in 1..n} : buffer[p] = id]]

(* What is read from such a buffer are the amounts that were written. *)
LEMMA SamplesRead ==
    ASSUME NEW pairs, NEW buffer, NEW head, NEW amounts,
           ArePairsOf(pairs, amounts), LaidOut(buffer, head, pairs)
    PROVE  /\ DOMAIN SamplesIn(buffer, Len(pairs)) = DOMAIN amounts
           /\ \A id \in DOMAIN amounts : SamplesIn(buffer, Len(pairs))[id] = amounts[id]
<1> DEFINE n == Len(pairs)
<1>3. n \in Nat
    BY LenProperties DEF ArePairsOf
<1>4. /\ \A i \in 1..n : /\ buffer[6 + 2 * i] = pairs[i][1]
                         /\ buffer[7 + 2 * i] = pairs[i][2]
                         /\ pairs[i][1] \in DOMAIN amounts
                         /\ pairs[i][2] = amounts[pairs[i][1]]
      /\ \A id \in DOMAIN amounts : \E i \in 1..n : pairs[i][1] = id
    BY DEF ArePairsOf, LaidOut
<1> HIDE DEF n
<1>1. {buffer[6 + 2 * i] : i \in 1..n} = DOMAIN amounts
    <2>1. \A id \in DOMAIN amounts : \E i \in 1..n : buffer[6 + 2 * i] = id
        BY <1>4, ZenonT(40)
    <2>2. \A i \in 1..n : buffer[6 + 2 * i] \in DOMAIN amounts
        BY <1>4, Zenon
    <2> QED BY <2>1, <2>2, Zenon
<1>2. ASSUME NEW id \in DOMAIN amounts
      PROVE  buffer[1 + CHOOSE p \in {6 + 2 * i : i \in 1..n} : buffer[p] = id] = amounts[id]
    <2> DEFINE p == CHOOSE p \in {6 + 2 * i : i \in 1..n} : buffer[p] = id
    <2>1. \E q \in {6 + 2 * i : i \in 1..n} : buffer[q] = id
        <3>1. PICK i \in 1..n : pairs[i][1] = id
            BY <1>4, Zenon
        <3>2. buffer[6 + 2 * i] = id /\ 6 + 2 * i \in {6 + 2 * k : k \in 1..n}
            BY <1>4, <3>1, Zenon
        <3> QED BY <3>2, Zenon
    <2>2. p \in {6 + 2 * i : i \in 1..n} /\ buffer[p] = id
        BY <2>1, Zenon
    <2> HIDE DEF p
    <2>3. PICK i \in 1..n : p = 6 + 2 * i
        BY <2>2
    <2>4. 1 + p = 7 + 2 * i
        BY <1>3, <2>3
    <2>5. pairs[i][1] = id /\ buffer[7 + 2 * i] = amounts[id]
        BY <1>4, <2>2, <2>3, ZenonT(40)
    <2>6. buffer[1 + p] = amounts[id]
        BY <2>4, <2>5
    <2> QED BY <2>6 DEF p
<1> QED BY <1>1, <1>2, Zenon DEF SamplesIn, n

(* An execution is read from its buffer as it was written.                 *)
LEMMA RoundTrip ==
    ASSUME NEW nameId \in Int, NEW traceId \in Int, NEW e, HasNumbers(e),
           NEW amounts, AreSamples(amounts),
           NEW r, r = ExecutionFromBuffer(ExecutionToBuffer(nameId, traceId, e, amounts))
    PROVE  /\ r.name = nameId /\ r.trace = traceId
           /\ r.startTs = e.startTs /\ r.startThread = e.startThread
           /\ r.endTs = e.endTs /\ r.endThread = e.endThread
           /\ DOMAIN r.samples = DOMAIN amounts
           /\ \A id \in DOMAIN amounts : r.samples[id] = amounts[id]
<1> DEFINE pairs == SamplePairs(amounts)
           n == Cardinality(DOMAIN amounts)
           head == <<nameId, traceId, e.startTs, e.startThread, e.endTs, e.endThread, n>>
           buffer == head \o FlattenSeq(pairs)
<1>1. n \in Nat
    BY FS_CardinalityType DEF AreSamples
<1>2. ArePairsOf(pairs, amounts) /\ Len(pairs) = n
    BY SamplePairsList DEF ArePairsOf
<1>3. ExecutionToBuffer(nameId, traceId, e, amounts) = buffer
    BY DEF ExecutionToBuffer, SamplePairs
<1> HIDE DEF pairs, n
<1>4. head \in Seq(Int) /\ Len(head) = 7
    BY <1>1 DEF HasNumbers
<1>5. LaidOut(buffer, head, pairs)
    <2> HIDE DEF head
    <2> QED BY <1>2, <1>4, BufferLayout
<1> HIDE DEF buffer
<1>6. /\ buffer[1] = nameId /\ buffer[2] = traceId
      /\ buffer[3] = e.startTs /\ buffer[4] = e.startThread
      /\ buffer[5] = e.endTs /\ buffer[6] = e.endThread /\ buffer[7] = n
    BY <1>5 DEF LaidOut
<1>7. r = [name |-> buffer[1], trace |-> buffer[2], startTs |-> buffer[3],
           startThread |-> buffer[4], endTs |-> buffer[5], endThread |-> buffer[6],
           samples |-> SamplesIn(buffer, buffer[7])]
    <2>1. r = ExecutionFromBuffer(buffer)
        BY <1>3
    <2> QED BY <2>1, Zenon DEF ExecutionFromBuffer, SamplesIn
<1>8. /\ DOMAIN SamplesIn(buffer, n) = DOMAIN amounts
      /\ \A id \in DOMAIN amounts : SamplesIn(buffer, n)[id] = amounts[id]
    <2> HIDE DEF head
    <2> QED BY <1>2, <1>5, SamplesRead
<1> QED BY <1>6, <1>7, <1>8

----------------------------------------------------------------------------
(* What a reader gets of an execution stays the same when the store grows. *)
LEMMA ReadKept ==
    ASSUME NEW store, NEW more, IsStore(store), IsStore(more), Sound(store), Sound(more),
           Grows(store, more), NEW key \in DOMAIN store.executions,
           more.executions[key] = store.executions[key]
    PROVE  Read(more, key) = Read(store, key)
<1> DEFINE e == ExecutionFromBuffer(store.executions[key])
<1>1. /\ {e.name, e.trace} \subseteq DOMAIN store.functionNames
      /\ DOMAIN e.samples \subseteq DOMAIN store.stacks
    BY DEF Sound, Resolved
<1>2. ExecutionFromBuffer(more.executions[key]) = e
    OBVIOUS
<1> HIDE DEF e
<1>3. /\ GetFunctionName(more, e.name) = GetFunctionName(store, e.name)
      /\ GetFunctionName(more, e.trace) = GetFunctionName(store, e.trace)
    BY <1>1 DEF Grows, GetFunctionName
<1>4. \A id \in DOMAIN e.samples : Frames(more)[id] = Frames(store)[id]
    <2>1. DOMAIN store.stacks \subseteq 0..(store.stackCount - 1)
        BY DEF Sound, Interned, IsStore
    <2>2. \A id \in 0..(store.stackCount - 1) : Frames(more)[id] = Frames(store)[id]
        BY FramesKept
    <2> QED BY <1>1, <2>1, <2>2
<1>5. {[frames |-> Frames(more)[id], value |-> e.samples[id]] : id \in DOMAIN e.samples}
        = {[frames |-> Frames(store)[id], value |-> e.samples[id]] : id \in DOMAIN e.samples}
    BY <1>4
<1> QED BY <1>2, <1>3, <1>5, Zenon DEF Read, e

(* PutExecution: what is written is what a reader gets.                    *)
LEMMA ExecutionPut ==
    ASSUME NEW data, IsStore(data), Sound(data), NEW e,
           {e.name, e.trace} \subseteq DOMAIN data.functionNameIds,
           HasNumbers(e),
           NEW amounts, AreSamples(amounts), DOMAIN amounts \subseteq DOMAIN data.stacks,
           NEW new, new = PutExecution(data, e, amounts),
           NEW key, key = ExecutionKey(FunctionNameId(data, e.name), e)
    PROVE  /\ IsStore(new) /\ Sound(new) /\ Grows(data, new)
           /\ DOMAIN new.executions = DOMAIN data.executions \union {key}
           /\ \A k \in DOMAIN data.executions :
                 k # key => new.executions[k] = data.executions[k]
           /\ new.functionNames = data.functionNames /\ new.stacks = data.stacks
           /\ Stored(new, e)
           /\ Read(new, key) =
                [execution |-> [name |-> e.name, trace |-> e.trace,
                                startTs |-> e.startTs, startThread |-> e.startThread,
                                endTs |-> e.endTs, endThread |-> e.endThread],
                 samples   |-> {[frames |-> Frames(data)[id], value |-> amounts[id]]
                                  : id \in DOMAIN amounts}]
<1> DEFINE nameId  == FunctionNameId(data, e.name)
           traceId == FunctionNameId(data, e.trace)
           buffer  == ExecutionToBuffer(nameId, traceId, e, amounts)
           r       == ExecutionFromBuffer(buffer)
<1>1. new = [functionNameCount |-> data.functionNameCount, stackCount |-> data.stackCount,
             functionNames |-> data.functionNames, stacks |-> data.stacks,
             functionNameIds |-> data.functionNameIds, stackIds |-> data.stackIds,
             executions |-> With(data.executions, key, buffer)]
    BY DEF PutExecution, IsStore
<1>2. /\ nameId \in DOMAIN data.functionNames /\ traceId \in DOMAIN data.functionNames
      /\ data.functionNames[nameId] = e.name /\ data.functionNames[traceId] = e.trace
    BY DEF Sound, Interned, FunctionNameId
<1>3. nameId \in Int /\ traceId \in Int
    BY <1>2 DEF Sound, Interned, IsStore
<1>8. key = [name |-> nameId, startTs |-> e.startTs]
    BY DEF ExecutionKey
<1> HIDE DEF nameId, traceId
<1>4. /\ r.name = nameId /\ r.trace = traceId
      /\ r.startTs = e.startTs /\ r.startThread = e.startThread
      /\ r.endTs = e.endTs /\ r.endThread = e.endThread
      /\ DOMAIN r.samples = DOMAIN amounts
      /\ \A id \in DOMAIN amounts : r.samples[id] = amounts[id]
    BY <1>2, <1>3, RoundTrip
<1> HIDE DEF r, buffer
<1>5. /\ new.functionNameCount = data.functionNameCount /\ new.stackCount = data.stackCount
      /\ new.functionNames = data.functionNames /\ new.stacks = data.stacks
      /\ new.functionNameIds = data.functionNameIds /\ new.stackIds = data.stackIds
      /\ new.executions = With(data.executions, key, buffer)
    BY <1>1
<1>6. IsStore(new)
    BY <1>1, <1>5 DEF IsStore
<1>7. /\ DOMAIN new.executions = DOMAIN data.executions \union {key}
      /\ new.executions[key] = buffer
      /\ \A k \in DOMAIN data.executions : k # key => new.executions[k] = data.executions[k]
    BY <1>5 DEF With
<1>9. Resolved(new)
    <2>1. ASSUME NEW k \in DOMAIN new.executions
          PROVE  LET o == ExecutionFromBuffer(new.executions[k])
                 IN  /\ k = ExecutionKey(o.name, o)
                     /\ {o.name, o.trace} \subseteq DOMAIN new.functionNames
                     /\ DOMAIN o.samples \subseteq DOMAIN new.stacks
        <3>1. CASE k = key
            <4>1. ExecutionFromBuffer(new.executions[k]) = r
                BY <1>7, <3>1 DEF r
            <4>2. key = ExecutionKey(r.name, r)
                BY <1>4, <1>8 DEF ExecutionKey
            <4>3. {r.name, r.trace} \subseteq DOMAIN new.functionNames
                BY <1>2, <1>4, <1>5
            <4>4. DOMAIN r.samples \subseteq DOMAIN new.stacks
                BY <1>4, <1>5
            <4> QED BY <3>1, <4>1, <4>2, <4>3, <4>4
        <3>2. CASE k # key
            BY <1>5, <1>7, <3>2 DEF Sound, Resolved
        <3> QED BY <3>1, <3>2
    <2>2. \A id \in DOMAIN new.stacks :
             /\ new.stacks[id].function \in DOMAIN new.functionNames
             /\ new.stacks[id].bottom \in 0..(id - 1)
        BY <1>5 DEF Sound, Resolved
    <2> QED BY <2>1, <2>2 DEF Resolved
<1>10. Sound(new)
    BY <1>5, <1>9 DEF Sound
<1>11. Grows(data, new)
    BY <1>5, <1>7 DEF Grows, IsStore
<1>12. Stored(new, e)
    <2>1. FunctionNameId(new, e.name) = nameId
        BY <1>5 DEF FunctionNameId, nameId
    <2>2. ExecutionKey(FunctionNameId(new, e.name), e) = key
        BY <1>8, <2>1 DEF ExecutionKey
    <2> QED BY <1>5, <1>7, <2>2 DEF Stored
<1>13. \A id \in DOMAIN amounts : Frames(new)[id] = Frames(data)[id]
    <2>1. DOMAIN data.stacks \subseteq 0..(data.stackCount - 1)
        BY DEF Sound, Interned, IsStore
    <2>2. \A id \in 0..(data.stackCount - 1) : Frames(new)[id] = Frames(data)[id]
        BY <1>6, <1>10, <1>11, FramesKept
    <2> QED BY <2>1, <2>2
<1>14. {[frames |-> Frames(new)[id], value |-> r.samples[id]] : id \in DOMAIN r.samples}
         = {[frames |-> Frames(data)[id], value |-> amounts[id]] : id \in DOMAIN amounts}
    BY <1>4, <1>13
<1>15. /\ GetFunctionName(new, r.name) = e.name /\ GetFunctionName(new, r.trace) = e.trace
    BY <1>2, <1>4, <1>5 DEF GetFunctionName
<1>16. Read(new, key) =
         [execution |-> [name |-> GetFunctionName(new, r.name),
                         trace |-> GetFunctionName(new, r.trace),
                         startTs |-> r.startTs, startThread |-> r.startThread,
                         endTs |-> r.endTs, endThread |-> r.endThread],
          samples   |-> {[frames |-> Frames(new)[id], value |-> r.samples[id]]
                           : id \in DOMAIN r.samples}]
    BY <1>7, Zenon DEF Read, r
<1> QED BY <1>4, <1>5, <1>6, <1>7, <1>10, <1>11, <1>12, <1>14, <1>15, <1>16

----------------------------------------------------------------------------
(* The executions of a trace, by the events that begin and end them: t has *)
(* begun one at event i, and not ended it by event n; it runs one from     *)
(* event i to event j.                                                     *)
Events == [ts : Nat, kind : kinds, thread : Threads]

(* Event k begins or ends an execution of thread t (Of in Real). *)
Of(events, t, k) ==
    events[k].thread = t /\ events[k].kind # "sample" /\ TidIsAnalyzed(t)

(* Thread t is at event n in the execution that its event i began. *)
Begun(events, t, i, n) ==
    /\ i \in 1..n /\ Of(events, t, i) /\ events[i].kind = "begin"
    /\ \A k \in (i + 1)..n : ~Of(events, t, k)

(* It ran one from its event i to its event j. *)
Ran(events, t, i, j) ==
    Begun(events, t, i, j - 1) /\ Of(events, t, j) /\ events[j].kind = "end"

(* That execution. *)
Completed(events, t, i, j) ==
    [name |-> Name, trace |-> "", startTs |-> events[i].ts, startThread |-> t,
     endTs |-> events[j].ts, endThread |-> t]

(* The execution e ran within the first n events: Real, as a formula. *)
IsReal(events, e, n) ==
    \E t \in Threads, i \in 1..n, j \in 1..n :
        Ran(events, t, i, j) /\ e = Completed(events, t, i, j)

----------------------------------------------------------------------------
(* The calls by which a stack gets into the database, and how far they are *)
(* when k of its frames are there: the stack of these is "below".          *)
NameCall(name) == Call("AddFunctionName", name, FALSE, kNotCounted)

(* The calls that push frame i of a stack. *)
StackCall(frames, value, i) ==
    Call("AddStack", frames[i], i = 1, IF i = Len(frames) THEN value ELSE kNotCounted)

(* The calls of a stack, frame by frame: Pushes is their concatenation. *)
Pairs(frames, value) ==
    [i \in DOMAIN frames |-> <<NameCall(frames[i]), StackCall(frames, value, i)>>]

(* The calls "todo" are what is left of pushing a stack, and then "rest":
   k frames are in the store under the identifier "below", and the name
   of the next one may be. *)
IsPushing(store, todo, below, frames, value, k, rest) ==
    /\ k \in 0..(Len(frames) - 1)
    /\ k > 0 => below \in DOMAIN store.stacks /\ Frames(store)[below] = SubSeq(frames, 1, k)
    /\ \/ todo = After(Pairs(frames, value), k) \o rest
       \/ /\ frames[k + 1] \in DOMAIN store.functionNameIds
          /\ todo = <<StackCall(frames, value, k + 1)>>
                      \o (After(Pairs(frames, value), k + 1) \o rest)

(* The calls for all stacks of an execution and, at last, for itself; what *)
(* has been counted when s of its stacks are in the database.              *)
Stacked(e) ==
    [i \in DOMAIN SamplesOf(e) |-> Pushes(SamplesOf(e)[i].frames, SamplesOf(e)[i].value)]

(* The calls that end the saving of an execution. *)
PutCall == Call("Put", "", FALSE, kNotCounted)

(* After its samples come its two names and its buffer. *)
LastCalls(e) == <<NameCall(e.name), NameCall(e.trace), PutCall>>

(* The first s samples of e are counted, under the identifiers of their
   stacks. *)
HasCounted(store, amounts, e, s) ==
    /\ DOMAIN amounts \subseteq DOMAIN store.stacks
    /\ {[frames |-> Frames(store)[id], value |-> amounts[id]] : id \in DOMAIN amounts}
         = {SamplesOf(e)[i] : i \in 1..s}

(* The calls "todo" are what is left of saving e: somewhere in the stacks
   of its samples, or in the last three calls. *)
IsSaving(store, todo, below, amounts, e) ==
    \/ \E s \in 1..Len(SamplesOf(e)) :
          /\ HasCounted(store, amounts, e, s - 1)
          /\ \E k \in 0..(Len(SamplesOf(e)[s].frames) - 1) :
                IsPushing(store, todo, below, SamplesOf(e)[s].frames, SamplesOf(e)[s].value, k,
                          After(Stacked(e), s) \o LastCalls(e))
    \/ /\ HasCounted(store, amounts, e, Len(SamplesOf(e)))
       /\ \/ todo = LastCalls(e)
          \/ /\ todo = <<NameCall(e.trace), PutCall>>
             /\ e.name \in DOMAIN store.functionNameIds
          \/ /\ todo = <<PutCall>>
             /\ {e.name, e.trace} \subseteq DOMAIN store.functionNameIds

----------------------------------------------------------------------------
(* The inductive invariant.  The trace is in the order of its times, and   *)
(* within the bounds.                                                      *)
AreEvents(events) ==
    /\ events \in Seq(Events) /\ Len(events) <= MaxEvents
    /\ \A i \in 1..Len(events) : events[i].ts <= MaxFirstTs + (i - 1) * MaxStep
    /\ \A i, j \in 1..Len(events) : i <= j => events[i].ts <= events[j].ts

(* How far a run can be in each phase. *)
PhaseOK ==
    /\ phase \in {"read", "event", "save", "lastSave", "done", "down"}
    /\ cursor \in 0..Len(trace)
    /\ phase \in {"event", "save"} => cursor > 0
    /\ phase \in {"lastSave", "done"} => cursor = Len(trace)
    /\ phase = "down" => cursor = 0
    /\ whole \in BOOLEAN /\ {numExecutions, crashes, reports} \subseteq Nat

(* The events that PunchBlock has been told of.                            *)
Handled == IF phase \in {"event", "save"} THEN cursor - 1 ELSE cursor

(* After h events the builder has the executions that have begun, and      *)
(* completed ones that the trace has.                                      *)
BuilderFits(b, events, h) ==
    /\ b = [ts |-> b.ts, completed |-> b.completed,
            active |-> b.active, needsToEnd |-> b.needsToEnd]
    /\ DOMAIN b.active \subseteq DOMAIN b.needsToEnd
    /\ \A t \in DOMAIN b.needsToEnd : b.needsToEnd[t] = TRUE
    /\ \A t \in DOMAIN b.active :
          /\ t \in Threads
          /\ \E i \in 1..h : /\ Begun(events, t, i, h)
                             /\ b.active[t] = Execution(Name, t, events[i].ts)
    /\ \A t \in Threads, i \in 1..h : Begun(events, t, i, h) => t \in DOMAIN b.active
    /\ b.completed \in Seq(Possible)
    /\ \A k \in 1..Len(b.completed) : IsReal(events, b.completed[k], h)

(* The builder has what the events handled so far make of it, and the
   time of the last one read. *)
BuilderOK ==
    /\ BuilderFits(builder, trace, Handled)
    /\ builder.ts = IF cursor = 0 THEN 0 ELSE trace[cursor].ts

(* Once there was a cleanup, what has completed has ended since the last   *)
(* save, and that was more than the interval after the cleanup.            *)
EndedSince(completed, ts) ==
    \A k \in 1..Len(completed) : completed[k].endTs >= ts

(* The times of the two last saves, and the execution that a save is at.
   Two saves lie more than the interval apart, and what waits for the
   next one has ended since the last. *)
TimesOK ==
    /\ {saveTs, lastCleanupTs} \subseteq Nat
    /\ lastCleanupTs <= saveTs /\ saveTs <= builder.ts
    /\ lastCleanupTs = 0 \/ saveTs > lastCleanupTs + kSaveInterval
    /\ phase = "save" => builder.ts > saveTs + kSaveInterval
    /\ lastCleanupTs # 0 => EndedSince(builder.completed, saveTs)
    /\ next \in 1..(Len(builder.completed) + 1)
    /\ phase \notin {"save", "lastSave"} => next = 1
    /\ phase = "done" => builder.completed = << >>

(* A short execution that has ended is stored, or still to be saved.       *)
IsKept(store, completed, from, e) ==
    Stored(store, e) \/ \E k \in from..Len(completed) : completed[k] = e

(* Each short execution that ended in the first h events is stored, or
   still waits to be. *)
ShortKept(store, completed, from, events, h) ==
    \A t \in Threads, i \in 1..h, j \in 1..h :
        Ran(events, t, i, j) /\ Short(Completed(events, t, i, j)) =>
            IsKept(store, completed, from, Completed(events, t, i, j))

(* The stores are sound, and the disk has nothing else than the readers.   *)
IsSound(store) == IsStore(store) /\ Sound(store)

(* What the store has under a key is an execution of the trace with all
   of its samples. *)
Faithful(store, events) ==
    \A key \in DOMAIN store.executions :
        /\ IsReal(events, Read(store, key).execution, Len(events))
        /\ Read(store, key).samples = Range(SamplesOf(Read(store, key).execution))

(* Both stores are sound and faithful, and the disk has a part of what
   the program sees. *)
StoresOK ==
    /\ IsSound(db) /\ Faithful(db, trace)
    /\ IsSound(durable) /\ Faithful(durable, trace)
    /\ Grows(durable, db)

(* The calls that are still to be made are those of a stack that is read,  *)
(* or of the execution that is saved.                                      *)
CallsOK ==
    /\ bottom \in Nat /\ AreSamples(samples) /\ DOMAIN samples \subseteq DOMAIN db.stacks
    /\ calls # << >> =>
          \/ /\ phase = "read"
             /\ \E k \in 0..(Len(SampleFrames) - 1) :
                   IsPushing(db, calls, bottom, SampleFrames, kNotCounted, k, << >>)
          \/ /\ phase \in {"save", "lastSave"} /\ next <= Len(builder.completed)
             /\ IsSaving(db, calls, bottom, samples, builder.completed[next])

(* The inductive invariant. *)
IInv ==
    /\ AreEvents(trace) /\ PhaseOK /\ BuilderOK /\ TimesOK
    /\ ShortKept(db, builder.completed, next, trace, Handled)
    /\ StoresOK /\ CallsOK

----------------------------------------------------------------------------
(* The calls.  The provers do not know that "" is a string.                *)
Words == STRING \union {"", "AddFunctionName", "AddStack", "Put"}

(* The calls of the database, as records. *)
Calls == [do : Words, arg : Words, first : BOOLEAN, value : Int]

(* Call makes one of them. *)
LEMMA CallType ==
    /\ kNotCounted \in Int
    /\ \A do, arg \in Words, first \in BOOLEAN, value \in Int :
          Call(do, arg, first, value) \in Calls
BY DEF kNotCounted, Call, Calls

(* Which method each of them calls. *)
LEMMA CallDo ==
    /\ \A name : NameCall(name).do = "AddFunctionName" /\ NameCall(name).arg = name
    /\ \A frames, value, i : StackCall(frames, value, i).do = "AddStack"
    /\ PutCall.do = "Put"
BY DEF NameCall, StackCall, PutCall, Call

(* The calls that push a stack are two for each frame. *)
LEMMA PairsType ==
    ASSUME NEW frames \in Seq(STRING), NEW value \in Int
    PROVE  /\ Pairs(frames, value) \in Seq(Seq(Calls))
           /\ Len(Pairs(frames, value)) = Len(frames)
           /\ \A i \in 1..Len(frames) :
                 /\ Pairs(frames, value)[i]
                      = <<NameCall(frames[i]), StackCall(frames, value, i)>>
                 /\ NameCall(frames[i]) \in Calls /\ StackCall(frames, value, i) \in Calls
           /\ Pushes(frames, value) = After(Pairs(frames, value), 0)
<1>1. Len(frames) \in Nat /\ DOMAIN frames = 1..Len(frames)
    BY LenProperties
<1>2. \A i \in 1..Len(frames) : NameCall(frames[i]) \in Calls /\ StackCall(frames, value, i) \in Calls
    <2> TAKE i \in 1..Len(frames)
    <2>1. frames[i] \in STRING
        BY ElementOfSeq
    <2>2. frames[i] \in Words /\ "AddFunctionName" \in Words /\ "AddStack" \in Words
        BY <2>1 DEF Words
    <2>3. (i = 1) \in BOOLEAN /\ FALSE \in BOOLEAN
        OBVIOUS
    <2>4. (IF i = Len(frames) THEN value ELSE kNotCounted) \in Int
        BY CallType
    <2> QED BY <2>2, <2>3, <2>4, CallType, Zenon DEF NameCall, StackCall
<1>3. Pairs(frames, value) \in [1..Len(frames) -> Seq(Calls)]
    <2>1. \A i \in 1..Len(frames) : <<NameCall(frames[i]), StackCall(frames, value, i)>> \in Seq(Calls)
        BY <1>2
    <2> QED BY <1>1, <2>1 DEF Pairs
<1>4. Pairs(frames, value) \in Seq(Seq(Calls)) /\ Len(Pairs(frames, value)) = Len(frames)
    BY <1>1, <1>3
<1>5. \A i \in 1..Len(frames) :
         Pairs(frames, value)[i] = <<NameCall(frames[i]), StackCall(frames, value, i)>>
    BY <1>1 DEF Pairs
<1>6. Pushes(frames, value) = FlattenSeq(Pairs(frames, value))
    BY Zenon DEF Pushes, Pairs, NameCall, StackCall
<1> QED BY <1>2, <1>4, <1>5, <1>6, AfterAll

(* The calls that save an execution are those of the stacks of its
   samples, then the last three. *)
LEMMA StackedType ==
    ASSUME NEW e \in Possible
    PROVE  /\ SamplesOf(e) \in Seq([frames : Seq(STRING) \ {<< >>}, value : Nat])
           /\ Stacked(e) \in Seq(Seq(Calls)) /\ Len(Stacked(e)) = Len(SamplesOf(e))
           /\ \A i \in 1..Len(SamplesOf(e)) :
                 Stacked(e)[i] = Pushes(SamplesOf(e)[i].frames, SamplesOf(e)[i].value)
           /\ LastCalls(e) \in Seq(Calls)
           /\ SaveCalls(e) = After(Stacked(e), 0) \o LastCalls(e)
<1> DEFINE list == SamplesOf(e)
<1>1. list \in Seq([frames : Seq(STRING) \ {<< >>}, value : Nat])
    BY SamplesAssumption
<1>2. Len(list) \in Nat /\ DOMAIN list = 1..Len(list)
    BY <1>1, LenProperties
<1>3. \A i \in 1..Len(list) : list[i].frames \in Seq(STRING) /\ list[i].value \in Int
    <2> TAKE i \in 1..Len(list)
    <2>1. list[i] \in [frames : Seq(STRING) \ {<< >>}, value : Nat]
        BY <1>1, ElementOfSeq
    <2> QED BY <2>1
<1>4. \A i \in 1..Len(list) : Pushes(list[i].frames, list[i].value) \in Seq(Calls)
    <2> TAKE i \in 1..Len(list)
    <2>1. /\ Pairs(list[i].frames, list[i].value) \in Seq(Seq(Calls))
          /\ Pushes(list[i].frames, list[i].value)
               = After(Pairs(list[i].frames, list[i].value), 0)
        BY <1>3, PairsType
    <2>2. 0 \in 0..Len(Pairs(list[i].frames, list[i].value))
        BY <2>1, LenProperties
    <2> QED BY <2>1, <2>2, AfterType
<1>5. Stacked(e) = [i \in 1..Len(list) |-> Pushes(list[i].frames, list[i].value)]
    BY <1>2 DEF Stacked
<1>6. Stacked(e) \in [1..Len(list) -> Seq(Calls)]
    BY <1>4, <1>5
<1>7. Stacked(e) \in Seq(Seq(Calls)) /\ Len(Stacked(e)) = Len(list)
    BY <1>2, <1>6
<1>8. e.name \in Words /\ e.trace \in Words
    <2>1. e.name = Name /\ e.trace = ""
        BY DEF Possible
    <2> QED BY <2>1, SavesAssumption DEF Words
<1>9. NameCall(e.name) \in Calls /\ NameCall(e.trace) \in Calls /\ PutCall \in Calls
    <2>1. "AddFunctionName" \in Words /\ "Put" \in Words /\ "" \in Words
        BY DEF Words
    <2> QED BY <1>8, <2>1, CallType, Zenon DEF NameCall, PutCall
<1>10. LastCalls(e) \in Seq(Calls)
    BY <1>9 DEF LastCalls
<1>11. SaveCalls(e) = FlattenSeq(Stacked(e)) \o LastCalls(e)
    BY Zenon DEF SaveCalls, Stacked, LastCalls, NameCall, PutCall
<1> QED BY <1>1, <1>5, <1>7, <1>10, <1>11, AfterAll

(* The stack that a call of AddStack adds, and the samples after it.       *)
PushedStack(store, call, below) ==
    Stack(IF call.first THEN kEmptyStackId ELSE below, FunctionNameId(store, call.arg))

(* The samples after the top of a stack is added: its amount counts if
   the stack is a sample. *)
CountedWith(amounts, call, top) ==
    IF call.value = kNotCounted THEN amounts
    ELSE With(amounts, top, call.value + (IF top \in DOMAIN amounts THEN amounts[top] ELSE 0))

(* The next call, and those that follow it, while a stack is pushed.       *)
NextCall(store, todo, frames, value, k, rest) ==
    \/ /\ todo[1] = NameCall(frames[k + 1])
       /\ Tail(todo) = <<StackCall(frames, value, k + 1)>>
                          \o (After(Pairs(frames, value), k + 1) \o rest)
    \/ /\ todo[1] = StackCall(frames, value, k + 1)
       /\ Tail(todo) = After(Pairs(frames, value), k + 1) \o rest
       /\ frames[k + 1] \in DOMAIN store.functionNameIds

(* In the middle of a stack the next call is that for the name of a frame
   or for the frame itself. *)
LEMMA PushingCalls ==
    ASSUME NEW frames \in Seq(STRING), NEW value \in Int, NEW rest \in Seq(Calls),
           NEW store, NEW todo, NEW below, NEW k,
           IsPushing(store, todo, below, frames, value, k, rest)
    PROVE  /\ todo \in Seq(Calls) /\ todo # << >>
           /\ k + 1 \in 1..Len(frames)
           /\ NextCall(store, todo, frames, value, k, rest)
<1> DEFINE pairs == Pairs(frames, value)
           name == NameCall(frames[k + 1])
           stack == StackCall(frames, value, k + 1)
           more == After(pairs, k + 1) \o rest
<1>1. /\ k \in 0..(Len(frames) - 1) /\ k + 1 \in 1..Len(frames) /\ Len(frames) \in Nat
      /\ k + 1 \in 0..Len(frames)
    BY LenProperties DEF IsPushing
<1>2. /\ pairs \in Seq(Seq(Calls)) /\ Len(pairs) = Len(frames)
      /\ pairs[k + 1] = <<name, stack>> /\ name \in Calls /\ stack \in Calls
    BY <1>1, PairsType
<1> HIDE DEF name, stack
<1>3. After(pairs, k + 1) \in Seq(Calls) /\ more \in Seq(Calls)
    <2>1. After(pairs, k + 1) \in Seq(Calls)
        <3> HIDE DEF pairs
        <3> QED BY <1>1, <1>2, AfterType
    <2> QED BY <2>1, ConcatProperties
<1>4. After(pairs, k) \o rest = <<name, stack>> \o more
    <2>1. After(pairs, k) = <<name, stack>> \o After(pairs, k + 1)
        <3> HIDE DEF pairs
        <3> QED BY <1>1, <1>2, AfterOne
    <2>2. <<name, stack>> \in Seq(Calls)
        BY <1>2
    <2>3. (<<name, stack>> \o After(pairs, k + 1)) \o rest
            = <<name, stack>> \o (After(pairs, k + 1) \o rest)
        BY <1>1, <1>3, <2>2, ConcatAssociative, SMTT(30)
    <2> QED BY <2>1, <2>3, Zenon
<1>5. CASE todo = After(pairs, k) \o rest
    <2>1. todo = <<name, stack>> \o more
        BY <1>4, <1>5
    <2> HIDE DEF more
    <2>2. todo \in Seq(Calls) /\ todo # << >> /\ todo[1] = name /\ Tail(todo) = <<stack>> \o more
        BY <1>2, <1>3, <2>1, SMTT(30)
    <2> QED BY <1>1, <2>2 DEF name, stack, more, NextCall
<1>6. CASE /\ todo = <<stack>> \o more
           /\ frames[k + 1] \in DOMAIN store.functionNameIds
    <2> HIDE DEF more
    <2>1. todo \in Seq(Calls) /\ todo # << >> /\ todo[1] = stack /\ Tail(todo) = more
        BY <1>2, <1>3, <1>6
    <2> QED BY <1>1, <1>6, <2>1 DEF name, stack, more, NextCall
<1> QED BY <1>5, <1>6 DEF IsPushing, stack

(* Before its first call, a stack is being pushed with no frame stored. *)
LEMMA PushStart ==
    ASSUME NEW frames \in Seq(STRING), frames # << >>, NEW value \in Int, NEW rest,
           NEW store, NEW below
    PROVE  IsPushing(store, Pushes(frames, value) \o rest, below, frames, value, 0, rest)
<1>1. 0 \in 0..(Len(frames) - 1)
    BY LenProperties, EmptySeq
<1>2. Pushes(frames, value) = After(Pairs(frames, value), 0)
    BY PairsType
<1>3. ~(0 > 0)
    OBVIOUS
<1> QED BY <1>1, <1>2, <1>3, Zenon DEF IsPushing

(* The name of a frame is added, ...                                       *)
LEMMA PushName ==
    ASSUME NEW frames \in Seq(STRING), NEW value \in Int, NEW rest \in Seq(Calls),
           NEW store, IsStore(store), Sound(store), NEW todo, NEW below, NEW k,
           IsPushing(store, todo, below, frames, value, k, rest),
           todo[1].do = "AddFunctionName",
           NEW new, new = AddFunctionName(store, todo[1].arg)
    PROVE  IsPushing(new, Tail(todo), below, frames, value, k, rest)
<1>1. /\ k \in 0..(Len(frames) - 1)
      /\ k > 0 => below \in DOMAIN store.stacks /\ Frames(store)[below] = SubSeq(frames, 1, k)
    BY DEF IsPushing
<1>2. /\ todo[1] = NameCall(frames[k + 1])
      /\ Tail(todo) = <<StackCall(frames, value, k + 1)>>
                         \o (After(Pairs(frames, value), k + 1) \o rest)
    <2>1. todo[1] # StackCall(frames, value, k + 1)
        BY CallDo
    <2>2. NextCall(store, todo, frames, value, k, rest)
        BY PushingCalls
    <2> QED BY <2>1, <2>2, Zenon DEF NextCall
<1>3. todo[1].arg = frames[k + 1]
    BY <1>2, CallDo
<1>4. /\ IsStore(new) /\ Sound(new) /\ Grows(store, new)
      /\ frames[k + 1] \in DOMAIN new.functionNameIds
    BY <1>3, NameAdded
<1>5. k > 0 => below \in DOMAIN new.stacks /\ Frames(new)[below] = SubSeq(frames, 1, k)
    <2> SUFFICES ASSUME k > 0
                 PROVE  below \in DOMAIN new.stacks /\ Frames(new)[below] = SubSeq(frames, 1, k)
        OBVIOUS
    <2>1. below \in DOMAIN new.stacks
        BY <1>1, <1>4 DEF Grows
    <2>2. below \in 0..(store.stackCount - 1)
        BY <1>1 DEF Sound, Interned, IsStore
    <2>3. Frames(new)[below] = Frames(store)[below]
        BY <1>4, <2>2, FramesKept
    <2> QED BY <1>1, <2>1, <2>3
<1> QED BY <1>1, <1>2, <1>4, <1>5 DEF IsPushing

(* One more element of a prefix. *)
LEMMA SubSeqMore ==
    ASSUME NEW T, NEW s \in Seq(T), NEW k \in 0..(Len(s) - 1)
    PROVE  SubSeq(s, 1, k + 1) = Append(IF k = 0 THEN << >> ELSE SubSeq(s, 1, k), s[k + 1])
<1>1. Len(s) \in Nat /\ k + 1 \in 1..Len(s) /\ 1 \in 1..Len(s) /\ k + 1 \in 1..Len(s)
    BY LenProperties
<1>2. SubSeq(s, 1, k + 1) = SubSeq(s, 1, (k + 1) - 1) \o <<s[k + 1]>>
    BY <1>1, SubSeqRecursiveSecond
<1>3. SubSeq(s, 1, k) \in Seq(T) /\ s[k + 1] \in T
    BY <1>1, SubSeqProperties, ElementOfSeq
<1>4. (k + 1) - 1 = k
    OBVIOUS
<1>5. SubSeq(s, 1, k + 1) = Append(SubSeq(s, 1, k), s[k + 1])
    BY <1>2, <1>3, <1>4, AppendIsConcat
<1>6. k = 0 => SubSeq(s, 1, k) = << >>
    BY SubSeqEmpty
<1> QED BY <1>5, <1>6

(* Only the bottom frame of a stack goes on the empty one. *)
LEMMA StackCallFirst ==
    \A frames, value, i : StackCall(frames, value, i).first <=> (i = 1)
BY DEF StackCall, Call

(* ... and its stack, on that of the frames below it.                      *)
LEMMA PushStack ==
    ASSUME NEW frames \in Seq(STRING), NEW value \in Int, NEW rest \in Seq(Calls),
           NEW store, IsStore(store), Sound(store), NEW todo, NEW below, NEW k,
           IsPushing(store, todo, below, frames, value, k, rest),
           todo[1].do = "AddStack",
           NEW stack, stack = PushedStack(store, todo[1], below),
           NEW new, new = AddStack(store, stack), NEW top, top = StackId(new, stack)
    PROVE  /\ stack.function \in DOMAIN store.functionNames
           /\ stack.bottom \in 0..(store.stackCount - 1)
           /\ top \in DOMAIN new.stacks
           /\ todo[1].value = IF k + 1 = Len(frames) THEN value ELSE kNotCounted
           /\ IF k + 1 = Len(frames) THEN Tail(todo) = rest /\ Frames(new)[top] = frames
              ELSE IsPushing(new, Tail(todo), top, frames, value, k + 1, rest)
<1> DEFINE more == After(Pairs(frames, value), k + 1) \o rest
<1>1. /\ k \in 0..(Len(frames) - 1) /\ Len(frames) \in Nat
      /\ k > 0 => below \in DOMAIN store.stacks /\ Frames(store)[below] = SubSeq(frames, 1, k)
    BY LenProperties DEF IsPushing
<1>2. /\ todo[1] = StackCall(frames, value, k + 1)
      /\ Tail(todo) = more
      /\ frames[k + 1] \in DOMAIN store.functionNameIds
    <2>1. todo[1] # NameCall(frames[k + 1])
        BY CallDo
    <2>2. NextCall(store, todo, frames, value, k, rest)
        BY PushingCalls
    <2> QED BY <2>1, <2>2, Zenon DEF NextCall
<1>3. /\ todo[1].arg = frames[k + 1] /\ (todo[1].first <=> k = 0)
      /\ todo[1].value = IF k + 1 = Len(frames) THEN value ELSE kNotCounted
    <2>1. todo[1].arg = frames[k + 1]
        BY <1>2 DEF StackCall, Call
    <2>2. todo[1].value = IF k + 1 = Len(frames) THEN value ELSE kNotCounted
        BY <1>2 DEF StackCall, Call
    <2>3. todo[1].first <=> (k + 1 = 1)
        BY <1>2, StackCallFirst, Zenon
    <2>4. k + 1 = 1 <=> k = 0
        BY <1>1
    <2> QED BY <2>1, <2>2, <2>3, <2>4, Zenon
<1>4. /\ stack.function = store.functionNameIds[frames[k + 1]]
      /\ stack.bottom = IF k = 0 THEN 0 ELSE below
    BY <1>1, <1>3 DEF PushedStack, Stack, FunctionNameId, kEmptyStackId
<1>5. /\ stack.function \in DOMAIN store.functionNames
      /\ store.functionNames[stack.function] = frames[k + 1]
    BY <1>2, <1>4 DEF Sound, Interned
<1>6. stack.bottom \in 0..(store.stackCount - 1)
    <2>1. 0 \in 0..(store.stackCount - 1) /\ DOMAIN store.stacks \subseteq 0..(store.stackCount - 1)
        BY DEF Sound, Interned, IsStore
    <2> QED BY <1>1, <1>4, <2>1
<1>7. /\ IsStore(new) /\ Sound(new) /\ Grows(store, new)
      /\ top \in DOMAIN new.stacks /\ new.stacks[top] = stack
      /\ new.functionNames = store.functionNames
    BY <1>5, <1>6, StackAdded
<1>8. Frames(new)[top] = SubSeq(frames, 1, k + 1)
    <2>1. Frames(new)[top] = Append(Frames(new)[stack.bottom], frames[k + 1])
        <3>1. HasFrames(new)
            BY <1>7, FramesAre
        <3>2. Frames(new)[top] = Append(Frames(new)[new.stacks[top].bottom],
                                        new.functionNames[new.stacks[top].function])
            BY <1>7, <3>1, Zenon DEF HasFrames
        <3> QED BY <1>5, <1>7, <3>2, Zenon
    <2>2. Frames(new)[stack.bottom] = IF k = 0 THEN << >> ELSE SubSeq(frames, 1, k)
        <3>1. CASE k = 0
            BY <1>4, <1>7, <3>1, FramesAre DEF HasFrames, kEmptyStackId
        <3>2. CASE k # 0
            BY <1>1, <1>4, <1>6, <1>7, <3>2, FramesKept
        <3> QED BY <3>1, <3>2
    <2> QED BY <1>1, <2>1, <2>2, SubSeqMore
<1>9. CASE k + 1 = Len(frames)
    <2>1. Frames(new)[top] = frames
        BY <1>8, <1>9, SubSeqFull
    <2>2. more = rest
        <3>1. Pairs(frames, value) \in Seq(Seq(Calls)) /\ Len(Pairs(frames, value)) = Len(frames)
            BY PairsType
        <3>2. After(Pairs(frames, value), Len(Pairs(frames, value))) = << >>
            BY <3>1, AfterAll
        <3>3. << >> \o rest = rest
            BY ConcatEmptySeq
        <3> QED BY <1>9, <3>1, <3>2, <3>3
    <2> QED BY <1>2, <1>3, <1>5, <1>6, <1>7, <1>9, <2>1, <2>2
<1>10. CASE k + 1 # Len(frames)
    <2>1. k + 1 \in 0..(Len(frames) - 1)
        BY <1>1, <1>10
    <2>2. IsPushing(new, more, top, frames, value, k + 1, rest)
        BY <1>7, <1>8, <2>1 DEF IsPushing
    <2> QED BY <1>2, <1>3, <1>5, <1>6, <1>7, <1>10, <2>2
<1> QED BY <1>9, <1>10

(* What has been counted stays the same when the store grows, ...          *)
LEMMA CountedKept ==
    ASSUME NEW store, NEW new, IsStore(store), IsStore(new), Sound(store), Sound(new),
           Grows(store, new), NEW amounts, NEW e, NEW s, HasCounted(store, amounts, e, s)
    PROVE  HasCounted(new, amounts, e, s)
<1>1. DOMAIN amounts \subseteq DOMAIN new.stacks
    BY DEF HasCounted, Grows
<1>2. \A id \in DOMAIN amounts : Frames(new)[id] = Frames(store)[id]
    <2>1. DOMAIN amounts \subseteq 0..(store.stackCount - 1)
        BY DEF HasCounted, Sound, Interned, IsStore
    <2>2. \A id \in 0..(store.stackCount - 1) : Frames(new)[id] = Frames(store)[id]
        BY FramesKept
    <2> QED BY <2>1, <2>2
<1>3. {[frames |-> Frames(new)[id], value |-> amounts[id]] : id \in DOMAIN amounts}
        = {[frames |-> Frames(store)[id], value |-> amounts[id]] : id \in DOMAIN amounts}
    BY <1>2
<1> QED BY <1>1, <1>3 DEF HasCounted

(* ... and has one more when a stack that was not counted before is.       *)
LEMMA CountedMore ==
    ASSUME NEW e \in Possible, NEW s \in 1..Len(SamplesOf(e)),
           NEW store, NEW amounts, HasCounted(store, amounts, e, s - 1), AreSamples(amounts),
           DOMAIN store.stacks \subseteq Int,
           NEW top \in DOMAIN store.stacks, Frames(store)[top] = SamplesOf(e)[s].frames,
           NEW more, more = With(amounts, top,
                                 SamplesOf(e)[s].value
                                   + (IF top \in DOMAIN amounts THEN amounts[top] ELSE 0))
    PROVE  HasCounted(store, more, e, s) /\ AreSamples(more)
<1> DEFINE list == SamplesOf(e)
           Sample(id, by) == [frames |-> Frames(store)[id], value |-> by[id]]
<1>1. /\ list \in Seq([frames : Seq(STRING) \ {<< >>}, value : Nat])
      /\ \A i, j \in DOMAIN list : list[i].frames = list[j].frames => i = j
    BY SamplesAssumption
<1>2. s \in 1..Len(list) /\ Len(list) \in Nat /\ DOMAIN list = 1..Len(list)
    BY <1>1, LenProperties
<1>3. /\ {Sample(id, amounts) : id \in DOMAIN amounts} = {list[i] : i \in 1..(s - 1)}
      /\ DOMAIN amounts \subseteq DOMAIN store.stacks
    BY DEF HasCounted
<1>4. list[s] = [frames |-> list[s].frames, value |-> list[s].value] /\ list[s].value \in Nat
    <2>1. list[s] \in [frames : Seq(STRING) \ {<< >>}, value : Nat]
        BY <1>1, <1>2, ElementOfSeq
    <2> QED BY <2>1
<1>5. top \notin DOMAIN amounts
    <2> SUFFICES ASSUME top \in DOMAIN amounts PROVE FALSE
        OBVIOUS
    <2>1. Sample(top, amounts) \in {list[i] : i \in 1..(s - 1)}
        BY <1>3
    <2>2. PICK i \in 1..(s - 1) : list[i] = Sample(top, amounts)
        BY <2>1
    <2>3. list[i].frames = Frames(store)[top]
        BY <2>2
    <2>4. list[i].frames = list[s].frames
        BY <2>3
    <2>5. i \in DOMAIN list /\ s \in DOMAIN list /\ i # s
        BY <1>2
    <2>6. i = s
        BY <1>1, <2>4, <2>5, Zenon
    <2> QED BY <2>5, <2>6
<1>6. /\ DOMAIN more = DOMAIN amounts \union {top} /\ more[top] = list[s].value
      /\ \A id \in DOMAIN amounts : more[id] = amounts[id]
    BY <1>4, <1>5 DEF With
<1>7. Sample(top, more) = list[s]
    BY <1>4, <1>6
<1>8. \A id \in DOMAIN amounts : Sample(id, more) = Sample(id, amounts)
    BY <1>6
<1> HIDE DEF Sample, list
<1>9. {Sample(id, more) : id \in DOMAIN more} = {list[i] : i \in 1..s}
    <2>1. {Sample(id, more) : id \in DOMAIN more}
            = {Sample(id, amounts) : id \in DOMAIN amounts} \union {list[s]}
        BY <1>6, <1>7, <1>8
    <2>2. {list[i] : i \in 1..s} = {list[i] : i \in 1..(s - 1)} \union {list[s]}
        <3>1. 1..s = 1..(s - 1) \union {s}
            BY <1>2
        <3> QED BY <3>1
    <2> QED BY <1>3, <2>1, <2>2
<1>10. HasCounted(store, more, e, s)
    BY <1>3, <1>6, <1>9 DEF HasCounted, Sample, list
<1>11. AreSamples(more)
    <2>1. IsFiniteSet(DOMAIN more)
        BY <1>6, FS_AddElement DEF AreSamples
    <2>2. \A id \in DOMAIN more : more[id] \in Int
        BY <1>4, <1>6 DEF AreSamples
    <2> QED BY <1>6, <2>1, <2>2 DEF AreSamples
<1> QED BY <1>10, <1>11

(* Between two stacks of an execution, or behind the last.                 *)
LEMMA SavingNext ==
    ASSUME NEW e \in Possible, NEW s \in 0..Len(SamplesOf(e)),
           NEW store, NEW amounts, HasCounted(store, amounts, e, s), NEW below,
           NEW todo, todo = After(Stacked(e), s) \o LastCalls(e)
    PROVE  IsSaving(store, todo, below, amounts, e)
<1> DEFINE list == SamplesOf(e)
<1>1. /\ list \in Seq([frames : Seq(STRING) \ {<< >>}, value : Nat])
      /\ Stacked(e) \in Seq(Seq(Calls)) /\ Len(Stacked(e)) = Len(list)
      /\ LastCalls(e) \in Seq(Calls) /\ Len(list) \in Nat
    BY StackedType, LenProperties
<1>2. CASE s = Len(list)
    <2>1. After(Stacked(e), s) = << >>
        BY <1>1, <1>2, AfterAll
    <2>2. << >> \o LastCalls(e) = LastCalls(e)
        BY <1>1, ConcatEmptySeq
    <2>3. todo = LastCalls(e)
        BY <2>1, <2>2
    <2> QED BY <1>2, <2>3 DEF IsSaving
<1>3. CASE s # Len(list)
    <2> DEFINE frames == list[s + 1].frames
               value == list[s + 1].value
               rest == After(Stacked(e), s + 1) \o LastCalls(e)
    <2>1. s + 1 \in 1..Len(list) /\ s \in 0..(Len(Stacked(e)) - 1) /\ s + 1 \in 0..Len(Stacked(e))
        BY <1>1, <1>3
    <2>2. list[s + 1] \in [frames : Seq(STRING) \ {<< >>}, value : Nat]
        BY <1>1, <2>1, ElementOfSeq
    <2>3. frames \in Seq(STRING) /\ frames # << >> /\ value \in Int /\ Len(frames) \in Nat
        BY <2>2, LenProperties
    <2>4. After(Stacked(e), s) = Pushes(frames, value) \o After(Stacked(e), s + 1)
        <3>1. Stacked(e)[s + 1] = Pushes(frames, value)
            BY <2>1, StackedType
        <3>2. After(Stacked(e), s) = Stacked(e)[s + 1] \o After(Stacked(e), s + 1)
            BY <1>1, <2>1, AfterOne
        <3> QED BY <3>1, <3>2
    <2>5. todo = Pushes(frames, value) \o rest
        <3>1. Pushes(frames, value) \in Seq(Calls)
            <4>1. Stacked(e)[s + 1] \in Seq(Calls)
                BY <1>1, <2>1, ElementOfSeq
            <4> QED BY <2>1, <4>1, StackedType
        <3>2. After(Stacked(e), s + 1) \in Seq(Calls)
            BY <1>1, <2>1, AfterType
        <3>3. todo = (Pushes(frames, value) \o After(Stacked(e), s + 1)) \o LastCalls(e)
            BY <2>4
        <3>4. (Pushes(frames, value) \o After(Stacked(e), s + 1)) \o LastCalls(e)
                = Pushes(frames, value) \o rest
            <4> DEFINE a == Pushes(frames, value)
                       b == After(Stacked(e), s + 1)
                       c == LastCalls(e)
            <4>1. a \in Seq(Calls) /\ b \in Seq(Calls) /\ c \in Seq(Calls)
                BY <1>1, <3>1, <3>2
            <4> HIDE DEF a, b, c
            <4>2. (a \o b) \o c = a \o (b \o c)
                BY <4>1, ConcatAssociative, SMTT(30)
            <4> QED BY <4>2, Zenon DEF a, b, c
        <3> QED BY <3>3, <3>4
    <2>6. IsPushing(store, todo, below, frames, value, 0, rest)
        BY <2>3, <2>5, PushStart
    <2>7. 0 \in 0..(Len(frames) - 1) /\ (s + 1) - 1 = s
        <3>1. 0 \in 0..(Len(frames) - 1)
            BY <2>6, Zenon DEF IsPushing
        <3>2. (s + 1) - 1 = s
            BY <1>1
        <3> QED BY <3>1, <3>2
    <2>8. HasCounted(store, amounts, e, (s + 1) - 1)
        BY <2>7
    <2> QED BY <2>1, <2>6, <2>7, <2>8, Zenon DEF IsSaving
<1> QED BY <1>2, <1>3

(* Before its first call, an execution is being saved with no sample
   counted. *)
LEMMA SavingStart ==
    ASSUME NEW e \in Possible, NEW store, NEW below
    PROVE  IsSaving(store, SaveCalls(e), below, << >>, e)
<1>1. HasCounted(store, << >>, e, 0)
    BY DEF HasCounted
<1>2. 0 \in 0..Len(SamplesOf(e))
    BY StackedType, LenProperties
<1> QED BY <1>1, <1>2, StackedType, SavingNext

(* The identifiers of stacks are numbers below the counter. *)
LEMMA StackIds ==
    ASSUME NEW store, IsStore(store), Sound(store)
    PROVE  /\ DOMAIN store.stacks \subseteq 0..(store.stackCount - 1)
           /\ DOMAIN store.stacks \subseteq Int
<1>1. DOMAIN store.stacks = 1..(store.stackCount - 1) /\ store.stackCount \in Nat
    BY DEF Sound, Interned, IsStore
<1> QED BY <1>1

(* The stack of a sample is not empty, and what follows it are calls. *)
LEMMA RestType ==
    ASSUME NEW e \in Possible, NEW s \in 1..Len(SamplesOf(e))
    PROVE  /\ SamplesOf(e)[s].frames \in Seq(STRING) /\ SamplesOf(e)[s].frames # << >>
           /\ SamplesOf(e)[s].value \in Nat /\ SamplesOf(e)[s].value \in Int
           /\ Len(SamplesOf(e)) \in Nat
           /\ After(Stacked(e), s) \o LastCalls(e) \in Seq(Calls)
<1>1. /\ SamplesOf(e) \in Seq([frames : Seq(STRING) \ {<< >>}, value : Nat])
      /\ Stacked(e) \in Seq(Seq(Calls)) /\ Len(Stacked(e)) = Len(SamplesOf(e))
      /\ LastCalls(e) \in Seq(Calls) /\ Len(SamplesOf(e)) \in Nat
    BY StackedType, LenProperties
<1>2. SamplesOf(e)[s] \in [frames : Seq(STRING) \ {<< >>}, value : Nat]
    BY <1>1, ElementOfSeq
<1>3. s \in 0..Len(Stacked(e))
    BY <1>1
<1>4. After(Stacked(e), s) \in Seq(Calls)
    BY <1>1, <1>3, AfterType
<1> QED BY <1>1, <1>2, <1>4, ConcatProperties, SMTT(30)

(* The calls of a save, one after the other: a name, ...                   *)
LEMMA SavingName ==
    ASSUME NEW e \in Possible, NEW store, IsStore(store), Sound(store),
           NEW todo, NEW below, NEW amounts, IsSaving(store, todo, below, amounts, e),
           todo[1].do = "AddFunctionName",
           NEW new, new = AddFunctionName(store, todo[1].arg)
    PROVE  IsSaving(new, Tail(todo), below, amounts, e)
<1> DEFINE list == SamplesOf(e)
<1>1. /\ IsStore(new) /\ Sound(new) /\ Grows(store, new)
      /\ todo[1].arg \in DOMAIN new.functionNameIds
    BY NameAdded
<1>2. ASSUME NEW s, HasCounted(store, amounts, e, s) PROVE HasCounted(new, amounts, e, s)
    BY <1>1, <1>2, CountedKept
<1>3. CASE \E s \in 1..Len(list) :
              /\ HasCounted(store, amounts, e, s - 1)
              /\ \E k \in 0..(Len(list[s].frames) - 1) :
                    IsPushing(store, todo, below, list[s].frames, list[s].value, k,
                              After(Stacked(e), s) \o LastCalls(e))
    <2>1. PICK s \in 1..Len(list) :
              /\ HasCounted(store, amounts, e, s - 1)
              /\ \E k \in 0..(Len(list[s].frames) - 1) :
                    IsPushing(store, todo, below, list[s].frames, list[s].value, k,
                              After(Stacked(e), s) \o LastCalls(e))
        BY <1>3
    <2>2. PICK k \in 0..(Len(list[s].frames) - 1) :
              IsPushing(store, todo, below, list[s].frames, list[s].value, k,
                        After(Stacked(e), s) \o LastCalls(e))
        BY <2>1
    <2>3. IsPushing(new, Tail(todo), below, list[s].frames, list[s].value, k,
                    After(Stacked(e), s) \o LastCalls(e))
        BY <2>2, RestType, PushName
    <2>4. HasCounted(new, amounts, e, s - 1)
        BY <1>2, <2>1
    <2> QED BY <2>3, <2>4, Zenon DEF IsSaving
<1>4. CASE /\ HasCounted(store, amounts, e, Len(list))
           /\ \/ todo = LastCalls(e)
              \/ /\ todo = <<NameCall(e.trace), PutCall>>
                 /\ e.name \in DOMAIN store.functionNameIds
              \/ /\ todo = <<PutCall>>
                 /\ {e.name, e.trace} \subseteq DOMAIN store.functionNameIds
    <2>1. HasCounted(new, amounts, e, Len(list))
        BY <1>2, <1>4
    <2>3. CASE todo = LastCalls(e)
        <3>1. todo[1] = NameCall(e.name) /\ Tail(todo) = <<NameCall(e.trace), PutCall>>
            BY <2>3 DEF LastCalls
        <3>2. e.name \in DOMAIN new.functionNameIds
            BY <1>1, <3>1, CallDo
        <3> QED BY <2>1, <3>1, <3>2 DEF IsSaving
    <2>4. CASE /\ todo = <<NameCall(e.trace), PutCall>>
               /\ e.name \in DOMAIN store.functionNameIds
        <3>1. todo[1] = NameCall(e.trace) /\ Tail(todo) = <<PutCall>>
            BY <2>4
        <3>2. {e.name, e.trace} \subseteq DOMAIN new.functionNameIds
            BY <1>1, <2>4, <3>1, CallDo DEF Grows
        <3> QED BY <2>1, <3>1, <3>2 DEF IsSaving
    <2>5. CASE todo = <<PutCall>>
        BY <2>5, CallDo
    <2> QED BY <1>4, <2>3, <2>4, <2>5
<1> QED BY <1>3, <1>4 DEF IsSaving

(* ... a stack, which counts for its value if it is one of the samples, ... *)
LEMMA SavingStack ==
    ASSUME NEW e \in Possible, NEW store, IsStore(store), Sound(store),
           NEW todo, NEW below, NEW amounts, AreSamples(amounts),
           IsSaving(store, todo, below, amounts, e),
           todo[1].do = "AddStack",
           NEW stack, stack = PushedStack(store, todo[1], below),
           NEW new, new = AddStack(store, stack), NEW top, top = StackId(new, stack),
           NEW more, more = CountedWith(amounts, todo[1], top)
    PROVE  /\ stack.function \in DOMAIN store.functionNames
           /\ stack.bottom \in 0..(store.stackCount - 1)
           /\ top \in DOMAIN new.stacks
           /\ AreSamples(more) /\ DOMAIN more \subseteq DOMAIN new.stacks
           /\ IsSaving(new, Tail(todo), top, more, e)
<1> DEFINE list == SamplesOf(e)
<1>1. PICK s \in 1..Len(list) :
          /\ HasCounted(store, amounts, e, s - 1)
          /\ \E k \in 0..(Len(list[s].frames) - 1) :
                IsPushing(store, todo, below, list[s].frames, list[s].value, k,
                          After(Stacked(e), s) \o LastCalls(e))
    <2>1. todo[1] # NameCall(e.name) /\ todo[1] # NameCall(e.trace) /\ todo[1] # PutCall
        BY CallDo
    <2>2. todo # LastCalls(e) /\ todo # <<NameCall(e.trace), PutCall>> /\ todo # <<PutCall>>
        BY <2>1 DEF LastCalls
    <2> QED BY <2>2, Zenon DEF IsSaving
<1> DEFINE frames == list[s].frames
           value == list[s].value
           rest == After(Stacked(e), s) \o LastCalls(e)
<1>2. PICK k \in 0..(Len(frames) - 1) : IsPushing(store, todo, below, frames, value, k, rest)
    BY <1>1
<1>3. /\ frames \in Seq(STRING) /\ frames # << >> /\ value \in Nat /\ value \in Int
      /\ Len(list) \in Nat /\ rest \in Seq(Calls)
    BY RestType
<1> HIDE DEF frames, value, rest
<1>4. /\ stack.function \in DOMAIN store.functionNames
      /\ stack.bottom \in 0..(store.stackCount - 1)
      /\ top \in DOMAIN new.stacks
      /\ todo[1].value = IF k + 1 = Len(frames) THEN value ELSE kNotCounted
      /\ IF k + 1 = Len(frames) THEN Tail(todo) = rest /\ Frames(new)[top] = frames
         ELSE IsPushing(new, Tail(todo), top, frames, value, k + 1, rest)
    BY <1>2, <1>3, PushStack, SMTT(30)
<1>5. IsStore(new) /\ Sound(new) /\ Grows(store, new)
    BY <1>4, StackAdded
<1>6. HasCounted(new, amounts, e, s - 1)
    BY <1>1, <1>5, CountedKept
<1>7. CASE k + 1 = Len(frames)
    <2>1. more = With(amounts, top,
                      value + (IF top \in DOMAIN amounts THEN amounts[top] ELSE 0))
        <3>1. todo[1].value = value /\ value # kNotCounted
            BY <1>3, <1>4, <1>7 DEF kNotCounted
        <3> QED BY <3>1 DEF CountedWith
    <2>2. DOMAIN new.stacks \subseteq Int
        BY <1>5, StackIds
    <2>3. Frames(new)[top] = list[s].frames
        BY <1>4, <1>7 DEF frames
    <2>4. HasCounted(new, more, e, s) /\ AreSamples(more)
        BY <1>4, <1>6, <2>1, <2>2, <2>3, CountedMore, SMTT(30) DEF value
    <2>5. s \in 0..Len(list)
        BY <1>3
    <2>6. Tail(todo) = After(Stacked(e), s) \o LastCalls(e)
        BY <1>4, <1>7 DEF rest
    <2>7. IsSaving(new, Tail(todo), top, more, e)
        BY <2>4, <2>5, <2>6, SavingNext
    <2> QED BY <1>4, <2>4, <2>7 DEF HasCounted
<1>8. CASE k + 1 # Len(frames)
    <2>1. more = amounts
        BY <1>4, <1>8 DEF CountedWith
    <2>2. k + 1 \in 0..(Len(frames) - 1)
        <3>1. Len(frames) \in Nat
            BY <1>3, LenProperties
        <3> QED BY <1>8, <3>1
    <2>3. IsPushing(new, Tail(todo), top, frames, value, k + 1, rest)
        BY <1>4, <1>8
    <2>4. IsSaving(new, Tail(todo), top, more, e)
        BY <1>6, <2>1, <2>2, <2>3, Zenon DEF IsSaving, frames, value, rest
    <2> QED BY <1>4, <1>6, <2>1, <2>4 DEF HasCounted
<1> QED BY <1>7, <1>8

(* ... and the execution, when everything has been counted.                *)
LEMMA SavingPut ==
    ASSUME NEW e \in Possible, NEW store, NEW todo, NEW below, NEW amounts,
           IsSaving(store, todo, below, amounts, e), todo[1].do = "Put"
    PROVE  /\ Tail(todo) = << >>
           /\ {e.name, e.trace} \subseteq DOMAIN store.functionNameIds
           /\ DOMAIN amounts \subseteq DOMAIN store.stacks
           /\ {[frames |-> Frames(store)[id], value |-> amounts[id]] : id \in DOMAIN amounts}
                = Range(SamplesOf(e))
<1>1. \A k : \A s \in 1..Len(SamplesOf(e)) :
         ~IsPushing(store, todo, below, SamplesOf(e)[s].frames, SamplesOf(e)[s].value, k,
                    After(Stacked(e), s) \o LastCalls(e))
    <2> SUFFICES ASSUME NEW s \in 1..Len(SamplesOf(e)), NEW k,
                        IsPushing(store, todo, below, SamplesOf(e)[s].frames,
                                  SamplesOf(e)[s].value, k, After(Stacked(e), s) \o LastCalls(e))
                 PROVE  FALSE
        OBVIOUS
    <2>1. NextCall(store, todo, SamplesOf(e)[s].frames, SamplesOf(e)[s].value, k,
                   After(Stacked(e), s) \o LastCalls(e))
        BY RestType, PushingCalls
    <2>2. /\ todo[1] # NameCall(SamplesOf(e)[s].frames[k + 1])
          /\ todo[1] # StackCall(SamplesOf(e)[s].frames, SamplesOf(e)[s].value, k + 1)
        BY CallDo
    <2> QED BY <2>1, <2>2, Zenon DEF NextCall
<1>2. /\ HasCounted(store, amounts, e, Len(SamplesOf(e)))
      /\ todo = <<PutCall>>
      /\ {e.name, e.trace} \subseteq DOMAIN store.functionNameIds
    <2>1. todo[1] # NameCall(e.name) /\ todo[1] # NameCall(e.trace)
        BY CallDo
    <2>2. todo # LastCalls(e) /\ todo # <<NameCall(e.trace), PutCall>>
        BY <2>1 DEF LastCalls
    <2> QED BY <1>1, <2>2, Zenon DEF IsSaving
<1>3. Tail(todo) = << >>
    BY <1>2
<1>4. {SamplesOf(e)[i] : i \in 1..Len(SamplesOf(e))} = Range(SamplesOf(e))
    <2>1. DOMAIN SamplesOf(e) = 1..Len(SamplesOf(e))
        BY StackedType, LenProperties
    <2> QED BY <2>1 DEF Range
<1> QED BY <1>2, <1>3, <1>4 DEF HasCounted

----------------------------------------------------------------------------
(* The trace.  One event more: a thread has begun an execution with it, or *)
(* had begun one before and the event is not of the thread.                *)
LEMMA BegunNext ==
    ASSUME NEW events, NEW n \in Nat, NEW t, NEW i
    PROVE  Begun(events, t, i, n + 1)
             <=> IF Of(events, t, n + 1) THEN i = n + 1 /\ events[n + 1].kind = "begin"
                 ELSE Begun(events, t, i, n)
<1>1. CASE Of(events, t, n + 1)
    <2>1. ASSUME Begun(events, t, i, n + 1), i # n + 1 PROVE FALSE
        <3>1. i \in 1..(n + 1)
            BY <2>1 DEF Begun
        <3>2. n + 1 \in (i + 1)..(n + 1)
            BY <2>1, <3>1
        <3> QED BY <1>1, <2>1, <3>2, Zenon DEF Begun
    <2>2. n + 1 \in 1..(n + 1) /\ (n + 1 + 1)..(n + 1) = {}
        OBVIOUS
    <2> QED BY <1>1, <2>1, <2>2 DEF Begun
<1>2. CASE ~Of(events, t, n + 1)
    <2>1. Begun(events, t, i, n + 1) => Begun(events, t, i, n)
        <3> SUFFICES ASSUME Begun(events, t, i, n + 1) PROVE Begun(events, t, i, n)
            OBVIOUS
        <3>1. i \in 1..(n + 1) /\ i # n + 1
            BY <1>2 DEF Begun
        <3>2. i \in 1..n /\ (i + 1)..n \subseteq (i + 1)..(n + 1)
            BY <3>1
        <3> QED BY <3>2 DEF Begun
    <2>2. Begun(events, t, i, n) => Begun(events, t, i, n + 1)
        <3> SUFFICES ASSUME Begun(events, t, i, n) PROVE Begun(events, t, i, n + 1)
            OBVIOUS
        <3>1. i \in 1..n
            BY DEF Begun
        <3>2. i \in 1..(n + 1) /\ (i + 1)..(n + 1) = (i + 1)..n \union {n + 1}
            BY <3>1
        <3> QED BY <1>2, <3>2 DEF Begun
    <2> QED BY <1>2, <2>1, <2>2
<1> QED BY <1>1, <1>2

(* What the trace has does not change when events are read behind it.      *)
Extends(more, events) ==
    /\ Len(events) <= Len(more)
    /\ \A k \in 1..Len(events) : more[k] = events[k]

(* What has happened in the trace does not change as it is read further:
   which execution is going on, ... *)
LEMMA BegunKept ==
    ASSUME NEW events \in Seq(Events), NEW more \in Seq(Events), Extends(more, events),
           NEW n \in 0..Len(events), NEW t, NEW i
    PROVE  Begun(more, t, i, n) <=> Begun(events, t, i, n)
<1>1. Len(events) \in Nat /\ 1..n \subseteq 1..Len(events)
    BY LenProperties
<1>2. \A k \in 1..n : more[k] = events[k]
    BY <1>1 DEF Extends
<1>3. \A k \in 1..n : Of(more, t, k) <=> Of(events, t, k)
    BY <1>2 DEF Of
<1>4. i \in 1..n => (i + 1)..n \subseteq 1..n
    BY <1>1
<1> QED BY <1>2, <1>3, <1>4 DEF Begun

(* ... which ones ran, and from when to when, ... *)
LEMMA RanKept ==
    ASSUME NEW events \in Seq(Events), NEW more \in Seq(Events), Extends(more, events),
           NEW t, NEW i \in 1..Len(events), NEW j \in 1..Len(events)
    PROVE  /\ Ran(more, t, i, j) <=> Ran(events, t, i, j)
           /\ Completed(more, t, i, j) = Completed(events, t, i, j)
<1>1. Len(events) \in Nat /\ j - 1 \in 0..Len(events)
    BY LenProperties
<1>2. more[i] = events[i] /\ more[j] = events[j]
    BY DEF Extends
<1>3. Of(more, t, j) <=> Of(events, t, j)
    BY <1>2 DEF Of
<1>4. Begun(more, t, i, j - 1) <=> Begun(events, t, i, j - 1)
    BY <1>1, BegunKept
<1>5. Ran(more, t, i, j) <=> Ran(events, t, i, j)
    BY <1>2, <1>3, <1>4 DEF Ran
<1> QED BY <1>2, <1>5 DEF Completed

(* ... and that an execution is one of them. *)
LEMMA RealKept ==
    ASSUME NEW events \in Seq(Events), NEW more \in Seq(Events), Extends(more, events),
           NEW e, NEW n \in 0..Len(events), NEW m \in n..Len(more), IsReal(events, e, n)
    PROVE  IsReal(more, e, m)
<1>1. Len(events) \in Nat /\ 1..n \subseteq 1..Len(events) /\ 1..n \subseteq 1..m
    BY LenProperties
<1>2. PICK t \in Threads, i \in 1..n, j \in 1..n :
          Ran(events, t, i, j) /\ e = Completed(events, t, i, j)
    BY DEF IsReal
<1>3. Ran(more, t, i, j) /\ e = Completed(more, t, i, j)
    BY <1>1, <1>2, RanKept
<1> QED BY <1>1, <1>3 DEF IsReal

(* A trace extends itself. *)
LEMMA ExtendsItself ==
    ASSUME NEW events \in Seq(Events)
    PROVE  Extends(events, events)
BY LenProperties DEF Extends

(* What is stored stays faithful to the trace as that is read further. *)
LEMMA FaithfulKept ==
    ASSUME NEW events \in Seq(Events), NEW more \in Seq(Events), Extends(more, events),
           NEW store, Faithful(store, events)
    PROVE  Faithful(store, more)
<1>1. Len(events) \in 0..Len(events) /\ Len(more) \in Len(events)..Len(more)
    BY LenProperties DEF Extends
<1>2. \A e : IsReal(events, e, Len(events)) => IsReal(more, e, Len(more))
    BY <1>1, RealKept
<1> QED BY <1>2 DEF Faithful

(* What is real by its definition in Saves is real by this one.            *)
LEMMA RealIsReal ==
    ASSUME NEW events \in Seq(Events), NEW e
    PROVE  e \in Real(events) <=> IsReal(events, e, Len(events))
<1> DEFINE n == Len(events)
           Runs(t, i, j) ==
               /\ i < j /\ Of(events, t, i) /\ Of(events, t, j)
               /\ events[i].kind = "begin" /\ events[j].kind = "end"
               /\ \A k \in (i + 1)..(j - 1) : ~Of(events, t, k)
           runs == {r \in Threads \X (1..n) \X (1..n) : Runs(r[1], r[2], r[3])}
<1>1. n \in Nat
    BY LenProperties
<1>2. \A t \in Threads, i, j \in 1..n : Ran(events, t, i, j) <=> Runs(t, i, j)
    <2> TAKE t \in Threads, i, j \in 1..n
    <2>1. i \in 1..(j - 1) <=> i < j
        BY <1>1
    <2> QED BY <2>1 DEF Ran, Begun
<1>3. Real(events) = {Completed(events, r[1], r[2], r[3]) : r \in runs}
    BY Zenon DEF Real, Of, Completed
<1> HIDE DEF Runs, n
<1>4. \A t \in Threads, i, j \in 1..n : <<t, i, j>> \in runs <=> Ran(events, t, i, j)
    BY <1>2
<1>5. ASSUME e \in Real(events) PROVE IsReal(events, e, n)
    <2>1. PICK r \in runs : e = Completed(events, r[1], r[2], r[3])
        BY <1>3, <1>5
    <2>2. r[1] \in Threads /\ r[2] \in 1..n /\ r[3] \in 1..n /\ Runs(r[1], r[2], r[3])
        BY <2>1
    <2>3. Ran(events, r[1], r[2], r[3])
        BY <1>2, <2>2
    <2> QED BY <2>1, <2>2, <2>3, Zenon DEF IsReal
<1>6. ASSUME IsReal(events, e, n) PROVE e \in Real(events)
    <2>1. PICK t \in Threads, i \in 1..n, j \in 1..n :
              Ran(events, t, i, j) /\ e = Completed(events, t, i, j)
        BY <1>6 DEF IsReal
    <2>2. <<t, i, j>> \in runs
        BY <1>4, <2>1
    <2>3. e = Completed(events, <<t, i, j>>[1], <<t, i, j>>[2], <<t, i, j>>[3])
        BY <2>1
    <2> HIDE DEF runs
    <2> QED BY <1>3, <2>2, <2>3, Zenon
<1> QED BY <1>5, <1>6 DEF n

(* The next event of the trace, which is not earlier than the last.        *)
LEMMA LeastThread == Min(Threads) \in Threads
<1>1. Threads \subseteq Nat /\ Threads # {}
    BY SavesAssumption
<1> DEFINE R == OpToRel(<, Nat)
<1>2. IsWellFoundedOn(R, Nat)
    BY NatLessThanWellFounded
<1>3. PICK x \in Threads : \A y \in Threads : <<y, x>> \notin R
    <2> HIDE DEF R
    <2> QED BY <1>1, <1>2, WFMin
<1>4. \A y \in Threads : x <= y
    <2> TAKE y \in Threads
    <2>1. ~(y < x)
        BY <1>1, <1>3 DEF OpToRel
    <2> QED BY <1>1, <2>1
<1>5. \E z \in Threads : \A y \in Threads : z <= y
    BY <1>4
<1> QED BY <1>5, Zenon DEF Min

(* A trace stays one when an event that is not earlier than the last is
   appended. *)
LEMMA EventAppended ==
    ASSUME NEW events, AreEvents(events), Len(events) < MaxEvents, NEW event \in Events,
           IF events = << >> THEN event.ts <= MaxFirstTs
           ELSE events[Len(events)].ts <= event.ts
                /\ event.ts <= events[Len(events)].ts + MaxStep
    PROVE  /\ AreEvents(Append(events, event))
           /\ Extends(Append(events, event), events)
           /\ Len(Append(events, event)) = Len(events) + 1
           /\ Append(events, event)[Len(events) + 1] = event
<1> DEFINE more == Append(events, event)
           n == Len(events)
<1>1. events \in Seq(Events) /\ n \in Nat
    BY LenProperties DEF AreEvents
<1>2. /\ more \in Seq(Events) /\ Len(more) = n + 1 /\ more[n + 1] = event
      /\ \A k \in 1..n : more[k] = events[k]
    BY <1>1, AppendProperties
<1>3. {MaxFirstTs, MaxStep, MaxEvents} \subseteq Nat
    BY SavesAssumption
<1>4. \A k \in 1..n : events[k].ts \in Nat
    <2> TAKE k \in 1..n
    <2>1. events[k] \in Events
        BY <1>1, ElementOfSeq
    <2> QED BY <2>1 DEF Events
<1>5. event.ts \in Nat
    BY DEF Events
<1>6. /\ \A i \in 1..n : events[i].ts <= MaxFirstTs + (i - 1) * MaxStep
      /\ \A i, j \in 1..n : i <= j => events[i].ts <= events[j].ts
    BY DEF AreEvents
<1>7. event.ts <= MaxFirstTs + ((n + 1) - 1) * MaxStep
    <2>1. CASE events = << >>
        <3>1. n = 0
            BY <2>1
        <3> HIDE DEF n
        <3> QED BY <1>3, <1>5, <2>1, <3>1
    <2>2. CASE events # << >>
        <3>1. n \in 1..n
            BY <1>1, <2>2, EmptySeq
        <3>2. events[n].ts <= MaxFirstTs + (n - 1) * MaxStep /\ events[n].ts \in Nat
            BY <1>4, <1>6, <3>1
        <3>3. event.ts <= events[n].ts + MaxStep
            BY <2>2
        <3> HIDE DEF n
        <3>4. (n - 1) * MaxStep + MaxStep = ((n + 1) - 1) * MaxStep
            BY <1>1, <1>3
        <3>5. (n - 1) * MaxStep \in Int /\ ((n + 1) - 1) * MaxStep \in Int
            BY <1>1, <1>3
        <3> DEFINE a == (n - 1) * MaxStep
                   b == ((n + 1) - 1) * MaxStep
        <3>6. a \in Int /\ b \in Int /\ a + MaxStep = b /\ events[n].ts <= MaxFirstTs + a
            BY <3>2, <3>4, <3>5
        <3> HIDE DEF a, b
        <3>7. \A x, y, f, s, u, v \in Int :
                 x <= y + s /\ y <= f + u /\ u + s = v => x <= f + v
            OBVIOUS
        <3>8. event.ts \in Int /\ MaxFirstTs \in Int /\ MaxStep \in Int /\ events[n].ts \in Int
            BY <1>3, <1>5, <3>2
        <3>9. event.ts <= MaxFirstTs + b
            BY <3>3, <3>6, <3>7, <3>8, Zenon
        <3> QED BY <3>9 DEF b
    <2> QED BY <2>1, <2>2
<1>8. \A i \in 1..n : events[i].ts <= event.ts
    <2> TAKE i \in 1..n
    <2>1. events # << >> /\ n \in 1..n /\ i <= n
        BY <1>1, EmptySeq
    <2>2. events[i].ts <= events[n].ts
        BY <1>6, <2>1
    <2>3. events[n].ts <= event.ts
        BY <2>1
    <2>4. events[i].ts \in Nat /\ events[n].ts \in Nat
        BY <1>4, <2>1
    <2> QED BY <1>5, <2>2, <2>3, <2>4
<1> HIDE DEF more, n
<1>9. \A i \in 1..(n + 1) : i \in 1..n \/ i = n + 1
    BY <1>1
<1>10. \A i \in 1..(n + 1) : more[i].ts <= MaxFirstTs + (i - 1) * MaxStep
    BY <1>2, <1>6, <1>7, <1>9
<1>11. \A i, j \in 1..(n + 1) : i <= j => more[i].ts <= more[j].ts
    <2> TAKE i, j \in 1..(n + 1)
    <2>1. CASE j \in 1..n
        <3>1. i <= j => i \in 1..n
            BY <1>1, <2>1
        <3> QED BY <1>2, <1>6, <2>1, <3>1
    <2>2. CASE j = n + 1
        BY <1>2, <1>5, <1>8, <1>9, <2>2
    <2> QED BY <1>9, <2>1, <2>2
<1>12. AreEvents(more)
    BY <1>1, <1>2, <1>3, <1>10, <1>11 DEF AreEvents, n
<1>13. Extends(more, events)
    BY <1>1, <1>2 DEF Extends, n
<1> QED BY <1>2, <1>12, <1>13 DEF more, n

(* Its times are those that an execution can have.                         *)
LEMMA EventType ==
    ASSUME NEW events, AreEvents(events), NEW i \in 1..Len(events)
    PROVE  events[i] \in Events /\ events[i].ts \in Times /\ events[i].ts \in Nat
<1>1. /\ events \in Seq(Events) /\ Len(events) \in Nat /\ Len(events) <= MaxEvents
      /\ events[i].ts <= MaxFirstTs + (i - 1) * MaxStep
    BY LenProperties DEF AreEvents
<1>2. events[i] \in Events
    BY <1>1, ElementOfSeq
<1>3. events[i].ts \in Nat
    BY <1>2 DEF Events
<1>4. {MaxFirstTs, MaxStep, MaxEvents} \subseteq Nat
    BY SavesAssumption
<1>5. (i - 1) * MaxStep <= MaxEvents * MaxStep
    <2>1. i - 1 \in Nat /\ MaxEvents - (i - 1) \in Nat
        BY <1>1, <1>4
    <2>2. \A a, b \in Nat : a * b \in Nat
        OBVIOUS
    <2>3. (MaxEvents - (i - 1)) * MaxStep \in Nat
        BY <1>4, <2>1, <2>2
    <2>4. (MaxEvents - (i - 1)) * MaxStep = MaxEvents * MaxStep - (i - 1) * MaxStep
        BY <1>4, <2>1
    <2>5. MaxEvents * MaxStep \in Int /\ (i - 1) * MaxStep \in Int
        BY <1>4, <2>1
    <2> QED BY <2>3, <2>4, <2>5
<1>6. (i - 1) * MaxStep \in Int /\ MaxEvents * MaxStep \in Int
    BY <1>1, <1>4
<1>7. events[i].ts \in Times
    <2> DEFINE a == (i - 1) * MaxStep
               b == MaxEvents * MaxStep
    <2>1. a \in Int /\ b \in Int /\ a <= b /\ events[i].ts <= MaxFirstTs + a
        BY <1>1, <1>5, <1>6
    <2> HIDE DEF a, b
    <2>2. \A x, f, u, v \in Int : x <= f + u /\ u <= v => x <= f + v
        OBVIOUS
    <2>3. events[i].ts \in Int /\ MaxFirstTs \in Int
        BY <1>3, <1>4
    <2>4. events[i].ts <= MaxFirstTs + b
        BY <2>1, <2>2, <2>3, Zenon
    <2> QED BY <1>3, <2>4 DEF Times, b
<1> QED BY <1>2, <1>3, <1>7

----------------------------------------------------------------------------
(* The builder.  Every execution needs its end: none is ended for it.      *)
LEMMA TerminateNone ==
    ASSUME NEW b, \A t \in DOMAIN b.needsToEnd : b.needsToEnd[t] = TRUE
    PROVE  Terminate(b) = b
<1>1. {t \in DOMAIN b.needsToEnd : ~b.needsToEnd[t]} = {}
    BY Zenon
<1> DEFINE F(iter) ==
        [s \in SUBSET {} |->
            IF s = {} THEN b
            ELSE LET x == Max(s) IN EndExecution(iter[s \ {x}], x)]
<1>2. \E iter : iter = F(iter)
    <2> DEFINE iter == [s \in SUBSET {} |-> b]
    <2>1. \A s \in SUBSET {} : s = {}
        OBVIOUS
    <2>2. iter = F(iter)
        BY <2>1, Zenon
    <2> QED BY <2>2
<1> DEFINE iter == CHOOSE iter : iter = F(iter)
<1>3. iter = F(iter)
    BY <1>2, Zenon
<1>4. Terminate(b) = iter[{}]
    BY <1>1, Zenon DEF Terminate, MapThenFoldSet
<1> HIDE DEF iter
<1>5. iter[{}] = b
    BY <1>3, Zenon
<1> QED BY <1>4, <1>5

(* Setting the time of the builder changes nothing else of it. *)
LEMMA TimestampSet ==
    ASSUME NEW b, NEW events \in Seq(Events), NEW h \in 0..Len(events),
           BuilderFits(b, events, h), NEW more \in Seq(Events), Extends(more, events),
           NEW ts, NEW new, new = SetTimestamp(b, ts)
    PROVE  /\ BuilderFits(new, more, h) /\ new.ts = ts /\ new.completed = b.completed
           /\ Terminate(new) = new
<1>1. /\ b = [ts |-> b.ts, completed |-> b.completed,
              active |-> b.active, needsToEnd |-> b.needsToEnd]
      /\ \A t \in DOMAIN b.needsToEnd : b.needsToEnd[t] = TRUE
      /\ \A k \in 1..Len(b.completed) : IsReal(events, b.completed[k], h)
    BY DEF BuilderFits
<1>2. new = [ts |-> ts, completed |-> b.completed,
             active |-> b.active, needsToEnd |-> b.needsToEnd]
    BY <1>1 DEF SetTimestamp
<1>3. /\ new.ts = ts /\ new.completed = b.completed
      /\ new.active = b.active /\ new.needsToEnd = b.needsToEnd
    BY <1>2
<1>4. Terminate(new) = new
    BY <1>1, <1>3, TerminateNone
<1>5. 1..h \subseteq 1..Len(events) /\ h \in h..Len(more)
    BY LenProperties DEF Extends
<1>6. \A t, i : Begun(more, t, i, h) <=> Begun(events, t, i, h)
    BY BegunKept
<1>7. \A i \in 1..h : more[i] = events[i]
    BY <1>5 DEF Extends
<1>8. \A k \in 1..Len(new.completed) : IsReal(more, new.completed[k], h)
    BY <1>1, <1>3, <1>5, RealKept
<1>9. BuilderFits(new, more, h)
    BY <1>2, <1>3, <1>6, <1>7, <1>8 DEF BuilderFits
<1> QED BY <1>3, <1>4, <1>9

(* A thread is in at most one execution. *)
LEMMA BegunOnce ==
    ASSUME NEW events, NEW t, NEW n \in Nat, NEW i, NEW j,
           Begun(events, t, i, n), Begun(events, t, j, n)
    PROVE  i = j
<1>1. i \in 1..n /\ j \in 1..n /\ Of(events, t, i) /\ Of(events, t, j)
    BY DEF Begun
<1>2. i \notin (j + 1)..n /\ j \notin (i + 1)..n
    BY <1>1, Zenon DEF Begun
<1> QED BY <1>1, <1>2

(* An event that PunchBlock is not told of.                                *)
LEMMA FitsNext ==
    ASSUME NEW events \in Seq(Events), NEW h \in Nat, h + 1 \in 1..Len(events),
           NEW b, BuilderFits(b, events, h), \A t : ~Of(events, t, h + 1)
    PROVE  BuilderFits(b, events, h + 1)
<1>1. \A t, i : Begun(events, t, i, h + 1) <=> Begun(events, t, i, h)
    BY BegunNext
<1>2. 1..h \subseteq 1..(h + 1) /\ \A t, i : Begun(events, t, i, h) => i \in 1..h
    BY DEF Begun
<1>3. h \in 0..Len(events) /\ h + 1 \in h..Len(events)
    BY LenProperties
<1>4. \A e : IsReal(events, e, h) => IsReal(events, e, h + 1)
    BY <1>3, ExtendsItself, RealKept
<1>5. \A t \in DOMAIN b.active :
          /\ t \in Threads
          /\ \E i \in 1..(h + 1) : /\ Begun(events, t, i, h + 1)
                                   /\ b.active[t] = Execution(Name, t, events[i].ts)
    BY <1>1, <1>2 DEF BuilderFits
<1>6. \A t \in Threads, i \in 1..(h + 1) :
          Begun(events, t, i, h + 1) => t \in DOMAIN b.active
    BY <1>1, <1>2 DEF BuilderFits
<1>7. \A k \in 1..Len(b.completed) : IsReal(events, b.completed[k], h + 1)
    BY <1>4 DEF BuilderFits
<1> QED BY <1>5, <1>6, <1>7 DEF BuilderFits


(* The builder after a begin ... *)
AfterBegin(b, t) == IF TidIsAnalyzed(t) THEN StartExecution(b, t, Name, TRUE) ELSE b

(* ... and after an end, which PunchBlock passes on for the threads that
   are analyzed. *)
AfterEnd(b, t) == IF TidIsAnalyzed(t) THEN EndExecution(b, t) ELSE b

(* One that begins an execution.                                           *)
LEMMA ExecutionStarted ==
    ASSUME NEW events, AreEvents(events), NEW h \in Nat, NEW n, n = h + 1, n \in 1..Len(events),
           NEW b, BuilderFits(b, events, h), b.ts = events[n].ts,
           events[n].kind = "begin", NEW t, t = events[n].thread,
           NEW new, new = AfterBegin(b, t)
    PROVE  BuilderFits(new, events, n) /\ new.ts = b.ts /\ new.completed = b.completed
<1>1. events \in Seq(Events)
    BY DEF AreEvents
<1>2. CASE ~TidIsAnalyzed(t)
    <2>1. \A u : ~Of(events, u, n)
        BY <1>2 DEF Of
    <2>2. new = b
        BY <1>2 DEF AfterBegin
    <2> QED BY <1>1, <2>1, <2>2, FitsNext
<1>3. CASE TidIsAnalyzed(t)
    <2>1. \A u : Of(events, u, n) <=> u = t
        BY <1>3 DEF Of
    <2>2. t \in Threads
        BY EventType DEF Events
    <2>3. /\ b = [ts |-> b.ts, completed |-> b.completed,
                  active |-> b.active, needsToEnd |-> b.needsToEnd]
          /\ DOMAIN b.active \subseteq DOMAIN b.needsToEnd
          /\ \A u \in DOMAIN b.needsToEnd : b.needsToEnd[u] = TRUE
          /\ \A u \in DOMAIN b.active :
                /\ u \in Threads
                /\ \E i \in 1..h : /\ Begun(events, u, i, h)
                                   /\ b.active[u] = Execution(Name, u, events[i].ts)
          /\ \A u \in Threads, i \in 1..h : Begun(events, u, i, h) => u \in DOMAIN b.active
          /\ b.completed \in Seq(Possible)
          /\ \A k \in 1..Len(b.completed) : IsReal(events, b.completed[k], h)
        BY DEF BuilderFits
    <2> DEFINE started == With(b.active, t, Execution(Name, t, b.ts))
               ends == With(b.needsToEnd, t, TRUE)
    <2>4. /\ new = [ts |-> new.ts, completed |-> new.completed,
                    active |-> new.active, needsToEnd |-> new.needsToEnd]
          /\ new.ts = b.ts /\ new.completed = b.completed
          /\ new.active = started /\ new.needsToEnd = ends
        <3>1. new = [b EXCEPT !.active = started, !.needsToEnd = ends]
            BY <1>3, Zenon DEF StartExecution, AfterBegin
        <3> HIDE DEF started, ends
        <3> QED BY <2>3, <3>1
    <2>5. /\ new.ts = b.ts /\ new.completed = b.completed
          /\ DOMAIN new.active = DOMAIN b.active \union {t}
          /\ DOMAIN new.needsToEnd = DOMAIN b.needsToEnd \union {t}
          /\ new.active[t] = Execution(Name, t, events[n].ts)
          /\ \A u \in DOMAIN b.active : u # t => new.active[u] = b.active[u]
        <3>1. /\ DOMAIN started = DOMAIN b.active \union {t}
              /\ started[t] = Execution(Name, t, b.ts)
              /\ \A u \in DOMAIN b.active : u # t => started[u] = b.active[u]
            <4> DEFINE x == Execution(Name, t, b.ts)
            <4> HIDE DEF x
            <4>1. started = With(b.active, t, x)
                BY DEF x
            <4> HIDE DEF started
            <4>2. /\ DOMAIN started = DOMAIN b.active \union {t} /\ started[t] = x
                  /\ \A u \in DOMAIN b.active : u # t => started[u] = b.active[u]
                BY <4>1 DEF With
            <4> QED BY <4>2 DEF x
        <3>2. DOMAIN ends = DOMAIN b.needsToEnd \union {t}
            BY DEF With
        <3> HIDE DEF started, ends
        <3> QED BY <2>4, <3>1, <3>2
    <2>6. \A u \in DOMAIN new.needsToEnd : new.needsToEnd[u] = TRUE
        <3>1. \A u \in DOMAIN b.needsToEnd : b.needsToEnd[u] = TRUE
            BY <2>3
        <3>2. \A u \in DOMAIN ends : ends[u] = TRUE
            BY <3>1, Zenon DEF With
        <3>3. new.needsToEnd = ends
            BY <2>4, Zenon
        <3> HIDE DEF ends
        <3> QED BY <3>2, <3>3, Zenon
    <2>7. /\ \A i : Begun(events, t, i, n) <=> i = n
          /\ \A u, i : u # t => (Begun(events, u, i, n) <=> Begun(events, u, i, h))
        BY <2>1, BegunNext
    <2>8. h \in 0..Len(events) /\ n \in h..Len(events) /\ 1..h \subseteq 1..n
        BY <1>1, LenProperties
    <2>9. \A e : IsReal(events, e, h) => IsReal(events, e, n)
        BY <1>1, <2>8, ExtendsItself, RealKept
    <2>10. \A u \in DOMAIN new.active :
              /\ u \in Threads
              /\ \E i \in 1..n : /\ Begun(events, u, i, n)
                                       /\ new.active[u] = Execution(Name, u, events[i].ts)
        <3> TAKE u \in DOMAIN new.active
        <3>1. CASE u = t
            <4>1. n \in 1..n /\ Begun(events, t, n, n)
                BY <2>7
            <4> QED BY <2>2, <2>5, <3>1, <4>1, Zenon
        <3>2. CASE u # t
            <4>1. u \in DOMAIN b.active /\ new.active[u] = b.active[u]
                BY <2>5, <3>2, Zenon
            <4>2. PICK i \in 1..h : /\ Begun(events, u, i, h)
                                    /\ b.active[u] = Execution(Name, u, events[i].ts)
                BY <2>3, <4>1, Zenon
            <4>3. i \in 1..n /\ Begun(events, u, i, n) /\ u \in Threads
                BY <2>3, <2>7, <2>8, <3>2, <4>1, <4>2, Zenon
            <4> QED BY <4>1, <4>2, <4>3, Zenon
        <3> QED BY <3>1, <3>2
    <2>11. \A u \in Threads, i \in 1..n :
              Begun(events, u, i, n) => u \in DOMAIN new.active
        <3> TAKE u \in Threads, i \in 1..n
        <3>1. CASE u # t
            <4>1. Begun(events, u, i, h) => i \in 1..h
                BY DEF Begun
            <4> QED BY <2>3, <2>5, <2>7, <3>1, <4>1
        <3> QED BY <2>5, <3>1
    <2>12. BuilderFits(new, events, n)
        BY <2>3, <2>4, <2>5, <2>6, <2>9, <2>10, <2>11 DEF BuilderFits
    <2> QED BY <2>5, <2>12
<1> QED BY <1>2, <1>3

(* One that ends an execution, if its thread has begun one.                *)
LEMMA CompletedType ==
    ASSUME NEW events, AreEvents(events), NEW n \in 0..Len(events), NEW e, IsReal(events, e, n)
    PROVE  /\ e \in Possible /\ HasNumbers(e)
           /\ e = [name |-> e.name, trace |-> e.trace, startTs |-> e.startTs,
                   startThread |-> e.startThread, endTs |-> e.endTs, endThread |-> e.endThread]
<1>1. PICK t \in Threads, i \in 1..n, j \in 1..n : e = Completed(events, t, i, j)
    BY DEF IsReal
<1>2. i \in 1..Len(events) /\ j \in 1..Len(events)
    BY LenProperties DEF AreEvents
<1>3. events[i].ts \in Times /\ events[j].ts \in Times /\ events[i].ts \in Nat /\ events[j].ts \in Nat
    BY <1>2, EventType
<1>4. t \in Nat
    BY SavesAssumption
<1>5. e = [name |-> Name, trace |-> "", startTs |-> events[i].ts, startThread |-> t,
           endTs |-> events[j].ts, endThread |-> t]
    BY <1>1 DEF Completed
<1>6. e \in Possible
    <2> DEFINE x == events[i].ts
               y == events[j].ts
    <2> HIDE DEF x, y
    <2>1. x \in Times /\ y \in Times /\ Name \in {Name} /\ "" \in {""}
        BY <1>3 DEF x, y
    <2> QED BY <1>5, <2>1 DEF Possible, x, y
<1>7. /\ e.startTs \in Nat /\ e.startThread \in Nat /\ e.endTs \in Nat /\ e.endThread \in Nat
    BY <1>3, <1>4, <1>5
<1>8. HasNumbers(e)
    BY <1>7 DEF HasNumbers
<1>9. e = [name |-> e.name, trace |-> e.trace, startTs |-> e.startTs,
           startThread |-> e.startThread, endTs |-> e.endTs, endThread |-> e.endThread]
    BY <1>5
<1> QED BY <1>6, <1>8, <1>9

(* Ending an execution sets its two last fields. *)
LEMMA EndSet ==
    ASSUME NEW name, NEW begin, NEW t, NEW ts,
           NEW e, e = [name |-> name, trace |-> "", startTs |-> begin,
                       startThread |-> t, endTs |-> begin, endThread |-> t],
           NEW r, r = [e EXCEPT !.endTs = ts, !.endThread = t]
    PROVE  r = [name |-> name, trace |-> "", startTs |-> begin,
                startThread |-> t, endTs |-> ts, endThread |-> t]
<1>1. /\ DOMAIN r = DOMAIN e /\ r.name = name /\ r.trace = "" /\ r.startTs = begin
      /\ r.startThread = t /\ r.endTs = ts /\ r.endThread = t
    OBVIOUS
<1>2. r = [field \in DOMAIN r |-> r[field]]
    OBVIOUS
<1>3. DOMAIN r = {"name", "trace", "startTs", "startThread", "endTs", "endThread"}
    BY <1>1
<1> QED BY <1>1, <1>2, <1>3

(* At an end, the execution that the thread is in becomes a completed
   one, and it is the one that ran to this event; if there is none, none
   ran. *)
LEMMA ExecutionEnded ==
    ASSUME NEW events, AreEvents(events), NEW h \in Nat, NEW n, n = h + 1, n \in 1..Len(events),
           NEW b, BuilderFits(b, events, h), b.ts = events[n].ts,
           events[n].kind = "end", NEW t, t = events[n].thread,
           NEW new, new = AfterEnd(b, t)
    PROVE  /\ BuilderFits(new, events, n) /\ new.ts = b.ts
           /\ \/ /\ new.completed = b.completed
                 /\ \A u, i : ~Ran(events, u, i, n)
              \/ \E e \in Possible :
                    /\ new.completed = Append(b.completed, e) /\ e.endTs = b.ts
                    /\ \A u, i : Ran(events, u, i, n) => Completed(events, u, i, n) = e
<1>1. /\ events \in Seq(Events) /\ Len(events) \in Nat
      /\ h \in 0..Len(events) /\ n \in h..Len(events) /\ 1..h \subseteq 1..n
      /\ (n) - 1 = h
    BY LenProperties DEF AreEvents
<1>2. t \in Threads
    BY EventType DEF Events
<1>3. /\ b = [ts |-> b.ts, completed |-> b.completed,
              active |-> b.active, needsToEnd |-> b.needsToEnd]
      /\ DOMAIN b.active \subseteq DOMAIN b.needsToEnd
      /\ \A u \in DOMAIN b.needsToEnd : b.needsToEnd[u] = TRUE
      /\ \A u \in DOMAIN b.active :
            /\ u \in Threads
            /\ \E i \in 1..h : /\ Begun(events, u, i, h)
                               /\ b.active[u] = Execution(Name, u, events[i].ts)
      /\ \A u \in Threads, i \in 1..h : Begun(events, u, i, h) => u \in DOMAIN b.active
      /\ b.completed \in Seq(Possible)
      /\ \A k \in 1..Len(b.completed) : IsReal(events, b.completed[k], h)
    BY DEF BuilderFits
<1>4. \A e : IsReal(events, e, h) => IsReal(events, e, n)
    BY <1>1, ExtendsItself, RealKept
<1>5. CASE ~TidIsAnalyzed(t)
    <2>1. \A u : ~Of(events, u, n)
        BY <1>5 DEF Of
    <2>2. new = b
        BY <1>5 DEF AfterEnd
    <2>3. \A u, i : ~Ran(events, u, i, n)
        BY <2>1 DEF Ran
    <2> QED BY <1>1, <2>1, <2>2, <2>3, FitsNext
<1>6. CASE TidIsAnalyzed(t)
    <2>1. \A u : Of(events, u, n) <=> u = t
        BY <1>6 DEF Of
    <2>2. /\ \A i : ~Begun(events, t, i, n)
          /\ \A u, i : u # t => (Begun(events, u, i, n) <=> Begun(events, u, i, h))
        BY <2>1, BegunNext
    <2>3. \A u, i : Ran(events, u, i, n) => u = t /\ i \in 1..h /\ Begun(events, t, i, h)
        BY <1>1, <2>1 DEF Ran, Begun
    <2>4. CASE t \notin DOMAIN b.active
        <3>1. new = b
            BY <1>6, <2>4 DEF EndExecution, AfterEnd
        <3>2. \A i \in 1..h : ~Begun(events, t, i, h)
            BY <1>2, <1>3, <2>4
        <3>3. \A u, i : Begun(events, u, i, n) <=> Begun(events, u, i, h)
            <4> TAKE u, i
            <4>1. Begun(events, t, i, h) => i \in 1..h
                BY DEF Begun
            <4> QED BY <2>2, <3>2, <4>1
        <3>4. \A u \in DOMAIN b.active :
                 /\ u \in Threads
                 /\ \E i \in 1..n : /\ Begun(events, u, i, n)
                                          /\ b.active[u] = Execution(Name, u, events[i].ts)
            BY <1>1, <1>3, <3>3
        <3>5. \A u \in Threads, i \in 1..n :
                 Begun(events, u, i, n) => u \in DOMAIN b.active
            <4> TAKE u \in Threads, i \in 1..n
            <4>1. Begun(events, u, i, h) => i \in 1..h
                BY DEF Begun
            <4> QED BY <1>3, <3>3, <4>1
        <3>6. BuilderFits(b, events, n)
            BY <1>3, <1>4, <3>4, <3>5 DEF BuilderFits
        <3> QED BY <2>3, <3>1, <3>2, <3>6
    <2>5. CASE t \in DOMAIN b.active
        <3>1. PICK i \in 1..h : /\ Begun(events, t, i, h)
                                /\ b.active[t] = Execution(Name, t, events[i].ts)
            BY <1>3, <2>5
        <3> DEFINE e == Completed(events, t, i, n)
                   left == Restrict(b.active, DOMAIN b.active \ {t})
        <3>2. [b.active[t] EXCEPT !.endTs = b.ts, !.endThread = t] = e
            <4> DEFINE x == b.active[t]
                       r == [x EXCEPT !.endTs = b.ts, !.endThread = t]
                       begin == events[i].ts
                       ts == b.ts
            <4>1. x = [name |-> Name, trace |-> "", startTs |-> begin,
                       startThread |-> t, endTs |-> begin, endThread |-> t]
                BY <3>1 DEF Execution
            <4>2. e = [name |-> Name, trace |-> "", startTs |-> begin,
                       startThread |-> t, endTs |-> ts, endThread |-> t]
                BY DEF Completed
            <4>3. r = [x EXCEPT !.endTs = ts, !.endThread = t]
                OBVIOUS
            <4> HIDE DEF e, r, x, begin, ts
            <4>4. r = [name |-> Name, trace |-> "", startTs |-> begin,
                       startThread |-> t, endTs |-> ts, endThread |-> t]
                BY <4>1, <4>3, EndSet
            <4>5. r = e
                BY <4>2, <4>4
            <4> QED BY <4>5, Zenon DEF r, x
        <3>3. new = [b EXCEPT !.completed = Append(b.completed, e), !.active = left]
            BY <1>6, <2>5, <3>2, Zenon DEF EndExecution, AfterEnd
        <3>4. DOMAIN left = DOMAIN b.active \ {t} /\ \A u \in DOMAIN left : left[u] = b.active[u]
            BY DEF Restrict
        <3>5. e.endTs = b.ts
            BY DEF Completed
        <3>6. IsReal(events, e, n)
            <4>1. Ran(events, t, i, n)
                BY <1>1, <2>1, <3>1 DEF Ran
            <4>2. n \in 1..n /\ i \in 1..n
                BY <1>1
            <4> QED BY <1>2, <4>1, <4>2 DEF IsReal
        <3>7. e \in Possible
            <4>1. n \in 0..Len(events)
                BY <1>1
            <4> QED BY <3>6, <4>1, CompletedType
        <3>8. \A u, j : Ran(events, u, j, n) => Completed(events, u, j, n) = e
            BY <2>3, <3>1, BegunOnce
        <3> HIDE DEF e, left
        <3>9. /\ new = [ts |-> new.ts, completed |-> new.completed,
                        active |-> new.active, needsToEnd |-> new.needsToEnd]
              /\ new.ts = b.ts /\ new.completed = Append(b.completed, e)
              /\ new.active = left /\ new.needsToEnd = b.needsToEnd
            BY <1>3, <3>3
        <3>10. \A u \in DOMAIN left :
                 /\ u \in Threads
                 /\ \E j \in 1..n : /\ Begun(events, u, j, n)
                                          /\ left[u] = Execution(Name, u, events[j].ts)
            <4> TAKE u \in DOMAIN left
            <4>1. u \in DOMAIN b.active /\ u # t /\ left[u] = b.active[u]
                BY <3>4
            <4>2. PICK j \in 1..h : /\ Begun(events, u, j, h)
                                    /\ b.active[u] = Execution(Name, u, events[j].ts)
                BY <1>3, <4>1, Zenon
            <4>3. j \in 1..n /\ Begun(events, u, j, n) /\ u \in Threads
                BY <1>1, <1>3, <2>2, <4>1, <4>2, Zenon
            <4> QED BY <4>1, <4>2, <4>3, Zenon
        <3>11. \A u \in Threads, j \in 1..n :
                 Begun(events, u, j, n) => u \in DOMAIN left
            <4> TAKE u \in Threads, j \in 1..n
            <4>1. Begun(events, u, j, h) => j \in 1..h
                BY DEF Begun
            <4> QED BY <1>3, <2>2, <3>4, <4>1
        <3>12. /\ Append(b.completed, e) \in Seq(Possible)
               /\ \A k \in 1..Len(Append(b.completed, e)) :
                     IsReal(events, Append(b.completed, e)[k], n)
            <4>1. /\ Append(b.completed, e) \in Seq(Possible)
                  /\ Len(Append(b.completed, e)) = Len(b.completed) + 1
                  /\ \A k \in 1..Len(b.completed) : Append(b.completed, e)[k] = b.completed[k]
                  /\ Append(b.completed, e)[Len(b.completed) + 1] = e
                  /\ Len(b.completed) \in Nat
                BY <1>3, <3>7, AppendProperties, LenProperties
            <4>2. \A k \in 1..(Len(b.completed) + 1) :
                     k \in 1..Len(b.completed) \/ k = Len(b.completed) + 1
                BY <4>1
            <4> QED BY <1>3, <1>4, <3>6, <4>1, <4>2
        <3>13. DOMAIN left \subseteq DOMAIN b.needsToEnd
            BY <1>3, <3>4
        <3>14. BuilderFits(new, events, n)
            BY <1>3, <3>9, <3>10, <3>11, <3>12, <3>13 DEF BuilderFits
        <3> QED BY <3>5, <3>7, <3>8, <3>9, <3>14
    <2> QED BY <2>4, <2>5
<1> QED BY <1>5, <1>6

----------------------------------------------------------------------------
(* What is kept, while the store grows, ...                                *)
LEMMA StoredKept ==
    ASSUME NEW store, NEW new, Grows(store, new), NEW e, Stored(store, e)
    PROVE  Stored(new, e)
BY DEF Stored, Grows, FunctionNameId

(* An execution that is stored stays so in a store that has grown. *)
LEMMA KeptInStore ==
    ASSUME NEW store, NEW new, Grows(store, new),
           NEW completed, NEW from, NEW events, NEW h, ShortKept(store, completed, from, events, h)
    PROVE  ShortKept(new, completed, from, events, h)
<1>1. \A e : IsKept(store, completed, from, e) => IsKept(new, completed, from, e)
    BY StoredKept DEF IsKept
<1> QED BY <1>1, Zenon DEF ShortKept

(* ... events are read, ...                                                *)
LEMMA KeptInEvents ==
    ASSUME NEW events \in Seq(Events), NEW more \in Seq(Events), Extends(more, events),
           NEW store, NEW completed, NEW from, NEW h \in 0..Len(events),
           ShortKept(store, completed, from, events, h)
    PROVE  ShortKept(store, completed, from, more, h)
<1> SUFFICES ASSUME NEW t \in Threads, NEW i \in 1..h, NEW j \in 1..h,
                    Ran(more, t, i, j), Short(Completed(more, t, i, j))
             PROVE  IsKept(store, completed, from, Completed(more, t, i, j))
    BY DEF ShortKept
<1>1. i \in 1..Len(events) /\ j \in 1..Len(events)
    BY LenProperties
<1>2. Ran(events, t, i, j) /\ Completed(more, t, i, j) = Completed(events, t, i, j)
    BY <1>1, RanKept
<1> QED BY <1>2 DEF ShortKept

(* ... handled without an end, ...                                         *)
LEMMA KeptNext ==
    ASSUME NEW events, NEW store, NEW completed, NEW from, NEW h \in Nat, NEW n, n = h + 1,
           ShortKept(store, completed, from, events, h), \A t, i : ~Ran(events, t, i, n)
    PROVE  ShortKept(store, completed, from, events, n)
<1> SUFFICES ASSUME NEW t \in Threads, NEW i \in 1..n, NEW j \in 1..n,
                    Ran(events, t, i, j), Short(Completed(events, t, i, j))
             PROVE  IsKept(store, completed, from, Completed(events, t, i, j))
    BY DEF ShortKept
<1>1. j # n
    OBVIOUS
<1>2. i \in 1..(j - 1)
    BY DEF Ran, Begun
<1>3. i \in 1..h /\ j \in 1..h
    BY <1>1, <1>2
<1> QED BY <1>3 DEF ShortKept

(* ... or with one, that of the execution that has just completed.         *)
LEMMA KeptEnded ==
    ASSUME NEW events, NEW store, NEW completed \in Seq(Possible), NEW e \in Possible,
           NEW from \in 1..(Len(completed) + 1), NEW h \in Nat, NEW n, n = h + 1,
           ShortKept(store, completed, from, events, h),
           \A t, i : Ran(events, t, i, n) => Completed(events, t, i, n) = e
    PROVE  ShortKept(store, Append(completed, e), from, events, n)
<1> SUFFICES ASSUME NEW t \in Threads, NEW i \in 1..n, NEW j \in 1..n,
                    Ran(events, t, i, j), Short(Completed(events, t, i, j))
             PROVE  IsKept(store, Append(completed, e), from, Completed(events, t, i, j))
    BY DEF ShortKept
<1>1. /\ Len(completed) \in Nat /\ Len(Append(completed, e)) = Len(completed) + 1
      /\ Append(completed, e)[Len(completed) + 1] = e
      /\ \A k \in 1..Len(completed) : Append(completed, e)[k] = completed[k]
    BY AppendProperties, LenProperties
<1>2. CASE j = n
    <2>1. Completed(events, t, i, j) = e
        BY <1>2
    <2>2. Len(completed) + 1 \in from..Len(Append(completed, e))
        BY <1>1
    <2> QED BY <1>1, <2>1, <2>2, Zenon DEF IsKept
<1>3. CASE j # n
    <2>1. i \in 1..(j - 1)
        BY DEF Ran, Begun
    <2>2. i \in 1..h /\ j \in 1..h
        BY <1>3, <2>1
    <2>3. IsKept(store, completed, from, Completed(events, t, i, j))
        BY <2>2 DEF ShortKept
    <2>4. from..Len(completed) \subseteq from..Len(Append(completed, e))
          /\ from..Len(completed) \subseteq 1..Len(completed)
        BY <1>1
    <2> QED BY <1>1, <2>3, <2>4, Zenon DEF IsKept
<1> QED BY <1>2, <1>3

----------------------------------------------------------------------------
(* The steps.                                                              *)
LEMMA EmptyBuilderFits ==
    ASSUME NEW events
    PROVE  BuilderFits(EmptyBuilder, events, 0)
<1>1. EmptyBuilder = [ts |-> 0, completed |-> << >>, active |-> << >>, needsToEnd |-> << >>]
    BY DEF EmptyBuilder
<1>2. /\ EmptyBuilder.completed = << >> /\ EmptyBuilder.active = << >>
      /\ EmptyBuilder.needsToEnd = << >> /\ EmptyBuilder.ts = 0
    BY <1>1
<1>3. << >> \in Seq(Possible) /\ Len(<< >>) = 0 /\ DOMAIN << >> = {}
    OBVIOUS
<1> QED BY <1>1, <1>2, <1>3 DEF BuilderFits

(* IInv holds initially, and every step keeps it: one lemma for each
   action. *)
LEMMA InitKeeps == Init => IInv
<1> SUFFICES ASSUME Init PROVE IInv
    OBVIOUS
<1>1. AreEvents(trace)
    BY SavesAssumption DEF Init, AreEvents
<1>2. PhaseOK
    <2>1. cursor \in 0..Len(trace)
        BY DEF Init
    <2>2. /\ phase = "read" /\ cursor = 0 /\ whole = FALSE
          /\ numExecutions = 0 /\ crashes = 0 /\ reports = 0
        BY DEF Init
    <2>3. whole \in BOOLEAN
        BY <2>2, Zenon
    <2> QED BY <2>1, <2>2, <2>3 DEF PhaseOK
<1>3. Handled = 0 /\ builder.completed = << >> /\ builder.ts = 0
    BY DEF Init, Handled, EmptyBuilder
<1>4. BuilderOK
    <2>1. BuilderFits(EmptyBuilder, trace, 0)
        BY EmptyBuilderFits
    <2> QED BY <1>3, <2>1 DEF Init, BuilderOK
<1>5. TimesOK
    BY <1>3 DEF Init, TimesOK
<1>6. ShortKept(db, builder.completed, next, trace, Handled)
    BY <1>3 DEF ShortKept
<1>7. IsSound(EmptyDatabase)
    BY DEF IsSound, IsStore, Sound, Interned, Resolved, EmptyDatabase
<1>8. Faithful(EmptyDatabase, trace)
    BY DEF Faithful, EmptyDatabase
<1>9. StoresOK
    <2>1. Grows(EmptyDatabase, EmptyDatabase)
        BY <1>7 DEF Grows, IsSound, IsStore
    <2> QED BY <1>7, <1>8, <2>1 DEF Init, StoresOK
<1>10. CallsOK
    <2>1. AreSamples(<< >>)
        BY FS_EmptySet DEF AreSamples
    <2> QED BY <2>1 DEF Init, CallsOK, kEmptyStackId
<1> QED BY <1>1, <1>2, <1>4, <1>5, <1>6, <1>9, <1>10 DEF IInv

(* BuildBlock::onTimestamp.                                                *)
LEMMA OnTimestampKeeps ==
    ASSUME IInv, OnTimestamp
    PROVE  IInv'
<1>1. /\ AreEvents(trace) /\ PhaseOK /\ BuilderOK /\ TimesOK /\ StoresOK /\ CallsOK
      /\ ShortKept(db, builder.completed, next, trace, Handled)
    BY DEF IInv
<1>2. /\ phase = "read" /\ calls = << >>
      /\ UNCHANGED <<whole, lastCleanupTs, numExecutions, calls, bottom, samples, db,
                     durable, crashes, reports>>
    BY DEF OnTimestamp, write, outside
<1>3. PICK event \in NextEvents :
          /\ trace' = IF cursor < Len(trace) THEN trace ELSE Append(trace, event)
          /\ cursor' = cursor + 1
          /\ IF saveTs # 0 /\ event.ts > saveTs + kSaveInterval
             THEN /\ builder' = Terminate(SetTimestamp(builder, event.ts))
                  /\ phase' = "save" /\ next' = 1 /\ UNCHANGED saveTs
             ELSE /\ builder' = SetTimestamp(builder, event.ts)
                  /\ saveTs' = IF saveTs = 0 THEN event.ts ELSE saveTs
                  /\ phase' = "event" /\ UNCHANGED next
    BY DEF OnTimestamp
<1>4. /\ trace \in Seq(Events) /\ Len(trace) \in Nat /\ cursor \in 0..Len(trace)
      /\ Handled = cursor /\ next = 1 /\ whole \in BOOLEAN
      /\ {numExecutions, crashes, reports} \subseteq Nat
    BY <1>1, <1>2, LenProperties DEF AreEvents, PhaseOK, TimesOK, Handled
<1>5. /\ AreEvents(trace') /\ Extends(trace', trace) /\ cursor + 1 \in 1..Len(trace')
      /\ trace'[cursor + 1] = event
    <2>1. CASE cursor < Len(trace)
        <3>1. event = trace[cursor + 1]
            BY <2>1 DEF NextEvents
        <3>2. cursor + 1 \in 1..Len(trace)
            BY <1>4, <2>1
        <3> QED BY <1>1, <1>3, <1>4, <2>1, <3>1, <3>2, ExtendsItself
    <2>2. CASE ~(cursor < Len(trace))
        <3>1. cursor = Len(trace)
            BY <1>4, <2>2
        <3> DEFINE times == IF trace = << >> THEN 0..MaxFirstTs
                            ELSE Last(trace).ts .. (Last(trace).ts + MaxStep)
        <3>2. /\ Len(trace) # MaxEvents
              /\ \/ event \in [ts : times, kind : kinds \ {"sample"}, thread : Threads]
                 \/ event \in [ts : times, kind : {"sample"}, thread : {Min(Threads)}]
            BY <2>2 DEF NextEvents, AtBound
        <3>3. Len(trace) < MaxEvents
            <4>1. Len(trace) <= MaxEvents /\ MaxEvents \in Nat
                BY <1>1, SavesAssumption DEF AreEvents
            <4> QED BY <1>4, <3>2, <4>1
        <3>4. /\ event.ts \in times /\ event.kind \in kinds /\ event.thread \in Threads
              /\ event = [ts |-> event.ts, kind |-> event.kind, thread |-> event.thread]
            BY <3>2, LeastThread DEF kinds
        <3>5. /\ event.ts \in Nat
              /\ IF trace = << >> THEN event.ts <= MaxFirstTs
                 ELSE trace[Len(trace)].ts <= event.ts
                      /\ event.ts <= trace[Len(trace)].ts + MaxStep
            <4>1. CASE trace = << >>
                BY <3>4, <4>1, SavesAssumption
            <4>2. CASE trace # << >>
                <5>1. Len(trace) \in 1..Len(trace)
                    BY <1>4, <4>2, EmptySeq
                <5>2. trace[Len(trace)].ts \in Nat
                    BY <1>1, <5>1, EventType
                <5>3. event.ts \in trace[Len(trace)].ts .. (trace[Len(trace)].ts + MaxStep)
                    BY <3>4, <4>2 DEF Last
                <5> QED BY <4>2, <5>2, <5>3, SavesAssumption
            <4> QED BY <4>1, <4>2
        <3>6. event \in Events
            BY <3>4, <3>5 DEF Events
        <3>7. /\ AreEvents(Append(trace, event))
              /\ Extends(Append(trace, event), trace)
              /\ Len(Append(trace, event)) = Len(trace) + 1
              /\ Append(trace, event)[Len(trace) + 1] = event
            BY <1>1, <3>3, <3>5, <3>6, EventAppended
        <3> QED BY <1>3, <1>4, <2>2, <3>1, <3>7
    <2> QED BY <2>1, <2>2
<1>6. trace' \in Seq(Events) /\ cursor \in 0..Len(trace') /\ Len(trace') \in Nat
    BY <1>4, <1>5, LenProperties DEF AreEvents
<1>7. event.ts \in Nat /\ builder.ts <= event.ts /\ builder.ts \in Nat
    <2>1. event.ts \in Nat
        BY <1>5, EventType
    <2>2. builder.ts = IF cursor = 0 THEN 0 ELSE trace[cursor].ts
        BY <1>1 DEF BuilderOK
    <2>3. CASE cursor # 0
        <3>1. cursor \in 1..Len(trace) /\ cursor \in 1..Len(trace') /\ cursor <= cursor + 1
            BY <1>4, <1>6, <2>3
        <3>2. trace'[cursor] = trace[cursor]
            BY <1>5, <3>1 DEF Extends
        <3>3. trace'[cursor].ts <= trace'[cursor + 1].ts
            BY <1>5, <3>1 DEF AreEvents
        <3>4. trace[cursor].ts \in Nat
            BY <1>1, <3>1, EventType
        <3> QED BY <1>5, <2>1, <2>2, <2>3, <3>2, <3>3, <3>4
    <2> QED BY <2>1, <2>2, <2>3
<1>8. /\ BuilderFits(builder', trace', cursor)
      /\ builder'.ts = event.ts /\ builder'.completed = builder.completed
    <2> DEFINE set == SetTimestamp(builder, event.ts)
    <2>1. BuilderFits(builder, trace, cursor)
        BY <1>1, <1>4 DEF BuilderOK
    <2>2. /\ BuilderFits(set, trace', cursor) /\ set.ts = event.ts
          /\ set.completed = builder.completed /\ Terminate(set) = set
        BY <1>4, <1>5, <1>6, <2>1, TimestampSet, SMTT(30)
    <2>3. builder' = set \/ builder' = Terminate(set)
        BY <1>3
    <2> HIDE DEF set
    <2> QED BY <2>2, <2>3
<1>9. phase' \in {"event", "save"} /\ next' = 1 /\ Handled' = cursor
    <2>1. phase' \in {"event", "save"} /\ next' = 1
        BY <1>3, <1>4
    <2>2. cursor' - 1 = cursor
        BY <1>3, <1>4
    <2> QED BY <2>1, <2>2 DEF Handled
<1>10. PhaseOK'
    BY <1>2, <1>3, <1>4, <1>5, <1>9 DEF PhaseOK
<1>11. BuilderOK'
    BY <1>3, <1>4, <1>5, <1>8, <1>9 DEF BuilderOK
<1>12. TimesOK'
    <2>1. /\ saveTs \in Nat /\ lastCleanupTs \in Nat /\ lastCleanupTs <= saveTs
          /\ saveTs <= builder.ts
          /\ lastCleanupTs = 0 \/ saveTs > lastCleanupTs + kSaveInterval
          /\ lastCleanupTs # 0 => EndedSince(builder.completed, saveTs)
          /\ next \in 1..(Len(builder.completed) + 1) /\ kSaveInterval \in Nat
        BY <1>1, SavesAssumption DEF TimesOK
    <2>2. /\ saveTs' \in Nat /\ lastCleanupTs' = lastCleanupTs /\ lastCleanupTs <= saveTs'
          /\ saveTs' <= event.ts
          /\ lastCleanupTs = 0 \/ saveTs' = saveTs
          /\ phase' = "save" => event.ts > saveTs' + kSaveInterval
        BY <1>2, <1>3, <1>7, <2>1
    <2>3. lastCleanupTs = 0 \/ saveTs' > lastCleanupTs + kSaveInterval
        BY <2>1, <2>2
    <2>4. lastCleanupTs # 0 => EndedSince(builder'.completed, saveTs')
        <3> SUFFICES ASSUME lastCleanupTs # 0 PROVE EndedSince(builder'.completed, saveTs')
            OBVIOUS
        <3>1. saveTs' = saveTs /\ builder'.completed = builder.completed
            BY <1>8, <2>2
        <3>2. EndedSince(builder.completed, saveTs)
            BY <2>1
        <3> QED BY <3>1, <3>2, Zenon
    <2>5. next' \in 1..(Len(builder'.completed) + 1)
        BY <1>4, <1>8, <1>9, <2>1
    <2> QED BY <1>8, <1>9, <2>1, <2>2, <2>3, <2>4, <2>5 DEF TimesOK
<1>13. ShortKept(db, builder.completed, next, trace, Handled)'
    <2>1. ShortKept(db, builder.completed, next, trace', cursor)
        BY <1>1, <1>4, <1>5, <1>6, KeptInEvents
    <2> QED BY <1>2, <1>4, <1>8, <1>9, <2>1
<1>14. StoresOK'
    <2>1. Faithful(db, trace') /\ Faithful(durable, trace')
        BY <1>1, <1>4, <1>5, <1>6, FaithfulKept DEF StoresOK
    <2> QED BY <1>1, <1>2, <2>1 DEF StoresOK
<1>15. CallsOK'
    BY <1>1, <1>2 DEF CallsOK
<1> QED BY <1>5, <1>10, <1>11, <1>12, <1>13, <1>14, <1>15 DEF IInv

(* BuildBlock::onEnd.                                                      *)
LEMMA OnEndKeeps ==
    ASSUME IInv, OnEnd
    PROVE  IInv'
<1>1. /\ AreEvents(trace) /\ PhaseOK /\ BuilderOK /\ TimesOK /\ StoresOK /\ CallsOK
      /\ ShortKept(db, builder.completed, next, trace, Handled)
    BY DEF IInv
<1>2. /\ phase = "read" /\ calls = << >> /\ cursor = Len(trace) /\ whole' = TRUE
      /\ builder' = Terminate(builder) /\ phase' = "lastSave" /\ next' = 1
      /\ UNCHANGED <<trace, cursor, saveTs, lastCleanupTs, numExecutions, calls, bottom,
                     samples, db, durable, crashes, reports>>
    BY DEF OnEnd, write, outside
<1>3. builder' = builder
    <2>1. \A t \in DOMAIN builder.needsToEnd : builder.needsToEnd[t] = TRUE
        BY <1>1 DEF BuilderOK, BuilderFits
    <2> QED BY <1>2, <2>1, TerminateNone
<1>4. Handled' = Handled /\ next' = next
    BY <1>1, <1>2 DEF Handled, TimesOK
<1>5. AreEvents(trace)' /\ StoresOK'
    BY <1>1, <1>2 DEF StoresOK
<1>6. PhaseOK'
    BY <1>1, <1>2 DEF PhaseOK
<1>7. BuilderOK'
    BY <1>1, <1>2, <1>3, <1>4 DEF BuilderOK
<1>8. TimesOK'
    BY <1>1, <1>2, <1>3, <1>4 DEF TimesOK
<1>9. ShortKept(db, builder.completed, next, trace, Handled)'
    BY <1>1, <1>2, <1>3, <1>4
<1>10. CallsOK'
    BY <1>1, <1>2 DEF CallsOK
<1> QED BY <1>5, <1>6, <1>7, <1>8, <1>9, <1>10 DEF IInv

(* An event that PunchBlock is told of, with its begin, its end or neither. *)
LEMMA HandledKeeps ==
    ASSUME IInv, HandledEvent, EventUnchanged,
           BuilderFits(builder', trace, cursor), builder'.ts = builder.ts,
           builder'.completed \in Seq(Possible), Len(builder.completed) <= Len(builder'.completed),
           EndedSince(builder.completed, saveTs) => EndedSince(builder'.completed, saveTs),
           ShortKept(db, builder'.completed, next, trace, cursor)
    PROVE  /\ AreEvents(trace)' /\ PhaseOK' /\ BuilderOK' /\ TimesOK' /\ StoresOK'
           /\ ShortKept(db, builder.completed, next, trace, Handled)'
<1>1. /\ AreEvents(trace) /\ PhaseOK /\ BuilderOK /\ TimesOK /\ StoresOK
    BY DEF IInv
<1>2. /\ phase = "event" /\ phase' = "read"
      /\ UNCHANGED <<trace, whole, cursor, saveTs, lastCleanupTs, numExecutions, next, db,
                     durable, crashes, reports>>
    BY DEF HandledEvent, EventUnchanged, outside
<1>3. Handled' = cursor
    BY <1>2 DEF Handled
<1>4. AreEvents(trace)' /\ StoresOK'
    BY <1>1, <1>2 DEF StoresOK
<1>5. PhaseOK'
    BY <1>1, <1>2 DEF PhaseOK
<1>6. BuilderOK'
    BY <1>1, <1>2, <1>3 DEF BuilderOK
<1>7. TimesOK'
    <2>1. next' \in 1..(Len(builder'.completed) + 1) /\ next' = 1
        <3>1. next = 1 /\ Len(builder'.completed) \in Nat
            BY <1>1, <1>2, LenProperties DEF TimesOK
        <3> QED BY <1>2, <3>1
    <2>2. lastCleanupTs # 0 => EndedSince(builder'.completed, saveTs)
        BY <1>1 DEF TimesOK
    <2> QED BY <1>1, <1>2, <2>1, <2>2 DEF TimesOK
<1>8. ShortKept(db, builder.completed, next, trace, Handled)'
    BY <1>2, <1>3
<1> QED BY <1>4, <1>5, <1>6, <1>7, <1>8

(* What an event is handled in.                                            *)
LEMMA BeforeEvent ==
    ASSUME IInv, HandledEvent
    PROVE  /\ phase = "event" /\ calls = << >> /\ phase' = "read"
           /\ AreEvents(trace) /\ trace \in Seq(Events)
           /\ cursor - 1 \in Nat /\ (cursor - 1) + 1 = cursor /\ cursor \in 1..Len(trace)
           /\ BuilderFits(builder, trace, cursor - 1) /\ builder.ts = trace[cursor].ts
           /\ builder.completed \in Seq(Possible) /\ Len(builder.completed) \in Nat
           /\ next = 1 /\ ShortKept(db, builder.completed, next, trace, cursor - 1)
<1>1. phase = "event" /\ calls = << >> /\ phase' = "read"
    BY DEF HandledEvent
<1>2. Handled = cursor - 1
    BY <1>1 DEF Handled
<1>3. AreEvents(trace) /\ trace \in Seq(Events) /\ Len(trace) \in Nat
    BY LenProperties DEF IInv, AreEvents
<1>4. cursor \in 0..Len(trace) /\ cursor > 0
    BY <1>1 DEF IInv, PhaseOK
<1>5. cursor - 1 \in Nat /\ (cursor - 1) + 1 = cursor /\ cursor \in 1..Len(trace) /\ cursor # 0
    BY <1>3, <1>4
<1>6. BuilderFits(builder, trace, cursor - 1) /\ builder.ts = trace[cursor].ts
    BY <1>2, <1>5 DEF IInv, BuilderOK
<1>7. builder.completed \in Seq(Possible) /\ Len(builder.completed) \in Nat
    BY <1>6, LenProperties DEF BuilderFits
<1>8. next = 1 /\ ShortKept(db, builder.completed, next, trace, cursor - 1)
    BY <1>1, <1>2 DEF IInv, TimesOK
<1> QED BY <1>1, <1>3, <1>5, <1>6, <1>7, <1>8

(* A begin: the thread is in an execution, that started now. *)
LEMMA OnBeginKeeps ==
    ASSUME IInv, OnBegin
    PROVE  IInv'
<1>1. HandledEvent /\ EventUnchanged /\ calls' = calls
    BY DEF OnBegin
<1>2. /\ trace[cursor].kind = "begin"
      /\ builder' = IF TidIsAnalyzed(trace[cursor].thread)
                    THEN StartExecution(builder, trace[cursor].thread, Name, TRUE) ELSE builder
    BY DEF OnBegin, Event
<1> DEFINE h == cursor - 1
           t == trace[cursor].thread
<1>3. /\ calls = << >> /\ AreEvents(trace)
      /\ h \in Nat /\ h + 1 = cursor /\ cursor \in 1..Len(trace)
      /\ BuilderFits(builder, trace, h) /\ builder.ts = trace[cursor].ts
      /\ builder.completed \in Seq(Possible) /\ Len(builder.completed) \in Nat
      /\ ShortKept(db, builder.completed, next, trace, h)
    BY <1>1, BeforeEvent
<1>4. \A u, i : ~Ran(trace, u, i, cursor)
    BY <1>2 DEF Ran
<1> HIDE DEF h, t
<1>5. /\ BuilderFits(builder', trace, cursor) /\ builder'.ts = builder.ts
      /\ builder'.completed = builder.completed
    <2>1. /\ BuilderFits(builder', trace, cursor) /\ builder'.ts = builder.ts
          /\ builder'.completed = builder.completed
        <3>1. trace[cursor].kind = "begin" /\ t = trace[cursor].thread
            BY <1>2 DEF t
        <3>2. builder' = AfterBegin(builder, t)
            BY <1>2, Zenon DEF t, AfterBegin
        <3>3. cursor = h + 1 /\ h \in Nat /\ cursor \in 1..Len(trace) /\ AreEvents(trace)
            BY <1>3
        <3>4. BuilderFits(builder, trace, h) /\ builder.ts = trace[cursor].ts
            BY <1>3
        <3>5. \A new : new = AfterBegin(builder, t) =>
                 /\ BuilderFits(new, trace, cursor) /\ new.ts = builder.ts
                 /\ new.completed = builder.completed
            BY <3>1, <3>3, <3>4, ExecutionStarted
        <3> QED BY <3>2, <3>5
    <2> QED BY <1>3, <2>1
<1>6. ShortKept(db, builder.completed, next, trace, cursor)
    <2>1. cursor = h + 1 /\ h \in Nat /\ ShortKept(db, builder.completed, next, trace, h)
        BY <1>3
    <2> QED BY <1>4, <2>1, KeptNext
<1>7. /\ AreEvents(trace)' /\ PhaseOK' /\ BuilderOK' /\ TimesOK' /\ StoresOK'
      /\ ShortKept(db, builder.completed, next, trace, Handled)'
    <2>1. Len(builder.completed) <= Len(builder'.completed) /\ builder'.completed \in Seq(Possible)
        BY <1>3, <1>5
    <2>2. /\ ShortKept(db, builder'.completed, next, trace, cursor)
          /\ EndedSince(builder.completed, saveTs) => EndedSince(builder'.completed, saveTs)
        BY <1>5, <1>6
    <2> QED BY <1>1, <1>5, <2>1, <2>2, HandledKeeps
<1>8. CallsOK'
    BY <1>1, <1>3 DEF IInv, CallsOK, EventUnchanged
<1> QED BY <1>7, <1>8 DEF IInv

(* What follows an event is known from its builder.                        *)
LEMMA OnPunchEndKeeps ==
    ASSUME IInv, OnPunchEnd
    PROVE  IInv'
<1>1. HandledEvent /\ EventUnchanged /\ calls' = calls
    BY DEF OnPunchEnd
<1>2. /\ trace[cursor].kind = "end"
      /\ builder' = IF TidIsAnalyzed(trace[cursor].thread)
                    THEN EndExecution(builder, trace[cursor].thread) ELSE builder
    BY DEF OnPunchEnd, Event
<1> DEFINE h == cursor - 1
           t == trace[cursor].thread
<1>3. /\ calls = << >> /\ AreEvents(trace)
      /\ h \in Nat /\ h + 1 = cursor /\ cursor \in 1..Len(trace)
      /\ BuilderFits(builder, trace, h) /\ builder.ts = trace[cursor].ts
      /\ builder.completed \in Seq(Possible) /\ Len(builder.completed) \in Nat
      /\ next = 1 /\ ShortKept(db, builder.completed, next, trace, h)
    BY <1>1, BeforeEvent
<1> HIDE DEF h, t
<1>4. /\ cursor = h + 1 /\ h \in Nat /\ ShortKept(db, builder.completed, next, trace, h)
      /\ next \in 1..(Len(builder.completed) + 1)
    BY <1>3
<1>5. saveTs <= builder.ts
    BY DEF IInv, TimesOK
<1>6. /\ BuilderFits(builder', trace, cursor) /\ builder'.ts = builder.ts
      /\ \/ /\ builder'.completed = builder.completed
            /\ \A u, i : ~Ran(trace, u, i, cursor)
         \/ \E e \in Possible :
               /\ builder'.completed = Append(builder.completed, e) /\ e.endTs = builder.ts
               /\ \A u, i : Ran(trace, u, i, cursor) => Completed(trace, u, i, cursor) = e
    <2>1. trace[cursor].kind = "end" /\ t = trace[cursor].thread
        BY <1>2 DEF t
    <2>2. builder' = AfterEnd(builder, t)
        BY <1>2, Zenon DEF t, AfterEnd
    <2>3. \A new : new = AfterEnd(builder, t) =>
             /\ BuilderFits(new, trace, cursor) /\ new.ts = builder.ts
             /\ \/ /\ new.completed = builder.completed
                   /\ \A u, i : ~Ran(trace, u, i, cursor)
                \/ \E e \in Possible :
                      /\ new.completed = Append(builder.completed, e) /\ e.endTs = builder.ts
                      /\ \A u, i : Ran(trace, u, i, cursor) => Completed(trace, u, i, cursor) = e
        BY <1>3, <1>4, <2>1, ExecutionEnded, SMTT(30)
    <2> QED BY <2>2, <2>3
<1>7. /\ builder'.completed \in Seq(Possible)
      /\ Len(builder.completed) <= Len(builder'.completed)
      /\ EndedSince(builder.completed, saveTs) => EndedSince(builder'.completed, saveTs)
      /\ ShortKept(db, builder'.completed, next, trace, cursor)
    <2>1. CASE /\ builder'.completed = builder.completed
               /\ \A u, i : ~Ran(trace, u, i, cursor)
        <3>1. ShortKept(db, builder.completed, next, trace, cursor)
            BY <1>4, <2>1, KeptNext
        <3> QED BY <1>3, <2>1, <3>1
    <2>2. ASSUME NEW e \in Possible,
                 builder'.completed = Append(builder.completed, e), e.endTs = builder.ts,
                 \A u, i : Ran(trace, u, i, cursor) => Completed(trace, u, i, cursor) = e
          PROVE  /\ builder'.completed \in Seq(Possible)
                 /\ Len(builder.completed) <= Len(builder'.completed)
                 /\ EndedSince(builder.completed, saveTs) => EndedSince(builder'.completed, saveTs)
                 /\ ShortKept(db, builder'.completed, next, trace, cursor)
        <3>1. ShortKept(db, Append(builder.completed, e), next, trace, cursor)
            BY <1>3, <1>4, <2>2, KeptEnded
        <3>2. /\ Append(builder.completed, e) \in Seq(Possible)
              /\ Len(Append(builder.completed, e)) = Len(builder.completed) + 1
              /\ Append(builder.completed, e)[Len(builder.completed) + 1] = e
              /\ \A k \in 1..Len(builder.completed) :
                    Append(builder.completed, e)[k] = builder.completed[k]
            BY <1>3, AppendProperties
        <3>3. EndedSince(builder.completed, saveTs)
                => EndedSince(Append(builder.completed, e), saveTs)
            BY <1>3, <1>5, <2>2, <3>2 DEF EndedSince
        <3> QED BY <1>3, <2>2, <3>1, <3>2, <3>3
    <2> QED BY <1>6, <2>1, <2>2
<1>8. /\ AreEvents(trace)' /\ PhaseOK' /\ BuilderOK' /\ TimesOK' /\ StoresOK'
      /\ ShortKept(db, builder.completed, next, trace, Handled)'
    BY <1>1, <1>6, <1>7, HandledKeeps
<1>9. CallsOK'
    BY <1>1, <1>3 DEF IInv, CallsOK, EventUnchanged
<1> QED BY <1>8, <1>9 DEF IInv

(* A profiler's event begins and ends no execution.                        *)
LEMMA OnSampleKeeps ==
    ASSUME IInv, OnSample
    PROVE  IInv'
<1>1. HandledEvent /\ EventUnchanged /\ builder' = builder
    BY DEF OnSample
<1>2. trace[cursor].kind = "sample" /\ calls' = Pushes(SampleFrames, kNotCounted)
    BY DEF OnSample, Event
<1> DEFINE h == cursor - 1
<1>3. /\ phase' = "read" /\ AreEvents(trace) /\ trace \in Seq(Events)
      /\ h \in Nat /\ h + 1 = cursor /\ cursor \in 1..Len(trace)
      /\ BuilderFits(builder, trace, h) /\ builder.ts = trace[cursor].ts
      /\ builder.completed \in Seq(Possible) /\ Len(builder.completed) \in Nat
      /\ ShortKept(db, builder.completed, next, trace, h)
    BY <1>1, BeforeEvent
<1>4. \A u : ~Of(trace, u, cursor) /\ \A i : ~Ran(trace, u, i, cursor)
    BY <1>2 DEF Of, Ran
<1> HIDE DEF h
<1>5. cursor = h + 1 /\ h \in Nat /\ ShortKept(db, builder.completed, next, trace, h)
    BY <1>3
<1>6. BuilderFits(builder', trace, cursor) /\ builder'.ts = builder.ts
    <2>1. BuilderFits(builder, trace, cursor)
        BY <1>3, <1>4, <1>5, FitsNext
    <2> QED BY <1>1, <2>1
<1>7. ShortKept(db, builder.completed, next, trace, cursor)
    BY <1>4, <1>5, KeptNext
<1>8. /\ AreEvents(trace)' /\ PhaseOK' /\ BuilderOK' /\ TimesOK' /\ StoresOK'
      /\ ShortKept(db, builder.completed, next, trace, Handled)'
    BY <1>1, <1>3, <1>6, <1>7, HandledKeeps
<1>9. CallsOK'
    <2>1. /\ bottom' = bottom /\ samples' = samples /\ db' = db
        BY <1>1 DEF EventUnchanged
    <2>2. /\ SampleFrames \in Seq(STRING) /\ SampleFrames # << >> /\ kNotCounted \in Int
          /\ 0 \in 0..(Len(SampleFrames) - 1)
        BY SamplesAssumption, CallType, LenProperties, EmptySeq
    <2>3. calls' = Pushes(SampleFrames, kNotCounted) \o << >>
        <3>1. /\ Pairs(SampleFrames, kNotCounted) \in Seq(Seq(Calls))
              /\ 0 \in 0..Len(Pairs(SampleFrames, kNotCounted))
              /\ Pushes(SampleFrames, kNotCounted) = After(Pairs(SampleFrames, kNotCounted), 0)
            BY <2>2, PairsType
        <3>2. Pushes(SampleFrames, kNotCounted) \in Seq(Calls)
            BY <3>1, AfterType
        <3> QED BY <1>2, <3>2
    <2>4. IsPushing(db, calls', bottom, SampleFrames, kNotCounted, 0, << >>)
        BY <2>2, <2>3, PushStart
    <2> QED BY <1>3, <2>1, <2>2, <2>4 DEF IInv, CallsOK
<1> QED BY <1>8, <1>9 DEF IInv

----------------------------------------------------------------------------
(* A step of SaveExecutions, or a call of the database, leaves the rest of *)
(* the build alone; next is only of use while there is a save.             *)
LEMMA SavingKeeps ==
    ASSUME IInv, UNCHANGED <<trace, whole, cursor, phase, builder, saveTs, lastCleanupTs>>,
           UNCHANGED <<durable, crashes, reports>>,
           numExecutions' \in Nat,
           \/ next' = next
           \/ phase \in {"save", "lastSave"} /\ next' \in 1..(Len(builder.completed) + 1)
    PROVE  AreEvents(trace)' /\ PhaseOK' /\ BuilderOK' /\ TimesOK' /\ Handled' = Handled
<1>1. AreEvents(trace) /\ PhaseOK /\ BuilderOK /\ TimesOK
    BY DEF IInv
<1>2. Handled' = Handled
    BY DEF Handled
<1>3. AreEvents(trace)'
    BY <1>1
<1>4. PhaseOK'
    BY <1>1 DEF PhaseOK
<1>5. BuilderOK'
    BY <1>1, <1>2 DEF BuilderOK
<1>6. TimesOK'
    <2>1. /\ next' \in 1..(Len(builder.completed) + 1)
          /\ phase \notin {"save", "lastSave"} => next' = 1
        BY <1>1 DEF TimesOK
    <2> QED BY <1>1, <2>1 DEF TimesOK
<1> QED BY <1>2, <1>3, <1>4, <1>5, <1>6

(* A call that adds no execution keeps those that are stored faithful.     *)
LEMMA SameExecutions ==
    ASSUME NEW store, NEW new, IsSound(store), IsSound(new), Grows(store, new),
           new.executions = store.executions, NEW events, Faithful(store, events)
    PROVE  Faithful(new, events)
<1>1. \A key \in DOMAIN store.executions : Read(new, key) = Read(store, key)
    BY ReadKept DEF IsSound
<1> QED BY <1>1 DEF Faithful

(* What a call makes of the database is on no disk yet.                    *)
LEMMA StoresGrow ==
    ASSUME StoresOK, IsSound(db'), Grows(db, db'), Faithful(db', trace),
           UNCHANGED <<trace, durable>>
    PROVE  StoresOK'
<1>1. Grows(durable, db')
    BY GrowsTransitive DEF StoresOK, IsSound
<1> QED BY <1>1 DEF StoresOK

(* The execution that is saved is one of the trace.                        *)
LEMMA SavedIsReal ==
    ASSUME IInv, next <= Len(builder.completed), NEW e, e = builder.completed[next]
    PROVE  /\ e \in Possible /\ IsReal(trace, e, Len(trace)) /\ trace \in Seq(Events)
           /\ HasNumbers(e)
           /\ e = [name |-> e.name, trace |-> e.trace, startTs |-> e.startTs,
                   startThread |-> e.startThread, endTs |-> e.endTs, endThread |-> e.endThread]
<1>1. AreEvents(trace) /\ trace \in Seq(Events) /\ Len(trace) \in Nat
    BY LenProperties DEF IInv, AreEvents
<1>2. /\ BuilderFits(builder, trace, Handled)
      /\ builder.completed \in Seq(Possible) /\ Len(builder.completed) \in Nat
    BY LenProperties DEF IInv, BuilderOK, BuilderFits
<1>3. next \in 1..Len(builder.completed)
    BY <1>2 DEF IInv, TimesOK
<1>4. IsReal(trace, e, Handled)
    BY <1>2, <1>3 DEF BuilderFits
<1>5. Handled \in 0..Len(trace) /\ Len(trace) \in Handled..Len(trace)
    <2>1. cursor \in 0..Len(trace) /\ (phase \in {"event", "save"} => cursor > 0)
        BY DEF IInv, PhaseOK
    <2> QED BY <1>1, <2>1 DEF Handled
<1>6. IsReal(trace, e, Len(trace))
    BY <1>1, <1>4, <1>5, ExtendsItself, RealKept
<1> QED BY <1>1, <1>4, <1>5, <1>6, CompletedType

(* SaveExecutions begins with the next execution, or skips it: one that    *)
(* began before the last cleanup has ended after the last save, so that it *)
(* is not a short one.                                                     *)
LEMMA SaveExecutionKeeps ==
    ASSUME IInv, SaveExecution
    PROVE  IInv'
<1>1. /\ phase \in {"save", "lastSave"} /\ calls = << >> /\ next <= Len(builder.completed)
      /\ UNCHANGED <<trace, whole, cursor, phase, builder, saveTs, lastCleanupTs, numExecutions,
                     db, durable, crashes, reports, bottom>>
    BY DEF SaveExecution, Saving, outside
<1>2. /\ StoresOK /\ CallsOK /\ TimesOK /\ kSaveInterval \in Nat
      /\ ShortKept(db, builder.completed, next, trace, Handled)
      /\ numExecutions \in Nat
    BY SavesAssumption DEF IInv, PhaseOK
<1> DEFINE e == builder.completed[next]
<1>3. e \in Possible
    BY <1>1, SavedIsReal
<1>4. builder.completed \in Seq(Possible) /\ Len(builder.completed) \in Nat
    BY LenProperties DEF IInv, BuilderOK, BuilderFits
<1>5. next \in 1..Len(builder.completed)
    BY <1>1, <1>2, <1>4 DEF TimesOK
<1>6. StoresOK'
    BY <1>1, <1>2 DEF StoresOK
<1>7. CASE e.startTs < lastCleanupTs
    <2>1. next' = next + 1 /\ calls' = calls /\ samples' = samples
        BY <1>7 DEF SaveExecution
    <2>2. next' \in 1..(Len(builder.completed) + 1)
        BY <1>4, <1>5, <2>1
    <2>3. AreEvents(trace)' /\ PhaseOK' /\ BuilderOK' /\ TimesOK' /\ Handled' = Handled
        BY <1>1, <1>2, <2>2, SavingKeeps
    <2>4. CallsOK'
        BY <1>1, <1>2, <2>1 DEF CallsOK
    <2>5. ~Short(e)
        <3>1. e.startTs \in Nat /\ e.endTs \in Nat
            <4>1. e.startTs \in Times /\ e.endTs \in Times
                BY <1>3 DEF Possible
            <4>2. Times \subseteq Nat
                BY DEF Times
            <4> QED BY <4>1, <4>2
        <3>2. lastCleanupTs \in Nat /\ saveTs \in Nat /\ lastCleanupTs # 0
            BY <1>2, <1>7, <3>1 DEF TimesOK
        <3>3. e.endTs >= saveTs /\ saveTs > lastCleanupTs + kSaveInterval
            BY <1>2, <1>5, <3>2 DEF TimesOK, EndedSince
        <3> QED BY <1>2, <1>7, <3>1, <3>2, <3>3 DEF Short
    <2>6. ShortKept(db, builder.completed, next + 1, trace, Handled)
        <3> SUFFICES ASSUME NEW t \in Threads, NEW i \in 1..Handled, NEW j \in 1..Handled,
                            Ran(trace, t, i, j), Short(Completed(trace, t, i, j))
                     PROVE  IsKept(db, builder.completed, next + 1, Completed(trace, t, i, j))
            BY DEF ShortKept
        <3> DEFINE r == Completed(trace, t, i, j)
        <3>1. IsKept(db, builder.completed, next, r)
            BY <1>2 DEF ShortKept
        <3>2. r # e
            BY <2>5
        <3> HIDE DEF r, e
        <3>3. \A k \in next..Len(builder.completed) :
                 builder.completed[k] = r => k \in (next + 1)..Len(builder.completed)
            BY <1>5, <3>2 DEF e
        <3>4. IsKept(db, builder.completed, next + 1, r)
            BY <3>1, <3>3 DEF IsKept
        <3> QED BY <3>4 DEF r
    <2>7. ShortKept(db, builder.completed, next, trace, Handled)'
        BY <1>1, <2>1, <2>3, <2>6
    <2> QED BY <1>6, <2>3, <2>4, <2>7 DEF IInv
<1>8. CASE ~(e.startTs < lastCleanupTs)
    <2>1. next' = next /\ calls' = SaveCalls(e) /\ samples' = << >>
        BY <1>8 DEF SaveExecution
    <2>2. AreEvents(trace)' /\ PhaseOK' /\ BuilderOK' /\ TimesOK' /\ Handled' = Handled
        BY <1>1, <1>2, <2>1, SavingKeeps
    <2>3. ShortKept(db, builder.completed, next, trace, Handled)'
        BY <1>1, <1>2, <2>1, <2>2
    <2>4. CallsOK'
        <3>1. AreSamples(<< >>) /\ DOMAIN << >> \subseteq DOMAIN db.stacks
            BY FS_EmptySet DEF AreSamples
        <3>2. IsSaving(db, calls', bottom, samples', e)
            BY <1>3, <2>1, SavingStart
        <3> QED BY <1>1, <1>2, <2>1, <3>1, <3>2 DEF CallsOK
    <2> QED BY <1>6, <2>2, <2>3, <2>4 DEF IInv
<1> QED BY <1>7, <1>8

(* A call of AddFunctionName, for a stack or for the execution itself.     *)
LEMMA CallNameKeeps ==
    ASSUME IInv, CallName
    PROVE  IInv'
<1>1. /\ calls # << >> /\ calls[1].do = "AddFunctionName"
      /\ db' = AddFunctionName(db, calls[1].arg) /\ calls' = Tail(calls)
      /\ UNCHANGED <<trace, whole, cursor, phase, builder, saveTs, lastCleanupTs, numExecutions,
                     durable, crashes, reports, next, bottom, samples>>
    BY DEF CallName, CallUnchanged, outside
<1>2. /\ StoresOK /\ CallsOK /\ numExecutions \in Nat
      /\ ShortKept(db, builder.completed, next, trace, Handled)
    BY DEF IInv, PhaseOK
<1>3. AreEvents(trace)' /\ PhaseOK' /\ BuilderOK' /\ TimesOK' /\ Handled' = Handled
    BY <1>1, <1>2, SavingKeeps
<1>4. IsStore(db) /\ Sound(db) /\ Faithful(db, trace)
    BY <1>2 DEF StoresOK, IsSound
<1>5. /\ IsStore(db') /\ Sound(db') /\ Grows(db, db')
      /\ db'.executions = db.executions /\ db'.stacks = db.stacks
    BY <1>1, <1>4, NameAdded
<1>6. StoresOK'
    <2>1. Faithful(db', trace)
        BY <1>4, <1>5, SameExecutions DEF IsSound
    <2> QED BY <1>1, <1>2, <1>5, <2>1, StoresGrow DEF IsSound
<1>7. ShortKept(db, builder.completed, next, trace, Handled)'
    <2>1. ShortKept(db', builder.completed, next, trace, Handled)
        BY <1>2, <1>5, KeptInStore
    <2> QED BY <1>1, <1>3, <2>1
<1>8. CallsOK'
    <2>1. bottom' \in Nat /\ AreSamples(samples') /\ DOMAIN samples' \subseteq DOMAIN db'.stacks
        BY <1>1, <1>2, <1>5 DEF CallsOK
    <2>2. CASE /\ phase = "read"
               /\ \E k \in 0..(Len(SampleFrames) - 1) :
                     IsPushing(db, calls, bottom, SampleFrames, kNotCounted, k, << >>)
        <3>1. PICK k \in 0..(Len(SampleFrames) - 1) :
                 IsPushing(db, calls, bottom, SampleFrames, kNotCounted, k, << >>)
            BY <2>2
        <3>2. SampleFrames \in Seq(STRING) /\ kNotCounted \in Int /\ << >> \in Seq(Calls)
            BY SamplesAssumption, CallType
        <3>3. IsPushing(db', calls', bottom, SampleFrames, kNotCounted, k, << >>)
            BY <1>1, <1>4, <3>1, <3>2, PushName
        <3> QED BY <1>1, <2>1, <2>2, <3>3 DEF CallsOK
    <2>3. CASE /\ phase \in {"save", "lastSave"} /\ next <= Len(builder.completed)
               /\ IsSaving(db, calls, bottom, samples, builder.completed[next])
        <3>1. builder.completed[next] \in Possible
            BY <2>3, SavedIsReal
        <3>2. IsSaving(db', calls', bottom, samples, builder.completed[next])
            BY <1>1, <1>4, <2>3, <3>1, SavingName
        <3> QED BY <1>1, <2>1, <2>3, <3>2 DEF CallsOK
    <2> QED BY <1>1, <1>2, <2>2, <2>3 DEF CallsOK
<1> QED BY <1>3, <1>6, <1>7, <1>8 DEF IInv

(* A call of AddStack.  What is counted for an execution is counted under  *)
(* the identifier that the call returns.                                   *)
LEMMA CallStackKeeps ==
    ASSUME IInv, CallStack
    PROVE  IInv'
<1> DEFINE stack == PushedStack(db, calls[1], bottom)
<1>1. /\ calls # << >> /\ calls[1].do = "AddStack"
      /\ db' = AddStack(db, stack) /\ bottom' = StackId(db', stack) /\ calls' = Tail(calls)
      /\ samples' = CountedWith(samples, calls[1], bottom')
      /\ UNCHANGED <<trace, whole, cursor, phase, builder, saveTs, lastCleanupTs, numExecutions,
                     durable, crashes, reports, next>>
    BY DEF CallStack, CallUnchanged, outside, PushedStack, CountedWith
<1>2. /\ StoresOK /\ CallsOK /\ numExecutions \in Nat
      /\ ShortKept(db, builder.completed, next, trace, Handled)
    BY DEF IInv, PhaseOK
<1>3. AreEvents(trace)' /\ PhaseOK' /\ BuilderOK' /\ TimesOK' /\ Handled' = Handled
    BY <1>1, <1>2, SavingKeeps
<1>4. IsStore(db) /\ Sound(db) /\ Faithful(db, trace)
    BY <1>2 DEF StoresOK, IsSound
<1>5. AreSamples(samples) /\ DOMAIN samples \subseteq DOMAIN db.stacks
    BY <1>2 DEF CallsOK
<1>6. /\ stack.function \in DOMAIN db.functionNames /\ stack.bottom \in 0..(db.stackCount - 1)
      /\ bottom' \in DOMAIN db'.stacks
      /\ AreSamples(samples')
      /\ DOMAIN samples' \subseteq DOMAIN db.stacks \/ DOMAIN samples' \subseteq DOMAIN db'.stacks
      /\ calls' # << >> =>
            \/ /\ phase = "read"
               /\ \E k \in 0..(Len(SampleFrames) - 1) :
                     IsPushing(db', calls', bottom', SampleFrames, kNotCounted, k, << >>)
            \/ /\ phase \in {"save", "lastSave"} /\ next <= Len(builder.completed)
               /\ IsSaving(db', calls', bottom', samples', builder.completed[next])
    <2>1. CASE /\ phase = "read"
               /\ \E k \in 0..(Len(SampleFrames) - 1) :
                     IsPushing(db, calls, bottom, SampleFrames, kNotCounted, k, << >>)
        <3>1. PICK k \in 0..(Len(SampleFrames) - 1) :
                 IsPushing(db, calls, bottom, SampleFrames, kNotCounted, k, << >>)
            BY <2>1
        <3>2. SampleFrames \in Seq(STRING) /\ kNotCounted \in Int /\ << >> \in Seq(Calls)
              /\ Len(SampleFrames) \in Nat
            BY SamplesAssumption, CallType, LenProperties
        <3> DEFINE none == << >>
        <3> HIDE DEF stack, none
        <3>3. stack = PushedStack(db, calls[1], bottom) /\ calls[1].do = "AddStack"
            BY <1>1 DEF stack
        <3>4. /\ stack.function \in DOMAIN db.functionNames
              /\ stack.bottom \in 0..(db.stackCount - 1)
              /\ bottom' \in DOMAIN db'.stacks
              /\ calls[1].value = IF k + 1 = Len(SampleFrames) THEN kNotCounted ELSE kNotCounted
              /\ IF k + 1 = Len(SampleFrames)
                 THEN Tail(calls) = none /\ Frames(db')[bottom'] = SampleFrames
                 ELSE IsPushing(db', Tail(calls), bottom', SampleFrames, kNotCounted, k + 1, none)
            <4>1. none \in Seq(Calls) /\ IsPushing(db, calls, bottom, SampleFrames, kNotCounted, k, none)
                BY <3>1, <3>2 DEF none
            <4> QED BY <1>1, <1>4, <3>2, <3>3, <4>1, PushStack
        <3>5. samples' = samples
            BY <1>1, <3>4 DEF CountedWith
        <3>6. k + 1 = Len(SampleFrames) \/ k + 1 \in 0..(Len(SampleFrames) - 1)
            BY <3>1, <3>2
        <3> QED BY <1>1, <1>5, <2>1, <3>4, <3>5, <3>6 DEF none
    <2>2. CASE /\ phase \in {"save", "lastSave"} /\ next <= Len(builder.completed)
               /\ IsSaving(db, calls, bottom, samples, builder.completed[next])
        <3> DEFINE e == builder.completed[next]
        <3>1. e \in Possible /\ IsSaving(db, calls, bottom, samples, e)
            BY <2>2, SavedIsReal
        <3> HIDE DEF stack, e
        <3>2. stack = PushedStack(db, calls[1], bottom) /\ calls[1].do = "AddStack"
            BY <1>1 DEF stack
        <3>3. /\ stack.function \in DOMAIN db.functionNames
              /\ stack.bottom \in 0..(db.stackCount - 1)
              /\ bottom' \in DOMAIN db'.stacks
              /\ AreSamples(samples') /\ DOMAIN samples' \subseteq DOMAIN db'.stacks
              /\ IsSaving(db', Tail(calls), bottom', samples', e)
            <4>1. \A new, top, more :
                     new = AddStack(db, stack) /\ top = StackId(new, stack)
                       /\ more = CountedWith(samples, calls[1], top) =>
                     /\ stack.function \in DOMAIN db.functionNames
                     /\ stack.bottom \in 0..(db.stackCount - 1)
                     /\ top \in DOMAIN new.stacks
                     /\ AreSamples(more) /\ DOMAIN more \subseteq DOMAIN new.stacks
                     /\ IsSaving(new, Tail(calls), top, more, e)
                BY <1>4, <1>5, <3>1, <3>2, SavingStack
            <4> QED BY <1>1, <4>1
        <3> QED BY <1>1, <2>2, <3>3 DEF e
    <2> QED BY <1>1, <1>2, <2>1, <2>2 DEF CallsOK
<1> HIDE DEF stack
<1>7. /\ IsStore(db') /\ Sound(db') /\ Grows(db, db') /\ db'.executions = db.executions
    BY <1>1, <1>4, <1>6, StackAdded
<1>8. StoresOK'
    <2>1. Faithful(db', trace)
        BY <1>4, <1>7, SameExecutions DEF IsSound
    <2> QED BY <1>1, <1>2, <1>7, <2>1, StoresGrow DEF IsSound
<1>9. ShortKept(db, builder.completed, next, trace, Handled)'
    <2>1. ShortKept(db', builder.completed, next, trace, Handled)
        BY <1>2, <1>7, KeptInStore
    <2> QED BY <1>1, <1>3, <2>1
<1>10. CallsOK'
    <2>1. bottom' \in Nat
        <3>1. DOMAIN db'.stacks \subseteq 0..(db'.stackCount - 1)
            BY <1>7, StackIds
        <3> QED BY <1>6, <3>1
    <2>2. DOMAIN samples' \subseteq DOMAIN db'.stacks
        BY <1>6, <1>7 DEF Grows
    <2> QED BY <1>1, <1>6, <2>1, <2>2 DEF CallsOK
<1> QED BY <1>3, <1>8, <1>9, <1>10 DEF IInv

(* The write of an execution: the database then has it, with all of its    *)
(* samples, and what had been stored under its key is replaced.            *)
LEMMA CallPutKeeps ==
    ASSUME IInv, CallPut
    PROVE  IInv'
<1> DEFINE e == builder.completed[next]
<1>1. /\ calls # << >> /\ calls[1].do = "Put"
      /\ db' = PutExecution(db, e, samples)
      /\ numExecutions' = numExecutions + 1 /\ next' = next + 1
      /\ samples' = << >> /\ calls' = Tail(calls) /\ bottom' = kEmptyStackId
      /\ UNCHANGED <<trace, whole, cursor, phase, builder, saveTs, lastCleanupTs,
                     durable, crashes, reports>>
    BY DEF CallPut, CallUnchanged, outside
<1>2. /\ StoresOK /\ CallsOK /\ TimesOK /\ numExecutions \in Nat
      /\ ShortKept(db, builder.completed, next, trace, Handled)
    BY DEF IInv, PhaseOK
<1>3. IsStore(db) /\ Sound(db) /\ Faithful(db, trace) /\ AreSamples(samples)
    BY <1>2 DEF StoresOK, IsSound, CallsOK
<1>4. /\ phase \in {"save", "lastSave"} /\ next <= Len(builder.completed)
      /\ IsSaving(db, calls, bottom, samples, e)
    <2>1. ASSUME NEW k \in 0..(Len(SampleFrames) - 1),
                 IsPushing(db, calls, bottom, SampleFrames, kNotCounted, k, << >>)
          PROVE  FALSE
        <3> DEFINE none == << >>
        <3>1. SampleFrames \in Seq(STRING) /\ kNotCounted \in Int /\ none \in Seq(Calls)
            BY SamplesAssumption, CallType
        <3>2. IsPushing(db, calls, bottom, SampleFrames, kNotCounted, k, none)
            BY <2>1
        <3> HIDE DEF none
        <3>3. NextCall(db, calls, SampleFrames, kNotCounted, k, none)
            BY <3>1, <3>2, PushingCalls
        <3>4. \/ calls[1] = NameCall(SampleFrames[k + 1])
              \/ calls[1] = StackCall(SampleFrames, kNotCounted, k + 1)
            BY <3>3, Zenon DEF NextCall
        <3>5. calls[1].do \in {"AddFunctionName", "AddStack"}
            BY <3>4, CallDo
        <3> QED BY <1>1, <3>5
    <2> QED BY <1>1, <1>2, <2>1 DEF CallsOK
<1>5. /\ e \in Possible /\ IsReal(trace, e, Len(trace)) /\ HasNumbers(e)
      /\ e = [name |-> e.name, trace |-> e.trace, startTs |-> e.startTs,
              startThread |-> e.startThread, endTs |-> e.endTs, endThread |-> e.endThread]
    BY <1>4, SavedIsReal
<1> HIDE DEF e
<1>6. /\ Tail(calls) = << >>
      /\ {e.name, e.trace} \subseteq DOMAIN db.functionNameIds
      /\ DOMAIN samples \subseteq DOMAIN db.stacks
      /\ {[frames |-> Frames(db)[id], value |-> samples[id]] : id \in DOMAIN samples}
            = Range(SamplesOf(e))
    BY <1>1, <1>4, <1>5, SavingPut
<1> DEFINE key == ExecutionKey(FunctionNameId(db, e.name), e)
           found == {[frames |-> Frames(db)[id], value |-> samples[id]] : id \in DOMAIN samples}
           put == [execution |-> [name |-> e.name, trace |-> e.trace,
                                  startTs |-> e.startTs, startThread |-> e.startThread,
                                  endTs |-> e.endTs, endThread |-> e.endThread],
                   samples |-> found]
<1>7. /\ IsStore(db') /\ Sound(db') /\ Grows(db, db')
      /\ DOMAIN db'.executions = DOMAIN db.executions \union {key}
      /\ \A k \in DOMAIN db.executions : k # key => db'.executions[k] = db.executions[k]
      /\ Stored(db', e) /\ Read(db', key) = put
      /\ db'.stacks = db.stacks
    <2>1. \A new : new = PutExecution(db, e, samples) =>
             /\ IsStore(new) /\ Sound(new) /\ Grows(db, new)
             /\ DOMAIN new.executions = DOMAIN db.executions \union {key}
             /\ \A k \in DOMAIN db.executions : k # key => new.executions[k] = db.executions[k]
             /\ Stored(new, e) /\ Read(new, key) = put
             /\ new.stacks = db.stacks
        BY <1>3, <1>5, <1>6, ExecutionPut
    <2> HIDE DEF key, put
    <2> QED BY <1>1, <2>1
<1>8. Read(db', key).execution = e /\ Read(db', key).samples = Range(SamplesOf(e))
    <2>1. put.execution = e /\ put.samples = found
        BY <1>5, Zenon
    <2> QED BY <1>6, <1>7, <2>1, Zenon
<1> HIDE DEF key, found, put
<1>9. StoresOK'
    <2>1. ASSUME NEW k \in DOMAIN db'.executions
          PROVE  /\ IsReal(trace, Read(db', k).execution, Len(trace))
                 /\ Read(db', k).samples = Range(SamplesOf(Read(db', k).execution))
        <3>1. CASE k = key
            BY <1>5, <1>8, <3>1, Zenon
        <3>2. CASE k # key
            <4>1. k \in DOMAIN db.executions /\ db'.executions[k] = db.executions[k]
                BY <1>7, <3>2
            <4>2. Read(db', k) = Read(db, k)
                BY <1>3, <1>7, <4>1, ReadKept
            <4> QED BY <1>3, <4>1, <4>2 DEF Faithful
        <3> QED BY <3>1, <3>2
    <2>2. Faithful(db', trace)
        BY <2>1 DEF Faithful
    <2> QED BY <1>1, <1>2, <1>7, <2>2, StoresGrow DEF IsSound
<1>10. next \in 1..Len(builder.completed) /\ Len(builder.completed) \in Nat
    <2>1. Len(builder.completed) \in Nat
        BY LenProperties DEF IInv, BuilderOK, BuilderFits
    <2> QED BY <1>2, <1>4, <2>1 DEF TimesOK
<1>11. AreEvents(trace)' /\ PhaseOK' /\ BuilderOK' /\ TimesOK' /\ Handled' = Handled
    <2>1. next' \in 1..(Len(builder.completed) + 1) /\ numExecutions' \in Nat
        BY <1>1, <1>2, <1>10
    <2> QED BY <1>1, <1>4, <2>1, SavingKeeps
<1>12. ShortKept(db, builder.completed, next, trace, Handled)'
    <2>1. \A r : IsKept(db, builder.completed, next, r) => IsKept(db', builder.completed, next + 1, r)
        <3> SUFFICES ASSUME NEW r, IsKept(db, builder.completed, next, r), ~Stored(db', r)
                     PROVE  \E k \in (next + 1)..Len(builder.completed) : builder.completed[k] = r
            BY DEF IsKept
        <3>1. r # e /\ ~Stored(db, r)
            BY <1>7, StoredKept
        <3>2. PICK k \in next..Len(builder.completed) : builder.completed[k] = r
            BY <3>1 DEF IsKept
        <3>3. k \in (next + 1)..Len(builder.completed)
            BY <1>10, <3>1, <3>2 DEF e
        <3> QED BY <3>2, <3>3
    <2>2. ShortKept(db', builder.completed, next + 1, trace, Handled)
        BY <1>2, <2>1, Zenon DEF ShortKept
    <2> QED BY <1>1, <1>11, <2>2
<1>13. CallsOK'
    <2>1. AreSamples(<< >>) /\ DOMAIN << >> \subseteq DOMAIN db'.stacks
        BY FS_EmptySet DEF AreSamples
    <2> QED BY <1>1, <1>6, <2>1 DEF CallsOK, kEmptyStackId
<1> QED BY <1>9, <1>11, <1>12, <1>13 DEF IInv

(* The end of SaveExecutions: what had completed is stored, or was no      *)
(* short execution, and is forgotten.                                      *)
LEMMA SavedKeeps ==
    ASSUME IInv, Saved
    PROVE  IInv'
<1>1. /\ phase \in {"save", "lastSave"} /\ calls = << >> /\ next > Len(builder.completed)
      /\ builder' = Flush(builder) /\ next' = 1
      /\ IF phase = "lastSave" THEN phase' = "done" /\ UNCHANGED <<saveTs, lastCleanupTs>>
         ELSE /\ phase' = "event" /\ lastCleanupTs' = saveTs /\ saveTs' = builder.ts
      /\ UNCHANGED <<trace, whole, cursor, numExecutions, calls, bottom, samples, db,
                     durable, crashes, reports>>
    BY DEF Saved, Saving, write, outside
<1>2. /\ AreEvents(trace) /\ PhaseOK /\ BuilderOK /\ TimesOK /\ StoresOK /\ CallsOK
      /\ ShortKept(db, builder.completed, next, trace, Handled)
    BY DEF IInv
<1>3. /\ BuilderFits(builder, trace, Handled)
      /\ builder.completed \in Seq(Possible) /\ Len(builder.completed) \in Nat
    BY <1>2, LenProperties DEF BuilderOK, BuilderFits
<1>4. /\ builder' = [ts |-> builder.ts, completed |-> << >>,
                     active |-> builder.active, needsToEnd |-> builder.needsToEnd]
    <2>1. builder = [ts |-> builder.ts, completed |-> builder.completed,
                     active |-> builder.active, needsToEnd |-> builder.needsToEnd]
        BY <1>3 DEF BuilderFits
    <2> QED BY <1>1, <2>1 DEF Flush
<1>5. /\ builder'.ts = builder.ts /\ builder'.completed = << >>
      /\ builder'.active = builder.active /\ builder'.needsToEnd = builder.needsToEnd
    BY <1>4
<1>6. Handled' = Handled
    BY <1>1 DEF Handled
<1>7. BuilderFits(builder', trace, Handled)
    <2>1. << >> \in Seq(Possible) /\ Len(<< >>) = 0
        OBVIOUS
    <2> QED BY <1>3, <1>4, <1>5, <2>1 DEF BuilderFits
<1>8. AreEvents(trace)' /\ StoresOK'
    BY <1>1, <1>2 DEF StoresOK
<1>9. PhaseOK'
    BY <1>1, <1>2 DEF PhaseOK
<1>10. BuilderOK'
    BY <1>1, <1>2, <1>5, <1>6, <1>7 DEF BuilderOK
<1>11. TimesOK'
    <2>1. EndedSince(builder'.completed, saveTs') /\ next' \in 1..(Len(builder'.completed) + 1)
        BY <1>1, <1>5 DEF EndedSince
    <2>2. builder.ts \in Nat
        <3>1. CASE cursor = 0
            BY <1>2, <3>1 DEF BuilderOK
        <3>2. CASE cursor # 0
            <4>1. cursor \in 1..Len(trace)
                BY <1>2, <3>2 DEF PhaseOK
            <4> QED BY <1>2, <3>2, <4>1, EventType DEF BuilderOK
        <3> QED BY <3>1, <3>2
    <2>3. kSaveInterval \in Nat
        BY SavesAssumption
    <2>4. CASE phase = "lastSave"
        BY <1>1, <1>2, <1>5, <2>1, <2>4 DEF TimesOK
    <2>5. CASE phase = "save"
        BY <1>1, <1>2, <1>5, <2>1, <2>2, <2>3, <2>5 DEF TimesOK
    <2> QED BY <1>1, <2>4, <2>5
<1>12. ShortKept(db, builder.completed, next, trace, Handled)'
    <2>1. \A r : IsKept(db, builder.completed, next, r) => IsKept(db, builder'.completed, 1, r)
        <3>1. next..Len(builder.completed) = {}
            BY <1>1, <1>2, <1>3 DEF TimesOK
        <3> QED BY <3>1 DEF IsKept
    <2>2. ShortKept(db, builder'.completed, 1, trace, Handled)
        BY <1>2, <2>1, Zenon DEF ShortKept
    <2> QED BY <1>1, <1>6, <2>2
<1>13. CallsOK'
    BY <1>1, <1>2 DEF CallsOK
<1> QED BY <1>8, <1>9, <1>10, <1>11, <1>12, <1>13 DEF IInv

----------------------------------------------------------------------------
(* Between two calls a stopped or a finished build makes none, and a store *)
(* has what it has.                                                        *)
LEMMA NoCalls ==
    ASSUME CallsOK, phase \in {"down", "done", "event"}
    PROVE  calls = << >>
BY DEF CallsOK

(* A store has grown from itself. *)
LEMMA GrowsItself ==
    ASSUME NEW store, IsStore(store)
    PROVE  Grows(store, store)
BY DEF Grows, IsStore

(* The writes reach the disk.                                              *)
LEMMA SyncKeeps ==
    ASSUME IInv, Sync
    PROVE  IInv'
<1>1. /\ durable' = db
      /\ UNCHANGED <<trace, whole, cursor, phase, builder, saveTs, lastCleanupTs, numExecutions,
                     next, calls, bottom, samples, db, crashes, reports>>
    BY DEF Sync, build, write
<1>2. /\ AreEvents(trace) /\ PhaseOK /\ BuilderOK /\ TimesOK /\ StoresOK /\ CallsOK
      /\ ShortKept(db, builder.completed, next, trace, Handled)
    BY DEF IInv
<1>3. Handled' = Handled
    BY <1>1 DEF Handled
<1>4. PhaseOK'
    BY <1>1, <1>2 DEF PhaseOK
<1>5. BuilderOK'
    BY <1>1, <1>2, <1>3 DEF BuilderOK
<1>6. TimesOK'
    BY <1>1, <1>2 DEF TimesOK
<1>7. ShortKept(db, builder.completed, next, trace, Handled)'
    BY <1>1, <1>2, <1>3
<1>8. StoresOK'
    <2>1. Grows(db, db)
        BY <1>2, GrowsItself DEF StoresOK, IsSound
    <2> QED BY <1>1, <1>2, <2>1 DEF StoresOK
<1>9. CallsOK'
    BY <1>1, <1>2 DEF CallsOK
<1> QED BY <1>1, <1>2, <1>4, <1>5, <1>6, <1>7, <1>8, <1>9 DEF IInv

(* The program stops, or the machine.                                      *)
LEMMA CrashKeeps ==
    ASSUME IInv, Crash
    PROVE  IInv'
<1>1. /\ phase' = "down" /\ builder' = EmptyBuilder /\ crashes' = crashes + 1
      /\ cursor' = 0 /\ saveTs' = 0 /\ lastCleanupTs' = 0 /\ numExecutions' = 0 /\ next' = 1
      /\ calls' = << >> /\ bottom' = kEmptyStackId /\ samples' = << >>
      /\ db' = db \/ db' = durable
      /\ UNCHANGED <<trace, whole, durable, reports>>
    BY DEF Crash, BuildLost
<1>2. AreEvents(trace) /\ PhaseOK /\ StoresOK
    BY DEF IInv
<1>3. Handled' = 0 /\ builder'.ts = 0 /\ builder'.completed = << >>
    BY <1>1 DEF Handled, EmptyBuilder
<1>4. PhaseOK'
    <2>1. 0 \in 0..Len(trace)
        BY <1>2, LenProperties DEF AreEvents
    <2> QED BY <1>1, <1>2, <2>1 DEF PhaseOK
<1>5. BuilderOK'
    <2>1. BuilderFits(EmptyBuilder, trace, 0)
        BY EmptyBuilderFits
    <2> QED BY <1>1, <1>3, <2>1 DEF BuilderOK
<1>6. TimesOK'
    BY <1>1, <1>3 DEF TimesOK
<1>7. ShortKept(db, builder.completed, next, trace, Handled)'
    BY <1>3 DEF ShortKept
<1>8. StoresOK'
    <2>1. Grows(durable, durable)
        BY <1>2, GrowsItself DEF StoresOK, IsSound
    <2> QED BY <1>1, <1>2, <2>1 DEF StoresOK
<1>9. CallsOK'
    <2>1. AreSamples(<< >>) /\ DOMAIN << >> \subseteq DOMAIN db'.stacks
        BY FS_EmptySet DEF AreSamples
    <2> QED BY <1>1, <2>1 DEF CallsOK, kEmptyStackId
<1> QED BY <1>1, <1>2, <1>4, <1>5, <1>6, <1>7, <1>8, <1>9 DEF IInv

(* The build is run again.                                                 *)
LEMMA RerunKeeps ==
    ASSUME IInv, Rerun
    PROVE  IInv'
<1>1. /\ phase = "down" /\ phase' = "read"
      /\ UNCHANGED <<trace, whole, cursor, builder, saveTs, lastCleanupTs, numExecutions, next,
                     calls, bottom, samples, db, durable, crashes, reports>>
    BY DEF Rerun, write, outside
<1>2. /\ AreEvents(trace) /\ PhaseOK /\ BuilderOK /\ TimesOK /\ StoresOK /\ CallsOK
      /\ ShortKept(db, builder.completed, next, trace, Handled)
    BY DEF IInv
<1>3. Handled' = Handled
    BY <1>1 DEF Handled
<1>4. PhaseOK'
    BY <1>1, <1>2 DEF PhaseOK
<1>5. BuilderOK'
    BY <1>1, <1>2, <1>3 DEF BuilderOK
<1>6. TimesOK'
    BY <1>1, <1>2 DEF TimesOK
<1>7. ShortKept(db, builder.completed, next, trace, Handled)'
    BY <1>1, <1>2, <1>3
<1>8. StoresOK'
    BY <1>1, <1>2 DEF StoresOK
<1>9. CallsOK'
    BY <1>1, <1>2, NoCalls DEF CallsOK
<1> QED BY <1>1, <1>2, <1>4, <1>5, <1>6, <1>7, <1>8, <1>9 DEF IInv

(* A report adds the name that it is asked for.                            *)
LEMMA ReportKeeps ==
    ASSUME IInv, Report
    PROVE  IInv'
<1>1. /\ phase = "done" /\ reports' = reports + 1
      /\ UNCHANGED <<trace, whole, cursor, phase, builder, saveTs, lastCleanupTs, numExecutions,
                     next, calls, bottom, samples, durable, crashes>>
    BY DEF Report, build, write
<1>2. PICK name \in ReportNames : db' = AddFunctionName(db, name)
    BY DEF Report
<1>3. /\ AreEvents(trace) /\ PhaseOK /\ BuilderOK /\ TimesOK /\ StoresOK /\ CallsOK
      /\ ShortKept(db, builder.completed, next, trace, Handled)
    BY DEF IInv
<1>4. IsStore(db) /\ Sound(db) /\ Faithful(db, trace)
    BY <1>3 DEF StoresOK, IsSound
<1>5. /\ IsStore(db') /\ Sound(db') /\ Grows(db, db')
      /\ db'.executions = db.executions /\ db'.stacks = db.stacks
    BY <1>2, <1>4, NameAdded
<1>6. Handled' = Handled
    BY <1>1 DEF Handled
<1>7. PhaseOK'
    BY <1>1, <1>3 DEF PhaseOK
<1>8. BuilderOK'
    BY <1>1, <1>3, <1>6 DEF BuilderOK
<1>9. TimesOK'
    BY <1>1, <1>3 DEF TimesOK
<1>10. ShortKept(db, builder.completed, next, trace, Handled)'
    <2>1. ShortKept(db', builder.completed, next, trace, Handled)
        BY <1>3, <1>5, KeptInStore
    <2> QED BY <1>1, <1>6, <2>1
<1>11. StoresOK'
    <2>1. Faithful(db', trace)
        BY <1>4, <1>5, SameExecutions DEF IsSound
    <2> QED BY <1>1, <1>3, <1>5, <2>1, StoresGrow DEF IsSound
<1>12. CallsOK'
    BY <1>1, <1>3, <1>5, NoCalls DEF CallsOK
<1> QED BY <1>1, <1>3, <1>7, <1>8, <1>9, <1>10, <1>11, <1>12 DEF IInv

(* A step of something else leaves everything as it is.                    *)
LEMMA StutterKeeps ==
    ASSUME IInv, UNCHANGED vars
    PROVE  IInv'
<1>1. UNCHANGED <<trace, whole, cursor, phase, builder, saveTs, lastCleanupTs, numExecutions,
                  next, calls, bottom, samples, db, durable, crashes, reports>>
    BY DEF vars, build, write, outside
<1>2. AreEvents(trace)' /\ ShortKept(db, builder.completed, next, trace, Handled)'
    BY <1>1 DEF IInv, Handled
<1>3. PhaseOK' /\ BuilderOK'
    BY <1>1 DEF IInv, PhaseOK, BuilderOK, Handled
<1>4. TimesOK' /\ StoresOK' /\ CallsOK'
    BY <1>1 DEF IInv, TimesOK, StoresOK, CallsOK
<1> QED BY <1>2, <1>3, <1>4 DEF IInv

----------------------------------------------------------------------------
(* The inductive invariant holds in every behaviour: of any trace, stopped *)
(* and run again at any time, with any of the writes on the disk.          *)
THEOREM SavesInvariant == Spec => []IInv
<1>1. ASSUME IInv, [Next]_vars
      PROVE  IInv'
    BY <1>1, OnTimestampKeeps, OnEndKeeps, OnBeginKeeps, OnPunchEndKeeps, OnSampleKeeps,
       SaveExecutionKeeps, CallNameKeeps, CallStackKeeps, CallPutKeeps, SavedKeeps,
       SyncKeeps, CrashKeeps, RerunKeeps, ReportKeeps, StutterKeeps DEF Next, Build
<1> QED BY <1>1, InitKeeps, PTL DEF Spec

(* The state of the build and of both stores has its type: the builder     *)
(* knows for each execution in progress whether it needs an end, its clock *)
(* is not behind the last save, and what is counted is under identifiers   *)
(* of stacks that are stored.                                              *)
THEOREM TypeCorrect == Spec => []TypeOK
<1>1. IInv => TypeOK
    <2> SUFFICES ASSUME IInv PROVE TypeOK
        OBVIOUS
    <2>1. trace \in Seq([ts : Nat, kind : kinds, thread : Threads])
        BY DEF IInv, AreEvents, Events
    <2>2. /\ whole \in BOOLEAN /\ cursor \in 0..Len(trace)
          /\ phase \in {"read", "event", "save", "lastSave", "done", "down"}
          /\ numExecutions \in Nat /\ crashes \in Nat /\ reports \in Nat
        BY DEF IInv, PhaseOK
    <2>3. saveTs \in Nat /\ lastCleanupTs \in Nat /\ lastCleanupTs <= saveTs /\ saveTs <= builder.ts
        BY DEF IInv, TimesOK
    <2>4. next \in Nat
        BY DEF IInv, TimesOK
    <2>5. DOMAIN builder.active \subseteq DOMAIN builder.needsToEnd
        BY DEF IInv, BuilderOK, BuilderFits
    <2>6. bottom \in Nat /\ DOMAIN samples \subseteq DOMAIN db.stacks
        BY DEF IInv, CallsOK
    <2> QED BY <2>1, <2>2, <2>3, <2>4, <2>5, <2>6 DEF TypeOK
<1> QED BY <1>1, SavesInvariant, PTL

(* Every identifier that is stored stands for something that is stored, in *)
(* the database as its readers see it and on the disk of a machine that    *)
(* stopped between any two writes.                                         *)
THEOREM IdentifiersResolve == Spec => []ReferencesResolve
<1>1. IInv => ReferencesResolve
    BY DEF IInv, StoresOK, IsSound, ReferencesResolve
<1> QED BY <1>1, SavesInvariant, PTL

(* Every execution that is stored is one of the trace, from a begin of its *)
(* thread to the next end, and is read back with all samples that were     *)
(* found for it and no other.                                              *)
THEOREM OnlyRealStored == Spec => []StoredIsReal
<1>1. IInv => StoredIsReal
    <2> SUFFICES ASSUME IInv PROVE StoredIsReal
        OBVIOUS
    <2>1. trace \in Seq(Events) /\ Faithful(db, trace)
        BY DEF IInv, AreEvents, StoresOK
    <2>2. \A e : IsReal(trace, e, Len(trace)) => e \in Real(trace)
        BY <2>1, RealIsReal
    <2> QED BY <2>1, <2>2, Zenon DEF Faithful, StoredIsReal
<1> QED BY <1>1, SavesInvariant, PTL

(* When a build is done, every execution that took no longer than the      *)
(* interval between two saves is in the database: neither the skip of      *)
(* executions that began before the cleanup nor a build that was stopped   *)
(* and run again loses one.                                                *)
THEOREM ShortOnesStored == Spec => []ShortExecutionsStored
<1>1. IInv => ShortExecutionsStored
    <2> SUFFICES ASSUME IInv, phase = "done", NEW e \in Real(trace), Short(e)
                 PROVE  Stored(db, e)
        BY DEF ShortExecutionsStored
    <2>1. trace \in Seq(Events) /\ Handled = Len(trace) /\ builder.completed = << >>
        BY DEF IInv, AreEvents, PhaseOK, TimesOK, Handled
    <2>2. IsReal(trace, e, Len(trace))
        BY <2>1, RealIsReal
    <2>3. PICK t \in Threads, i \in 1..Len(trace), j \in 1..Len(trace) :
             Ran(trace, t, i, j) /\ e = Completed(trace, t, i, j)
        BY <2>2, Zenon DEF IsReal
    <2>4. IsKept(db, << >>, next, e)
        BY <2>1, <2>3, Zenon DEF IInv, ShortKept
    <2>5. next = 1
        BY DEF IInv, TimesOK
    <2> QED BY <2>4, <2>5 DEF IsKept
<1> QED BY <1>1, SavesInvariant, PTL

----------------------------------------------------------------------------
(* The values of a store as Interning sees them: those of the identifiers, *)
(* in their order.                                                         *)
LEMMA ValuesList ==
    ASSUME NEW byId, NEW n \in Nat, DOMAIN byId = 1..n, NEW T, \A i \in 1..n : byId[i] \in T
    PROVE  /\ Cardinality(DOMAIN byId) = n
           /\ Values(byId) \in Seq(T) /\ Len(Values(byId)) = n
           /\ \A i \in 1..n : Values(byId)[i] = byId[i]
<1>1. Cardinality(1..n) = n
    BY FS_Interval
<1>2. Values(byId) = [i \in 1..n |-> byId[i]]
    BY <1>1, Zenon DEF Values
<1> QED BY <1>1, <1>2

(* A value that gets the next identifier is one that has none.             *)
LEMMA ValueAdded ==
    ASSUME NEW byId, NEW n \in Nat, DOMAIN byId = 1..n, NEW count, count = n + 1,
           NEW x, \A i \in DOMAIN byId : byId[i] # x,
           NEW new, new = With(byId, count, x)
    PROVE  /\ Len(Values(new)) = Len(Values(byId)) + 1
           /\ Values(new) = Append(Values(byId), Values(new)[Len(Values(new))])
           /\ \A i \in 1..Len(Values(byId)) : Values(byId)[i] # Values(new)[Len(Values(new))]
<1> DEFINE old == Values(byId)
           more == Values(new)
           T == {new[i] : i \in 1..count}
<1>1. /\ DOMAIN new = 1..count /\ new[count] = x /\ count \in Nat /\ count \in 1..count
      /\ \A i \in 1..n : new[i] = byId[i] /\ i \in 1..count
    BY DEF With
<1>2. /\ \A i \in 1..count : new[i] \in T
      /\ \A i \in 1..n : byId[i] \in T
      /\ x \in T
    BY <1>1
<1> HIDE DEF T
<1>3. old \in Seq(T) /\ Len(old) = n /\ \A i \in 1..n : old[i] = byId[i]
    BY <1>2, ValuesList
<1>4. more \in Seq(T) /\ Len(more) = count /\ \A i \in 1..count : more[i] = new[i]
    BY <1>1, <1>2, ValuesList
<1> HIDE DEF old, more
<1>5. /\ Append(old, x) \in Seq(T) /\ Len(Append(old, x)) = count
      /\ \A i \in 1..n : Append(old, x)[i] = old[i]
      /\ Append(old, x)[count] = x
    <2>1. /\ Append(old, x) \in Seq(T) /\ Len(Append(old, x)) = Len(old) + 1
          /\ \A i \in 1..Len(old) : Append(old, x)[i] = old[i]
          /\ Append(old, x)[Len(old) + 1] = x
        BY <1>2, <1>3, AppendProperties
    <2> QED BY <1>3, <2>1
<1>6. \A i \in 1..count : more[i] = Append(old, x)[i]
    <2> TAKE i \in 1..count
    <2>1. i = count \/ i \in 1..n
        OBVIOUS
    <2> QED BY <1>1, <1>3, <1>4, <1>5, <2>1
<1>7. more = Append(old, x)
    BY <1>4, <1>5, <1>6, SeqEqual
<1>8. more[Len(more)] = x
    BY <1>1, <1>4
<1>9. \A i \in 1..Len(old) : old[i] # x
    BY <1>3
<1> QED BY <1>3, <1>4, <1>7, <1>8, <1>9 DEF old, more

(* What a store had before it grew are the first values of what it has.    *)
LEMMA ValuesLost ==
    ASSUME NEW byId, NEW n \in Nat, DOMAIN byId = 1..n,
           NEW more, NEW m \in Nat, DOMAIN more = 1..m, n <= m,
           \A i \in DOMAIN byId : more[i] = byId[i]
    PROVE  Values(byId) = SubSeq(Values(more), 1, Cardinality(DOMAIN byId))
<1> DEFINE T == {more[i] : i \in 1..m}
<1>1. \A i \in 1..m : more[i] \in T
    OBVIOUS
<1>2. \A i \in 1..n : i \in 1..m /\ byId[i] = more[i] /\ byId[i] \in T
    OBVIOUS
<1> HIDE DEF T
<1>3. /\ Values(byId) \in Seq(T) /\ Len(Values(byId)) = n
      /\ \A i \in 1..n : Values(byId)[i] = byId[i]
      /\ Cardinality(DOMAIN byId) = n
    BY <1>1, <1>2, ValuesList
<1>4. \A i \in 1..m : Values(more)[i] = more[i]
    BY <1>1, ValuesList
<1>5. \A i \in 1..n : Values(more)[i] = byId[i] /\ byId[i] \in T
    BY <1>1, <1>2, <1>4
<1>6. /\ SubSeq(Values(more), 1, n) \in Seq(T) /\ Len(SubSeq(Values(more), 1, n)) = n
      /\ \A i \in 1..n : SubSeq(Values(more), 1, n)[i] = Values(more)[i]
    <2> DEFINE v == Values(more)
    <2>1. \A i \in 1..n : v[i] \in T
        BY <1>2, <1>5
    <2> HIDE DEF v
    <2>2. /\ SubSeq(v, 1, n) \in Seq(T) /\ Len(SubSeq(v, 1, n)) = n
          /\ \A i \in 1..n : SubSeq(v, 1, n)[i] = v[i]
        <3>1. /\ SubSeq(v, 1, n) \in Seq(T)
              /\ Len(SubSeq(v, 1, n)) = IF 1 <= n THEN n - 1 + 1 ELSE 0
              /\ \A i \in 1..(n - 1 + 1) : SubSeq(v, 1, n)[i] = v[1 + i - 1]
            BY <2>1, SubSeqProperties
        <3>2. \A i \in 1..n : i \in 1..(n - 1 + 1) /\ 1 + i - 1 = i
            OBVIOUS
        <3> QED BY <3>1, <3>2
    <2> QED BY <2>2 DEF v
<1>7. \A i \in 1..n : Values(byId)[i] = SubSeq(Values(more), 1, n)[i]
    BY <1>3, <1>5, <1>6
<1> QED BY <1>3, <1>6, <1>7, SeqEqual

(* What a step may do to the names, or the stacks, of the database and of  *)
(* the disk: nothing, a value that has no identifier gets the next one,    *)
(* the disk gets what the database has, the database is left with what the *)
(* disk has.                                                               *)
Interns(byId, kept, newById, newKept) ==
    \/ newById = byId /\ newKept = kept
    \/ /\ newKept = kept
       /\ \E n \in Nat : \E x :
             /\ DOMAIN byId = 1..n /\ \A i \in DOMAIN byId : byId[i] # x
             /\ newById = With(byId, n + 1, x)
    \/ newById = byId /\ newKept = byId
    \/ newById = kept /\ newKept = kept

(* Names and stacks are interned. *)
InternsBoth ==
    /\ Interns(db.functionNames, durable.functionNames, db'.functionNames, durable'.functionNames)
    /\ Interns(db.stacks, durable.stacks, db'.stacks, durable'.stacks)

(* A step that leaves the stores alone interns nothing. *)
LEMMA StoresApart ==
    ASSUME db' = db, durable' = durable
    PROVE  InternsBoth
BY DEF InternsBoth, Interns

(* AddFunctionName and AddStack give identifiers, ...                      *)
LEMMA NameInterned ==
    ASSUME IsStore(db), Sound(db), NEW name, db' = AddFunctionName(db, name), durable' = durable
    PROVE  InternsBoth
<1> DEFINE n == db.functionNameCount - 1
<1>1. /\ db'.stacks = db.stacks
      /\ \/ db' = db
         \/ /\ name \notin DOMAIN db.functionNameIds
            /\ db'.functionNames = With(db.functionNames, db.functionNameCount, name)
    BY NameAdded
<1>2. /\ n \in Nat /\ n + 1 = db.functionNameCount /\ DOMAIN db.functionNames = 1..n
      /\ \A i \in DOMAIN db.functionNames : db.functionNames[i] \in DOMAIN db.functionNameIds
    BY DEF IsStore, Sound, Interned
<1> HIDE DEF n
<1>3. Interns(db.functionNames, durable.functionNames, db'.functionNames, durable'.functionNames)
    <2>1. CASE db' = db
        BY <2>1 DEF Interns
    <2>2. CASE /\ name \notin DOMAIN db.functionNameIds
               /\ db'.functionNames = With(db.functionNames, db.functionNameCount, name)
        <3>1. \A i \in DOMAIN db.functionNames : db.functionNames[i] # name
            BY <1>2, <2>2
        <3>2. db'.functionNames = With(db.functionNames, n + 1, name)
            BY <1>2, <2>2
        <3> QED BY <1>2, <3>1, <3>2, Zenon DEF Interns
    <2> QED BY <1>1, <2>1, <2>2
<1>4. Interns(db.stacks, durable.stacks, db'.stacks, durable'.stacks)
    BY <1>1 DEF Interns
<1> QED BY <1>3, <1>4 DEF InternsBoth

(* AddStack gives a stack the next identifier, or none. *)
LEMMA StackInterned ==
    ASSUME IsStore(db), Sound(db), NEW stack, db' = AddStack(db, stack), durable' = durable
    PROVE  InternsBoth
<1> DEFINE n == db.stackCount - 1
<1>1. /\ n \in Nat /\ n + 1 = db.stackCount /\ DOMAIN db.stacks = 1..n
      /\ \A i \in DOMAIN db.stacks : db.stacks[i] \in DOMAIN db.stackIds
    BY DEF IsStore, Sound, Interned
<1> HIDE DEF n
<1>2. CASE stack \in DOMAIN db.stackIds
    <2>1. db' = db
        BY <1>2 DEF AddStack
    <2> QED BY <2>1, StoresApart
<1>3. CASE stack \notin DOMAIN db.stackIds
    <2>1. db' = [functionNameCount |-> db.functionNameCount, stackCount |-> db.stackCount + 1,
                 functionNames |-> db.functionNames,
                 stacks |-> With(db.stacks, db.stackCount, stack),
                 functionNameIds |-> db.functionNameIds,
                 stackIds |-> With(db.stackIds, stack, db.stackCount),
                 executions |-> db.executions]
        BY <1>3 DEF AddStack, IsStore
    <2>2. db'.functionNames = db.functionNames /\ db'.stacks = With(db.stacks, n + 1, stack)
        BY <1>1, <2>1
    <2>3. \A i \in DOMAIN db.stacks : db.stacks[i] # stack
        BY <1>1, <1>3
    <2>4. Interns(db.stacks, durable.stacks, db'.stacks, durable'.stacks)
        BY <1>1, <2>2, <2>3, Zenon DEF Interns
    <2> QED BY <2>2, <2>4 DEF InternsBoth, Interns
<1> QED BY <1>2, <1>3

(* ... and no other step than those and a crash changes any.               *)
LEMMA StepInterns ==
    ASSUME IInv, [Next]_vars
    PROVE  InternsBoth
<1>1. IsStore(db) /\ Sound(db)
    BY DEF IInv, StoresOK, IsSound
<1>2. CASE CallName \/ Report
    <2>1. PICK name : db' = AddFunctionName(db, name)
        BY <1>2 DEF CallName, Report
    <2>2. durable' = durable
        BY <1>2 DEF CallName, Report, CallUnchanged, outside
    <2> QED BY <1>1, <2>1, <2>2, NameInterned
<1>3. CASE CallStack
    <2>1. PICK stack : db' = AddStack(db, stack)
        BY <1>3 DEF CallStack
    <2>2. durable' = durable
        BY <1>3 DEF CallStack, CallUnchanged, outside
    <2> QED BY <1>1, <2>1, <2>2, StackInterned
<1>4. CASE CallPut
    <2>1. db' = PutExecution(db, builder.completed[next], samples) /\ durable' = durable
        BY <1>4 DEF CallPut, CallUnchanged, outside
    <2>2. db'.functionNames = db.functionNames /\ db'.stacks = db.stacks
        BY <1>1, <2>1 DEF PutExecution, IsStore
    <2> QED BY <2>1, <2>2 DEF InternsBoth, Interns
<1>5. CASE Sync
    BY <1>5 DEF Sync, InternsBoth, Interns
<1>6. CASE Crash
    BY <1>6 DEF Crash, InternsBoth, Interns
<1>7. CASE OnTimestamp \/ OnEnd \/ Rerun \/ SaveExecution \/ Saved
    <2>1. db' = db /\ durable' = durable
        BY <1>7 DEF OnTimestamp, OnEnd, Rerun, SaveExecution, Saved, outside
    <2> QED BY <2>1, StoresApart
<1>8. CASE OnBegin \/ OnPunchEnd \/ OnSample
    <2>1. db' = db /\ durable' = durable
        BY <1>8 DEF OnBegin, OnPunchEnd, OnSample, EventUnchanged, outside
    <2> QED BY <2>1, StoresApart
<1>9. CASE UNCHANGED vars
    <2>1. db' = db /\ durable' = durable
        BY <1>9 DEF vars, outside
    <2> QED BY <2>1, StoresApart
<1> QED BY <1>2, <1>3, <1>4, <1>5, <1>6, <1>7, <1>8, <1>9 DEF Next, Build

(* Such a step is one of Interning, or none of it.                         *)
Adds(values, newValues) ==
    /\ Len(newValues) = Len(values) + 1
    /\ newValues = Append(values, newValues[Len(newValues)])
    /\ \A i \in 1..Len(values) : values[i] # newValues[Len(newValues)]

(* A step that interns is one of Interning, for the values in the order
   of their identifiers: one more, a sync, a loss of the last ones, or
   nothing. *)
LEMMA InternsStep ==
    ASSUME NEW byId, NEW kept, NEW newById, NEW newKept, Interns(byId, kept, newById, newKept),
           NEW n \in Nat, DOMAIN byId = 1..n, NEW k \in Nat, DOMAIN kept = 1..k, k <= n,
           \A i \in DOMAIN kept : byId[i] = kept[i]
    PROVE  LET values == Values(byId) new == Values(newById)
               safe == Cardinality(DOMAIN kept) newSafe == Cardinality(DOMAIN newKept)
           IN  \/ Adds(values, new) /\ newSafe = safe
               \/ newSafe = Len(values) /\ new = values
               \/ new = SubSeq(values, 1, safe) /\ newSafe = safe
               \/ new = values /\ newSafe = safe
<1>1. CASE newById = byId /\ newKept = kept
    BY <1>1
<1>2. CASE newById = byId /\ newKept = byId
    <2>1. Cardinality(DOMAIN byId) = n /\ Len(Values(byId)) = n
        <3> DEFINE T == {byId[i] : i \in 1..n}
        <3>1. \A i \in 1..n : byId[i] \in T
            OBVIOUS
        <3> HIDE DEF T
        <3> QED BY <3>1, ValuesList
    <2> QED BY <1>2, <2>1
<1>3. CASE newById = kept /\ newKept = kept
    <2>1. Values(kept) = SubSeq(Values(byId), 1, Cardinality(DOMAIN kept))
        BY ValuesLost
    <2> QED BY <1>3, <2>1
<1>4. ASSUME newKept = kept, NEW m \in Nat, NEW x,
             DOMAIN byId = 1..m, \A i \in DOMAIN byId : byId[i] # x,
             newById = With(byId, m + 1, x)
      PROVE  Adds(Values(byId), Values(newById))
    <2> DEFINE count == m + 1
    <2>1. count = m + 1 /\ newById = With(byId, count, x)
        BY <1>4
    <2> HIDE DEF count
    <2> QED BY <1>4, <2>1, ValueAdded DEF Adds
<1> QED BY <1>1, <1>2, <1>3, <1>4, Zenon DEF Interns

(* The names and the stacks keep the identifier they are given for as long *)
(* as they exist, and get them in order: the database, over any number of  *)
(* crashes, refines Interning twice.                                       *)
THEOREM IdentifiersInterned == Spec => IdentifiersAreInterned
<1>1. Init => Names!Init /\ Stacks!Init
    <2> SUFFICES ASSUME Init PROVE Names!Init /\ Stacks!Init
        OBVIOUS
    <2>1. /\ db.functionNames = << >> /\ durable.functionNames = << >>
          /\ db.stacks = << >> /\ durable.stacks = << >>
        BY DEF Init, EmptyDatabase
    <2>2. Cardinality(DOMAIN << >>) = 0
        BY FS_EmptySet
    <2>3. Values(<< >>) = << >>
        BY <2>2 DEF Values
    <2> QED BY <2>1, <2>2, <2>3 DEF Names!Init, Stacks!Init
<1>2. ASSUME IInv, [Next]_vars
      PROVE  /\ [Names!Next]_<<Values(db.functionNames), Cardinality(DOMAIN durable.functionNames)>>
             /\ [Stacks!Next]_<<Values(db.stacks), Cardinality(DOMAIN durable.stacks)>>
    <2>1. InternsBoth
        BY <1>2, StepInterns
    <2>2. IsStore(db) /\ Sound(db) /\ IsStore(durable) /\ Sound(durable) /\ Grows(durable, db)
        BY <1>2 DEF IInv, StoresOK, IsSound
    <2>3. [Names!Next]_<<Values(db.functionNames), Cardinality(DOMAIN durable.functionNames)>>
        <3> DEFINE n == db.functionNameCount - 1
                   k == durable.functionNameCount - 1
        <3>1. /\ n \in Nat /\ DOMAIN db.functionNames = 1..n
              /\ k \in Nat /\ DOMAIN durable.functionNames = 1..k /\ k <= n
              /\ \A i \in DOMAIN durable.functionNames :
                    db.functionNames[i] = durable.functionNames[i]
            BY <2>2 DEF IsStore, Sound, Interned, Grows
        <3> HIDE DEF n, k
        <3> DEFINE values == Values(db.functionNames)
                   safe == Cardinality(DOMAIN durable.functionNames)
        <3>2. \/ Adds(values, values') /\ safe' = safe
              \/ safe' = Len(values) /\ values' = values
              \/ values' = SubSeq(values, 1, safe) /\ safe' = safe
              \/ values' = values /\ safe' = safe
            BY <2>1, <3>1, InternsStep DEF InternsBoth
        <3> QED BY <3>2 DEF Adds, Names!Next, Names!Add, Names!Sync, Names!Lose,
                            Names!Last, Names!Contains
    <2>4. [Stacks!Next]_<<Values(db.stacks), Cardinality(DOMAIN durable.stacks)>>
        <3> DEFINE n == db.stackCount - 1
                   k == durable.stackCount - 1
        <3>1. /\ n \in Nat /\ DOMAIN db.stacks = 1..n
              /\ k \in Nat /\ DOMAIN durable.stacks = 1..k /\ k <= n
              /\ \A i \in DOMAIN durable.stacks : db.stacks[i] = durable.stacks[i]
            BY <2>2 DEF IsStore, Sound, Interned, Grows
        <3> HIDE DEF n, k
        <3> DEFINE values == Values(db.stacks)
                   safe == Cardinality(DOMAIN durable.stacks)
        <3>2. \/ Adds(values, values') /\ safe' = safe
              \/ safe' = Len(values) /\ values' = values
              \/ values' = SubSeq(values, 1, safe) /\ safe' = safe
              \/ values' = values /\ safe' = safe
            BY <2>1, <3>1, InternsStep DEF InternsBoth
        <3> QED BY <3>2 DEF Adds, Stacks!Next, Stacks!Add, Stacks!Sync, Stacks!Lose,
                            Stacks!Last, Stacks!Contains
    <2> QED BY <2>3, <2>4
<1> QED BY <1>1, <1>2, SavesInvariant, PTL
        DEF Spec, IdentifiersAreInterned, Names!Spec, Stacks!Spec
=============================================================================
