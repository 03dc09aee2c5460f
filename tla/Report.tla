------------------------------- MODULE Report -------------------------------
(***************************************************************************)
(* src/report: tibeereport writes the executions of a name, with what each *)
(* spent in every stack, then the stacks that it met, to a JSON file.      *)
(* Here it is a function of the database, and is looked at in every state  *)
(* in which no build runs.                                                 *)
(***************************************************************************)
EXTENDS Saves, JsonWriter

CONSTANT
    kNsPerUs   \* 1000, the nanoseconds of a microsecond

ASSUME ReportAssumption == kNsPerUs \in Nat \ {0}

(* The stacks met so far, and, by bottom, those that lie on it, in the     *)
(* order in which they were met.                                           *)
NoMaps == [stacks |-> << >>, reverse |-> << >>]

Children(maps, id) == IF id \in DOMAIN maps.reverse THEN maps.reverse[id] ELSE << >>

(* Goes through the stacks to do; the bottom of a new one is one more.     *)
RECURSIVE EnsureStacksInMap(_, _, _)
EnsureStacksInMap(store, maps, toDo) ==
    IF toDo = << >> THEN maps
    ELSE LET id    == Head(toDo)
             stack == GetStack(store, id)
         IN  IF id = kEmptyStackId \/ id \in DOMAIN maps.stacks
             THEN EnsureStacksInMap(store, maps, Tail(toDo))
             ELSE EnsureStacksInMap(store,
                     [stacks  |-> (id :> stack) @@ maps.stacks,
                      reverse |-> (stack.bottom :> Append(Children(maps, stack.bottom), id))
                                     @@ maps.reverse],
                     Append(Tail(toDo), stack.bottom))

(* Writes the count of a stack after those of the stacks that lie on it;   *)
(* "r" has the writer, and the sum of the counts so far.                   *)
RECURSIVE WriteSamples(_, _, _, _)
WriteSamples(r, id, execution, maps) ==
    LET children  == FoldLeft(LAMBDA s, child : WriteSamples(s, child, execution, maps),
                              [writer |-> r.writer, count |-> 0], Children(maps, id))
        own       == IF id \in DOMAIN execution.samples THEN execution.samples[id] ELSE 0
        inclusive == own + children.count
        shown     == inclusive \div kNsPerUs
    IN  [count  |-> r.count + inclusive,
         writer |-> IF id = kEmptyStackId \/ shown = 0 THEN children.writer
                    ELSE KeyValue(children.writer, ToString(id), ToString(shown))]

(* Each execution meets the stacks anew, in the map of children of all.    *)
MutWriteExecution(r, execution, store) ==
    LET maps   == EnsureStacksInMap(store, [r.maps EXCEPT !.stacks = << >>],
                                    SetToSeq(DOMAIN execution.samples))
        all    == [maps EXCEPT !.stacks = @ @@ r.maps.stacks]
        writer == KeyDictValue(BeginDict(r.writer), "samples")
        after  == WriteSamples([writer |-> writer, count |-> 0], kEmptyStackId, execution, maps)
    IN  [maps |-> all, writer |-> EndDict(EndDict(after.writer))]

(* One execution; its metrics are left out.                                *)
WriteExecution(r, execution, store) ==
    LET maps   == EnsureStacksInMap(store, r.maps, SetToSeq(DOMAIN execution.samples))
        writer == KeyDictValue(BeginDict(r.writer), "samples")
        after  == WriteSamples([writer |-> writer, count |-> 0], kEmptyStackId, execution, maps)
    IN  [maps |-> maps, writer |-> EndDict(EndDict(after.writer))]

WriteExecutions(writer, name, store) ==
    LET named == AddFunctionName(store, name)
        r     == FoldLeft(LAMBDA s, execution : WriteExecution(s, execution, store),
                          [maps |-> NoMaps, writer |-> KeyArrayValue(writer, "executions")],
                          Enumerated(named, FunctionNameId(named, name), 0))
    IN  [r EXCEPT !.writer = EndArray(@)]

(* A std::map of stacks: in the order of their identifiers.                *)
WriteStacks(writer, store, stacks) ==
    LET WriteStack(w, id) ==
            EndDict(KeyValue(KeyValue(KeyDictValue(w, ToString(id)),
                                      "b", ToString(stacks[id].bottom)),
                             "f", GetFunctionName(store, stacks[id].function)))
    IN  EndDict(FoldLeft(WriteStack, KeyDictValue(writer, "stacks"),
                         SetToSortSeq(DOMAIN stacks, <)))

(* TibeeReport::run.                                                       *)
run(name, store) ==
    LET r == WriteExecutions(BeginDict(Open), name, store)
    IN  EndDict(WriteStacks(r.writer, store, r.maps.stacks))

----------------------------------------------------------------------------
(* A report is one JSON dictionary: it has every execution of the name, in *)
(* the order of their starts, whatever the order in which they ended and   *)
(* were stored, and for each the time it spent in every stack and in those *)
(* above it, when that is a microsecond or more; and it has every stack    *)
(* that a reader comes to from there, down to the empty one.  The stacks   *)
(* that an execution has in common with an earlier one count for each as   *)
(* if it were alone (WriteExecutions.cpp:60-80, 179).                      *)
Within(store, id, top) == IsPrefix(Frames(store)[id], Frames(store)[top])

Inclusive(store, execution, id) ==
    FoldFunction(+, 0, [top \in {t \in DOMAIN execution.samples : Within(store, id, t)}
                          |-> execution.samples[top]])

SamplesWritten(store, executions) ==
    {<<<<"executions", ToString(n - 1), "samples", ToString(id)>>,
       ToString(Inclusive(store, executions[n], id) \div kNsPerUs)>> :
       <<n, id>> \in {p \in (DOMAIN executions) \X (DOMAIN store.stacks) :
                        Inclusive(store, executions[p[1]], p[2]) >= kNsPerUs}}

StacksWritten(store, executions) ==
    LET met == {id \in DOMAIN store.stacks : \E n \in DOMAIN executions :
                  \E top \in DOMAIN executions[n].samples : Within(store, id, top)}
    IN  UNION {{<<<<"stacks", ToString(id), "b">>, ToString(store.stacks[id].bottom)>>,
                <<<<"stacks", ToString(id), "f">>,
                  GetFunctionName(store, store.stacks[id].function)>>} : id \in met}

ReportComplete ==
    phase \in {"done", "down"} =>
        LET writer     == run(Name, db)
            values     == ReadAll(writer.out).values
            named      == {key \in DOMAIN db.executions : db.functionNames[key.name] = Name}
            executions == {ExecutionFromBuffer(db.executions[key]) : key \in named}
            sorted     == SetToSortSeq(executions, LAMBDA a, b : a.startTs < b.startTs)
        IN  /\ ~writer.failed /\ WellFormed(writer.out)
            /\ {<<p, values[p]>> : p \in DOMAIN values}
                  = SamplesWritten(db, sorted) \union StacksWritten(db, sorted)
=============================================================================
