------------------------------ MODULE Database ------------------------------
(***************************************************************************)
(* src/db/Database.cpp: names, stacks and executions in one LevelDB.  The  *)
(* key types are the fields of a record, and a batch of writes makes one   *)
(* new record: LevelDB applies it as a whole.  The caches of the class say *)
(* what the store says, and are left out.                                  *)
(*                                                                         *)
(* An execution is stored as one buffer.                                   *)
(***************************************************************************)
EXTENDS Integers, FiniteSets, Sequences, SequencesExt, Maps

kEmptyStackId == 0

EmptyDatabase ==
    [functionNameCount |-> 1,       \* the next identifier, by GetIdentifier
     stackCount        |-> 1,       \* the identifier 0 is not used
     functionNames     |-> << >>,   \* kFunctionNameIdType: identifier to name
     stacks            |-> << >>,   \* kStackIdType: identifier to stack
     functionNameIds   |-> << >>,   \* kFunctionNameReverseIdType: name to identifier
     stackIds          |-> << >>,   \* kStackReverseIdType: stack to identifier
     executions        |-> << >>]   \* kExecutionKeyType: name and start to buffer

Stack(bottom, function) == [bottom |-> bottom, function |-> function]

(* The next identifier is not stored with the name.                        *)
MutAddFunctionName(db, name) ==
    LET id == db.functionNameCount
    IN  IF name \in DOMAIN db.functionNameIds THEN db
        ELSE [db EXCEPT !.functionNames   = With(@, id, name),
                        !.functionNameIds = With(@, name, id)]

AddFunctionName(db, name) ==
    LET id == db.functionNameCount
    IN  IF name \in DOMAIN db.functionNameIds THEN db
        ELSE [db EXCEPT !.functionNameCount = id + 1,
                        !.functionNames     = With(@, id, name),
                        !.functionNameIds   = With(@, name, id)]

(* Every stack gets a new identifier.                                      *)
MutAddStack(db, stack) ==
    LET id == db.stackCount
    IN  [db EXCEPT !.stackCount = id + 1,
                   !.stacks     = With(@, id, stack),
                   !.stackIds   = With(@, stack, id)]

AddStack(db, stack) ==
    LET id == db.stackCount
    IN  IF stack \in DOMAIN db.stackIds THEN db
        ELSE [db EXCEPT !.stackCount = id + 1,
                        !.stacks     = With(@, id, stack),
                        !.stackIds   = With(@, stack, id)]

(* The identifiers that AddFunctionName and AddStack return.               *)
FunctionNameId(db, name) == db.functionNameIds[name]
StackId(db, stack)       == db.stackIds[stack]

GetFunctionName(db, id) == db.functionNames[id]
GetStack(db, id)        == db.stacks[id]

(* The key of an execution: KeyComparator compares the identifier of the   *)
(* name, then the start, and nothing else.                                 *)
ExecutionKey(nameId, execution) == [name |-> nameId, startTs |-> execution.startTs]

(* The bytes of an execution, one number for each field, and its samples   *)
(* behind their count: WriteExecution...ToBuffer.  The metrics, between    *)
(* the fields and the samples in the same form, are left out.              *)
ExecutionToBuffer(nameId, traceId, execution, samples) ==
    <<nameId, traceId, execution.startTs, execution.startThread,
      execution.endTs, execution.endThread, Cardinality(DOMAIN samples)>>
    \o FlattenSeq(SetToSeq({<<id, samples[id]>> : id \in DOMAIN samples}))

(* ReadExecution...FromBuffer.                                             *)
ExecutionFromBuffer(buffer) ==
    [name    |-> buffer[1], trace       |-> buffer[2],
     startTs |-> buffer[3], startThread |-> buffer[4],
     endTs   |-> buffer[5], endThread   |-> buffer[6],
     samples |-> [id \in {buffer[6 + 2 * i] : i \in 1..buffer[7]} |->
                    buffer[1 + CHOOSE p \in {6 + 2 * i : i \in 1..buffer[7]} : buffer[p] = id]]]

(* Puts an execution whose name and trace are already strings of the       *)
(* database: AddExecution after its two calls of AddString.                *)
PutExecution(db, execution, samples) ==
    LET nameId == FunctionNameId(db, execution.name)
        buffer == ExecutionToBuffer(nameId, FunctionNameId(db, execution.trace),
                                    execution, samples)
    IN  [db EXCEPT !.executions = With(@, ExecutionKey(nameId, execution), buffer)]

(* The executions of a name by their start, all or, when there are many,   *)
(* one out of numSkip (how many is up to LevelDB's estimate of sizes).     *)
KeysOf(db, nameId) == {key \in DOMAIN db.executions : key.name = nameId}

Rank(keys, key) == Cardinality({other \in keys : other.startTs < key.startTs})

Enumerated(db, nameId, numSkip) ==
    LET keys  == KeysOf(db, nameId)
        shown == {key \in keys : numSkip < 2 \/ Rank(keys, key) % numSkip = 0}
    IN  [i \in 1..Cardinality(shown) |->
           ExecutionFromBuffer(db.executions[CHOOSE key \in shown : Rank(shown, key) = i - 1])]

----------------------------------------------------------------------------
(* A name, and a stack, has one identifier and the identifier one of them; *)
(* the identifiers still to be given are not in use.                       *)
Interned(byId, ids, count) ==
    /\ DOMAIN byId = 1..(count - 1)
    /\ \A id \in DOMAIN byId : byId[id] \in DOMAIN ids /\ ids[byId[id]] = id
    /\ \A x \in DOMAIN ids : ids[x] \in DOMAIN byId /\ byId[ids[x]] = x

(* What an identifier in the store stands for is in the store; a stack     *)
(* lies on one that was there before it, so that following the bottoms     *)
(* comes to an end (Database.cpp:579-583).                                 *)
Resolved(db) ==
    /\ \A id \in DOMAIN db.stacks :
          /\ db.stacks[id].function \in DOMAIN db.functionNames
          /\ db.stacks[id].bottom \in 0..(id - 1)
    /\ \A key \in DOMAIN db.executions :
          LET e == ExecutionFromBuffer(db.executions[key])
          IN  /\ key = ExecutionKey(e.name, e)
              /\ {e.name, e.trace} \subseteq DOMAIN db.functionNames
              /\ DOMAIN e.samples \subseteq DOMAIN db.stacks

Sound(store) ==
    /\ Interned(store.functionNames, store.functionNameIds, store.functionNameCount)
    /\ Interned(store.stacks, store.stackIds, store.stackCount)
    /\ Resolved(store)

----------------------------------------------------------------------------
(* An execution as a reader of the database gets it, a stack as the names  *)
(* of its functions.                                                       *)
Frames(store) ==
    LET F[id \in 0..(store.stackCount - 1)] ==
            IF id = kEmptyStackId THEN << >>
            ELSE Append(F[GetStack(store, id).bottom],
                        GetFunctionName(store, GetStack(store, id).function))
    IN  F

Read(store, key) ==
    LET e == ExecutionFromBuffer(store.executions[key])
    IN  [execution |-> [name |-> GetFunctionName(store, e.name),
                        trace |-> GetFunctionName(store, e.trace),
                        startTs |-> e.startTs, startThread |-> e.startThread,
                        endTs |-> e.endTs, endThread |-> e.endThread],
         samples   |-> {[frames |-> Frames(store)[id], value |-> e.samples[id]]
                          : id \in DOMAIN e.samples}]

Stored(store, execution) ==
    /\ execution.name \in DOMAIN store.functionNameIds
    /\ ExecutionKey(FunctionNameId(store, execution.name), execution) \in DOMAIN store.executions
============================================================================
