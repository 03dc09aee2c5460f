------------------------------- MODULE Saves --------------------------------
(***************************************************************************)
(* How executions reach the database.  One thread reads the trace; for     *)
(* each event the trace block notifies the time, then the event, and at    *)
(* the end the end.  BuildBlock saves the completed executions each        *)
(* kSaveInterval of trace time and at the end; PunchBlock starts and ends  *)
(* executions.  One call of the database is one step here, since the       *)
(* program, or the machine, may stop between two of them: LevelDB writes   *)
(* without sync, so that the writes survive the program but the last ones  *)
(* need not survive the machine.                                           *)
(*                                                                         *)
(* A build that was stopped is run again from the start of the same trace, *)
(* on the database that the first one left.                                *)
(***************************************************************************)
EXTENDS Database, Executions, FiniteSetsExt

CONSTANTS
    Threads,         \* threads that emit events
    Exec,            \* PunchBlock's "exec": analyzed thread name, or ""
    ThreadName(_),   \* the name that the current state knows for a thread
    Name,            \* PunchBlock's "name", that of every execution
    SampleFrames,    \* the frames of the stack that a profiler event reads
    SamplesOf(_),    \* what ExtractStacks finds for an execution
    kSaveInterval,
    ReportNames,     \* names for which a report is asked
    MaxFirstTs, MaxStep, MaxEvents,   \* bounds on the trace
    MaxStoppedEvents,                 \* bound on a trace of which a build is stopped
    MaxCrashes, MaxReports

ASSUME SavesAssumption ==
    /\ Threads \subseteq Nat /\ Threads # {}
    /\ {kSaveInterval, MaxFirstTs, MaxStep, MaxEvents, MaxStoppedEvents,
         MaxCrashes, MaxReports} \subseteq Nat
    /\ {Name} \union ReportNames \subseteq STRING

(* The executions that a trace within the bounds can have.                 *)
Times == 0..(MaxFirstTs + MaxEvents * MaxStep)

Possible ==
    [name : {Name}, trace : {""}, startTs : Times, startThread : Threads,
     endTs : Times, endThread : Threads]

(* No stack is empty, and ExtractStacks finds an amount for each of those  *)
(* that an execution spent time on: none of them is listed twice.          *)
ASSUME SamplesAssumption ==
    /\ SampleFrames \in Seq(STRING) \ {<< >>}
    /\ \A e \in Possible :
          /\ SamplesOf(e) \in Seq([frames : Seq(STRING) \ {<< >>}, value : Nat])
          /\ \A i, j \in DOMAIN SamplesOf(e) :
                SamplesOf(e)[i].frames = SamplesOf(e)[j].frames => i = j

VARIABLES
    trace,          \* the events of the trace, as far as a run has read it
    whole,          \* no event follows them
    cursor,         \* the number of events that this run has read
    phase,          \* "read", "event", "save" (from onTimestamp), "lastSave" (from
                    \* onEnd), "done", or "down": no build runs
    builder,        \* _executionsBuilder
    saveTs, lastCleanupTs, numExecutions,
    next,           \* the completed execution that SaveExecutions is at
    calls,          \* the calls of the database that are still to be made for it
    bottom,         \* the identifier that the last AddStack returned
    samples,        \* the samples of the execution, so far
    db, durable,    \* what a reader sees, and what a crash of the machine leaves
    crashes, reports

build == <<cursor, phase, builder, saveTs, lastCleanupTs, numExecutions, next>>
write == <<calls, bottom, samples>>
outside == <<durable, crashes, reports>>
vars == <<trace, whole, build, write, db, outside>>

kinds == {"begin", "end", "sample"}

Init ==
    /\ trace = << >> /\ whole = FALSE
    /\ cursor = 0 /\ phase = "read" /\ builder = EmptyBuilder
    /\ saveTs = 0 /\ lastCleanupTs = 0 /\ numExecutions = 0 /\ next = 1
    /\ calls = << >> /\ bottom = kEmptyStackId /\ samples = << >>
    /\ db = EmptyDatabase /\ durable = EmptyDatabase
    /\ crashes = 0 /\ reports = 0

----------------------------------------------------------------------------
(* The bound on the trace: it stays short where a build was stopped, or    *)
(* where writes that reached the disk may yet make a difference.           *)
IsShort == Len(trace) <= MaxStoppedEvents

AtBound ==
    \/ Len(trace) = MaxEvents
    \/ (crashes # 0 \/ durable # EmptyDatabase) /\ Len(trace) >= MaxStoppedEvents

(* The trace: the next event is the one an earlier run read there, or, past *)
(* those, any event that is not earlier than the last.  Whose thread is    *)
(* sampled makes no difference here.                                       *)
NextEvents ==
    IF cursor < Len(trace) THEN {trace[cursor + 1]}
    ELSE LET times == IF trace = << >> THEN 0..MaxFirstTs
                      ELSE Last(trace).ts .. (Last(trace).ts + MaxStep)
         IN  IF whole \/ AtBound THEN {}
             ELSE [ts : times, kind : kinds \ {"sample"}, thread : Threads]
                    \union [ts : times, kind : {"sample"}, thread : {Min(Threads)}]

Event == trace[cursor]

(* The calls by which a stack of these frames gets into the database, from *)
(* the bottom up (PushOnStack, GetStackIdentifier); the top one counts for *)
(* "value" of the execution's samples, if it is one of those.              *)
kNotCounted == -1

Call(do, arg, first, value) == [do |-> do, arg |-> arg, first |-> first, value |-> value]

Pushes(frames, value) ==
    FlattenSeq([i \in DOMAIN frames |->
        <<Call("AddFunctionName", frames[i], FALSE, kNotCounted),
          Call("AddStack", frames[i], i = 1,
               IF i = Len(frames) THEN value ELSE kNotCounted)>>])

(* The calls that SaveExecutions makes for an execution.                   *)
SaveCalls(execution) ==
    FlattenSeq([i \in DOMAIN SamplesOf(execution) |->
                  Pushes(SamplesOf(execution)[i].frames, SamplesOf(execution)[i].value)])
    \o <<Call("AddFunctionName", execution.name, FALSE, kNotCounted),
         Call("AddFunctionName", execution.trace, FALSE, kNotCounted),
         Call("Put", "", FALSE, kNotCounted)>>

----------------------------------------------------------------------------
(* BuildBlock::onTimestamp, on the next event.  The other builders get the *)
(* time, and are cleaned after a save, in modules of their own.  An event  *)
(* is handled, with the calls of the database that it makes, before the    *)
(* next is read.                                                           *)
OnTimestamp ==
    /\ phase = "read" /\ calls = << >>
    /\ \E event \in NextEvents :
          /\ trace' = IF cursor < Len(trace) THEN trace ELSE Append(trace, event)
          /\ cursor' = cursor + 1
          /\ IF saveTs # 0 /\ event.ts > saveTs + kSaveInterval
             THEN /\ builder' = Terminate(SetTimestamp(builder, event.ts))
                  /\ phase' = "save" /\ next' = 1 /\ UNCHANGED saveTs
             ELSE /\ builder' = SetTimestamp(builder, event.ts)
                  /\ saveTs' = IF saveTs = 0 THEN event.ts ELSE saveTs
                  /\ phase' = "event" /\ UNCHANGED next
    /\ UNCHANGED <<whole, lastCleanupTs, numExecutions, write, db, outside>>

(* BuildBlock::onEnd: the last executions are not saved.                   *)
MutOnEnd ==
    /\ phase = "read" /\ calls = << >> /\ cursor = Len(trace)
    /\ whole' = TRUE
    /\ builder' = Terminate(builder) /\ phase' = "done" /\ next' = 1
    /\ UNCHANGED <<trace, cursor, saveTs, lastCleanupTs, numExecutions, write, db, outside>>

(* BuildBlock::onEnd, once the trace has been read.                        *)
OnEnd ==
    /\ phase = "read" /\ calls = << >> /\ cursor = Len(trace)
    /\ whole' = TRUE
    /\ builder' = Terminate(builder) /\ phase' = "lastSave" /\ next' = 1
    /\ UNCHANGED <<trace, cursor, saveTs, lastCleanupTs, numExecutions, write, db, outside>>

TidIsAnalyzed(thread) == Exec = "" \/ ThreadName(thread) = Exec

(* An event of the trace; PunchBlock listens to those that begin and end   *)
(* an execution.                                                           *)
HandledEvent == phase = "event" /\ calls = << >> /\ phase' = "read"

EventUnchanged == UNCHANGED <<trace, whole, cursor, saveTs, lastCleanupTs, numExecutions, next,
                              bottom, samples, db, outside>>

OnBegin ==
    /\ HandledEvent /\ Event.kind = "begin"
    /\ builder' = IF TidIsAnalyzed(Event.thread)
                  THEN StartExecution(builder, Event.thread, Name, TRUE) ELSE builder
    /\ EventUnchanged /\ UNCHANGED calls

(* PunchBlock::onEnd.                                                      *)
OnPunchEnd ==
    /\ HandledEvent /\ Event.kind = "end"
    /\ builder' = IF TidIsAnalyzed(Event.thread)
                  THEN EndExecution(builder, Event.thread) ELSE builder
    /\ EventUnchanged /\ UNCHANGED calls

(* An event of the profiler: the stack that it reads is added at once.     *)
OnSample ==
    /\ HandledEvent /\ Event.kind = "sample"
    /\ calls' = Pushes(SampleFrames, kNotCounted)
    /\ EventUnchanged /\ UNCHANGED builder

----------------------------------------------------------------------------
(* SaveExecutions, one completed execution after the other.                *)
Saving == phase \in {"save", "lastSave"} /\ calls = << >>

(* The skip compares with the save that is going on.                       *)
MutSaveExecution ==
    /\ Saving /\ next <= Len(builder.completed)
    /\ IF builder.completed[next].startTs < saveTs
       THEN next' = next + 1 /\ UNCHANGED <<calls, bottom, samples>>
       ELSE /\ calls' = SaveCalls(builder.completed[next]) /\ samples' = << >>
            /\ UNCHANGED <<next, bottom>>
    /\ UNCHANGED <<trace, whole, cursor, phase, builder, saveTs, lastCleanupTs, numExecutions,
                   db, outside>>

SaveExecution ==
    /\ Saving /\ next <= Len(builder.completed)
    /\ IF builder.completed[next].startTs < lastCleanupTs
       THEN next' = next + 1 /\ UNCHANGED <<calls, bottom, samples>>
       ELSE /\ calls' = SaveCalls(builder.completed[next]) /\ samples' = << >>
            /\ UNCHANGED <<next, bottom>>
    /\ UNCHANGED <<trace, whole, cursor, phase, builder, saveTs, lastCleanupTs, numExecutions,
                   db, outside>>

CallUnchanged == UNCHANGED <<trace, whole, cursor, phase, builder, saveTs, lastCleanupTs, outside>>

CallName ==
    /\ phase # "down" /\ calls # << >> /\ calls[1].do = "AddFunctionName"
    /\ db' = AddFunctionName(db, calls[1].arg) /\ calls' = Tail(calls)
    /\ CallUnchanged /\ UNCHANGED <<numExecutions, next, bottom, samples>>

(* A stack is pushed on the last one, on the empty one if it is the first. *)
CallStack ==
    /\ phase # "down" /\ calls # << >> /\ calls[1].do = "AddStack"
    /\ LET stack == Stack(IF calls[1].first THEN kEmptyStackId ELSE bottom,
                          FunctionNameId(db, calls[1].arg))
       IN  /\ db' = AddStack(db, stack)
           /\ bottom' = StackId(db', stack)
    /\ samples' = IF calls[1].value = kNotCounted THEN samples
                  ELSE With(samples, bottom',
                            calls[1].value
                              + (IF bottom' \in DOMAIN samples THEN samples[bottom'] ELSE 0))
    /\ calls' = Tail(calls)
    /\ CallUnchanged /\ UNCHANGED <<numExecutions, next>>

CallPut ==
    /\ phase # "down" /\ calls # << >> /\ calls[1].do = "Put"
    /\ db' = PutExecution(db, builder.completed[next], samples)
    /\ numExecutions' = numExecutions + 1 /\ next' = next + 1
    /\ samples' = << >> /\ calls' = Tail(calls) /\ bottom' = kEmptyStackId
    /\ CallUnchanged

(* All are saved: back to onTimestamp, or to onEnd.                        *)
Saved ==
    /\ Saving /\ next > Len(builder.completed)
    /\ builder' = Flush(builder)
    /\ IF phase = "lastSave" THEN phase' = "done" /\ UNCHANGED <<saveTs, lastCleanupTs>>
       ELSE /\ phase' = "event"
            /\ lastCleanupTs' = saveTs /\ saveTs' = builder.ts
    /\ next' = 1
    /\ UNCHANGED <<trace, whole, cursor, numExecutions, write, db, outside>>

----------------------------------------------------------------------------
(* Outside the program: the writes so far reach the disk; the program, or  *)
(* the machine, stops; the build is run again on the trace; tibeereport    *)
(* reads the executions of a name, which adds the name.                    *)
Sync ==
    /\ crashes < MaxCrashes /\ durable # db /\ IsShort
    /\ durable' = db
    /\ UNCHANGED <<trace, whole, build, write, db, crashes, reports>>

BuildLost ==
    /\ builder' = EmptyBuilder
    /\ cursor' = 0 /\ saveTs' = 0 /\ lastCleanupTs' = 0 /\ numExecutions' = 0 /\ next' = 1
    /\ calls' = << >> /\ bottom' = kEmptyStackId /\ samples' = << >>
    /\ UNCHANGED <<trace, whole>>

Crash ==
    /\ crashes < MaxCrashes /\ phase \notin {"down", "done"} /\ IsShort
    /\ crashes' = crashes + 1
    /\ BuildLost /\ phase' = "down"
    /\ db' \in {db, durable} /\ UNCHANGED <<durable, reports>>

Rerun ==
    /\ phase = "down" /\ phase' = "read"
    /\ UNCHANGED <<trace, whole, cursor, builder, saveTs, lastCleanupTs, numExecutions, next,
                   write, db, outside>>

Report ==
    /\ phase = "done" /\ reports < MaxReports
    /\ reports' = reports + 1
    /\ \E name \in ReportNames : db' = AddFunctionName(db, name)
    /\ UNCHANGED <<trace, whole, build, write, durable, crashes>>

Build ==
    \/ OnTimestamp \/ OnEnd \/ OnBegin \/ OnPunchEnd \/ OnSample
    \/ SaveExecution \/ CallName \/ CallStack \/ CallPut \/ Saved

Next == Build \/ Sync \/ Crash \/ Rerun \/ Report

(* The build reads a finite trace in one thread and waits for nobody: it   *)
(* takes its steps until it is done or stopped.  That somebody runs it     *)
(* again, or that it is stopped, is not assumed.                           *)
Spec == Init /\ [][Next]_vars /\ WF_vars(Build)

----------------------------------------------------------------------------
(* The executions of a trace, from its events alone: thread t runs one     *)
(* from its last begin to the first end that follows.                      *)
Real(events) ==
    LET Of(t, i) == events[i].thread = t /\ events[i].kind # "sample" /\ TidIsAnalyzed(t)
        runs == {r \in Threads \X (1..Len(events)) \X (1..Len(events)) :
                   LET t == r[1] i == r[2] j == r[3]
                   IN  /\ i < j /\ Of(t, i) /\ Of(t, j)
                       /\ events[i].kind = "begin" /\ events[j].kind = "end"
                       /\ \A k \in (i + 1)..(j - 1) : ~Of(t, k)}
    IN  {[name |-> Name, trace |-> "", startTs |-> events[r[2]].ts, startThread |-> r[1],
          endTs |-> events[r[3]].ts, endThread |-> r[1]] : r \in runs}

Short(execution) == execution.endTs - execution.startTs <= kSaveInterval

(* The variables have the types they are used at.                          *)
TypeOK ==
    /\ trace \in Seq([ts : Nat, kind : kinds, thread : Threads]) /\ whole \in BOOLEAN
    /\ cursor \in 0..Len(trace)
    /\ phase \in {"read", "event", "save", "lastSave", "done", "down"}
    /\ {saveTs, lastCleanupTs, numExecutions, next, bottom, crashes, reports} \subseteq Nat
    /\ DOMAIN builder.active \subseteq DOMAIN builder.needsToEnd
    /\ lastCleanupTs <= saveTs /\ saveTs <= builder.ts
    /\ DOMAIN samples \subseteq DOMAIN db.stacks

(* Whatever stops the build, and whenever, every identifier that is stored *)
(* stands for something that is stored, also on the disk of a machine that *)
(* crashed.                                                                *)
ReferencesResolve == Sound(db) /\ Sound(durable)

(* What is stored is an execution of the trace, from the begin to the end  *)
(* of its thread, with all of its samples: also after a build was stopped  *)
(* between two writes, and after it was run again.                         *)
StoredIsReal ==
    \A key \in DOMAIN db.executions :
        /\ Read(db, key).execution \in Real(trace)
        /\ Read(db, key).samples = Range(SamplesOf(Read(db, key).execution))

(* A build that is done has stored, under its name and its start, every    *)
(* execution that took no longer than the interval between two saves: one  *)
(* that ends after a save is kept for the next, although the history that  *)
(* is older than the last but one is cleaned, and also those that start    *)
(* before it are skipped (BuildBlock.cpp:152).                             *)
ShortExecutionsStored ==
    phase = "done" => \A e \in Real(trace) : Short(e) => Stored(db, e)

(* Short executions that have ended and are not stored are stored some     *)
(* time later, unless the build is stopped.                                *)
Waiting == \E e \in Real(SubSeq(trace, 1, cursor)) : Short(e) /\ ~Stored(db, e)

EndedIsStored == Waiting ~> (~Waiting \/ phase = "down")

(* Names and stacks keep the identifier they are given for as long as they *)
(* exist, and identifiers are given in order, also over crashes.           *)
Values(byId) == [i \in 1..Cardinality(DOMAIN byId) |-> byId[i]]

Names == INSTANCE Interning
    WITH values <- Values(db.functionNames), safe <- Cardinality(DOMAIN durable.functionNames)

Stacks == INSTANCE Interning
    WITH values <- Values(db.stacks), safe <- Cardinality(DOMAIN durable.stacks)

IdentifiersAreInterned == Names!Spec /\ Stacks!Spec
=============================================================================
