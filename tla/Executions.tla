----------------------------- MODULE Executions -----------------------------
(***************************************************************************)
(* src/execution/ExecutionsBuilder.cpp: the executions in progress, by     *)
(* thread, and the completed ones that wait to be saved.  The builder is a *)
(* record; each operator is one of its methods and returns the builder     *)
(* after the call.                                                         *)
(***************************************************************************)
EXTENDS Integers, Sequences, SequencesExt, FiniteSetsExt, Functions, Folds, Maps

(* A new builder, at time 0.                                               *)
EmptyBuilder ==
    [ts         |-> 0,
     completed  |-> << >>,   \* _completedExecutions
     active     |-> << >>,   \* _activeExecutions: thread to execution
     needsToEnd |-> << >>]   \* _needsToEnd: thread to bool, never erased

Execution(name, thread, ts) ==
    [name |-> name, trace |-> "", startTs |-> ts, startThread |-> thread,
     endTs |-> ts, endThread |-> thread]

SetTimestamp(builder, ts) == [builder EXCEPT !.ts = ts]

(* Only an execution that needs its end is remembered as such.             *)
MutStartExecution(builder, thread, name, needsToEnd) ==
    [builder EXCEPT !.active     = With(@, thread, Execution(name, thread, builder.ts)),
                    !.needsToEnd = IF needsToEnd THEN @ ELSE With(@, thread, needsToEnd)]

(* An execution in progress on the thread is replaced.                     *)
StartExecution(builder, thread, name, needsToEnd) ==
    [builder EXCEPT !.active     = With(@, thread, Execution(name, thread, builder.ts)),
                    !.needsToEnd = With(@, thread, needsToEnd)]

(* The execution stays in progress after its end.                          *)
MutEndExecution(builder, thread) ==
    IF thread \notin DOMAIN builder.active THEN builder
    ELSE [builder EXCEPT
            !.completed = Append(@, [builder.active[thread] EXCEPT !.endTs = builder.ts,
                                                                   !.endThread = thread])]

EndExecution(builder, thread) ==
    IF thread \notin DOMAIN builder.active THEN builder
    ELSE [builder EXCEPT
            !.completed = Append(@, [builder.active[thread] EXCEPT !.endTs = builder.ts,
                                                                   !.endThread = thread]),
            !.active    = Restrict(@, DOMAIN @ \ {thread})]

(* Ends the executions that need no end; the map of the code has no order, *)
(* here they are ended in that of their threads.                           *)
Terminate(builder) ==
    MapThenFoldSet(LAMBDA thread, before : EndExecution(before, thread), builder,
                   LAMBDA thread : thread, Max,   \* applied last
                   {t \in DOMAIN builder.needsToEnd : ~builder.needsToEnd[t]})

Flush(builder) == [builder EXCEPT !.completed = << >>]
=============================================================================
