------------------------------- MODULE ReadPool -------------------------------
(***************************************************************************)
(* The unified read pool of soliton/read_pool.rs: ReadPoolHandle::Yatp,    *)
(* its spawn and its spawn_handle.                                         *)
(*                                                                         *)
(* Threads call spawn_handle; spawn reads the gauge of running tasks,      *)
(* raises it and hands a task to the workers, each in a step of its own.   *)
(* The task runs the future, sends its result and lowers the gauge.  The   *)
(* caller may drop the answer it waits for.  The workers are external: a   *)
(* task whose future panics, or that the pool drops when it shuts down,    *)
(* ends without running the rest of its code.                              *)
(***************************************************************************)
EXTENDS Integers, FiniteSets

CONSTANTS
    Threads,    \* threads that share the handle
    max_tasks,  \* the limit, not strict
    MaxCalls,   \* bound: calls of each thread
    MaxDrops    \* bound: tasks that are dropped

ASSUME PoolAssumption ==
    /\ IsFiniteSet(Threads) /\ Threads # {}
    /\ max_tasks \in Nat /\ MaxCalls \in Nat /\ MaxDrops \in Nat

VARIABLES
    running_tasks,  \* the gauge
    pc,             \* how far the spawn of each thread has come
    calls,          \* calls each thread has made
    task,           \* the task of each call
    answer          \* what its caller has been told

vars == <<running_tasks, pc, calls, task, answer>>

Call == Threads \X (1 .. MaxCalls)
Current(t) == <<t, calls[t]>>

TypeOK ==
    /\ running_tasks \in Int
    /\ pc \in [Threads -> {"idle", "passed", "counted"}]
    /\ calls \in [Threads -> 0 .. MaxCalls]
    /\ task \in [Call -> {"none", "queued", "sent", "done", "dropped"}]
    /\ answer \in [Call -> {"none", "waiting", "value", "full", "canceled", "abandoned"}]

Init ==
    /\ running_tasks = 0
    /\ pc = [t \in Threads |-> "idle"]
    /\ calls = [t \in Threads |-> 0]
    /\ task = [c \in Call |-> "none"]
    /\ answer = [c \in Call |-> "none"]

-----------------------------------------------------------------------------
\* Variant: the limit is compared with > .
CheckTooLate(t) ==
    /\ pc[t] = "idle" /\ calls[t] < MaxCalls
    /\ calls' = [calls EXCEPT ![t] = @ + 1]
    /\ IF running_tasks > max_tasks
       THEN answer' = [answer EXCEPT ![<<t, calls[t] + 1>>] = "full"] /\ UNCHANGED pc
       ELSE /\ answer' = [answer EXCEPT ![<<t, calls[t] + 1>>] = "waiting"]
            /\ pc' = [pc EXCEPT ![t] = "passed"]
    /\ UNCHANGED <<running_tasks, task>>

\* spawn reads the gauge.
check(t) ==
    /\ pc[t] = "idle" /\ calls[t] < MaxCalls
    /\ calls' = [calls EXCEPT ![t] = @ + 1]
    /\ IF running_tasks >= max_tasks
       THEN answer' = [answer EXCEPT ![<<t, calls[t] + 1>>] = "full"] /\ UNCHANGED pc
       ELSE /\ answer' = [answer EXCEPT ![<<t, calls[t] + 1>>] = "waiting"]
            /\ pc' = [pc EXCEPT ![t] = "passed"]
    /\ UNCHANGED <<running_tasks, task>>

inc(t) ==
    /\ pc[t] = "passed"
    /\ pc' = [pc EXCEPT ![t] = "counted"]
    /\ running_tasks' = running_tasks + 1
    /\ UNCHANGED <<calls, task, answer>>

remote_spawn(t) ==
    /\ pc[t] = "counted"
    /\ pc' = [pc EXCEPT ![t] = "idle"]
    /\ task' = [task EXCEPT ![Current(t)] = "queued"]
    /\ UNCHANGED <<running_tasks, calls, answer>>

Told(c, what) == IF answer[c] = "waiting" THEN what ELSE answer[c]

\* Variant: a caller that is gone ends the task before the gauge is lowered.
SendOrReturn(c) ==
    /\ task[c] = "queued"
    /\ task' = [task EXCEPT ![c] = IF answer[c] = "waiting" THEN "sent" ELSE "done"]
    /\ answer' = [answer EXCEPT ![c] = Told(c, "value")]
    /\ UNCHANGED <<running_tasks, pc, calls>>

\* The future ends; its result is sent to whoever still waits.
send(c) ==
    /\ task[c] = "queued"
    /\ task' = [task EXCEPT ![c] = "sent"]
    /\ answer' = [answer EXCEPT ![c] = Told(c, "value")]
    /\ UNCHANGED <<running_tasks, pc, calls>>

\* Variant: the gauge is lowered only for a result that was received.
DecIfReceived(c) ==
    /\ task[c] = "sent" /\ answer[c] = "value"
    /\ task' = [task EXCEPT ![c] = "done"]
    /\ running_tasks' = running_tasks - 1
    /\ UNCHANGED <<pc, calls, answer>>

dec(c) ==
    /\ task[c] = "sent"
    /\ task' = [task EXCEPT ![c] = "done"]
    /\ running_tasks' = running_tasks - 1
    /\ UNCHANGED <<pc, calls, answer>>

\* Variant: the sender outlives the task, so nobody is told.
DropSilently(c) ==
    /\ task[c] = "queued"
    /\ Cardinality({ d \in Call : task[d] = "dropped" }) < MaxDrops
    /\ task' = [task EXCEPT ![c] = "dropped"]
    /\ UNCHANGED <<running_tasks, pc, calls, answer>>

\* The sender is dropped with the task: Canceled.
drop_task(c) ==
    /\ task[c] = "queued"
    /\ Cardinality({ d \in Call : task[d] = "dropped" }) < MaxDrops
    /\ task' = [task EXCEPT ![c] = "dropped"]
    /\ answer' = [answer EXCEPT ![c] = Told(c, "canceled")]
    /\ UNCHANGED <<running_tasks, pc, calls>>

\* The caller drops the future of spawn_handle.
abandon(c) ==
    /\ answer[c] = "waiting"
    /\ answer' = [answer EXCEPT ![c] = "abandoned"]
    /\ UNCHANGED <<running_tasks, pc, calls, task>>

spawn(t) == check(t) \/ inc(t) \/ remote_spawn(t)

Next ==
    \/ \E t \in Threads : spawn(t)
    \/ \E c \in Call : send(c) \/ dec(c) \/ drop_task(c) \/ abandon(c)

\* A call of spawn returns; the workers poll every task they have, and the
\* futures given to the pool end.
Fairness ==
    /\ \A t \in Threads : WF_vars(inc(t) \/ remote_spawn(t))
    /\ \A c \in Call : WF_vars(send(c) \/ drop_task(c)) /\ WF_vars(dec(c))

Spec == Init /\ [][Next]_vars /\ Fairness

-----------------------------------------------------------------------------
Passed == { t \in Threads : pc[t] = "passed" }
Counted == { t \in Threads : pc[t] = "counted" }
Holding == { c \in Call : task[c] \in {"queued", "sent", "dropped"} }

(* "The running task number limit is not strict": the threads between the   *)
(* check and the increment may all have passed it.  It is exceeded by less  *)
(* than the number of threads, however often each of them calls.            *)
Overshoot == running_tasks <= max_tasks + Cardinality(Threads) - 1

(* The gauge counts the tasks handed over and not ended, and the ones about *)
(* to be; it never becomes negative, which `as usize` would turn into a     *)
(* pool that is full for ever.  A task that is dropped stays counted: the   *)
(* decrement is the last statement of the task itself.                      *)
GaugeExact == running_tasks = Cardinality(Counted) + Cardinality(Holding)

(* Every caller of spawn_handle that keeps waiting is answered: with the    *)
(* result, with UnifiedReadPoolFull, or with Canceled if the task is gone.  *)
Answered == \A c \in Call : (answer[c] = "waiting") ~> (answer[c] # "waiting")

(* All slots are given back, also those of callers that are gone, except    *)
(* the slots of dropped tasks.                                              *)
SlotsReturned == <>[](running_tasks = Cardinality({ c \in Call : task[c] = "dropped" }))
=============================================================================
