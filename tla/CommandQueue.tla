----------------------------- MODULE CommandQueue -----------------------------
(***************************************************************************)
(* The in-process command lanes of src/process/command-queue.ts.           *)
(*                                                                         *)
(* JavaScript runs one call at a time, but the calls nest: pump() calls a  *)
(* task, whose synchronous prefix (up to its first await) may enqueue on   *)
(* another or the same lane and so enter drainLane() again; a task that    *)
(* throws in that prefix runs the completion code inside the pump that     *)
(* started it.  The model keeps the call stack, so each step is one        *)
(* uninterruptible piece of code between two calls, and the event loop     *)
(* runs something new only when the stack is empty.                        *)
(***************************************************************************)
EXTENDS Integers, Sequences, FiniteSets

CONSTANTS
    Lanes,      \* the lane names
    Tasks,      \* the tasks that callers may enqueue, each one once
    Widths      \* the concurrency settings of the configuration

ASSUME TasksFinite == IsFiniteSet(Tasks)
ASSUME WidthsAssumption == Widths \subseteq Nat

VARIABLES
    queue,          \* [Lanes -> Seq(Tasks)]  LaneState.queue
    active,         \* [Lanes -> Int]         LaneState.active
    maxConcurrent,  \* [Lanes -> Nat]         LaneState.maxConcurrent
    draining,       \* [Lanes -> BOOLEAN]     LaneState.draining
    stack,          \* the call stack, innermost call last
    status,         \* [Tasks -> Status]      where each task is
    lane            \* [Tasks -> Lanes]       the lane a task was enqueued in

laneVars == <<queue, active, maxConcurrent, draining>>
vars == <<queue, active, maxConcurrent, draining, stack, status, lane>>

(***************************************************************************)
(* "called": its synchronous prefix is on the stack; "pending": it awaits; *)
(* "succeeded" and "failed": it left the lane, its promise is not settled  *)
(* yet; "dropped": removed by clearCommandLane, its promise never settles. *)
(***************************************************************************)
Status == {"new", "queued", "called", "pending", "succeeded", "failed",
           "resolved", "rejected", "dropped"}

PumpFrame(l)   == [kind |-> "pump", of |-> l]
TaskFrame(t)   == [kind |-> "task", of |-> t]
SettleFrame(t) == [kind |-> "settle", of |-> t]

Frames == {PumpFrame(l) : l \in Lanes}
            \cup {TaskFrame(t) : t \in Tasks} \cup {SettleFrame(t) : t \in Tasks}

Idle == stack = <<>>
OnTop(f) == stack # <<>> /\ stack[Len(stack)] = f
Return == SubSeq(stack, 1, Len(stack) - 1)
Running(l) == {t \in Tasks : lane[t] = l /\ status[t] \in {"called", "pending"}}
HasWork(l) == active[l] < maxConcurrent[l] /\ queue[l] # <<>>

Init ==
    /\ queue = [l \in Lanes |-> <<>>]
    /\ active = [l \in Lanes |-> 0]
    /\ maxConcurrent = [l \in Lanes |-> 1]
    /\ draining = [l \in Lanes |-> FALSE]
    /\ stack = <<>>
    /\ status = [t \in Tasks |-> "new"]
    /\ lane \in [Tasks -> Lanes]

--------------------------------------------------------------------------------
(* The calls *)

\* drainLane(lane): enter pump() unless a drain of the lane is under way.
DrainLane(l) ==
    IF draining[l]
    THEN UNCHANGED <<draining, stack>>
    ELSE /\ draining' = [draining EXCEPT ![l] = TRUE]
         /\ stack' = Append(stack, PumpFrame(l))

\* Callers are on the event loop, or in the synchronous prefix of a task.
CanEnqueue == Idle \/ \E t \in Tasks : OnTop(TaskFrame(t))

EnqueueCommandInLane(t) ==
    /\ CanEnqueue
    /\ status[t] = "new"
    /\ status' = [status EXCEPT ![t] = "queued"]
    /\ queue' = [queue EXCEPT ![lane[t]] = Append(@, t)]
    /\ DrainLane(lane[t])
    /\ UNCHANGED <<active, maxConcurrent, lane>>

SetCommandLaneConcurrency(l, n) ==
    /\ Idle
    /\ maxConcurrent' = [maxConcurrent EXCEPT ![l] = IF n > 1 THEN n ELSE 1]
    /\ DrainLane(l)
    /\ UNCHANGED <<queue, active, status, lane>>

ClearCommandLane(l) ==
    /\ Idle
    /\ queue' = [queue EXCEPT ![l] = <<>>]
    /\ status' = [t \in Tasks |-> IF lane[t] = l /\ status[t] = "queued"
                                  THEN "dropped" ELSE status[t]]
    /\ UNCHANGED <<active, maxConcurrent, draining, stack, lane>>

--------------------------------------------------------------------------------
(* The loop of pump() *)

\* Fault: pop instead of shift, the newest entry starts first.
PumpStart_Newest(l) ==
    /\ OnTop(PumpFrame(l))
    /\ HasWork(l)
    /\ LET t == queue[l][Len(queue[l])] IN
        /\ queue' = [queue EXCEPT ![l] = SubSeq(@, 1, Len(@) - 1)]
        /\ status' = [status EXCEPT ![t] = "called"]
        /\ stack' = Append(stack, TaskFrame(t))
    /\ active' = [active EXCEPT ![l] = @ + 1]
    /\ UNCHANGED <<maxConcurrent, draining, lane>>

\* One turn of the loop: shift the oldest entry, count it, call its task.
PumpStart(l) ==
    /\ OnTop(PumpFrame(l))
    /\ HasWork(l)
    /\ queue' = [queue EXCEPT ![l] = Tail(@)]
    /\ active' = [active EXCEPT ![l] = @ + 1]
    /\ status' = [status EXCEPT ![Head(queue[l])] = "called"]
    /\ stack' = Append(stack, TaskFrame(Head(queue[l])))
    /\ UNCHANGED <<maxConcurrent, draining, lane>>

\* Fault: the draining flag is not reset.
PumpEnd_StaysDraining(l) ==
    /\ OnTop(PumpFrame(l))
    /\ ~HasWork(l)
    /\ stack' = Return
    /\ UNCHANGED <<queue, active, maxConcurrent, draining, status, lane>>

\* The loop ends: no room or nothing to do.
PumpEnd(l) ==
    /\ OnTop(PumpFrame(l))
    /\ ~HasWork(l)
    /\ draining' = [draining EXCEPT ![l] = FALSE]
    /\ stack' = Return
    /\ UNCHANGED <<queue, active, maxConcurrent, status, lane>>

--------------------------------------------------------------------------------
(* The life of a started task *)

\* The synchronous prefix reaches its first await.
TaskAwaits(t) ==
    /\ OnTop(TaskFrame(t))
    /\ status' = [status EXCEPT ![t] = "pending"]
    /\ stack' = Return
    /\ UNCHANGED <<queue, active, maxConcurrent, draining, lane>>

\* Fault: the catch block does not count the failed task down.
Complete_KeepsFailed(t, outcome, below) ==
    /\ active' = IF outcome = "failed" THEN active
                 ELSE [active EXCEPT ![lane[t]] = @ - 1]
    /\ status' = [status EXCEPT ![t] = outcome]
    /\ stack' = Append(Append(below, SettleFrame(t)), PumpFrame(lane[t]))
    /\ UNCHANGED <<queue, maxConcurrent, draining, lane>>

\* active -= 1; pump(); then resolve or reject, whatever was below on the stack.
Complete(t, outcome, below) ==
    /\ active' = [active EXCEPT ![lane[t]] = @ - 1]
    /\ status' = [status EXCEPT ![t] = outcome]
    /\ stack' = Append(Append(below, SettleFrame(t)), PumpFrame(lane[t]))
    /\ UNCHANGED <<queue, maxConcurrent, draining, lane>>

\* The synchronous prefix throws: the catch block runs inside the outer pump.
TaskThrows(t) ==
    /\ OnTop(TaskFrame(t))
    /\ Complete(t, "failed", Return)

\* The event loop resumes a task that awaited, and it returns or throws.
TaskEnds(t, outcome) ==
    /\ Idle
    /\ status[t] = "pending"
    /\ Complete(t, outcome, stack)

\* Fault: the error of a failed task is swallowed, its caller waits on.
Settle_Swallows(t) ==
    /\ OnTop(SettleFrame(t))
    /\ status' = [status EXCEPT ![t] = IF @ = "succeeded" THEN "resolved" ELSE @]
    /\ stack' = Return
    /\ UNCHANGED <<queue, active, maxConcurrent, draining, lane>>

\* entry.resolve(result) or entry.reject(err), after pump() returned.
Settle(t) ==
    /\ OnTop(SettleFrame(t))
    /\ status' = [status EXCEPT
                    ![t] = IF @ = "succeeded" THEN "resolved" ELSE "rejected"]
    /\ stack' = Return
    /\ UNCHANGED <<queue, active, maxConcurrent, draining, lane>>

--------------------------------------------------------------------------------
TaskRuns(t) == TaskAwaits(t) \/ TaskThrows(t)
TaskDone(t) == \E o \in {"succeeded", "failed"} : TaskEnds(t, o)
PumpStep(l) == PumpStart(l) \/ PumpEnd(l)

Next ==
    \/ \E l \in Lanes : PumpStep(l) \/ ClearCommandLane(l)
    \/ \E l \in Lanes, n \in Widths : SetCommandLaneConcurrency(l, n)
    \/ \E t \in Tasks : \/ EnqueueCommandInLane(t) \/ Settle(t)
                        \/ TaskRuns(t) \/ TaskDone(t)

(***************************************************************************)
(* A call that is on the stack runs on.  A task that awaits ends: the runs *)
(* that use the lanes carry a timeout (agents/pi-embedded-runner/run/      *)
(* attempt.ts aborts the prompt).  The event loop runs ready callbacks in  *)
(* turn, so a stream of other calls does not put an ended task off for     *)
(* ever: hence strong fairness, the stack is empty again and again.        *)
(***************************************************************************)
CodeRuns == /\ \A l \in Lanes : WF_vars(PumpStep(l))
            /\ \A t \in Tasks : WF_vars(TaskRuns(t)) /\ WF_vars(Settle(t))
TasksEnd == \A t \in Tasks : SF_vars(TaskDone(t))

SafetySpec == Init /\ [][Next]_vars
Spec == SafetySpec /\ CodeRuns
FairSpec == Spec /\ TasksEnd

--------------------------------------------------------------------------------
(* Properties *)

\* Type correctness of the lanes, the stack and the tasks.
TypeOK ==
    /\ queue \in [Lanes -> Seq(Tasks)]
    /\ active \in [Lanes -> Int]
    /\ maxConcurrent \in [Lanes -> Nat \ {0}]
    /\ draining \in [Lanes -> BOOLEAN]
    /\ stack \in Seq(Frames)
    /\ status \in [Tasks -> Status]
    /\ lane \in [Tasks -> Lanes]

\* The counter of a lane is the number of its tasks that started and did not
\* end: neither the failure path nor nested pumps count a task twice or never.
ActiveCountsRunning == \A l \in Lanes : active[l] = Cardinality(Running(l))

\* A lane never starts a task beyond its concurrency limit, also when the limit
\* was lowered under tasks that run, or a nested pump starts them.
StartsWithinLimit ==
    [][\A l \in Lanes : Running(l)' \subseteq Running(l)
            \/ Cardinality(Running(l)') <= maxConcurrent[l]]_vars

\* When the code has returned to the event loop no lane has both room and work:
\* skipping a drain because one is under way never strands an entry.
NoStrandedWork == Idle => \A l \in Lanes : ~HasWork(l)

\* Every enqueued task is settled, unless clearCommandLane dropped it.
EveryTaskSettles ==
    \A t \in Tasks : status[t] = "queued" ~>
                        status[t] \in {"resolved", "rejected", "dropped"}

\* The lanes implement their promise.
Outcome(t) == CASE status[t] = "new" -> "new"
                [] status[t] \in {"queued", "called", "pending"} -> "open"
                [] status[t] \in {"succeeded", "resolved"} -> "ok"
                [] status[t] \in {"failed", "rejected"} -> "error"
                [] status[t] = "dropped" -> "dropped"

LaneQueueSpec == INSTANCE LaneQueue WITH
    waiting <- queue,
    running <- [l \in Lanes |-> Running(l)],
    limit <- maxConcurrent,
    outcome <- [t \in Tasks |-> Outcome(t)],
    Widths <- Widths \cup {1}

ImplementsLaneQueue == LaneQueueSpec!Spec
================================================================================
