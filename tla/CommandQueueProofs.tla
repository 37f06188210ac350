--------------------------- MODULE CommandQueueProofs ---------------------------
(***************************************************************************)
(* What the lanes of CommandQueue guarantee for every number of lanes, of  *)
(* tasks and of settings.  The inductive invariant relates the counters to *)
(* the tasks, the tasks to the frames of the call stack, and the draining  *)
(* flags and the waiting work to the pump() frames that will serve them.   *)
(* The last section shows that every step of the code is one step of       *)
(* LaneQueue, the promise of a lane, or none.                              *)
(***************************************************************************)
EXTENDS CommandQueue, FiniteSetTheorems, SequenceTheorems, TLAPS

OnStack(s, f) == \E i \in 1..Len(s) : s[i] = f

\* What waits in a lane was enqueued there, is not started, and waits once.
QueuesOK ==
    \A l \in Lanes :
        /\ \A i \in 1..Len(queue[l]) : /\ lane[queue[l][i]] = l
                                       /\ status[queue[l][i]] = "queued"
        /\ \A i, j \in 1..Len(queue[l]) : queue[l][i] = queue[l][j] => i = j

\* The frame of a task says where the task is, and a task has one frame.
FramesFit(s, st) ==
    /\ \A i \in 1..Len(s), t \in Tasks :
          /\ s[i] = TaskFrame(t) => st[t] = "called"
          /\ s[i] = SettleFrame(t) => st[t] \in {"succeeded", "failed"}
    /\ \A i, j \in 1..Len(s) : s[i] = s[j] /\ s[i].kind # "pump" => i = j

FramesOK == FramesFit(stack, status)

\* A drain that was skipped, and work that could start, has its pump() frame.
PumpsOK == \A l \in Lanes : draining[l] \/ HasWork(l) => OnStack(stack, PumpFrame(l))

IInv == TypeOK /\ ActiveCountsRunning /\ QueuesOK /\ FramesOK /\ PumpsOK

--------------------------------------------------------------------------------
(* The stack as a sequence: what a return and a call do to it. *)

\* Returning removes the innermost frame and leaves the others in place.
LEMMA ReturnProps ==
    ASSUME stack \in Seq(Frames), stack # <<>>
    PROVE  /\ Return \in Seq(Frames)
           /\ Len(Return) = Len(stack) - 1
           /\ \A i \in 1..Len(Return) : Return[i] = stack[i]
           /\ Len(stack) \in 1..Len(stack)
<1>1. Len(stack) \in Nat \ {0}
  OBVIOUS
<1>2. \A i \in 1..(Len(stack) - 1) : stack[i] \in Frames
  OBVIOUS
<1>3. /\ Return \in Seq(Frames)
      /\ Len(Return) = Len(stack) - 1
      /\ \A i \in 1..(Len(stack) - 1) : Return[i] = stack[i]
  <2>1. /\ Return \in Seq(Frames)
        /\ Len(Return) = IF 1 <= Len(stack) - 1 THEN Len(stack) - 1 - 1 + 1 ELSE 0
        /\ \A i \in 1..(Len(stack) - 1 - 1 + 1) : Return[i] = stack[1 + i - 1]
    <3>1. 1 \in Int /\ Len(stack) - 1 \in Int
      BY <1>1
    <3> QED
      BY <3>1, <1>2, SubSeqProperties DEF Return
  <2>2. Len(Return) = Len(stack) - 1
    <3>1. ASSUME NEW n \in Nat \ {0}
          PROVE  (IF 1 <= n - 1 THEN n - 1 - 1 + 1 ELSE 0) = n - 1
      OBVIOUS
    <3> QED
      BY <1>1, <2>1, <3>1
  <2>3. ASSUME NEW i \in 1..(Len(stack) - 1) PROVE Return[i] = stack[i]
    <3>1. i \in 1..(Len(stack) - 1 - 1 + 1) /\ 1 + i - 1 = i
      BY <1>1
    <3> QED
      BY <3>1, <2>1
  <2> QED
    BY <2>1, <2>2, <2>3
<1> QED
  BY <1>1, <1>3

\* A call adds one frame on top and leaves the others in place.
LEMMA PushProps ==
    ASSUME NEW s \in Seq(Frames), NEW f \in Frames
    PROVE  /\ Append(s, f) \in Seq(Frames)
           /\ Len(Append(s, f)) = Len(s) + 1
           /\ Append(s, f)[Len(s) + 1] = f
           /\ \A i \in 1..Len(s) : Append(s, f)[i] = s[i]
  OBVIOUS

\* The frames of calls, tasks and settlements are frames, and are distinct.
LEMMA FrameProps ==
    /\ \A l \in Lanes : PumpFrame(l) \in Frames /\ PumpFrame(l).kind = "pump"
    /\ \A t \in Tasks : /\ TaskFrame(t) \in Frames /\ TaskFrame(t).kind = "task"
                        /\ SettleFrame(t) \in Frames /\ SettleFrame(t).kind = "settle"
    /\ \A l, m \in Lanes : PumpFrame(l) = PumpFrame(m) => l = m
    /\ \A t, u \in Tasks : TaskFrame(t) = TaskFrame(u) => t = u
    /\ \A t, u \in Tasks : SettleFrame(t) = SettleFrame(u) => t = u
    /\ \A l \in Lanes, t \in Tasks : PumpFrame(l) # TaskFrame(t)
    /\ \A l \in Lanes, t \in Tasks : PumpFrame(l) # SettleFrame(t)
    /\ \A t, u \in Tasks : TaskFrame(t) # SettleFrame(u)
<1>1. \A l : PumpFrame(l).kind = "pump" /\ PumpFrame(l).of = l
  BY DEF PumpFrame
<1>2. \A t : TaskFrame(t).kind = "task" /\ TaskFrame(t).of = t
  BY DEF TaskFrame
<1>3. \A t : SettleFrame(t).kind = "settle" /\ SettleFrame(t).of = t
  BY DEF SettleFrame
<1>4. /\ \A l \in Lanes : PumpFrame(l) \in Frames
      /\ \A t \in Tasks : TaskFrame(t) \in Frames /\ SettleFrame(t) \in Frames
  BY DEF Frames
<1> QED
  BY <1>1, <1>2, <1>3, <1>4

\* drainLane keeps the types of the flags and the stack.
LEMMA DrainTypes ==
    ASSUME TypeOK, NEW l \in Lanes, DrainLane(l)
    PROVE  stack' \in Seq(Frames) /\ draining' \in [Lanes -> BOOLEAN]
<1>1. CASE draining[l]
  BY <1>1 DEF DrainLane, TypeOK
<1>2. CASE ~draining[l]
  <2>1. PumpFrame(l) \in Frames
    BY FrameProps
  <2>2. stack' \in Seq(Frames) /\ draining' \in [Lanes -> BOOLEAN]
    <3>1. draining' = [draining EXCEPT ![l] = TRUE] /\ draining \in [Lanes -> BOOLEAN]
      BY <1>2 DEF DrainLane, TypeOK
    <3>2. draining' \in [Lanes -> BOOLEAN]
      BY <3>1, Zenon
    <3>3. stack' \in Seq(Frames)
      <4>1. stack' = Append(stack, PumpFrame(l))
        BY <1>2 DEF DrainLane
      <4>2. stack \in Seq(Frames)
        BY DEF TypeOK
      <4> QED
        BY <4>1, <4>2, <2>1, PushProps
    <3> QED
      BY <3>2, <3>3
  <2> QED
    BY <2>2
<1> QED
  BY <1>1, <1>2

--------------------------------------------------------------------------------
(* Type correctness *)

\* Every step keeps the types.
LEMMA TypeStep == TypeOK /\ [Next]_vars => TypeOK'
<1> SUFFICES ASSUME TypeOK, [Next]_vars PROVE TypeOK'
  OBVIOUS
<1>1. ASSUME NEW l \in Lanes, PumpStart(l) PROVE TypeOK'
  <2>1. queue[l] \in Seq(Tasks) /\ queue[l] # <<>>
    BY <1>1 DEF PumpStart, HasWork, TypeOK
  <2>2. Head(queue[l]) \in Tasks /\ Tail(queue[l]) \in Seq(Tasks)
    BY <2>1
  <2>3. stack' \in Seq(Frames)
    BY <1>1, <2>2, FrameProps, PushProps DEF PumpStart, TypeOK
  <2>4. queue' \in [Lanes -> Seq(Tasks)] /\ status' \in [Tasks -> Status]
    BY <1>1, <2>2 DEF PumpStart, TypeOK, Status
  <2>5. active' \in [Lanes -> Int]
    BY <1>1 DEF PumpStart, TypeOK
  <2>6. UNCHANGED <<maxConcurrent, draining, lane>>
    BY <1>1 DEF PumpStart
  <2> QED
    BY <2>3, <2>4, <2>5, <2>6 DEF TypeOK
<1>2. ASSUME NEW l \in Lanes, PumpEnd(l) PROVE TypeOK'
  BY <1>2, ReturnProps DEF PumpEnd, OnTop, TypeOK
<1>3. ASSUME NEW l \in Lanes, ClearCommandLane(l) PROVE TypeOK'
  BY <1>3 DEF ClearCommandLane, TypeOK, Status
<1>4. ASSUME NEW l \in Lanes, NEW n \in Widths, SetCommandLaneConcurrency(l, n)
      PROVE  TypeOK'
  <2>1. (IF n > 1 THEN n ELSE 1) \in Nat \ {0}
    BY <1>4, WidthsAssumption
  <2>2. stack' \in Seq(Frames) /\ draining' \in [Lanes -> BOOLEAN]
    BY <1>4, DrainTypes DEF SetCommandLaneConcurrency
  <2> QED
    BY <1>4, <2>1, <2>2 DEF SetCommandLaneConcurrency, TypeOK
<1>5. ASSUME NEW t \in Tasks, EnqueueCommandInLane(t) PROVE TypeOK'
  <2>1. lane[t] \in Lanes
    BY DEF TypeOK
  <2>2. stack' \in Seq(Frames) /\ draining' \in [Lanes -> BOOLEAN]
    BY <1>5, <2>1, DrainTypes DEF EnqueueCommandInLane
  <2>3. queue' \in [Lanes -> Seq(Tasks)]
    BY <1>5, <2>1 DEF EnqueueCommandInLane, TypeOK
  <2> QED
    BY <1>5, <2>2, <2>3 DEF EnqueueCommandInLane, TypeOK, Status
<1>6. ASSUME NEW t \in Tasks, Settle(t) PROVE TypeOK'
  BY <1>6, ReturnProps DEF Settle, OnTop, TypeOK, Status
<1>7. ASSUME NEW t \in Tasks, TaskAwaits(t) PROVE TypeOK'
  BY <1>7, ReturnProps DEF TaskAwaits, OnTop, TypeOK, Status
<1>8. ASSUME NEW t \in Tasks, TaskThrows(t) PROVE TypeOK'
  <2>1. Return \in Seq(Frames) /\ lane[t] \in Lanes
    BY <1>8, ReturnProps DEF TaskThrows, OnTop, TypeOK
  <2>2. stack' \in Seq(Frames)
    BY <1>8, <2>1, FrameProps, PushProps DEF TaskThrows, Complete
  <2> QED
    BY <1>8, <2>1, <2>2 DEF TaskThrows, Complete, TypeOK, Status
<1>9. ASSUME NEW t \in Tasks, TaskDone(t) PROVE TypeOK'
  <2>1. PICK o \in {"succeeded", "failed"} : TaskEnds(t, o)
    BY <1>9 DEF TaskDone
  <2>2. stack' \in Seq(Frames)
    BY <2>1, FrameProps, PushProps DEF TaskEnds, Complete, TypeOK
  <2> QED
    BY <2>1, <2>2 DEF TaskEnds, Complete, TypeOK, Status
<1>10. CASE UNCHANGED vars
  BY <1>10 DEF vars, TypeOK
<1> QED
  BY <1>1, <1>2, <1>3, <1>4, <1>5, <1>6, <1>7, <1>8, <1>9, <1>10
  DEF Next, PumpStep, TaskRuns

--------------------------------------------------------------------------------
(* The queues *)

\* A step that leaves the queues and the tasks that wait alone keeps QueuesOK.
LEMMA QueuesFrame ==
    ASSUME TypeOK, QueuesOK, UNCHANGED <<queue, lane>>,
           \A u \in Tasks : status[u] = "queued" => status'[u] = "queued"
    PROVE  QueuesOK'
<1>1. \A l \in Lanes : \A i \in 1..Len(queue[l]) : queue[l][i] \in Tasks
  BY DEF TypeOK
<1> QED
  BY <1>1 DEF QueuesOK

\* Entries wait in the lane they were enqueued in, once, until they start.
LEMMA QueuesStep == IInv /\ [Next]_vars => QueuesOK'
<1> SUFFICES ASSUME IInv, [Next]_vars PROVE QueuesOK'
  OBVIOUS
<1>0. TypeOK /\ QueuesOK
  BY DEF IInv
<1>1. ASSUME NEW l \in Lanes, PumpStart(l) PROVE QueuesOK'
  <2> DEFINE s == queue[l]
  <2>1. s \in Seq(Tasks) /\ s # <<>>
    BY <1>0, <1>1 DEF PumpStart, HasWork, TypeOK
  <2>2. /\ Head(s) = s[1] /\ 1 \in 1..Len(s) /\ Head(s) \in Tasks
        /\ Len(Tail(s)) = Len(s) - 1
        /\ \A i \in 1..Len(Tail(s)) : Tail(s)[i] = s[i + 1] /\ i + 1 \in 1..Len(s)
    BY <2>1
  <2>3. lane[Head(s)] = l
    BY <1>0, <2>2 DEF QueuesOK
  <2>4. ASSUME NEW m \in Lanes, m # l, NEW i \in 1..Len(queue[m])
        PROVE  queue[m][i] # Head(s) /\ queue[m][i] \in Tasks
    <3>1. lane[queue[m][i]] = m
      BY <1>0, <2>4 DEF QueuesOK
    <3>2. queue[m] \in Seq(Tasks)
      BY <1>0 DEF TypeOK
    <3> QED
      BY <2>3, <2>4, <3>1, <3>2
  <2>5. /\ queue' = [queue EXCEPT ![l] = Tail(s)]
        /\ status' = [status EXCEPT ![Head(s)] = "called"]
        /\ lane' = lane
    BY <1>1 DEF PumpStart
  <2>6. queue'[l] = Tail(s) /\ \A m \in Lanes : m # l => queue'[m] = queue[m]
    BY <1>0, <2>5 DEF TypeOK
  <2>7. \A u \in Tasks : u # Head(s) => status'[u] = status[u]
    BY <1>0, <2>5 DEF TypeOK
  <2>8. ASSUME NEW m \in Lanes, m # l
        PROVE  /\ \A i \in 1..Len(queue'[m]) : /\ lane'[queue'[m][i]] = m
                                               /\ status'[queue'[m][i]] = "queued"
               /\ \A i, j \in 1..Len(queue'[m]) : queue'[m][i] = queue'[m][j] => i = j
    BY <1>0, <2>4, <2>5, <2>6, <2>7, <2>8 DEF QueuesOK
  <2>9. \A i \in 1..Len(Tail(s)) : s[i + 1] # Head(s) /\ s[i + 1] \in Tasks
    BY <1>0, <2>1, <2>2 DEF QueuesOK
  <2>10. \A i \in 1..Len(Tail(s)) : /\ lane'[Tail(s)[i]] = l
                                    /\ status'[Tail(s)[i]] = "queued"
    BY <1>0, <2>2, <2>5, <2>7, <2>9 DEF QueuesOK
  <2>11. \A i, j \in 1..Len(Tail(s)) : Tail(s)[i] = Tail(s)[j] => i = j
    <3> SUFFICES ASSUME NEW i \in 1..Len(Tail(s)), NEW j \in 1..Len(Tail(s)),
                        Tail(s)[i] = Tail(s)[j]
                 PROVE  i = j
      OBVIOUS
    <3>1. s[i + 1] = s[j + 1] /\ i + 1 \in 1..Len(s) /\ j + 1 \in 1..Len(s)
      BY <2>2
    <3>2. i + 1 = j + 1
      BY <1>0, <3>1 DEF QueuesOK
    <3> QED
      BY <3>2
  <2> QED
    BY <2>6, <2>8, <2>10, <2>11 DEF QueuesOK
<1>2. ASSUME NEW l \in Lanes, PumpEnd(l) PROVE QueuesOK'
  BY <1>0, <1>2, QueuesFrame DEF PumpEnd
<1>3. ASSUME NEW l \in Lanes, ClearCommandLane(l) PROVE QueuesOK'
  <2>1. queue'[l] = <<>> /\ \A m \in Lanes : m # l => queue'[m] = queue[m]
    BY <1>0, <1>3 DEF ClearCommandLane, TypeOK
  <2>2. \A u \in Tasks : lane[u] # l => status'[u] = status[u]
    BY <1>3 DEF ClearCommandLane
  <2>3. \A m \in Lanes : \A i \in 1..Len(queue[m]) : queue[m][i] \in Tasks
    BY <1>0 DEF TypeOK
  <2>4. lane' = lane
    BY <1>3 DEF ClearCommandLane
  <2> QED
    BY <1>0, <2>1, <2>2, <2>3, <2>4 DEF QueuesOK
<1>4. ASSUME NEW l \in Lanes, NEW n \in Widths, SetCommandLaneConcurrency(l, n)
      PROVE  QueuesOK'
  BY <1>0, <1>4, QueuesFrame DEF SetCommandLaneConcurrency
<1>5. ASSUME NEW t \in Tasks, EnqueueCommandInLane(t) PROVE QueuesOK'
  <2> DEFINE l == lane[t]
             s == queue[l]
  <2>1. l \in Lanes /\ s \in Seq(Tasks)
    BY <1>0 DEF TypeOK
  <2>2. /\ Len(Append(s, t)) = Len(s) + 1
        /\ Append(s, t)[Len(s) + 1] = t
        /\ \A i \in 1..Len(s) : Append(s, t)[i] = s[i]
    BY <2>1
  <2>3. queue'[l] = Append(s, t) /\ \A m \in Lanes : m # l => queue'[m] = queue[m]
    BY <1>0, <1>5, <2>1 DEF EnqueueCommandInLane, TypeOK
  <2>4. lane' = lane /\ status' = [status EXCEPT ![t] = "queued"] /\ status[t] = "new"
    BY <1>5 DEF EnqueueCommandInLane
  <2>5. ASSUME NEW m \in Lanes, NEW i \in 1..Len(queue[m])
        PROVE  /\ queue[m][i] # t /\ lane'[queue[m][i]] = m
               /\ status'[queue[m][i]] = "queued"
    <3>1. status[queue[m][i]] = "queued" /\ lane[queue[m][i]] = m /\ queue[m][i] \in Tasks
      BY <1>0 DEF QueuesOK, TypeOK
    <3> QED
      BY <1>0, <2>4, <3>1 DEF TypeOK
  <2>6. lane'[t] = l /\ status'[t] = "queued"
    BY <1>0, <2>4 DEF TypeOK
  <2>7. \A i \in 1..Len(queue'[l]) : /\ lane'[queue'[l][i]] = l
                                     /\ status'[queue'[l][i]] = "queued"
    <3> TAKE i \in 1..Len(queue'[l])
    <3>1. i \in 1..Len(s) \/ i = Len(s) + 1
      BY <2>1, <2>2, <2>3
    <3> QED
      BY <2>1, <2>2, <2>3, <2>5, <2>6, <3>1
  <2>8. \A i, j \in 1..Len(queue'[l]) : queue'[l][i] = queue'[l][j] => i = j
    <3> TAKE i, j \in 1..Len(queue'[l])
    <3>1. (i \in 1..Len(s) \/ i = Len(s) + 1) /\ (j \in 1..Len(s) \/ j = Len(s) + 1)
      BY <2>1, <2>2, <2>3
    <3>2. \A h, k \in 1..Len(s) : s[h] = s[k] => h = k
      BY <1>0, <2>1 DEF QueuesOK
    <3> QED
      BY <2>1, <2>2, <2>3, <2>5, <3>1, <3>2
  <2>9. ASSUME NEW m \in Lanes, m # l
        PROVE  /\ \A i \in 1..Len(queue'[m]) : /\ lane'[queue'[m][i]] = m
                                               /\ status'[queue'[m][i]] = "queued"
               /\ \A i, j \in 1..Len(queue'[m]) : queue'[m][i] = queue'[m][j] => i = j
    BY <1>0, <2>3, <2>5, <2>9 DEF QueuesOK
  <2> QED
    BY <2>7, <2>8, <2>9 DEF QueuesOK
<1>6. ASSUME NEW t \in Tasks, Settle(t) \/ TaskAwaits(t) \/ TaskThrows(t) \/ TaskDone(t)
      PROVE  QueuesOK'
  <2>1. status[t] # "queued"
    <3>1. CASE TaskDone(t)
      BY <3>1 DEF TaskDone, TaskEnds
    <3>2. CASE Settle(t) \/ TaskAwaits(t) \/ TaskThrows(t)
      <4>1. Len(stack) \in 1..Len(stack)
        BY <1>0, <3>2, ReturnProps DEF TypeOK, Settle, TaskAwaits, TaskThrows, OnTop
      <4>2. OnTop(SettleFrame(t)) \/ OnTop(TaskFrame(t))
        BY <3>2 DEF Settle, TaskAwaits, TaskThrows
      <4> QED
        BY <4>1, <4>2 DEF IInv, FramesOK, FramesFit, OnTop
    <3> QED
      BY <1>6, <3>1, <3>2
  <2>2. UNCHANGED <<queue, lane>> /\ \E o : status' = [status EXCEPT ![t] = o]
    BY <1>6 DEF Settle, TaskAwaits, TaskThrows, TaskDone, TaskEnds, Complete
  <2>3. \A u \in Tasks : status[u] = "queued" => status'[u] = "queued"
    BY <1>0, <2>1, <2>2 DEF TypeOK
  <2> QED
    BY <1>0, <2>2, <2>3, QueuesFrame
<1>7. CASE UNCHANGED vars
  BY <1>0, <1>7, QueuesFrame DEF vars
<1> QED
  BY <1>1, <1>2, <1>3, <1>4, <1>5, <1>6, <1>7 DEF Next, PumpStep, TaskRuns

--------------------------------------------------------------------------------
(* The frames *)

\* The innermost frame is one of the frames of the stack.
LEMMA TopProps ==
    ASSUME TypeOK, NEW f, OnTop(f)
    PROVE  /\ stack \in Seq(Frames) /\ stack # <<>>
           /\ Len(stack) \in 1..Len(stack) /\ stack[Len(stack)] = f
           /\ Return \in Seq(Frames) /\ Len(Return) = Len(stack) - 1
           /\ \A i \in 1..Len(Return) : /\ Return[i] = stack[i]
                                        /\ i \in 1..Len(stack) /\ i # Len(stack)
<1>1. stack \in Seq(Frames) /\ stack # <<>>
  BY DEF TypeOK, OnTop
<1> QED
  BY <1>1, ReturnProps DEF OnTop

\* A call of pump() disturbs no frame of a task.
LEMMA FitPump ==
    ASSUME NEW s \in Seq(Frames), NEW st, FramesFit(s, st), NEW l \in Lanes
    PROVE  FramesFit(Append(s, PumpFrame(l)), st)
<1> DEFINE p == Append(s, PumpFrame(l))
<1>1. /\ Len(p) = Len(s) + 1 /\ p[Len(s) + 1] = PumpFrame(l) /\ Len(s) \in Nat
      /\ \A i \in 1..Len(s) : p[i] = s[i]
  BY FrameProps, PushProps
<1>2. \A i \in 1..Len(p) : i \in 1..Len(s) \/ i = Len(s) + 1
  BY <1>1
<1>3. ASSUME NEW i \in 1..Len(p), NEW t \in Tasks
      PROVE  /\ p[i] = TaskFrame(t) => st[t] = "called"
             /\ p[i] = SettleFrame(t) => st[t] \in {"succeeded", "failed"}
  BY <1>1, <1>2, FrameProps DEF FramesFit
<1>4. ASSUME NEW i \in 1..Len(p), NEW j \in 1..Len(p), p[i] = p[j], p[i].kind # "pump"
      PROVE  i = j
  BY <1>1, <1>2, <1>4, FrameProps DEF FramesFit
<1> QED
  BY <1>3, <1>4 DEF FramesFit

\* A frame for a task that has none may be pushed when the task moves with it.
LEMMA FitTask ==
    ASSUME NEW s \in Seq(Frames), NEW st \in [Tasks -> Status], FramesFit(s, st),
           NEW t \in Tasks, NEW f \in {TaskFrame(t), SettleFrame(t)},
           \A i \in 1..Len(s) : s[i] # TaskFrame(t) /\ s[i] # SettleFrame(t),
           NEW o, f = TaskFrame(t) => o = "called",
           f = SettleFrame(t) => o \in {"succeeded", "failed"}
    PROVE  FramesFit(Append(s, f), [st EXCEPT ![t] = o])
<1> DEFINE p == Append(s, f)
           sp == [st EXCEPT ![t] = o]
<1>1. /\ Len(p) = Len(s) + 1 /\ p[Len(s) + 1] = f /\ Len(s) \in Nat
      /\ \A i \in 1..Len(s) : p[i] = s[i]
  BY FrameProps, PushProps
<1>2. \A i \in 1..Len(p) : i \in 1..Len(s) \/ i = Len(s) + 1
  BY <1>1
<1>3. sp[t] = o /\ \A u \in Tasks : u # t => sp[u] = st[u]
  OBVIOUS
<1>4. ASSUME NEW i \in 1..Len(p), NEW u \in Tasks
      PROVE  /\ p[i] = TaskFrame(u) => sp[u] = "called"
             /\ p[i] = SettleFrame(u) => sp[u] \in {"succeeded", "failed"}
  <2>1. CASE i \in 1..Len(s)
    BY <1>1, <1>3, <2>1 DEF FramesFit
  <2>2. CASE i = Len(s) + 1
    BY <1>1, <1>3, <2>2, FrameProps
  <2> QED
    BY <1>2, <2>1, <2>2
<1>5. ASSUME NEW i \in 1..Len(p), NEW j \in 1..Len(p), p[i] = p[j], p[i].kind # "pump"
      PROVE  i = j
  BY <1>1, <1>2, <1>5 DEF FramesFit
<1> QED
  BY <1>4, <1>5 DEF FramesFit

\* Returning from the frame of a task, whatever becomes of the task.
LEMMA FitReturn ==
    ASSUME TypeOK, FramesFit(stack, status), NEW t \in Tasks, NEW o,
           NEW f \in {TaskFrame(t), SettleFrame(t)}, OnTop(f)
    PROVE  /\ FramesFit(Return, [status EXCEPT ![t] = o])
           /\ \A i \in 1..Len(Return) : Return[i] # TaskFrame(t) /\ Return[i] # SettleFrame(t)
<1>1. /\ Len(stack) \in 1..Len(stack) /\ stack[Len(stack)] = f
      /\ \A i \in 1..Len(Return) : /\ Return[i] = stack[i]
                                   /\ i \in 1..Len(stack) /\ i # Len(stack)
  BY TopProps
<1>2. f.kind # "pump"
  BY FrameProps
<1>3. ASSUME NEW i \in 1..Len(Return) PROVE stack[i] # TaskFrame(t) /\ stack[i] # SettleFrame(t)
  <2>1. stack[i] # f
    BY <1>1, <1>2 DEF FramesFit
  <2>2. ~(stack[i] \in {TaskFrame(t), SettleFrame(t)} /\ stack[i] # f)
    BY <1>1 DEF FramesFit
  <2> QED
    BY <2>1, <2>2
<1>4. status \in [Tasks -> Status]
  BY DEF TypeOK
<1>5. \A u \in Tasks : u # t => [status EXCEPT ![t] = o][u] = status[u]
  BY <1>4
<1> QED
  BY <1>1, <1>3, <1>5 DEF FramesFit

\* Calls and returns keep the frames of the tasks and their places in step.
LEMMA FramesStep == IInv /\ [Next]_vars => FramesOK'
<1> SUFFICES ASSUME IInv, [Next]_vars PROVE FramesFit(stack', status')
  BY DEF FramesOK
<1>0. /\ TypeOK /\ QueuesOK /\ FramesFit(stack, status)
      /\ stack \in Seq(Frames) /\ status \in [Tasks -> Status]
  BY DEF IInv, FramesOK, TypeOK
<1>a. ASSUME NEW t \in Tasks, status[t] \notin {"called", "succeeded", "failed"}
      PROVE  \A i \in 1..Len(stack) : stack[i] # TaskFrame(t) /\ stack[i] # SettleFrame(t)
  BY <1>0, <1>a DEF FramesFit
<1>b. ASSUME NEW l \in Lanes, DrainLane(l), NEW st, FramesFit(stack, st)
      PROVE  FramesFit(stack', st)
  BY <1>0, <1>b, FitPump DEF DrainLane
<1>1. ASSUME NEW l \in Lanes, PumpStart(l) PROVE FramesFit(stack', status')
  <2> DEFINE t == Head(queue[l])
  <2>1. queue[l] \in Seq(Tasks) /\ queue[l] # <<>>
    BY <1>0, <1>1 DEF PumpStart, HasWork, TypeOK
  <2>2. t \in Tasks /\ t = queue[l][1] /\ 1 \in 1..Len(queue[l])
    BY <2>1
  <2>3. status[t] = "queued"
    BY <1>0, <2>2 DEF QueuesOK
  <2>4. FramesFit(Append(stack, TaskFrame(t)), [status EXCEPT ![t] = "called"])
    <3>1. "called" = "called" /\ TaskFrame(t) # SettleFrame(t)
      BY <2>2, FrameProps
    <3> QED
      BY <1>0, <1>a, <2>2, <2>3, <3>1, FitTask
  <2> QED
    BY <1>1, <2>4 DEF PumpStart
<1>2. ASSUME NEW l \in Lanes, PumpEnd(l) PROVE FramesFit(stack', status')
  <2>1. \A i \in 1..Len(Return) : Return[i] = stack[i] /\ i \in 1..Len(stack)
    BY <1>0, <1>2, TopProps DEF PumpEnd
  <2> QED
    BY <1>0, <1>2, <2>1, SMTT(60) DEF PumpEnd, FramesFit
<1>3. ASSUME NEW l \in Lanes, ClearCommandLane(l) PROVE FramesFit(stack', status')
  <2>1. stack' = stack /\ \A u \in Tasks : status[u] # "queued" => status'[u] = status[u]
    BY <1>3 DEF ClearCommandLane
  <2> QED
    BY <1>0, <2>1 DEF FramesFit
<1>4. ASSUME NEW l \in Lanes, NEW n \in Widths, SetCommandLaneConcurrency(l, n)
      PROVE  FramesFit(stack', status')
  BY <1>0, <1>4, <1>b DEF SetCommandLaneConcurrency
<1>5. ASSUME NEW t \in Tasks, EnqueueCommandInLane(t) PROVE FramesFit(stack', status')
  <2>1. status' = [status EXCEPT ![t] = "queued"] /\ status[t] = "new"
    BY <1>5 DEF EnqueueCommandInLane
  <2>2. FramesFit(stack, status')
    <3>1. \A u \in Tasks : u # t => status'[u] = status[u]
      BY <1>0, <2>1
    <3> QED
      BY <1>0, <1>a, <2>1, <3>1 DEF FramesFit
  <2>3. lane[t] \in Lanes /\ DrainLane(lane[t])
    BY <1>0, <1>5 DEF EnqueueCommandInLane, TypeOK
  <2> QED
    BY <1>b, <2>2, <2>3
<1>6. ASSUME NEW t \in Tasks, Settle(t) PROVE FramesFit(stack', status')
  BY <1>0, <1>6, FitReturn DEF Settle
<1>7. ASSUME NEW t \in Tasks, TaskAwaits(t) PROVE FramesFit(stack', status')
  BY <1>0, <1>7, FitReturn DEF TaskAwaits
<1>8. ASSUME NEW t \in Tasks, NEW o \in {"succeeded", "failed"}, NEW below \in Seq(Frames),
             FramesFit(below, status), Complete(t, o, below),
             \A i \in 1..Len(below) : below[i] # TaskFrame(t) /\ below[i] # SettleFrame(t)
      PROVE  FramesFit(stack', status')
  <2>1. SettleFrame(t) # TaskFrame(t) /\ SettleFrame(t) \in Frames /\ lane[t] \in Lanes
    BY <1>0, FrameProps DEF TypeOK
  <2>2. FramesFit(Append(below, SettleFrame(t)), [status EXCEPT ![t] = o])
    BY <1>0, <1>8, <2>1, FitTask
  <2>3. Append(below, SettleFrame(t)) \in Seq(Frames)
    BY <1>8, <2>1, PushProps
  <2> QED
    BY <1>8, <2>1, <2>2, <2>3, FitPump DEF Complete
<1>9. ASSUME NEW t \in Tasks, TaskThrows(t) PROVE FramesFit(stack', status')
  <2>1. OnTop(TaskFrame(t)) /\ Complete(t, "failed", Return) /\ Return \in Seq(Frames)
    BY <1>0, <1>9, TopProps DEF TaskThrows
  <2>2. /\ FramesFit(Return, [status EXCEPT ![t] = status[t]])
        /\ \A i \in 1..Len(Return) : Return[i] # TaskFrame(t) /\ Return[i] # SettleFrame(t)
    BY <1>0, <2>1, FitReturn
  <2>3. [status EXCEPT ![t] = status[t]] = status
    BY <1>0
  <2> QED
    BY <1>8, <2>1, <2>2, <2>3
<1>10. ASSUME NEW t \in Tasks, TaskDone(t) PROVE FramesFit(stack', status')
  <2>1. PICK o \in {"succeeded", "failed"} : Complete(t, o, stack) /\ status[t] = "pending"
    BY <1>10 DEF TaskDone, TaskEnds
  <2> QED
    BY <1>0, <1>8, <1>a, <2>1
<1>11. CASE UNCHANGED vars
  BY <1>0, <1>11 DEF vars
<1> QED
  BY <1>1, <1>2, <1>3, <1>4, <1>5, <1>6, <1>7, <1>9, <1>10, <1>11
  DEF Next, PumpStep, TaskRuns

--------------------------------------------------------------------------------
(* The pump frames *)

\* Skipped drains and waiting work keep a pump() frame that will serve them.
LEMMA PumpsStep == IInv /\ [Next]_vars => PumpsOK'
<1> SUFFICES ASSUME IInv, [Next]_vars,
                    NEW l \in Lanes, draining'[l] \/ HasWork(l)'
             PROVE  OnStack(stack', PumpFrame(l))
  BY DEF PumpsOK
<1>0. /\ TypeOK /\ QueuesOK /\ stack \in Seq(Frames) /\ PumpFrame(l) \in Frames
      /\ draining[l] \/ HasWork(l) => OnStack(stack, PumpFrame(l))
  BY FrameProps DEF IInv, TypeOK, PumpsOK
<1>a. ASSUME NEW s \in Seq(Frames), NEW f \in Frames, OnStack(s, PumpFrame(l)) \/ f = PumpFrame(l)
      PROVE  OnStack(Append(s, f), PumpFrame(l))
  <2>1. /\ Len(Append(s, f)) = Len(s) + 1 /\ Len(s) \in Nat
        /\ Append(s, f)[Len(s) + 1] = f
        /\ \A i \in 1..Len(s) : Append(s, f)[i] = s[i]
    BY PushProps
  <2> QED
    BY <1>a, <2>1 DEF OnStack
<1>b. ASSUME NEW f, OnTop(f), f # PumpFrame(l), OnStack(stack, PumpFrame(l))
      PROVE  OnStack(Return, PumpFrame(l))
  <2>1. /\ Len(stack) \in Nat /\ stack[Len(stack)] = f /\ Len(Return) = Len(stack) - 1
        /\ \A i \in 1..Len(Return) : Return[i] = stack[i]
    BY <1>0, <1>b, TopProps
  <2>2. PICK i \in 1..Len(stack) : stack[i] = PumpFrame(l)
    BY <1>b DEF OnStack
  <2>3. i \in 1..Len(Return)
    BY <1>b, <2>1, <2>2
  <2> QED
    BY <2>1, <2>2, <2>3 DEF OnStack
<1>c. ASSUME NEW m \in Lanes, DrainLane(m), OnStack(stack, PumpFrame(l)) \/ l = m
      PROVE  OnStack(stack', PumpFrame(l))
  <2>1. CASE draining[m]
    BY <1>0, <1>c, <2>1 DEF DrainLane
  <2>2. CASE ~draining[m]
    <3>1. PumpFrame(m) \in Frames
      BY FrameProps
    <3> QED
      BY <1>0, <1>a, <1>c, <2>2, <3>1 DEF DrainLane
  <2> QED
    BY <2>1, <2>2
<1>1. ASSUME NEW m \in Lanes, PumpStart(m) PROVE OnStack(stack', PumpFrame(l))
  <2>1. OnStack(stack, PumpFrame(l)) /\ Head(queue[m]) \in Tasks
    <3>1. queue[m] \in Seq(Tasks) /\ queue[m] # <<>>
      BY <1>0, <1>1 DEF PumpStart, HasWork, TypeOK
    <3>2. CASE m = l
      <4>1. Len(stack) \in 1..Len(stack) /\ stack[Len(stack)] = PumpFrame(l)
        BY <1>0, <1>1, <3>2, TopProps DEF PumpStart
      <4> QED
        BY <3>1, <4>1 DEF OnStack
    <3>3. CASE m # l
      <4>1. UNCHANGED <<queue[l], active[l], maxConcurrent[l], draining[l]>>
        BY <1>0, <1>1, <3>3 DEF PumpStart, TypeOK
      <4> QED
        BY <1>0, <3>1, <4>1 DEF HasWork
    <3> QED
      BY <3>2, <3>3
  <2>2. TaskFrame(Head(queue[m])) \in Frames
    BY <2>1, FrameProps
  <2> QED
    BY <1>0, <1>1, <1>a, <2>1, <2>2 DEF PumpStart
<1>2. ASSUME NEW m \in Lanes, PumpEnd(m) PROVE OnStack(stack', PumpFrame(l))
  <2>1. m # l
    <3> SUFFICES ASSUME m = l PROVE FALSE
      OBVIOUS
    <3>1. ~HasWork(l)' /\ ~draining'[l]
      BY <1>0, <1>2 DEF PumpEnd, HasWork, TypeOK
    <3> QED
      BY <3>1
  <2>2. PumpFrame(m) # PumpFrame(l)
    BY <2>1, FrameProps
  <2>3. draining'[l] = draining[l] /\ (HasWork(l)' <=> HasWork(l))
    BY <1>0, <1>2, <2>1 DEF PumpEnd, HasWork, TypeOK
  <2> QED
    BY <1>0, <1>2, <1>b, <2>2, <2>3 DEF PumpEnd
<1>3. ASSUME NEW m \in Lanes, ClearCommandLane(m) PROVE OnStack(stack', PumpFrame(l))
  <2>1. HasWork(l)' => HasWork(l)
    BY <1>0, <1>3 DEF ClearCommandLane, HasWork, TypeOK
  <2> QED
    BY <1>0, <1>3, <2>1 DEF ClearCommandLane
<1>4. ASSUME NEW m \in Lanes, NEW n \in Widths, SetCommandLaneConcurrency(m, n)
      PROVE  OnStack(stack', PumpFrame(l))
  <2>1. m # l => (HasWork(l)' <=> HasWork(l)) /\ draining'[l] = draining[l]
    BY <1>0, <1>4 DEF SetCommandLaneConcurrency, DrainLane, HasWork, TypeOK
  <2> QED
    BY <1>0, <1>4, <1>c, <2>1 DEF SetCommandLaneConcurrency
<1>5. ASSUME NEW t \in Tasks, EnqueueCommandInLane(t) PROVE OnStack(stack', PumpFrame(l))
  <2>1. lane[t] \in Lanes /\ DrainLane(lane[t])
    BY <1>0, <1>5 DEF EnqueueCommandInLane, TypeOK
  <2>2. lane[t] # l => (HasWork(l)' <=> HasWork(l)) /\ draining'[l] = draining[l]
    BY <1>0, <1>5, <2>1 DEF EnqueueCommandInLane, DrainLane, HasWork, TypeOK
  <2> QED
    BY <1>0, <1>c, <2>1, <2>2
<1>6. ASSUME NEW t \in Tasks, Settle(t) \/ TaskAwaits(t) PROVE OnStack(stack', PumpFrame(l))
  <2>1. UNCHANGED laneVars /\ stack' = Return
    BY <1>6 DEF Settle, TaskAwaits, laneVars
  <2>2. OnStack(stack, PumpFrame(l))
    BY <1>0, <2>1 DEF HasWork, laneVars
  <2>3. SettleFrame(t) # PumpFrame(l) /\ TaskFrame(t) # PumpFrame(l)
    BY FrameProps
  <2> QED
    BY <1>6, <1>b, <2>1, <2>2, <2>3 DEF Settle, TaskAwaits
<1>7. ASSUME NEW t \in Tasks, NEW o, NEW below \in Seq(Frames), Complete(t, o, below),
             OnStack(stack, PumpFrame(l)) => OnStack(below, PumpFrame(l))
      PROVE  OnStack(stack', PumpFrame(l))
  <2>1. lane[t] \in Lanes /\ SettleFrame(t) \in Frames /\ PumpFrame(lane[t]) \in Frames
    BY <1>0, FrameProps DEF TypeOK
  <2>2. Append(below, SettleFrame(t)) \in Seq(Frames)
    BY <2>1, PushProps
  <2>3. lane[t] # l => (HasWork(l)' <=> HasWork(l)) /\ draining'[l] = draining[l]
    BY <1>0, <1>7, <2>1 DEF Complete, HasWork, TypeOK
  <2>4. lane[t] # l => OnStack(Append(below, SettleFrame(t)), PumpFrame(l))
    BY <1>0, <1>7, <1>a, <2>1, <2>3
  <2> QED
    BY <1>7, <1>a, <2>1, <2>2, <2>4 DEF Complete
<1>8. ASSUME NEW t \in Tasks, TaskThrows(t) PROVE OnStack(stack', PumpFrame(l))
  <2>1. OnTop(TaskFrame(t)) /\ Complete(t, "failed", Return) /\ TaskFrame(t) # PumpFrame(l)
    BY <1>8, FrameProps DEF TaskThrows
  <2>2. Return \in Seq(Frames)
    BY <1>0, <2>1, TopProps
  <2> QED
    BY <1>7, <1>b, <2>1, <2>2
<1>9. ASSUME NEW t \in Tasks, TaskDone(t) PROVE OnStack(stack', PumpFrame(l))
  <2>1. PICK o \in {"succeeded", "failed"} : Complete(t, o, stack)
    BY <1>9 DEF TaskDone, TaskEnds
  <2> QED
    BY <1>0, <1>7, <2>1
<1>10. CASE UNCHANGED vars
  BY <1>0, <1>10 DEF vars, HasWork
<1> QED
  BY <1>1, <1>2, <1>3, <1>4, <1>5, <1>6, <1>8, <1>9, <1>10
  DEF Next, PumpStep, TaskRuns

--------------------------------------------------------------------------------
(* The counters *)

\* The tasks that run in a lane are finitely many.
LEMMA RunningFinite == \A l : IsFiniteSet(Running(l))
  BY TasksFinite, FS_Subset DEF Running

\* Each step starts one task, ends one task, or changes who runs in no lane.
LEMMA RunningChanges ==
    IInv /\ [Next]_vars =>
        \/ \E l \in Lanes : \E t \in Tasks \ Running(l) :
              /\ active[l] < maxConcurrent[l]
              /\ active' = [active EXCEPT ![l] = @ + 1]
              /\ Running(l)' = Running(l) \cup {t}
              /\ \A m \in Lanes \ {l} : Running(m)' = Running(m)
        \/ \E l \in Lanes : \E t \in Running(l) :
              /\ active' = [active EXCEPT ![l] = @ - 1]
              /\ Running(l)' = Running(l) \ {t}
              /\ \A m \in Lanes \ {l} : Running(m)' = Running(m)
        \/ /\ active' = active
           /\ \A m \in Lanes : Running(m)' = Running(m)
<1> SUFFICES ASSUME IInv, [Next]_vars
             PROVE  \/ \E l \in Lanes : \E t \in Tasks \ Running(l) :
                          /\ active[l] < maxConcurrent[l]
                          /\ active' = [active EXCEPT ![l] = @ + 1]
                          /\ Running(l)' = Running(l) \cup {t}
                          /\ \A m \in Lanes \ {l} : Running(m)' = Running(m)
                    \/ \E l \in Lanes : \E t \in Running(l) :
                          /\ active' = [active EXCEPT ![l] = @ - 1]
                          /\ Running(l)' = Running(l) \ {t}
                          /\ \A m \in Lanes \ {l} : Running(m)' = Running(m)
                    \/ /\ active' = active
                       /\ \A m \in Lanes : Running(m)' = Running(m)
  OBVIOUS
<1>0. /\ TypeOK /\ QueuesOK /\ FramesFit(stack, status)
      /\ status \in [Tasks -> Status]
  BY DEF IInv, FramesOK, TypeOK
<1> DEFINE Runs(t) == status[t] \in {"called", "pending"}
           Same == active' = active /\ \A m \in Lanes : Running(m)' = Running(m)
           Ends == \E l \in Lanes : \E t \in Running(l) :
                      /\ active' = [active EXCEPT ![l] = @ - 1]
                      /\ Running(l)' = Running(l) \ {t}
                      /\ \A m \in Lanes \ {l} : Running(m)' = Running(m)
<1>a. ASSUME UNCHANGED <<active, lane>>, \A t \in Tasks : Runs(t)' <=> Runs(t)
      PROVE  Same
  BY <1>a DEF Running
<1>b. ASSUME NEW t \in Tasks, Runs(t), NEW o \in {"succeeded", "failed"}, NEW below,
             Complete(t, o, below)
      PROVE  Ends
  <2>1. lane[t] \in Lanes /\ t \in Running(lane[t])
    BY <1>0, <1>b DEF TypeOK, Running
  <2>2. lane' = lane /\ Runs(t)' = FALSE /\ \A u \in Tasks : u # t => (Runs(u)' <=> Runs(u))
    BY <1>0, <1>b DEF Complete
  <2>3. Running(lane[t])' = Running(lane[t]) \ {t}
    BY <2>2 DEF Running
  <2>4. \A m \in Lanes \ {lane[t]} : Running(m)' = Running(m)
    BY <2>2 DEF Running
  <2> QED
    BY <1>b, <2>1, <2>3, <2>4 DEF Complete
<1>1. ASSUME NEW l \in Lanes, PumpStart(l)
      PROVE  \E t \in Tasks \ Running(l) :
                /\ active[l] < maxConcurrent[l]
                /\ active' = [active EXCEPT ![l] = @ + 1]
                /\ Running(l)' = Running(l) \cup {t}
                /\ \A m \in Lanes \ {l} : Running(m)' = Running(m)
  <2>1. queue[l] \in Seq(Tasks) /\ queue[l] # <<>>
    BY <1>0, <1>1 DEF PumpStart, HasWork, TypeOK
  <2>2. PICK t \in Tasks : t = Head(queue[l]) /\ t = queue[l][1] /\ 1 \in 1..Len(queue[l])
    BY <2>1
  <2>3. lane[t] = l /\ status[t] = "queued"
    BY <1>0, <2>2 DEF QueuesOK
  <2>4. lane' = lane /\ Runs(t)' /\ \A u \in Tasks : u # t => (Runs(u)' <=> Runs(u))
    BY <1>0, <1>1, <2>2 DEF PumpStart
  <2>5. t \in Tasks \ Running(l) /\ Running(l)' = Running(l) \cup {t}
    BY <2>2, <2>3, <2>4 DEF Running
  <2>6. \A m \in Lanes \ {l} : Running(m)' = Running(m)
    BY <2>2, <2>3, <2>4 DEF Running
  <2>7. active[l] < maxConcurrent[l] /\ active' = [active EXCEPT ![l] = @ + 1]
    BY <1>1 DEF PumpStart, HasWork
  <2> QED
    BY <2>5, <2>6, <2>7
<1>2. ASSUME NEW l \in Lanes, PumpEnd(l) PROVE Same
  BY <1>2, <1>a DEF PumpEnd
<1>3. ASSUME NEW l \in Lanes, ClearCommandLane(l) PROVE Same
  <2>1. \A t \in Tasks : Runs(t)' <=> Runs(t)
    BY <1>0, <1>3 DEF ClearCommandLane
  <2> QED
    BY <1>3, <1>a, <2>1 DEF ClearCommandLane
<1>4. ASSUME NEW l \in Lanes, NEW n \in Widths, SetCommandLaneConcurrency(l, n) PROVE Same
  BY <1>4, <1>a DEF SetCommandLaneConcurrency
<1>5. ASSUME NEW t \in Tasks, EnqueueCommandInLane(t) PROVE Same
  <2>1. \A u \in Tasks : Runs(u)' <=> Runs(u)
    BY <1>0, <1>5 DEF EnqueueCommandInLane
  <2> QED
    BY <1>5, <1>a, <2>1 DEF EnqueueCommandInLane
<1>6. ASSUME NEW t \in Tasks, Settle(t) PROVE Same
  <2>1. status[t] \in {"succeeded", "failed"}
    BY <1>0, <1>6, TopProps DEF Settle, FramesFit
  <2>2. \A u \in Tasks : Runs(u)' <=> Runs(u)
    BY <1>0, <1>6, <2>1 DEF Settle
  <2> QED
    BY <1>6, <1>a, <2>2 DEF Settle
<1>7. ASSUME NEW t \in Tasks, TaskAwaits(t) PROVE Same
  <2>1. status[t] = "called"
    BY <1>0, <1>7, TopProps DEF TaskAwaits, FramesFit
  <2>2. \A u \in Tasks : Runs(u)' <=> Runs(u)
    BY <1>0, <1>7, <2>1 DEF TaskAwaits
  <2> QED
    BY <1>7, <1>a, <2>2 DEF TaskAwaits
<1>8. ASSUME NEW t \in Tasks, TaskThrows(t) PROVE Ends
  <2>1. status[t] = "called"
    BY <1>0, <1>8, TopProps DEF TaskThrows, FramesFit
  <2> QED
    BY <1>8, <1>b, <2>1 DEF TaskThrows
<1>9. ASSUME NEW t \in Tasks, TaskDone(t) PROVE Ends
  BY <1>9, <1>b DEF TaskDone, TaskEnds
<1>10. CASE UNCHANGED vars
  BY <1>10, <1>a DEF vars
<1> QED
  BY <1>1, <1>2, <1>3, <1>4, <1>5, <1>6, <1>7, <1>8, <1>9, <1>10
  DEF Next, PumpStep, TaskRuns

\* The counters follow the tasks that start and end.
LEMMA CountStep == IInv /\ [Next]_vars => ActiveCountsRunning'
<1> SUFFICES ASSUME IInv, [Next]_vars, NEW m \in Lanes
             PROVE  active'[m] = Cardinality(Running(m)')
  BY DEF ActiveCountsRunning
<1>0. /\ active \in [Lanes -> Int] /\ active[m] = Cardinality(Running(m))
      /\ IsFiniteSet(Running(m))
  BY RunningFinite DEF IInv, TypeOK, ActiveCountsRunning
<1>1. ASSUME NEW l \in Lanes, NEW t \in Tasks \ Running(l),
             active' = [active EXCEPT ![l] = @ + 1],
             Running(l)' = Running(l) \cup {t},
             \A k \in Lanes \ {l} : Running(k)' = Running(k)
      PROVE  active'[m] = Cardinality(Running(m)')
  BY <1>0, <1>1, FS_AddElement
<1>2. ASSUME NEW l \in Lanes, NEW t \in Running(l),
             active' = [active EXCEPT ![l] = @ - 1],
             Running(l)' = Running(l) \ {t},
             \A k \in Lanes \ {l} : Running(k)' = Running(k)
      PROVE  active'[m] = Cardinality(Running(m)')
  BY <1>0, <1>2, FS_RemoveElement
<1>3. CASE active' = active /\ \A k \in Lanes : Running(k)' = Running(k)
  BY <1>0, <1>3
<1> QED
  BY <1>1, <1>2, <1>3, RunningChanges

\* A step that lets another task run in a lane had room for it.
LEMMA StartStep ==
    ASSUME IInv, [Next]_vars, NEW m \in Lanes
    PROVE  Running(m)' \subseteq Running(m) \/ Cardinality(Running(m)') <= maxConcurrent[m]
<1>0. /\ active[m] \in Int /\ maxConcurrent[m] \in Nat
      /\ active[m] = Cardinality(Running(m)) /\ IsFiniteSet(Running(m))
  BY RunningFinite DEF IInv, TypeOK, ActiveCountsRunning
<1>1. ASSUME NEW l \in Lanes, NEW t \in Tasks \ Running(l),
             active[l] < maxConcurrent[l],
             Running(l)' = Running(l) \cup {t},
             \A k \in Lanes \ {l} : Running(k)' = Running(k)
      PROVE  Running(m)' \subseteq Running(m) \/ Cardinality(Running(m)') <= maxConcurrent[m]
  <2>1. CASE m = l
    <3>1. Cardinality(Running(m)') = Cardinality(Running(m)) + 1
      BY <1>0, <1>1, <2>1, FS_AddElement
    <3> QED
      BY <1>0, <1>1, <2>1, <3>1
  <2>2. CASE m # l
    BY <1>1, <2>2
  <2> QED
    BY <2>1, <2>2
<1> QED
  BY <1>1, RunningChanges

--------------------------------------------------------------------------------
(* The theorems *)

\* The invariant holds at first and every step keeps it.
LEMMA Inductive == SafetySpec => []IInv
<1>1. Init => IInv
  <2> SUFFICES ASSUME Init PROVE IInv
    OBVIOUS
  <2>1. TypeOK
    BY DEF Init, TypeOK, Status
  <2>2. \A l \in Lanes : Running(l) = {} /\ active[l] = 0
    BY DEF Init, Running
  <2>3. ActiveCountsRunning
    BY <2>2, FS_EmptySet DEF ActiveCountsRunning
  <2>4. QueuesOK /\ FramesOK /\ PumpsOK
    BY DEF Init, QueuesOK, FramesOK, FramesFit, PumpsOK, HasWork
  <2> QED
    BY <2>1, <2>3, <2>4 DEF IInv
<1>2. IInv /\ [Next]_vars => IInv'
  BY TypeStep, CountStep, QueuesStep, FramesStep, PumpsStep DEF IInv
<1> QED
  BY <1>1, <1>2, PTL DEF SafetySpec

\* The lanes, the stack and the tasks keep their types in every execution.
THEOREM TypeCorrect == SafetySpec => []TypeOK
<1>1. IInv => TypeOK
  BY DEF IInv
<1> QED
  BY <1>1, Inductive, PTL

\* The counter of a lane is exact: it is the number of its tasks that run.
THEOREM CountsAreExact == SafetySpec => []ActiveCountsRunning
<1>1. IInv => ActiveCountsRunning
  BY DEF IInv
<1> QED
  BY <1>1, Inductive, PTL

\* No lane starts a task beyond its concurrency limit.
THEOREM StartsAreBounded == SafetySpec => StartsWithinLimit
<1>1. IInv /\ [Next]_vars =>
        [\A l \in Lanes : Running(l)' \subseteq Running(l)
            \/ Cardinality(Running(l)') <= maxConcurrent[l]]_vars
  BY StartStep
<1> QED
  BY <1>1, Inductive, PTL DEF SafetySpec, StartsWithinLimit

\* Back on the event loop, no lane has both room and a task that waits.
THEOREM NothingIsStranded == SafetySpec => []NoStrandedWork
<1>1. IInv => NoStrandedWork
  <2> SUFFICES ASSUME IInv, stack = <<>>, NEW l \in Lanes PROVE ~HasWork(l)
    BY DEF NoStrandedWork, Idle
  <2>1. ~OnStack(stack, PumpFrame(l))
    BY DEF OnStack
  <2> QED
    BY <2>1 DEF IInv, PumpsOK
<1> QED
  BY <1>1, Inductive, PTL

--------------------------------------------------------------------------------
(* The lanes keep the promise of LaneQueue: every step of the code is one step of it, *)
(* or none.                                                                           *)

\* A task that waits is in the queue of its lane: the code that drops what is in the
\* queue and the callers that wait speak of the same tasks.
WaitingOK == \A t \in Tasks : status[t] = "queued" => OnStack(queue[lane[t]], t)

\* A step that leaves the queues alone and makes no task wait.
LEMMA WaitingFrame ==
    ASSUME WaitingOK, UNCHANGED <<queue, lane>>,
           \A t \in Tasks : status'[t] = "queued" => status[t] = "queued"
    PROVE  WaitingOK'
  BY DEF WaitingOK, OnStack

\* Every step keeps waiting tasks in their queues.
LEMMA WaitingStep == IInv /\ WaitingOK /\ [Next]_vars => WaitingOK'
<1> SUFFICES ASSUME IInv, WaitingOK, [Next]_vars PROVE WaitingOK'
  OBVIOUS
<1>0. TypeOK /\ QueuesOK
  BY DEF IInv
<1>1. ASSUME NEW l \in Lanes, PumpStart(l) PROVE WaitingOK'
  <2> DEFINE s == queue[l]
  <2>1. s \in Seq(Tasks) /\ s # <<>>
    BY <1>0, <1>1 DEF PumpStart, HasWork, TypeOK
  <2>2. /\ Head(s) = s[1] /\ Head(s) \in Tasks
        /\ Len(Tail(s)) = Len(s) - 1 /\ Len(s) \in Nat
        /\ \A i \in 1..Len(Tail(s)) : Tail(s)[i] = s[i + 1]
    BY <2>1
  <2>3. /\ queue'[l] = Tail(s) /\ \A m \in Lanes : m # l => queue'[m] = queue[m]
        /\ lane' = lane
        /\ \A t \in Tasks : status'[t] = IF t = Head(s) THEN "called" ELSE status[t]
    BY <1>0, <1>1, <2>2 DEF PumpStart, TypeOK
  <2> SUFFICES ASSUME NEW t \in Tasks, status'[t] = "queued"
               PROVE  OnStack(queue'[lane[t]], t)
    BY <2>3 DEF WaitingOK
  <2>4. t # Head(s) /\ status[t] = "queued" /\ lane[t] \in Lanes
    BY <1>0, <2>3 DEF TypeOK
  <2>5. PICK i \in 1..Len(queue[lane[t]]) : queue[lane[t]][i] = t
    BY <2>4 DEF WaitingOK, OnStack
  <2>6. CASE lane[t] = l
    <3>1. i - 1 \in 1..Len(Tail(s)) /\ Tail(s)[i - 1] = t
      BY <2>2, <2>4, <2>5, <2>6
    <3> QED
      BY <2>3, <2>6, <3>1 DEF OnStack
  <2>7. CASE lane[t] # l
    BY <2>3, <2>4, <2>5, <2>7 DEF OnStack
  <2> QED
    BY <2>6, <2>7
<1>2. ASSUME NEW l \in Lanes, PumpEnd(l) PROVE WaitingOK'
  BY <1>2, WaitingFrame DEF PumpEnd
<1>3. ASSUME NEW l \in Lanes, ClearCommandLane(l) PROVE WaitingOK'
  <2>1. /\ \A m \in Lanes : m # l => queue'[m] = queue[m]
        /\ lane' = lane
        /\ \A t \in Tasks : status'[t] = "queued" => status[t] = "queued" /\ lane[t] # l
    BY <1>0, <1>3 DEF ClearCommandLane, TypeOK
  <2> SUFFICES ASSUME NEW t \in Tasks, status'[t] = "queued"
               PROVE  OnStack(queue'[lane[t]], t)
    BY <2>1 DEF WaitingOK
  <2>2. status[t] = "queued" /\ lane[t] \in Lanes /\ queue'[lane[t]] = queue[lane[t]]
    BY <1>0, <2>1 DEF TypeOK
  <2> QED
    BY <2>2 DEF WaitingOK
<1>4. ASSUME NEW l \in Lanes, NEW n \in Widths, SetCommandLaneConcurrency(l, n)
      PROVE  WaitingOK'
  BY <1>4, WaitingFrame DEF SetCommandLaneConcurrency
<1>5. ASSUME NEW t \in Tasks, EnqueueCommandInLane(t) PROVE WaitingOK'
  <2> DEFINE l == lane[t]
             s == queue[l]
  <2>1. l \in Lanes /\ s \in Seq(Tasks)
    BY <1>0 DEF TypeOK
  <2>2. /\ Len(Append(s, t)) = Len(s) + 1 /\ Len(s) \in Nat
        /\ Append(s, t)[Len(s) + 1] = t
        /\ \A i \in 1..Len(s) : Append(s, t)[i] = s[i]
    BY <2>1
  <2>3. /\ queue'[l] = Append(s, t) /\ \A m \in Lanes : m # l => queue'[m] = queue[m]
        /\ lane' = lane
        /\ \A u \in Tasks : u # t => status'[u] = status[u]
    BY <1>0, <1>5, <2>1 DEF EnqueueCommandInLane, TypeOK
  <2> SUFFICES ASSUME NEW u \in Tasks, status'[u] = "queued"
               PROVE  OnStack(queue'[lane[u]], u)
    BY <2>3 DEF WaitingOK
  <2>4. CASE u = t
    BY <2>2, <2>3, <2>4 DEF OnStack
  <2>5. CASE u # t
    <3>1. PICK i \in 1..Len(queue[lane[u]]) : queue[lane[u]][i] = u
      BY <2>3, <2>5 DEF WaitingOK, OnStack
    <3>2. lane[u] \in Lanes
      BY <1>0 DEF TypeOK
    <3>3. CASE lane[u] = l
      <4>1. queue[lane[u]] = s /\ queue'[lane[u]] = Append(s, t)
        BY <2>3, <3>3
      <4>2. i \in 1..Len(Append(s, t)) /\ Append(s, t)[i] = u
        BY <2>2, <3>1, <4>1
      <4> QED
        BY <4>1, <4>2 DEF OnStack
    <3>4. CASE lane[u] # l
      BY <2>3, <3>1, <3>2, <3>4 DEF OnStack
    <3> QED
      BY <3>3, <3>4
  <2> QED
    BY <2>4, <2>5
<1>6. ASSUME NEW t \in Tasks, Settle(t) \/ TaskAwaits(t) \/ TaskThrows(t) \/ TaskDone(t)
      PROVE  WaitingOK'
  <2>1. /\ UNCHANGED <<queue, lane>>
        /\ \E o \in Status \ {"queued"} : status' = [status EXCEPT ![t] = o]
    BY <1>6 DEF Settle, TaskAwaits, TaskThrows, TaskDone, TaskEnds, Complete, Status
  <2> QED
    BY <1>0, <2>1, WaitingFrame DEF TypeOK
<1>7. CASE UNCHANGED vars
  BY <1>7, WaitingFrame DEF vars
<1> QED
  BY <1>1, <1>2, <1>3, <1>4, <1>5, <1>6, <1>7 DEF Next, PumpStep, TaskRuns

\* A waiting task is in the queue of its lane.
LEMMA WaitingInvariance == SafetySpec => []WaitingOK
<1>1. Init => WaitingOK
  BY DEF Init, WaitingOK
<1> QED
  BY <1>1, WaitingStep, Inductive, PTL DEF SafetySpec

\* A step that changes nothing a user of the lanes sees.
LEMMA Stutter ==
    ASSUME UNCHANGED <<queue, maxConcurrent, lane>>,
           \A t \in Tasks : /\ Outcome(t)' = Outcome(t)
                            /\ status'[t] \in {"called", "pending"}
                                   <=> status[t] \in {"called", "pending"}
    PROVE  UNCHANGED LaneQueueSpec!vars
<1>1. \A l \in Lanes : Running(l)' = Running(l)
  BY DEF Running
<1> QED
  BY <1>1 DEF LaneQueueSpec!vars

\* Both modules count with the same operator.
LEMMA SameCount == \A S : LaneQueueSpec!Cardinality(S) = Cardinality(S)
  BY DEF LaneQueueSpec!Cardinality, Cardinality

\* A step of the loop that calls a task starts it.
LEMMA StartMaps ==
    ASSUME IInv, NEW l \in Lanes, PumpStart(l)
    PROVE  LaneQueueSpec!Start(l)
<1> DEFINE t == Head(queue[l])
<1>1. queue[l] \in Seq(Tasks) /\ queue[l] # <<>> /\ lane \in [Tasks -> Lanes]
  BY DEF IInv, TypeOK, PumpStart, HasWork
<1>2. t \in Tasks /\ t = queue[l][1] /\ 1 \in 1..Len(queue[l])
  BY <1>1
<1>3. lane[t] = l /\ status[t] = "queued"
  BY <1>2 DEF IInv, QueuesOK
<1>4. /\ lane' = lane /\ maxConcurrent' = maxConcurrent
      /\ queue' = [queue EXCEPT ![l] = Tail(@)]
      /\ \A u \in Tasks : status'[u] = IF u = t THEN "called" ELSE status[u]
  BY <1>2 DEF PumpStart, IInv, TypeOK
<1> HIDE DEF t
<1>5. Running(l)' = Running(l) \cup {t} /\ \A m \in Lanes : m # l => Running(m)' = Running(m)
  BY <1>2, <1>3, <1>4 DEF Running
<1>6. \A u \in Tasks : Outcome(u)' = Outcome(u)
  BY <1>3, <1>4 DEF Outcome
<1>7. Cardinality(Running(l)) < maxConcurrent[l]
  BY DEF PumpStart, HasWork, IInv, ActiveCountsRunning
<1>8. [m \in Lanes |-> Running(m)]' =
          [[m \in Lanes |-> Running(m)] EXCEPT ![l] = @ \cup {t}]
  BY <1>5
<1>9. [u \in Tasks |-> Outcome(u)]' = [u \in Tasks |-> Outcome(u)]
  BY <1>6
<1> QED
  <2>1. LaneQueueSpec!HasRoom(l)
    BY <1>1, <1>7, SameCount DEF LaneQueueSpec!HasRoom
  <2> QED
    BY <1>4, <1>8, <1>9, <2>1 DEF LaneQueueSpec!Start, t

\* A task that returns or throws, in its prefix or later, finishes.
LEMMA FinishMaps ==
    ASSUME IInv, NEW t \in Tasks, NEW l \in Lanes, l = lane[t],
           NEW o \in {"succeeded", "failed"}, NEW below,
           status[t] \in {"called", "pending"}, Complete(t, o, below)
    PROVE  LaneQueueSpec!Finish(l, t)
<1> DEFINE r == IF o = "succeeded" THEN "ok" ELSE "error"
<1>1. t \in Running(l)
  BY DEF Running
<1>2. /\ UNCHANGED <<queue, maxConcurrent, lane>>
      /\ \A u \in Tasks : status'[u] = IF u = t THEN o ELSE status[u]
  BY DEF Complete, IInv, TypeOK
<1>3. Running(l)' = Running(l) \ {t} /\ \A m \in Lanes : m # l => Running(m)' = Running(m)
  BY <1>2 DEF Running
<1>4. Outcome(t)' = r /\ \A u \in Tasks : u # t => Outcome(u)' = Outcome(u)
  BY <1>2 DEF Outcome
<1>5. [m \in Lanes |-> Running(m)]' = [[m \in Lanes |-> Running(m)] EXCEPT ![l] = @ \ {t}]
  BY <1>3
<1>6. [u \in Tasks |-> Outcome(u)]' = [[u \in Tasks |-> Outcome(u)] EXCEPT ![t] = r]
  BY <1>4
<1>7. r \in {"ok", "error"}
  OBVIOUS
<1> HIDE DEF r
<1> QED
  BY <1>1, <1>2, <1>5, <1>6, <1>7 DEF LaneQueueSpec!Finish

\* Clearing a lane drops what waits in it, and nothing else.
LEMMA DropMaps ==
    ASSUME IInv, WaitingOK, NEW l \in Lanes, ClearCommandLane(l)
    PROVE  LaneQueueSpec!Drop(l)
<1>1. queue[l] \in Seq(Tasks) /\ DOMAIN queue[l] = 1..Len(queue[l])
  BY DEF IInv, TypeOK
<1>2. /\ UNCHANGED <<maxConcurrent, lane>> /\ queue' = [queue EXCEPT ![l] = <<>>]
      /\ \A t \in Tasks : status'[t] = IF lane[t] = l /\ status[t] = "queued"
                                       THEN "dropped" ELSE status[t]
  BY DEF ClearCommandLane
<1>3. \A t \in Tasks : (\E i \in DOMAIN queue[l] : queue[l][i] = t)
                           <=> lane[t] = l /\ status[t] = "queued"
  BY <1>1 DEF IInv, QueuesOK, WaitingOK, OnStack
<1>4. \A t \in Tasks : Outcome(t)' = IF \E i \in DOMAIN queue[l] : queue[l][i] = t
                                     THEN "dropped" ELSE Outcome(t)
  <2>1. \A t \in Tasks : lane[t] = l /\ status[t] = "queued" => Outcome(t)' = "dropped"
    BY <1>2 DEF Outcome
  <2>2. \A t \in Tasks : ~(lane[t] = l /\ status[t] = "queued") => Outcome(t)' = Outcome(t)
    BY <1>2 DEF Outcome
  <2> QED
    BY <1>3, <2>1, <2>2
<1>5. \A m \in Lanes : Running(m)' = Running(m)
  BY <1>2 DEF Running
<1> QED
  BY <1>2, <1>4, <1>5 DEF LaneQueueSpec!Drop

\* A task that comes in is submitted.
LEMMA SubmitMaps ==
    ASSUME IInv, NEW t \in Tasks, EnqueueCommandInLane(t)
    PROVE  LaneQueueSpec!Submit(lane[t], t) /\ lane[t] \in Lanes
<1>1. /\ UNCHANGED <<maxConcurrent, lane>> /\ status[t] = "new" /\ lane[t] \in Lanes
      /\ queue' = [queue EXCEPT ![lane[t]] = Append(@, t)]
      /\ \A u \in Tasks : status'[u] = IF u = t THEN "queued" ELSE status[u]
  BY DEF EnqueueCommandInLane, IInv, TypeOK
<1>2. \A m \in Lanes : Running(m)' = Running(m)
  BY <1>1 DEF Running
<1>3. /\ Outcome(t) = "new" /\ Outcome(t)' = "open"
      /\ \A u \in Tasks : u # t => Outcome(u)' = Outcome(u)
  BY <1>1 DEF Outcome
<1>4. [u \in Tasks |-> Outcome(u)]' = [[u \in Tasks |-> Outcome(u)] EXCEPT ![t] = "open"]
  BY <1>3
<1> QED
  BY <1>1, <1>2, <1>3, <1>4 DEF LaneQueueSpec!Submit

\* A limit that is set resizes the lane.
LEMMA ResizeMaps ==
    ASSUME IInv, NEW l \in Lanes, NEW n \in Widths, SetCommandLaneConcurrency(l, n)
    PROVE  LaneQueueSpec!Resize(l)
<1>1. /\ UNCHANGED <<queue, status, lane>>
      /\ maxConcurrent' = [maxConcurrent EXCEPT ![l] = IF n > 1 THEN n ELSE 1]
  BY DEF SetCommandLaneConcurrency
<1>2. (IF n > 1 THEN n ELSE 1) \in Widths \cup {1}
  OBVIOUS
<1>3. \A m \in Lanes : Running(m)' = Running(m)
  BY <1>1 DEF Running
<1>4. \A u \in Tasks : Outcome(u)' = Outcome(u)
  BY <1>1 DEF Outcome
<1> QED
  BY <1>1, <1>2, <1>3, <1>4 DEF LaneQueueSpec!Resize

\* Initial states map to initial states.
LEMMA InitMaps == Init => LaneQueueSpec!Init
<1> SUFFICES ASSUME Init PROVE LaneQueueSpec!Init
  OBVIOUS
<1>1. \A l \in Lanes : Running(l) = {}
  BY DEF Init, Running
<1>2. \A t \in Tasks : Outcome(t) = "new"
  BY DEF Init, Outcome
<1> QED
  BY <1>1, <1>2 DEF Init, LaneQueueSpec!Init

\* Every step maps to a step of LaneQueue or to none.
LEMMA StepMaps ==
    IInv /\ WaitingOK /\ [Next]_vars => [LaneQueueSpec!Next]_(LaneQueueSpec!vars)
<1> SUFFICES ASSUME IInv, WaitingOK, [Next]_vars
             PROVE  LaneQueueSpec!Next \/ UNCHANGED LaneQueueSpec!vars
  OBVIOUS
<1>0. TypeOK /\ FramesFit(stack, status)
  BY DEF IInv, FramesOK
<1>1. ASSUME NEW l \in Lanes, PumpEnd(l) PROVE UNCHANGED LaneQueueSpec!vars
  <2>1. UNCHANGED <<queue, maxConcurrent, lane, status>>
    BY <1>1 DEF PumpEnd
  <2> QED
    BY <2>1, Stutter DEF Outcome
<1>2. ASSUME NEW t \in Tasks, Settle(t) PROVE UNCHANGED LaneQueueSpec!vars
  <2>1. status[t] \in {"succeeded", "failed"}
    BY <1>0, <1>2, TopProps DEF Settle, FramesFit
  <2>2. /\ UNCHANGED <<queue, maxConcurrent, lane>>
        /\ \A u \in Tasks : u # t => status'[u] = status[u]
        /\ status'[t] = IF status[t] = "succeeded" THEN "resolved" ELSE "rejected"
    BY <1>0, <1>2 DEF Settle, TypeOK
  <2>3. \A u \in Tasks : Outcome(u)' = Outcome(u)
    BY <2>1, <2>2 DEF Outcome
  <2> QED
    BY <2>1, <2>2, <2>3, Stutter
<1>3. ASSUME NEW t \in Tasks, TaskAwaits(t) PROVE UNCHANGED LaneQueueSpec!vars
  <2>1. status[t] = "called"
    BY <1>0, <1>3, TopProps DEF TaskAwaits, FramesFit
  <2>2. /\ UNCHANGED <<queue, maxConcurrent, lane>>
        /\ \A u \in Tasks : u # t => status'[u] = status[u]
        /\ status'[t] = "pending"
    BY <1>0, <1>3 DEF TaskAwaits, TypeOK
  <2>3. \A u \in Tasks : Outcome(u)' = Outcome(u)
    BY <2>1, <2>2 DEF Outcome
  <2> QED
    BY <2>1, <2>2, <2>3, Stutter
<1>4. ASSUME NEW t \in Tasks, TaskThrows(t) PROVE LaneQueueSpec!Next
  <2>1. status[t] = "called" /\ lane[t] \in Lanes
    BY <1>0, <1>4, TopProps DEF TaskThrows, FramesFit, TypeOK
  <2> QED
    BY <1>4, <2>1, FinishMaps DEF TaskThrows, LaneQueueSpec!Next
<1>5. ASSUME NEW t \in Tasks, TaskDone(t) PROVE LaneQueueSpec!Next
  <2>1. lane[t] \in Lanes
    BY <1>0 DEF TypeOK
  <2> QED
    BY <1>5, <2>1, FinishMaps DEF TaskDone, TaskEnds, LaneQueueSpec!Next
<1>6. CASE UNCHANGED vars
  BY <1>6, Stutter DEF vars, Outcome
<1> QED
  BY <1>1, <1>2, <1>3, <1>4, <1>5, <1>6, StartMaps, DropMaps, SubmitMaps, ResizeMaps
  DEF Next, PumpStep, TaskRuns, LaneQueueSpec!Next

\* What the code does step by step, with calls that nest and failures that run inside an
\* outer pump, is what a lane promises.
THEOREM LanesKeepTheirPromise == SafetySpec => LaneQueueSpec!SafetySpec
  BY InitMaps, StepMaps, WaitingInvariance, Inductive, PTL DEF SafetySpec, LaneQueueSpec!SafetySpec
================================================================================
