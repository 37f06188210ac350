------------------------------ MODULE Orchestrator ------------------------------
(***************************************************************************)
(* The orchestrator of the gateway (infra/orchestrator).  Incidents are    *)
(* appended to a log (infra/incidents.ts), and an incident that is serious *)
(* enough also becomes a task.  An hourly and a daily timer read the log   *)
(* from a byte offset, hand every incident and every open task to an agent *)
(* through the gateway if the budget allows it, and save the offset.  A    *)
(* maintenance job (infra/mission-control) rewrites the log without its    *)
(* duplicates.                                                             *)
(*                                                                         *)
(* The two ticks share the state in memory across their awaits, and the    *)
(* process may die between any two steps.                                  *)
(***************************************************************************)
EXTENDS Naturals, Sequences, SequencesExt, FiniteSets

CONSTANTS
    Incidents,    \* incident records that are emitted, each once
    Tasked,       \* the ones that become a task of their own
    Routed,       \* the ones for which a rule or the default names an agent
    Size,         \* [Incidents -> Nat]  bytes of the line in the log
    Key,          \* [Incidents -> what makes duplicates; NoKey: never one]
    NoKey,
    MaxFaults     \* bound: crashes, failed ticks, calls that fail and rewrites

ASSUME SizeAssumption == Size \in [Incidents -> Nat \ {0}]
ASSUME SubsetAssumption == Tasked \subseteq Incidents /\ Routed \subseteq Incidents
ASSUME BoundsAssumption == MaxFaults \in Nat

Ticks == {"hourly", "daily"}
Items == [kind : {"incident"}, of : Incidents] \cup [kind : {"task"}, of : Tasked]
Incident(i) == [kind |-> "incident", of |-> i]
Task(i) == [kind |-> "task", of |-> i]

VARIABLES
    log,        \* Seq(Incidents)  incidents.jsonl
    reported,   \* the incidents that were emitted
    task,       \* [Incidents -> status of its task]
    state,      \* lastIncidentOffset in memory, and seen: lastIncidentMtimeMs is
                \* the time of the last change of the log
    disk,       \* the same in orchestrator.state.json
    tick,       \* [Ticks -> what the timer's callback does]
    copy,       \* the lines the maintenance job keeps; <<>> and at = 0: idle
    \* history
    recorded,   \* the incidents in orchestrator.dispatch.jsonl
    handed,     \* [Items -> 0..2]  runs that were started for it (2: or more)
    disturbed   \* what may excuse that something is done again: ticks that
                \* overlapped, faults and rewrites so far

orchestratorVars == <<log, reported, task, state, disk, tick, copy, recorded, handed, disturbed>>
logVars == <<log, reported, copy>>
history == <<recorded, handed, disturbed>>

States == [offset : Nat, seen : BOOLEAN]
Blank == [offset |-> 0, seen |-> FALSE]
Resting == [stage |-> "idle", work |-> <<>>, next |-> Blank, step |-> "budget"]
NoCopy == [at |-> 0, lines |-> <<>>]

OrchestratorInit ==
    /\ log = <<>> /\ reported = {}
    /\ task = [i \in Incidents |-> "none"]
    /\ state = Blank /\ disk = Blank
    /\ tick = [t \in Ticks |-> Resting]
    /\ copy = NoCopy
    /\ recorded = {}
    /\ handed = [w \in Items |-> 0]
    /\ disturbed = [overlap |-> FALSE, faults |-> 0, rewritten |-> FALSE]

Fault == disturbed.faults < MaxFaults /\ disturbed' = [disturbed EXCEPT !.faults = @ + 1]

--------------------------------------------------------------------------------
(* The log: incidents.ts and orchestrator/queue.ts *)

Bytes(lines) == FoldLeft(LAMBDA n, i : n + Size[i], 0, lines)

\* The lines that start at the offset or after it.  When the offset is inside a
\* line, what is left of that line is malformed and skipped.
LinesFrom(lines, offset) ==
    LET whole == {k \in 1..Len(lines) : Bytes(SubSeq(lines, 1, k - 1)) >= offset}
    IN  SubSeq(lines, Len(lines) - Cardinality(whole) + 1, Len(lines))

\* The log changes, and every modification time that was noted is an old one.
LogBecomes(lines) ==
    /\ log' = lines
    /\ state' = [state EXCEPT !.seen = FALSE]
    /\ disk' = [disk EXCEPT !.seen = FALSE]
    /\ tick' = [t \in Ticks |-> [tick[t] EXCEPT !.next.seen = FALSE]]

\* emitIncident awaits a line in the log ...
EmitIncident(i) ==
    /\ i \notin reported
    /\ LogBecomes(Append(log, i))
    /\ reported' = reported \cup {i}
    /\ task' = IF i \in Tasked THEN [task EXCEPT ![i] = "wanted"] ELSE task
    /\ UNCHANGED <<copy, history>>

\* ... and makes a task of the incident: maybeCreateTaskFromIncident.
MakeTask(i) ==
    /\ task[i] = "wanted"
    /\ task' = [task EXCEPT ![i] = "assigned"]
    /\ UNCHANGED <<logVars, state, disk, tick, history>>

\* The first of the incidents with one key stays.
IsDuplicate(lines, k) ==
    /\ Key[lines[k]] # NoKey
    /\ \E m \in 1 .. k - 1 : Key[lines[m]] = Key[lines[k]]
Unique(lines) ==
    LET kept[n \in 0..Len(lines)] ==
            IF n = 0 THEN <<>>
            ELSE IF IsDuplicate(lines, n) THEN kept[n - 1] ELSE Append(kept[n - 1], lines[n])
    IN  kept[Len(lines)]

\* pruneMissionControlDuplicates reads the log into a copy ...
RewriteReads ==
    /\ copy = NoCopy /\ log # <<>> /\ disturbed.faults < MaxFaults
    /\ copy' = [at |-> Len(log), lines |-> Unique(log)]
    /\ disturbed' = [disturbed EXCEPT !.faults = @ + 1]
    /\ UNCHANGED <<log, reported, task, state, disk, tick, recorded, handed>>

\* ... and puts the copy in its place if it dropped anything.
RewriteReplaces ==
    /\ copy # NoCopy
    /\ copy' = NoCopy
    /\ IF Len(copy.lines) < copy.at
       THEN LogBecomes(copy.lines) /\ disturbed' = [disturbed EXCEPT !.rewritten = TRUE]
       ELSE UNCHANGED <<log, state, disk, tick, disturbed>>
    /\ UNCHANGED <<reported, task, recorded, handed>>

--------------------------------------------------------------------------------
(* A tick: orchestrator/runner.ts *)

\* Fault: the daily tick looks at the modification time as well.
LooksAtMtime_Always(t) == TRUE

\* Only the hourly tick passes when the log did not change.
LooksAtMtime(t) == t = "hourly"

HasIncidentUpdates == log # <<>> /\ ~state.seen

TickStarts(t) ==
    /\ tick[t].stage = "idle"
    /\ IF LooksAtMtime(t) /\ ~HasIncidentUpdates
       THEN /\ tick' = [tick EXCEPT ![t].stage = "saving"]
            /\ UNCHANGED disturbed
       ELSE /\ tick' = [tick EXCEPT ![t].stage = "reading"]
            /\ disturbed' = [disturbed EXCEPT !.overlap =
                   @ \/ \E u \in Ticks : tick[u].stage \in {"reading", "incidents", "tasks"}]
    /\ UNCHANGED <<logVars, task, state, disk, recorded, handed>>

\* readIncidentBatch: what lies behind the offset, and where it ends.
ReadIncidentBatch(t) ==
    /\ tick[t].stage = "reading"
    /\ LET from == IF Bytes(log) < state.offset THEN 0 ELSE state.offset
           lines == LinesFrom(log, from)
       IN  tick' = [tick EXCEPT ![t] =
               [stage |-> "incidents", step |-> "budget", next |-> [offset |-> Bytes(log), seen |-> TRUE],
                work |-> [k \in 1..Len(lines) |-> Incident(lines[k])]]]
    /\ UNCHANGED <<logVars, task, state, disk, history>>

\* dispatchTasks lists the open tasks once the incidents are handed out.
OpenTasks == {w \in Items : w.kind = "task" /\ task[w.of] = "assigned"}
ListTasks(t) ==
    /\ tick[t].stage = "incidents" /\ tick[t].work = <<>>
    /\ \E order \in SetToSeqs(OpenTasks) :
          tick' = [tick EXCEPT ![t].stage = "tasks", ![t].work = order]
    /\ UNCHANGED <<logVars, task, state, disk, history>>

\* Fault: the offset is the size of the log when the work is done.
NextOffset_OfNow(t) == Bytes(log)

NextOffset(t) == tick[t].next.offset

\* The offset moves past the batch; the modification time is read again.
AdvanceOffset(t) ==
    /\ tick[t].stage = "tasks" /\ tick[t].work = <<>>
    /\ state' = [offset |-> NextOffset(t), seen |-> log # <<>>]
    /\ tick' = [tick EXCEPT ![t] = [Resting EXCEPT !.stage = "saving"]]
    /\ UNCHANGED <<logVars, task, disk, history>>

\* saveState opens the file, which empties it, and writes it.
SaveOpens(t) ==
    /\ tick[t].stage = "saving"
    /\ disk' = Blank
    /\ tick' = [tick EXCEPT ![t] =
           [Resting EXCEPT !.stage = "writing", !.next = state]]
    /\ UNCHANGED <<logVars, task, state, history>>

SaveWrites(t) ==
    /\ tick[t].stage = "writing"
    /\ disk' = tick[t].next
    /\ tick' = [tick EXCEPT ![t] = Resting]
    /\ UNCHANGED <<logVars, task, state, history>>

--------------------------------------------------------------------------------
(* Handing out one item: dispatcher.ts and task-dispatcher.ts *)

Working(t, step) ==
    tick[t].stage \in {"incidents", "tasks"} /\ tick[t].work # <<>> /\ tick[t].step = step
Item(t) == Head(tick[t].work)
Done(t) == tick' = [tick EXCEPT ![t].work = Tail(@), ![t].step = "budget"]

\* appendDispatchRecord: accepted, skipped or error; tasks have a file of their own.
Recorded(w) == recorded' = IF w.kind = "incident" THEN recorded \cup {w.of} ELSE recorded

\* There is no agent for the item, or the budget denies or defers it: that depends on
\* all runs of the gateway in the window.  What is skipped is not tried again.
Skip(t) ==
    /\ Working(t, "budget")
    /\ Recorded(Item(t)) /\ Done(t)
    /\ UNCHANGED <<logVars, task, state, disk, handed, disturbed>>

Handed(w) == handed' = [handed EXCEPT ![w] = IF @ = 2 THEN 2 ELSE @ + 1]

\* Fault: a task stays open until its run is in the ledger.
TaskTaken_Later(w) == task

\* updateTaskStatus(..., "in_progress")
TaskTaken(w) == IF w.kind = "task" THEN [task EXCEPT ![w.of] = "in_progress"] ELSE task

\* evaluateBudget allows the item and the gateway accepts a run for it, which goes
\* on by itself.
CallAccepted(t) ==
    /\ Working(t, "budget") /\ Item(t).of \in Routed
    /\ Handed(Item(t)) /\ task' = TaskTaken(Item(t))
    /\ tick' = [tick EXCEPT ![t].step = "enter"]
    /\ UNCHANGED <<logVars, state, disk, recorded, disturbed>>

\* The run ledger and the log of dispatches are written.
EnterLedger(t) ==
    /\ Working(t, "enter")
    /\ Recorded(Item(t)) /\ Done(t)
    /\ UNCHANGED <<logVars, task, state, disk, handed, disturbed>>

\* The gateway refuses the run, or starts it and its answer does not come in time:
\* either is recorded as an error, and a task stays open.
CallFails(t) ==
    /\ Working(t, "budget") /\ Item(t).of \in Routed /\ Fault
    /\ Handed(Item(t)) \/ UNCHANGED handed
    /\ Recorded(Item(t)) /\ Done(t)
    /\ UNCHANGED <<logVars, task, state, disk>>

--------------------------------------------------------------------------------
(* Failures *)

\* An error of the file system ends a tick; its timer goes on.
TickFails(t) ==
    /\ tick[t].stage # "idle" /\ Fault
    /\ tick' = [tick EXCEPT ![t] = Resting]
    /\ UNCHANGED <<logVars, task, state, disk, recorded, handed>>

\* The process dies and comes back with the state on disk.
Crash ==
    /\ Fault
    /\ state' = disk
    /\ tick' = [t \in Ticks |-> Resting]
    /\ copy' = NoCopy
    /\ task' = [i \in Incidents |-> IF task[i] = "wanted" THEN "none" ELSE task[i]]
    /\ UNCHANGED <<log, reported, disk, recorded, handed>>

TickStep(t) ==
    \/ TickStarts(t) \/ ReadIncidentBatch(t) \/ ListTasks(t) \/ AdvanceOffset(t)
    \/ SaveOpens(t) \/ SaveWrites(t)
    \/ Skip(t) \/ CallAccepted(t) \/ EnterLedger(t)

OrchestratorNext ==
    \/ \E i \in Incidents : EmitIncident(i) \/ MakeTask(i)
    \/ \E t \in Ticks : TickStep(t) \/ CallFails(t) \/ TickFails(t)
    \/ RewriteReads \/ RewriteReplaces
    \/ Crash

\* Timers fire, and what they await comes back.
OrchestratorSpec ==
    /\ OrchestratorInit /\ [][OrchestratorNext]_orchestratorVars
    /\ \A t \in Ticks : WF_orchestratorVars(TickStep(t))

--------------------------------------------------------------------------------
(* Properties *)

OrchestratorTypeOK ==
    /\ log \in Seq(Incidents)
    /\ reported \subseteq Incidents
    /\ task \in [Incidents -> {"none", "wanted", "assigned", "in_progress"}]
    /\ {state, disk} \subseteq States
    /\ tick \in [Ticks ->
           [stage : {"idle", "reading", "incidents", "tasks", "saving", "writing"},
            work : Seq(Items), next : States, step : {"budget", "enter"}]]
    /\ copy \in [at : Nat, lines : Seq(Incidents)]
    /\ recorded \subseteq Incidents
    /\ handed \in [Items -> 0..2]
    /\ disturbed \in [overlap : BOOLEAN, faults : 0..MaxFaults, rewritten : BOOLEAN]

Rewritten == disturbed.rewritten
Disturbed == disturbed.overlap \/ disturbed.faults > 0 \/ Rewritten

\* Whatever lies before an offset, in memory, on disk or on its way to it, has a
\* record of what was done with it: an incident that is appended while a tick
\* works is not passed over.  Only a rewrite moves lines under an offset.
NothingIsPassedOver ==
    Rewritten \/
    \A o \in {state.offset, disk.offset} \cup
              {tick[t].next.offset : t \in {u \in Ticks : tick[u].stage = "writing"}} :
        \A k \in 1..Len(log) : Bytes(SubSeq(log, 1, k)) <= o => log[k] \in recorded

\* An incident or a task is handed to an agent once, unless the two ticks overlap,
\* something fails or the log is rewritten.
HandedOutOnce == ~Disturbed => \A w \in Items : handed[w] <= 1

\* Every incident that is emitted is dealt with, though ticks overlap, fail and the
\* process dies; the daily tick is what makes up for an hourly tick that took the
\* modification time of an incident it had not read.
EveryIncidentIsDealtWith ==
    \A i \in Incidents : (i \in reported) ~> (i \in recorded \/ Rewritten)

================================================================================
