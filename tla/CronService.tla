------------------------------- MODULE CronService -------------------------------
(***************************************************************************)
(* The cron scheduler of the gateway (cron/service): a store of jobs kept  *)
(* in memory and on disk, a timer for the next run, and operations that    *)
(* run one after the other on a promise chain (locked).  The gateway can   *)
(* crash and come back, and a configuration change replaces the service    *)
(* by a new one: each of these is a generation.                            *)
(*                                                                         *)
(* An operation gives way while a job runs and while the store is written; *)
(* the timer fires and new operations join the chain meanwhile.            *)
(***************************************************************************)
EXTENDS CronSchedule, Sequences, FiniteSets

CONSTANTS
    Jobs,           \* job ids
    Schedules,      \* the schedules that jobs may have
    Stored,         \* the stores that may be on disk at first
    Requests,       \* the calls that reach the gateway, as operations
    MaxRequests,    \* bound: how many of them
    MaxTime,        \* bound: the clock
    MaxGenerations, \* bound: how many services are started
    CanCrash,       \* the gateway may crash and restart
    CanReload,      \* the cron configuration may be reloaded
    DiskCanFail,    \* writing the store may fail
    NotLoaded,      \* state.store = null
    NoJob,          \* no job is executed
    Keep,           \* a field that an edit leaves alone
    Intervals       \* interval schedules to look at the next run of

Generations == 1..MaxGenerations

Job(schedule, once) ==
    [sched |-> schedule, once |-> once, enabled |-> TRUE, next |-> Unset,
     running |-> FALSE, last |-> "none"]
JobRecords ==
    [sched : Schedules, once : BOOLEAN, enabled : BOOLEAN, next : Times,
     running : BOOLEAN, last : {"none", "ok", "error", "skipped"}]
IsStore(S) == \E D \in SUBSET Jobs : S \in [D -> JobRecords]

Operations ==
    [op : {"start", "tick", "status"}]
        \cup [op : {"add"}, job : Jobs, sched : Schedules, once : BOOLEAN]
        \cup [op : {"update"}, job : Jobs, sched : Schedules \cup {Keep},
              enabled : BOOLEAN \cup {Keep}]
        \cup [op : {"remove"}, job : Jobs]
        \cup [op : {"run"}, job : Jobs, forced : BOOLEAN]
Start == [op |-> "start"]
Tick == [op |-> "tick"]

ASSUME SchedulesAssumption ==
    Schedules \subseteq AtSchedules(Nat) \cup EverySchedules(Nat \ {0}, Nat \cup {NoAnchor})
                           \cup CronSchedules(Nat \ {0}) \cup {InvalidCron}
ASSUME IntervalsAssumption ==
    Intervals \subseteq EverySchedules(Nat \ {0}, Nat \cup {NoAnchor})
\* A store as the service writes it: a one-shot that is done has no next run.
ASSUME StoredAssumption ==
    \A S \in Stored :
        /\ IsStore(S)
        /\ \A k \in DOMAIN S : S[k].sched.kind = "at" /\ S[k].last = "ok" => S[k].next = Unset
ASSUME RequestsAssumption == Requests \subseteq Operations \ {Start, Tick}
ASSUME NotLoadedAssumption == ~IsStore(NotLoaded)
ASSUME NoJobAssumption == NoJob \notin Jobs
ASSUME BoundsAssumption == MaxTime \in Nat \ {0} /\ MaxRequests \in Nat
ASSUME GenerationsAssumption == MaxGenerations \in Nat \ {0}
ASSUME SwitchesAssumption == CanCrash \in BOOLEAN /\ CanReload \in BOOLEAN /\ DiskCanFail \in BOOLEAN

VARIABLES
    clock,
    disk,       \* the store file
    current,    \* the generation the gateway calls
    store,      \* [Generations -> store or NotLoaded]       state.store
    timer,      \* [Generations -> when it fires, or Unset]  state.timer
    ticking,    \* [Generations -> BOOLEAN]                  state.running
    chain,      \* [Generations -> Seq(Operations)]          state.op
    stage,      \* [Generations -> what the head of the chain does]
    due,        \* [Generations -> SUBSET Jobs]  the jobs it still has to execute
    exec,       \* [Generations -> Jobs or NoJob]  the one it executes
    asked,      \* how many requests came
    \* history
    unsaved,    \* an operation of the current service threw, none was written since
    unwatched,  \* the jobs that the timer may have missed since it was armed last
    overlap     \* a service was replaced in the middle of an operation

history == <<unsaved, unwatched, overlap>>
vars == <<clock, disk, current, store, timer, ticking, chain, stage, due, exec, asked, history>>

Init ==
    /\ clock = 1
    /\ disk \in Stored
    /\ current = 1
    /\ store = [g \in Generations |-> NotLoaded]
    /\ timer = [g \in Generations |-> Unset]
    /\ ticking = [g \in Generations |-> FALSE]
    /\ chain = [g \in Generations |-> IF g = 1 THEN <<Start>> ELSE <<>>]
    /\ stage = [g \in Generations |-> "wait"]
    /\ due = [g \in Generations |-> {}]
    /\ exec = [g \in Generations |-> NoJob]
    /\ asked = 0 /\ unsaved = FALSE /\ unwatched = {} /\ overlap = FALSE

--------------------------------------------------------------------------------
(* cron/service/jobs.ts *)

\* computeJobNextRunAtMs: one-shot jobs stay due until they successfully finish.
JobNextRun(j, now) ==
    IF ~j.enabled THEN Unset
    ELSE IF j.sched.kind # "at" THEN ComputeNextRunAtMs(j.sched, now)
    ELSE IF j.last = "ok" THEN Unset ELSE j.sched.at

\* The next run after an operation changed the job; a disabled job stops running.
Rescheduled(j, now) ==
    [j EXCEPT !.next = JobNextRun(j, now), !.running = @ /\ j.enabled]

\* computeNextRunAtMs throws when it is asked for the next run of j.
Refused(j) == j.enabled /\ Throws(j.sched)

\* recomputeNextRuns, as far as the jobs of K
RecomputeNextRuns(S, K, now) ==
    [k \in DOMAIN S |-> IF k \in K THEN Rescheduled(S[k], now) ELSE S[k]]

Patched(j, r) ==
    [j EXCEPT !.sched = IF r.sched = Keep THEN @ ELSE r.sched,
              !.enabled = IF r.enabled = Keep THEN @ ELSE r.enabled]

Waits(j) == j.enabled /\ j.next # Unset
IsDue(j, now) == Waits(j) /\ now >= j.next
DueJobs(S, now) == {k \in DOMAIN S : IsDue(S[k], now) /\ ~S[k].running}

Without(S, k) == [i \in DOMAIN S \ {k} |-> S[i]]
With(S, k, j) == [i \in DOMAIN S \cup {k} |-> IF i = k THEN j ELSE S[i]]

\* nextWakeAtMs is the least of these.
NextWakes(S) == {S[k].next : k \in {i \in DOMAIN S : Waits(S[i])}}

--------------------------------------------------------------------------------
(* The timer *)

\* Fault: nothing is armed for a run that is due already.
ArmTimer_OnlyAhead(g, S) ==
    LET wakes == {t \in NextWakes(S) : t > clock} IN
    timer' = [timer EXCEPT ![g] =
        IF wakes = {} THEN Unset ELSE CHOOSE t \in wakes : \A u \in wakes : t <= u]

\* armTimer, for the earliest run; one that is due already fires at once. When the
\* earliest is 0 nothing is armed, for any job (if (!nextAt) return).
ArmTimer(g, S) ==
    LET wakes == NextWakes(S) IN
    timer' = [timer EXCEPT ![g] =
        IF wakes = {} \/ 0 \in wakes THEN Unset
        ELSE Larger(CHOOSE t \in wakes : \A u \in wakes : t <= u, clock)]

\* Fault: every tick joins the chain.
TimerFires_Always(g) ==
    /\ timer[g] # Unset /\ clock >= timer[g]
    /\ timer' = [timer EXCEPT ![g] = Unset]
    /\ ticking' = [ticking EXCEPT ![g] = TRUE]
    /\ chain' = [chain EXCEPT ![g] = Append(@, Tick)]
    /\ UNCHANGED <<clock, disk, current, store, stage, due, exec, asked, history>>

\* The timer calls onTimer, which does nothing while a tick is on its way.
TimerFires(g) ==
    /\ timer[g] # Unset /\ clock >= timer[g]
    /\ timer' = [timer EXCEPT ![g] = Unset]
    /\ IF ticking[g] THEN UNCHANGED <<ticking, chain>>
       ELSE /\ ticking' = [ticking EXCEPT ![g] = TRUE]
            /\ chain' = [chain EXCEPT ![g] = Append(@, Tick)]
    /\ UNCHANGED <<clock, disk, current, store, stage, due, exec, asked, history>>

--------------------------------------------------------------------------------
(* Operations: cron/service/ops.ts, timer.ts *)

\* Fault: the running flag is reset on success only.
EndOp_StaysTicking(g) ==
    /\ chain' = [chain EXCEPT ![g] = Tail(@)]
    /\ stage' = [stage EXCEPT ![g] = "wait"]
    /\ UNCHANGED ticking

\* The operation is over, the next one of the chain can begin; the
\* finally block of onTimer resets the running flag.
EndOp(g) ==
    /\ chain' = [chain EXCEPT ![g] = Tail(@)]
    /\ stage' = [stage EXCEPT ![g] = "wait"]
    /\ ticking' = [ticking EXCEPT ![g] = @ /\ Head(chain[g]) # Tick]

\* Go on with the store S: execute the jobs of K, or write the store at once.
Proceed(g, S, K) ==
    /\ store' = [store EXCEPT ![g] = S]
    /\ stage' = [stage EXCEPT ![g] = IF K = {} THEN "persist" ELSE "jobs"]
    /\ due' = [due EXCEPT ![g] = K]
    /\ UNCHANGED <<chain, ticking, history>>

\* Return without writing.
Return(g, S) ==
    /\ store' = [store EXCEPT ![g] = S]
    /\ EndOp(g)
    /\ UNCHANGED <<due, history>>

\* The jobs whose next run an operation may change.
ChangedBy(r) ==
    CASE r.op \in {"start", "tick"} -> Jobs
      [] r.op \in {"add", "update", "run"} -> {r.job}
      [] OTHER -> {}

\* The operation throws: what it changed in memory stays, the store is not written
\* and the timer is not armed.
Throw(g, S) ==
    /\ store' = [store EXCEPT ![g] = S]
    /\ EndOp(g)
    /\ due' = [due EXCEPT ![g] = {}]
    /\ unsaved' = (unsaved \/ g = current)
    /\ unwatched' = unwatched \cup (IF g = current THEN ChangedBy(Head(chain[g])) ELSE {})
    /\ UNCHANGED overlap

Begins(g, kind) == stage[g] = "wait" /\ chain[g] # <<>> /\ Head(chain[g]).op = kind
Loaded(g) == IF store[g] = NotLoaded THEN disk ELSE store[g]
UnchangedByBegin == UNCHANGED <<clock, disk, current, timer, exec, asked>>

\* A job with an invalid expression ends the loop of recomputeNextRuns: the jobs
\* before it (K) have their next run, those after it do not.
BeginStart(g) ==
    LET S == Loaded(g)
        refused == {k \in DOMAIN S : Refused(S[k])}
    IN
    /\ Begins(g, "start")
    /\ IF refused = {} THEN Proceed(g, RecomputeNextRuns(S, DOMAIN S, clock), {})
       ELSE \E K \in SUBSET (DOMAIN S \ refused) : Throw(g, RecomputeNextRuns(S, K, clock))
    /\ UnchangedByBegin

BeginTick(g) ==
    /\ Begins(g, "tick")
    /\ Proceed(g, Loaded(g), DueJobs(Loaded(g), clock))
    /\ UnchangedByBegin

BeginStatus(g) ==
    /\ Begins(g, "status")
    /\ Return(g, Loaded(g))
    /\ UnchangedByBegin

\* A job with an invalid expression is not added.
BeginAdd(g) ==
    LET r == Head(chain[g])
        j == Job(r.sched, r.once)
    IN
    /\ Begins(g, "add")
    /\ IF Refused(j) THEN Return(g, Loaded(g))
       ELSE Proceed(g, With(Loaded(g), r.job, Rescheduled(j, clock)), {})
    /\ UnchangedByBegin

\* The job in memory is patched first: it keeps an expression that is then refused.
BeginUpdate(g) ==
    LET r == Head(chain[g])
        S == Loaded(g)
        j == Patched(S[r.job], r)
    IN
    /\ Begins(g, "update")
    /\ IF r.job \notin DOMAIN S THEN Return(g, S)
       ELSE IF Refused(j) THEN Throw(g, [S EXCEPT ![r.job] = j])
       ELSE Proceed(g, [S EXCEPT ![r.job] = Rescheduled(j, clock)], {})
    /\ UnchangedByBegin

BeginRemove(g) ==
    /\ Begins(g, "remove")
    /\ Proceed(g, Without(Loaded(g), Head(chain[g]).job), {})
    /\ UnchangedByBegin

BeginRun(g) ==
    LET r == Head(chain[g])
        S == Loaded(g)
    IN
    /\ Begins(g, "run")
    /\ IF r.job \in DOMAIN S /\ (r.forced \/ IsDue(S[r.job], clock))
       THEN Proceed(g, S, {r.job})
       ELSE Return(g, S)
    /\ UnchangedByBegin

Running(S, k) == [S EXCEPT ![k].running = TRUE]

\* executeJob up to its first await.
StartJob(g) ==
    /\ stage[g] = "jobs" /\ exec[g] = NoJob
    /\ \E k \in due[g] :
          /\ exec' = [exec EXCEPT ![g] = k]
          /\ store' = [store EXCEPT ![g] = Running(@, k)]
    /\ UNCHANGED <<clock, disk, current, timer, ticking, chain, stage, due, asked, history>>

\* Fault: a one-shot that finished is left enabled and due.
Finished_StaysDue(j, status) == [j EXCEPT !.running = FALSE, !.last = status]

\* finish, and the last block of executeJob, when neither throws.
Finished(j, status) ==
    LET done == [j EXCEPT !.running = FALSE, !.last = status,
                          !.enabled = @ /\ ~(j.sched.kind = "at" /\ status = "ok")]
    IN  Rescheduled(done, clock)

\* finish is called again when it throws, with the status "error", and throws again.
FailedToFinish(j) == [j EXCEPT !.running = FALSE, !.last = "error"]

\* The jobs of a tick that are left over are not executed when it throws.
FinishJob(g, status) ==
    LET k == exec[g]
        j == store[g][k]
        rest == due[g] \ {k}
    IN
    /\ k # NoJob
    /\ exec' = [exec EXCEPT ![g] = NoJob]
    /\ IF Refused(j) THEN Throw(g, [store[g] EXCEPT ![k] = FailedToFinish(j)])
       ELSE Proceed(g, IF j.sched.kind = "at" /\ j.once /\ status = "ok"
                       THEN Without(store[g], k)
                       ELSE [store[g] EXCEPT ![k] = Finished(j, status)],
                    rest)
    /\ UNCHANGED <<clock, disk, current, timer, asked>>

\* persist, by a rename, then armTimer.
Persist(g) ==
    /\ stage[g] = "persist"
    /\ disk' = store[g]
    /\ ArmTimer(g, store[g])
    /\ EndOp(g)
    /\ IF g = current
       THEN unsaved' = FALSE /\ unwatched' = IF 0 \in NextWakes(store[g]) THEN Jobs ELSE {}
       ELSE UNCHANGED <<unsaved, unwatched>>
    /\ UNCHANGED <<clock, current, store, due, exec, asked, overlap>>

\* The write throws, before the timer is armed.
PersistFails(g) ==
    /\ DiskCanFail
    /\ stage[g] = "persist"
    /\ Throw(g, store[g])
    /\ UNCHANGED <<clock, disk, current, timer, exec, asked>>

--------------------------------------------------------------------------------
(* The gateway *)

\* The id of a new job is random: no other job has it.
IsFresh(k) ==
    /\ k \notin DOMAIN disk
    /\ store[current] # NotLoaded => k \notin DOMAIN store[current]
    /\ \A i \in DOMAIN chain[current] :
          chain[current][i].op = "add" => chain[current][i].job # k

Request(r) ==
    /\ asked < MaxRequests
    /\ asked' = asked + 1
    /\ chain' = [chain EXCEPT ![current] = Append(@, r)]
    /\ r.op = "add" => IsFresh(r.job)
    /\ UNCHANGED <<clock, disk, current, store, timer, ticking, stage, due, exec, history>>

Successor ==
    /\ current + 1 \in Generations
    /\ current' = current + 1

\* The process dies, and the gateway starts again.
CrashAndRestart ==
    /\ CanCrash
    /\ Successor
    /\ store' = [g \in Generations |-> NotLoaded]
    /\ timer' = [g \in Generations |-> Unset]
    /\ ticking' = [g \in Generations |-> FALSE]
    /\ chain' = [g \in Generations |-> IF g = current' THEN <<Start>> ELSE <<>>]
    /\ stage' = [g \in Generations |-> "wait"]
    /\ due' = [g \in Generations |-> {}]
    /\ exec' = [g \in Generations |-> NoJob]
    /\ unsaved' = FALSE /\ unwatched' = {} /\ overlap' = FALSE
    /\ UNCHANGED <<clock, disk, asked>>

\* server-reload-handlers.ts: stop the service, that is its timer, and start a
\* new one; what the old one is about to do goes on.
Reload ==
    /\ CanReload
    /\ Successor
    /\ timer' = [timer EXCEPT ![current] = Unset]
    /\ chain' = [chain EXCEPT ![current'] = <<Start>>]
    /\ unsaved' = FALSE /\ unwatched' = {}
    /\ overlap' = (overlap \/ chain[current] # <<>>)
    /\ UNCHANGED <<clock, disk, store, ticking, stage, due, exec, asked>>

TimePasses ==
    /\ clock < MaxTime
    /\ clock' = clock + 1
    /\ UNCHANGED <<disk, current, store, timer, ticking, chain, stage, due, exec, asked, history>>

--------------------------------------------------------------------------------
Begin(g) ==
    \/ BeginStart(g) \/ BeginTick(g) \/ BeginStatus(g)
    \/ BeginAdd(g) \/ BeginUpdate(g) \/ BeginRemove(g) \/ BeginRun(g)
Statuses == {"ok", "error", "skipped"}
Advance(g) ==
    \/ Begin(g) \/ StartJob(g) \/ \E status \in Statuses : FinishJob(g, status)
    \/ Persist(g) \/ PersistFails(g)

Next ==
    \/ \E g \in Generations : TimerFires(g) \/ Advance(g)
    \/ \E r \in Requests : Request(r)
    \/ CrashAndRestart \/ Reload \/ TimePasses

SafetySpec == Init /\ [][Next]_vars

(***************************************************************************)
(* Time passes, timers fire, operations get on: a job ends, for an agent   *)
(* turn has a timeout and the wait for the heartbeat gives up.             *)
(***************************************************************************)
Spec ==
    /\ SafetySpec
    /\ WF_vars(TimePasses)
    /\ \A g \in Generations : WF_vars(TimerFires(g)) /\ WF_vars(Advance(g))

--------------------------------------------------------------------------------
(* Properties *)

\* Type correctness.
TypeOK ==
    /\ clock \in 1..MaxTime /\ IsStore(disk) /\ current \in Generations
    /\ DOMAIN store = Generations
    /\ \A g \in Generations : store[g] = NotLoaded \/ IsStore(store[g])
    /\ timer \in [Generations -> Times] /\ ticking \in [Generations -> BOOLEAN]
    /\ chain \in [Generations -> Seq(Operations)]
    /\ stage \in [Generations -> {"wait", "jobs", "persist"}]
    /\ due \in [Generations -> SUBSET Jobs] /\ exec \in [Generations -> Jobs \cup {NoJob}]
    /\ asked \in 0..MaxRequests /\ {unsaved, overlap} \subseteq BOOLEAN
    /\ unwatched \subseteq Jobs

\* The service the gateway calls has loaded its store, and nothing is under way.
AtRest == chain[current] = <<>> /\ store[current] # NotLoaded

\* A scheduler at rest has its timer set for every next run, at that time or at once: no
\* order of requests, ticks, reloads and restarts leaves a job without a wake-up, and an
\* operation that throws (a write fails, an expression is refused) takes it from no job
\* but the ones that operation changed. Two exceptions are those of the code, until an
\* operation gets through again: a tick or a start that throws leaves no job a wake-up,
\* and a next run at 0 takes it from all.
TimerCoversNextRuns ==
    AtRest => \A k \in DOMAIN store[current] \ unwatched :
        LET j == store[current][k] IN
        Waits(j) => timer[current] # Unset /\ timer[current] <= Larger(j.next, clock)

\* A one-shot that is recorded as done is not executed by the timer again, not
\* after an edit that enables it either, nor after a restart. (When an operation threw,
\* the record on disk may be out of date: the job was run by hand since, and failed.)
OneShotStaysDone ==
    [][\A g \in Generations, k \in Jobs :
          /\ exec[g] = NoJob /\ exec'[g] = k
          /\ Head(chain[g]) = Tick
          /\ k \in DOMAIN disk /\ ~overlap /\ ~unsaved
          => ~(disk[k].sched.kind = "at" /\ disk[k].last = "ok")]_vars

\* A tick that waits behind a long operation is the only one, however often the
\* timer is set and fires meanwhile, and the running flag says that it waits.
TicksDoNotPileUp ==
    \A g \in Generations :
        LET ticks == {i \in DOMAIN chain[g] : chain[g][i] = Tick} IN
        Cardinality(ticks) = IF ticking[g] THEN 1 ELSE 0

\* A service that was stopped has no timer set.
StoppedStaysStopped == \A g \in Generations : g # current => timer[g] = Unset

\* The next run of an interval schedule is one of its slots, not in the past, and
\* no slot between is passed over.
NextIsNearestSlot ==
    \A s \in Intervals :
        LET next == NextEvery(s, clock) IN
        /\ next >= clock /\ IsSlot(s, clock, next)
        /\ \A t \in clock + 1 .. next - 1 : ~IsSlot(s, clock, t)

\* Job k waits for a run within the bound of the clock.
Scheduled(k) ==
    /\ store[current] # NotLoaded
    /\ k \in DOMAIN store[current]
    /\ store[current][k].next \in 1..MaxTime
    /\ exec[current] # k

\* A job that waits for a run is executed, or it is disabled, removed or moved: the chain
\* does not stall, the timer is set again after every tick that gets through, and a request
\* that throws stalls only the job it changed.
EveryDueJobRuns == \A k \in Jobs : Scheduled(k) ~> (~Scheduled(k) \/ k \in unwatched)
================================================================================
