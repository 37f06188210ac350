------------------------------- MODULE Heartbeat --------------------------------
(***************************************************************************)
(* The heartbeat: wake requests (infra/heartbeat-wake.ts), the beat they   *)
(* lead to (runHeartbeatOnce of infra/heartbeat-runner.ts), the events it  *)
(* carries into the prompt of the main session (infra/system-events.ts)    *)
(* and the session entry it touches.                                       *)
(*                                                                         *)
(* Requests are coalesced by one timer.  A beat gives way to work in the   *)
(* main lane, and is asked for again; a beat too soon after another is     *)
(* skipped and is not.  A beat of the timer that throws ends the process,  *)
(* and all that is here but the entry is in its memory.  The cron service  *)
(* calls runHeartbeatOnce past the timer, and any turn of the main session *)
(* takes the waiting events.                                               *)
(***************************************************************************)
EXTENDS Naturals, Sequences, FiniteSets

CONSTANTS
    Texts,         \* the texts of system events
    MaxEvents,     \* MAX_EVENTS of the queue
    MaxRequests,   \* bound: wakes, calls of the cron service and turns together
    MaxFaults,     \* bound: beats that throw, stops of the runner, switches of enabled
    NoText

ASSUME BoundsAssumption == MaxEvents \in Nat \ {0} /\ MaxRequests \in Nat /\ MaxFaults \in Nat
ASSUME NoTextAssumption == NoText \notin Texts

Callers == {"wake", "cron"}

VARIABLES
    handler,      \* a runner is started: setHeartbeatWakeHandler
    timer,        \* the wake timer is set
    scheduled,
    pending,      \* pendingReason is not null
    running,
    enabled,      \* heartbeatsEnabled
    cooling,      \* lastHeartbeatAtMs is less than the minimum interval ago
    stage,        \* [Callers -> where runHeartbeatOnce is]
    tasks,        \* tasks of other turns in the main lane
    queue,        \* the system events of the main session
    lastText,
    updatedAt,    \* of the entry of the main session: the number of its saves
    previous,     \* [Callers -> previousUpdatedAt of the beat]
    \* history
    lastByUser,   \* updatedAt as the last turn that was no mere acknowledgement left it
    owed,         \* a wake was asked for and no beat has answered it yet
    unheard,      \* texts that came with a wake and have not been in a prompt since
    requests, faults

waker == <<handler, timer, scheduled, pending, running>>
events == <<queue, lastText>>
entry == <<updatedAt, previous, lastByUser>>
owing == <<owed, unheard>>
heartbeatVars == <<waker, enabled, cooling, stage, tasks, events, entry, owing, requests, faults>>

HeartbeatInit ==
    /\ handler = TRUE /\ timer = FALSE /\ scheduled = FALSE /\ pending = FALSE /\ running = FALSE
    /\ enabled = TRUE /\ cooling = FALSE /\ tasks = 0
    /\ stage = [c \in Callers |-> "idle"]
    /\ queue = <<>> /\ lastText = NoText
    /\ updatedAt = 0 /\ previous = [c \in Callers |-> 0] /\ lastByUser = 0
    /\ owed = FALSE /\ unheard = {} /\ requests = 0 /\ faults = 0

Asks == requests < MaxRequests /\ requests' = requests + 1
Fault == faults < MaxFaults /\ faults' = faults + 1

--------------------------------------------------------------------------------
(* Wakes and events *)

\* requestHeartbeatNow: a timer that is already set stays as it is.
RequestHeartbeatNow == pending' = TRUE /\ timer' = TRUE /\ owed' = TRUE

\* enqueueSystemEvent skips the text that was put in last.
EnqueueSystemEvent(text) ==
    IF lastText = text THEN UNCHANGED events
    ELSE LET longer == Append(queue, text)
         IN  /\ lastText' = text
             /\ queue' = IF Len(longer) > MaxEvents THEN Tail(longer) ELSE longer

InQueue(q) == {q[i] : i \in 1..Len(q)}


\* drainSystemEventEntries
Drained == queue' = <<>> /\ lastText' = NoText

\* What a prompt takes is heard.
PromptTakesEvents ==
    /\ Drained
    /\ unheard' = unheard \ InQueue(queue)

\* The interval of the runner, or a wake without an event.
Wake ==
    /\ Asks /\ RequestHeartbeatNow
    /\ UNCHANGED <<handler, scheduled, running, enabled, cooling, stage, tasks, events, entry,
                   unheard, faults>>

\* An event and the wake for it, from cron.wake, a hook, an incident, a finished job.
\* The text that gives way to it at the limit is lost.
WakeWithEvent(text) ==
    /\ Asks /\ EnqueueSystemEvent(text) /\ RequestHeartbeatNow
    /\ unheard' = (unheard \ (InQueue(queue) \ InQueue(queue'))) \cup {text}
    /\ UNCHANGED <<handler, scheduled, running, enabled, cooling, stage, tasks, entry, faults>>

--------------------------------------------------------------------------------
(* The beat: runHeartbeatOnce *)

\* getQueueSize("main")
LaneBusy == tasks > 0 \/ \E c \in Callers : stage[c] = "turn"
Skipped == ~enabled \/ (~LaneBusy /\ cooling)
Begins == enabled /\ ~LaneBusy /\ ~cooling
InFlight == enabled /\ LaneBusy

Enters(c, s) == stage' = [stage EXCEPT ![c] = s]

\* A beat begins or is skipped for good: that is the answer to the wakes so far.  A
\* beat that is skipped leaves the events where they are, for a later turn.
Answered(begins) == owed' = FALSE /\ unheard' = IF begins THEN unheard ELSE {}

\* Fault: a beat that gave way is forgotten.
RetrySoon_Never == pending' = FALSE /\ timer' = FALSE

\* A beat that gave way to the main lane is asked for again.
RetrySoon == pending' = TRUE /\ timer' = TRUE

\* The finally block of the timer.
TimerFinally ==
    /\ running' = FALSE /\ timer' = (timer \/ pending \/ scheduled)
    /\ UNCHANGED <<handler, scheduled, pending>>

\* The timer fires while no handler is set: the reason stays.
WakeWithoutHandler ==
    /\ timer /\ ~handler
    /\ timer' = FALSE /\ scheduled' = FALSE
    /\ UNCHANGED <<handler, pending, running, enabled, cooling, stage, tasks, events, entry, owing,
                   requests, faults>>

\* It fires while a beat runs: it is set again.
WakeWhileRunning ==
    /\ timer /\ handler /\ running
    /\ scheduled' = TRUE
    /\ UNCHANGED <<handler, timer, pending, running, enabled, cooling, stage, tasks, events, entry,
                   owing, requests, faults>>

\* It fires and the handler is called, up to its first await.  The results that need
\* none are handled before another timer can fire.
WakeFires ==
    /\ timer /\ handler /\ ~running
    /\ scheduled' = FALSE
    /\ \/ /\ Begins /\ Enters("wake", "health")
          /\ previous' = [previous EXCEPT !["wake"] = updatedAt]
          /\ running' = TRUE /\ timer' = FALSE /\ pending' = FALSE /\ Answered(TRUE)
       \/ /\ Skipped
          /\ timer' = FALSE /\ pending' = FALSE /\ Answered(FALSE)
          /\ UNCHANGED <<stage, previous, running>>
       \/ /\ InFlight /\ RetrySoon
          /\ UNCHANGED <<stage, previous, running, owing>>
    /\ UNCHANGED <<handler, enabled, cooling, tasks, events, updatedAt, lastByUser, requests, faults>>

\* A job of the cron service for the main session calls the beat itself, tries again
\* while the lane is busy, and gives up after two minutes.
CronEnters ==
    /\ stage["cron"] = "idle" /\ Asks
    /\ Enters("cron", "asking")
    /\ UNCHANGED <<waker, enabled, cooling, tasks, events, entry, owing, faults>>

CronCalls ==
    /\ stage["cron"] = "asking"
    /\ \/ /\ Begins /\ Enters("cron", "health")
          /\ previous' = [previous EXCEPT !["cron"] = updatedAt]
       \/ /\ ~Begins /\ Enters("cron", "idle")
          /\ UNCHANGED previous
    /\ UNCHANGED <<waker, enabled, cooling, tasks, events, updatedAt, lastByUser, owing, requests, faults>>

\* The state of the system is asked for first; then the reply is built like any other:
\* the entry is saved, the prompt takes the events and the run enters the main lane.
\* Of the saves of a turn the first stands for all.
BeatTurn(c) ==
    /\ stage[c] = "health"
    /\ Enters(c, "turn") /\ PromptTakesEvents
    /\ updatedAt' = updatedAt + 1
    /\ UNCHANGED <<waker, enabled, cooling, tasks, previous, lastByUser, owed, requests, faults>>

\* restoreHeartbeatUpdatedAt: the later of what the entry has and what it had.
RestoredUpdatedAt(now, before) == IF now > before THEN now ELSE before

\* The reply is an acknowledgement, it is sent (or has no target), or the turn fails or
\* its channel is not ready.
BeatEnds(c) ==
    /\ stage[c] = "turn" /\ Enters(c, "idle")
    /\ \/ /\ updatedAt' = RestoredUpdatedAt(updatedAt, previous[c])
          /\ cooling' = TRUE /\ UNCHANGED lastByUser
       \/ /\ lastByUser' = updatedAt /\ cooling' \in {TRUE, cooling}
          /\ UNCHANGED updatedAt
    /\ IF c = "wake" THEN TimerFinally ELSE UNCHANGED waker
    /\ UNCHANGED <<enabled, tasks, events, previous, owing, requests, faults>>

\* process.exit: wakes, events and turns are gone. A new process starts a runner.
ProcessEnds ==
    /\ handler' = TRUE /\ timer' = FALSE /\ scheduled' = FALSE /\ pending' = FALSE /\ running' = FALSE
    /\ enabled' = TRUE /\ cooling' = FALSE /\ tasks' = 0
    /\ stage' = [c \in Callers |-> "idle"]
    /\ queue' = <<>> /\ lastText' = NoText
    /\ owed' = FALSE /\ unheard' = {}
    /\ UNCHANGED <<entry, requests>>

\* What comes before the turn throws: the configuration, the session store, the health
\* check. For the cron service the job has failed. The timer throws the error on, out of
\* its callback: the retry it has just set up does not happen.
BeatThrows(c) ==
    /\ Fault
    /\ \/ /\ c = "cron" /\ stage[c] \in {"asking", "health"} /\ Enters(c, "idle")
          /\ UNCHANGED <<waker, enabled, cooling, tasks, events, entry, owing, requests>>
       \/ /\ c = "wake" /\ (stage[c] = "health" \/ (timer /\ handler /\ ~running))
          /\ ProcessEnds

--------------------------------------------------------------------------------
(* Other turns, the clock and the switches *)

\* A turn of the main session takes the events and saves the entry.
MainTurn ==
    /\ Asks /\ PromptTakesEvents
    /\ tasks' = tasks + 1
    /\ updatedAt' = updatedAt + 1 /\ lastByUser' = updatedAt'
    /\ UNCHANGED <<waker, enabled, cooling, stage, previous, owed, faults>>

\* A turn of another session shares the lane only.
OtherTurn ==
    /\ Asks /\ tasks' = tasks + 1
    /\ UNCHANGED <<waker, enabled, cooling, stage, events, entry, owing, faults>>

MainLaneTurnEnds ==
    /\ tasks > 0 /\ tasks' = tasks - 1
    /\ UNCHANGED <<waker, enabled, cooling, stage, events, entry, owing, requests, faults>>

CooldownEnds ==
    /\ cooling /\ cooling' = FALSE
    /\ UNCHANGED <<waker, enabled, stage, tasks, events, entry, owing, requests, faults>>

SetHeartbeatsEnabled ==
    /\ Fault /\ enabled' = ~enabled
    /\ UNCHANGED <<waker, cooling, stage, tasks, events, entry, owing, requests>>

\* The runner is stopped; a beat that is under way goes on.
StopRunner ==
    /\ handler /\ Fault /\ handler' = FALSE
    /\ UNCHANGED <<timer, scheduled, pending, running, enabled, cooling, stage, tasks, events, entry,
                   owing, requests>>

\* setHeartbeatWakeHandler sees to a reason that waited.
StartRunner ==
    /\ ~handler /\ handler' = TRUE
    /\ timer' = (timer \/ pending)
    /\ UNCHANGED <<scheduled, pending, running, enabled, cooling, stage, tasks, events, entry, owing,
                   requests, faults>>

WakeTimer == WakeWithoutHandler \/ WakeFires
Beat(c) == BeatTurn(c) \/ BeatEnds(c)

HeartbeatNext ==
    \/ Wake \/ (\E text \in Texts : WakeWithEvent(text))
    \/ WakeTimer \/ WakeWhileRunning \/ CronEnters \/ CronCalls
    \/ (\E c \in Callers : Beat(c) \/ BeatThrows(c))
    \/ MainTurn \/ OtherTurn \/ MainLaneTurnEnds \/ CooldownEnds
    \/ SetHeartbeatsEnabled \/ StopRunner \/ StartRunner

\* Timers fire and turns end.  Nobody has to ask again: the interval is a Wake.
HeartbeatSpec ==
    /\ HeartbeatInit /\ [][HeartbeatNext]_heartbeatVars
    /\ WF_heartbeatVars(WakeTimer) /\ WF_heartbeatVars(CronCalls) /\ WF_heartbeatVars(MainLaneTurnEnds)
    /\ \A c \in Callers : WF_heartbeatVars(Beat(c))

--------------------------------------------------------------------------------
(* Properties *)

HeartbeatTypeOK ==
    /\ {handler, timer, scheduled, pending, running, enabled, cooling, owed} \subseteq BOOLEAN
    /\ stage \in [Callers -> {"idle", "asking", "health", "turn"}]
    /\ tasks \in Nat /\ updatedAt \in Nat /\ previous \in [Callers -> Nat]
    /\ queue \in Seq(Texts) /\ Len(queue) <= MaxEvents /\ lastText \in Texts \cup {NoText}
    /\ unheard \subseteq Texts

\* A wake leads to a beat without anyone asking again, though it comes while a beat
\* runs, while the main lane is busy or while the runner is being replaced; it comes to
\* nothing only if heartbeats are off, the last beat is too recent, no runner is left, or
\* a beat throws, which ends the process and with it every wake that waits.
EveryWakeIsAnswered == (owed /\ handler) ~> (~owed \/ ~handler)


\* What docs/gateway/heartbeat.md says: a beat that is only acknowledged leaves the
\* entry's updatedAt as it was before, so that it does not keep the session alive.
AckKeepsNoSessionAlive ==
    (\A c \in Callers : stage[c] # "turn") => updatedAt = lastByUser

================================================================================
