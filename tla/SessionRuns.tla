------------------------------ MODULE SessionRuns ------------------------------
(***************************************************************************)
(* How the agent runs of the sessions share the lanes, and what becomes of *)
(* the messages that arrive meanwhile.  A run waits in the lane of its     *)
(* session, then, holding it, in a global lane; during its prompt it is    *)
(* registered in ACTIVE_EMBEDDED_RUNS (agents/pi-embedded-runner).  A      *)
(* message that finds a run registered is steered into it or put in the    *)
(* followup queue (auto-reply/reply); the reply that ends drains the queue *)
(* with a run of its own.                                                  *)
(*                                                                         *)
(* The lanes are those of CommandQueue: a lane that has room and work      *)
(* starts before the code gets back to the event loop (NoStrandedWork), so *)
(* here nothing else happens while one has.                                *)
(***************************************************************************)
EXTENDS Integers, Sequences, FiniteSets

CONSTANTS
    Sessions,       \* session keys
    Replies,        \* inbound messages, each handled by one runReplyAgent call
    Directs,        \* runs of commands/agent.ts (gateway "agent" method)
    SessionOf,      \* [Replies \cup Directs -> Sessions]
    Modes,          \* the queue modes that messages resolve to
    Width,          \* agents.defaults.maxConcurrent
    TypingAwaits,   \* TRUE: runReplyAgent is called after awaiting the typing signal
    Deletable,      \* the sessions that sessions.delete is called for
    None            \* no run

\* The modes as the dispatch tells them apart: "followup" acts as "collect".
QueueModes == {"collect", "steer", "steer-backlog", "interrupt"}

ASSUME SessionOfAssumption == SessionOf \in [Replies \cup Directs -> Sessions]
ASSUME ModesAssumption == Modes \subseteq QueueModes
ASSUME WidthAssumption == Width \in Nat \ {0}
ASSUME SwitchAssumption == TypingAwaits \in BOOLEAN /\ Deletable \subseteq Sessions

VARIABLES
    phase,          \* where the run of each caller is
    sessionQueue,   \* [Sessions -> Seq(Callers)]  waiting in lane "session:<key>"
    globalQueue,    \* Seq(Callers)                waiting in the global lane
    registry,       \* [Sessions -> Callers or None]  ACTIVE_EMBEDDED_RUNS
    aborted,        \* the callers whose attempt was aborted and did not time out as well
    pc,             \* [Replies -> place in the handling of the message]
    saw,            \* [Replies -> what get-reply-run.ts read]
    pending,        \* [Sessions -> Seq(Replies)]  the followup queue
    batch,          \* [Sessions -> Seq(Replies)]  what the followup turn answers
    loop,           \* [Sessions -> state of the drain loop]
    deletion        \* [Sessions -> state of sessions.delete]

laneVars == <<phase, sessionQueue, globalQueue>>
replyVars == <<pc, saw>>
followVars == <<pending, batch, loop>>
vars == <<phase, sessionQueue, globalQueue, registry, aborted, pc, saw,
          pending, batch, loop, deletion>>

Turn(s) == <<"followup turn", s>>
Turns == {Turn(s) : s \in Sessions}
Callers == Replies \cup Directs \cup Turns
ASSUME CallersAssumption ==
    /\ None \notin Callers
    /\ Turns \cap (Replies \cup Directs) = {} /\ Replies \cap Directs = {}
KeyOf(c) == IF c \in Turns THEN c[2] ELSE SessionOf[c]

Phases == {"idle", "sessionWait", "globalWait", "starting", "active", "ending",
           "done", "lost"}
InAttempt == {"starting", "active", "ending"}
Holds(s) == {c \in Callers : KeyOf(c) = s /\ phase[c] \in InAttempt \cup {"globalWait"}}
\* Fault: a run that waits in the global lane counts as running there.
InGlobal_WithWaiting == {c \in Callers : phase[c] \in InAttempt \cup {"globalWait"}}
InGlobal == {c \in Callers : phase[c] \in InAttempt}

\* Fault: one task more than the limit.
SessionRoom_TwoAtOnce(s) == sessionQueue[s] # <<>> /\ Cardinality(Holds(s)) <= 1
SessionRoom(s) == sessionQueue[s] # <<>> /\ Holds(s) = {}
GlobalRoom == globalQueue # <<>> /\ Cardinality(InGlobal) < Width

\* The code is back on the event loop: the lanes have been pumped, and no
\* message is between reading the state and acting on it.
Yielded == /\ \A s \in Sessions : ~SessionRoom(s)
           /\ ~GlobalRoom
           /\ TypingAwaits \/ \A r \in Replies : pc[r] # "checked"

Deletions == {"none", "waiting", "saving", "deleted", "refused", "failed"}
NothingSeen == [mode |-> "collect", active |-> FALSE, streaming |-> FALSE]

Init ==
    /\ phase = [c \in Callers |-> "idle"]
    /\ sessionQueue = [s \in Sessions |-> <<>>] /\ globalQueue = <<>>
    /\ registry = [s \in Sessions |-> None] /\ aborted = {}
    /\ pc = [r \in Replies |-> "new"] /\ saw = [r \in Replies |-> NothingSeen]
    /\ pending = [s \in Sessions |-> <<>>] /\ batch = [s \in Sessions |-> <<>>]
    /\ loop = [s \in Sessions |-> "off"]
    /\ deletion = [s \in Sessions |-> "none"]

--------------------------------------------------------------------------------
(* The lanes *)

\* runEmbeddedPiAgent: wait in the lane of the session.
EnqueueRun(c) ==
    /\ phase' = [phase EXCEPT ![c] = "sessionWait"]
    /\ sessionQueue' = [sessionQueue EXCEPT ![KeyOf(c)] = Append(@, c)]
    /\ UNCHANGED globalQueue

\* The session lane starts its task, which enqueues in the global lane.
StartInSession(s) ==
    /\ SessionRoom(s)
    /\ phase' = [phase EXCEPT ![Head(sessionQueue[s])] = "globalWait"]
    /\ sessionQueue' = [sessionQueue EXCEPT ![s] = Tail(@)]
    /\ globalQueue' = Append(globalQueue, Head(sessionQueue[s]))
    /\ UNCHANGED <<registry, aborted, replyVars, followVars, deletion>>

StartInGlobal ==
    /\ GlobalRoom
    /\ phase' = [phase EXCEPT ![Head(globalQueue)] = "starting"]
    /\ globalQueue' = Tail(globalQueue)
    /\ UNCHANGED <<sessionQueue, registry, aborted, replyVars, followVars, deletion>>

\* clearCommandLane of the session: the promises of the runs that wait in it
\* are never settled, their callers wait for ever.
ClearLane(s) ==
    /\ phase' = [c \in Callers |->
                    IF KeyOf(c) = s /\ phase[c] = "sessionWait" THEN "lost" ELSE phase[c]]
    /\ sessionQueue' = [sessionQueue EXCEPT ![s] = <<>>]
    /\ UNCHANGED globalQueue

\* abortEmbeddedPiRun: the registered handle is aborted, if there is one.
AbortRun(s) == aborted' = aborted \cup ({registry[s]} \ {None})

--------------------------------------------------------------------------------
(* An attempt of a run *)

\* The session is loaded and locked: setActiveEmbeddedRun.
SetActive(c) ==
    /\ Yielded
    /\ phase[c] = "starting"
    /\ phase' = [phase EXCEPT ![c] = "active"]
    /\ registry' = [registry EXCEPT ![KeyOf(c)] = c]
    /\ UNCHANGED <<sessionQueue, globalQueue, aborted, replyVars, followVars, deletion>>

\* Fault: the handle stays registered.
EndPrompt_StaysRegistered(c) ==
    /\ Yielded
    /\ phase[c] = "active"
    /\ phase' = [phase EXCEPT ![c] = "ending"]
    /\ aborted' \in {aborted, aborted \ {c}}
    /\ deletion' = [deletion EXCEPT ![KeyOf(c)] = IF @ = "waiting" THEN "saving" ELSE @]
    /\ UNCHANGED <<sessionQueue, globalQueue, registry, replyVars, followVars>>

\* The prompt returns, fails, is aborted or times out, also when it was aborted
\* before: clearActiveEmbeddedRun, which tells the waiters of the session. A deletion
\* that waits goes on before the event loop does.
EndPrompt(c) ==
    /\ Yielded
    /\ phase[c] = "active"
    /\ phase' = [phase EXCEPT ![c] = "ending"]
    /\ IF registry[KeyOf(c)] = c
       THEN /\ registry' = [registry EXCEPT ![KeyOf(c)] = None]
            /\ deletion' = [deletion EXCEPT
                    ![KeyOf(c)] = IF @ = "waiting" THEN "saving" ELSE @]
       ELSE UNCHANGED <<registry, deletion>>
    /\ aborted' \in {aborted, aborted \ {c}}
    /\ UNCHANGED <<sessionQueue, globalQueue, replyVars, followVars>>

\* The next auth profile or thinking level is tried, unless the attempt was aborted
\* by anything but its timeout.
Retry(c) ==
    /\ Yielded
    /\ phase[c] = "ending" /\ c \notin aborted
    /\ phase' = [phase EXCEPT ![c] = "starting"]
    /\ UNCHANGED <<sessionQueue, globalQueue, registry, aborted, replyVars, followVars, deletion>>

\* The run returns or throws, after its prompt or before it, and leaves the lanes.
LeaveLanes(c) ==
    /\ Yielded
    /\ phase[c] \in {"starting", "ending"}
    /\ phase' = [phase EXCEPT ![c] = "done"]
    /\ aborted' = aborted \ {c}
    /\ UNCHANGED <<sessionQueue, globalQueue, registry, replyVars, followVars, deletion>>

--------------------------------------------------------------------------------
(* A message: get-reply-run.ts, then agent-runner.ts *)

\* Resolve the queue mode, interrupt if it says so, and read whether a run is
\* active and streams.
Check(r) ==
    LET s == SessionOf[r] IN
    /\ Yielded
    /\ pc[r] = "new"
    /\ pc' = [pc EXCEPT ![r] = "checked"]
    /\ \E m \in Modes, streams \in BOOLEAN :
          /\ streams => registry[s] # None
          /\ saw' = [saw EXCEPT ![r] = [mode |-> m, active |-> registry[s] # None,
                                        streaming |-> streams]]
          /\ IF m = "interrupt" /\ (sessionQueue[s] # <<>> \/ Holds(s) # {})
             THEN ClearLane(s) /\ AbortRun(s)
             ELSE UNCHANGED <<laneVars, aborted>>
    /\ UNCHANGED <<registry, followVars, deletion>>

CanDispatch(r) ==
    /\ \A s \in Sessions : ~SessionRoom(s)
    /\ ~GlobalRoom
    /\ pc[r] = "checked"

\* queueEmbeddedPiMessage: only a run that is registered now, streams and does not
\* compact takes the message.
Steer(r) ==
    /\ CanDispatch(r)
    /\ saw[r].mode = "steer" /\ saw[r].streaming
    /\ registry[SessionOf[r]] # None
    /\ pc' = [pc EXCEPT ![r] = "steered"]
    /\ UNCHANGED <<laneVars, registry, aborted, saw, followVars, deletion>>

\* Fault: the message that was queued is run as well.
QueueFollowup_RunsToo(r) ==
    /\ CanDispatch(r)
    /\ saw[r].active /\ saw[r].mode # "interrupt"
    /\ pc' = [pc EXCEPT ![r] = "running"]
    /\ pending' = [pending EXCEPT ![SessionOf[r]] = Append(@, r)]
    /\ EnqueueRun(r)
    /\ UNCHANGED <<registry, aborted, saw, batch, loop, deletion>>

\* enqueueFollowupRun, on what was read before the typing signal was sent.
QueueFollowup(r) ==
    /\ CanDispatch(r)
    /\ saw[r].active /\ saw[r].mode # "interrupt"
    /\ pc' = [pc EXCEPT ![r] = "queued"]
    /\ pending' = [pending EXCEPT ![SessionOf[r]] = Append(@, r)]
    /\ UNCHANGED <<laneVars, registry, aborted, saw, batch, loop, deletion>>

StartReply(r) ==
    /\ CanDispatch(r)
    /\ ~(saw[r].active /\ saw[r].mode # "interrupt")
    /\ pc' = [pc EXCEPT ![r] = "running"]
    /\ EnqueueRun(r)
    /\ UNCHANGED <<registry, aborted, saw, followVars, deletion>>

\* Fault: a reply that ends leaves the queue alone.
Schedule_Never(s) == UNCHANGED loop

\* scheduleFollowupDrain: start the loop if there is a queue and no loop.
Schedule(s) ==
    IF pending[s] # <<>> /\ loop[s] = "off"
    THEN loop' = [loop EXCEPT ![s] = "debounce"]
    ELSE UNCHANGED loop

\* The run of the reply has returned: finalizeWithFollowup.
Finalize(r) ==
    /\ Yielded
    /\ pc[r] = "running" /\ phase[r] = "done"
    /\ pc' = [pc EXCEPT ![r] = "answered"]
    /\ Schedule(SessionOf[r])
    /\ UNCHANGED <<laneVars, registry, aborted, saw, pending, batch, deletion>>

--------------------------------------------------------------------------------
(* The followup loop, with all that waits in one turn *)

StartTurn(s) ==
    /\ Yielded
    /\ loop[s] = "debounce"
    /\ loop' = [loop EXCEPT ![s] = "turn"]
    /\ batch' = [batch EXCEPT ![s] = pending[s]]
    /\ pending' = [pending EXCEPT ![s] = <<>>]
    /\ EnqueueRun(Turn(s))
    /\ UNCHANGED <<registry, aborted, replyVars, deletion>>

\* runFollowup returns, whether the run succeeded or failed: head of the loop.
EndTurn(s) ==
    /\ Yielded
    /\ loop[s] = "turn" /\ phase[Turn(s)] = "done"
    /\ phase' = [phase EXCEPT ![Turn(s)] = "idle"]
    /\ pc' = [r \in Replies |->
                IF \E i \in DOMAIN batch[s] : batch[s][i] = r THEN "answered" ELSE pc[r]]
    /\ batch' = [batch EXCEPT ![s] = <<>>]
    /\ loop' = [loop EXCEPT ![s] = IF pending[s] # <<>> THEN "debounce" ELSE "off"]
    /\ UNCHANGED <<sessionQueue, globalQueue, registry, aborted, saw, pending, deletion>>

--------------------------------------------------------------------------------
(* Runs that are not replies, and sessions.delete *)

StartDirect(d) ==
    /\ Yielded
    /\ phase[d] = "idle"
    /\ EnqueueRun(d)
    /\ UNCHANGED <<registry, aborted, replyVars, followVars, deletion>>

\* Fault: do not wait for the end of the run.
DeleteSession_AtOnce(s) ==
    /\ Yielded
    /\ s \in Deletable /\ deletion[s] = "none"
    /\ ClearLane(s)
    /\ AbortRun(s)
    /\ deletion' = [deletion EXCEPT ![s] = "saving"]
    /\ UNCHANGED <<registry, replyVars, followVars>>

\* Clear the lane; abort a registered run and wait for its end. Then the entry is
\* deleted and the store is written ("saving").
DeleteSession(s) ==
    /\ Yielded
    /\ s \in Deletable /\ deletion[s] = "none"
    /\ ClearLane(s)
    /\ AbortRun(s)
    /\ deletion' = [deletion EXCEPT ![s] = IF registry[s] = None THEN "saving" ELSE "waiting"]
    /\ UNCHANGED <<registry, replyVars, followVars>>

\* waitForEmbeddedPiRunEnd timed out: respond UNAVAILABLE.
DeleteTimesOut(s) ==
    /\ Yielded
    /\ deletion[s] = "waiting"
    /\ deletion' = [deletion EXCEPT ![s] = "refused"]
    /\ UNCHANGED <<laneVars, registry, aborted, replyVars, followVars>>

\* The store is written and the transcript archived, or the lock of the store is not to
\* be had in time. Messages come and runs start meanwhile.
FinishDeletion(s) ==
    /\ Yielded
    /\ deletion[s] = "saving"
    /\ deletion' \in {[deletion EXCEPT ![s] = result] : result \in {"deleted", "failed"}}
    /\ UNCHANGED <<laneVars, registry, aborted, replyVars, followVars>>

--------------------------------------------------------------------------------
LaneStep == StartInGlobal \/ \E s \in Sessions : StartInSession(s)
Dispatch(r) == Steer(r) \/ QueueFollowup(r) \/ StartReply(r)
RunAdvances(c) == SetActive(c) \/ EndPrompt(c) \/ LeaveLanes(c)
LoopAdvances(s) == StartTurn(s) \/ EndTurn(s)

Next ==
    \/ LaneStep
    \/ \E c \in Callers : RunAdvances(c) \/ Retry(c)
    \/ \E r \in Replies : Check(r) \/ Dispatch(r) \/ Finalize(r)
    \/ \E s \in Sessions : LoopAdvances(s)
    \/ \E s \in Sessions : DeleteSession(s) \/ DeleteTimesOut(s) \/ FinishDeletion(s)
    \/ \E d \in Directs : StartDirect(d)

SafetySpec == Init /\ [][Next]_vars

(***************************************************************************)
(* Lanes are pumped at once; a message that was read is acted on; a prompt *)
(* ends (a run has a timeout); the timers of the followup loop fire.  Weak *)
(* fairness is enough where only lane steps and pending messages, which    *)
(* are finitely many, take the event loop away.  A run leaves its lanes in *)
(* the end, for it has only so many auth profiles and thinking levels to   *)
(* try: strong fairness, as each Retry takes LeaveLanes away again.        *)
(***************************************************************************)
Spec ==
    /\ SafetySpec
    /\ WF_vars(LaneStep)
    /\ \A c \in Callers : WF_vars(SetActive(c) \/ EndPrompt(c)) /\ SF_vars(LeaveLanes(c))
    /\ \A r \in Replies : WF_vars(Dispatch(r) \/ Finalize(r))
    /\ \A s \in Sessions : WF_vars(LoopAdvances(s))

--------------------------------------------------------------------------------
(* Properties *)

\* Type correctness.
TypeOK ==
    /\ phase \in [Callers -> Phases]
    /\ sessionQueue \in [Sessions -> Seq(Callers)] /\ globalQueue \in Seq(Callers)
    /\ registry \in [Sessions -> Callers \cup {None}] /\ aborted \subseteq Callers
    /\ pc \in [Replies -> {"new", "checked", "steered", "queued", "running", "answered"}]
    /\ saw \in [Replies -> [mode : QueueModes, active : BOOLEAN, streaming : BOOLEAN]]
    /\ pending \in [Sessions -> Seq(Replies)] /\ batch \in [Sessions -> Seq(Replies)]
    /\ loop \in [Sessions -> {"off", "debounce", "turn"}]
    /\ deletion \in [Sessions -> Deletions]

\* At most one agent run touches a session at a time, through interrupts, retries,
\* deletions, direct runs and followup turns.
OneRunPerSession == \A c, d \in InGlobal : KeyOf(c) = KeyOf(d) => c = d

\* A handle is registered exactly while the prompt of its run goes on: a message
\* is never steered into a run that ended, nor an abort sent to one.
RegistryMatchesRuns ==
    \A s \in Sessions, c \in Callers :
        registry[s] = c <=> KeyOf(c) = s /\ phase[c] = "active"

\* A message in the followup queue is in it once, and is in one place only: it
\* waits, or the turn that answers it goes on.
FollowupsKept ==
    \A s \in Sessions :
        LET waits == {pending[s][i] : i \in DOMAIN pending[s]}
            taken == {batch[s][i] : i \in DOMAIN batch[s]}
        IN  /\ waits \cup taken = {r \in Replies : SessionOf[r] = s /\ pc[r] = "queued"}
            /\ Len(pending[s]) + Len(batch[s]) = Cardinality(waits \cup taken)
            /\ taken # {} <=> loop[s] = "turn"

\* sessions.delete takes a session out of the store only at a moment when the prompt of no
\* run of it goes on, whatever comes first, the end of the run or the timeout of the wait.
\* (When it answers, a message that came while the store was written may be in its prompt.)
DeletionWaits ==
    [][\A s \in Sessions : deletion[s] # "saving" /\ deletion'[s] = "saving"
            => \A c \in Callers : KeyOf(c) = s => phase'[c] # "active"]_vars

\* A message that was put in the followup queue is answered in the end.
EveryFollowupIsAnswered == \A r \in Replies : pc[r] = "queued" ~> pc[r] = "answered"

\* Every run that was started ends: the lanes are nested, and a run that holds its
\* session lane while it waits for the global one locks nobody out for ever.
EveryRunEnds == \A c \in Callers : phase[c] = "sessionWait" ~> phase[c] \in {"done", "lost"}
================================================================================
