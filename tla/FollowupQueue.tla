----------------------------- MODULE FollowupQueue -----------------------------
(***************************************************************************)
(* The followup queue of one session: the messages that arrive while an    *)
(* agent run is active (auto-reply/reply/queue/enqueue.ts, state.ts) and    *)
(* the loop that turns them into followup runs (drain.ts).  Before it gets *)
(* here, a message passes the cache of the messages that were seen lately  *)
(* (inbound-dedupe.ts).                                                    *)
(*                                                                         *)
(* The loop is asynchronous.  It gives way while it waits for the queue to *)
(* be quiet and while a followup run is under way; messages and new        *)
(* settings arrive in between, and the loop reads the queue again after.   *)
(***************************************************************************)
EXTENDS Integers, Sequences, FiniteSets

CONSTANTS
    Messages,       \* the inbound messages; a provider may deliver one twice
    Route,          \* [Messages -> Routes]  where each message came from
    Named,          \* the messages that carry a provider message id
    Places,         \* the routable channel, destination and account triples
    NumberThreads,  \* thread ids that are numbers (Telegram topics)
    TextThreads,    \* thread ids that are strings (Matrix thread events)
    Settings,       \* the settings a message may arrive with
    DedupeMode,     \* "message-id", "prompt" or "none"
    StableDrop,     \* TRUE: nobody leaves "summarize" with an overflow unreported
    Drains,         \* names for activations of the drain loop
    MaxArrivals     \* bound: how many messages arrive

NoPlace == "no place"       \* no channel, no destination, no account
Unroutable == "unroutable"  \* the internal channel, or no destination
NoThread == "no thread"

Routes == [place : Places \cup {NoPlace, Unroutable},
           thread : NumberThreads \cup TextThreads \cup {NoThread}]
QueueSettings == [mode : {"collect", "followup"},
                  cap : Nat \ {0}, drop : {"old", "new", "summarize"}]

ASSUME RouteAssumption == Route \in [Messages -> Routes]
ASSUME SettingsAssumption == Settings \subseteq QueueSettings
ASSUME NamedAssumption == Named \subseteq Messages
ASSUME BoundAssumption == MaxArrivals \in Nat
ASSUME PlacesAssumption == Places \cap {NoPlace, Unroutable} = {} /\ NoThread \notin NumberThreads

VARIABLES
    items,          \* Seq(arrival)   queue.items, by number of arrival
    dropped,        \* Nat            queue.droppedCount
    summaryLines,   \* Seq(arrival)   queue.summaryLines, by the message they tell of
    conf,           \* the mode, cap and drop policy the queue has now
    exists,         \* BOOLEAN        the queue is in FOLLOWUP_QUEUES
    draining,       \* BOOLEAN        queue.draining
    drain,          \* [Drains -> activation of the loop]
    log,            \* history: the message of each arrival
    fate,           \* history: what became of each arrival
    seen,           \* the messages in inboundDedupeCache
    forgotten       \* history: the messages it has dropped since they came

queueVars == <<items, dropped, summaryLines, conf, exists, draining>>
inbound == <<log, seen, forgotten>>
vars == <<items, dropped, summaryLines, conf, exists, draining, drain, fate, inbound>>

Arrivals == 1..MaxArrivals
Fates == {"skipped", "duplicate", "refused", "queued", "discarded", "overflow", "reported", "answered"}

NoTurn == [items |-> <<>>, reports |-> 0, route |-> [place |-> NoPlace, thread |-> NoThread]]
Off == [pc |-> "off", force |-> FALSE, turn |-> NoTurn]
Waiting(force) == [pc |-> "debounce", force |-> force, turn |-> NoTurn]
Running(force, turn) == [pc |-> "turn", force |-> force, turn |-> turn]

RouteOf(n) == Route[log[n]]
InItems(n) == \E i \in 1..Len(items) : items[i] = n
\* Fault: an overflow alone does not keep the loop going.
Backlog_ItemsOnly(its, count) == its # <<>>
Backlog(its, count) == its # <<>> \/ count > 0
Mark(f, S, what) == [n \in DOMAIN f |-> IF n \in S THEN what ELSE f[n]]

Init ==
    /\ items = <<>> /\ summaryLines = <<>> /\ dropped = 0
    /\ conf \in Settings
    /\ exists = FALSE /\ draining = FALSE
    /\ drain = [d \in Drains |-> Off]
    /\ log = <<>> /\ fate = <<>>
    /\ seen = {} /\ forgotten = {}

--------------------------------------------------------------------------------
(* A message arrives while a run of the session is active *)

\* shouldSkipDuplicateInbound: a message with an id passes if it was not seen lately.
Passes(m) == m \notin seen /\ seen' = seen \cup ({m} \cap Named)

SkipDuplicateInbound(m) ==
    /\ Len(log) < MaxArrivals /\ m \in seen
    /\ log' = Append(log, m) /\ fate' = Append(fate, "skipped")
    /\ UNCHANGED <<queueVars, drain, seen, forgotten>>

\* Twenty minutes are over, five thousand others came, or the process was restarted.
Forget(m) ==
    /\ m \in seen
    /\ seen' = seen \ {m} /\ forgotten' = forgotten \cup {m}
    /\ UNCHANGED <<queueVars, drain, log, fate>>

\* getFollowupQueue: the queue takes the settings the message arrived with.
Configure(s) ==
    /\ Len(log) < MaxArrivals
    /\ StableDrop /\ dropped > 0 => s.drop = "summarize"
    /\ conf' = s
    /\ exists' = TRUE

\* isRunAlreadyQueued: the same message, from the same place, waits already.
IsAlreadyQueued(m) ==
    /\ DedupeMode # "none"
    /\ m \in Named \/ DedupeMode = "prompt"
    /\ \E i \in 1..Len(items) : log[items[i]] = m

Skip(m, what) ==
    /\ log' = Append(log, m)
    /\ fate' = Append(fate, what)
    /\ UNCHANGED <<items, dropped, summaryLines, draining, drain>>

EnqueueDuplicate(m, s) ==
    /\ Configure(s)
    /\ IsAlreadyQueued(m)
    /\ Skip(m, "duplicate")

EnqueueRefused(m, s) ==
    /\ Configure(s)
    /\ ~IsAlreadyQueued(m)
    /\ Len(items) >= s.cap /\ s.drop = "new"
    /\ Skip(m, "refused")

Overflow(cap) == IF Len(items) >= cap THEN Len(items) - cap + 1 ELSE 0

\* The oldest messages make room, and under "summarize" are counted and told of.
EnqueueAccepted(m, s) ==
    LET over == Overflow(s.cap)
        out == SubSeq(items, 1, over)
        lines == summaryLines \o out
        excess == IF Len(lines) > s.cap THEN Len(lines) - s.cap ELSE 0
    IN
    /\ Configure(s)
    /\ ~IsAlreadyQueued(m)
    /\ over > 0 => s.drop # "new"
    /\ log' = Append(log, m)
    /\ items' = Append(SubSeq(items, over + 1, Len(items)), Len(log) + 1)
    /\ fate' = Append(Mark(fate, {out[i] : i \in 1..over},
                           IF s.drop = "summarize" THEN "overflow" ELSE "discarded"),
                      "queued")
    /\ IF over > 0 /\ s.drop = "summarize"
       THEN /\ dropped' = dropped + over
            /\ summaryLines' = SubSeq(lines, excess + 1, Len(lines))
       ELSE UNCHANGED <<dropped, summaryLines>>
    /\ UNCHANGED <<draining, drain>>

--------------------------------------------------------------------------------
(* The drain loop *)

\* Fault: the failed loop ends with the draining flag set and nobody scheduled.
Finally_StaysDraining(d, its, count) ==
    /\ drain' = [drain EXCEPT ![d] = Off]
    /\ IF Backlog(its, count) THEN UNCHANGED <<exists, draining>>
       ELSE exists' = FALSE /\ draining' = FALSE

\* The finally block: delete an empty queue, or schedule the next drain at once.
Finally(d, its, count) ==
    IF Backlog(its, count)
    THEN /\ drain' = [drain EXCEPT ![d] = Waiting(FALSE)]
         /\ UNCHANGED <<exists, draining>>
    ELSE /\ drain' = [drain EXCEPT ![d] = Off]
         /\ exists' = FALSE
         /\ draining' = FALSE

\* The head of the while loop.
LoopHead(d, force, its, count) ==
    IF Backlog(its, count)
    THEN /\ drain' = [drain EXCEPT ![d] = Waiting(force)]
         /\ UNCHANGED <<exists, draining>>
    ELSE Finally(d, its, count)

\* Fault: a second loop is started beside one that waits.
ScheduleFollowupDrain_Again(d) ==
    /\ exists /\ drain[d].pc = "off"
    /\ draining' = TRUE
    /\ drain' = [drain EXCEPT ![d] = Waiting(FALSE)]
    /\ UNCHANGED <<items, dropped, summaryLines, conf, exists, fate, inbound>>

\* scheduleFollowupDrain, called when a run of the session ends.
ScheduleFollowupDrain(d) ==
    /\ exists /\ ~draining
    /\ drain[d].pc = "off"
    /\ IF Backlog(items, dropped)
       THEN /\ draining' = TRUE
            /\ drain' = [drain EXCEPT ![d] = Waiting(FALSE)]
            /\ UNCHANGED exists
       ELSE exists' = FALSE /\ UNCHANGED <<draining, drain>>
    /\ UNCHANGED <<items, dropped, summaryLines, conf, fate, inbound>>

\* hasCrossChannelItems: the messages that wait cannot share one reply.
Unkeyed(r) == r.place = NoPlace /\ r.thread \notin NumberThreads
\* Fault: messages of two topics of one chat count as the same channel.
RoutingKey_NoThread(r) == <<r.place>>
RoutingKey(r) == <<r.place, IF r.thread \in NumberThreads THEN r.thread ELSE NoThread>>
HasCrossChannelItems ==
    LET routes == {RouteOf(items[i]) : i \in 1..Len(items)}
        keyed == {r \in routes : ~Unkeyed(r)}
    IN  \/ \E r \in keyed : r.place \notin Places
        \/ keyed # {} /\ keyed # routes
        \/ \E r, q \in keyed : RoutingKey(r) # RoutingKey(q)

\* The routing of a collected turn: the first place and the first numeric thread.
CollectedRoute ==
    LET placed == {i \in DOMAIN items : RouteOf(items[i]).place # NoPlace}
        threaded == {i \in DOMAIN items : RouteOf(items[i]).thread \in NumberThreads}
        First(S) == RouteOf(items[CHOOSE i \in S : \A j \in S : i <= j])
    IN  [place |-> IF placed = {} THEN NoPlace ELSE First(placed).place,
         thread |-> IF threaded = {} THEN NoThread ELSE First(threaded).thread]

\* buildSummaryPrompt: the count is reported and reset, under "summarize" only.
Summarizes == conf.drop = "summarize" /\ dropped > 0
\* Fault: the lines are reset, the count is not.
TakeSummary_KeepsCount(f) ==
    /\ summaryLines' = IF Summarizes THEN <<>> ELSE summaryLines
    /\ fate' = IF Summarizes THEN Mark(f, {n \in DOMAIN f : f[n] = "overflow"}, "reported")
               ELSE f
    /\ dropped' = dropped
TakeSummary(f) ==
    IF Summarizes
    THEN /\ dropped' = 0 /\ summaryLines' = <<>>
         /\ fate' = Mark(f, {n \in DOMAIN f : f[n] = "overflow"}, "reported")
    ELSE /\ fate' = f
         /\ UNCHANGED <<dropped, summaryLines>>
SummaryCount == IF Summarizes THEN dropped ELSE 0

\* Fault: pop() the newest message.
RunNext_Newest(d, force) ==
    LET n == items[Len(items)] IN
    /\ items # <<>>
    /\ items' = SubSeq(items, 1, Len(items) - 1)
    /\ fate' = Mark(fate, {n}, "answered")
    /\ drain' = [drain EXCEPT ![d] = Running(force,
                    [items |-> <<n>>, reports |-> 0, route |-> RouteOf(n)])]
    /\ UNCHANGED <<dropped, summaryLines, exists, draining>>

\* shift() the oldest message and run a followup turn for it alone.
RunNext(d, force) ==
    /\ items # <<>>
    /\ items' = Tail(items)
    /\ fate' = Mark(fate, {Head(items)}, "answered")
    /\ drain' = [drain EXCEPT ![d] = Running(force,
                    [items |-> <<Head(items)>>, reports |-> 0, route |-> RouteOf(Head(items))])]
    /\ UNCHANGED <<dropped, summaryLines, exists, draining>>

\* The queue was found empty after the wait: break out of the loop.
BreakOut(d) ==
    /\ items = <<>>
    /\ Finally(d, items, dropped)
    /\ UNCHANGED <<items, dropped, summaryLines, fate>>

\* Mode "collect": one by one once the batch was mixed, else all in one turn.
CollectOne(d) ==
    /\ conf.mode = "collect"
    /\ drain[d].force \/ HasCrossChannelItems
    /\ RunNext(d, TRUE) \/ BreakOut(d)

CollectAll(d) ==
    /\ conf.mode = "collect"
    /\ ~drain[d].force /\ ~HasCrossChannelItems
    /\ items' = <<>>
    /\ TakeSummary(Mark(fate, {items[i] : i \in 1..Len(items)}, "answered"))
    /\ drain' = [drain EXCEPT ![d] = Running(FALSE,
                    [items |-> items, reports |-> SummaryCount, route |-> CollectedRoute])]
    /\ UNCHANGED <<exists, draining>>

\* Other modes: a turn for the summary first, then one turn for each message.
RunSummary(d) ==
    /\ conf.mode # "collect"
    /\ Summarizes
    /\ TakeSummary(fate)
    /\ drain' = [drain EXCEPT ![d] =
                    Running(drain[d].force, [NoTurn EXCEPT !.reports = dropped])]
    /\ UNCHANGED <<items, exists, draining>>

RunOne(d) ==
    /\ conf.mode # "collect"
    /\ ~Summarizes
    /\ RunNext(d, drain[d].force) \/ BreakOut(d)

\* waitForQueueDebounce returns: the queue was quiet for long enough.
AfterDebounce(d) ==
    /\ drain[d].pc = "debounce"
    /\ CollectOne(d) \/ CollectAll(d) \/ RunSummary(d) \/ RunOne(d)
    /\ UNCHANGED <<conf, inbound>>

\* runFollowup returns (it swallows the errors of the agent run itself).
TurnEnds(d) ==
    /\ drain[d].pc = "turn"
    /\ LoopHead(d, drain[d].force, items, dropped)
    /\ UNCHANGED <<items, dropped, summaryLines, conf, fate, inbound>>

\* runFollowup throws (the reply could not be sent): the catch block logs it.
TurnThrows(d) ==
    /\ drain[d].pc = "turn"
    /\ Finally(d, items, dropped)
    /\ UNCHANGED <<items, dropped, summaryLines, conf, fate, inbound>>

--------------------------------------------------------------------------------
Enqueue(m) ==
    /\ Passes(m) /\ UNCHANGED forgotten
    /\ \E s \in Settings :
          EnqueueDuplicate(m, s) \/ EnqueueRefused(m, s) \/ EnqueueAccepted(m, s)
LoopRuns(d) == AfterDebounce(d) \/ TurnEnds(d) \/ TurnThrows(d)
Schedule == \E d \in Drains : ScheduleFollowupDrain(d)

Next ==
    \/ \E m \in Messages : Enqueue(m) \/ SkipDuplicateInbound(m) \/ Forget(m)
    \/ Schedule
    \/ \E d \in Drains : LoopRuns(d)

SafetySpec == Init /\ [][Next]_vars

(***************************************************************************)
(* The timer of the debounce fires, a followup run ends (it has a timeout) *)
(* and the run that was active when the message came ends and schedules.   *)
(***************************************************************************)
Spec == SafetySpec /\ WF_vars(Schedule) /\ \A d \in Drains : WF_vars(LoopRuns(d))

--------------------------------------------------------------------------------
(* Properties *)

Turn == [items : Seq(Arrivals), reports : Nat, route : Routes]

\* Type correctness of the queue, the activations of the loop and the history.
TypeOK ==
    /\ items \in Seq(Arrivals) /\ summaryLines \in Seq(Arrivals)
    /\ dropped \in Nat
    /\ conf \in Settings
    /\ exists \in BOOLEAN /\ draining \in BOOLEAN
    /\ drain \in [Drains -> [pc : {"off", "debounce", "turn"}, force : BOOLEAN, turn : Turn]]
    /\ log \in Seq(Messages) /\ fate \in Seq(Fates) /\ Len(log) = Len(fate)
    /\ seen \subseteq Messages /\ forgotten \subseteq Messages

\* Where the reply of a turn with this route goes: to the place and thread it
\* came from when the place is routable, else to the dispatcher of the session
\* (followup-runner.ts, sendFollowupPayloads).
Destination(r) == IF r.place \in Places THEN <<r.place, r.thread>> ELSE <<NoPlace, NoThread>>

\* Every message of a turn came from the place and thread its reply goes to:
\* neither collecting nor a change of mode between the reads sends one astray.
RepliesGoHome ==
    \A d \in Drains : drain[d].pc = "turn" =>
        \A i \in DOMAIN drain[d].turn.items :
            Destination(RouteOf(drain[d].turn.items[i])) = Destination(drain[d].turn.route)

\* No message is lost or counted twice: the messages that wait are the ones not
\* yet taken, in the order they came, and the overflow count and lines tell of
\* exactly the dropped messages no summary has reported.  A message with an id that
\* is delivered again is taken again only if the cache has forgotten it, and never
\* while the first copy waits; nothing else is skipped.
Accounting ==
    /\ {items[i] : i \in DOMAIN items} = {n \in DOMAIN fate : fate[n] = "queued"}
    /\ \A i, j \in DOMAIN items : i < j => items[i] < items[j]
    /\ dropped = Cardinality({n \in DOMAIN fate : fate[n] = "overflow"})
    /\ \A i \in DOMAIN summaryLines : fate[summaryLines[i]] = "overflow"
    /\ \A n \in DOMAIN log : fate[n] = "skipped" =>
          log[n] \in Named /\ \E k \in 1 .. n - 1 : log[k] = log[n]
    /\ \A n, k \in DOMAIN log :
          /\ n < k /\ log[n] = log[k] /\ log[n] \in Named
          /\ fate[k] \notin {"skipped", "duplicate", "refused"}
          => log[n] \in forgotten /\ (DedupeMode # "none" => fate[n] # "queued")

\* Two followup turns of a session never overlap: an end of run, or a reschedule
\* in the finally block, starts no second loop beside one that waits.
OneTurnAtATime ==
    /\ \A c, d \in Drains : drain[c].pc # "off" /\ drain[d].pc # "off" => c = d
    /\ draining <=> \E d \in Drains : drain[d].pc # "off"

\* Messages are answered in the order they came: none is taken past an older one
\* that keeps waiting.
AnsweredInOrder ==
    [][\A n, k \in DOMAIN fate :
          /\ fate'[n] = "answered" /\ fate[n] # "answered"
          /\ fate'[k] = "queued"
          => n < k]_vars

\* The overflow of a "summarize" queue is told to the agent in the end.
EveryDropIsReported ==
    \A n \in Arrivals : n \in DOMAIN fate /\ fate[n] = "overflow"
                            ~> n \in DOMAIN fate /\ fate[n] = "reported"

\* A message that waits is answered or dropped.
EveryQueuedIsTaken ==
    \A n \in Arrivals : n \in DOMAIN fate /\ fate[n] = "queued"
                            ~> n \in DOMAIN fate /\ fate[n] # "queued"
================================================================================
