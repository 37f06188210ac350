------------------------------- MODULE VoiceCall -------------------------------
(***************************************************************************)
(* The call manager of the voice-call extension (voice-call/src/manager.ts)*)
(* over a provider whose webhooks drive it.  Every record is an object     *)
(* that all callbacks share.  What awaits the provider - dialling, hanging *)
(* up, continueCall - finds the record in another state when it goes on.   *)
(* Webhooks come late, twice or not at all, and carry ids of their own, so *)
(* that a second delivery is not recognised.  The process may restart and  *)
(* loads the calls from the lines it wrote.                                *)
(***************************************************************************)
EXTENDS Naturals, Sequences, FiniteSets

CONSTANTS
    Inbound, Outbound,   \* calls at the provider
    Notify,              \* the outbound calls in notify mode
    Continues,           \* invocations of continueCall
    Parallel,            \* TRUE: continueCall runs more than once at a time for a call
    MaxConcurrentCalls,  \* config
    MaxFaults,           \* bound: deliveries that go wrong, failures and restarts
    MaxUnderWay,         \* bound: lines of a record that stay under way
    MaxHangUps,          \* bound: hang-ups of a call under way at once
    None

ASSUME CallsAssumption == Inbound \cap Outbound = {} /\ Notify \subseteq Outbound
ASSUME BoundsAssumption ==
    {MaxConcurrentCalls, MaxFaults, MaxUnderWay, MaxHangUps} \subseteq Nat

Calls == Inbound \cup Outbound
\* An inbound call that is reported after its end gets a second record.
Records == {[of |-> p, nr |-> n] : p \in Inbound, n \in 1..2} \cup
           {[of |-> p, nr |-> 1] : p \in Outbound}

\* The answer to a dialling names the request, the webhooks name the call.
RequestId(p) == [of |-> p, kind |-> "request"]
CallId(p) == [of |-> p, kind |-> "call"]
ProviderIds == [of : Calls, kind : {"request", "call"}]

VARIABLES
    call,        \* [Records -> the object, None before it exists]
    active,      \* activeCalls
    idMap,       \* providerCallIdMap
    maxTimers,   \* maxDurationTimers
    waiter,      \* transcriptWaiters, each with its timeout
    dialing, greeting,  \* records for which a promise of the provider is awaited
    hanging,     \* [Records -> 0..MaxHangUps]  hang-ups the provider was asked for
    notifyTimers,                \* records with a delayed hang-up
    continue,    \* [Continues -> what the invocation does]
    lines,       \* [Records -> its last line in calls.jsonl, and those under way]
    phone,       \* [Calls -> where the call is at the provider]
    \* history
    greeted,     \* [Records -> 0..2]  how often the first message was spoken
    over,        \* records that were taken out of activeCalls
    excused,     \* records continueCall wrote to after that, or of which a line was lost or
                 \* came into the file after the end
    faults, restarted, unheard   \* unheard: a hang-up failed

objects == <<call, active, idMap>>
awaited == <<dialing, hanging, greeting>>
timers == <<maxTimers, notifyTimers>>
talk == <<waiter, continue>>
history == <<greeted, over, excused, faults, restarted, unheard>>
vars == <<objects, awaited, timers, talk, lines, phone, history>>

StateOrder == <<"initiated", "ringing", "answered", "active", "speaking", "listening">>
TerminalStates == {"completed", "hangup-bot", "failed"}
CallStates == {StateOrder[k] : k \in DOMAIN StateOrder} \cup TerminalStates
Objects == [state : CallStates, id : ProviderIds \cup {None}, greet : BOOLEAN]
NoContinue == [stage |-> "new", on |-> None]
Stages == {"new", "speaking", "asking", "waiting", "settling", "done"}
ASSUME NoneAssumption == None \notin Objects \cup Records \cup ProviderIds
Phases == <<"new", "ringing", "answered", "hung up", "over">>

Nothing ==
    /\ call = [r \in Records |-> None] /\ active = {}
    /\ idMap = [i \in ProviderIds |-> None]
    /\ dialing = {} /\ hanging = [r \in Records |-> 0] /\ greeting = {}
    /\ maxTimers = {} /\ notifyTimers = {}
    /\ waiter = [r \in Records |-> None]
    /\ continue = [o \in Continues |-> NoContinue]
    /\ lines = [r \in Records |-> [last |-> None, flight |-> {}, strays |-> 0]]
    /\ greeted = [r \in Records |-> 0] /\ over = {} /\ excused = {}
    /\ faults = 0 /\ restarted = FALSE /\ unheard = FALSE

Init == Nothing /\ phone = [p \in Calls |-> 1]

Fault == faults < MaxFaults /\ faults' = faults + 1
Ended(c) == c.state \in TerminalStates

--------------------------------------------------------------------------------
(* What the operations share *)

Position(state) == CHOOSE k \in DOMAIN StateOrder : StateOrder[k] = state

\* transitionState: forward only, but speaking and listening alternate.
TransitionState(c, new) ==
    IF \/ c.state \notin TerminalStates /\ new \in TerminalStates
       \/ {c.state, new} = {"speaking", "listening"}
       \/ c.state \notin TerminalStates /\ new \notin TerminalStates
            /\ Position(new) > Position(c.state)
    THEN [c EXCEPT !.state = new] ELSE c

\* Fault: only the map is asked.
GetCallByProviderCallId_MapOnly(i) == IF idMap[i] \in active THEN idMap[i] ELSE None

\* The map first; without an entry, a search.
GetCallByProviderCallId(i) ==
    IF idMap[i] # None
    THEN IF idMap[i] \in active THEN idMap[i] ELSE None
    ELSE LET having == {r \in active : call[r].id = i}
         IN  IF having = {} THEN None ELSE CHOOSE r \in having : \A u \in having : r.nr <= u.nr

\* persistCallRecord: the appends are not awaited. Of the lines that a handler writes, c
\* behind the others (before), some are in the file before the next handler runs, some stay
\* under way (late).
PersistCallRecord(r, before, c) ==
    \E late \in SUBSET (before \cup {c}) :
        /\ lines[r].strays + Cardinality(late) <= MaxUnderWay
        /\ \E last \in IF c \notin late THEN {c}
                       ELSE IF before \subseteq late THEN {lines[r].last} ELSE before \ late :
              lines' = [lines EXCEPT ![r] = [last |-> last, flight |-> @.flight \cup late,
                                           strays |-> @.strays + Cardinality(late)]]

\* What a restart may find as the last line of r.
LastLines(r) == lines[r].flight \cup {lines[r].last}
EndIsWritten(r) == \E c \in LastLines(r) \ {None} : Ended(c)

\* A waiter that is rejected or replaced wakes its continueCall.
WakeWaiter(r, how) ==
    continue' = [o \in Continues |->
        IF waiter[r] = o THEN [continue[o] EXCEPT !.stage = how] ELSE continue[o]]

\* Fault: the end of a call does not reach the file.
Remembers_Nothing(r, before, c) == UNCHANGED lines

Remembers(r, before, c) == PersistCallRecord(r, before, c)

\* The clean-up of a call that ends: timer, waiter and both indices.
RemoveCall(r, c, map, created) ==
    /\ call' = [call EXCEPT ![r] = c]
    /\ active' = active \ {r} /\ over' = over \cup {r}
    /\ idMap' = [i \in ProviderIds |-> IF i = c.id THEN None ELSE map[i]]
    /\ maxTimers' = maxTimers \ {r}
    /\ WakeWaiter(r, "settling") /\ waiter' = [waiter EXCEPT ![r] = None]
    /\ Remembers(r, created, c)

\* Fault: the message is still there when it has been spoken.
AfterGreeting_Kept(c) == c

AfterGreeting(c) == [c EXCEPT !.greet = FALSE]

--------------------------------------------------------------------------------
(* Outbound calls *)

Dialed(p) == [of |-> p, nr |-> 1]

\* initiateCall up to its await.
InitiateCall(p) ==
    LET r == Dialed(p)
        c == [state |-> "initiated", id |-> None, greet |-> TRUE]
    IN  /\ call[r] = None /\ phone[p] = 1 /\ Cardinality(active) < MaxConcurrentCalls
        /\ call' = [call EXCEPT ![r] = c] /\ active' = active \cup {r}
        /\ PersistCallRecord(r, {}, c)
        /\ dialing' = dialing \cup {r}
        /\ UNCHANGED <<idMap, hanging, greeting, timers, talk, phone, history>>

\* The provider answers, perhaps after the first webhooks or after the end.
DialReturns(r) ==
    /\ r \in dialing
    /\ dialing' = dialing \ {r}
    /\ LET c == [call[r] EXCEPT !.id = RequestId(r.of)]
       IN  call' = [call EXCEPT ![r] = c] /\ PersistCallRecord(r, {}, c)
    /\ idMap' = [idMap EXCEPT ![RequestId(r.of)] = r]
    /\ UNCHANGED <<active, hanging, greeting, timers, talk, phone, history>>

DialFails(r) ==
    /\ r \in dialing /\ Fault
    /\ dialing' = dialing \ {r}
    /\ LET c == [call[r] EXCEPT !.state = "failed"]
       IN  call' = [call EXCEPT ![r] = c] /\ PersistCallRecord(r, {}, c)
    /\ active' = active \ {r} /\ over' = over \cup {r}
    /\ idMap' = [i \in ProviderIds |-> IF i = call[r].id THEN None ELSE idMap[i]]
    /\ UNCHANGED <<hanging, greeting, timers, talk, phone, greeted, excused, restarted, unheard>>

--------------------------------------------------------------------------------
(* Webhooks: processEvent *)

FindCall(p) ==
    IF p \in Outbound
    THEN IF Dialed(p) \in active THEN Dialed(p) ELSE None
    ELSE GetCallByProviderCallId(CallId(p))

Unused(p) == {r \in Records : r.of = p /\ call[r] = None}
CreateInboundCall(p) == CHOOSE r \in Unused(p) : \A u \in Unused(p) : r.nr <= u.nr

\* The provider's id moves from the request to the call.
UpgradedMap(r) ==
    LET i == CallId(r.of)
        old == IF call[r] = None THEN None ELSE call[r].id
    IN  IF old = i THEN idMap
        ELSE [k \in ProviderIds |->
                IF k = i THEN r ELSE IF k = old /\ idMap[k] = r THEN None ELSE idMap[k]]

Greet(r, c) == AfterGreeting([c EXCEPT !.state = "speaking"])

\* The first message is spoken as soon as the call is answered. A new record is written
\* when it is created (created), one that is greeted before it speaks.
ProcessAnswered(r, c, created) ==
    LET d == TransitionState(c, "answered")
        e == IF d.greet THEN Greet(r, d) ELSE d
    IN  /\ call' = [call EXCEPT ![r] = e]
        /\ PersistCallRecord(r, {[e EXCEPT !.state = d.state]} \cup created, e)
        /\ active' = active \cup {r} /\ idMap' = UpgradedMap(r)
        /\ maxTimers' = maxTimers \cup {r}
        /\ greeting' = IF d.greet THEN greeting \cup {r} ELSE greeting
        /\ greeted' = IF d.greet /\ greeted[r] < 2 THEN [greeted EXCEPT ![r] = @ + 1] ELSE greeted
        /\ UNCHANGED <<dialing, hanging, notifyTimers, talk, over>>

ProcessEnded(r, c, created) ==
    /\ RemoveCall(r, TransitionState(c, "completed"), UpgradedMap(r), created)
    /\ UNCHANGED <<awaited, notifyTimers, greeted>>

\* A final transcript wakes the continueCall that waits for it.
ProcessSpeech(r, c, created) ==
    LET d == TransitionState(c, "listening")
    IN  /\ call' = [call EXCEPT ![r] = d] /\ PersistCallRecord(r, created, d)
        /\ active' = active \cup {r} /\ idMap' = UpgradedMap(r)
        /\ WakeWaiter(r, "settling") /\ waiter' = [waiter EXCEPT ![r] = None]
        /\ UNCHANGED <<awaited, timers, greeted, over>>

ProcessRinging(r, c, created) ==
    LET d == TransitionState(c, "ringing")
    IN  /\ call' = [call EXCEPT ![r] = d] /\ PersistCallRecord(r, created, d)
        /\ active' = active \cup {r} /\ idMap' = UpgradedMap(r)
        /\ UNCHANGED <<awaited, timers, talk, greeted, over>>

\* When a second record is made the lines of the first are in the file: they take
\* milliseconds, and the provider repeats itself after seconds.
ProcessEvent(p, type) ==
    LET found == FindCall(p)
        r == IF found # None THEN found ELSE CreateInboundCall(p)
        c == IF found # None THEN [call[r] EXCEPT !.id = CallId(p)]
             ELSE [state |-> "ringing", id |-> CallId(p), greet |-> TRUE]
        created == IF found # None THEN {} ELSE {c}
    IN  IF found = None /\ (p \in Outbound \/ Unused(p) = {})
        THEN UNCHANGED <<objects, awaited, timers, talk, lines, greeted, over>>
        ELSE /\ found # None \/ \A q \in Records : q.of = p => lines[q].flight = {}
             /\ \/ type = "ringing" /\ ProcessRinging(r, c, created)
                \/ type = "answered" /\ ProcessAnswered(r, c, created)
                \/ type = "speech" /\ ProcessSpeech(r, c, created)
                \/ type = "over" /\ ProcessEnded(r, c, created)

Over == Len(Phases)
Exists(p) == p \in Inbound \/ call[Dialed(p)] # None

\* The call goes on at the provider, which reports it; people may hang up early.
PhoneMoves(p, n) ==
    /\ Exists(p) /\ phone[p] < n
    /\ n = Over \/ (n = phone[p] + 1 /\ n <= 3)
    /\ phone' = [phone EXCEPT ![p] = n]
    /\ ProcessEvent(p, Phases[n])
    /\ UNCHANGED <<excused, faults, restarted, unheard>>

Speech(p) ==
    /\ phone[p] = 3
    /\ ProcessEvent(p, "speech")
    /\ UNCHANGED <<phone, excused, faults, restarted, unheard>>

\* A webhook is lost, or delivered late or once more.
EventLost(p) ==
    /\ Exists(p) /\ Fault
    /\ \E n \in phone[p] + 1 .. Over : n # 4 /\ phone' = [phone EXCEPT ![p] = n]
    /\ UNCHANGED <<objects, awaited, timers, talk, lines, greeted, over, excused, restarted, unheard>>

EventAgain(p, n) ==
    /\ n \in {2, 3, Over} /\ n <= phone[p] /\ Fault
    /\ ProcessEvent(p, Phases[n])
    /\ UNCHANGED <<phone, excused, restarted, unheard>>

--------------------------------------------------------------------------------
(* speak, speakInitialMessage and endCall *)

Connected(r) == r \in active /\ call[r].id # None /\ ~Ended(call[r])

Speak(r) ==
    /\ Connected(r) /\ call[r].state # "speaking"
    /\ LET c == [call[r] EXCEPT !.state = "speaking"]
       IN  call' = [call EXCEPT ![r] = c] /\ PersistCallRecord(r, {}, c)
    /\ UNCHANGED <<active, idMap, awaited, timers, talk, phone, history>>

\* The first message was played; a notification hangs up after a delay.
GreetingPlayed(r) ==
    /\ r \in greeting
    /\ greeting' = greeting \ {r}
    /\ notifyTimers' = IF r.of \in Notify THEN notifyTimers \cup {r} ELSE notifyTimers
    /\ UNCHANGED <<objects, dialing, hanging, maxTimers, talk, lines, phone, history>>

GreetingFails(r) ==
    /\ r \in greeting /\ Fault
    /\ greeting' = greeting \ {r}
    /\ UNCHANGED <<objects, dialing, hanging, timers, talk, lines, phone, greeted, over, excused,
                   restarted, unheard>>

HangUp(r) ==
    hanging' = IF Connected(r) /\ hanging[r] < MaxHangUps
               THEN [hanging EXCEPT ![r] = @ + 1] ELSE hanging

\* endCall up to its await, for a caller.
EndCall(r) ==
    /\ Connected(r) /\ hanging[r] < MaxHangUps
    /\ HangUp(r)
    /\ UNCHANGED <<objects, dialing, greeting, timers, talk, lines, phone, history>>

\* Fault: the timer is armed only while the call is in state "answered".
StillOn_Answered(r) == call[r].state = "answered"

StillOn(r) == r \in active /\ ~Ended(call[r])

MaxDurationReached(r) ==
    /\ r \in maxTimers
    /\ maxTimers' = maxTimers \ {r}
    /\ IF StillOn(r) THEN HangUp(r) /\ PersistCallRecord(r, {}, call[r]) ELSE UNCHANGED <<hanging, lines>>
    /\ UNCHANGED <<objects, dialing, greeting, notifyTimers, talk, phone, history>>

NotifyDelayOver(r) ==
    /\ r \in notifyTimers
    /\ notifyTimers' = notifyTimers \ {r}
    /\ IF StillOn(r) THEN HangUp(r) ELSE UNCHANGED hanging
    /\ UNCHANGED <<objects, dialing, greeting, maxTimers, talk, lines, phone, history>>

\* The provider hung up: the record is ended whatever happened to it meanwhile.
HangupReturns(r) ==
    /\ hanging[r] > 0
    /\ hanging' = [hanging EXCEPT ![r] = @ - 1]
    /\ RemoveCall(r, [call[r] EXCEPT !.state = "hangup-bot"], idMap, {})
    /\ phone' = [phone EXCEPT ![r.of] = IF @ < 4 THEN 4 ELSE @]
    /\ UNCHANGED <<dialing, greeting, notifyTimers, greeted, excused, faults, restarted, unheard>>

HangupFails(r) ==
    /\ hanging[r] > 0 /\ Fault
    /\ hanging' = [hanging EXCEPT ![r] = @ - 1] /\ unheard' = TRUE
    /\ UNCHANGED <<objects, dialing, greeting, timers, talk, lines, phone, greeted, over, excused, restarted>>

--------------------------------------------------------------------------------
(* continueCall *)

At(o, stage) == continue[o].stage = stage
Moves(o, stage) == continue' = [continue EXCEPT ![o].stage = stage]

ContinueCall(o, r) ==
    /\ At(o, "new") /\ Connected(r)
    /\ Parallel \/ \A q \in Continues : continue[q].on = r => At(q, "done")
    /\ LET c == [call[r] EXCEPT !.state = "speaking"]
       IN  call' = [call EXCEPT ![r] = c] /\ PersistCallRecord(r, {}, c)
    /\ continue' = [continue EXCEPT ![o] = [stage |-> "speaking", on |-> r]]
    /\ UNCHANGED <<active, idMap, awaited, timers, waiter, phone, history>>

\* The prompt was spoken or not; the record goes to "listening" in any case.
PromptSpoken(o) ==
    LET r == continue[o].on
        c == [call[r] EXCEPT !.state = "listening"]
    IN  /\ At(o, "speaking") /\ Moves(o, "asking")
        /\ call' = [call EXCEPT ![r] = c] /\ PersistCallRecord(r, {}, c)
        /\ excused' = IF r \in over THEN excused \cup {r} ELSE excused
        /\ UNCHANGED <<active, idMap, awaited, timers, waiter, phone, greeted, over, faults,
                       restarted, unheard>>

\* waitForFinalTranscript: one waiter for each call, a second takes its place.
WaitForFinalTranscript(o) ==
    LET r == continue[o].on
    IN  /\ At(o, "asking")
        /\ continue' = [q \in Continues |->
               IF q = o THEN [continue[q] EXCEPT !.stage = "waiting"]
               ELSE IF waiter[r] = q THEN [continue[q] EXCEPT !.stage = "settling"]
               ELSE continue[q]]
        /\ waiter' = [waiter EXCEPT ![r] = o]
        /\ UNCHANGED <<objects, awaited, timers, lines, phone, history>>

ListeningFails(o) ==
    /\ At(o, "asking") /\ Fault
    /\ Moves(o, "settling")
    /\ UNCHANGED <<objects, awaited, timers, waiter, lines, phone, greeted, over, excused,
                   restarted, unheard>>

\* Fault: the timer is not set for a call that is no longer active.
TimeoutIsSet_WhileActive(o) == continue[o].on \in active

\* A waiter has its timeout whatever becomes of the call.
TimeoutIsSet(o) == TRUE

TranscriptTimesOut(o) ==
    /\ At(o, "waiting") /\ TimeoutIsSet(o) /\ waiter[continue[o].on] = o
    /\ waiter' = [waiter EXCEPT ![continue[o].on] = None]
    /\ Moves(o, "settling")
    /\ UNCHANGED <<objects, awaited, timers, lines, phone, history>>

\* The finally clause clears the waiter of the call, whosoever it is.
ContinueSettles(o) ==
    /\ At(o, "settling") /\ Moves(o, "done")
    /\ waiter' = [waiter EXCEPT ![continue[o].on] = None]
    /\ UNCHANGED <<objects, awaited, timers, lines, phone, history>>

--------------------------------------------------------------------------------
(* The file, and a restart: loadActiveCalls keeps the calls whose last line is not terminal *)

\* A line that was under way comes into the file, perhaps behind one written later.
LineLands(r) ==
    /\ \E c \in lines[r].flight :
          /\ lines' = [lines EXCEPT ![r].last = c, ![r].flight = @ \ {c}]
          /\ excused' = IF EndIsWritten(r) /\ ~Ended(c) THEN excused \cup {r} ELSE excused
    /\ UNCHANGED <<objects, awaited, timers, talk, phone, greeted, over, faults, restarted,
                   unheard>>

\* appendFile fails.
LineLost(r) ==
    /\ Fault
    /\ \E c \in lines[r].flight : lines' = [lines EXCEPT ![r].flight = @ \ {c}]
    /\ excused' = excused \cup {r}
    /\ UNCHANGED <<objects, awaited, timers, talk, phone, greeted, over, restarted, unheard>>

Late == {r \in Records : lines[r].flight # {}}

\* Of the lines under way some are in the file. A call that is not in it is forgotten.
Restart ==
    /\ Fault /\ restarted' = TRUE
    /\ \E landed \in [Late -> UNION {LastLines(r) : r \in Late}] :
          LET read == [r \in Records |-> IF r \in Late THEN landed[r] ELSE lines[r].last]
              live == {r \in Records : read[r] # None /\ read[r].state \notin TerminalStates}
          IN  /\ \A r \in Late : landed[r] \in LastLines(r)
              /\ active' = live
              /\ call' = [r \in Records |-> IF r \in live THEN read[r] ELSE call[r]]
              /\ idMap' = [i \in ProviderIds |->
                     LET having == {r \in live : read[r].id = i}
                     IN  IF having = {} THEN None
                         ELSE CHOOSE r \in having : \A u \in having : r.nr >= u.nr]
              /\ lines' = [r \in Records |->
                     [last |-> read[r], flight |-> {}, strays |-> lines[r].strays]]
              /\ over' = over \cup {r \in Records \ live : call[r] # None}
    /\ excused' = excused \cup Late
    /\ dialing' = {} /\ hanging' = [r \in Records |-> 0] /\ greeting' = {}
    /\ maxTimers' = {} /\ notifyTimers' = {}
    /\ waiter' = [r \in Records |-> None]
    /\ continue' = [o \in Continues |->
           IF At(o, "new") THEN continue[o] ELSE [continue[o] EXCEPT !.stage = "done"]]
    /\ UNCHANGED <<phone, greeted, unheard>>

Resumes(r) ==
    \/ DialReturns(r) \/ GreetingPlayed(r) \/ HangupReturns(r)
    \/ MaxDurationReached(r) \/ NotifyDelayOver(r)

ContinueGoesOn(o) ==
    PromptSpoken(o) \/ WaitForFinalTranscript(o) \/ TranscriptTimesOut(o) \/ ContinueSettles(o)

Next ==
    \/ \E p \in Outbound : InitiateCall(p)
    \/ \E p \in Calls : Speech(p) \/ EventLost(p) \/ \E n \in 2..Over : PhoneMoves(p, n) \/ EventAgain(p, n)
    \/ \E r \in Records :
          \/ Resumes(r) \/ Speak(r) \/ EndCall(r)
          \/ DialFails(r) \/ GreetingFails(r) \/ HangupFails(r)
          \/ LineLands(r) \/ LineLost(r)
          \/ \E o \in Continues : ContinueCall(o, r)
    \/ \E o \in Continues : ContinueGoesOn(o) \/ ListeningFails(o)
    \/ Restart

\* Timers fire and the provider answers every request, with a result or an error.
Fairness ==
    /\ \A r \in Records :
          /\ WF_vars(DialReturns(r)) /\ WF_vars(HangupReturns(r)) /\ WF_vars(GreetingPlayed(r))
          /\ WF_vars(MaxDurationReached(r)) /\ WF_vars(NotifyDelayOver(r))
    /\ \A o \in Continues : WF_vars(ContinueGoesOn(o))

Spec == Init /\ [][Next]_vars /\ Fairness

--------------------------------------------------------------------------------
(* Properties *)

TypeOK ==
    /\ call \in [Records -> Objects \cup {None}]
    /\ active \in SUBSET Records /\ idMap \in [ProviderIds -> Records \cup {None}]
    /\ {maxTimers, notifyTimers, dialing, greeting, over, excused} \subseteq SUBSET Records
    /\ hanging \in [Records -> 0..MaxHangUps]
    /\ waiter \in [Records -> Continues \cup {None}]
    /\ continue \in [Continues -> [stage : Stages, on : Records \cup {None}]]
    /\ lines \in [Records -> [last : Objects \cup {None}, flight : SUBSET Objects, strays : Nat]]
    /\ phone \in [Calls -> 1..Over] /\ greeted \in [Records -> 0..2]
    /\ faults \in 0..MaxFaults /\ {restarted, unheard} \subseteq BOOLEAN

\* The first message of a call is spoken once, however often the provider reports
\* that the call was answered; only a restart may forget that it was.
GreetedOnce == ~restarted => \A r \in Records : greeted[r] <= 1

\* An active call is found under the id that its record has, though an older record of
\* the same call takes its entry out of the map when its hang-up returns.
ActiveCallsAreFound ==
    \A r \in active \ over : call[r].id # None => GetCallByProviderCallId(call[r].id) = r

\* A call that is over is not active again, whatever comes late: webhooks, the answer to
\* the dialling, a hang-up, the rest of a continueCall. A restart brings it back only if a
\* line of it was lost or under way, or came into the file after that of the end, or if
\* continueCall wrote "listening" to the record after the end.
EndedStaysEnded == \A r \in active \cap over : restarted /\ r \in excused

\* A call that was answered ends when its time is up, whatever state it is in by
\* then; only a hang-up that fails or a restart can leave it open.
AnsweredCallsEnd ==
    \A r \in Records : (r \in maxTimers) ~> (r \notin active \/ unheard \/ restarted)

\* Every continueCall returns: with a transcript, because the call ended, or when the
\* time for the transcript is up.
EveryContinueReturns == \A o \in Continues : (~At(o, "new")) ~> At(o, "done")

================================================================================
