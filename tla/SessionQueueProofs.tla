-------------------------- MODULE SessionQueueProofs ---------------------------
(***************************************************************************)
(* What waits for a turn of a session.  First the messages: what the       *)
(* followup queue of a session promises, for any messages, routes and      *)
(* settings and any number of arrivals: the queue is typed, turns do not   *)
(* overlap, no message is lost or counted twice, messages are answered in  *)
(* the order they came and, where threads are numbers, where they came     *)
(* from.                                                                   *)
(*                                                                         *)
(* Then the events, and the wakes of the heartbeat that takes them: no     *)
(* wake is forgotten and no event left behind, for any texts, limit of the *)
(* queue, requests and faults.  The two parts have their states and their  *)
(* theorems apart.                                                         *)
(***************************************************************************)
EXTENDS FollowupQueue, Heartbeat, SequenceTheorems, FiniteSetTheorems,
        NaturalsInduction, TLAPS

\* What waits are the arrivals whose fate is open, each once, the oldest first.
ItemsOK ==
    /\ \A i \in 1..Len(items) : items[i] \in 1..Len(fate) /\ fate[items[i]] = "queued"
    /\ \A n \in 1..Len(fate) : fate[n] = "queued" => InItems(n)
    /\ \A i, j \in 1..Len(items) : i < j => items[i] < items[j]

Overflown(f) == {n \in DOMAIN f : f[n] = "overflow"}

\* The count and the lines of the summary speak of dropped messages.
SummaryOK ==
    /\ dropped = Cardinality(Overflown(fate))
    /\ \A i \in 1..Len(summaryLines) :
          summaryLines[i] \in 1..Len(fate) /\ fate[summaryLines[i]] = "overflow"

\* The cache has messages with an id that came, and forgets none unseen.
SeenOK ==
    /\ \A m \in seen : m \in Named /\ \E k \in 1..Len(log) : log[k] = m
    /\ \A n \in 1..Len(log) : log[n] \in Named => log[n] \in seen \cup forgotten

SkippedOK ==
    \A n \in 1..Len(log) : fate[n] = "skipped" =>
        log[n] \in Named /\ \E k \in 1..(n - 1) : log[k] = log[n]

CopiesOK ==
    \A n, k \in 1..Len(log) :
        /\ n < k /\ log[n] = log[k] /\ log[n] \in Named
        /\ fate[k] \notin {"skipped", "duplicate", "refused"}
        => log[n] \in forgotten /\ (DedupeMode # "none" => fate[n] # "queued")

IInv == TypeOK /\ OneTurnAtATime /\ ItemsOK /\ SummaryOK /\ SeenOK /\ SkippedOK /\ CopiesOK

--------------------------------------------------------------------------------
(* Sequences, marks and routes *)

\* A set of positive numbers that is not empty has a least one.
LEMMA LeastExists ==
    ASSUME NEW S \in SUBSET Nat, S # {}
    PROVE  \E i \in S : \A j \in S : i <= j
<1>1. IsWellFoundedOn(OpToRel(<, Nat), Nat)
  BY NatLessThanWellFounded
<1>2. PICK i \in S : \A j \in S : ~(<<j, i>> \in OpToRel(<, Nat))
  BY <1>1, WFMin
<1>3. \A j \in S : ~(j < i)
  BY <1>2 DEF OpToRel
<1> QED
  BY <1>3

\* Marking keeps the length of a history and changes what is marked.
LEMMA MarkFacts ==
    ASSUME NEW f \in Seq(Fates), NEW S, NEW what \in Fates
    PROVE  /\ Mark(f, S, what) \in Seq(Fates)
           /\ Len(Mark(f, S, what)) = Len(f)
           /\ \A n \in 1..Len(f) : Mark(f, S, what)[n] = IF n \in S THEN what ELSE f[n]
<1>1. /\ DOMAIN f = 1..Len(f) /\ Len(f) \in Nat
      /\ \A n \in 1..Len(f) : f[n] \in Fates
  BY LenProperties, ElementOfSeq
<1>2. Mark(f, S, what) = [n \in 1..Len(f) |-> IF n \in S THEN what ELSE f[n]]
  BY <1>1 DEF Mark
<1>3. Mark(f, S, what) \in [1..Len(f) -> Fates]
  BY <1>1, <1>2
<1>4. Mark(f, S, what) \in Seq(Fates) /\ DOMAIN Mark(f, S, what) = 1..Len(f)
  BY <1>1, <1>3
<1> QED
  BY <1>1, <1>2, <1>4

\* The queue from its k-th place on.
LEMMA RestFacts ==
    ASSUME NEW S, NEW s \in Seq(S), NEW k \in 0..Len(s)
    PROVE  /\ SubSeq(s, k + 1, Len(s)) \in Seq(S)
           /\ Len(SubSeq(s, k + 1, Len(s))) = Len(s) - k
           /\ \A i \in 1..(Len(s) - k) : SubSeq(s, k + 1, Len(s))[i] = s[i + k]
           /\ SubSeq(s, 1, k) \in Seq(S)
           /\ Len(SubSeq(s, 1, k)) = k
           /\ \A i \in 1..k : SubSeq(s, 1, k)[i] = s[i]
  OBVIOUS

\* The routing of a collected turn is a route.
LEMMA CollectedRouteType ==
    ASSUME TypeOK, ItemsOK
    PROVE  CollectedRoute \in Routes
<1> DEFINE placed == {i \in DOMAIN items : RouteOf(items[i]).place # NoPlace}
           threaded == {i \in DOMAIN items : RouteOf(items[i]).thread \in NumberThreads}
           Least(S) == CHOOSE i \in S : \A j \in S : i <= j
<1>1. \A i \in DOMAIN items : i \in Nat /\ RouteOf(items[i]) \in Routes
  <2>1. DOMAIN items = 1..Len(items) /\ Len(items) \in Nat
    BY LenProperties DEF TypeOK
  <2>2. ASSUME NEW i \in 1..Len(items) PROVE log[items[i]] \in Messages
    BY <2>2, ElementOfSeq DEF TypeOK, ItemsOK
  <2> QED
    BY <2>1, <2>2, RouteAssumption DEF RouteOf
<1>2. \A S \in SUBSET DOMAIN items : S # {} => Least(S) \in S
  <2>1. SUFFICES ASSUME NEW S \in SUBSET DOMAIN items, S # {} PROVE Least(S) \in S
    OBVIOUS
  <2>2. S \in SUBSET Nat
    BY <1>1, <2>1
  <2>3. \E i \in S : \A j \in S : i <= j
    BY <2>1, <2>2, LeastExists
  <2> QED
    BY <2>3
<1>3. placed # {} => RouteOf(items[Least(placed)]) \in Routes
  BY <1>1, <1>2
<1>4. threaded # {} => RouteOf(items[Least(threaded)]) \in Routes
  BY <1>1, <1>2
<1>5. CollectedRoute =
        [place |-> IF placed = {} THEN NoPlace ELSE RouteOf(items[Least(placed)]).place,
         thread |-> IF threaded = {} THEN NoThread ELSE RouteOf(items[Least(threaded)]).thread]
  BY DEF CollectedRoute
<1> QED
  BY <1>3, <1>4, <1>5 DEF Routes

--------------------------------------------------------------------------------
(* What the loop does to the queue and to its own activation *)

TookNothing == UNCHANGED <<items, dropped, summaryLines, fate>>
TookOldest ==
    /\ items # <<>> /\ items' = Tail(items)
    /\ fate' = Mark(fate, {Head(items)}, "answered")
    /\ UNCHANGED <<dropped, summaryLines>>
TookAll ==
    /\ items' = <<>>
    /\ TakeSummary(Mark(fate, {items[i] : i \in 1..Len(items)}, "answered"))
TookSummary == UNCHANGED items /\ TakeSummary(fate)

\* A step of the loop takes the oldest message, all of them, the summary or nothing.
LEMMA LoopTakes ==
    ASSUME NEW d \in Drains, LoopRuns(d)
    PROVE  TookNothing \/ TookOldest \/ TookAll \/ TookSummary
<1>1. CASE TurnEnds(d) \/ TurnThrows(d)
  BY <1>1 DEF TurnEnds, TurnThrows, TookNothing
<1>2. CASE AfterDebounce(d)
  <2>1. ASSUME NEW force, RunNext(d, force) PROVE TookOldest
    BY <2>1 DEF RunNext, TookOldest
  <2>2. ASSUME BreakOut(d) PROVE TookNothing
    BY <2>2 DEF BreakOut, TookNothing
  <2>3. CASE CollectOne(d) \/ RunOne(d)
    BY <2>1, <2>2, <2>3 DEF CollectOne, RunOne
  <2>4. CASE CollectAll(d)
    BY <2>4 DEF CollectAll, TookAll
  <2>5. CASE RunSummary(d)
    BY <2>5 DEF RunSummary, TookSummary
  <2> QED
    BY <1>2, <2>3, <2>4, <2>5 DEF AfterDebounce
<1> QED
  BY <1>1, <1>2 DEF LoopRuns

Activations == [pc : {"off", "debounce", "turn"}, force : BOOLEAN, turn : Turn]

GoesOnWith(d, a) == drain' = [drain EXCEPT ![d] = a] /\ UNCHANGED draining
Stops(d) == drain' = [drain EXCEPT ![d] = Off] /\ draining' = FALSE

\* The turns that the loop starts are turns, and so are the other activations.
LEMMA ActivationTypes ==
    /\ NoTurn \in Turn
    /\ \A force \in BOOLEAN : Waiting(force) \in Activations
    /\ \A force \in BOOLEAN, t \in Turn : Running(force, t) \in Activations
    /\ Off \in Activations
<1>1. NoTurn \in Turn
  BY DEF NoTurn, Turn, Routes
<1> QED
  BY <1>1 DEF Waiting, Running, Off, Activations

\* A step of the loop belongs to an activation that is on, which goes on or stops
\* and clears the flag.
LEMMA LoopMoves ==
    ASSUME TypeOK, ItemsOK, NEW d \in Drains, LoopRuns(d)
    PROVE  /\ drain[d].pc # "off"
           /\ exists' \in BOOLEAN /\ conf' = conf /\ inbound' = inbound
           /\ \/ Stops(d)
              \/ \E a \in Activations : a.pc # "off" /\ GoesOnWith(d, a)
<1>1. drain[d] \in Activations /\ drain[d].force \in BOOLEAN
  BY DEF TypeOK, Activations
<1>2. ASSUME NEW its, NEW count, Finally(d, its, count)
      PROVE  /\ exists' \in BOOLEAN
             /\ Stops(d) \/ GoesOnWith(d, Waiting(FALSE))
  BY <1>2 DEF Finally, Stops, GoesOnWith, TypeOK
<1>3. ASSUME NEW its, NEW count, LoopHead(d, drain[d].force, its, count)
      PROVE  /\ exists' \in BOOLEAN
             /\ Stops(d) \/ GoesOnWith(d, Waiting(FALSE)) \/ GoesOnWith(d, Waiting(drain[d].force))
  BY <1>2, <1>3 DEF LoopHead, GoesOnWith, TypeOK
<1>4. \A force \in BOOLEAN : Waiting(force) \in Activations /\ Waiting(force).pc # "off"
  BY ActivationTypes DEF Waiting
<1>5. \A force \in BOOLEAN, t \in Turn :
         Running(force, t) \in Activations /\ Running(force, t).pc # "off"
  BY ActivationTypes DEF Running
<1>6. CASE TurnEnds(d)
  BY <1>1, <1>3, <1>4, <1>6 DEF TurnEnds, inbound
<1>7. CASE TurnThrows(d)
  BY <1>2, <1>4, <1>7 DEF TurnThrows, inbound
<1>8. CASE AfterDebounce(d)
  <2>1. drain[d].pc = "debounce" /\ conf' = conf /\ inbound' = inbound
    BY <1>8 DEF AfterDebounce
  <2>2. ASSUME NEW force \in BOOLEAN, RunNext(d, force)
        PROVE  /\ exists' \in BOOLEAN
               /\ \E t \in Turn : GoesOnWith(d, Running(force, t))
    <3>1. items # <<>> /\ Head(items) \in Arrivals /\ 1 \in 1..Len(items) /\ Head(items) = items[1]
      BY <2>2, HeadTailProperties DEF RunNext, TypeOK
    <3>2. RouteOf(Head(items)) \in Routes
      BY <3>1, RouteAssumption, ElementOfSeq DEF RouteOf, TypeOK, ItemsOK
    <3>3. [items |-> <<Head(items)>>, reports |-> 0, route |-> RouteOf(Head(items))] \in Turn
      BY <3>1, <3>2 DEF Turn
    <3> QED
      BY <2>2, <3>3 DEF RunNext, GoesOnWith, TypeOK
  <2>3. ASSUME BreakOut(d)
        PROVE  /\ exists' \in BOOLEAN
               /\ Stops(d) \/ GoesOnWith(d, Waiting(FALSE))
    BY <1>2, <2>3 DEF BreakOut
  <2>4. CASE CollectOne(d) \/ RunOne(d)
    BY <1>1, <1>4, <1>5, <2>1, <2>2, <2>3, <2>4 DEF CollectOne, RunOne
  <2>5. CASE CollectAll(d)
    <3>1. [items |-> items, reports |-> SummaryCount, route |-> CollectedRoute] \in Turn
      BY CollectedRouteType DEF Turn, SummaryCount, TypeOK
    <3> QED
      BY <1>5, <2>1, <2>5, <3>1 DEF CollectAll, GoesOnWith, TypeOK
  <2>6. CASE RunSummary(d)
    <3>1. [NoTurn EXCEPT !.reports = dropped] \in Turn
      BY ActivationTypes DEF Turn, TypeOK
    <3> QED
      BY <1>1, <1>5, <2>1, <2>6, <3>1 DEF RunSummary, GoesOnWith, TypeOK
  <2> QED
    BY <1>8, <2>4, <2>5, <2>6 DEF AfterDebounce
<1> QED
  BY <1>6, <1>7, <1>8 DEF LoopRuns

--------------------------------------------------------------------------------
(* What an arrival does *)

\* A message that comes in gets the next number and a fate.
Logs(m, f, what) == log' = Append(log, m) /\ fate' = Append(f, what)

\* The places in the history before an arrival and after it.
LEMMA LogFacts ==
    ASSUME TypeOK, NEW m \in Messages, NEW f \in Seq(Fates), NEW what \in Fates,
           Len(f) = Len(fate), Logs(m, f, what)
    PROVE  /\ log' \in Seq(Messages) /\ fate' \in Seq(Fates)
           /\ Len(log') = Len(log) + 1 /\ Len(fate') = Len(log) + 1
           /\ Len(log) \in Nat /\ Len(fate) = Len(log)
           /\ \A n \in 1..Len(log) : log'[n] = log[n] /\ fate'[n] = f[n]
           /\ log'[Len(log) + 1] = m /\ fate'[Len(log) + 1] = what
           /\ DOMAIN log' = 1..(Len(log) + 1) /\ DOMAIN fate' = 1..(Len(log) + 1)
<1>1. Len(log) \in Nat /\ Len(fate) = Len(log)
  BY LenProperties DEF TypeOK
<1>2. /\ log' \in Seq(Messages) /\ Len(log') = Len(log) + 1
      /\ \A n \in 1..Len(log) : log'[n] = log[n]
      /\ log'[Len(log) + 1] = m
  BY AppendProperties DEF Logs, TypeOK
<1>3. /\ fate' \in Seq(Fates) /\ Len(fate') = Len(f) + 1
      /\ \A n \in 1..Len(f) : fate'[n] = f[n]
      /\ fate'[Len(f) + 1] = what
  BY AppendProperties DEF Logs
<1> QED
  BY <1>1, <1>2, <1>3, LenProperties

Out(cap) == SubSeq(items, 1, Overflow(cap))
Kept(cap) == SubSeq(items, Overflow(cap) + 1, Len(items))

\* What is dropped and what is kept are the two ends of the queue.
LEMMA OverflowFacts ==
    ASSUME TypeOK, NEW cap \in Nat \ {0}
    PROVE  /\ Overflow(cap) \in 0..Len(items) /\ Len(items) \in Nat
           /\ Out(cap) \in Seq(Arrivals) /\ Len(Out(cap)) = Overflow(cap)
           /\ \A i \in 1..Overflow(cap) : Out(cap)[i] = items[i]
           /\ Kept(cap) \in Seq(Arrivals) /\ Len(Kept(cap)) = Len(items) - Overflow(cap)
           /\ \A i \in 1..(Len(items) - Overflow(cap)) : Kept(cap)[i] = items[i + Overflow(cap)]
<1>1. items \in Seq(Arrivals) /\ Len(items) \in Nat
  BY LenProperties DEF TypeOK
<1>2. Overflow(cap) \in 0..Len(items)
  BY <1>1 DEF Overflow
<1> QED
  BY <1>1, <1>2, RestFacts, SMTT(60) DEF Out, Kept

Dropped(m, s) ==
    Mark(fate, {Out(s.cap)[i] : i \in 1..Overflow(s.cap)},
         IF s.drop = "summarize" THEN "overflow" ELSE "discarded")

\* An arrival that is not taken changes the settings and the history only.
LEMMA NotTaken ==
    ASSUME TypeOK, NEW m \in Messages, NEW s \in Settings,
           EnqueueDuplicate(m, s) \/ EnqueueRefused(m, s)
    PROVE  /\ conf' = s /\ exists' = TRUE /\ Len(log) < MaxArrivals
           /\ UNCHANGED <<items, dropped, summaryLines, draining, drain>>
           /\ \E what \in {"duplicate", "refused"} : Logs(m, fate, what)
  BY DEF EnqueueDuplicate, EnqueueRefused, Configure, Skip, Logs

LEMMA Taken ==
    ASSUME TypeOK, NEW m \in Messages, NEW s \in Settings, EnqueueAccepted(m, s)
    PROVE  /\ conf' = s /\ exists' = TRUE /\ Len(log) < MaxArrivals
           /\ ~IsAlreadyQueued(m)
           /\ UNCHANGED <<draining, drain>>
           /\ items' = Append(Kept(s.cap), Len(log) + 1)
           /\ Logs(m, Dropped(m, s), "queued")
           /\ \/ /\ Overflow(s.cap) > 0 /\ s.drop = "summarize"
                 /\ dropped' = dropped + Overflow(s.cap)
                 /\ \E k \in Nat :
                       /\ k <= Len(summaryLines \o Out(s.cap))
                       /\ summaryLines' = SubSeq(summaryLines \o Out(s.cap), k + 1,
                                                Len(summaryLines \o Out(s.cap)))
              \/ /\ ~(Overflow(s.cap) > 0 /\ s.drop = "summarize")
                 /\ UNCHANGED <<dropped, summaryLines>>
<1>1. s.cap \in Nat \ {0}
  BY SettingsAssumption DEF QueueSettings
<1> DEFINE lines == summaryLines \o Out(s.cap)
           excess == IF Len(lines) > s.cap THEN Len(lines) - s.cap ELSE 0
<1>2. Len(lines) \in Nat
  BY <1>1, OverflowFacts, ConcatProperties, LenProperties DEF TypeOK
<1>3. excess \in Nat /\ excess <= Len(lines)
  BY <1>1, <1>2
<1>4. Overflow(s.cap) > 0 /\ s.drop = "summarize" =>
         dropped' = dropped + Overflow(s.cap) /\ summaryLines' = SubSeq(lines, excess + 1, Len(lines))
  BY DEF EnqueueAccepted, Out
<1>5. ~(Overflow(s.cap) > 0 /\ s.drop = "summarize") => UNCHANGED <<dropped, summaryLines>>
  BY DEF EnqueueAccepted
<1>6. /\ conf' = s /\ exists' = TRUE /\ Len(log) < MaxArrivals
      /\ ~IsAlreadyQueued(m)
      /\ UNCHANGED <<draining, drain>>
  BY DEF EnqueueAccepted, Configure
<1>7. items' = Append(Kept(s.cap), Len(log) + 1)
  BY DEF EnqueueAccepted, Kept
<1>8. Logs(m, Dropped(m, s), "queued")
  BY DEF EnqueueAccepted, Logs, Dropped, Out
<1> QED
  BY <1>3, <1>4, <1>5, <1>6, <1>7, <1>8

\* Dropping marks the oldest arrivals that wait.
LEMMA DroppedFacts ==
    ASSUME TypeOK, NEW m \in Messages, NEW s \in Settings
    PROVE  /\ s.cap \in Nat \ {0}
           /\ Dropped(m, s) \in Seq(Fates) /\ Len(Dropped(m, s)) = Len(fate)
           /\ \A n \in 1..Len(fate) : Dropped(m, s)[n] =
                 IF \E i \in 1..Overflow(s.cap) : items[i] = n
                 THEN IF s.drop = "summarize" THEN "overflow" ELSE "discarded"
                 ELSE fate[n]
<1>1. s.cap \in Nat \ {0}
  BY SettingsAssumption DEF QueueSettings
<1>2. \A i \in 1..Overflow(s.cap) : Out(s.cap)[i] = items[i]
  BY <1>1, OverflowFacts
<1>3. (IF s.drop = "summarize" THEN "overflow" ELSE "discarded") \in Fates
  BY DEF Fates
<1>4. fate \in Seq(Fates)
  BY DEF TypeOK
<1> DEFINE gone == {Out(s.cap)[i] : i \in 1..Overflow(s.cap)}
           what == IF s.drop = "summarize" THEN "overflow" ELSE "discarded"
<1>5. \A n : n \in gone <=> \E i \in 1..Overflow(s.cap) : items[i] = n
  BY <1>2
<1>6. Dropped(m, s) = Mark(fate, gone, what)
  BY DEF Dropped
<1>7. /\ Mark(fate, gone, what) \in Seq(Fates)
      /\ Len(Mark(fate, gone, what)) = Len(fate)
      /\ \A n \in 1..Len(fate) : Mark(fate, gone, what)[n] = IF n \in gone THEN what ELSE fate[n]
  BY <1>3, <1>4, MarkFacts
<1>8. \A n \in 1..Len(fate) : n \in gone => Dropped(m, s)[n] = what
  BY <1>6, <1>7
<1>9. \A n \in 1..Len(fate) : n \notin gone => Dropped(m, s)[n] = fate[n]
  BY <1>6, <1>7
<1>10. Dropped(m, s) \in Seq(Fates) /\ Len(Dropped(m, s)) = Len(fate)
  BY <1>6, <1>7
<1> HIDE DEF gone
<1> QED
  BY <1>1, <1>5, <1>8, <1>9, <1>10

--------------------------------------------------------------------------------
(* The step that each action takes *)

\* The parts of the state that the schedule and the cache change.
LEMMA ScheduleMoves ==
    ASSUME TypeOK, NEW d \in Drains, ScheduleFollowupDrain(d)
    PROVE  /\ UNCHANGED <<items, dropped, summaryLines, conf, fate, inbound>>
           /\ exists' \in BOOLEAN
           /\ \/ /\ ~draining /\ draining' = TRUE
                 /\ drain' = [drain EXCEPT ![d] = Waiting(FALSE)]
              \/ UNCHANGED <<drain, draining>>
  BY DEF ScheduleFollowupDrain, TypeOK

\* What a step of the loop leaves in the queue and the history.
LEMMA LoopHistory ==
    ASSUME TypeOK, NEW d \in Drains, LoopRuns(d)
    PROVE  /\ items' \in Seq(Arrivals) /\ summaryLines' \in Seq(Arrivals) /\ dropped' \in Nat
           /\ fate' \in Seq(Fates) /\ Len(fate') = Len(fate)
<1>1. /\ items \in Seq(Arrivals) /\ summaryLines \in Seq(Arrivals) /\ dropped \in Nat
      /\ fate \in Seq(Fates) /\ <<>> \in Seq(Arrivals)
  BY DEF TypeOK
<1>2. {"answered", "reported"} \subseteq Fates
  BY DEF Fates
<1>3. ASSUME NEW f \in Seq(Fates), TakeSummary(f)
      PROVE  /\ summaryLines' \in Seq(Arrivals) /\ dropped' \in Nat
             /\ fate' \in Seq(Fates) /\ Len(fate') = Len(f)
  <2>1. Len(Mark(f, {n \in DOMAIN f : f[n] = "overflow"}, "reported")) = Len(f)
    BY <1>2, MarkFacts
  <2>2. Mark(f, {n \in DOMAIN f : f[n] = "overflow"}, "reported") \in Seq(Fates)
    BY <1>2, MarkFacts
  <2>3. CASE Summarizes
    <3>1. /\ dropped' = 0 /\ summaryLines' = <<>>
          /\ fate' = Mark(f, {n \in DOMAIN f : f[n] = "overflow"}, "reported")
      BY <1>3, <2>3 DEF TakeSummary
    <3> QED
      BY <1>1, <2>1, <2>2, <3>1
  <2>4. CASE ~Summarizes
    <3>1. dropped' = dropped /\ summaryLines' = summaryLines /\ fate' = f
      BY <1>3, <2>4 DEF TakeSummary
    <3> QED
      BY <1>1, <3>1
  <2> QED
    BY <2>3, <2>4
<1>4. CASE TookNothing
  BY <1>1, <1>4 DEF TookNothing
<1>5. CASE TookOldest
  BY <1>1, <1>2, <1>5, MarkFacts, HeadTailProperties DEF TookOldest
<1>6. CASE TookAll
  <2> DEFINE f == Mark(fate, {items[i] : i \in 1..Len(items)}, "answered")
  <2>1. f \in Seq(Fates) /\ Len(f) = Len(fate)
    BY <1>1, <1>2, MarkFacts
  <2> QED
    BY <1>1, <1>3, <1>6, <2>1 DEF TookAll
<1>7. CASE TookSummary
  BY <1>1, <1>3, <1>7 DEF TookSummary
<1> QED
  BY <1>4, <1>5, <1>6, <1>7, LoopTakes

\* An arrival keeps the types.
LEMMA ArrivalTypes ==
    ASSUME TypeOK, NEW m \in Messages, Enqueue(m)
    PROVE  TypeOK'
<1>1. seen' \subseteq Messages /\ forgotten' \subseteq Messages
  BY NamedAssumption DEF Enqueue, Passes, TypeOK
<1>2. PICK s \in Settings :
          EnqueueDuplicate(m, s) \/ EnqueueRefused(m, s) \/ EnqueueAccepted(m, s)
  BY DEF Enqueue
<1>3. CASE EnqueueDuplicate(m, s) \/ EnqueueRefused(m, s)
  <2>1. PICK what \in {"duplicate", "refused"} : Logs(m, fate, what)
    BY <1>3, NotTaken
  <2>2. what \in Fates /\ fate \in Seq(Fates)
    BY DEF Fates, TypeOK
  <2>3. log' \in Seq(Messages) /\ fate' \in Seq(Fates) /\ Len(log') = Len(fate')
    BY <2>1, <2>2, LogFacts
  <2> QED
    BY <1>1, <1>3, <2>3, NotTaken DEF TypeOK
<1>4. CASE EnqueueAccepted(m, s)
  <2>1. s.cap \in Nat \ {0} /\ Dropped(m, s) \in Seq(Fates) /\ Len(Dropped(m, s)) = Len(fate)
    BY DroppedFacts
  <2>0. /\ Len(log) < MaxArrivals
        /\ dropped' \in {dropped, dropped + Overflow(s.cap)}
    BY <1>4, Taken
  <2>2. "queued" \in Fates
    BY DEF Fates
  <2>3. /\ log' \in Seq(Messages) /\ fate' \in Seq(Fates) /\ Len(log') = Len(fate')
        /\ Len(log) \in Nat
    BY <1>4, <2>1, <2>2, LogFacts, Taken
  <2>4. Len(log) + 1 \in Arrivals
    BY <2>0, <2>3, BoundAssumption DEF Arrivals
  <2>5. Kept(s.cap) \in Seq(Arrivals) /\ Out(s.cap) \in Seq(Arrivals) /\ Overflow(s.cap) \in Nat
    BY <2>1, OverflowFacts
  <2>6. items' \in Seq(Arrivals)
    <3>1. items' = Append(Kept(s.cap), Len(log) + 1)
      BY <1>4, Taken
    <3> QED
      BY <2>4, <2>5, <3>1, AppendProperties
  <2>7. dropped' \in Nat
    BY <2>0, <2>5 DEF TypeOK
  <2>8. summaryLines' \in Seq(Arrivals)
    <3> DEFINE lines == summaryLines \o Out(s.cap)
    <3>1. lines \in Seq(Arrivals)
      BY <2>5, ConcatProperties DEF TypeOK
    <3>2. \A k \in Nat : k <= Len(lines) => SubSeq(lines, k + 1, Len(lines)) \in Seq(Arrivals)
      BY <3>1, RestFacts
    <3>3. summaryLines \in Seq(Arrivals)
      BY DEF TypeOK
    <3> HIDE DEF lines
    <3> QED
      BY <1>4, <3>2, <3>3, Taken DEF lines
  <2> QED
    BY <1>1, <1>4, <2>3, <2>6, <2>7, <2>8, Taken DEF TypeOK
<1> QED
  BY <1>2, <1>3, <1>4

LEMMA TypeStep == TypeOK /\ ItemsOK /\ [Next]_vars => TypeOK'
<1> SUFFICES ASSUME TypeOK, ItemsOK, [Next]_vars PROVE TypeOK'
  OBVIOUS
<1>1. ASSUME NEW m \in Messages, Enqueue(m) PROVE TypeOK'
  BY <1>1, ArrivalTypes
<1>2. ASSUME NEW m \in Messages, SkipDuplicateInbound(m) PROVE TypeOK'
  <2>1. Logs(m, fate, "skipped") /\ fate \in Seq(Fates) /\ "skipped" \in Fates
    BY <1>2 DEF SkipDuplicateInbound, Logs, TypeOK, Fates
  <2>2. log' \in Seq(Messages) /\ fate' \in Seq(Fates) /\ Len(log') = Len(fate')
    BY <2>1, LogFacts
  <2> QED
    BY <1>2, <2>2 DEF SkipDuplicateInbound, queueVars, TypeOK
<1>3. ASSUME NEW m \in Messages, Forget(m) PROVE TypeOK'
  BY <1>3 DEF Forget, queueVars, TypeOK
<1>4. ASSUME NEW d \in Drains, ScheduleFollowupDrain(d) PROVE TypeOK'
  <2>1. Waiting(FALSE) \in Activations
    BY ActivationTypes
  <2>2. drain' \in [Drains -> Activations] /\ draining' \in BOOLEAN
    BY <1>4, <2>1, ScheduleMoves DEF TypeOK, Activations
  <2> QED
    BY <1>4, <2>2, ScheduleMoves DEF TypeOK, inbound, Activations
<1>5. ASSUME NEW d \in Drains, LoopRuns(d) PROVE TypeOK'
  <2>1. drain \in [Drains -> Activations]
    BY DEF TypeOK, Activations
  <2>2. drain' \in [Drains -> Activations] /\ draining' \in BOOLEAN
    BY <1>5, <2>1, LoopMoves, ActivationTypes DEF Stops, GoesOnWith, TypeOK
  <2> QED
    BY <1>5, <2>2, LoopMoves, LoopHistory DEF TypeOK, inbound, Activations
<1>6. CASE UNCHANGED vars
  BY <1>6 DEF vars, inbound, TypeOK
<1> QED
  BY <1>1, <1>2, <1>3, <1>4, <1>5, <1>6 DEF Next, Schedule

LEMMA TurnsStep == TypeOK /\ ItemsOK /\ OneTurnAtATime /\ [Next]_vars => OneTurnAtATime'
<1> SUFFICES ASSUME TypeOK, ItemsOK, OneTurnAtATime, [Next]_vars PROVE OneTurnAtATime'
  OBVIOUS
<1>1. drain \in [Drains -> Activations] /\ draining \in BOOLEAN
  BY DEF TypeOK, Activations
<1>2. ASSUME UNCHANGED <<drain, draining>> PROVE OneTurnAtATime'
  BY <1>2 DEF OneTurnAtATime
<1>3. ASSUME NEW m \in Messages, Enqueue(m) \/ SkipDuplicateInbound(m) \/ Forget(m)
      PROVE  UNCHANGED <<drain, draining>>
  BY <1>3, NotTaken, Taken DEF Enqueue, SkipDuplicateInbound, Forget, queueVars
<1>4. ASSUME NEW d \in Drains, ScheduleFollowupDrain(d) PROVE OneTurnAtATime'
  <2>1. CASE UNCHANGED <<drain, draining>>
    BY <1>2, <2>1
  <2>2. CASE ~draining /\ draining' = TRUE /\ drain' = [drain EXCEPT ![d] = Waiting(FALSE)]
    <3>1. \A c \in Drains : drain[c].pc = "off"
      BY <2>2 DEF OneTurnAtATime
    <3>2. \A c \in Drains \ {d} : drain'[c].pc = "off"
      BY <1>1, <2>2, <3>1
    <3>3. drain'[d].pc # "off"
      BY <1>1, <2>2 DEF Waiting
    <3> QED
      BY <2>2, <3>2, <3>3 DEF OneTurnAtATime
  <2> QED
    BY <1>4, <2>1, <2>2, ScheduleMoves
<1>5. ASSUME NEW d \in Drains, LoopRuns(d) PROVE OneTurnAtATime'
  <2>1. /\ drain[d].pc # "off"
        /\ Stops(d) \/ \E a \in Activations : a.pc # "off" /\ GoesOnWith(d, a)
    BY <1>5, LoopMoves
  <2>2. draining /\ \A c \in Drains \ {d} : drain[c].pc = "off"
    BY <2>1 DEF OneTurnAtATime
  <2>3. CASE Stops(d)
    <3>1. draining' = FALSE /\ \A c \in Drains : drain'[c].pc = "off"
      BY <1>1, <2>2, <2>3 DEF Stops, Off
    <3> QED
      BY <3>1 DEF OneTurnAtATime
  <2>4. ASSUME NEW a \in Activations, a.pc # "off", GoesOnWith(d, a) PROVE OneTurnAtATime'
    <3>1. draining' /\ drain'[d].pc # "off" /\ \A c \in Drains \ {d} : drain'[c].pc = "off"
      BY <1>1, <2>2, <2>4 DEF GoesOnWith
    <3> QED
      BY <3>1 DEF OneTurnAtATime
  <2> QED
    BY <2>1, <2>3, <2>4
<1> QED
  BY <1>2, <1>3, <1>4, <1>5 DEF Next, Schedule, vars

--------------------------------------------------------------------------------
(* The queue holds what is open *)

\* Nothing but the marked ones changes in an old part of the history.
Ages(f, g) ==
    \A n \in 1..Len(f) :
        \/ g[n] = f[n]
        \/ f[n] = "queued" /\ g[n] \in {"answered", "overflow", "discarded"}
        \/ f[n] = "overflow" /\ g[n] = "reported"

\* The queue of an arrival that is taken.
LEMMA TakenItems ==
    ASSUME TypeOK, ItemsOK, NEW m \in Messages, NEW s \in Settings, EnqueueAccepted(m, s)
    PROVE  ItemsOK'
<1> DEFINE o == Overflow(s.cap)
           n0 == Len(log)
           k == Kept(s.cap)
<1>1. /\ s.cap \in Nat \ {0} /\ Dropped(m, s) \in Seq(Fates) /\ Len(Dropped(m, s)) = Len(fate)
      /\ \A n \in 1..Len(fate) : Dropped(m, s)[n] =
            IF \E i \in 1..o : items[i] = n
            THEN IF s.drop = "summarize" THEN "overflow" ELSE "discarded"
            ELSE fate[n]
  BY DroppedFacts
<1>2. /\ o \in 0..Len(items) /\ Len(items) \in Nat
      /\ k \in Seq(Arrivals) /\ Len(k) = Len(items) - o
      /\ \A i \in 1..(Len(items) - o) : k[i] = items[i + o]
  BY <1>1, OverflowFacts
<1>3. /\ Logs(m, Dropped(m, s), "queued") /\ items' = Append(k, n0 + 1)
      /\ n0 < MaxArrivals
  BY Taken
<1>4. /\ n0 \in Nat /\ Len(fate) = n0 /\ Len(fate') = n0 + 1
      /\ \A n \in 1..n0 : fate'[n] = Dropped(m, s)[n]
      /\ fate'[n0 + 1] = "queued"
  <2>1. "queued" \in Fates
    BY DEF Fates
  <2> QED
    BY <1>1, <1>3, <2>1, LogFacts
<1>5. n0 + 1 \in Arrivals
  BY <1>3, <1>4, BoundAssumption DEF Arrivals
<1> HIDE DEF o, n0, k
<1>6. /\ Len(items') = Len(k) + 1 /\ items'[Len(k) + 1] = n0 + 1
      /\ \A i \in 1..Len(k) : items'[i] = k[i]
  BY <1>2, <1>3, <1>5, AppendProperties
<1>7. \A i \in 1..Len(k) :
          /\ i + o \in 1..Len(items) /\ k[i] = items[i + o]
          /\ k[i] \in 1..n0 /\ fate[k[i]] = "queued"
          /\ ~\E j \in 1..o : items[j] = k[i]
  <2> SUFFICES ASSUME NEW i \in 1..Len(k)
               PROVE  /\ i + o \in 1..Len(items) /\ k[i] = items[i + o]
                      /\ k[i] \in 1..n0 /\ fate[k[i]] = "queued"
                      /\ ~\E j \in 1..o : items[j] = k[i]
    OBVIOUS
  <2>1. i + o \in 1..Len(items) /\ k[i] = items[i + o]
    BY <1>2
  <2>2. k[i] \in 1..n0 /\ fate[k[i]] = "queued"
    BY <1>4, <2>1 DEF ItemsOK
  <2>3. ASSUME NEW j \in 1..o PROVE items[j] # k[i]
    <3>1. j \in 1..Len(items) /\ j < i + o
      BY <1>2
    <3>2. items[j] < items[i + o] /\ items[j] \in Int /\ items[i + o] \in Int
      BY <2>1, <3>1 DEF ItemsOK
    <3> QED
      BY <2>1, <3>2
  <2> QED
    BY <2>1, <2>2, <2>3
<1>8. \A i \in 1..Len(items') : items'[i] \in 1..Len(fate') /\ fate'[items'[i]] = "queued"
  <2>1. \A i \in 1..Len(k) : fate'[k[i]] = "queued"
    BY <1>1, <1>4, <1>7
  <2>2. \A i \in 1..Len(items') : i \in 1..Len(k) \/ i = Len(k) + 1
    BY <1>2, <1>6
  <2> SUFFICES ASSUME NEW i \in 1..Len(items')
               PROVE  items'[i] \in 1..Len(fate') /\ fate'[items'[i]] = "queued"
    OBVIOUS
  <2>3. CASE i \in 1..Len(k)
    BY <1>4, <1>6, <1>7, <2>1, <2>3
  <2>4. CASE i = Len(k) + 1
    BY <1>4, <1>6, <2>4
  <2> QED
    BY <2>2, <2>3, <2>4
<1>9. \A n \in 1..Len(fate') : fate'[n] = "queued" => InItems(n)'
  <2> SUFFICES ASSUME NEW n \in 1..Len(fate'), fate'[n] = "queued"
               PROVE  \E i \in 1..Len(items') : items'[i] = n
    BY DEF InItems
  <2>1. CASE n = n0 + 1
    BY <1>2, <1>6, <2>1
  <2>2. CASE n \in 1..n0
    <3>1. fate[n] = "queued" /\ ~\E j \in 1..o : items[j] = n
      BY <1>1, <1>4, <2>2
    <3>2. PICK j \in 1..Len(items) : items[j] = n
      BY <1>4, <2>2, <3>1 DEF ItemsOK, InItems
    <3>3. j - o \in 1..Len(k) /\ j = (j - o) + o
      BY <1>2, <3>1, <3>2
    <3>4. items'[j - o] = n /\ j - o \in 1..Len(items')
      BY <1>2, <1>6, <1>7, <3>2, <3>3
    <3> QED
      BY <3>4
  <2> QED
    BY <1>4, <2>1, <2>2
<1>10. \A i, j \in 1..Len(items') : i < j => items'[i] < items'[j]
  <2> SUFFICES ASSUME NEW i \in 1..Len(items'), NEW j \in 1..Len(items'), i < j
               PROVE  items'[i] < items'[j]
    OBVIOUS
  <2>0. Len(k) \in Nat /\ Len(items') = Len(k) + 1
    BY <1>2, <1>6
  <2>1. i \in 1..Len(k) /\ (j \in 1..Len(k) \/ j = Len(k) + 1)
    BY <2>0
  <2>2. CASE j = Len(k) + 1
    <3>1. items'[j] = n0 + 1
      BY <1>6, <2>2
    <3>2. items'[i] = k[i] /\ k[i] \in 1..n0
      BY <1>6, <1>7, <2>1
    <3>3. n0 \in Nat
      BY <1>4
    <3> QED
      BY <3>1, <3>2, <3>3
  <2>3. CASE j \in 1..Len(k)
    <3>1. i + o < j + o /\ i + o \in 1..Len(items) /\ j + o \in 1..Len(items)
      BY <1>2, <1>7, <2>1, <2>3
    <3>2. items[i + o] < items[j + o]
      BY <3>1 DEF ItemsOK
    <3> QED
      BY <1>6, <1>7, <2>1, <2>3, <3>2
  <2> QED
    BY <2>1, <2>2, <2>3
<1> QED
  BY <1>8, <1>9, <1>10 DEF ItemsOK

\* Another arrival, that is not taken.
LEMMA NotTakenItems ==
    ASSUME TypeOK, ItemsOK, NEW m \in Messages, NEW what \in Fates \ {"queued"},
           Logs(m, fate, what), items' = items
    PROVE  ItemsOK'
<1>1. /\ Len(log) \in Nat /\ Len(fate) = Len(log) /\ Len(fate') = Len(log) + 1
      /\ \A n \in 1..Len(log) : fate'[n] = fate[n]
      /\ fate'[Len(log) + 1] = what
  <2>1. fate \in Seq(Fates)
    BY DEF TypeOK
  <2> QED
    BY <2>1, LogFacts
<1>2. \A i \in 1..Len(items) : items[i] \in 1..Len(fate') /\ fate'[items[i]] = "queued"
  BY <1>1 DEF ItemsOK
<1>3. ASSUME NEW n \in 1..Len(fate'), fate'[n] = "queued" PROVE InItems(n)
  <2>1. n \in 1..Len(fate)
    BY <1>1, <1>3
  <2> QED
    BY <1>1, <1>3, <2>1 DEF ItemsOK
<1> QED
  BY <1>2, <1>3 DEF ItemsOK, InItems

\* A step of the loop takes from the queue what it closes in the history.
LEMMA LoopItems ==
    ASSUME TypeOK, ItemsOK, NEW d \in Drains, LoopRuns(d)
    PROVE  ItemsOK' /\ Ages(fate, fate')
<1>1. /\ items \in Seq(Arrivals) /\ fate \in Seq(Fates)
      /\ Len(items) \in Nat /\ Len(fate) \in Nat
  BY LenProperties DEF TypeOK
<1>2. {"answered", "reported"} \subseteq Fates
  BY DEF Fates
\* A summary closes dropped messages, not the ones that wait.
<1>3. ASSUME NEW f \in Seq(Fates), TakeSummary(f)
      PROVE  /\ Len(fate') = Len(f)
             /\ \A n \in 1..Len(f) :
                   fate'[n] = f[n] \/ (f[n] = "overflow" /\ fate'[n] = "reported")
  <2> DEFINE M == Mark(f, {n \in DOMAIN f : f[n] = "overflow"}, "reported")
  <2>1. Len(M) = Len(f)
    BY <1>2, MarkFacts
  <2>2. \A n \in 1..Len(f) : M[n] = IF n \in {k \in DOMAIN f : f[k] = "overflow"}
                                    THEN "reported" ELSE f[n]
    BY <1>2, MarkFacts
  <2>3. \A n \in 1..Len(f) : M[n] = f[n] \/ (f[n] = "overflow" /\ M[n] = "reported")
    BY <2>2
  <2>4. CASE fate' = M
    BY <2>1, <2>3, <2>4
  <2>5. CASE fate' = f
    BY <2>5
  <2> QED
    BY <1>3, <2>4, <2>5 DEF TakeSummary
<1>4. CASE TookNothing
  BY <1>4 DEF TookNothing, ItemsOK, Ages, InItems
<1>5. CASE TookOldest
  <2>1. /\ Len(items) > 0 /\ Head(items) = items[1] /\ items' \in Seq(Arrivals)
        /\ Len(items') = Len(items) - 1
        /\ \A i \in 1..Len(items') : items'[i] = items[i + 1] /\ i + 1 \in 1..Len(items)
    BY <1>1, <1>5, HeadTailProperties, EmptySeq DEF TookOldest
  <2>2. /\ Len(fate') = Len(fate)
        /\ \A n \in 1..Len(fate) : fate'[n] = IF n = items[1] THEN "answered" ELSE fate[n]
    BY <1>1, <1>2, <1>5, <2>1, MarkFacts DEF TookOldest
  <2>3. items[1] \in 1..Len(fate) /\ fate[items[1]] = "queued"
    BY <1>1, <2>1 DEF ItemsOK
  <2>4. Ages(fate, fate')
    BY <2>2, <2>3 DEF Ages
  <2>5. \A i \in 1..Len(items') : items'[i] # items[1]
    <3>1. 1 \in 1..Len(items) /\ \A i \in 1..Len(items') : 1 < i + 1
      BY <1>1, <2>1
    <3>2. \A i \in 1..Len(items') : items[1] < items[i + 1]
      BY <2>1, <3>1 DEF ItemsOK
    <3> QED
      BY <2>1, <2>3, <3>2
  <2>6. \A i \in 1..Len(items') : items'[i] \in 1..Len(fate') /\ fate'[items'[i]] = "queued"
    BY <2>1, <2>2, <2>5 DEF ItemsOK
  <2>7. ASSUME NEW n \in 1..Len(fate'), fate'[n] = "queued"
        PROVE  \E i \in 1..Len(items') : items'[i] = n
    <3>1. n # items[1] /\ fate[n] = "queued"
      BY <2>2, <2>7
    <3>2. PICK j \in 1..Len(items) : items[j] = n
      BY <2>2, <3>1 DEF ItemsOK, InItems
    <3>3. j - 1 \in 1..Len(items') /\ items'[j - 1] = items[j]
      BY <1>1, <2>1, <3>1, <3>2
    <3> QED
      BY <3>2, <3>3
  <2>8. \A i, j \in 1..Len(items') : i < j => items'[i] < items'[j]
    <3> SUFFICES ASSUME NEW i \in 1..Len(items'), NEW j \in 1..Len(items'), i < j
                 PROVE  items'[i] < items'[j]
      OBVIOUS
    <3>1. i + 1 < j + 1
      OBVIOUS
    <3>2. items[i + 1] < items[j + 1]
      BY <2>1, <3>1 DEF ItemsOK
    <3> QED
      BY <2>1, <3>2
  <2> QED
    BY <2>4, <2>6, <2>7, <2>8 DEF ItemsOK, InItems
<1>6. CASE TookAll
  <2> DEFINE f == Mark(fate, {items[i] : i \in 1..Len(items)}, "answered")
  <2>1. f \in Seq(Fates) /\ Len(f) = Len(fate)
    BY <1>1, <1>2, MarkFacts
  <2>2. \A n \in 1..Len(fate) : f[n] = IF n \in {items[i] : i \in 1..Len(items)}
                                       THEN "answered" ELSE fate[n]
    BY <1>1, <1>2, MarkFacts
  <2>3. TakeSummary(f) /\ items' = <<>>
    BY <1>6 DEF TookAll
  <2> HIDE DEF f
  <2>4. /\ Len(fate') = Len(fate)
        /\ \A n \in 1..Len(fate) :
              fate'[n] = f[n] \/ (f[n] = "overflow" /\ fate'[n] = "reported")
    BY <1>3, <2>1, <2>3
  <2>5. \A n \in 1..Len(fate) : fate[n] = "queued" <=> InItems(n)
    BY DEF ItemsOK, InItems
  <2>6. Ages(fate, fate')
    BY <2>2, <2>4, <2>5 DEF Ages, InItems
  <2>7. \A n \in 1..Len(fate') : fate'[n] # "queued"
    BY <2>2, <2>4, <2>5 DEF InItems
  <2>8. Len(items') = 0
    BY <2>3
  <2> QED
    BY <2>6, <2>7, <2>8 DEF ItemsOK
<1>7. CASE TookSummary
  <2>1. /\ items' = items /\ Len(fate') = Len(fate)
        /\ \A n \in 1..Len(fate) :
              fate'[n] = fate[n] \/ (fate[n] = "overflow" /\ fate'[n] = "reported")
    BY <1>1, <1>3, <1>7 DEF TookSummary
  <2>2. Ages(fate, fate')
    BY <2>1 DEF Ages
  <2> QED
    BY <2>1, <2>2 DEF ItemsOK, InItems
<1> QED
  BY <1>4, <1>5, <1>6, <1>7, LoopTakes

LEMMA ItemsStep == TypeOK /\ ItemsOK /\ [Next]_vars => ItemsOK'
<1> SUFFICES ASSUME TypeOK, ItemsOK, [Next]_vars PROVE ItemsOK'
  OBVIOUS
<1>1. ASSUME UNCHANGED <<items, fate>> PROVE ItemsOK'
  BY <1>1 DEF ItemsOK, InItems
<1>2. ASSUME NEW m \in Messages, Enqueue(m) PROVE ItemsOK'
  <2>1. PICK s \in Settings :
            EnqueueDuplicate(m, s) \/ EnqueueRefused(m, s) \/ EnqueueAccepted(m, s)
    BY <1>2 DEF Enqueue
  <2>2. CASE EnqueueDuplicate(m, s) \/ EnqueueRefused(m, s)
    <3>1. PICK what \in {"duplicate", "refused"} : Logs(m, fate, what)
      BY <2>2, NotTaken
    <3>2. what \in Fates \ {"queued"} /\ items' = items
      BY <2>2, NotTaken DEF Fates
    <3> QED
      BY <3>1, <3>2, NotTakenItems
  <2> QED
    BY <2>1, <2>2, TakenItems
<1>3. ASSUME NEW m \in Messages, SkipDuplicateInbound(m) PROVE ItemsOK'
  <2>1. Logs(m, fate, "skipped") /\ items' = items /\ "skipped" \in Fates \ {"queued"}
    BY <1>3 DEF SkipDuplicateInbound, queueVars, Logs, Fates
  <2> QED
    BY <2>1, NotTakenItems
<1>4. ASSUME NEW m \in Messages, Forget(m) PROVE ItemsOK'
  BY <1>1, <1>4 DEF Forget, queueVars
<1>5. ASSUME NEW d \in Drains, ScheduleFollowupDrain(d) PROVE ItemsOK'
  BY <1>1, <1>5, ScheduleMoves
<1>6. ASSUME NEW d \in Drains, LoopRuns(d) PROVE ItemsOK'
  BY <1>6, LoopItems
<1>7. CASE UNCHANGED vars
  BY <1>1, <1>7 DEF vars
<1> QED
  BY <1>2, <1>3, <1>4, <1>5, <1>6, <1>7 DEF Next, Schedule

--------------------------------------------------------------------------------
(* The count and the lines tell of what was dropped *)

\* The oldest so many that wait are so many.
LEMMA PrefixCardinality ==
    ASSUME TypeOK, ItemsOK, NEW o \in 0..Len(items)
    PROVE  /\ IsFiniteSet({items[i] : i \in 1..o})
           /\ Cardinality({items[i] : i \in 1..o}) = o
<1> DEFINE T == {items[i] : i \in 1..o}
           f == [i \in 1..o |-> items[i]]
<1>1. Len(items) \in Nat /\ \A i \in 1..Len(items) : items[i] \in Int
  BY LenProperties DEF TypeOK, ItemsOK
<1>2. \A i, j \in 1..o : i # j => items[i] # items[j]
  <2> SUFFICES ASSUME NEW i \in 1..o, NEW j \in 1..o, i # j PROVE items[i] # items[j]
    OBVIOUS
  <2>1. i \in 1..Len(items) /\ j \in 1..Len(items) /\ (i < j \/ j < i)
    BY <1>1
  <2>2. items[i] < items[j] \/ items[j] < items[i]
    BY <2>1 DEF ItemsOK
  <2> QED
    BY <1>1, <2>1, <2>2
<1>3. f \in Bijection(1..o, T)
  BY <1>2 DEF Bijection, Injection, Surjection, IsInjective
<1>4. ExistsBijection(1..o, T)
  BY <1>3 DEF ExistsBijection
<1>5. IsFiniteSet(1..o) /\ Cardinality(1..o) = o
  BY <1>1, FS_Interval
<1> QED
  BY <1>4, <1>5, FS_Bijection

LEMMA OverflownFinite ==
    ASSUME NEW f \in Seq(Fates)
    PROVE  IsFiniteSet(Overflown(f)) /\ Overflown(f) \subseteq 1..Len(f)
<1>1. DOMAIN f = 1..Len(f) /\ Len(f) \in Nat
  BY LenProperties
<1>2. IsFiniteSet(1..Len(f))
  BY <1>1, FS_Interval
<1> QED
  BY <1>1, <1>2, FS_Subset DEF Overflown

LEMMA SummaryAfter ==
    ASSUME dropped' = Cardinality(Overflown(fate')),
           \A i \in 1..Len(summaryLines') :
               summaryLines'[i] \in 1..Len(fate') /\ fate'[summaryLines'[i]] = "overflow"
    PROVE  SummaryOK'
<1>1. Overflown(fate)' = Overflown(fate')
  BY DEF Overflown
<1> QED
  BY <1>1 DEF SummaryOK

\* An arrival that is taken.
LEMMA TakenSummary ==
    ASSUME TypeOK, ItemsOK, SummaryOK, NEW m \in Messages, NEW s \in Settings,
           EnqueueAccepted(m, s)
    PROVE  SummaryOK' /\ Ages(fate, Dropped(m, s))
<1> DEFINE o == Overflow(s.cap)
           D == Dropped(m, s)
           T == {items[i] : i \in 1..o}
<1>1. /\ s.cap \in Nat \ {0} /\ D \in Seq(Fates) /\ Len(D) = Len(fate)
      /\ \A n \in 1..Len(fate) : D[n] =
            IF \E i \in 1..o : items[i] = n
            THEN IF s.drop = "summarize" THEN "overflow" ELSE "discarded"
            ELSE fate[n]
  BY DroppedFacts
<1>2. /\ o \in 0..Len(items) /\ Len(items) \in Nat
      /\ Out(s.cap) \in Seq(Arrivals) /\ Len(Out(s.cap)) = o
      /\ \A i \in 1..o : Out(s.cap)[i] = items[i]
  BY <1>1, OverflowFacts
<1>3. Logs(m, D, "queued")
  BY Taken
<1>4. /\ Len(log) \in Nat /\ Len(fate) = Len(log) /\ Len(fate') = Len(log) + 1
      /\ \A n \in 1..Len(log) : fate'[n] = D[n]
      /\ fate'[Len(log) + 1] = "queued" /\ DOMAIN fate' = 1..(Len(log) + 1)
      /\ fate' \in Seq(Fates)
  <2>1. "queued" \in Fates
    BY DEF Fates
  <2> QED
    BY <1>1, <1>3, <2>1, LogFacts
<1>5. DOMAIN fate = 1..Len(fate) /\ fate \in Seq(Fates)
  BY LenProperties DEF TypeOK
<1>6. \A i \in 1..o : i \in 1..Len(items) /\ items[i] \in 1..Len(fate) /\ fate[items[i]] = "queued"
  BY <1>2 DEF ItemsOK
<1>7. Ages(fate, Dropped(m, s))
  BY <1>1, <1>6 DEF Ages
<1> HIDE DEF o, D
<1>8. CASE o > 0 /\ s.drop = "summarize"
  <2> DEFINE lines == summaryLines \o Out(s.cap)
  <2>1. dropped' = dropped + o
    BY <1>8, Taken DEF o
  <2>2. PICK k \in Nat : k <= Len(lines) /\ summaryLines' = SubSeq(lines, k + 1, Len(lines))
    BY <1>8, Taken DEF o
  <2>3. Overflown(fate') = Overflown(fate) \cup T
    <3>1. \A n \in 1..Len(log) : fate'[n] = "overflow" <=> fate[n] = "overflow" \/ n \in T
      <4>1. \A n \in 1..Len(log) : n \in T <=> \E i \in 1..o : items[i] = n
        OBVIOUS
      <4> HIDE DEF T
      <4>2. \A n \in 1..Len(log) : fate'[n] = IF n \in T THEN "overflow" ELSE fate[n]
        BY <1>1, <1>4, <1>8, <4>1
      <4> QED
        BY <4>2
    <3>2. T \subseteq 1..Len(log)
      BY <1>4, <1>6
    <3>3. \A n \in DOMAIN fate' : n \in 1..Len(log) \/ (n = Len(log) + 1 /\ fate'[n] # "overflow")
      BY <1>4
    <3> HIDE DEF T
    <3>4. ASSUME NEW n \in Overflown(fate') PROVE n \in Overflown(fate) \cup T
      BY <1>4, <1>5, <3>1, <3>3 DEF Overflown
    <3>5. ASSUME NEW n \in Overflown(fate) \cup T PROVE n \in Overflown(fate')
      <4>1. n \in 1..Len(log) /\ (fate[n] = "overflow" \/ n \in T)
        BY <1>4, <1>5, <3>2 DEF Overflown
      <4> QED
        BY <1>4, <3>1, <4>1 DEF Overflown
    <3> QED
      BY <3>4, <3>5
  <2>4. Overflown(fate) \cap T = {}
    BY <1>6 DEF Overflown
  <2>5. IsFiniteSet(T) /\ Cardinality(T) = o
    BY <1>2, PrefixCardinality
  <2>6. IsFiniteSet(Overflown(fate))
    BY <1>5, OverflownFinite
  <2>7. Cardinality(Overflown(fate')) = Cardinality(Overflown(fate)) + o
    <3>1. Cardinality(Overflown(fate)) \in Nat
      BY <2>6, FS_CardinalityType
    <3>2. Cardinality(Overflown(fate) \cup T)
             = Cardinality(Overflown(fate)) + Cardinality(T) - Cardinality(Overflown(fate) \cap T)
      BY <2>5, <2>6, FS_Union
    <3>3. Cardinality(Overflown(fate) \cap T) = 0
      BY <2>4, FS_EmptySet
    <3> HIDE DEF T
    <3> QED
      BY <1>2, <2>3, <2>5, <3>1, <3>2, <3>3
  <2>8. \A i \in 1..Len(lines) : lines[i] \in 1..Len(fate') /\ fate'[lines[i]] = "overflow"
    <3>1. \A i \in 1..Len(summaryLines) :
             summaryLines[i] \in 1..Len(fate) /\ fate[summaryLines[i]] = "overflow"
      BY DEF SummaryOK
    <3>2. \A n \in 1..Len(log) : fate[n] = "overflow" \/ n \in T => fate'[n] = "overflow"
      BY <1>1, <1>4, <1>6, <1>8
    <3>3. \A i \in 1..Len(lines) :
             \/ i \in 1..Len(summaryLines) /\ lines[i] = summaryLines[i]
             \/ i - Len(summaryLines) \in 1..o /\ lines[i] = items[i - Len(summaryLines)]
      <4>1. summaryLines \in Seq(Arrivals) /\ Len(summaryLines) \in Nat
        BY LenProperties DEF TypeOK
      <4>2. /\ Len(lines) = Len(summaryLines) + o
            /\ \A i \in 1..(Len(summaryLines) + o) : lines[i] =
                  IF i <= Len(summaryLines) THEN summaryLines[i] ELSE Out(s.cap)[i - Len(summaryLines)]
        BY <1>2, <4>1, ConcatProperties
      <4> HIDE DEF lines
      <4> SUFFICES ASSUME NEW i \in 1..Len(lines)
                   PROVE  \/ i \in 1..Len(summaryLines) /\ lines[i] = summaryLines[i]
                          \/ /\ i - Len(summaryLines) \in 1..o
                             /\ lines[i] = items[i - Len(summaryLines)]
        OBVIOUS
      <4>3. CASE i <= Len(summaryLines)
        BY <1>2, <4>1, <4>2, <4>3
      <4>4. CASE i > Len(summaryLines)
        <5>1. i - Len(summaryLines) \in 1..o
          BY <1>2, <4>1, <4>2, <4>4
        <5> QED
          BY <1>2, <4>1, <4>2, <4>4, <5>1
      <4> QED
        BY <4>1, <4>3, <4>4
    <3>4. \A n \in 1..Len(log) : n \in 1..Len(fate')
      BY <1>4
    <3>5. \A i \in 1..o : items[i] \in 1..Len(log) /\ items[i] \in T
      BY <1>4, <1>6
    <3> HIDE DEF lines, T
    <3> QED
      BY <1>4, <3>1, <3>2, <3>3, <3>4, <3>5
  <2>9. \A i \in 1..Len(summaryLines') :
           summaryLines'[i] \in 1..Len(fate') /\ fate'[summaryLines'[i]] = "overflow"
    <3>1. lines \in Seq(Arrivals)
      BY <1>2, ConcatProperties DEF TypeOK
    <3>2. Len(lines) \in Nat /\ k \in 0..Len(lines)
      BY <2>2, <3>1, LenProperties
    <3>3. /\ Len(summaryLines') = Len(lines) - k
          /\ \A i \in 1..(Len(lines) - k) : summaryLines'[i] = lines[i + k]
      BY <2>2, <3>1, <3>2, RestFacts
    <3> HIDE DEF lines
    <3>4. \A i \in 1..Len(summaryLines') : i + k \in 1..Len(lines) /\ summaryLines'[i] = lines[i + k]
      BY <3>2, <3>3
    <3> QED
      BY <2>8, <3>4
  <2> QED
    BY <1>7, <2>1, <2>7, <2>9, SummaryAfter DEF SummaryOK
<1>9. CASE ~(o > 0 /\ s.drop = "summarize")
  <2>1. dropped' = dropped /\ summaryLines' = summaryLines
    BY <1>9, Taken DEF o
  <2>2. \A n \in 1..Len(log) : fate'[n] = "overflow" <=> fate[n] = "overflow"
    <3>1. ASSUME NEW n \in 1..Len(log), NEW i \in 1..o, items[i] = n
          PROVE  fate'[n] # "overflow" /\ fate[n] # "overflow"
      <4>1. o > 0
        BY <1>2
      <4>2. s.drop # "summarize" /\ fate[n] = "queued"
        BY <1>6, <1>9, <3>1, <4>1
      <4>3. fate'[n] = "discarded"
        BY <1>1, <1>4, <3>1, <4>2
      <4> QED
        BY <4>2, <4>3
    <3>2. ASSUME NEW n \in 1..Len(log), ~\E i \in 1..o : items[i] = n
          PROVE  fate'[n] = fate[n]
      BY <1>1, <1>4, <3>2
    <3> QED
      BY <3>1, <3>2
  <2>3. Overflown(fate') = Overflown(fate)
    <3>1. \A n \in DOMAIN fate' : n \in 1..Len(log) \/ (n = Len(log) + 1 /\ fate'[n] # "overflow")
      BY <1>4
    <3> QED
      BY <1>4, <1>5, <2>2, <3>1 DEF Overflown
  <2>4. \A n \in 1..Len(fate) : n \in 1..Len(fate')
    BY <1>4
  <2> QED
    <3>1. dropped' = Cardinality(Overflown(fate'))
      BY <2>1, <2>3 DEF SummaryOK
    <3>2. \A i \in 1..Len(summaryLines') :
             summaryLines'[i] \in 1..Len(fate') /\ fate'[summaryLines'[i]] = "overflow"
      BY <1>4, <2>1, <2>2, <2>4 DEF SummaryOK
    <3> QED
      BY <1>7, <3>1, <3>2, SummaryAfter
<1> QED
  BY <1>8, <1>9

LEMMA NotTakenSummary ==
    ASSUME TypeOK, SummaryOK, NEW m \in Messages, NEW what \in Fates \ {"overflow"},
           Logs(m, fate, what), dropped' = dropped, summaryLines' = summaryLines
    PROVE  SummaryOK'
<1>1. /\ Len(log) \in Nat /\ Len(fate) = Len(log) /\ Len(fate') = Len(log) + 1
      /\ \A n \in 1..Len(log) : fate'[n] = fate[n]
      /\ fate'[Len(log) + 1] = what /\ DOMAIN fate' = 1..(Len(log) + 1)
  <2>1. fate \in Seq(Fates)
    BY DEF TypeOK
  <2> QED
    BY <2>1, LogFacts
<1>2. DOMAIN fate = 1..Len(log)
  BY <1>1, LenProperties DEF TypeOK
<1>3. \A n \in 1..(Len(log) + 1) : n \in 1..Len(log) \/ n = Len(log) + 1
  BY <1>1
<1>4. Overflown(fate') = Overflown(fate)
  <2>1. ASSUME NEW n \in Overflown(fate') PROVE n \in Overflown(fate)
    BY <1>1, <1>2, <1>3, <2>1 DEF Overflown
  <2>2. ASSUME NEW n \in Overflown(fate) PROVE n \in Overflown(fate')
    <3>1. n \in 1..Len(log) /\ fate[n] = "overflow"
      BY <1>2 DEF Overflown
    <3>2. n \in 1..(Len(log) + 1)
      BY <1>1, <3>1
    <3> QED
      BY <1>1, <3>1, <3>2 DEF Overflown
  <2> QED
    BY <2>1, <2>2
<1>5. \A i \in 1..Len(summaryLines') :
          summaryLines'[i] \in 1..Len(fate') /\ fate'[summaryLines'[i]] = "overflow"
  BY <1>1 DEF SummaryOK
<1>6. dropped' = Cardinality(Overflown(fate'))
  BY <1>4 DEF SummaryOK
<1> QED
  BY <1>5, <1>6, SummaryAfter

\* A step of the loop reports what was dropped, all of it or nothing.
LEMMA LoopSummary ==
    ASSUME TypeOK, ItemsOK, SummaryOK, NEW d \in Drains, LoopRuns(d)
    PROVE  SummaryOK'
<1>1. /\ fate \in Seq(Fates) /\ Len(fate) \in Nat /\ DOMAIN fate = 1..Len(fate)
      /\ {"answered", "reported"} \subseteq Fates
  BY LenProperties DEF TypeOK, Fates
\* What is done to a history with the same dropped messages.
<1>2. ASSUME NEW f \in Seq(Fates), Len(f) = Len(fate), Overflown(f) = Overflown(fate),
             \/ UNCHANGED <<dropped, summaryLines>> /\ fate' = f
             \/ TakeSummary(f)
      PROVE  SummaryOK'
  <2>1. DOMAIN f = 1..Len(fate)
    BY <1>2, LenProperties
  <2>2. CASE UNCHANGED <<dropped, summaryLines>> /\ fate' = f
    <3>1. \A i \in 1..Len(summaryLines) : summaryLines[i] \in Overflown(fate)
      BY <1>1 DEF SummaryOK, Overflown
    <3>2. \A n \in Overflown(fate) : n \in 1..Len(fate') /\ fate'[n] = "overflow"
      BY <1>2, <2>1, <2>2 DEF Overflown
    <3>3. \A i \in 1..Len(summaryLines') :
             summaryLines'[i] \in 1..Len(fate') /\ fate'[summaryLines'[i]] = "overflow"
      BY <2>2, <3>1, <3>2
    <3>4. dropped' = Cardinality(Overflown(fate'))
      BY <1>2, <2>2 DEF SummaryOK
    <3> QED
      BY <3>3, <3>4, SummaryAfter
  <2>3. CASE dropped' = 0 /\ summaryLines' = <<>>
             /\ fate' = Mark(f, {n \in DOMAIN f : f[n] = "overflow"}, "reported")
    <3>1. Len(fate') = Len(f) /\ fate' \in Seq(Fates)
      BY <1>1, <2>3, MarkFacts
    <3>2. \A n \in 1..Len(f) :
             fate'[n] = IF n \in {k \in DOMAIN f : f[k] = "overflow"} THEN "reported" ELSE f[n]
      BY <1>1, <2>3, MarkFacts
    <3>3. \A n \in 1..Len(f) : fate'[n] # "overflow"
      BY <1>2, <2>1, <3>2
    <3>4. DOMAIN fate' = 1..Len(f)
      BY <3>1, LenProperties
    <3>5. Overflown(fate') = {}
      BY <3>3, <3>4 DEF Overflown
    <3>6. dropped' = Cardinality(Overflown(fate'))
      BY <2>3, <3>5, FS_EmptySet
    <3>7. Len(summaryLines') = 0
      BY <2>3
    <3> QED
      BY <3>6, <3>7, SummaryAfter
  <2> QED
    BY <1>2, <2>2, <2>3 DEF TakeSummary
\* Answering what waits does not touch what was dropped.
<1>3. ASSUME NEW S, \A n \in S : n \in 1..Len(fate) => fate[n] = "queued"
      PROVE  LET f == Mark(fate, S, "answered")
             IN  f \in Seq(Fates) /\ Len(f) = Len(fate) /\ Overflown(f) = Overflown(fate)
  <2> DEFINE f == Mark(fate, S, "answered")
  <2>1. /\ f \in Seq(Fates) /\ Len(f) = Len(fate)
        /\ \A n \in 1..Len(fate) : f[n] = IF n \in S THEN "answered" ELSE fate[n]
    BY <1>1, MarkFacts
  <2> HIDE DEF f
  <2>2. DOMAIN f = 1..Len(fate)
    BY <2>1, LenProperties
  <2>3. \A n \in 1..Len(fate) : f[n] = "overflow" <=> fate[n] = "overflow"
    BY <1>3, <2>1
  <2>4. Overflown(f) = Overflown(fate)
    BY <1>1, <2>2, <2>3 DEF Overflown
  <2> QED
    BY <2>1, <2>4 DEF f
<1>4. CASE TookNothing
  BY <1>1, <1>2, <1>4 DEF TookNothing
<1>5. CASE TookOldest
  <2>1. items \in Seq(Arrivals) /\ items # <<>> /\ Head(items) = items[1] /\ 1 \in 1..Len(items)
    BY <1>5, HeadTailProperties, EmptySeq DEF TookOldest, TypeOK
  <2>2. \A n \in {Head(items)} : n \in 1..Len(fate) => fate[n] = "queued"
    BY <2>1 DEF ItemsOK
  <2> QED
    BY <1>2, <1>3, <1>5, <2>2 DEF TookOldest
<1>6. CASE TookAll
  <2>1. \A n \in {items[i] : i \in 1..Len(items)} : n \in 1..Len(fate) => fate[n] = "queued"
    BY DEF ItemsOK
  <2> QED
    BY <1>2, <1>3, <1>6, <2>1 DEF TookAll
<1>7. CASE TookSummary
  BY <1>1, <1>2, <1>7 DEF TookSummary
<1> QED
  BY <1>4, <1>5, <1>6, <1>7, LoopTakes

LEMMA SummaryStep == TypeOK /\ ItemsOK /\ SummaryOK /\ [Next]_vars => SummaryOK'
<1> SUFFICES ASSUME TypeOK, ItemsOK, SummaryOK, [Next]_vars PROVE SummaryOK'
  OBVIOUS
<1>1. ASSUME UNCHANGED <<dropped, summaryLines, fate>> PROVE SummaryOK'
  BY <1>1 DEF SummaryOK, Overflown
<1>2. ASSUME NEW m \in Messages, Enqueue(m) PROVE SummaryOK'
  <2>1. PICK s \in Settings :
            EnqueueDuplicate(m, s) \/ EnqueueRefused(m, s) \/ EnqueueAccepted(m, s)
    BY <1>2 DEF Enqueue
  <2>2. CASE EnqueueDuplicate(m, s) \/ EnqueueRefused(m, s)
    <3>1. PICK what \in {"duplicate", "refused"} : Logs(m, fate, what)
      BY <2>2, NotTaken
    <3>2. /\ what \in Fates \ {"overflow"}
          /\ dropped' = dropped /\ summaryLines' = summaryLines
      BY <2>2, NotTaken DEF Fates
    <3> QED
      BY <3>1, <3>2, NotTakenSummary
  <2> QED
    BY <2>1, <2>2, TakenSummary
<1>3. ASSUME NEW m \in Messages, SkipDuplicateInbound(m) PROVE SummaryOK'
  <2>1. /\ Logs(m, fate, "skipped") /\ dropped' = dropped /\ summaryLines' = summaryLines
        /\ "skipped" \in Fates \ {"overflow"}
    BY <1>3 DEF SkipDuplicateInbound, queueVars, Logs, Fates
  <2> QED
    BY <2>1, NotTakenSummary
<1>4. ASSUME NEW m \in Messages, Forget(m) PROVE SummaryOK'
  BY <1>1, <1>4 DEF Forget, queueVars
<1>5. ASSUME NEW d \in Drains, ScheduleFollowupDrain(d) PROVE SummaryOK'
  BY <1>1, <1>5, ScheduleMoves
<1>6. ASSUME NEW d \in Drains, LoopRuns(d) PROVE SummaryOK'
  BY <1>6, LoopSummary
<1>7. CASE UNCHANGED vars
  BY <1>1, <1>7 DEF vars
<1> QED
  BY <1>2, <1>3, <1>4, <1>5, <1>6, <1>7 DEF Next, Schedule

--------------------------------------------------------------------------------
(* What is delivered again *)

CacheOK == SeenOK /\ SkippedOK /\ CopiesOK

\* The history of the old messages ages, and no message comes.
LEMMA AgeingKeepsCache ==
    ASSUME TypeOK, CacheOK, UNCHANGED inbound, Len(fate') = Len(fate), Ages(fate, fate')
    PROVE  CacheOK'
<1>1. Len(log) \in Nat /\ Len(fate) = Len(log)
  BY LenProperties DEF TypeOK
<1>2. log' = log /\ seen' = seen /\ forgotten' = forgotten
  BY DEF inbound
<1>3. \A n \in 1..Len(log) :
          /\ fate'[n] = "skipped" => fate[n] = "skipped"
          /\ fate'[n] \notin {"skipped", "duplicate", "refused"}
                => fate[n] \notin {"skipped", "duplicate", "refused"}
          /\ fate'[n] = "queued" => fate[n] = "queued"
  BY <1>1 DEF Ages
<1>4. SeenOK'
  BY <1>2 DEF CacheOK, SeenOK
<1>5. SkippedOK'
  BY <1>2, <1>3 DEF CacheOK, SkippedOK
<1>6. CopiesOK'
  BY <1>2, <1>3 DEF CacheOK, CopiesOK
<1> QED
  BY <1>4, <1>5, <1>6 DEF CacheOK

\* A message comes: with an id it is taken only if the cache does not know it, and
\* skipped only if it does.
LEMMA ArrivalKeepsCache ==
    ASSUME TypeOK, ItemsOK, CacheOK, NEW m \in Messages, NEW f \in Seq(Fates), NEW what \in Fates,
           Len(f) = Len(fate), Ages(fate, f), Logs(m, f, what), forgotten' = forgotten,
           \/ what = "skipped" /\ m \in seen /\ seen' = seen
           \/ what \in {"duplicate", "refused"} /\ Passes(m)
           \/ what = "queued" /\ Passes(m) /\ ~IsAlreadyQueued(m)
    PROVE  CacheOK'
<1> DEFINE n0 == Len(log)
<1>1. /\ n0 \in Nat /\ Len(fate) = n0 /\ Len(log') = n0 + 1
      /\ \A n \in 1..n0 : log'[n] = log[n] /\ fate'[n] = f[n]
      /\ log'[n0 + 1] = m /\ fate'[n0 + 1] = what
  BY LogFacts
<1> HIDE DEF n0
<1>2. \A n \in 1..n0 :
          /\ fate'[n] = "skipped" => fate[n] = "skipped"
          /\ fate'[n] \notin {"skipped", "duplicate", "refused"}
                => fate[n] \notin {"skipped", "duplicate", "refused"}
          /\ fate'[n] = "queued" => fate[n] = "queued"
  BY <1>1 DEF Ages
<1>3. /\ \A x \in seen : x \in Named /\ \E k \in 1..n0 : log[k] = x
      /\ \A n \in 1..n0 : log[n] \in Named => log[n] \in seen \cup forgotten
  BY DEF CacheOK, SeenOK, n0
<1>4. \A n \in 1..(n0 + 1) : n \in 1..n0 \/ n = n0 + 1
  BY <1>1
<1>5. SeenOK'
  <2>1. seen \subseteq seen' /\ seen' \subseteq seen \cup ({m} \cap Named)
    BY DEF Passes
  <2>2. m \in Named => m \in seen'
    BY DEF Passes
  <2>3. \A x \in seen' : x \in Named /\ \E k \in 1..(n0 + 1) : log'[k] = x
    <3> SUFFICES ASSUME NEW x \in seen'
                 PROVE  x \in Named /\ \E k \in 1..(n0 + 1) : log'[k] = x
      OBVIOUS
    <3>1. CASE x \in seen
      <4>1. PICK k \in 1..n0 : log[k] = x
        BY <1>3, <3>1
      <4>2. k \in 1..(n0 + 1) /\ log'[k] = x
        BY <1>1, <4>1
      <4> QED
        BY <1>3, <3>1, <4>2
    <3>2. CASE x = m /\ m \in Named
      BY <1>1, <3>2
    <3> QED
      BY <2>1, <3>1, <3>2
  <2>4. \A n \in 1..(n0 + 1) : log'[n] \in Named => log'[n] \in seen' \cup forgotten'
    BY <1>1, <1>3, <1>4, <2>1, <2>2
  <2> QED
    BY <1>1, <2>3, <2>4 DEF SeenOK
<1>6. SkippedOK'
  <2> SUFFICES ASSUME NEW n \in 1..(n0 + 1), fate'[n] = "skipped"
               PROVE  log'[n] \in Named /\ \E k \in 1..(n - 1) : log'[k] = log'[n]
    BY <1>1 DEF SkippedOK
  <2>1. CASE n \in 1..n0
    <3>1. PICK k \in 1..(n - 1) : log[k] = log[n]
      BY <1>2, <2>1 DEF CacheOK, SkippedOK, n0
    <3>2. log[n] \in Named
      BY <1>2, <2>1 DEF CacheOK, SkippedOK, n0
    <3>3. k \in 1..n0
      BY <1>1, <2>1
    <3> QED
      BY <1>1, <2>1, <3>1, <3>2, <3>3
  <2>2. CASE n = n0 + 1
    <3>1. m \in seen
      BY <1>1, <2>2
    <3>2. PICK k \in 1..n0 : log[k] = m
      BY <1>3, <3>1
    <3>3. k \in 1..(n - 1) /\ log'[k] = m
      BY <1>1, <2>2, <3>2
    <3> QED
      BY <1>1, <1>3, <2>2, <3>1, <3>3
  <2> QED
    BY <1>4, <2>1, <2>2
<1>7. CopiesOK'
  <2> SUFFICES ASSUME NEW n \in 1..(n0 + 1), NEW k \in 1..(n0 + 1),
                      n < k, log'[n] = log'[k], log'[n] \in Named,
                      fate'[k] \notin {"skipped", "duplicate", "refused"}
               PROVE  log'[n] \in forgotten /\ (DedupeMode # "none" => fate'[n] # "queued")
    BY <1>1 DEF CopiesOK
  <2>1. n \in 1..n0 /\ (k \in 1..n0 \/ k = n0 + 1)
    BY <1>1
  <2>2. CASE k \in 1..n0
    <3>1. log[n] = log[k] /\ log[n] \in Named /\ fate[k] \notin {"skipped", "duplicate", "refused"}
      BY <1>1, <1>2, <2>1, <2>2
    <3>2. log[n] \in forgotten /\ (DedupeMode # "none" => fate[n] # "queued")
      BY <2>1, <2>2, <3>1 DEF CacheOK, CopiesOK, n0
    <3> QED
      BY <1>1, <1>2, <2>1, <3>2
  <2>3. CASE k = n0 + 1
    <3>1. what = "queued" /\ m \notin seen /\ ~IsAlreadyQueued(m) /\ log[n] = m /\ m \in Named
      BY <1>1, <2>1, <2>3 DEF Passes
    <3>2. log[n] \in forgotten
      BY <1>3, <2>1, <3>1
    <3>3. ASSUME DedupeMode # "none", fate'[n] = "queued" PROVE FALSE
      <4>1. fate[n] = "queued" /\ n \in 1..Len(fate)
        BY <1>1, <1>2, <2>1, <3>3
      <4>2. PICK i \in 1..Len(items) : items[i] = n
        BY <4>1 DEF ItemsOK, InItems
      <4> QED
        BY <3>1, <3>3, <4>2 DEF IsAlreadyQueued
    <3> QED
      BY <1>1, <2>1, <3>2, <3>3
  <2> QED
    BY <2>1, <2>2, <2>3
<1> QED
  BY <1>5, <1>6, <1>7 DEF CacheOK

LEMMA CacheStep == TypeOK /\ ItemsOK /\ SummaryOK /\ CacheOK /\ [Next]_vars => CacheOK'
<1> SUFFICES ASSUME TypeOK, ItemsOK, SummaryOK, CacheOK, [Next]_vars PROVE CacheOK'
  OBVIOUS
<1>1. Ages(fate, fate) /\ fate \in Seq(Fates)
  BY DEF Ages, TypeOK
<1>2. ASSUME UNCHANGED <<inbound, fate>> PROVE CacheOK'
  BY <1>1, <1>2, AgeingKeepsCache
<1>3. ASSUME NEW m \in Messages, Enqueue(m) PROVE CacheOK'
  <2>1. Passes(m) /\ forgotten' = forgotten
    BY <1>3 DEF Enqueue
  <2>2. PICK s \in Settings :
            EnqueueDuplicate(m, s) \/ EnqueueRefused(m, s) \/ EnqueueAccepted(m, s)
    BY <1>3 DEF Enqueue
  <2>3. CASE EnqueueDuplicate(m, s) \/ EnqueueRefused(m, s)
    <3>1. PICK what \in {"duplicate", "refused"} : Logs(m, fate, what)
      BY <2>3, NotTaken
    <3>2. what \in Fates
      BY DEF Fates
    <3> QED
      BY <1>1, <2>1, <3>1, <3>2, ArrivalKeepsCache
  <2>4. CASE EnqueueAccepted(m, s)
    <3>1. Logs(m, Dropped(m, s), "queued") /\ ~IsAlreadyQueued(m)
      BY <2>4, Taken
    <3>2. Dropped(m, s) \in Seq(Fates) /\ Len(Dropped(m, s)) = Len(fate)
      BY DroppedFacts
    <3>3. Ages(fate, Dropped(m, s)) /\ "queued" \in Fates
      BY <2>4, TakenSummary DEF Fates
    <3> QED
      BY <2>1, <3>1, <3>2, <3>3, ArrivalKeepsCache
  <2> QED
    BY <2>2, <2>3, <2>4
<1>4. ASSUME NEW m \in Messages, SkipDuplicateInbound(m) PROVE CacheOK'
  <2>1. /\ Logs(m, fate, "skipped") /\ m \in seen /\ seen' = seen /\ forgotten' = forgotten
        /\ "skipped" \in Fates
    BY <1>4 DEF SkipDuplicateInbound, Logs, Fates
  <2> QED
    BY <1>1, <2>1, ArrivalKeepsCache
<1>5. ASSUME NEW m \in Messages, Forget(m) PROVE CacheOK'
  <2>1. /\ seen' = seen \ {m} /\ forgotten' = forgotten \cup {m}
        /\ log' = log /\ fate' = fate
    BY <1>5 DEF Forget
  <2>2. SeenOK'
    BY <2>1 DEF CacheOK, SeenOK
  <2>3. SkippedOK'
    BY <2>1 DEF CacheOK, SkippedOK
  <2>4. CopiesOK'
    BY <2>1 DEF CacheOK, CopiesOK
  <2> QED
    BY <2>2, <2>3, <2>4 DEF CacheOK
<1>6. ASSUME NEW d \in Drains, ScheduleFollowupDrain(d) PROVE CacheOK'
  BY <1>2, <1>6, ScheduleMoves
<1>7. ASSUME NEW d \in Drains, LoopRuns(d) PROVE CacheOK'
  <2>1. UNCHANGED inbound /\ Len(fate') = Len(fate) /\ Ages(fate, fate')
    BY <1>7, LoopMoves, LoopHistory, LoopItems
  <2> QED
    BY <2>1, AgeingKeepsCache
<1>8. CASE UNCHANGED vars
  BY <1>2, <1>8 DEF vars
<1> QED
  BY <1>3, <1>4, <1>5, <1>6, <1>7, <1>8 DEF Next, Schedule

--------------------------------------------------------------------------------
(* The theorems *)

LEMMA InitOK == Init => IInv
<1> SUFFICES ASSUME Init PROVE IInv
  OBVIOUS
<1>1. /\ items = <<>> /\ summaryLines = <<>> /\ dropped = 0 /\ log = <<>> /\ fate = <<>>
      /\ seen = {} /\ forgotten = {} /\ draining = FALSE /\ exists = FALSE /\ conf \in Settings
      /\ drain = [d \in Drains |-> Off]
  BY DEF Init
<1>2. Off \in Activations
  BY ActivationTypes
<1>3. /\ <<>> \in Seq(Arrivals) /\ <<>> \in Seq(Messages) /\ <<>> \in Seq(Fates)
      /\ Len(<<>>) = 0
  OBVIOUS
<1>4. TypeOK
  BY <1>1, <1>2, <1>3 DEF TypeOK, Activations
<1>5. OneTurnAtATime
  BY <1>1 DEF OneTurnAtATime, Off
<1>6. ItemsOK
  BY <1>1, <1>3 DEF ItemsOK
<1>7. SummaryOK
  <2>1. Overflown(fate) = {}
    BY <1>1 DEF Overflown
  <2> QED
    BY <1>1, <1>3, <2>1, FS_EmptySet DEF SummaryOK
<1>8. SeenOK /\ SkippedOK /\ CopiesOK
  BY <1>1, <1>3 DEF SeenOK, SkippedOK, CopiesOK
<1> QED
  BY <1>4, <1>5, <1>6, <1>7, <1>8 DEF IInv

LEMMA StepOK == IInv /\ [Next]_vars => IInv'
  BY TypeStep, TurnsStep, ItemsStep, SummaryStep, CacheStep DEF IInv, CacheOK

LEMMA Invariance == SafetySpec => []IInv
  BY InitOK, StepOK, PTL DEF SafetySpec

\* The queue, the activations of the loop and the history are what they should be.
THEOREM TypeCorrect == SafetySpec => []TypeOK
<1>1. IInv => TypeOK
  BY DEF IInv
<1> QED
  BY <1>1, Invariance, PTL

\* At most one loop of a session is on, and it is if and only if the queue is draining:
\* no end of a run, failed turn or reschedule lets two turns overlap.
THEOREM TurnsDoNotOverlap == SafetySpec => []OneTurnAtATime
<1>1. IInv => OneTurnAtATime
  BY DEF IInv
<1> QED
  BY <1>1, Invariance, PTL

\* Every message that is not taken yet waits, once and in the order of arrival; the
\* summary tells of exactly the dropped ones; a copy of a message with an id is taken
\* only after the cache has forgotten it.
THEOREM NothingIsLost == SafetySpec => []Accounting
<1>1. IInv => Accounting
  <2> SUFFICES ASSUME IInv PROVE Accounting
    OBVIOUS
  <2>1. /\ DOMAIN items = 1..Len(items) /\ DOMAIN summaryLines = 1..Len(summaryLines)
        /\ DOMAIN log = 1..Len(log) /\ DOMAIN fate = 1..Len(fate)
    BY LenProperties DEF IInv, TypeOK
  <2>2. {items[i] : i \in DOMAIN items} = {n \in DOMAIN fate : fate[n] = "queued"}
    <3>1. ASSUME NEW i \in DOMAIN items
          PROVE  items[i] \in DOMAIN fate /\ fate[items[i]] = "queued"
      BY <2>1, <3>1 DEF IInv, ItemsOK
    <3>2. ASSUME NEW n \in DOMAIN fate, fate[n] = "queued"
          PROVE  \E i \in DOMAIN items : items[i] = n
      BY <2>1, <3>2 DEF IInv, ItemsOK, InItems
    <3> QED
      BY <3>1, <3>2
  <2>3. \A i, j \in DOMAIN items : i < j => items[i] < items[j]
    BY <2>1 DEF IInv, ItemsOK
  <2>4. /\ dropped = Cardinality({n \in DOMAIN fate : fate[n] = "overflow"})
        /\ \A i \in DOMAIN summaryLines : fate[summaryLines[i]] = "overflow"
    BY <2>1 DEF IInv, SummaryOK, Overflown
  <2>5. \A n \in DOMAIN log : fate[n] = "skipped" =>
            log[n] \in Named /\ \E k \in 1 .. n - 1 : log[k] = log[n]
    BY <2>1 DEF IInv, SkippedOK
  <2>6. \A n, k \in DOMAIN log :
            /\ n < k /\ log[n] = log[k] /\ log[n] \in Named
            /\ fate[k] \notin {"skipped", "duplicate", "refused"}
            => log[n] \in forgotten /\ (DedupeMode # "none" => fate[n] # "queued")
    BY <2>1 DEF IInv, CopiesOK
  <2> QED
    BY <2>2, <2>3, <2>4, <2>5, <2>6 DEF Accounting
<1> QED
  BY <1>1, Invariance, PTL

--------------------------------------------------------------------------------
(* The order of the answers *)

AnswersInOrder ==
    \A n, k \in DOMAIN fate :
        /\ fate'[n] = "answered" /\ fate[n] # "answered"
        /\ fate'[k] = "queued"
        => n < k

\* What the loop answers left the queue: it is the head, or nothing is left behind.
LEMMA LoopAnswersInOrder ==
    ASSUME TypeOK, ItemsOK, NEW d \in Drains, LoopRuns(d)
    PROVE  AnswersInOrder
<1>1. /\ items \in Seq(Arrivals) /\ Len(items) \in Nat /\ Len(items') \in Nat
      /\ Len(fate') = Len(fate) /\ DOMAIN fate = 1..Len(fate)
  BY LoopHistory, LenProperties DEF TypeOK
<1>2. ItemsOK' /\ Ages(fate, fate')
  BY LoopItems
<1> SUFFICES ASSUME NEW n \in 1..Len(fate), NEW k \in 1..Len(fate),
                    fate'[n] = "answered", fate[n] # "answered", fate'[k] = "queued"
             PROVE  n < k
  BY <1>1 DEF AnswersInOrder
<1>3. fate[n] = "queued"
  BY <1>2 DEF Ages
<1>4. PICK i \in 1..Len(items) : items[i] = n
  BY <1>3 DEF ItemsOK, InItems
<1>5. PICK j \in 1..Len(items') : items'[j] = k
  BY <1>1, <1>2 DEF ItemsOK, InItems
<1>6. \A l \in 1..Len(items') : items'[l] # n
  BY <1>2 DEF ItemsOK
<1>7. ~(items' = items)
  BY <1>4, <1>6
<1>8. CASE TookOldest
  <2>1. /\ Len(items') = Len(items) - 1
        /\ \A l \in 1..Len(items') : items'[l] = items[l + 1]
    BY <1>1, <1>8, HeadTailProperties, EmptySeq DEF TookOldest
  <2>2. i = 1
    <3>1. SUFFICES ASSUME i # 1 PROVE FALSE
      OBVIOUS
    <3>2. i - 1 \in 1..Len(items') /\ items'[i - 1] = items[i]
      BY <1>1, <2>1, <3>1
    <3> QED
      BY <1>4, <1>6, <3>2
  <2>3. j + 1 \in 1..Len(items) /\ 1 < j + 1 /\ items[j + 1] = k
    BY <1>1, <1>5, <2>1
  <2> QED
    BY <1>4, <2>2, <2>3 DEF ItemsOK
<1>9. CASE TookAll
  <2>1. Len(items') = 0
    BY <1>9 DEF TookAll
  <2> QED
    BY <1>5, <2>1
<1> QED
  BY <1>7, <1>8, <1>9, LoopTakes DEF TookNothing, TookSummary

\* Outside the loop nothing is answered.
LEMMA OrderStep == TypeOK /\ ItemsOK /\ [Next]_vars => AnswersInOrder
<1> SUFFICES ASSUME TypeOK, ItemsOK, [Next]_vars PROVE AnswersInOrder
  OBVIOUS
<1>1. fate \in Seq(Fates) /\ Len(fate) = Len(log) /\ DOMAIN fate = 1..Len(fate)
  BY LenProperties DEF TypeOK
<1>2. ASSUME \A n \in 1..Len(fate) : fate'[n] = "answered" => fate[n] = "answered"
      PROVE  AnswersInOrder
  BY <1>1, <1>2 DEF AnswersInOrder
<1>3. ASSUME NEW m \in Messages, Enqueue(m) PROVE AnswersInOrder
  <2>1. PICK s \in Settings :
            EnqueueDuplicate(m, s) \/ EnqueueRefused(m, s) \/ EnqueueAccepted(m, s)
    BY <1>3 DEF Enqueue
  <2>2. CASE EnqueueDuplicate(m, s) \/ EnqueueRefused(m, s)
    <3>1. PICK what \in {"duplicate", "refused"} : Logs(m, fate, what)
      BY <2>2, NotTaken
    <3>2. what \in Fates
      BY DEF Fates
    <3>3. \A n \in 1..Len(fate) : fate'[n] = fate[n]
      BY <1>1, <3>1, <3>2, LogFacts
    <3> QED
      BY <1>2, <3>3
  <2>3. CASE EnqueueAccepted(m, s)
    <3>1. Logs(m, Dropped(m, s), "queued") /\ "queued" \in Fates
      BY <2>3, Taken DEF Fates
    <3>2. /\ Dropped(m, s) \in Seq(Fates) /\ Len(Dropped(m, s)) = Len(fate)
          /\ \A n \in 1..Len(fate) :
                Dropped(m, s)[n] \in {"overflow", "discarded", fate[n]}
      BY DroppedFacts
    <3>3. \A n \in 1..Len(fate) : fate'[n] = Dropped(m, s)[n]
      BY <1>1, <3>1, <3>2, LogFacts
    <3> QED
      BY <1>2, <3>2, <3>3
  <2> QED
    BY <2>1, <2>2, <2>3
<1>4. ASSUME NEW m \in Messages, SkipDuplicateInbound(m) PROVE AnswersInOrder
  <2>1. Logs(m, fate, "skipped") /\ "skipped" \in Fates
    BY <1>4 DEF SkipDuplicateInbound, Logs, Fates
  <2>2. \A n \in 1..Len(fate) : fate'[n] = fate[n]
    BY <1>1, <2>1, LogFacts
  <2> QED
    BY <1>2, <2>2
<1>5. ASSUME NEW m \in Messages, Forget(m) PROVE AnswersInOrder
  BY <1>2, <1>5 DEF Forget
<1>6. ASSUME NEW d \in Drains, ScheduleFollowupDrain(d) PROVE AnswersInOrder
  BY <1>2, <1>6, ScheduleMoves
<1>7. ASSUME NEW d \in Drains, LoopRuns(d) PROVE AnswersInOrder
  BY <1>7, LoopAnswersInOrder
<1>8. CASE UNCHANGED vars
  BY <1>2, <1>8 DEF vars
<1> QED
  BY <1>3, <1>4, <1>5, <1>6, <1>7, <1>8 DEF Next, Schedule

\* Messages are answered in the order they came: no turn takes one past an older one
\* that keeps waiting.
THEOREM OldestFirst == SafetySpec => AnsweredInOrder
<1>1. IInv /\ [Next]_vars => [AnswersInOrder]_vars
  BY OrderStep DEF IInv
<1>2. SafetySpec => [][AnswersInOrder]_vars
  BY <1>1, Invariance, PTL DEF SafetySpec
<1> QED
  BY <1>2 DEF AnsweredInOrder, AnswersInOrder

--------------------------------------------------------------------------------
(* Where the replies go, when threads are numbers *)

\* The messages of a turn are in the history, and its reply goes where they came from.
GoesHome(t) ==
    \A i \in DOMAIN t.items :
        /\ t.items[i] \in 1..Len(log)
        /\ Destination(RouteOf(t.items[i])) = Destination(t.route)

HomeInv == \A d \in Drains : drain[d].pc = "turn" => GoesHome(drain[d].turn)

\* The route of a message that waits.
LEMMA ItemRoutes ==
    ASSUME TypeOK, ItemsOK
    PROVE  /\ DOMAIN items = 1..Len(items) /\ Len(items) \in Nat
           /\ \A i \in DOMAIN items : /\ i \in Nat /\ items[i] \in 1..Len(log)
                                      /\ RouteOf(items[i]) \in Routes
<1>1. DOMAIN items = 1..Len(items) /\ Len(items) \in Nat
  BY LenProperties DEF TypeOK
<1>2. ASSUME NEW i \in 1..Len(items)
      PROVE  items[i] \in 1..Len(log) /\ log[items[i]] \in Messages
  BY <1>2, ElementOfSeq DEF TypeOK, ItemsOK
<1> QED
  BY <1>1, <1>2, RouteAssumption DEF RouteOf

\* The first place of a batch, and the first numeric thread, are those of some message.
LEMMA FirstPlaceAndThread ==
    ASSUME TypeOK, ItemsOK
    PROVE  LET place(i) == RouteOf(items[i]).place
               thread(i) == RouteOf(items[i]).thread
           IN  /\ \/ /\ CollectedRoute.place = NoPlace
                     /\ \A i \in DOMAIN items : place(i) = NoPlace
                  \/ \E i \in DOMAIN items : /\ CollectedRoute.place = place(i)
                                             /\ place(i) # NoPlace
               /\ \/ /\ CollectedRoute.thread = NoThread
                     /\ \A i \in DOMAIN items : thread(i) \notin NumberThreads
                  \/ \E i \in DOMAIN items : /\ CollectedRoute.thread = thread(i)
                                             /\ thread(i) \in NumberThreads
<1> DEFINE placed == {i \in DOMAIN items : RouteOf(items[i]).place # NoPlace}
           threaded == {i \in DOMAIN items : RouteOf(items[i]).thread \in NumberThreads}
           Least(S) == CHOOSE i \in S : \A j \in S : i <= j
<1>1. \A S \in SUBSET DOMAIN items : S # {} => Least(S) \in S
  <2> SUFFICES ASSUME NEW S \in SUBSET DOMAIN items, S # {} PROVE Least(S) \in S
    OBVIOUS
  <2>1. S \in SUBSET Nat
    BY ItemRoutes
  <2>2. \E i \in S : \A j \in S : i <= j
    BY <2>1, LeastExists
  <2> QED
    BY <2>2
<1>2. /\ CollectedRoute.place = IF placed = {} THEN NoPlace ELSE RouteOf(items[Least(placed)]).place
      /\ CollectedRoute.thread = IF threaded = {} THEN NoThread
                                 ELSE RouteOf(items[Least(threaded)]).thread
  BY DEF CollectedRoute
<1>3. placed # {} => Least(placed) \in placed
  BY <1>1
<1>4. threaded # {} => Least(threaded) \in threaded
  BY <1>1
<1> HIDE DEF Least
<1> QED
  BY <1>2, <1>3, <1>4

\* Messages that do not cross channels may share the reply.
LEMMA CollectedGoesHome ==
    ASSUME TextThreads = {}, TypeOK, ItemsOK, ~HasCrossChannelItems
    PROVE  \A i \in DOMAIN items : Destination(RouteOf(items[i])) = Destination(CollectedRoute)
<1> DEFINE route(i) == RouteOf(items[i])
           routes == {RouteOf(items[i]) : i \in 1..Len(items)}
           keyed == {r \in routes : ~Unkeyed(r)}
<1>1. \A i \in DOMAIN items :
          /\ route(i) \in routes /\ route(i) \in Routes
          /\ route(i).place \in Places \cup {NoPlace, Unroutable}
          /\ route(i).thread \in NumberThreads \cup {NoThread}
  BY ItemRoutes DEF Routes
<1>2. /\ \A r \in keyed : r.place \in Places
      /\ keyed = {} \/ keyed = routes
      /\ \A r, q \in keyed : RoutingKey(r) = RoutingKey(q)
  BY DEF HasCrossChannelItems
<1>3. NoPlace \notin Places /\ NoThread \notin NumberThreads
  BY PlacesAssumption
<1>4. CASE keyed = {}
  <2>1. \A i \in DOMAIN items : route(i).place = NoPlace
    BY <1>1, <1>4 DEF Unkeyed
  <2>2. CollectedRoute.place = NoPlace
    BY <2>1, FirstPlaceAndThread
  <2> HIDE DEF routes, keyed
  <2> QED
    BY <1>3, <2>1, <2>2 DEF Destination
<1>5. CASE keyed = routes
  <2>1. \A i \in DOMAIN items : route(i).place \in Places
    BY <1>1, <1>2, <1>5
  <2>2. \A i, j \in DOMAIN items : RoutingKey(route(i)) = RoutingKey(route(j))
    BY <1>1, <1>2, <1>5
  <2> HIDE DEF routes, keyed
  <2>3. \A i, j \in DOMAIN items : route(i).place = route(j).place /\ route(i).thread = route(j).thread
    BY <1>1, <1>3, <2>2 DEF RoutingKey
  <2>4. ASSUME NEW i \in DOMAIN items
        PROVE  CollectedRoute.place = route(i).place /\ CollectedRoute.thread = route(i).thread
    <3>1. CollectedRoute.place = route(i).place
      BY <1>3, <2>1, <2>3, FirstPlaceAndThread
    <3>2. CollectedRoute.thread = route(i).thread
      BY <1>1, <1>3, <2>3, FirstPlaceAndThread
    <3> QED
      BY <3>1, <3>2
  <2> QED
    BY <2>4 DEF Destination
<1> QED
  BY <1>2, <1>4, <1>5

\* A turn that the loop starts goes home.
LEMMA LoopGoesHome ==
    ASSUME TextThreads = {}, TypeOK, ItemsOK, HomeInv, NEW d \in Drains, LoopRuns(d)
    PROVE  HomeInv'
<1>1. log' = log
  BY DEF LoopRuns, AfterDebounce, TurnEnds, TurnThrows, inbound
<1>2. ASSUME NEW a, drain' = [drain EXCEPT ![d] = a], a.pc = "turn" => GoesHome(a.turn)
      PROVE  HomeInv'
  <2>1. drain \in [Drains -> Activations]
    BY DEF TypeOK, Activations
  <2>2. ASSUME NEW c \in Drains, drain'[c].pc = "turn" PROVE GoesHome(drain'[c].turn)
    <3>1. CASE c = d
      BY <1>2, <2>1, <2>2, <3>1
    <3>2. CASE c # d
      BY <1>2, <2>1, <2>2, <3>2 DEF HomeInv
    <3> QED
      BY <3>1, <3>2
  <2> QED
    BY <1>1, <2>2 DEF HomeInv, GoesHome, RouteOf
<1>3. ASSUME NEW force, drain' = [drain EXCEPT ![d] = Waiting(force)] PROVE HomeInv'
  BY <1>2, <1>3 DEF Waiting
<1>4. ASSUME drain' = [drain EXCEPT ![d] = Off] PROVE HomeInv'
  BY <1>2, <1>4 DEF Off
<1>5. ASSUME NEW its, NEW count, Finally(d, its, count) PROVE HomeInv'
  BY <1>3, <1>4, <1>5 DEF Finally
<1>6. ASSUME NEW force, NEW its, NEW count, LoopHead(d, force, its, count) PROVE HomeInv'
  BY <1>3, <1>5, <1>6 DEF LoopHead
<1>7. ASSUME NEW force, NEW t, GoesHome(t), drain' = [drain EXCEPT ![d] = Running(force, t)]
      PROVE  HomeInv'
  BY <1>2, <1>7 DEF Running
<1>8. ASSUME NEW force, RunNext(d, force) PROVE HomeInv'
  <2> DEFINE n == Head(items)
             t == [items |-> <<n>>, reports |-> 0, route |-> RouteOf(n)]
  <2>1. items # <<>> /\ drain' = [drain EXCEPT ![d] = Running(force, t)]
    BY <1>8 DEF RunNext
  <2>2. 1 \in DOMAIN items /\ n = items[1]
    BY <2>1, HeadTailProperties, ItemRoutes DEF TypeOK
  <2>3. n \in 1..Len(log)
    BY <2>2, ItemRoutes
  <2>4. GoesHome(t)
    <3>1. \A i \in DOMAIN t.items : t.items[i] = n
      OBVIOUS
    <3>2. t.route = RouteOf(n)
      OBVIOUS
    <3> HIDE DEF t, n
    <3> QED
      BY <2>3, <3>1, <3>2 DEF GoesHome
  <2> HIDE DEF t, n
  <2> QED
    BY <1>7, <2>1, <2>4
<1>9. CASE TurnEnds(d) \/ TurnThrows(d)
  BY <1>5, <1>6, <1>9 DEF TurnEnds, TurnThrows
<1>10. CASE CollectOne(d) \/ RunOne(d)
  BY <1>5, <1>8, <1>10 DEF CollectOne, RunOne, BreakOut
<1>11. CASE CollectAll(d)
  <2> DEFINE t == [items |-> items, reports |-> SummaryCount, route |-> CollectedRoute]
  <2>1. GoesHome(t)
    <3>1. t.items = items /\ t.route = CollectedRoute
      OBVIOUS
    <3>2. ~HasCrossChannelItems
      BY <1>11 DEF CollectAll
    <3> HIDE DEF t
    <3> QED
      BY <3>1, <3>2, ItemRoutes, CollectedGoesHome DEF GoesHome
  <2>2. drain' = [drain EXCEPT ![d] = Running(FALSE, t)]
    BY <1>11 DEF CollectAll
  <2> HIDE DEF t
  <2> QED
    BY <1>7, <2>1, <2>2
<1>12. CASE RunSummary(d)
  <2> DEFINE t == [NoTurn EXCEPT !.reports = dropped]
  <2>1. GoesHome(t)
    BY DEF GoesHome, NoTurn
  <2>2. drain' = [drain EXCEPT ![d] = Running(drain[d].force, t)]
    BY <1>12 DEF RunSummary
  <2> HIDE DEF t
  <2> QED
    BY <1>7, <2>1, <2>2
<1> QED
  BY <1>9, <1>10, <1>11, <1>12 DEF LoopRuns, AfterDebounce

\* What comes in later changes no route of what came before.
LEMMA HistoryGoesHome ==
    ASSUME TypeOK, HomeInv, drain' = drain,
           log' = log \/ \E m \in Messages : log' = Append(log, m)
    PROVE  HomeInv'
<1>1. Len(log) \in Nat /\ log \in Seq(Messages)
  BY LenProperties DEF TypeOK
<1>2. \A n \in 1..Len(log) : n \in 1..Len(log') /\ log'[n] = log[n]
  <2>1. CASE log' = log
    BY <2>1
  <2>2. ASSUME NEW m \in Messages, log' = Append(log, m)
        PROVE  \A n \in 1..Len(log) : n \in 1..Len(log') /\ log'[n] = log[n]
    BY <1>1, <2>2, AppendProperties
  <2> QED
    BY <2>1, <2>2
<1> QED
  BY <1>2 DEF HomeInv, GoesHome, RouteOf

LEMMA HomeStep ==
    ASSUME TextThreads = {}, TypeOK, ItemsOK, HomeInv, [Next]_vars
    PROVE  HomeInv'
<1>1. ASSUME NEW m \in Messages, Enqueue(m) PROVE HomeInv'
  <2>1. PICK s \in Settings :
            EnqueueDuplicate(m, s) \/ EnqueueRefused(m, s) \/ EnqueueAccepted(m, s)
    BY <1>1 DEF Enqueue
  <2>2. drain' = drain /\ log' = Append(log, m)
    BY <2>1, NotTaken, Taken DEF Logs
  <2> QED
    BY <2>2, HistoryGoesHome
<1>2. ASSUME NEW m \in Messages, SkipDuplicateInbound(m) \/ Forget(m) PROVE HomeInv'
  BY <1>2, HistoryGoesHome DEF SkipDuplicateInbound, Forget
<1>3. ASSUME NEW d \in Drains, ScheduleFollowupDrain(d) PROVE HomeInv'
  <2>1. log' = log /\ (drain' = drain \/ drain' = [drain EXCEPT ![d] = Waiting(FALSE)])
    BY <1>3 DEF ScheduleFollowupDrain, inbound
  <2>2. CASE drain' = drain
    BY <2>1, <2>2, HistoryGoesHome
  <2>3. CASE drain' = [drain EXCEPT ![d] = Waiting(FALSE)]
    <3>1. \A c \in Drains : drain'[c].pc = "turn" => c # d /\ drain'[c] = drain[c]
      BY <2>3 DEF TypeOK, Waiting
    <3> QED
      BY <2>1, <3>1 DEF HomeInv, GoesHome, RouteOf
  <2> QED
    BY <2>1, <2>2, <2>3
<1>4. CASE UNCHANGED vars
  BY <1>4, HistoryGoesHome DEF vars, inbound
<1> QED
  BY <1>1, <1>2, <1>3, <1>4, LoopGoesHome DEF Next, Schedule

\* Where threads are numbers, the reply of every turn goes to the place and thread its
\* messages came from, whatever arrives or changes between the reads of the loop.
THEOREM RepliesFindHome ==
    ASSUME TextThreads = {}
    PROVE  SafetySpec => []RepliesGoHome
<1>1. Init => HomeInv
  BY DEF Init, HomeInv, Off
<1>2. IInv /\ HomeInv /\ [Next]_vars => HomeInv'
  BY HomeStep DEF IInv
<1>3. HomeInv => RepliesGoHome
  BY DEF HomeInv, GoesHome, RepliesGoHome
<1> QED
  BY <1>1, <1>2, <1>3, Invariance, PTL DEF SafetySpec

--------------------------------------------------------------------------------
(* The heartbeat *)

\* Whoever asked for a beat is remembered, and while there is a runner the timer is set.
WakesAreRemembered == (owed => pending) /\ (pending /\ handler => timer)

\* running is set exactly while the beat of a wake is under way: it has no second one.
OneBeatOfAWake == running <=> stage["wake"] \in {"health", "turn"}

\* An event that no prompt has taken is in the queue, and somebody is to take it: a wake
\* is owed, or a beat that will take the queue has begun.
EventsAreWaitedFor ==
    /\ unheard \subseteq InQueue(queue)
    /\ unheard # {} => owed \/ stage["wake"] = "health"

\* The text that is remembered is the last one of the queue.
LastTextOK == lastText # NoText => queue # <<>> /\ lastText = queue[Len(queue)]

HeartbeatInv ==
    HeartbeatTypeOK /\ WakesAreRemembered /\ OneBeatOfAWake /\ EventsAreWaitedFor /\ LastTextOK

\* They hold at the start.
LEMMA HeartbeatStarts == HeartbeatInit => HeartbeatInv
<1> SUFFICES ASSUME HeartbeatInit PROVE HeartbeatInv
  OBVIOUS
<1>1. <<>> \in Seq(Texts) /\ Len(<<>>) = 0
  BY EmptySeq
<1>2. HeartbeatTypeOK
  <2>1. stage \in [Callers -> {"idle", "asking", "health", "turn"}] /\ previous \in [Callers -> Nat]
    BY DEF HeartbeatInit
  <2>2. queue \in Seq(Texts) /\ Len(queue) <= MaxEvents
    BY <1>1, BoundsAssumption DEF HeartbeatInit
  <2> QED
    BY <2>1, <2>2 DEF HeartbeatInit, HeartbeatTypeOK
<1> QED
  BY <1>2 DEF HeartbeatInit, HeartbeatInv, WakesAreRemembered, OneBeatOfAWake, EventsAreWaitedFor,
              LastTextOK, Callers

\* A prompt took the events: the queue is empty and nothing is unheard.
LEMMA PromptHears ==
    ASSUME EventsAreWaitedFor, PromptTakesEvents
    PROVE  queue' = <<>> /\ lastText' = NoText /\ unheard' = {}
  BY DEF EventsAreWaitedFor, PromptTakesEvents, Drained

\* An event joins the queue, at the limit in the place of the oldest, or is its last text.
LEMMA EventJoins ==
    ASSUME HeartbeatTypeOK, LastTextOK, NEW text \in Texts, EnqueueSystemEvent(text)
    PROVE  /\ queue' \in Seq(Texts) /\ Len(queue') <= MaxEvents
           /\ lastText' = text /\ queue' # <<>> /\ text = queue'[Len(queue')]
           /\ text \in InQueue(queue')
<1>1. queue \in Seq(Texts) /\ Len(queue) \in Nat /\ Len(queue) <= MaxEvents /\ text # NoText
  BY LenProperties, NoTextAssumption DEF HeartbeatTypeOK
<1>2. CASE lastText = text
  <2>1. queue' = queue /\ lastText' = text
    BY <1>2 DEF EnqueueSystemEvent, events
  <2>2. queue # <<>> /\ text = queue[Len(queue)]
    BY <1>1, <1>2 DEF LastTextOK
  <2>3. Len(queue) \in 1..Len(queue)
    BY <1>1, <2>2, EmptySeq
  <2> QED
    BY <1>1, <2>1, <2>2, <2>3 DEF InQueue
<1>3. CASE lastText # text
  <2> DEFINE longer == Append(queue, text)
  <2>1. /\ longer \in Seq(Texts) /\ Len(longer) = Len(queue) + 1
        /\ longer[Len(queue) + 1] = text
    BY <1>1, AppendProperties
  <2>2. lastText' = text /\ queue' = IF Len(longer) > MaxEvents THEN Tail(longer) ELSE longer
    BY <1>3 DEF EnqueueSystemEvent
  <2> HIDE DEF longer
  <2>3. CASE Len(longer) > MaxEvents
    <3>1. Len(longer) \in Nat /\ MaxEvents \in Nat \ {0} /\ Len(longer) = MaxEvents + 1
      BY <1>1, <2>1, <2>3, BoundsAssumption
    <3>2. longer # <<>>
      BY <3>1, EmptySeq
    <3>3. /\ Tail(longer) \in Seq(Texts) /\ Len(Tail(longer)) = Len(longer) - 1
          /\ \A i \in 1..Len(Tail(longer)) : Tail(longer)[i] = longer[i + 1]
      BY <2>1, <3>2, HeadTailProperties
    <3>4. MaxEvents \in 1..Len(Tail(longer)) /\ Len(Tail(longer)) = MaxEvents
      BY <3>1, <3>3
    <3>5. Tail(longer)[MaxEvents] = text
      BY <2>1, <3>1, <3>3, <3>4
    <3>6. queue' = Tail(longer)
      BY <2>2, <2>3
    <3>7. queue' # <<>>
      BY <3>4, <3>6, EmptySeq, BoundsAssumption
    <3> QED
      BY <2>2, <3>1, <3>3, <3>4, <3>5, <3>6, <3>7 DEF InQueue
  <2>4. CASE ~(Len(longer) > MaxEvents)
    <3>1. queue' = longer /\ Len(longer) \in 1..Len(longer) /\ longer # <<>>
      BY <1>1, <2>1, <2>2, <2>4, EmptySeq
    <3>2. Len(longer) <= MaxEvents
      BY <1>1, <2>1, <2>4, BoundsAssumption
    <3> QED
      BY <2>1, <2>2, <3>1, <3>2 DEF InQueue
  <2> QED
    BY <2>3, <2>4
<1> QED
  BY <1>2, <1>3

\* Every step keeps the types ...
LEMMA HeartbeatTyped ==
    ASSUME HeartbeatTypeOK, LastTextOK, [HeartbeatNext]_heartbeatVars
    PROVE  HeartbeatTypeOK'
<1> USE DEF HeartbeatTypeOK
<1>0. <<>> \in Seq(Texts) /\ Len(<<>>) = 0 /\ 0 <= MaxEvents
  BY EmptySeq, BoundsAssumption
<1>1. CASE Wake
  BY <1>1 DEF Wake, RequestHeartbeatNow, events, entry
<1>2. ASSUME NEW text \in Texts, WakeWithEvent(text) PROVE HeartbeatTypeOK'
  <2>1. queue' \in Seq(Texts) /\ Len(queue') <= MaxEvents /\ lastText' = text
    BY <1>2, EventJoins DEF WakeWithEvent
  <2> QED
    BY <1>2, <2>1 DEF WakeWithEvent, RequestHeartbeatNow, entry
<1>3. CASE WakeWithoutHandler \/ WakeWhileRunning \/ StopRunner \/ StartRunner
  BY <1>3 DEF WakeWithoutHandler, WakeWhileRunning, StopRunner, StartRunner, events, entry, owing
<1>4. CASE WakeFires
  <2>1. stage' \in [Callers -> {"idle", "asking", "health", "turn"}] /\ previous' \in [Callers -> Nat]
    BY <1>4 DEF WakeFires, Enters, Callers
  <2>2. /\ {scheduled', timer', pending', running', owed'} \subseteq BOOLEAN
        /\ unheard' \subseteq Texts
    BY <1>4 DEF WakeFires, Answered, RetrySoon, owing
  <2>3. UNCHANGED <<handler, enabled, cooling, tasks, queue, lastText, updatedAt>>
    BY <1>4 DEF WakeFires, events
  <2> QED
    BY <2>1, <2>2, <2>3
<1>5. CASE CronEnters \/ CronCalls
  BY <1>5 DEF CronEnters, CronCalls, Enters, waker, events, entry, owing, Callers
<1>6. ASSUME NEW c \in Callers, BeatTurn(c) PROVE HeartbeatTypeOK'
  BY <1>0, <1>6 DEF BeatTurn, Enters, PromptTakesEvents, Drained, waker
<1>7. ASSUME NEW c \in Callers, BeatEnds(c) PROVE HeartbeatTypeOK'
  <2>1. updatedAt' \in Nat /\ cooling' \in BOOLEAN
    BY <1>7 DEF BeatEnds, RestoredUpdatedAt
  <2>2. {handler', timer', scheduled', pending', running'} \subseteq BOOLEAN
    BY <1>7 DEF BeatEnds, TimerFinally, waker
  <2>3. stage' \in [Callers -> {"idle", "asking", "health", "turn"}]
    BY <1>7 DEF BeatEnds, Enters
  <2>4. UNCHANGED <<enabled, tasks, queue, lastText, previous, owed, unheard>>
    BY <1>7 DEF BeatEnds, events, owing
  <2> QED
    BY <2>1, <2>2, <2>3, <2>4
<1>8. ASSUME NEW c \in Callers, BeatThrows(c) PROVE HeartbeatTypeOK'
  <2>1. CASE ProcessEnds
    <3>1. stage' \in [Callers -> {"idle", "asking", "health", "turn"}]
      BY <2>1 DEF ProcessEnds
    <3> QED
      BY <1>0, <2>1, <3>1 DEF ProcessEnds, entry
  <2>2. CASE Enters(c, "idle") /\ UNCHANGED <<waker, enabled, cooling, tasks, events, entry, owing>>
    BY <2>2 DEF Enters, waker, events, entry, owing
  <2> QED
    BY <1>8, <2>1, <2>2 DEF BeatThrows
<1>9. CASE MainTurn \/ OtherTurn
  <2>1. queue' \in Seq(Texts) /\ Len(queue') <= MaxEvents /\ lastText' \in Texts \cup {NoText}
    BY <1>0, <1>9 DEF MainTurn, OtherTurn, PromptTakesEvents, Drained, events
  <2>2. unheard' \subseteq Texts /\ tasks' \in Nat /\ updatedAt' \in Nat /\ previous' \in [Callers -> Nat]
    BY <1>9 DEF MainTurn, OtherTurn, PromptTakesEvents, entry, owing
  <2> QED
    BY <1>9, <2>1, <2>2 DEF MainTurn, OtherTurn, waker, owing
<1>10. CASE MainLaneTurnEnds
  BY <1>10 DEF MainLaneTurnEnds, waker, events, entry, owing
<1>11. CASE CooldownEnds \/ SetHeartbeatsEnabled
  BY <1>11 DEF CooldownEnds, SetHeartbeatsEnabled, waker, events, entry, owing
<1>12. CASE UNCHANGED heartbeatVars
  BY <1>12 DEF heartbeatVars, waker, events, entry, owing
<1> QED
  BY <1>1, <1>2, <1>3, <1>4, <1>5, <1>6, <1>7, <1>8, <1>9, <1>10, <1>11, <1>12
  DEF HeartbeatNext, WakeTimer, Beat

\* ... and what the wakes, the beats and the events rely on.
LEMMA HeartbeatSteps ==
    ASSUME HeartbeatInv, [HeartbeatNext]_heartbeatVars
    PROVE  WakesAreRemembered' /\ OneBeatOfAWake' /\ EventsAreWaitedFor' /\ LastTextOK'
<1> DEFINE HeartbeatKeeps == WakesAreRemembered' /\ OneBeatOfAWake' /\ EventsAreWaitedFor' /\ LastTextOK'
<1>0. /\ HeartbeatTypeOK /\ WakesAreRemembered /\ OneBeatOfAWake /\ EventsAreWaitedFor /\ LastTextOK
      /\ stage \in [Callers -> {"idle", "asking", "health", "turn"}]
      /\ "wake" \in Callers /\ "cron" \in Callers /\ {timer, pending, scheduled, handler, running} \subseteq BOOLEAN
  BY DEF HeartbeatInv, HeartbeatTypeOK, Callers
<1>1. CASE Wake
  BY <1>0, <1>1 DEF Wake, RequestHeartbeatNow, events,
                    WakesAreRemembered, OneBeatOfAWake, EventsAreWaitedFor, LastTextOK
<1>2. ASSUME NEW text \in Texts, WakeWithEvent(text) PROVE HeartbeatKeeps
  <2>1. /\ lastText' = text /\ queue' # <<>> /\ text = queue'[Len(queue')] /\ text \in InQueue(queue')
    BY <1>0, <1>2, EventJoins DEF WakeWithEvent
  <2>2. unheard' \subseteq InQueue(queue')
    BY <1>0, <1>2, <2>1 DEF WakeWithEvent, EventsAreWaitedFor
  <2>3. pending' /\ timer' /\ owed' /\ UNCHANGED <<running, stage>>
    BY <1>2 DEF WakeWithEvent, RequestHeartbeatNow
  <2> QED
    BY <1>0, <2>1, <2>2, <2>3 DEF WakesAreRemembered, OneBeatOfAWake, EventsAreWaitedFor, LastTextOK
<1>3. CASE WakeWithoutHandler \/ WakeWhileRunning \/ StopRunner \/ StartRunner
  BY <1>0, <1>3 DEF WakeWithoutHandler, WakeWhileRunning, StopRunner, StartRunner, events, owing,
                    WakesAreRemembered, OneBeatOfAWake, EventsAreWaitedFor, LastTextOK
<1>4. CASE WakeFires
  <2>1. queue' = queue /\ lastText' = lastText /\ handler' = handler /\ timer /\ ~running
    BY <1>4 DEF WakeFires, events
  <2>2. CASE Begins /\ Enters("wake", "health") /\ running' = TRUE /\ timer' = FALSE /\ pending' = FALSE /\ Answered(TRUE)
    BY <1>0, <2>1, <2>2 DEF Enters, Answered,
       WakesAreRemembered, OneBeatOfAWake, EventsAreWaitedFor, LastTextOK
  <2>3. CASE timer' = FALSE /\ pending' = FALSE /\ Answered(FALSE) /\ UNCHANGED <<stage, running>>
    BY <1>0, <2>1, <2>3 DEF Answered, WakesAreRemembered, OneBeatOfAWake, EventsAreWaitedFor, LastTextOK
  <2>4. CASE RetrySoon /\ UNCHANGED <<stage, running, owing>>
    BY <1>0, <2>1, <2>4 DEF RetrySoon, owing, WakesAreRemembered, OneBeatOfAWake, EventsAreWaitedFor, LastTextOK
  <2> QED
    BY <1>4, <2>2, <2>3, <2>4 DEF WakeFires
<1>5. CASE CronEnters \/ CronCalls
  <2>1. stage'["wake"] = stage["wake"]
    BY <1>0, <1>5 DEF CronEnters, CronCalls, Enters
  <2>2. UNCHANGED <<waker, events, owing>>
    BY <1>5 DEF CronEnters, CronCalls
  <2> QED
    BY <1>0, <2>1, <2>2 DEF waker, events, owing,
       WakesAreRemembered, OneBeatOfAWake, EventsAreWaitedFor, LastTextOK
<1>6. ASSUME NEW c \in Callers, BeatTurn(c) PROVE HeartbeatKeeps
  <2>1. queue' = <<>> /\ lastText' = NoText /\ unheard' = {}
    BY <1>0, <1>6, PromptHears DEF BeatTurn
  <2>2. UNCHANGED <<waker, owed>> /\ stage' = [stage EXCEPT ![c] = "turn"] /\ stage[c] = "health"
    BY <1>6 DEF BeatTurn, Enters
  <2>3. stage'["wake"] \in {"health", "turn"} <=> stage["wake"] \in {"health", "turn"}
    BY <1>0, <2>2
  <2> QED
    BY <1>0, <2>1, <2>2, <2>3 DEF waker, WakesAreRemembered, OneBeatOfAWake, EventsAreWaitedFor, LastTextOK
<1>7. ASSUME NEW c \in Callers, BeatEnds(c) PROVE HeartbeatKeeps
  <2>1. stage[c] = "turn" /\ stage' = [stage EXCEPT ![c] = "idle"] /\ UNCHANGED <<queue, lastText, owed, unheard>>
    BY <1>7 DEF BeatEnds, Enters, events, owing
  <2>2. CASE c = "wake"
    <3>1. TimerFinally
      BY <1>7, <2>2 DEF BeatEnds
    <3> QED
      BY <1>0, <2>1, <2>2, <3>1 DEF TimerFinally,
         WakesAreRemembered, OneBeatOfAWake, EventsAreWaitedFor, LastTextOK
  <2>3. CASE c # "wake"
    <3>1. UNCHANGED waker /\ stage'["wake"] = stage["wake"]
      BY <1>0, <1>7, <2>1, <2>3 DEF BeatEnds
    <3> QED
      BY <1>0, <2>1, <3>1 DEF waker, WakesAreRemembered, OneBeatOfAWake, EventsAreWaitedFor, LastTextOK
  <2> QED
    BY <2>2, <2>3
<1>8. ASSUME NEW c \in Callers, BeatThrows(c) PROVE HeartbeatKeeps
  <2>1. CASE ProcessEnds
    BY <1>0, <2>1 DEF ProcessEnds, WakesAreRemembered, OneBeatOfAWake, EventsAreWaitedFor, LastTextOK
  <2>2. CASE c = "cron" /\ Enters(c, "idle") /\ UNCHANGED <<waker, events, owing>>
    <3>1. stage'["wake"] = stage["wake"]
      BY <1>0, <2>2 DEF Enters
    <3> QED
      BY <1>0, <2>2, <3>1 DEF waker, events, owing,
         WakesAreRemembered, OneBeatOfAWake, EventsAreWaitedFor, LastTextOK
  <2> QED
    BY <1>8, <2>1, <2>2 DEF BeatThrows
<1>9. CASE MainTurn
  <2>1. queue' = <<>> /\ lastText' = NoText /\ unheard' = {}
    BY <1>0, <1>9, PromptHears DEF MainTurn
  <2>2. UNCHANGED <<waker, stage, owed>>
    BY <1>9 DEF MainTurn
  <2> QED
    BY <1>0, <2>1, <2>2 DEF waker, WakesAreRemembered, OneBeatOfAWake, EventsAreWaitedFor, LastTextOK
<1>10. CASE OtherTurn \/ MainLaneTurnEnds \/ CooldownEnds \/ SetHeartbeatsEnabled \/ UNCHANGED heartbeatVars
  <2>1. UNCHANGED <<waker, stage, events, owing>>
    BY <1>10 DEF OtherTurn, MainLaneTurnEnds, CooldownEnds, SetHeartbeatsEnabled, heartbeatVars
  <2> QED
    BY <1>0, <2>1 DEF waker, events, owing, WakesAreRemembered, OneBeatOfAWake, EventsAreWaitedFor, LastTextOK
<1> QED
  BY <1>1, <1>2, <1>3, <1>4, <1>5, <1>6, <1>7, <1>8, <1>9, <1>10 DEF HeartbeatNext, WakeTimer, Beat

\* HeartbeatInv is an invariant.
LEMMA HeartbeatInvariance == HeartbeatSpec => []HeartbeatInv
<1>1. HeartbeatInv /\ [HeartbeatNext]_heartbeatVars => HeartbeatInv'
  BY HeartbeatTyped, HeartbeatSteps DEF HeartbeatInv
<1> QED
  BY <1>1, HeartbeatStarts, PTL DEF HeartbeatSpec

\* The wake timer, the beats, the queue of events and the entry keep their types.
THEOREM HeartbeatTypeCorrect == HeartbeatSpec => []HeartbeatTypeOK
<1>1. HeartbeatInv => HeartbeatTypeOK
  BY DEF HeartbeatInv
<1> QED
  BY <1>1, HeartbeatInvariance, PTL

\* No wake is forgotten while the process lives: while one is owed its reason is kept, and with
\* a runner its timer is set, though a beat gives way to the main lane, a wake comes while a
\* beat runs, a job's own beat throws, or the runner is replaced.  A beat of the timer that
\* throws ends the process, and then nothing is owed any more.
THEOREM NoWakeIsForgotten == HeartbeatSpec => []WakesAreRemembered
<1>1. HeartbeatInv => WakesAreRemembered
  BY DEF HeartbeatInv
<1> QED
  BY <1>1, HeartbeatInvariance, PTL

\* The wake timer has one beat at a time under way, and running tells when.
THEOREM WakesDoNotOverlap == HeartbeatSpec => []OneBeatOfAWake
<1>1. HeartbeatInv => OneBeatOfAWake
  BY DEF HeartbeatInv
<1> QED
  BY <1>1, HeartbeatInvariance, PTL

\* No event that came with a wake is left behind: until a prompt takes it, its beat is skipped
\* or the process ends, it is in the queue and a wake is owed for it or a beat on its way to
\* the prompt.
THEOREM NoEventIsLeftBehind == HeartbeatSpec => []EventsAreWaitedFor
<1>1. HeartbeatInv => EventsAreWaitedFor
  BY DEF HeartbeatInv
<1> QED
  BY <1>1, HeartbeatInvariance, PTL

================================================================================
