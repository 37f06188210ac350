--------------------------- MODULE CronServiceProofs ----------------------------
(***************************************************************************)
(* For all jobs, schedules, requests and restarts: the next run of an      *)
(* interval is its nearest slot, a tick waits at most once, a service at   *)
(* rest has its timer set for every next run, and a one-shot that is       *)
(* recorded as done is not executed by the timer.                          *)
(*                                                                         *)
(* The timer may be out of step with the store while something is under    *)
(* way, for then a write that arms it is still to come: for the jobs that  *)
(* the operation under way may change, and for all while a tick is on the  *)
(* chain.  An operation that throws changes nothing for the other jobs.    *)
(***************************************************************************)
EXTENDS CronService, SequenceTheorems, FiniteSetTheorems, WellFoundedInduction, TLAPS

EveryRun == EverySchedules(Nat \ {0}, Nat \cup {NoAnchor})

--------------------------------------------------------------------------------
(* Interval schedules *)

\* Rounding a number of ticks up to whole periods.
LEMMA WholePeriods ==
    ASSUME NEW e \in Nat \ {0}, NEW d \in Nat
    PROVE  LET q == (d + e - 1) \div e
           IN  q \in Nat /\ q * e \in Nat /\ q * e >= d /\ q * e < d + e
<1> DEFINE n == d + e - 1
           q == n \div e
<1>1. n \in Nat /\ e \in Int /\ e > 0
  OBVIOUS
<1>2. q \in Int
  BY <1>1
<1>3. q * e <= n
  BY <1>1
<1>4. n < q * e + e
  BY <1>1
<1> HIDE DEF q
<1>5. q >= 0
  <2> SUFFICES ASSUME q < 0 PROVE FALSE
    BY <1>2
  <2>1. (q + 1) * e <= 0
    BY <1>1, <1>2
  <2>2. (q + 1) * e = q * e + e
    BY <1>1, <1>2
  <2> QED
    BY <1>1, <1>2, <1>4, <2>1, <2>2
<1>6. q \in Nat /\ q * e \in Nat
  BY <1>1, <1>2, <1>5
<1> QED
  BY <1>3, <1>4, <1>6 DEF q

\* Between two multiples that follow each other there is none.
LEMMA NoneBetween ==
    ASSUME NEW e \in Nat \ {0}, NEW q \in Nat, NEW m \in Nat,
           m * e < q * e, q * e < m * e + e
    PROVE  FALSE
<1>1. m < q
  <2> SUFFICES ASSUME q <= m PROVE FALSE
    OBVIOUS
  <2>1. q * e <= m * e
    OBVIOUS
  <2> QED
    BY <2>1
<1>2. (m + 1) * e <= q * e
  BY <1>1
<1>3. (m + 1) * e = m * e + e
  OBVIOUS
<1> QED
  BY <1>2, <1>3

\* The next run of an interval schedule is its nearest slot, for every period, anchor
\* and time.
THEOREM NearestSlot ==
    ASSUME NEW s \in EveryRun, NEW now \in Nat
    PROVE  LET next == NextEvery(s, now)
           IN  /\ next \in Nat /\ next >= now /\ IsSlot(s, now, next)
               /\ \A t \in now + 1 .. next - 1 : ~IsSlot(s, now, t)
<1> DEFINE anchor == IF s.anchor = NoAnchor THEN now ELSE s.anchor
           e == s.every
           q == (now - anchor + e - 1) \div e
           steps == Larger(1, q)
           next == NextEvery(s, now)
<1>1. anchor \in Nat /\ e \in Nat \ {0}
  BY DEF EveryRun, EverySchedules, NoAnchor
<1>2. next = IF now < anchor THEN anchor ELSE anchor + steps * e
  BY DEF NextEvery
<1>3. \A t : IsSlot(s, now, t) <=> \E n \in 0..t : t = anchor + n * e
  BY DEF IsSlot
<1> HIDE DEF anchor, e, next
<1>4. CASE now < anchor
  <2>1. next = anchor /\ IsSlot(s, now, anchor)
    <3>1. 0 \in 0..anchor /\ anchor = anchor + 0 * e
      BY <1>1
    <3> QED
      BY <1>2, <1>3, <1>4, <3>1
  <2>2. ASSUME NEW t \in now + 1 .. next - 1, NEW n \in 0..t
        PROVE  t # anchor + n * e
    <3>1. n * e \in Nat /\ t < anchor
      BY <1>1, <2>1
    <3> QED
      BY <1>1, <3>1
  <2> QED
    BY <1>1, <1>3, <1>4, <2>1, <2>2 DEF next
<1>5. CASE now >= anchor
  <2> DEFINE d == now - anchor
  <2>1. d \in Nat /\ d + anchor = now
    BY <1>1, <1>5
  <2>2. q \in Nat /\ q * e >= d /\ q * e < d + e /\ q * e \in Nat
    BY <1>1, <2>1, WholePeriods
  <2> HIDE DEF q
  <2>3. steps \in Nat /\ steps * e >= d /\ steps * e <= d + e /\ steps * e \in Nat
    <3>1. CASE q >= 1
      BY <2>1, <2>2, <3>1, <1>1 DEF Larger
    <3>2. CASE q = 0
      <4>1. steps = 1 /\ steps * e = e /\ d = 0
        BY <1>1, <2>1, <2>2, <3>2 DEF Larger
      <4> QED
        BY <1>1, <4>1
    <3> QED
      BY <2>2, <3>1, <3>2
  <2>4. next = anchor + steps * e
    BY <1>1, <1>2, <1>5
  <2> HIDE DEF steps, d
  <2>5. next \in Nat /\ next >= now /\ steps <= steps * e /\ steps * e <= next
    BY <1>1, <2>1, <2>3, <2>4
  <2>6. IsSlot(s, now, next)
    <3>1. steps \in 0..next
      BY <2>3, <2>5
    <3> QED
      BY <1>3, <2>4, <3>1
  <2>7. ASSUME NEW t \in now + 1 .. next - 1, NEW n \in 0..t, t = anchor + n * e
        PROVE  FALSE
    <3>1. n \in Nat /\ n * e \in Nat /\ t \in Nat
      BY <1>1, <2>1, <2>5
    <3>2. n * e < steps * e /\ steps * e < n * e + e
      BY <1>1, <2>1, <2>3, <2>4, <2>5, <2>7, <3>1
    <3> QED
      BY <1>1, <2>3, <3>1, <3>2, NoneBetween
  <2> QED
    BY <1>3, <2>5, <2>6, <2>7 DEF next
<1> QED
  BY <1>1, <1>4, <1>5

--------------------------------------------------------------------------------
(* Jobs and stores *)

\* The next run of a schedule is a time, or Unset.
LEMMA NextRunType ==
    ASSUME NEW s \in Schedules, ~Throws(s), NEW now \in Nat
    PROVE  ComputeNextRunAtMs(s, now) \in Times
<1>1. CASE s \in AtSchedules(Nat)
  BY <1>1 DEF AtSchedules, ComputeNextRunAtMs, Times
<1>2. CASE s \in EveryRun
  <2>1. NextEvery(s, now) \in Nat
    BY <1>2, NearestSlot
  <2>2. s.kind = "every"
    BY <1>2 DEF EveryRun, EverySchedules
  <2>3. ComputeNextRunAtMs(s, now) = NextEvery(s, now)
    BY <2>2 DEF ComputeNextRunAtMs
  <2> QED
    BY <2>1, <2>3 DEF Times
<1>3. CASE s \in CronSchedules(Nat \ {0})
  <2>1. s.kind = "cron" /\ s.every \in Nat \ {0}
    BY <1>3 DEF CronSchedules
  <2> DEFINE e == s.every
             q == now \div e
  <2>2. q \in Nat
    <3>0. e \in Int /\ e > 0
      BY <2>1
    <3> HIDE DEF e
    <3>1. q \in Int /\ now < q * e + e
      BY <3>0
    <3> HIDE DEF q
    <3>2. ASSUME q < 0 PROVE FALSE
      <4>1. (q + 1) * e <= 0 /\ (q + 1) * e = q * e + e
        BY <3>0, <3>1, <3>2
      <4> QED
        BY <3>0, <3>1, <4>1
    <3> QED
      BY <3>1, <3>2
  <2>3. (q + 1) * e \in Nat
    <3> HIDE DEF q
    <3> QED
      BY <2>1, <2>2
  <2>4. ComputeNextRunAtMs(s, now) = (q + 1) * e
    BY <2>1 DEF ComputeNextRunAtMs, NextCron
  <2> QED
    BY <2>3, <2>4 DEF Times
<1> QED
  BY <1>1, <1>2, <1>3, SchedulesAssumption DEF EveryRun, Throws

LEMMA RescheduledType ==
    ASSUME NEW j \in JobRecords, ~Refused(j), NEW now \in Nat
    PROVE  Rescheduled(j, now) \in JobRecords
<1>1. j.sched \in Schedules /\ j.running \in BOOLEAN /\ j.enabled \in BOOLEAN
  BY DEF JobRecords
<1>2. JobNextRun(j, now) \in Times
  <2>1. j.sched.kind = "at" => j.sched.at \in Nat
    BY <1>1, SchedulesAssumption
    DEF AtSchedules, EverySchedules, CronSchedules, InvalidCron
  <2>2. j.enabled => ~Throws(j.sched)
    BY DEF Refused
  <2> QED
    BY <1>1, <2>1, <2>2, NextRunType DEF JobNextRun, Times
<1> QED
  BY <1>1, <1>2 DEF Rescheduled, JobRecords

\* What the operations do to a store leaves a store.
LEMMA StoreType ==
    ASSUME NEW S, IsStore(S)
    PROVE  /\ DOMAIN S \subseteq Jobs
           /\ \A k \in DOMAIN S : S[k] \in JobRecords
  BY DEF IsStore

LEMMA RecomputeType ==
    ASSUME NEW S, IsStore(S), NEW K \in SUBSET DOMAIN S, NEW now \in Nat,
           \A k \in K : ~Refused(S[k])
    PROVE  IsStore(RecomputeNextRuns(S, K, now))
<1>1. \A k \in DOMAIN S : (IF k \in K THEN Rescheduled(S[k], now) ELSE S[k]) \in JobRecords
  BY StoreType, RescheduledType
<1> QED
  BY <1>1, StoreType DEF RecomputeNextRuns, IsStore

LEMMA WithType ==
    ASSUME NEW S, IsStore(S), NEW k \in Jobs, NEW j \in JobRecords
    PROVE  IsStore(With(S, k, j))
<1> DEFINE D == DOMAIN S \cup {k}
           T == [i \in D |-> IF i = k THEN j ELSE S[i]]
<1>1. D \in SUBSET Jobs /\ \A i \in D : (IF i = k THEN j ELSE S[i]) \in JobRecords
  BY StoreType
<1>2. With(S, k, j) = T
  BY DEF With
<1> HIDE DEF D
<1>3. T \in [D -> JobRecords]
  BY <1>1
<1> QED
  BY <1>1, <1>2, <1>3 DEF IsStore

LEMMA WithoutType ==
    ASSUME NEW S, IsStore(S), NEW k
    PROVE  IsStore(Without(S, k)) /\ DOMAIN Without(S, k) = DOMAIN S \ {k}
  BY StoreType DEF Without, IsStore

LEMMA ChangedType ==
    ASSUME NEW S, IsStore(S), NEW k \in DOMAIN S, NEW j \in JobRecords
    PROVE  IsStore([S EXCEPT ![k] = j]) /\ DOMAIN [S EXCEPT ![k] = j] = DOMAIN S
  BY StoreType DEF IsStore

LEMMA RunningType ==
    ASSUME NEW S, IsStore(S), NEW k \in DOMAIN S
    PROVE  IsStore(Running(S, k)) /\ DOMAIN Running(S, k) = DOMAIN S
<1> DEFINE j == [S[k] EXCEPT !.running = TRUE]
<1>1. S[k] \in JobRecords
  BY StoreType
<1>2. j \in JobRecords
  BY <1>1 DEF JobRecords
<1>3. Running(S, k) = [S EXCEPT ![k] = j]
  BY DEF Running
<1> HIDE DEF j
<1>4. /\ IsStore([S EXCEPT ![k] = j])
      /\ DOMAIN [S EXCEPT ![k] = j] = DOMAIN S
  BY <1>2, ChangedType
<1> QED
  BY <1>3, <1>4

LEMMA FinishedType ==
    ASSUME NEW j \in JobRecords, ~Refused(j), NEW status \in Statuses, clock \in Nat
    PROVE  Finished(j, status) \in JobRecords /\ FailedToFinish(j) \in JobRecords
<1> DEFINE done == [j EXCEPT !.running = FALSE, !.last = status,
                          !.enabled = @ /\ ~(j.sched.kind = "at" /\ status = "ok")]
<1>1. done \in JobRecords /\ ~Refused(done)
  BY DEF JobRecords, Statuses, Refused
<1> HIDE DEF done
<1>2. Rescheduled(done, clock) \in JobRecords
  BY <1>1, RescheduledType
<1>3. FailedToFinish(j) \in JobRecords
  BY DEF FailedToFinish, JobRecords
<1> QED
  BY <1>2, <1>3 DEF Finished, done

LEMMA PatchedType ==
    ASSUME NEW j \in JobRecords, NEW r \in Operations, r.op = "update"
    PROVE  Patched(j, r) \in JobRecords
<1>1. r.sched \in Schedules \cup {Keep} /\ r.enabled \in BOOLEAN \cup {Keep}
  BY DEF Operations
<1> QED
  BY <1>1 DEF Patched, JobRecords

--------------------------------------------------------------------------------
(* The invariant *)

\* Where the ticks are on a chain.
Ticks(c) == {i \in DOMAIN c : c[i] = Tick}

\* An operation that has begun is on the chain and has the store; the jobs it has
\* to execute are in the store, and it may change them.
StageOK(g) ==
    /\ stage[g] # "wait" => chain[g] # <<>> /\ store[g] # NotLoaded
    /\ stage[g] = "jobs" =>
          due[g] \subseteq DOMAIN store[g] /\ due[g] \subseteq ChangedBy(Head(chain[g]))
    /\ exec[g] # NoJob =>
          stage[g] = "jobs" /\ exec[g] \in DOMAIN store[g] /\ exec[g] \in due[g]

\* A service that was not started yet has done nothing.
FutureOK(g) ==
    g > current =>
        store[g] = NotLoaded /\ chain[g] = <<>> /\ ~ticking[g] /\ timer[g] = Unset

TicksOK(g) == IF ticking[g] THEN \E i : Ticks(chain[g]) = {i} ELSE Ticks(chain[g]) = {}

GenerationsOK == \A g \in Generations : StageOK(g) /\ FutureOK(g) /\ TicksOK(g)

\* Whatever comes first, the store is loaded by the start.
FirstOK == store[current] = NotLoaded => chain[current] # <<>> /\ Head(chain[current]) = Start

\* The timer that is set covers a run.
Covered(time) == timer[current] # Unset /\ timer[current] <= Larger(time, clock)

\* The jobs that the operation under way may change.
Touched == IF stage[current] = "wait" THEN {} ELSE ChangedBy(Head(chain[current]))

\* The timer is set for a job, or the write that sets it is still to come.
TimerOK ==
    store[current] # NotLoaded /\ ~ticking[current] =>
        \A k \in DOMAIN store[current] \ (unwatched \cup Touched) :
            Waits(store[current][k]) => Covered(store[current][k].next)

IInv == TypeOK /\ GenerationsOK /\ FirstOK /\ TimerOK

\* Save for the jobs of C, the runs that S waits for are those of T.
SameBut(S, T, C) ==
    \A k \in DOMAIN S \ C :
        k \in DOMAIN T /\ S[k].enabled = T[k].enabled /\ S[k].next = T[k].next

\* No job that is done waits for a run.
Done(j) == j.sched.kind = "at" /\ j.last = "ok"
DoneRests(S) == \A k \in DOMAIN S : Done(S[k]) => S[k].next = Unset

--------------------------------------------------------------------------------
(* Chains *)

LEMMA OperationFacts ==
    ASSUME NEW r \in Operations
    PROVE  /\ r.op \in {"start", "tick", "status", "add", "update", "remove", "run"}
           /\ r.op = "add" => r.job \in Jobs /\ r.sched \in Schedules /\ r.once \in BOOLEAN
           /\ r.op \in {"update", "remove", "run"} => r.job \in Jobs
  BY DEF Operations

LEMMA TickFacts ==
    /\ Tick \in Operations /\ Start \in Operations /\ Tick # Start
    /\ Tick.op = "tick" /\ Start.op = "start"
  BY DEF Tick, Start, Operations

LEMMA ChangedByFacts ==
    /\ ChangedBy(Tick) = Jobs /\ ChangedBy(Start) = Jobs
    /\ \A r \in Operations : ChangedBy(r) \subseteq Jobs
<1>1. ChangedBy(Tick) = Jobs /\ ChangedBy(Start) = Jobs
  BY TickFacts DEF ChangedBy
<1>2. ASSUME NEW r \in Operations PROVE ChangedBy(r) \subseteq Jobs
  <2>1. r.op \in {"add", "update", "run"} => r.job \in Jobs
    BY DEF Operations
  <2> QED
    BY <2>1 DEF ChangedBy
<1> QED
  BY <1>1, <1>2

LEMMA AppendTicks ==
    ASSUME NEW c \in Seq(Operations), NEW r \in Operations
    PROVE  /\ Append(c, r) \in Seq(Operations) /\ Append(c, r) # <<>>
           /\ c # <<>> => Head(Append(c, r)) = Head(c)
           /\ r # Tick => Ticks(Append(c, r)) = Ticks(c)
           /\ r = Tick => Ticks(Append(c, r)) = Ticks(c) \cup {Len(c) + 1}
<1>1. /\ Append(c, r) \in Seq(Operations) /\ Append(c, r) # <<>>
      /\ DOMAIN Append(c, r) = DOMAIN c \cup {Len(c) + 1}
      /\ \A i \in DOMAIN c : Append(c, r)[i] = c[i]
      /\ Append(c, r)[Len(c) + 1] = r
  OBVIOUS
<1>2. c # <<>> => Head(Append(c, r)) = Head(c)
  OBVIOUS
<1> QED
  BY <1>1, <1>2 DEF Ticks

LEMMA TailTicks ==
    ASSUME NEW c \in Seq(Operations), c # <<>>
    PROVE  /\ Tail(c) \in Seq(Operations) /\ Head(c) \in Operations
           /\ Head(c) = Tick <=> 1 \in Ticks(c)
           /\ \A i : i \in Ticks(Tail(c)) <=> i \in Nat \ {0} /\ i + 1 \in Ticks(c)
           /\ \A i \in Ticks(c) : i \in Nat \ {0}
<1>1. /\ Tail(c) \in Seq(Operations) /\ Head(c) \in Operations /\ Head(c) = c[1]
      /\ Len(c) \in Nat \ {0} /\ DOMAIN c = 1..Len(c)
      /\ DOMAIN Tail(c) = 1..Len(c) - 1
      /\ \A i \in 1..Len(c) - 1 : Tail(c)[i] = c[i + 1]
  OBVIOUS
<1> QED
  BY <1>1 DEF Ticks

--------------------------------------------------------------------------------
(* Steps of an operation *)

\* The timer covers what it covered, if no other job waits for a run.
LEMMA TimerStays ==
    ASSUME TimerOK, UNCHANGED <<clock, current>>, timer'[current] = timer[current],
           \A k \in DOMAIN store'[current] \ (unwatched' \cup Touched') :
              store'[current] # NotLoaded /\ ~ticking'[current] =>
                 /\ store[current] # NotLoaded /\ ~ticking[current]
                 /\ k \in DOMAIN store[current] \ (unwatched \cup Touched)
                 /\ store'[current][k].enabled = store[current][k].enabled
                 /\ store'[current][k].next = store[current][k].next
    PROVE  TimerOK'
  BY DEF TimerOK, Covered, Waits

\* An operation that goes on with a store, or that begins with one.
LEMMA ProceedKeeps ==
    ASSUME IInv, NEW g \in Generations, NEW S, IsStore(S), NEW K \in SUBSET DOMAIN S,
           K \subseteq ChangedBy(Head(chain[g])),
           SameBut(S, Loaded(g), ChangedBy(Head(chain[g]))),
           Proceed(g, S, K), chain[g] # <<>>, exec' = [exec EXCEPT ![g] = NoJob],
           UNCHANGED <<clock, disk, current, timer, asked>>
    PROVE  IInv'
<1>1. /\ DOMAIN store' = Generations /\ store'[g] = S /\ S # NotLoaded
      /\ \A h \in Generations : h # g => store'[h] = store[h]
      /\ UNCHANGED <<chain, ticking, unsaved, unwatched, overlap>>
  BY NotLoadedAssumption DEF IInv, TypeOK, Proceed, history
<1>2. /\ stage' \in [Generations -> {"wait", "jobs", "persist"}]
      /\ stage'[g] = IF K = {} THEN "persist" ELSE "jobs"
      /\ \A h \in Generations : h # g => stage'[h] = stage[h]
  BY DEF IInv, TypeOK, Proceed
<1>3. /\ due' \in [Generations -> SUBSET Jobs] /\ due'[g] = K
      /\ \A h \in Generations : h # g => due'[h] = due[h]
  BY StoreType DEF IInv, TypeOK, Proceed
<1>4. /\ exec' \in [Generations -> Jobs \cup {NoJob}] /\ exec'[g] = NoJob
      /\ \A h \in Generations : h # g => exec'[h] = exec[h]
  BY DEF IInv, TypeOK
<1>5. TypeOK'
  BY <1>1, <1>2, <1>3, <1>4 DEF IInv, TypeOK
<1>6. GenerationsOK'
  <2>1. ASSUME NEW h \in Generations PROVE StageOK(h)'
    <3>1. CASE h = g
      BY <1>1, <1>2, <1>3, <1>4, <3>1 DEF StageOK
    <3>2. CASE h # g
      <4>1. StageOK(h)
        BY DEF IInv, GenerationsOK
      <4> QED
        BY <1>1, <1>2, <1>3, <1>4, <3>2, <4>1 DEF StageOK
    <3> QED
      BY <3>1, <3>2
  <2>2. ASSUME NEW h \in Generations PROVE FutureOK(h)'
    BY <1>1 DEF IInv, GenerationsOK, FutureOK
  <2>3. ASSUME NEW h \in Generations PROVE TicksOK(h)'
    BY <1>1 DEF IInv, GenerationsOK, TicksOK
  <2> QED
    BY <2>1, <2>2, <2>3 DEF GenerationsOK
<1>7. FirstOK'
  BY <1>1 DEF IInv, TypeOK, FirstOK
<1>8. TimerOK'
  <2> DEFINE C == ChangedBy(Head(chain[g]))
  <2>1. CASE g = current
    <3>1. Touched' = C
      BY <1>1, <1>2, <2>1 DEF Touched
    <3>2. ASSUME NEW k \in DOMAIN S \ (unwatched \cup C)
          PROVE  /\ store[g] # NotLoaded /\ k \in DOMAIN store[g] \ (unwatched \cup Touched)
                 /\ S[k].enabled = store[g][k].enabled /\ S[k].next = store[g][k].next
      <4>1. store[g] # NotLoaded
        BY <2>1, <3>2, StoreType, ChangedByFacts DEF IInv, FirstOK
      <4>2. Loaded(g) = store[g] /\ k \notin Touched
        BY <2>1, <3>2, <4>1 DEF Loaded, Touched
      <4> QED
        BY <3>2, <4>1, <4>2 DEF SameBut
    <3> HIDE DEF C
    <3> QED
      BY <1>1, <2>1, <3>1, <3>2, TimerStays DEF IInv
  <2>2. CASE g # current
    <3>1. current \in Generations
      BY DEF IInv, TypeOK
    <3>2. /\ store'[current] = store[current] /\ Touched' = Touched
      BY <1>1, <1>2, <2>2, <3>1 DEF Touched
    <3> QED
      BY <1>1, <3>2, TimerStays DEF IInv
  <2> QED
    BY <2>1, <2>2
<1> QED
  BY <1>5, <1>6, <1>7, <1>8 DEF IInv

\* An operation that ends.  The timer is another matter.
LEMMA EndKeeps ==
    ASSUME IInv, NEW g \in Generations, NEW S, IsStore(S), EndOp(g), chain[g] # <<>>,
           DOMAIN store' = Generations, store'[g] = S,
           \A h \in Generations : h # g => store'[h] = store[h],
           UNCHANGED <<clock, current, asked>>,
           exec' = [exec EXCEPT ![g] = NoJob],
           due' \in [Generations -> SUBSET Jobs],
           \A h \in Generations : h # g => due'[h] = due[h],
           IsStore(disk'), {unsaved', overlap'} \subseteq BOOLEAN, unwatched' \subseteq Jobs,
           timer' \in [Generations -> Times],
           \A h \in Generations : h # g => timer'[h] = timer[h]
    PROVE  /\ TypeOK' /\ GenerationsOK' /\ FirstOK'
           /\ store'[g] = S /\ S # NotLoaded /\ stage'[g] = "wait"
           /\ ticking'[g] = (ticking[g] /\ Head(chain[g]) # Tick)
           /\ \A h \in Generations : h # g =>
                 /\ store'[h] = store[h] /\ stage'[h] = stage[h] /\ ticking'[h] = ticking[h]
                 /\ chain'[h] = chain[h]
<1>0. /\ exec' \in [Generations -> Jobs \cup {NoJob}] /\ exec'[g] = NoJob
      /\ \A h \in Generations : h # g => exec'[h] = exec[h]
  BY DEF IInv, TypeOK
<1>1. S # NotLoaded
  BY NotLoadedAssumption
<1>2. /\ stage' \in [Generations -> {"wait", "jobs", "persist"}] /\ stage'[g] = "wait"
      /\ \A h \in Generations : h # g => stage'[h] = stage[h]
  BY DEF IInv, TypeOK, EndOp
<1>3. /\ ticking' \in [Generations -> BOOLEAN]
      /\ ticking'[g] = (ticking[g] /\ Head(chain[g]) # Tick)
      /\ \A h \in Generations : h # g => ticking'[h] = ticking[h]
  BY DEF IInv, TypeOK, EndOp
<1>4. /\ chain[g] \in Seq(Operations)
      /\ Tail(chain[g]) \in Seq(Operations)
  BY TailTicks DEF IInv, TypeOK
<1>5. /\ chain' \in [Generations -> Seq(Operations)] /\ chain'[g] = Tail(chain[g])
      /\ \A h \in Generations : h # g => chain'[h] = chain[h]
  BY <1>4 DEF IInv, TypeOK, EndOp
<1>6. TypeOK'
  BY <1>0, <1>1, <1>2, <1>3, <1>5 DEF IInv, TypeOK
<1>7. GenerationsOK'
  <2>1. ASSUME NEW h \in Generations PROVE StageOK(h)'
    <3>1. CASE h = g
      BY <1>0, <1>1, <1>2, <3>1 DEF StageOK
    <3>2. CASE h # g
      <4>1. StageOK(h)
        BY DEF IInv, GenerationsOK
      <4> QED
        BY <1>0, <1>2, <1>5, <3>2, <4>1 DEF StageOK
    <3> QED
      BY <3>1, <3>2
  <2>2. ASSUME NEW h \in Generations PROVE FutureOK(h)'
    BY <1>1, <1>3, <1>5 DEF IInv, GenerationsOK, FutureOK
  <2>3. ASSUME NEW h \in Generations PROVE TicksOK(h)'
    <3>1. CASE h # g
      BY <1>3, <1>5, <3>1 DEF IInv, GenerationsOK, TicksOK
    <3>2. CASE h = g
      <4> DEFINE T == Ticks(chain[g])
                 U == Ticks(Tail(chain[g]))
      <4>1. /\ Head(chain[g]) = Tick <=> 1 \in T
            /\ \A i : i \in U <=> i \in Nat \ {0} /\ i + 1 \in T
            /\ \A i \in T : i \in Nat \ {0}
        BY <1>4, TailTicks
      <4>2. IF ticking[g] THEN \E i : T = {i} ELSE T = {}
        BY DEF IInv, GenerationsOK, TicksOK
      <4>3. ticking'[g] = (ticking[g] /\ 1 \notin T)
        BY <1>3, <4>1
      <4> HIDE DEF T, U
      <4>4. IF ticking'[g] THEN \E i : U = {i} ELSE U = {}
        <5>1. CASE ~ticking[g]
          <6>1. U = {}
            BY <4>1, <4>2, <5>1
          <6> QED
            BY <4>3, <5>1, <6>1
        <5>2. CASE ticking[g] /\ 1 \in T
          <6>1. U = {}
            BY <4>1, <4>2, <5>2
          <6> QED
            BY <4>3, <5>2, <6>1
        <5>3. CASE ticking[g] /\ 1 \notin T
          <6>1. PICK i : T = {i}
            BY <4>2, <5>3
          <6>2. i - 1 \in Nat \ {0}
            BY <4>1, <5>3, <6>1
          <6>3. \A k : k \in U <=> k = i - 1
            BY <4>1, <6>1, <6>2
          <6>4. U = {i - 1}
            BY <6>3
          <6> QED
            BY <4>3, <5>3, <6>4
        <5> QED
          BY <5>1, <5>2, <5>3
      <4> QED
        BY <1>5, <3>2, <4>4 DEF TicksOK, U
    <3> QED
      BY <3>1, <3>2
  <2> QED
    BY <2>1, <2>2, <2>3 DEF GenerationsOK
<1>8. FirstOK'
  BY <1>1, <1>5 DEF IInv, TypeOK, FirstOK
<1> QED
  BY <1>1, <1>2, <1>3, <1>5, <1>6, <1>7, <1>8

\* An operation that throws.
LEMMA ThrowKeeps ==
    ASSUME IInv, NEW g \in Generations, NEW S, IsStore(S),
           SameBut(S, Loaded(g), ChangedBy(Head(chain[g]))),
           Throw(g, S), chain[g] # <<>>, exec' = [exec EXCEPT ![g] = NoJob],
           UNCHANGED <<clock, disk, current, timer, asked>>
    PROVE  IInv'
<1> DEFINE C == ChangedBy(Head(chain[g]))
<1>1. /\ EndOp(g) /\ DOMAIN store' = Generations /\ store'[g] = S
      /\ \A h \in Generations : h # g => store'[h] = store[h]
  BY DEF Throw, IInv, TypeOK
<1>2. /\ due' \in [Generations -> SUBSET Jobs]
      /\ \A h \in Generations : h # g => due'[h] = due[h]
  BY DEF Throw, IInv, TypeOK
<1>3. Head(chain[g]) \in Operations /\ C \subseteq Jobs
  BY TailTicks, ChangedByFacts DEF IInv, TypeOK
<1>4. /\ {unsaved', overlap'} \subseteq BOOLEAN
      /\ unwatched' = unwatched \cup (IF g = current THEN C ELSE {})
      /\ unwatched' \subseteq Jobs
  BY <1>3 DEF Throw, IInv, TypeOK
<1>5. /\ timer' \in [Generations -> Times] /\ IsStore(disk')
  BY DEF IInv, TypeOK
<1>6. /\ TypeOK' /\ GenerationsOK' /\ FirstOK'
      /\ stage'[g] = "wait"
      /\ ticking'[g] = (ticking[g] /\ Head(chain[g]) # Tick)
      /\ \A h \in Generations : h # g =>
            /\ store'[h] = store[h] /\ stage'[h] = stage[h] /\ ticking'[h] = ticking[h]
            /\ chain'[h] = chain[h]
  BY <1>1, <1>2, <1>4, <1>5, EndKeeps
<1>7. TimerOK'
  <2>1. CASE g = current
    <3>1. Touched' = {} /\ unwatched' = unwatched \cup C
      BY <1>4, <1>6, <2>1 DEF Touched
    <3>2. ASSUME NEW k \in DOMAIN S \ (unwatched \cup C)
          PROVE  /\ store[g] # NotLoaded /\ k \in DOMAIN store[g] \ (unwatched \cup Touched)
                 /\ S[k].enabled = store[g][k].enabled /\ S[k].next = store[g][k].next
                 /\ ~ticking'[g] => ~ticking[g]
      <4>0. k \in Jobs
        BY <3>2, StoreType
      <4>1. store[g] # NotLoaded
        BY <2>1, <3>2, <4>0, ChangedByFacts DEF IInv, FirstOK
      <4>2. Loaded(g) = store[g] /\ k \notin Touched
        BY <2>1, <3>2, <4>1 DEF Loaded, Touched
      <4>3. Head(chain[g]) # Tick
        BY <3>2, <4>0, ChangedByFacts
      <4>4. ticking[g] \in BOOLEAN
        BY DEF IInv, TypeOK
      <4> QED
        BY <1>6, <3>2, <4>1, <4>2, <4>3, <4>4 DEF SameBut
    <3> HIDE DEF C
    <3> QED
      BY <1>1, <2>1, <3>1, <3>2, TimerStays DEF IInv
  <2>2. CASE g # current
    <3>1. current \in Generations
      BY DEF IInv, TypeOK
    <3>2. /\ store'[current] = store[current] /\ Touched' = Touched
          /\ ticking'[current] = ticking[current] /\ unwatched' = unwatched
      BY <1>4, <1>6, <2>2, <3>1 DEF Touched
    <3> QED
      BY <3>2, TimerStays DEF IInv
  <2> QED
    BY <2>1, <2>2
<1> QED
  BY <1>6, <1>7 DEF IInv

--------------------------------------------------------------------------------
(* The timer *)

LEMMA LeastExists ==
    ASSUME NEW S \in SUBSET Nat, S # {}
    PROVE  \E i \in S : \A j \in S : i <= j
<1>1. IsWellFoundedOn(OpToRel(<, Nat), Nat)
  BY NatLessThanWellFounded
<1>2. PICK i \in S : \A j \in S : ~(<<j, i>> \in OpToRel(<, Nat))
  BY <1>1, WFMin
<1>3. \A j \in S : ~(j < i)
  BY <1>2 DEF OpToRel
<1> QED
  BY <1>3

LEMMA WakeTimes ==
    ASSUME NEW S, IsStore(S)
    PROVE  NextWakes(S) \in SUBSET Nat
  BY StoreType DEF NextWakes, Waits, Times, JobRecords

\* The timer that was armed for a store covers its next runs, unless one is at 0.
LEMMA Armed ==
    ASSUME TypeOK, NEW g \in Generations, NEW S, IsStore(S), ArmTimer(g, S)
    PROVE  /\ timer' \in [Generations -> Times]
           /\ \A h \in Generations : h # g => timer'[h] = timer[h]
           /\ 0 \notin NextWakes(S) =>
                 \A t \in NextWakes(S) : timer'[g] # Unset /\ timer'[g] <= Larger(t, clock)
<1> DEFINE W == NextWakes(S)
           least == CHOOSE t \in W : \A u \in W : t <= u
           time == IF W = {} \/ 0 \in W THEN Unset ELSE Larger(least, clock)
<1>1. W \in SUBSET Nat /\ clock \in Nat \ {0}
  BY WakeTimes, BoundsAssumption DEF TypeOK
<1>2. timer' = [timer EXCEPT ![g] = time]
  BY DEF ArmTimer
<1> HIDE DEF W
<1>3. W # {} => least \in W /\ \A u \in W : least <= u
  <2> SUFFICES ASSUME W # {} PROVE least \in W /\ \A u \in W : least <= u
    OBVIOUS
  <2>1. \E t \in W : \A u \in W : t <= u
    BY <1>1, LeastExists
  <2> QED
    BY <2>1
<1> HIDE DEF least
<1>4. time \in Times /\ (0 \notin W => \A t \in W : time # Unset /\ time <= Larger(t, clock))
  <2>1. CASE W = {} \/ 0 \in W
    BY <2>1 DEF Times
  <2>2. CASE ~(W = {} \/ 0 \in W)
    <3>1. least \in Nat /\ clock \in Nat /\ clock >= 1
      <4>1. least \in W
        BY <1>3, <2>2
      <4>2. least \in Nat
        BY <1>1, <4>1
      <4>3. clock \in Nat /\ clock >= 1
        BY <1>1
      <4> QED
        BY <4>2, <4>3
    <3>2. time = IF least >= clock THEN least ELSE clock
      BY <2>2 DEF Larger
    <3> HIDE DEF time
    <3>3. time \in Nat /\ time >= 1
      BY <3>1, <3>2
    <3>4. ASSUME NEW t \in W PROVE time <= Larger(t, clock)
      <4>1. t \in Nat /\ least <= t
        BY <1>1, <1>3, <2>2
      <4> QED
        BY <3>1, <3>2, <4>1 DEF Larger
    <3> QED
      BY <3>3, <3>4 DEF Unset, Times
  <2> QED
    BY <2>1, <2>2
<1> HIDE DEF time
<1>5. /\ timer' \in [Generations -> Times] /\ timer'[g] = time
      /\ \A h \in Generations : h # g => timer'[h] = timer[h]
  BY <1>2, <1>4 DEF TypeOK
<1> QED
  BY <1>4, <1>5 DEF W

--------------------------------------------------------------------------------
(* The steps *)

\* A job that was scheduled anew rests if it is done.
LEMMA RescheduledRests ==
    ASSUME NEW j \in JobRecords, NEW now, Done(Rescheduled(j, now))
    PROVE  Rescheduled(j, now).next = Unset
<1>1. /\ Rescheduled(j, now).next = JobNextRun(j, now)
      /\ Rescheduled(j, now).sched = j.sched /\ Rescheduled(j, now).last = j.last
  BY DEF Rescheduled, JobRecords
<1> QED
  BY <1>1 DEF Done, JobNextRun

\* What an operation may make of a store.
Outcome(S, L, r) ==
    /\ IsStore(S) /\ SameBut(S, L, ChangedBy(r))
    /\ DoneRests(L) => DoneRests(S)

LEMMA ItselfIsOutcome ==
    ASSUME NEW L, IsStore(L), NEW r
    PROVE  Outcome(L, L, r)
  BY DEF Outcome, SameBut

\* A store with another job in the place of k.
LEMMA OneIsOutcome ==
    ASSUME NEW L, IsStore(L), NEW r, NEW k \in DOMAIN L, k \in ChangedBy(r),
           NEW j \in JobRecords, Done(j) => j.next = Unset
    PROVE  Outcome([L EXCEPT ![k] = j], L, r)
<1> DEFINE S == [L EXCEPT ![k] = j]
<1>1. IsStore(S) /\ DOMAIN S = DOMAIN L
  BY ChangedType
<1>2. S[k] = j /\ \A i \in DOMAIN L : i # k => S[i] = L[i]
  OBVIOUS
<1> HIDE DEF S
<1>3. SameBut(S, L, ChangedBy(r))
  BY <1>1, <1>2 DEF SameBut
<1>4. DoneRests(L) => DoneRests(S)
  BY <1>1, <1>2 DEF DoneRests
<1> QED
  BY <1>1, <1>3, <1>4 DEF Outcome, S

LEMMA WithoutIsOutcome ==
    ASSUME NEW L, IsStore(L), NEW k, NEW r
    PROVE  Outcome(Without(L, k), L, r)
<1>1. IsStore(Without(L, k)) /\ DOMAIN Without(L, k) = DOMAIN L \ {k}
  BY WithoutType
<1>2. \A i \in DOMAIN L \ {k} : Without(L, k)[i] = L[i]
  BY DEF Without
<1> QED
  BY <1>1, <1>2 DEF Outcome, SameBut, DoneRests

\* What the beginning of an operation does.
BeginOutcome(g, S) ==
    LET r == Head(chain[g]) IN
    \/ \E K \in SUBSET DOMAIN S : K \subseteq ChangedBy(r) /\ Proceed(g, S, K)
    \/ r \notin {Start, Tick} /\ S = Loaded(g) /\ Return(g, S)
    \/ r # Tick /\ Throw(g, S)

LEMMA BeginShape ==
    ASSUME TypeOK, NEW g \in Generations, Begin(g)
    PROVE  /\ UnchangedByBegin /\ stage[g] = "wait" /\ chain[g] # <<>>
           /\ Head(chain[g]) \in Operations /\ IsStore(Loaded(g))
           /\ \E S : Outcome(S, Loaded(g), Head(chain[g])) /\ BeginOutcome(g, S)
           /\ Head(chain[g]) = Tick => Proceed(g, Loaded(g), DueJobs(Loaded(g), clock))
<1> DEFINE r == Head(chain[g])
           L == Loaded(g)
<1>1. IsStore(L) /\ clock \in Nat
  BY BoundsAssumption DEF TypeOK, Loaded
<1>2. UnchangedByBegin /\ stage[g] = "wait" /\ chain[g] # <<>>
  BY DEF Begin, Begins, BeginStart, BeginTick, BeginStatus, BeginAdd, BeginUpdate,
         BeginRemove, BeginRun
<1>3. r \in Operations
  BY <1>2, TailTicks DEF TypeOK
<1>4. r.op # "tick" => r # Tick
  BY TickFacts
<1>5. r.op # "start" => r # Start
  BY TickFacts
<1> SUFFICES \E S : /\ Outcome(S, L, r) /\ BeginOutcome(g, S)
                    /\ r = Tick => Proceed(g, L, DueJobs(L, clock))
  BY <1>1, <1>2, <1>3
<1>6. CASE BeginStart(g)
  <2> DEFINE refused == {k \in DOMAIN L : Refused(L[k])}
  <2>1. /\ r.op = "start"
        /\ IF refused = {} THEN Proceed(g, RecomputeNextRuns(L, DOMAIN L, clock), {})
           ELSE \E K \in SUBSET (DOMAIN L \ refused) : Throw(g, RecomputeNextRuns(L, K, clock))
    BY <1>6 DEF BeginStart, Begins
  <2>2. ChangedBy(r) = Jobs
    BY <2>1 DEF ChangedBy
  <2>3. ASSUME NEW K \in SUBSET (DOMAIN L \ refused)
        PROVE  Outcome(RecomputeNextRuns(L, K, clock), L, r)
    <3> DEFINE S == RecomputeNextRuns(L, K, clock)
    <3>1. IsStore(S)
      BY <1>1, <2>3, RecomputeType
    <3>2. SameBut(S, L, ChangedBy(r))
      BY <2>2, <3>1, StoreType DEF SameBut
    <3>3. DoneRests(L) => DoneRests(S)
      BY <1>1, StoreType, RescheduledRests DEF DoneRests, RecomputeNextRuns
    <3> QED
      BY <3>1, <3>2, <3>3 DEF Outcome
  <2>4. CASE refused = {}
    <3>1. Outcome(RecomputeNextRuns(L, DOMAIN L, clock), L, r)
      BY <2>3, <2>4
    <3>2. BeginOutcome(g, RecomputeNextRuns(L, DOMAIN L, clock))
      BY <2>1, <2>4 DEF BeginOutcome
    <3> QED
      BY <1>4, <2>1, <3>1, <3>2
  <2>5. CASE refused # {}
    <3>1. PICK K \in SUBSET (DOMAIN L \ refused) : Throw(g, RecomputeNextRuns(L, K, clock))
      BY <2>1, <2>5
    <3>2. BeginOutcome(g, RecomputeNextRuns(L, K, clock))
      BY <1>4, <2>1, <3>1 DEF BeginOutcome
    <3> QED
      BY <1>4, <2>1, <2>3, <3>2
  <2> QED
    BY <2>4, <2>5
<1>7. CASE BeginTick(g)
  <2>1. Proceed(g, L, DueJobs(L, clock)) /\ r.op = "tick"
    BY <1>7 DEF BeginTick, Begins
  <2>2. DueJobs(L, clock) \in SUBSET DOMAIN L /\ DueJobs(L, clock) \subseteq ChangedBy(r)
    BY <1>1, <2>1, StoreType DEF DueJobs, ChangedBy
  <2>3. BeginOutcome(g, L)
    BY <2>1, <2>2 DEF BeginOutcome
  <2> QED
    BY <1>1, <2>1, <2>3, ItselfIsOutcome
<1>8. CASE BeginStatus(g)
  <2>1. Return(g, L) /\ r.op = "status"
    BY <1>8 DEF BeginStatus, Begins
  <2>2. BeginOutcome(g, L)
    BY <1>4, <1>5, <2>1 DEF BeginOutcome
  <2> QED
    BY <1>1, <1>4, <2>1, <2>2, ItselfIsOutcome
<1>9. CASE BeginAdd(g)
  <2> DEFINE j == Job(r.sched, r.once)
             i == Rescheduled(j, clock)
             S == With(L, r.job, i)
  <2>1. /\ IF Refused(j) THEN Return(g, L) ELSE Proceed(g, S, {})
        /\ r.op = "add"
    BY <1>9 DEF BeginAdd, Begins
  <2>2. r.job \in Jobs /\ j \in JobRecords /\ r.job \in ChangedBy(r)
    BY <1>3, <2>1, OperationFacts DEF Job, JobRecords, Times, ChangedBy
  <2>3. CASE Refused(j)
    <3>1. BeginOutcome(g, L)
      BY <1>4, <1>5, <2>1, <2>3 DEF BeginOutcome
    <3> QED
      BY <1>1, <1>4, <2>1, <3>1, ItselfIsOutcome
  <2>4. CASE ~Refused(j)
    <3>1. i \in JobRecords /\ (Done(i) => i.next = Unset)
      BY <1>1, <2>2, <2>4, RescheduledType, RescheduledRests
    <3>2. Proceed(g, S, {})
      BY <2>1, <2>4
    <3> HIDE DEF i, j
    <3>3. IsStore(S)
      BY <1>1, <2>2, <3>1, WithType
    <3>4. SameBut(S, L, ChangedBy(r))
      BY <2>2 DEF SameBut, With
    <3>5. DoneRests(L) => DoneRests(S)
      BY <3>1 DEF DoneRests, With
    <3> HIDE DEF S
    <3>6. BeginOutcome(g, S)
      BY <3>2 DEF BeginOutcome
    <3> QED
      BY <1>4, <2>1, <3>3, <3>4, <3>5, <3>6 DEF Outcome
  <2> QED
    BY <2>3, <2>4
<1>10. CASE BeginUpdate(g)
  <2> DEFINE j == Patched(L[r.job], r)
             i == Rescheduled(j, clock)
  <2>1. /\ r.op = "update"
        /\ IF r.job \notin DOMAIN L THEN Return(g, L)
           ELSE IF Refused(j) THEN Throw(g, [L EXCEPT ![r.job] = j])
           ELSE Proceed(g, [L EXCEPT ![r.job] = i], {})
    BY <1>10 DEF BeginUpdate, Begins
  <2>2. r.job \in ChangedBy(r) /\ r # Tick /\ r # Start
    BY <1>4, <1>5, <2>1 DEF ChangedBy
  <2>3. CASE r.job \notin DOMAIN L
    <3>1. BeginOutcome(g, L)
      BY <2>1, <2>2, <2>3 DEF BeginOutcome
    <3> QED
      BY <1>1, <2>2, <3>1, ItselfIsOutcome
  <2>4. CASE r.job \in DOMAIN L
    <3>1. j \in JobRecords
      BY <1>1, <1>3, <2>1, <2>4, StoreType, PatchedType
    <3>2. CASE Refused(j)
      <4>1. ~Done(j)
        BY <3>2 DEF Refused, Throws, Done, InvalidCron
      <4>2. Throw(g, [L EXCEPT ![r.job] = j])
        BY <2>1, <2>4, <3>2
      <4> HIDE DEF j
      <4>3. Outcome([L EXCEPT ![r.job] = j], L, r)
        BY <1>1, <2>2, <2>4, <3>1, <4>1, OneIsOutcome
      <4>4. BeginOutcome(g, [L EXCEPT ![r.job] = j])
        BY <2>2, <4>2 DEF BeginOutcome
      <4> QED
        BY <2>2, <4>3, <4>4
    <3>3. CASE ~Refused(j)
      <4>1. i \in JobRecords /\ (Done(i) => i.next = Unset)
        BY <1>1, <3>1, <3>3, RescheduledType, RescheduledRests
      <4>2. Proceed(g, [L EXCEPT ![r.job] = i], {})
        BY <2>1, <2>4, <3>3
      <4> HIDE DEF i
      <4>3. Outcome([L EXCEPT ![r.job] = i], L, r)
        BY <1>1, <2>2, <2>4, <4>1, OneIsOutcome
      <4>4. BeginOutcome(g, [L EXCEPT ![r.job] = i])
        BY <4>2 DEF BeginOutcome
      <4> QED
        BY <2>2, <4>3, <4>4
    <3> QED
      BY <3>2, <3>3
  <2> QED
    BY <2>3, <2>4
<1>11. CASE BeginRemove(g)
  <2>1. Proceed(g, Without(L, r.job), {}) /\ r.op = "remove"
    BY <1>11 DEF BeginRemove, Begins
  <2>2. BeginOutcome(g, Without(L, r.job))
    BY <2>1 DEF BeginOutcome
  <2> QED
    BY <1>1, <1>4, <2>1, <2>2, WithoutIsOutcome
<1>12. CASE BeginRun(g)
  <2>1. /\ r.op = "run"
        /\ (Proceed(g, L, {r.job}) /\ r.job \in DOMAIN L) \/ Return(g, L)
    BY <1>12 DEF BeginRun, Begins
  <2>2. BeginOutcome(g, L)
    BY <1>4, <1>5, <2>1 DEF BeginOutcome, ChangedBy
  <2> QED
    BY <1>1, <1>4, <2>1, <2>2, ItselfIsOutcome
<1> QED
  BY <1>6, <1>7, <1>8, <1>9, <1>10, <1>11, <1>12 DEF Begin

LEMMA BeginKeeps ==
    ASSUME IInv, NEW g \in Generations, Begin(g)
    PROVE  IInv'
<1> DEFINE r == Head(chain[g])
<1>1. /\ UnchangedByBegin /\ stage[g] = "wait" /\ chain[g] # <<>>
      /\ IsStore(Loaded(g)) /\ exec[g] = NoJob
      /\ exec \in [Generations -> Jobs \cup {NoJob}]
  BY BeginShape DEF IInv, TypeOK, GenerationsOK, StageOK
<1>2. PICK S : Outcome(S, Loaded(g), r) /\ BeginOutcome(g, S)
  BY BeginShape DEF IInv
<1>3. IsStore(S) /\ SameBut(S, Loaded(g), ChangedBy(r))
  BY <1>2 DEF Outcome
<1>4. /\ exec' = [exec EXCEPT ![g] = NoJob]
      /\ UNCHANGED <<clock, disk, current, timer, exec, asked>>
  BY <1>1 DEF UnchangedByBegin
<1>5. ASSUME NEW K \in SUBSET DOMAIN S, K \subseteq ChangedBy(r), Proceed(g, S, K)
      PROVE  IInv'
  BY <1>1, <1>3, <1>4, <1>5, ProceedKeeps
<1>6. CASE Throw(g, S)
  BY <1>1, <1>3, <1>4, <1>6, ThrowKeeps
<1>7. CASE r \notin {Start, Tick} /\ S = Loaded(g) /\ Return(g, S)
  <2>1. /\ EndOp(g) /\ DOMAIN store' = Generations /\ store'[g] = Loaded(g)
        /\ \A h \in Generations : h # g => store'[h] = store[h]
        /\ UNCHANGED <<due, unsaved, unwatched, overlap>>
    BY <1>1, <1>7 DEF IInv, TypeOK, Return, history
  <2>2. /\ IsStore(disk') /\ {unsaved', overlap'} \subseteq BOOLEAN
        /\ unwatched' \subseteq Jobs
        /\ timer' \in [Generations -> Times]
        /\ \A h \in Generations : h # g => timer'[h] = timer[h]
        /\ due' \in [Generations -> SUBSET Jobs]
    BY <1>4, <2>1 DEF IInv, TypeOK
  <2>3. /\ TypeOK' /\ GenerationsOK' /\ FirstOK' /\ stage'[g] = "wait"
        /\ ticking'[g] = ticking[g]
        /\ \A h \in Generations : h # g =>
              /\ store'[h] = store[h] /\ stage'[h] = stage[h] /\ ticking'[h] = ticking[h]
              /\ chain'[h] = chain[h]
    <3>1. ticking[g] \in BOOLEAN
      BY DEF IInv, TypeOK
    <3>2. /\ TypeOK' /\ GenerationsOK' /\ FirstOK' /\ stage'[g] = "wait"
          /\ ticking'[g] = (ticking[g] /\ r # Tick)
          /\ \A h \in Generations : h # g =>
                /\ store'[h] = store[h] /\ stage'[h] = stage[h] /\ ticking'[h] = ticking[h]
                /\ chain'[h] = chain[h]
      BY <1>1, <1>4, <2>1, <2>2, EndKeeps
    <3> QED
      BY <1>7, <3>1, <3>2
  <2>4. g = current => Loaded(g) = store[g]
    BY <1>7 DEF IInv, FirstOK, Loaded
  <2>5. TimerOK'
    <3>1. Touched' = Touched
      BY <1>1, <1>4, <2>3 DEF Touched, IInv, TypeOK
    <3>2. /\ store'[current] = store[current] /\ ticking'[current] = ticking[current]
      BY <2>1, <2>3, <2>4 DEF IInv, TypeOK
    <3> QED
      BY <1>4, <2>1, <3>1, <3>2, TimerStays DEF IInv
  <2> QED
    BY <2>3, <2>5 DEF IInv
<1> QED
  BY <1>2, <1>5, <1>6, <1>7 DEF BeginOutcome

LEMMA StartJobKeeps ==
    ASSUME IInv, NEW g \in Generations, StartJob(g)
    PROVE  IInv'
<1>1. PICK k \in due[g] :
          /\ exec' = [exec EXCEPT ![g] = k]
          /\ store' = [store EXCEPT ![g] = Running(@, k)]
  BY DEF StartJob
<1>2. /\ stage[g] = "jobs" /\ chain[g] # <<>> /\ k \in DOMAIN store[g] /\ k \in Jobs
      /\ IsStore(store[g]) /\ store[g] # NotLoaded
      /\ UNCHANGED <<clock, disk, current, timer, ticking, chain, stage, due, asked,
                     unsaved, unwatched, overlap>>
  BY <1>1, StoreType DEF StartJob, IInv, TypeOK, GenerationsOK, StageOK, history
<1> DEFINE S == Running(store[g], k)
<1>3. /\ IsStore(S) /\ DOMAIN S = DOMAIN store[g] /\ S # NotLoaded
      /\ \A i \in DOMAIN S : S[i].enabled = store[g][i].enabled /\ S[i].next = store[g][i].next
  <2>1. /\ IsStore(S) /\ DOMAIN S = DOMAIN store[g] /\ S # NotLoaded
    BY <1>2, RunningType, NotLoadedAssumption
  <2>2. ASSUME NEW i \in DOMAIN S
        PROVE  S[i].enabled = store[g][i].enabled /\ S[i].next = store[g][i].next
    <3>1. /\ S[k] = [store[g][k] EXCEPT !.running = TRUE]
          /\ i # k => S[i] = store[g][i]
      BY <1>2, <2>1 DEF Running
    <3>2. store[g][k] \in JobRecords
      BY <1>2, StoreType
    <3> QED
      BY <3>1, <3>2 DEF JobRecords
  <2> QED
    BY <2>1, <2>2
<1>4. /\ DOMAIN store' = Generations /\ store'[g] = S
      /\ \A h \in Generations : h # g => store'[h] = store[h]
  BY <1>1 DEF IInv, TypeOK
<1> HIDE DEF S
<1>5. /\ exec' \in [Generations -> Jobs \cup {NoJob}] /\ exec'[g] = k
      /\ \A h \in Generations : h # g => exec'[h] = exec[h]
  BY <1>1, <1>2 DEF IInv, TypeOK
<1>6. TypeOK'
  BY <1>2, <1>3, <1>4, <1>5 DEF IInv, TypeOK
<1>7. GenerationsOK'
  <2>1. ASSUME NEW h \in Generations PROVE StageOK(h)'
    <3>1. StageOK(h)
      BY DEF IInv, GenerationsOK
    <3>2. CASE h = g
      BY <1>1, <1>2, <1>3, <1>4, <1>5, <3>1, <3>2 DEF StageOK
    <3>3. CASE h # g
      BY <1>2, <1>4, <1>5, <3>1, <3>3 DEF StageOK
    <3> QED
      BY <3>2, <3>3
  <2>2. ASSUME NEW h \in Generations PROVE FutureOK(h)'
    BY <1>2, <1>4 DEF IInv, GenerationsOK, FutureOK
  <2>3. ASSUME NEW h \in Generations PROVE TicksOK(h)'
    BY <1>2 DEF IInv, GenerationsOK, TicksOK
  <2> QED
    BY <2>1, <2>2, <2>3 DEF GenerationsOK
<1>8. FirstOK'
  BY <1>2, <1>3, <1>4 DEF IInv, TypeOK, FirstOK
<1>9. TimerOK'
  <2>1. Touched' = Touched
    BY <1>2 DEF Touched
  <2>2. current \in Generations
    BY DEF IInv, TypeOK
  <2>3. CASE g = current
    BY <1>2, <1>3, <1>4, <2>1, <2>3, TimerStays DEF IInv
  <2>4. CASE g # current
    BY <1>2, <1>4, <2>1, <2>2, <2>4, TimerStays DEF IInv
  <2> QED
    BY <2>3, <2>4
<1> QED
  BY <1>6, <1>7, <1>8, <1>9 DEF IInv

\* What the end of a job does.
LEMMA FinishShape ==
    ASSUME IInv, NEW g \in Generations, NEW status \in Statuses, FinishJob(g, status)
    PROVE  /\ stage[g] = "jobs" /\ chain[g] # <<>> /\ store[g] # NotLoaded
           /\ Loaded(g) = store[g] /\ exec' = [exec EXCEPT ![g] = NoJob]
           /\ UNCHANGED <<clock, disk, current, timer, asked>>
           /\ \E S : /\ Outcome(S, store[g], Head(chain[g]))
                     /\ \/ Throw(g, S)
                        \/ \E K \in SUBSET DOMAIN S : K \subseteq due[g] /\ Proceed(g, S, K)
<1> DEFINE k == exec[g]
           j == store[g][k]
           i == Finished(j, status)
           rest == due[g] \ {k}
           r == Head(chain[g])
           removed == j.sched.kind = "at" /\ j.once /\ status = "ok"
           S == IF removed THEN Without(store[g], k) ELSE [store[g] EXCEPT ![k] = i]
<1>1. /\ k # NoJob /\ exec' = [exec EXCEPT ![g] = NoJob]
      /\ IF Refused(j) THEN Throw(g, [store[g] EXCEPT ![k] = FailedToFinish(j)])
         ELSE Proceed(g, S, rest)
      /\ UNCHANGED <<clock, disk, current, timer, asked>>
  BY DEF FinishJob
<1>2. /\ stage[g] = "jobs" /\ chain[g] # <<>> /\ store[g] # NotLoaded
      /\ k \in DOMAIN store[g] /\ due[g] \subseteq DOMAIN store[g]
      /\ k \in ChangedBy(r) /\ IsStore(store[g]) /\ clock \in Nat
  BY <1>1, BoundsAssumption DEF IInv, TypeOK, GenerationsOK, StageOK
<1>3. j \in JobRecords
  BY <1>2, StoreType
<1>4. Loaded(g) = store[g]
  BY <1>2 DEF Loaded
<1> SUFFICES \E T : /\ Outcome(T, store[g], r)
                    /\ \/ Throw(g, T)
                       \/ \E K \in SUBSET DOMAIN T : K \subseteq due[g] /\ Proceed(g, T, K)
  BY <1>1, <1>2, <1>4
<1>5. CASE Refused(j)
  <2> DEFINE f == FailedToFinish(j)
  <2>1. f \in JobRecords /\ ~Done(f)
    BY <1>3, <1>5 DEF FailedToFinish, JobRecords, Done
  <2>2. Throw(g, [store[g] EXCEPT ![k] = f])
    BY <1>1, <1>5
  <2> HIDE DEF f, k, r
  <2>3. Outcome([store[g] EXCEPT ![k] = f], store[g], r)
    BY <1>2, <2>1, OneIsOutcome
  <2> QED
    BY <2>2, <2>3
<1>6. CASE ~Refused(j)
  <2>1. Proceed(g, S, rest)
    BY <1>1, <1>6
  <2>2. CASE removed
    <3>1. S = Without(store[g], k)
      BY <2>2
    <3>2. DOMAIN Without(store[g], k) = DOMAIN store[g] \ {k}
      BY <1>2, WithoutType
    <3>3. Outcome(Without(store[g], k), store[g], r)
      BY <1>2, WithoutIsOutcome
    <3> HIDE DEF S
    <3>4. rest \in SUBSET DOMAIN S /\ rest \subseteq due[g] /\ Outcome(S, store[g], r)
      BY <1>2, <3>1, <3>2, <3>3
    <3> QED
      BY <2>1, <3>4
  <2>3. CASE ~removed
    <3>1. S = [store[g] EXCEPT ![k] = i]
      BY <2>3
    <3>2. i \in JobRecords
      BY <1>2, <1>3, <1>6, FinishedType
    <3>3. Done(i) => i.next = Unset
      <4> DEFINE done == [j EXCEPT !.running = FALSE, !.last = status,
                                   !.enabled = @ /\ ~(j.sched.kind = "at" /\ status = "ok")]
      <4>1. done \in JobRecords
        BY <1>3 DEF JobRecords, Statuses
      <4>2. i = Rescheduled(done, clock)
        BY DEF Finished
      <4> HIDE DEF i, done, j
      <4> QED
        BY <4>1, <4>2, RescheduledRests
    <3> HIDE DEF S, i, k, r
    <3>4. Outcome([store[g] EXCEPT ![k] = i], store[g], r)
      BY <1>2, <3>2, <3>3, OneIsOutcome
    <3>5. rest \in SUBSET DOMAIN S /\ rest \subseteq due[g] /\ Outcome(S, store[g], r)
      BY <1>2, <3>1, <3>4
    <3> QED
      BY <2>1, <3>5
  <2> QED
    BY <2>2, <2>3
<1> QED
  BY <1>5, <1>6

LEMMA FinishJobKeeps ==
    ASSUME IInv, NEW g \in Generations, NEW status \in Statuses, FinishJob(g, status)
    PROVE  IInv'
<1>1. /\ stage[g] = "jobs" /\ chain[g] # <<>> /\ Loaded(g) = store[g]
      /\ exec' = [exec EXCEPT ![g] = NoJob]
      /\ UNCHANGED <<clock, disk, current, timer, asked>>
  BY FinishShape
<1>2. PICK S : /\ Outcome(S, store[g], Head(chain[g]))
               /\ \/ Throw(g, S)
                  \/ \E K \in SUBSET DOMAIN S : K \subseteq due[g] /\ Proceed(g, S, K)
  BY FinishShape
<1>3. IsStore(S) /\ SameBut(S, Loaded(g), ChangedBy(Head(chain[g])))
  BY <1>1, <1>2 DEF Outcome
<1>4. due[g] \subseteq ChangedBy(Head(chain[g]))
  BY <1>1 DEF IInv, GenerationsOK, StageOK
<1>5. CASE Throw(g, S)
  BY <1>1, <1>3, <1>5, ThrowKeeps
<1>6. ASSUME NEW K \in SUBSET DOMAIN S, K \subseteq due[g], Proceed(g, S, K)
      PROVE  IInv'
  <2>1. K \subseteq ChangedBy(Head(chain[g]))
    BY <1>4, <1>6
  <2> QED
    BY <1>1, <1>3, <1>6, <2>1, ProceedKeeps
<1> QED
  BY <1>2, <1>5, <1>6

\* The store is written, or it is not; the operation ends.
LEMMA PersistKeeps ==
    ASSUME IInv, NEW g \in Generations, Persist(g) \/ PersistFails(g)
    PROVE  IInv'
<1>1. /\ stage[g] = "persist" /\ UNCHANGED <<clock, current, exec, asked>>
  BY DEF Persist, PersistFails
<1>2. /\ chain[g] # <<>> /\ store[g] # NotLoaded /\ IsStore(store[g]) /\ exec[g] = NoJob
      /\ Loaded(g) = store[g] /\ exec' = [exec EXCEPT ![g] = NoJob]
  BY <1>1 DEF IInv, TypeOK, GenerationsOK, StageOK, Loaded
<1>3. CASE PersistFails(g)
  <2>1. SameBut(store[g], Loaded(g), ChangedBy(Head(chain[g])))
    BY <1>2 DEF SameBut
  <2> QED
    BY <1>1, <1>2, <1>3, <2>1, ThrowKeeps DEF PersistFails
<1>4. CASE Persist(g)
  <2>1. /\ EndOp(g) /\ ArmTimer(g, store[g]) /\ disk' = store[g]
        /\ UNCHANGED <<store, due, overlap>>
        /\ IF g = current
           THEN unsaved' = FALSE /\ unwatched' = IF 0 \in NextWakes(store[g]) THEN Jobs ELSE {}
           ELSE UNCHANGED <<unsaved, unwatched>>
    BY <1>4 DEF Persist
  <2>2. /\ DOMAIN store' = Generations /\ store'[g] = store[g]
        /\ \A h \in Generations : h # g => store'[h] = store[h]
        /\ due' \in [Generations -> SUBSET Jobs]
    BY <2>1 DEF IInv, TypeOK
  <2>3. /\ timer' \in [Generations -> Times]
        /\ \A h \in Generations : h # g => timer'[h] = timer[h]
        /\ 0 \notin NextWakes(store[g]) =>
              \A t \in NextWakes(store[g]) : timer'[g] # Unset /\ timer'[g] <= Larger(t, clock)
    BY <1>2, <2>1, Armed DEF IInv
  <2>4. IsStore(disk') /\ {unsaved', overlap'} \subseteq BOOLEAN /\ unwatched' \subseteq Jobs
    BY <1>2, <2>1 DEF IInv, TypeOK
  <2>5. /\ TypeOK' /\ GenerationsOK' /\ FirstOK'
        /\ \A h \in Generations : h # g =>
              /\ store'[h] = store[h] /\ stage'[h] = stage[h] /\ ticking'[h] = ticking[h]
              /\ chain'[h] = chain[h]
    BY <1>1, <1>2, <2>1, <2>2, <2>3, <2>4, EndKeeps
  <2>6. TimerOK'
    <3>1. CASE g # current
      <4>1. current \in Generations
        BY DEF IInv, TypeOK
      <4>2. /\ Touched' = Touched /\ unwatched' = unwatched /\ store'[current] = store[current]
            /\ ticking'[current] = ticking[current] /\ timer'[current] = timer[current]
        BY <1>1, <2>1, <2>3, <2>5, <3>1, <4>1 DEF Touched
      <4> QED
        BY <1>1, <4>2, TimerStays DEF IInv
    <3>2. CASE g = current
      <4>1. CASE 0 \in NextWakes(store[g])
        <5>1. unwatched' = Jobs /\ DOMAIN store'[current'] \subseteq Jobs
          BY <1>1, <1>2, <2>1, <2>2, <3>2, <4>1, StoreType
        <5> QED
          BY <5>1 DEF TimerOK
      <4>2. CASE 0 \notin NextWakes(store[g])
        <5>1. \A k \in DOMAIN store[g] :
                Waits(store[g][k]) => store[g][k].next \in NextWakes(store[g])
          BY DEF NextWakes
        <5> QED
          BY <1>1, <2>1, <2>3, <3>2, <4>2, <5>1 DEF TimerOK, Covered
      <4> QED
        BY <4>1, <4>2
    <3> QED
      BY <3>1, <3>2
  <2> QED
    BY <2>5, <2>6 DEF IInv
<1> QED
  BY <1>3, <1>4

LEMMA TimerFiresKeeps ==
    ASSUME IInv, NEW g \in Generations, TimerFires(g)
    PROVE  IInv'
<1>1. /\ timer[g] # Unset /\ timer' = [timer EXCEPT ![g] = Unset]
      /\ UNCHANGED <<clock, disk, current, store, stage, due, exec, asked, history>>
  BY DEF TimerFires
<1>2. /\ timer' \in [Generations -> Times]
      /\ \A h \in Generations : h # g => timer'[h] = timer[h]
  BY <1>1 DEF IInv, TypeOK, Times
<1>3. /\ chain[g] \in Seq(Operations) /\ ticking[g] \in BOOLEAN
  BY DEF IInv, TypeOK
<1>4. /\ chain' \in [Generations -> Seq(Operations)]
      /\ chain'[g] = IF ticking[g] THEN chain[g] ELSE Append(chain[g], Tick)
      /\ \A h \in Generations : h # g => chain'[h] = chain[h]
  <2>1. Append(chain[g], Tick) \in Seq(Operations)
    BY <1>3, TickFacts, AppendTicks
  <2> QED
    BY <2>1 DEF TimerFires, IInv, TypeOK
<1>5. /\ ticking' \in [Generations -> BOOLEAN] /\ ticking'[g] = TRUE
      /\ \A h \in Generations : h # g => ticking'[h] = ticking[h]
  BY <1>3 DEF TimerFires, IInv, TypeOK
<1>6. TypeOK'
  BY <1>1, <1>2, <1>4, <1>5 DEF IInv, TypeOK, history
<1>7. /\ chain[g] # <<>> => chain'[g] # <<>> /\ Head(chain'[g]) = Head(chain[g])
      /\ TicksOK(g)'
  <2>1. CASE ticking[g]
    BY <1>4, <1>5, <2>1 DEF IInv, GenerationsOK, TicksOK
  <2>2. CASE ~ticking[g]
    <3>1. Ticks(chain'[g]) = Ticks(chain[g]) \cup {Len(chain[g]) + 1}
      BY <1>3, <1>4, <2>2, TickFacts, AppendTicks
    <3>2. Ticks(chain[g]) = {}
      BY <2>2 DEF IInv, GenerationsOK, TicksOK
    <3>3. chain[g] # <<>> => chain'[g] # <<>> /\ Head(chain'[g]) = Head(chain[g])
      BY <1>3, <1>4, <2>2, TickFacts, AppendTicks
    <3> QED
      BY <1>5, <3>1, <3>2, <3>3 DEF TicksOK
  <2> QED
    BY <2>1, <2>2
<1>8. g <= current
  BY <1>1 DEF IInv, TypeOK, GenerationsOK, FutureOK, Generations
<1>9. GenerationsOK'
  <2>1. ASSUME NEW h \in Generations PROVE StageOK(h)'
    <3>1. StageOK(h)
      BY DEF IInv, GenerationsOK
    <3> QED
      BY <1>1, <1>4, <1>7, <3>1 DEF StageOK
  <2>2. ASSUME NEW h \in Generations PROVE FutureOK(h)'
    <3>1. CASE h = g
      BY <1>1, <1>8, <3>1 DEF IInv, TypeOK, FutureOK, Generations
    <3>2. CASE h # g
      BY <1>1, <1>2, <1>4, <1>5, <3>2 DEF IInv, GenerationsOK, FutureOK
    <3> QED
      BY <3>1, <3>2
  <2>3. ASSUME NEW h \in Generations PROVE TicksOK(h)'
    BY <1>4, <1>5, <1>7 DEF IInv, GenerationsOK, TicksOK
  <2> QED
    BY <2>1, <2>2, <2>3 DEF GenerationsOK
<1>10. FirstOK'
  BY <1>1, <1>4, <1>7 DEF IInv, TypeOK, FirstOK
<1>11. TimerOK'
  <2>1. CASE g = current
    BY <1>1, <1>5, <2>1 DEF TimerOK
  <2>2. CASE g # current
    <3>1. current \in Generations
      BY DEF IInv, TypeOK
    <3>2. Touched' = Touched
      BY <1>1, <1>4, <2>2, <3>1 DEF Touched
    <3> QED
      BY <1>1, <1>2, <1>5, <2>2, <3>1, <3>2, TimerStays DEF IInv, history
  <2> QED
    BY <2>1, <2>2
<1> QED
  BY <1>6, <1>9, <1>10, <1>11 DEF IInv

LEMMA RequestKeeps ==
    ASSUME IInv, NEW r \in Requests, Request(r)
    PROVE  IInv'
<1>1. /\ r \in Operations /\ r # Tick /\ r # Start
      /\ chain' = [chain EXCEPT ![current] = Append(@, r)]
      /\ asked' \in 0..MaxRequests
      /\ UNCHANGED <<clock, disk, current, store, timer, ticking, stage, due, exec, history>>
  BY RequestsAssumption, BoundsAssumption DEF Request, IInv, TypeOK
<1>2. current \in Generations /\ chain[current] \in Seq(Operations)
  BY DEF IInv, TypeOK
<1>3. /\ Append(chain[current], r) \in Seq(Operations) /\ Append(chain[current], r) # <<>>
      /\ chain[current] # <<>> => Head(Append(chain[current], r)) = Head(chain[current])
      /\ Ticks(Append(chain[current], r)) = Ticks(chain[current])
  BY <1>1, <1>2, AppendTicks
<1>4. /\ chain' \in [Generations -> Seq(Operations)]
      /\ chain'[current] = Append(chain[current], r)
      /\ \A h \in Generations : h # current => chain'[h] = chain[h]
  BY <1>1, <1>2, <1>3 DEF IInv, TypeOK
<1>5. TypeOK'
  BY <1>1, <1>4 DEF IInv, TypeOK, history
<1>6. GenerationsOK'
  <2>1. ASSUME NEW h \in Generations PROVE StageOK(h)'
    <3>1. StageOK(h)
      BY DEF IInv, GenerationsOK
    <3> QED
      BY <1>1, <1>3, <1>4, <3>1 DEF StageOK
  <2>2. ASSUME NEW h \in Generations PROVE FutureOK(h)'
    BY <1>1, <1>2, <1>4 DEF IInv, GenerationsOK, FutureOK, Generations
  <2>3. ASSUME NEW h \in Generations PROVE TicksOK(h)'
    BY <1>1, <1>3, <1>4 DEF IInv, GenerationsOK, TicksOK
  <2> QED
    BY <2>1, <2>2, <2>3 DEF GenerationsOK
<1>7. FirstOK'
  BY <1>1, <1>3, <1>4 DEF IInv, FirstOK
<1>8. TimerOK'
  <2>1. stage[current] # "wait" => chain[current] # <<>>
    BY <1>2 DEF IInv, GenerationsOK, StageOK
  <2>2. Touched' = Touched
    BY <1>1, <1>3, <1>4, <2>1 DEF Touched
  <2> QED
    BY <1>1, <2>2, TimerStays DEF IInv, history
<1> QED
  BY <1>5, <1>6, <1>7, <1>8 DEF IInv

\* A chain on which nothing but a start is.
LEMMA StartChain ==
    /\ <<Start>> \in Seq(Operations) /\ <<Start>> # <<>> /\ Head(<<Start>>) = Start
    /\ Ticks(<<Start>>) = {} /\ <<>> \in Seq(Operations) /\ Ticks(<<>>) = {}
<1>1. /\ <<Start>> \in Seq(Operations) /\ <<Start>> # <<>> /\ Head(<<Start>>) = Start
      /\ DOMAIN <<Start>> = {1} /\ <<Start>>[1] = Start
      /\ <<>> \in Seq(Operations) /\ DOMAIN <<>> = {}
  BY TickFacts
<1> QED
  BY <1>1, TickFacts DEF Ticks

\* A gateway that has just been started.
LEMMA FreshOK ==
    ASSUME NEW g \in Generations, clock' \in 1..MaxTime, IsStore(disk'), current' = g,
           store' = [h \in Generations |-> NotLoaded],
           timer' = [h \in Generations |-> Unset],
           ticking' = [h \in Generations |-> FALSE],
           chain' = [h \in Generations |-> IF h = g THEN <<Start>> ELSE <<>>],
           stage' = [h \in Generations |-> "wait"],
           due' = [h \in Generations |-> {}],
           exec' = [h \in Generations |-> NoJob],
           asked' \in 0..MaxRequests, unsaved' = FALSE, unwatched' = {},
           overlap' = FALSE
    PROVE  IInv'
<1>1. TypeOK'
  BY StartChain DEF TypeOK, Times
<1>2. GenerationsOK'
  <2>1. ASSUME NEW h \in Generations PROVE StageOK(h)'
    BY DEF StageOK
  <2>2. ASSUME NEW h \in Generations PROVE FutureOK(h)'
    BY DEF FutureOK, Generations
  <2>3. ASSUME NEW h \in Generations PROVE TicksOK(h)'
    BY StartChain DEF TicksOK
  <2> QED
    BY <2>1, <2>2, <2>3 DEF GenerationsOK
<1>3. FirstOK' /\ TimerOK'
  BY StartChain DEF FirstOK, TimerOK
<1> QED
  BY <1>1, <1>2, <1>3 DEF IInv

LEMMA CrashKeeps ==
    ASSUME IInv, CrashAndRestart
    PROVE  IInv'
<1>1. /\ current' \in Generations /\ IsStore(disk') /\ clock' \in 1..MaxTime
      /\ asked' \in 0..MaxRequests
  BY DEF CrashAndRestart, Successor, IInv, TypeOK
<1>2. chain' = [h \in Generations |-> IF h = current' THEN <<Start>> ELSE <<>>]
  BY DEF CrashAndRestart
<1> QED
  BY <1>1, <1>2, FreshOK DEF CrashAndRestart

LEMMA ReloadKeeps ==
    ASSUME IInv, Reload
    PROVE  IInv'
<1>1. /\ current \in Generations /\ current' \in Generations /\ current' = current + 1
      /\ timer' = [timer EXCEPT ![current] = Unset]
      /\ chain' = [chain EXCEPT ![current'] = <<Start>>]
      /\ unsaved' = FALSE /\ unwatched' = {} /\ overlap' \in BOOLEAN
      /\ UNCHANGED <<clock, disk, store, ticking, stage, due, exec, asked>>
  BY DEF Reload, Successor, IInv, TypeOK
<1>2. /\ current \in Nat /\ current' > current
      /\ \A h \in Generations : h > current' => h > current /\ h # current /\ h # current'
  BY <1>1 DEF Generations
<1>3. /\ store[current'] = NotLoaded /\ ~ticking[current'] /\ stage[current'] = "wait"
      /\ exec[current'] = NoJob
  BY <1>1, <1>2 DEF IInv, TypeOK, GenerationsOK, FutureOK, StageOK
<1>4. /\ chain' \in [Generations -> Seq(Operations)] /\ chain'[current'] = <<Start>>
      /\ \A h \in Generations : h # current' => chain'[h] = chain[h]
      /\ timer' \in [Generations -> Times]
      /\ \A h \in Generations : h # current => timer'[h] = timer[h]
  BY <1>1, StartChain DEF IInv, TypeOK, Times
<1>5. TypeOK'
  BY <1>1, <1>4 DEF IInv, TypeOK
<1>6. GenerationsOK'
  <2>1. ASSUME NEW h \in Generations PROVE StageOK(h)'
    <3>1. StageOK(h)
      BY DEF IInv, GenerationsOK
    <3> QED
      BY <1>1, <1>3, <1>4, <3>1 DEF StageOK
  <2>2. ASSUME NEW h \in Generations PROVE FutureOK(h)'
    BY <1>1, <1>2, <1>4 DEF IInv, GenerationsOK, FutureOK
  <2>3. ASSUME NEW h \in Generations PROVE TicksOK(h)'
    <3>1. CASE h = current'
      <4>1. ~ticking'[h] /\ Ticks(chain'[h]) = {}
        BY <1>1, <1>3, <1>4, <3>1, StartChain
      <4> QED
        BY <4>1 DEF TicksOK
    <3>2. CASE h # current'
      BY <1>1, <1>4, <3>2 DEF IInv, GenerationsOK, TicksOK
    <3> QED
      BY <3>1, <3>2
  <2> QED
    BY <2>1, <2>2, <2>3 DEF GenerationsOK
<1>7. FirstOK' /\ TimerOK'
  BY <1>1, <1>3, <1>4, StartChain DEF FirstOK, TimerOK
<1> QED
  BY <1>5, <1>6, <1>7 DEF IInv

LEMMA TimePassesKeeps ==
    ASSUME IInv, TimePasses
    PROVE  IInv'
<1>1. /\ clock \in Nat /\ clock' = clock + 1 /\ clock' \in 1..MaxTime
      /\ UNCHANGED <<disk, current, store, timer, ticking, chain, stage, due, exec, asked,
                     history>>
  BY BoundsAssumption DEF TimePasses, IInv, TypeOK
<1>2. TypeOK' /\ GenerationsOK' /\ FirstOK'
  BY <1>1 DEF IInv, TypeOK, GenerationsOK, StageOK, FutureOK, TicksOK, FirstOK, history
<1>3. TimerOK'
  <2>1. ASSUME NEW k \in DOMAIN store[current], store[current] # NotLoaded,
               Waits(store[current][k]), Covered(store[current][k].next)
        PROVE  Covered(store[current][k].next)'
    <3> DEFINE t == store[current][k].next
    <3>1. t \in Nat /\ timer[current] \in Int
      <4>1. IsStore(store[current])
        BY <2>1 DEF IInv, TypeOK
      <4>2. store[current][k] \in JobRecords
        BY <2>1, <4>1, StoreType
      <4> QED
        BY <2>1, <4>2 DEF IInv, TypeOK, JobRecords, Waits, Times, Unset
    <3>2. timer'[current'] = timer[current] /\ store'[current'][k].next = t
      BY <1>1
    <3>3. timer[current] # Unset /\ timer[current] <= Larger(t, clock)
      BY <2>1 DEF Covered
    <3> HIDE DEF t
    <3>4. Larger(t, clock) <= Larger(t, clock')
      BY <1>1, <3>1 DEF Larger
    <3>5. Larger(t, clock) \in Int /\ Larger(t, clock') \in Int
      BY <1>1, <3>1 DEF Larger
    <3> QED
      BY <3>1, <3>2, <3>3, <3>4, <3>5 DEF Covered
  <2>2. Touched' = Touched /\ unwatched' = unwatched
    BY <1>1 DEF Touched, history
  <2> QED
    BY <1>1, <2>1, <2>2 DEF IInv, TimerOK
<1> QED
  BY <1>2, <1>3 DEF IInv

LEMMA InitOK == Init => IInv
<1> SUFFICES ASSUME Init PROVE IInv
  OBVIOUS
<1>1. TypeOK
  <2>1. 1 \in 1..MaxTime /\ 1 \in Generations /\ 0 \in 0..MaxRequests /\ IsStore(disk)
    BY StoredAssumption, BoundsAssumption, GenerationsAssumption DEF Generations, Init
  <2> QED
    BY <2>1, StartChain DEF Init, TypeOK, Times
<1>2. GenerationsOK
  <2>1. ASSUME NEW h \in Generations PROVE StageOK(h) /\ FutureOK(h) /\ TicksOK(h)
    BY StartChain DEF Init, StageOK, FutureOK, TicksOK, Generations, Unset
  <2> QED
    BY <2>1 DEF GenerationsOK
<1>3. FirstOK /\ TimerOK
  BY <1>1, StartChain DEF Init, TypeOK, FirstOK, TimerOK
<1> QED
  BY <1>1, <1>2, <1>3 DEF IInv

LEMMA StepOK == IInv /\ [Next]_vars => IInv'
<1> SUFFICES ASSUME IInv, [Next]_vars PROVE IInv'
  OBVIOUS
<1>1. CASE UNCHANGED vars
  BY <1>1 DEF vars, history, IInv, TypeOK, GenerationsOK, StageOK, FutureOK, TicksOK, FirstOK,
              TimerOK, Covered, Touched
<1> QED
  BY <1>1, TimerFiresKeeps, BeginKeeps, StartJobKeeps, FinishJobKeeps, PersistKeeps,
     RequestKeeps, CrashKeeps, ReloadKeeps, TimePassesKeeps DEF Next, Advance

LEMMA Invariance == SafetySpec => []IInv
  BY InitOK, StepOK, PTL DEF SafetySpec

--------------------------------------------------------------------------------
(* The theorems *)

\* The store in memory and on disk, the chain and the timer keep their types.
THEOREM TypeCorrect == SafetySpec => []TypeOK
<1>1. IInv => TypeOK
  BY DEF IInv
<1> QED
  BY <1>1, Invariance, PTL

\* However long an operation takes, one tick at most waits behind it, and the running
\* flag says so.
THEOREM TicksArePaced == SafetySpec => []TicksDoNotPileUp
<1>1. IInv => TicksDoNotPileUp
  <2> SUFFICES ASSUME IInv, NEW g \in Generations
               PROVE  Cardinality(Ticks(chain[g])) = IF ticking[g] THEN 1 ELSE 0
    BY DEF TicksDoNotPileUp, Ticks
  <2>1. TicksOK(g)
    BY DEF IInv, GenerationsOK
  <2> QED
    BY <2>1, FS_EmptySet, FS_Singleton DEF TicksOK
<1> QED
  BY <1>1, Invariance, PTL

\* Once the service is at rest, the timer is set for every next run, save those of the jobs
\* that an operation changed before it threw: for all jobs, schedules (with those that are
\* refused), failing writes, reloads and restarts. A tick or a start that throws, and a next
\* run at 0, leave the timer unset for all, until an operation gets through.
THEOREM TimerIsSet == SafetySpec => []TimerCoversNextRuns
<1>1. IInv => TimerCoversNextRuns
  <2> SUFFICES ASSUME IInv, AtRest, NEW k \in DOMAIN store[current] \ unwatched,
                      Waits(store[current][k])
               PROVE  Covered(store[current][k].next)
    BY DEF TimerCoversNextRuns, Covered
  <2>1. current \in Generations /\ chain[current] = <<>> /\ store[current] # NotLoaded
    BY DEF AtRest, IInv, TypeOK
  <2>2. stage[current] = "wait"
    BY <2>1 DEF IInv, GenerationsOK, StageOK
  <2>3. ~ticking[current]
    <3>1. Ticks(chain[current]) = {}
      BY <2>1, StartChain
    <3>2. \A i : {i} # {}
      OBVIOUS
    <3> QED
      BY <2>1, <3>1, <3>2 DEF IInv, GenerationsOK, TicksOK
  <2> QED
    BY <2>1, <2>2, <2>3 DEF IInv, TimerOK, Touched
<1> QED
  BY <1>1, Invariance, PTL

\* The next run of an interval is its nearest slot, whenever one looks.
THEOREM IntervalsKeepTheirSlots == SafetySpec => []NextIsNearestSlot
<1>1. TypeOK => NextIsNearestSlot
  <2> SUFFICES ASSUME TypeOK, NEW s \in Intervals
               PROVE  /\ NextEvery(s, clock) >= clock
                      /\ IsSlot(s, clock, NextEvery(s, clock))
                      /\ \A t \in clock + 1 .. NextEvery(s, clock) - 1 : ~IsSlot(s, clock, t)
    BY DEF NextIsNearestSlot
  <2>1. s \in EveryRun
    BY IntervalsAssumption DEF EveryRun
  <2>2. clock \in Nat
    BY BoundsAssumption DEF TypeOK
  <2> QED
    BY <2>1, <2>2, NearestSlot
<1> QED
  BY <1>1, TypeCorrect, PTL

--------------------------------------------------------------------------------
(* One-shots that are done *)

\* In no store, in memory or on disk, does a job that is done wait for a run.
StoresRest ==
    /\ DoneRests(disk)
    /\ \A g \in Generations : store[g] # NotLoaded => DoneRests(store[g])

LEMMA StoresRestStep == IInv /\ StoresRest /\ [Next]_vars => StoresRest'
<1> SUFFICES ASSUME IInv, StoresRest, [Next]_vars PROVE StoresRest'
  OBVIOUS
<1>1. ASSUME NEW g \in Generations, NEW S, NEW L, DoneRests(L) => DoneRests(S), DoneRests(L),
             store' = [store EXCEPT ![g] = S], disk' = disk
      PROVE  StoresRest'
  BY <1>1 DEF StoresRest, IInv, TypeOK
<1>2. ASSUME NEW g \in Generations, Begin(g) PROVE StoresRest'
  <2>1. PICK S : Outcome(S, Loaded(g), Head(chain[g])) /\ BeginOutcome(g, S)
    BY <1>2, BeginShape DEF IInv
  <2>2. DoneRests(Loaded(g))
    BY DEF StoresRest, Loaded
  <2>3. store' = [store EXCEPT ![g] = S]
    BY <2>1 DEF BeginOutcome, Proceed, Return, Throw
  <2>4. disk' = disk
    BY <1>2, BeginShape DEF IInv, UnchangedByBegin
  <2> QED
    BY <1>1, <2>1, <2>2, <2>3, <2>4 DEF Outcome
<1>3. ASSUME NEW g \in Generations, StartJob(g) PROVE StoresRest'
  <2>1. PICK k \in due[g] : store' = [store EXCEPT ![g] = Running(@, k)]
    BY <1>3 DEF StartJob
  <2>2. /\ k \in DOMAIN store[g] /\ IsStore(store[g]) /\ DoneRests(store[g])
        /\ disk' = disk
    BY <1>3, <2>1 DEF StartJob, IInv, TypeOK, GenerationsOK, StageOK, StoresRest
  <2> DEFINE S == Running(store[g], k)
  <2>3. /\ DOMAIN S = DOMAIN store[g]
        /\ \A i \in DOMAIN S : i # k => S[i] = store[g][i]
        /\ S[k] = [store[g][k] EXCEPT !.running = TRUE]
    BY <2>2 DEF Running
  <2>4. store[g][k] \in JobRecords
    BY <2>2, StoreType
  <2>5. Done(S[k]) => S[k].next = Unset
    <3>1. S[k].sched = store[g][k].sched /\ S[k].last = store[g][k].last
          /\ S[k].next = store[g][k].next
      BY <2>3, <2>4 DEF JobRecords
    <3> QED
      BY <2>2, <3>1 DEF Done, DoneRests
  <2>6. DoneRests(S)
    BY <2>2, <2>3, <2>5 DEF DoneRests
  <2> HIDE DEF S
  <2>7. store' = [store EXCEPT ![g] = S]
    BY <2>1 DEF S
  <2> QED
    BY <1>1, <2>2, <2>6, <2>7
<1>4. ASSUME NEW g \in Generations, NEW status \in Statuses, FinishJob(g, status)
      PROVE  StoresRest'
  <2>1. PICK S : /\ Outcome(S, store[g], Head(chain[g]))
                 /\ \/ Throw(g, S)
                    \/ \E K \in SUBSET DOMAIN S : K \subseteq due[g] /\ Proceed(g, S, K)
    BY <1>4, FinishShape
  <2>2. store' = [store EXCEPT ![g] = S]
    BY <2>1 DEF Proceed, Throw
  <2>3. store[g] # NotLoaded /\ disk' = disk
    BY <1>4, FinishShape
  <2>4. DoneRests(store[g])
    BY <2>3 DEF StoresRest
  <2> QED
    BY <1>1, <2>1, <2>2, <2>3, <2>4 DEF Outcome
<1>5. ASSUME NEW g \in Generations, Persist(g) PROVE StoresRest'
  <2>1. disk' = store[g] /\ store' = store /\ stage[g] = "persist"
    BY <1>5 DEF Persist
  <2>2. store[g] # NotLoaded
    BY <2>1 DEF IInv, GenerationsOK, StageOK
  <2> QED
    BY <2>1, <2>2 DEF StoresRest
<1>6. ASSUME NEW g \in Generations, PersistFails(g) PROVE StoresRest'
  <2>1. disk' = disk /\ store' = [store EXCEPT ![g] = store[g]] /\ stage[g] = "persist"
    BY <1>6 DEF PersistFails, Throw
  <2>2. store[g] # NotLoaded
    BY <2>1 DEF IInv, GenerationsOK, StageOK
  <2>3. DoneRests(store[g])
    BY <2>2 DEF StoresRest
  <2> QED
    BY <1>1, <2>1, <2>3
<1>7. CASE CrashAndRestart
  BY <1>7 DEF CrashAndRestart, StoresRest
<1>8. ASSUME \/ Reload \/ TimePasses \/ (\E g \in Generations : TimerFires(g))
             \/ (\E r \in Requests : Request(r)) \/ UNCHANGED vars
      PROVE  StoresRest'
  BY <1>8 DEF Reload, TimePasses, TimerFires, Request, vars, StoresRest
<1> QED
  BY <1>2, <1>3, <1>4, <1>5, <1>6, <1>7, <1>8 DEF Next, Advance

\* Only the current service does anything, unless one was replaced at work.
QuietOK == \A g \in Generations : g # current => chain[g] = <<>> /\ timer[g] = Unset

\* Between operations the file is what is in memory; a tick has to execute no job that
\* the file says is done.
RecordsOK ==
    /\ store[current] # NotLoaded /\ ~unsaved /\ stage[current] = "wait"
           => disk = store[current]
    /\ ~unsaved /\ stage[current] = "jobs" /\ Head(chain[current]) = Tick
           => \A k \in due[current] \cap DOMAIN disk : ~Done(disk[k])

DoneInv == StoresRest /\ (~overlap => QuietOK /\ RecordsOK)

\* What an operation that goes on, ends or throws leaves of it.
LEMMA ProceedRests ==
    ASSUME IInv, DoneInv, ~overlap, NEW g \in Generations, g = current, NEW S,
           NEW K \in SUBSET DOMAIN S, Proceed(g, S, K),
           UNCHANGED <<disk, current, timer>>,
           ~unsaved /\ Head(chain[g]) = Tick => \A k \in K \cap DOMAIN disk : ~Done(disk[k])
    PROVE  QuietOK' /\ RecordsOK'
<1>1. /\ due'[g] = K /\ stage'[g] # "wait"
      /\ UNCHANGED <<chain, unsaved>>
  BY DEF Proceed, history, IInv, TypeOK
<1> QED
  BY <1>1 DEF DoneInv, QuietOK, RecordsOK

LEMMA ThrowRests ==
    ASSUME IInv, DoneInv, ~overlap, NEW g \in Generations, g = current, NEW S, Throw(g, S),
           UNCHANGED <<disk, current, timer>>
    PROVE  QuietOK' /\ RecordsOK'
<1>1. unsaved' /\ \A h \in Generations : h # g => chain'[h] = chain[h]
  BY DEF Throw, EndOp, IInv, TypeOK
<1> QED
  BY <1>1 DEF DoneInv, QuietOK, RecordsOK

LEMMA BeginRests ==
    ASSUME IInv, DoneInv, ~overlap, NEW g \in Generations, Begin(g)
    PROVE  QuietOK' /\ RecordsOK'
<1> DEFINE r == Head(chain[g])
           L == Loaded(g)
<1>1. /\ UnchangedByBegin /\ stage[g] = "wait" /\ chain[g] # <<>> /\ r \in Operations
      /\ r = Tick => Proceed(g, L, DueJobs(L, clock))
  BY BeginShape DEF IInv
<1>2. g = current /\ UNCHANGED <<disk, current, timer>>
  BY <1>1 DEF DoneInv, QuietOK, UnchangedByBegin
<1>3. /\ r # Start => L = store[g] /\ L # NotLoaded
      /\ ~unsaved /\ r # Start => disk = L
  BY <1>1, <1>2 DEF DoneInv, RecordsOK, IInv, FirstOK, Loaded
<1>4. CASE r = Tick
  <2>1. DueJobs(L, clock) \in SUBSET DOMAIN L /\ r # Start
    BY <1>4, TickFacts DEF DueJobs
  <2>2. DoneRests(L)
    BY DEF Loaded, DoneInv, StoresRest
  <2>3. \A k \in DueJobs(L, clock) : ~Done(L[k])
    BY <2>2 DEF DueJobs, IsDue, Waits, DoneRests
  <2>4. ~unsaved /\ Head(chain[g]) = Tick =>
            \A k \in DueJobs(L, clock) \cap DOMAIN disk : ~Done(disk[k])
    BY <1>3, <2>1, <2>3
  <2> HIDE DEF L
  <2> QED
    BY <1>1, <1>2, <1>4, <2>1, <2>4, ProceedRests
<1>5. CASE r # Tick
  <2>1. PICK S : Outcome(S, L, r) /\ BeginOutcome(g, S)
    BY BeginShape DEF IInv
  <2>2. ASSUME NEW K \in SUBSET DOMAIN S, Proceed(g, S, K) PROVE QuietOK' /\ RecordsOK'
    BY <1>2, <1>5, <2>2, ProceedRests
  <2>3. ASSUME Throw(g, S) PROVE QuietOK' /\ RecordsOK'
    BY <1>2, <2>3, ThrowRests
  <2>4. ASSUME r # Start, Return(g, L) PROVE QuietOK' /\ RecordsOK'
    <3>1. /\ store'[g] = L /\ stage'[g] = "wait"
          /\ \A h \in Generations : h # g => chain'[h] = chain[h]
          /\ unsaved' = unsaved
      BY <2>4 DEF Return, EndOp, history, IInv, TypeOK
    <3> QED
      BY <1>2, <1>3, <2>4, <3>1 DEF DoneInv, QuietOK, RecordsOK
  <2> QED
    BY <2>1, <2>2, <2>3, <2>4 DEF BeginOutcome
<1> QED
  BY <1>4, <1>5

LEMMA StartJobRests ==
    ASSUME IInv, DoneInv, ~overlap, NEW g \in Generations, StartJob(g)
    PROVE  QuietOK' /\ RecordsOK'
<1>1. /\ stage[g] = "jobs" /\ chain[g] # <<>>
      /\ UNCHANGED <<disk, current, timer, chain, stage, due, unsaved>>
  BY DEF StartJob, IInv, GenerationsOK, StageOK, history
<1>2. g = current
  BY <1>1 DEF DoneInv, QuietOK
<1> QED
  BY <1>1, <1>2 DEF DoneInv, QuietOK, RecordsOK

LEMMA FinishJobRests ==
    ASSUME IInv, DoneInv, ~overlap, NEW g \in Generations, NEW status \in Statuses,
           FinishJob(g, status)
    PROVE  QuietOK' /\ RecordsOK'
<1>1. /\ stage[g] = "jobs" /\ chain[g] # <<>> /\ UNCHANGED <<disk, current, timer>>
  BY FinishShape
<1>2. g = current
  BY <1>1 DEF DoneInv, QuietOK
<1>3. PICK S : \/ Throw(g, S)
               \/ \E K \in SUBSET DOMAIN S : K \subseteq due[g] /\ Proceed(g, S, K)
  BY FinishShape
<1>4. CASE Throw(g, S)
  BY <1>1, <1>2, <1>4, ThrowRests
<1>5. ASSUME NEW K \in SUBSET DOMAIN S, K \subseteq due[g], Proceed(g, S, K)
      PROVE  QuietOK' /\ RecordsOK'
  <2>1. ~unsaved /\ Head(chain[g]) = Tick => \A k \in K \cap DOMAIN disk : ~Done(disk[k])
    BY <1>1, <1>2, <1>5 DEF DoneInv, RecordsOK
  <2> QED
    BY <1>1, <1>2, <1>5, <2>1, ProceedRests
<1> QED
  BY <1>3, <1>4, <1>5

LEMMA PersistRests ==
    ASSUME IInv, DoneInv, ~overlap, NEW g \in Generations, Persist(g) \/ PersistFails(g)
    PROVE  QuietOK' /\ RecordsOK'
<1>1. stage[g] = "persist" /\ current' = current
  BY DEF Persist, PersistFails
<1>2. chain[g] # <<>> /\ IsStore(store[g])
  BY <1>1 DEF IInv, TypeOK, GenerationsOK, StageOK
<1>3. g = current
  BY <1>2 DEF DoneInv, QuietOK
<1>4. CASE PersistFails(g)
  BY <1>3, <1>4, ThrowRests DEF PersistFails
<1>5. CASE Persist(g)
  <2>1. /\ stage'[g] = "wait" /\ disk' = store[g] /\ store' = store
        /\ \A h \in Generations : h # g => chain'[h] = chain[h]
    BY <1>5 DEF Persist, EndOp, IInv, TypeOK
  <2>2. \A h \in Generations : h # g => timer'[h] = timer[h]
    BY <1>2, <1>5, Armed DEF Persist, IInv
  <2> QED
    BY <1>1, <1>3, <2>1, <2>2 DEF DoneInv, QuietOK, RecordsOK
<1> QED
  BY <1>4, <1>5

LEMMA ReloadRests ==
    ASSUME IInv, DoneInv, Reload, ~overlap'
    PROVE  QuietOK' /\ RecordsOK'
<1>1. /\ ~overlap /\ chain[current] = <<>> /\ current \in Generations
      /\ current' \in Generations /\ current' = current + 1
      /\ timer' = [timer EXCEPT ![current] = Unset]
      /\ chain' = [chain EXCEPT ![current'] = <<Start>>]
      /\ UNCHANGED <<store, stage>>
  BY DEF Reload, Successor, IInv, TypeOK
<1>2. current' > current /\ current' # current
  BY <1>1 DEF Generations
<1>3. store[current'] = NotLoaded /\ stage[current'] = "wait"
  BY <1>1, <1>2 DEF IInv, GenerationsOK, FutureOK, StageOK
<1>4. QuietOK'
  BY <1>1 DEF DoneInv, QuietOK, IInv, TypeOK
<1> QED
  BY <1>1, <1>3, <1>4 DEF RecordsOK

LEMMA DoneStep == IInv /\ DoneInv /\ [Next]_vars => DoneInv'
<1> SUFFICES ASSUME IInv, DoneInv, [Next]_vars, ~overlap' PROVE QuietOK' /\ RecordsOK'
  BY StoresRestStep DEF DoneInv
<1>1. CASE Reload
  BY <1>1, ReloadRests
<1>2. CASE CrashAndRestart
  <2>1. /\ store'[current'] = NotLoaded /\ stage'[current'] = "wait"
        /\ \A h \in Generations : h # current' => chain'[h] = <<>> /\ timer'[h] = Unset
    BY <1>2 DEF CrashAndRestart, Successor
  <2> QED
    BY <2>1 DEF DoneInv, QuietOK, RecordsOK
<1>3. ASSUME NEW g \in Generations, TimerFires(g) PROVE QuietOK' /\ RecordsOK'
  <2>1. /\ timer[g] # Unset /\ timer' = [timer EXCEPT ![g] = Unset] /\ ~overlap
        /\ \A h \in Generations : h # g => chain'[h] = chain[h]
        /\ UNCHANGED <<disk, current, store, stage, due, unsaved>>
    BY <1>3 DEF TimerFires, history, IInv, TypeOK
  <2>2. g = current
    BY <2>1 DEF DoneInv, QuietOK
  <2>3. chain[g] # <<>> => Head(chain'[g]) = Head(chain[g])
    <3>1. chain'[g] = chain[g] \/ chain'[g] = Append(chain[g], Tick)
      BY <1>3 DEF TimerFires, IInv, TypeOK
    <3>2. chain[g] \in Seq(Operations)
      BY DEF IInv, TypeOK
    <3> QED
      BY <3>1, <3>2, TickFacts, AppendTicks
  <2>4. stage[g] = "jobs" => chain[g] # <<>>
    BY DEF IInv, GenerationsOK, StageOK
  <2>5. \A h \in Generations : h # g => timer'[h] = timer[h]
    BY <2>1 DEF IInv, TypeOK
  <2> QED
    BY <2>1, <2>2, <2>3, <2>4, <2>5 DEF DoneInv, QuietOK, RecordsOK
<1>4. ASSUME NEW r \in Requests, Request(r) PROVE QuietOK' /\ RecordsOK'
  <2>1. /\ chain' = [chain EXCEPT ![current] = Append(@, r)] /\ ~overlap
        /\ UNCHANGED <<disk, current, store, timer, stage, due, unsaved>>
        /\ r \in Operations /\ current \in Generations
    BY <1>4, RequestsAssumption DEF Request, history, IInv, TypeOK
  <2>2. /\ chain[current] # <<>> => Head(chain'[current]) = Head(chain[current])
        /\ \A h \in Generations : h # current => chain'[h] = chain[h]
    BY <2>1, AppendTicks DEF IInv, TypeOK
  <2>3. stage[current] = "jobs" => chain[current] # <<>>
    BY <2>1 DEF IInv, GenerationsOK, StageOK
  <2> QED
    BY <2>1, <2>2, <2>3 DEF DoneInv, QuietOK, RecordsOK
<1>5. CASE TimePasses
  BY <1>5 DEF TimePasses, history, DoneInv, QuietOK, RecordsOK
<1>6. ASSUME NEW g \in Generations, Advance(g) PROVE QuietOK' /\ RecordsOK'
  <2>1. ~overlap
    BY <1>6 DEF Advance, Begin, BeginStart, BeginTick, BeginStatus, BeginAdd, BeginUpdate,
                BeginRemove, BeginRun, Proceed, Return, Throw, StartJob, FinishJob, Persist,
                PersistFails, history
  <2> QED
    BY <1>6, <2>1, BeginRests, StartJobRests, FinishJobRests, PersistRests DEF Advance
<1>7. CASE UNCHANGED vars
  BY <1>7 DEF vars, history, DoneInv, QuietOK, RecordsOK
<1> QED
  BY <1>1, <1>2, <1>3, <1>4, <1>5, <1>6, <1>7 DEF Next

\* For the execution of a job by a tick.
LEMMA ExecutedIsOpen ==
    ASSUME IInv, DoneInv, [Next]_vars, NEW g \in Generations, NEW k \in Jobs,
           exec[g] = NoJob, exec'[g] = k, Head(chain[g]) = Tick, k \in DOMAIN disk,
           ~overlap, ~unsaved
    PROVE  ~Done(disk[k])
<1>1. exec' # exec
  BY NoJobAssumption
<1>2. PICK h \in Generations : StartJob(h) \/ \E status \in Statuses : FinishJob(h, status)
  <2>1. ~CrashAndRestart
    BY NoJobAssumption DEF CrashAndRestart
  <2> QED
    BY <1>1, <2>1 DEF Next, Advance, Begin, BeginStart, BeginTick, BeginStatus, BeginAdd,
        BeginUpdate, BeginRemove, BeginRun, UnchangedByBegin, Persist, PersistFails,
        TimerFires, Request, Reload, TimePasses, vars
<1>3. StartJob(h)
  <2> SUFFICES ASSUME NEW status \in Statuses, FinishJob(h, status) PROVE FALSE
    BY <1>2
  <2>1. exec' = [exec EXCEPT ![h] = NoJob]
    BY DEF FinishJob
  <2> QED
    BY <2>1, NoJobAssumption DEF IInv, TypeOK
<1>4. PICK i \in due[h] : exec' = [exec EXCEPT ![h] = i]
  BY <1>3 DEF StartJob
<1>5. h = g /\ i = k /\ stage[g] = "jobs"
  BY <1>3, <1>4, NoJobAssumption DEF StartJob, IInv, TypeOK
<1>6. g = current
  BY <1>5 DEF DoneInv, QuietOK, IInv, GenerationsOK, StageOK
<1> QED
  BY <1>4, <1>5, <1>6 DEF DoneInv, RecordsOK

\* The timer executes no one-shot that is recorded as done, whatever was edited, crashed
\* or reloaded since.
THEOREM DoneStaysDone == SafetySpec => OneShotStaysDone
<1>1. Init => DoneInv
  <2>1. 1 \in Generations
    BY GenerationsAssumption DEF Generations
  <2> QED
    BY <2>1, StoredAssumption
    DEF Init, DoneInv, StoresRest, DoneRests, Done, QuietOK, RecordsOK
<1>2. IInv /\ DoneInv /\ [Next]_vars =>
          [\A g \in Generations, k \in Jobs :
              /\ exec[g] = NoJob /\ exec'[g] = k
              /\ Head(chain[g]) = Tick
              /\ k \in DOMAIN disk /\ ~overlap /\ ~unsaved
              => ~(disk[k].sched.kind = "at" /\ disk[k].last = "ok")]_vars
  BY ExecutedIsOpen DEF Done
<1> QED
  BY <1>1, <1>2, DoneStep, Invariance, PTL DEF SafetySpec, OneShotStaysDone
================================================================================
